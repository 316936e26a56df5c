--------------------------- MODULE ReportingService ---------------------------
(***************************************************************************)
(* What the MES hook promises a flow (invariant M3 of the repository's     *)
(* specification 012): a report that was accepted is recorded by the MES   *)
(* exactly once and in the order of acceptance, unless the MES rejects it. *)
(* There is no node, no store and no outage here: a crash is invisible.    *)
(***************************************************************************)
EXTENDS Sequences

CONSTANT Report

VARIABLES
    queue,     \* accepted reports the MES has not settled, oldest first
    recorded,  \* the reports the MES has recorded, in order
    refused    \* the reports the MES has refused for good

Init ==
    /\ queue = << >>
    /\ recorded = << >>
    /\ refused = {}

Accept(r) ==
    /\ queue' = Append(queue, r)
    /\ UNCHANGED <<recorded, refused>>

Record ==
    /\ queue # << >>
    /\ queue' = Tail(queue)
    /\ recorded' = Append(recorded, Head(queue))
    /\ UNCHANGED refused

Refuse ==
    /\ queue # << >>
    /\ queue' = Tail(queue)
    /\ refused' = refused \cup {Head(queue)}
    /\ UNCHANGED recorded

Next == (\E r \in Report : Accept(r)) \/ Record \/ Refuse

Spec == Init /\ [][Next]_<<queue, recorded, refused>>
=============================================================================
