-------------------------------- MODULE Outbox --------------------------------
(***************************************************************************)
(* The MES gateway: the transactional outbox of include/aero/mes/          *)
(* outbox.hpp over a DurableState (core/persistent_actor.hpp), the REST    *)
(* adapter's classification of answers (mes/rest_mes_adapter.hpp) and the  *)
(* MES on the other side.                                                  *)
(*                                                                         *)
(* The gateway is one sequential actor, so its handlers do not interleave  *)
(* with each other; they do interleave with crashes of the node, with the  *)
(* MES going down and coming back, and a POST may be processed though its  *)
(* answer is lost.  An entry's idempotency key is line:kind:seq; all       *)
(* reports here are of one line and kind, where only seq tells keys apart. *)
(***************************************************************************)
EXTENDS Integers, Sequences, FiniteSets

CONSTANTS
    Report,              \* the reports flows hand to the gateway, each once
    StoreSurvivesCrash,  \* a Store on disk; FALSE for quark::InMemoryStore
    CheckpointMayFail,   \* whether checkpoint() may return false
    MaxCrashes,          \* bound: node crashes in a behaviour
    MaxOutages           \* bound: times the MES goes down in a behaviour

ASSUME OutboxAssumption ==
    /\ StoreSurvivesCrash \in BOOLEAN
    /\ CheckpointMayFail \in BOOLEAN
    /\ MaxCrashes \in Nat
    /\ MaxOutages \in Nat

VARIABLES
    pc,        \* where the gateway's handler is; "down" after a crash
    mem,       \* DurableState::state_, the OutboxState in memory
    store,     \* the snapshot in the Store
    submitted, \* reports already sent to the gateway
    up,        \* the MES answers
    log,       \* the MES's records after dedup by idempotency key
    accepted,  \* history: reports stage() has returned a key for, in order
    refused,   \* history: reports erased after a 4xx and not recorded
    crashes, outages

vars == <<pc, mem, store, submitted, up, log, accepted, refused, crashes, outages>>

Entry == [seq : Nat, report : Report]

OutboxState == [next_seq : Nat, pending : Seq(Entry)]

EmptyState == [next_seq |-> 0, pending |-> << >>]

Init ==
    /\ pc = "idle"
    /\ mem = EmptyState
    /\ store = EmptyState
    /\ submitted = {}
    /\ up = TRUE
    /\ log = << >>
    /\ accepted = << >>
    /\ refused = {}
    /\ crashes = 0
    /\ outages = 0

ElementsOf(s) == {s[i] : i \in 1..Len(s)}

ReportsIn(s) == {e.report : e \in ElementsOf(s)}

SeqsIn(s) == {e.seq : e \in ElementsOf(s)}

-----------------------------------------------------------------------------
(* DurableState                                                            *)

(* checkpoint(): the state is written out whole; its result is ignored by  *)
(* every caller, so a failed write leaves the old snapshot and goes on.    *)
Checkpoint(state) ==
    \/ store' = state
    \/ CheckpointMayFail /\ UNCHANGED store

(* Mutant: the activation starts from the initial state.                   *)
RecoverInitial ==
    /\ pc = "down"
    /\ mem' = EmptyState
    /\ pc' = "idle"
    /\ UNCHANGED <<store, submitted, up, log, accepted, refused, crashes, outages>>

(* recover() on activation: the last snapshot, or the initial state.  What *)
(* was written can be read back: a snapshot that does not load would also  *)
(* start from the initial state (persistent_actor.hpp:43-49).              *)
Recover ==
    /\ pc = "down"
    /\ mem' = store
    /\ pc' = "idle"
    /\ UNCHANGED <<store, submitted, up, log, accepted, refused, crashes, outages>>

-----------------------------------------------------------------------------
(* Outbox and MesGatewayActor                                              *)

(* Mutant: keys are numbered by the length of the outbox.                  *)
StageReportByLength(r) ==
    /\ pc = "idle"
    /\ r \notin submitted
    /\ submitted' = submitted \cup {r}
    /\ LET seq == Len(mem.pending) + 1
       IN  mem' = [next_seq |-> seq,
                   pending  |-> Append(mem.pending, [seq |-> seq, report |-> r])]
    /\ pc' = "staged"
    /\ UNCHANGED <<store, up, log, accepted, refused, crashes, outages>>

(* handle(StageReport), stage() up to its checkpoint.                      *)
StageReport(r) ==
    /\ pc = "idle"
    /\ r \notin submitted
    /\ submitted' = submitted \cup {r}
    /\ LET seq == mem.next_seq + 1
       IN  mem' = [next_seq |-> seq,
                   pending  |-> Append(mem.pending, [seq |-> seq, report |-> r])]
    /\ pc' = "staged"
    /\ UNCHANGED <<store, up, log, accepted, refused, crashes, outages>>

(* Mutant: the key is returned before the checkpoint.                      *)
StageNoCheckpoint ==
    /\ pc = "staged"
    /\ accepted' = Append(accepted, mem.pending[Len(mem.pending)].report)
    /\ pc' = "drain"
    /\ UNCHANGED <<mem, store, submitted, up, log, refused, crashes, outages>>

(* stage() checkpoints and returns the key; the handler goes on to drain.  *)
StageCheckpoint ==
    /\ pc = "staged"
    /\ Checkpoint(mem)
    /\ accepted' = Append(accepted, mem.pending[Len(mem.pending)].report)
    /\ pc' = "drain"
    /\ UNCHANGED <<mem, submitted, up, log, refused, crashes, outages>>

(* handle(DrainOutbox): somebody nudges the gateway.                       *)
DrainOutbox ==
    /\ pc = "idle"
    /\ pc' = "drain"
    /\ UNCHANGED <<mem, store, submitted, up, log, accepted, refused, crashes, outages>>

(* drain() finds nothing left to send.                                     *)
DrainEmpty ==
    /\ pc = "drain"
    /\ mem.pending = << >>
    /\ pc' = "idle"
    /\ UNCHANGED <<mem, store, submitted, up, log, accepted, refused, crashes, outages>>

(* The MES records a POST unless it has seen its key before.               *)
Recorded(e) ==
    IF e.seq \in SeqsIn(log) THEN log ELSE Append(log, e)

(* report() of the front entry, a 2xx answer.                              *)
ReportDelivered ==
    /\ pc = "drain"
    /\ mem.pending # << >>
    /\ up
    /\ log' = Recorded(Head(mem.pending))
    /\ pc' = "delivered"
    /\ UNCHANGED <<mem, store, submitted, up, accepted, refused, crashes, outages>>

(* report() of the front entry, a 4xx answer (perhaps to a repeated POST). *)
ReportRejected ==
    /\ pc = "drain"
    /\ mem.pending # << >>
    /\ up
    /\ pc' = "rejected"
    /\ UNCHANGED <<mem, store, submitted, up, log, accepted, refused, crashes, outages>>

(* Mutant: drain() goes on past an entry that must be retried.             *)
ReportRetryRequeues ==
    /\ pc = "drain"
    /\ mem.pending # << >>
    /\ ~up
    /\ mem' = [mem EXCEPT !.pending = Append(Tail(@), Head(@))]
    /\ log' \in {log, Recorded(Head(mem.pending))}
    /\ pc' = "idle"
    /\ UNCHANGED <<store, submitted, up, accepted, refused, crashes, outages>>

(* Mutant: a failed POST erases its entry like a delivered one.            *)
ReportRetryErases ==
    /\ pc = "drain"
    /\ mem.pending # << >>
    /\ ~up
    /\ mem' = [mem EXCEPT !.pending = Tail(@)]
    /\ log' \in {log, Recorded(Head(mem.pending))}
    /\ pc' = "idle"
    /\ UNCHANGED <<store, submitted, up, accepted, refused, crashes, outages>>

(* report() of the front entry fails: unreachable, timed out, 5xx or 429.  *)
(* The MES may have recorded the POST before its answer was lost.  drain() *)
(* breaks off and keeps the entry.                                         *)
ReportRetry ==
    /\ pc = "drain"
    /\ mem.pending # << >>
    /\ ~up
    /\ log' \in {log, Recorded(Head(mem.pending))}
    /\ pc' = "idle"
    /\ UNCHANGED <<mem, store, submitted, up, accepted, refused, crashes, outages>>

(* The front entry is erased, Delivered or Rejected alike, and the shorter *)
(* outbox checkpointed.                                                    *)
EraseCheckpoint ==
    /\ pc \in {"delivered", "rejected"}
    /\ mem' = [mem EXCEPT !.pending = Tail(@)]
    /\ Checkpoint(mem')
    /\ refused' = IF pc = "rejected" /\ Head(mem.pending).seq \notin SeqsIn(log)
                    THEN refused \cup {Head(mem.pending).report} ELSE refused
    /\ pc' = "drain"
    /\ UNCHANGED <<submitted, up, log, accepted, crashes, outages>>

-----------------------------------------------------------------------------
(* The environment                                                         *)

(* The node dies wherever the handler is; memory is gone, and with it the  *)
(* Store if it is the in-memory one.                                       *)
Crash ==
    /\ pc # "down"
    /\ crashes < MaxCrashes
    /\ crashes' = crashes + 1
    /\ pc' = "down"
    /\ mem' = EmptyState
    /\ store' = IF StoreSurvivesCrash THEN store ELSE EmptyState
    /\ UNCHANGED <<submitted, up, log, accepted, refused, outages>>

MesDown ==
    /\ up
    /\ outages < MaxOutages
    /\ outages' = outages + 1
    /\ up' = FALSE
    /\ UNCHANGED <<pc, mem, store, submitted, log, accepted, refused, crashes>>

MesUp ==
    /\ ~up
    /\ up' = TRUE
    /\ UNCHANGED <<pc, mem, store, submitted, log, accepted, refused, crashes, outages>>

-----------------------------------------------------------------------------

Gateway ==
    \/ StageCheckpoint
    \/ DrainEmpty
    \/ ReportDelivered
    \/ ReportRejected
    \/ ReportRetry
    \/ EraseCheckpoint
    \/ Recover

Next ==
    \/ \E r \in Report : StageReport(r)
    \/ DrainOutbox
    \/ Gateway
    \/ Crash
    \/ MesDown
    \/ MesUp

(* A handler that has begun runs on, and a crashed node is restarted.      *)
Fairness == WF_vars(Gateway)

Spec == Init /\ [][Next]_vars /\ Fairness

-----------------------------------------------------------------------------
(* Properties                                                              *)

(* Every variable has its type.                                            *)
TypeOK ==
    /\ pc \in {"idle", "staged", "drain", "delivered", "rejected", "down"}
    /\ mem \in OutboxState
    /\ store \in OutboxState
    /\ submitted \in SUBSET Report
    /\ up \in BOOLEAN
    /\ log \in Seq(Entry)
    /\ accepted \in Seq(Report)
    /\ refused \in SUBSET Report
    /\ crashes \in Nat
    /\ outages \in Nat

(* M3: a report stage() accepted is never dropped: it is in the durable    *)
(* snapshot, or the MES recorded it, or the MES refused it for good;       *)
(* wherever the node crashes and whatever the MES answers.                 *)
NeverDropped ==
    \A i \in 1..Len(accepted) :
        accepted[i] \in ReportsIn(store.pending) \cup ReportsIn(log) \cup refused

(* The MES, deduping by key, records the reports in the order they were    *)
(* staged: a Retry stops the drain, so nothing overtakes the front entry   *)
(* (the break in drain()).                                                 *)
RecordedInOrder ==
    \A i, j \in 1..Len(log) : i < j => log[i].seq < log[j].seq

(* An idempotency key is never reused for another report: what is pending  *)
(* under a key the MES already knows is the very report it recorded, so    *)
(* its dedup never swallows a different one (next_seq is durable).         *)
KeyNamesOneReport ==
    \A e \in ElementsOf(mem.pending) \cup ElementsOf(store.pending), f \in ElementsOf(log) :
        e.seq = f.seq => e.report = f.report

(* What the durable snapshot still owes the MES: all of it, but for a front *)
(* entry that the MES has recorded and drain() has not erased yet.         *)
Owed ==
    IF store.pending # << >> /\ Head(store.pending).seq \in SeqsIn(log)
      THEN Tail(store.pending) ELSE store.pending

ReportsOf(s) == [i \in 1..Len(s) |-> s[i].report]

Promise == INSTANCE ReportingService
    WITH queue <- ReportsOf(Owed), recorded <- ReportsOf(log), refused <- refused

(* The outbox implements the reporting service: whatever crashes and       *)
(* outages happen, the MES sees an in-order, exactly-once stream of the    *)
(* accepted reports (stage(), drain() and recover() together).             *)
ImplementsPromise == Promise!Spec

(* If the MES stays up in the end and the gateway keeps being nudged,      *)
(* every accepted report is settled (drain() makes progress after any      *)
(* crash or outage; nothing but a nudge restarts it).                      *)
EventuallySettled ==
    (<>[]up /\ []<><<DrainOutbox>>_vars) =>
        \A r \in Report :
            r \in ElementsOf(accepted) ~> r \in ReportsIn(log) \cup refused

=============================================================================
