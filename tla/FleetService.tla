------------------------------ MODULE FleetService ------------------------------
(***************************************************************************)
(* The runtime's fleet service (include/aero/runtime/runtime.hpp) around   *)
(* the rollouts of Fleet: configure_fleet with one node or with a live     *)
(* membership, the thread that ticks the membership, the placement of the  *)
(* device actors (cluster/cluster.hpp, cluster/placement.hpp) and the      *)
(* destructor.  Every call holds the runtime's mutex for its whole body,   *)
(* so it is one step; a rollout is many steps under the mutex.             *)
(*                                                                         *)
(* The failure detector and the weighted hash that picks a node are        *)
(* Quark's: the first reports any set of nodes at any time, the second     *)
(* takes the candidate of the highest score.                               *)
(***************************************************************************)
EXTENDS Fleet

CONSTANTS
    Node,        \* every node that may be seen
    Seeds,       \* the peers in this node's configuration
    FlagsOf,     \* the flags configured for each of them
    Required, Preferred,  \* the flags each device asks for and would like
    Score,       \* the weighted hash of each device and node
    MaxChanges   \* bound: changes of the membership

DefaultSelf == 1   \* self_node_id_ as constructed
LiveSelf == 2      \* membership.self of the configuration
Unplaced == 0

ASSUME ServiceAssumption ==
    /\ IsFiniteSet(Node) /\ Node \subseteq Nat \ {Unplaced}
    /\ {DefaultSelf, LiveSelf} \subseteq Node
    /\ Seeds \subseteq Node
    /\ FlagsOf \in [Node -> SUBSET STRING]
    /\ \A d \in UNION {1..n : n \in FleetSizes} :
          /\ Required[d] \subseteq STRING /\ Preferred[d] \subseteq STRING
          /\ \A n, m \in Node : Score[d][n] \in Nat /\ (Score[d][n] = Score[d][m] => n = m)
    /\ MaxChanges \in Nat

VARIABLES
    mode,      \* "none" before configure_fleet, then "single" or "live"
    self,      \* self_node_id_
    transport, \* cluster_transport_: "none", "failed", "up" or "stopped"
    member,    \* what the failure detector reports
    view,      \* cluster_->view_
    placement, \* placement_
    ticker,    \* swim_tick_thread_
    running,   \* swim_tick_running_
    closing,   \* how far the destructor is
    changes

service == <<mode, self, transport, member, view, placement, ticker, running, closing, changes>>
allVars == <<vars, service>>

MutexFree == state # "Running"

\* A node that is not configured has no capabilities.
CapabilitiesOf(n, me) == IF n \in Seeds \cup {me} THEN FlagsOf[n] ELSE {}

Eligible(d, nodes, me) == {n \in nodes : Required[d] \subseteq CapabilitiesOf(n, me)}

Winner(d, nodes) == CHOOSE n \in nodes : \A m \in nodes : Score[d][n] >= Score[d][m]

\* Mutant: the preferred nodes are used only when they are the majority.
PlacePreferredMajority(d, nodes, me) ==
    LET eligible == Eligible(d, nodes, me)
        preferred == {n \in eligible : Preferred[d] \subseteq CapabilitiesOf(n, me)}
    IN IF eligible = {} THEN Unplaced
       ELSE Winner(d, IF 2 * Cardinality(preferred) > Cardinality(eligible)
                      THEN preferred ELSE eligible)

\* The required flags filter, the preferred ones narrow if they can.
Place(d, nodes, me) ==
    LET eligible == Eligible(d, nodes, me)
        preferred == {n \in eligible : Preferred[d] \subseteq CapabilitiesOf(n, me)}
    IN IF eligible = {} THEN Unplaced
       ELSE Winner(d, IF preferred = {} THEN eligible ELSE preferred)

PlaceActors(nodes, me) == [d \in Device |-> Place(d, nodes, me)]

\* Mutant: the view is refreshed and the placement is not.
RefreshViewOnly(nodes, me) == view' = nodes /\ placement' = placement

\* ClusterView::refresh and place_actors.
Refresh(nodes, me) == view' = nodes /\ placement' = PlaceActors(nodes, me)

ServiceInit ==
    /\ Init
    /\ mode = "none" /\ self = DefaultSelf /\ transport = "none"
    /\ member = {LiveSelf} /\ view = {} /\ placement = [d \in Device |-> Unplaced]
    /\ ticker = "none" /\ running = FALSE /\ closing = "open" /\ changes = 0

(***************************************************************************)
(* configure_fleet.                                                        *)
(***************************************************************************)
Callable == MutexFree /\ closing = "open"

ConfigureSingle ==
    /\ Callable /\ mode = "none"
    /\ mode' = "single"
    /\ Refresh({self}, self)
    /\ UNCHANGED <<vars, self, transport, member, ticker, running, closing, changes>>

\* The listener cannot be opened; the node id stays as it was set.
ConfigureLiveFails ==
    /\ Callable /\ mode = "none"
    /\ self' = LiveSelf
    /\ transport' = "failed"
    /\ UNCHANGED <<vars, mode, member, view, placement, ticker, running, closing, changes>>

\* Mutant: the thread may start before its flag is set.
ConfigureLiveFlagLate ==
    /\ Callable /\ mode = "none"
    /\ self' = LiveSelf
    /\ transport' = "up"
    /\ mode' = "live"
    /\ Refresh(member, LiveSelf)
    /\ ticker' \in {"sleeping", "exited"} /\ running' = TRUE
    /\ UNCHANGED <<vars, member, closing, changes>>

ConfigureLive ==
    /\ Callable /\ mode = "none"
    /\ self' = LiveSelf
    /\ transport' = "up"
    /\ mode' = "live"
    /\ Refresh(member, LiveSelf)
    /\ ticker' = "sleeping" /\ running' = TRUE
    /\ UNCHANGED <<vars, member, closing, changes>>

(***************************************************************************)
(* The tick thread: it looks at its flag, then takes the mutex.            *)
(***************************************************************************)
TickWakes ==
    /\ ticker = "sleeping"
    /\ ticker' = IF running THEN "locking" ELSE "exited"
    /\ UNCHANGED <<vars, mode, self, transport, member, view, placement, running, closing, changes>>

Tick ==
    /\ ticker = "locking" /\ MutexFree
    /\ Refresh(member, self)
    /\ ticker' = "sleeping"
    /\ UNCHANGED <<vars, mode, self, transport, member, running, closing, changes>>

\* The failure detector's verdict changes.
Detect ==
    /\ transport = "up" /\ changes < MaxChanges
    /\ \E nodes \in SUBSET Node : LiveSelf \in nodes /\ nodes # member /\ member' = nodes
    /\ changes' = changes + 1
    /\ UNCHANGED <<vars, mode, self, transport, view, placement, ticker, running, closing>>

(***************************************************************************)
(* start_rollout is refused until the fleet is configured; the mutex is    *)
(* held from its first step to its last.                                   *)
(***************************************************************************)
ServiceStartRollout == Callable /\ mode # "none" /\ StartRollout /\ UNCHANGED service
ServiceRollout == Rollout /\ UNCHANGED service

(***************************************************************************)
(* ~Runtime: the flag, the join, the transport.                            *)
(***************************************************************************)
CloseFlag ==
    /\ Callable
    /\ closing' = "flag" /\ running' = FALSE
    /\ UNCHANGED <<vars, mode, self, transport, member, view, placement, ticker, changes>>

Joinable == ticker \in {"none", "exited"}

CloseTransport ==
    /\ closing = "flag" /\ Joinable
    /\ closing' = "done"
    /\ transport' = IF transport = "none" THEN "none" ELSE "stopped"
    /\ UNCHANGED <<vars, mode, self, member, view, placement, ticker, running, changes>>

Ticker == TickWakes \/ Tick

ServiceNext ==
    \/ ConfigureSingle
    \/ ConfigureLiveFails
    \/ ConfigureLive
    \/ Ticker
    \/ Detect
    \/ ServiceStartRollout
    \/ ServiceRollout
    \/ CloseFlag
    \/ CloseTransport

\* The thread wakes after its interval and gets the mutex, which no call
\* keeps for ever; a rollout and the destructor run to their end.
ServiceSpec ==
    /\ ServiceInit /\ [][ServiceNext]_allVars
    /\ WF_allVars(Ticker) /\ WF_allVars(ServiceRollout) /\ WF_allVars(CloseTransport)

(***************************************************************************)
(* Properties.                                                             *)
(***************************************************************************)
\* What fleet_status() reports: the nodes and where each device is.
FleetStatus == [nodes |-> view, devices |-> placement]

\* The reported placement is always that of the reported nodes: a device is
\* on a node that has all it requires, on one it prefers if there is one, and
\* on none only if no node will do (place, the tick thread's lock).
PlacementFollowsView ==
    mode # "none" => \A d \in Device :
        LET able == {n \in FleetStatus.nodes : Required[d] \subseteq CapabilitiesOf(n, self)}
            liked == {n \in able : Preferred[d] \subseteq CapabilitiesOf(n, self)}
        IN CASE liked # {} -> FleetStatus.devices[d] \in liked
             [] liked = {} /\ able # {} -> FleetStatus.devices[d] \in able
             [] able = {} -> FleetStatus.devices[d] = Unplaced

\* Nodes that leave move only the devices they had.
StablePlacement ==
    [][view' \subseteq view => \A d \in Device :
          placement[d] \in view' => placement'[d] = placement[d]]_<<view, placement>>

\* The reported nodes catch up with the failure detector, rollouts and
\* destructor permitting.
ViewCatchesUp ==
    (mode = "live" /\ view # member) ~> (view = member \/ closing # "open")
================================================================================
