------------------------------- MODULE Deployment -------------------------------
(***************************************************************************)
(* The runtime's one deployed Application (include/aero/runtime/           *)
(* runtime.hpp): deploy, reload, rollback and undeploy called by the API's *)
(* request threads, the FlowActor and its mailbox (runtime/flow_actor.hpp) *)
(* and the driver lane of producer, stream channel and bridge thread.      *)
(*                                                                         *)
(* mtx_ makes each call exclusive, but a call that waits for the actor or  *)
(* for a thread keeps it, and the actor, producer and bridge run without   *)
(* it.  A compiled plan is a number, the N-th compiled; destroying one     *)
(* takes it out of alive.  The mailbox (FIFO, one executor) and the stream *)
(* channel are Quark's and modelled from how the runtime uses them.        *)
(***************************************************************************)
EXTENDS Integers, Sequences

CONSTANTS
    App,              \* the versions of Applications that are posted
    Other,            \* those of another name, actor or persistence
    Broken,           \* those compile_flow rejects
    None,             \* nothing deployed, no previous version, no caller
    Caller,           \* request threads of the REST API
    DriverChecksStop, \* whether the driver looks at its StopToken in a stall
    Capacity,         \* credits of the stream channel (256 in the code)
    FrameCount,       \* bound: frames the driver produces
    MaxPlans          \* bound: plans compiled in a behaviour

ASSUME DeploymentAssumption ==
    /\ Other \subseteq App /\ Broken \subseteq App
    /\ None \notin App \cup Caller /\ None \notin [app : App, plan : Nat]
    /\ DriverChecksStop \in BOOLEAN
    /\ Capacity \in Nat \ {0} /\ FrameCount \in Nat /\ MaxPlans \in Nat

VARIABLES
    mtx,          \* mtx_: the caller holding it, or None
    call,         \* where each caller is, and its argument
    dep,          \* dep_: the app and plan deployed, or None
    previous_app, \* previous_app_
    plans,        \* plans compiled so far; plans[n] is plan n's app
    alive,        \* plans not destroyed
    bound,        \* the plan the actor is bound to
    mailbox,      \* the actor's mailbox
    replied,      \* callers whose GetStatus was answered
    stop_flag, producer, stream, bridge,
    produced,     \* frames pushed into the stream so far
    processed,    \* history: frames the actor ran, with the plan used
    lineage,      \* history: the apps this deployment has run, in order
    undone        \* history: what rollbacks installed, and should have

laneVars == <<stop_flag, producer, stream, bridge, produced>>
actorVars == <<bound, mailbox, processed, replied>>
memVars == <<plans, alive>>
vars == <<mtx, call, dep, previous_app, memVars, actorVars, laneVars, lineage, undone>>

Idle == [op |-> "none", arg |-> None, plan |-> 0]

Init ==
    /\ mtx = None
    /\ call = [c \in Caller |-> Idle]
    /\ dep = None /\ previous_app = None
    /\ plans = << >> /\ alive = {}
    /\ bound = 0 /\ mailbox = << >> /\ processed = << >> /\ replied = {}
    /\ stop_flag = FALSE /\ producer = "none" /\ stream = << >> /\ bridge = "none" /\ produced = 0
    /\ lineage = << >> /\ undone = {}

(* classify_buildonly: the change cannot be swapped in live.               *)
BuildOnly(a, b) == (a \in Other) # (b \in Other)

(* c takes mtx_ on its way into a call.                                    *)
Enter(c, op) == mtx = None /\ call[c].op = op

Return(c) == mtx' = None /\ call' = [call EXCEPT ![c] = Idle]

-----------------------------------------------------------------------------
(* deploy                                                                  *)

(* compile_flow succeeds; actor, engine and driver threads are started.  A *)
(* deploy refused, for its flow or for a driver that cannot be created or  *)
(* opened (runtime.hpp:428-442, 511-514), leaves everything as it was.     *)
Deploy(c, a) ==
    /\ Enter(c, "none") /\ dep = None
    /\ a \notin Broken /\ Len(plans) < MaxPlans
    /\ LET p == Len(plans) + 1
       IN  /\ plans' = Append(plans, a)
           /\ alive' = alive \cup {p}
           /\ bound' = p
           /\ dep' = [app |-> a, plan |-> p]
    /\ mailbox' = << >> /\ processed' = << >> /\ replied' = {}
    /\ stop_flag' = FALSE /\ producer' = "next" /\ stream' = << >> /\ bridge' = "top" /\ produced' = 0
    /\ lineage' = <<a>>
    /\ UNCHANGED <<mtx, call, previous_app, undone>>

-----------------------------------------------------------------------------
(* reload, called directly or by rollback                                  *)

Reloading == {"none", "rollback"}

(* The new plan is compiled and a ReloadFlow told to the actor.            *)
ReloadTell(c, a) ==
    /\ mtx = None /\ call[c].op \in Reloading /\ dep # None
    /\ call[c].op = "rollback" => a = call[c].arg
    /\ ~BuildOnly(dep.app, a) /\ a \notin Broken /\ Len(plans) < MaxPlans
    /\ LET p == Len(plans) + 1
       IN  /\ plans' = Append(plans, a)
           /\ alive' = alive \cup {p}
           /\ mailbox' = Append(mailbox, [type |-> "reload", plan |-> p])
           /\ call' = [call EXCEPT ![c] = [op |-> IF call[c].op = "rollback" THEN "undo" ELSE "reload",
                                           arg |-> a, plan |-> p]]
    /\ mtx' = c
    /\ UNCHANGED <<dep, previous_app, bound, processed, replied, laneVars, lineage, undone>>

(* An early return: nothing deployed, a BuildOnly change, a broken flow.   *)
(* Only a rollback's second half has anything to forget.                   *)
ReloadRefused(c) ==
    /\ Enter(c, "rollback")
    /\ dep # None => BuildOnly(dep.app, call[c].arg)
    /\ call' = [call EXCEPT ![c] = Idle]
    /\ UNCHANGED <<mtx, dep, previous_app, memVars, actorVars, laneVars, lineage, undone>>

(* GetStatus is asked behind it ...                                        *)
ReloadAsk(c) ==
    /\ mtx = c /\ call[c].op \in {"reload", "undo"} /\ call[c].plan # 0
    /\ c \notin replied /\ \A i \in 1..Len(mailbox) : mailbox[i] # [type |-> "status", from |-> c]
    /\ mailbox' = Append(mailbox, [type |-> "status", from |-> c])
    /\ UNCHANGED <<mtx, call, dep, previous_app, memVars, bound, processed, replied, laneVars, lineage, undone>>

(* Mutant: the old plan is destroyed before the actor has answered.        *)
ReloadSwapUnanswered(c) ==
    /\ mtx = c /\ call[c].op \in {"reload", "undo"}
    /\ previous_app' = dep.app
    /\ dep' = [app |-> call[c].arg, plan |-> call[c].plan]
    /\ alive' = alive \ {dep.plan}
    /\ lineage' = Append(lineage, call[c].arg)
    /\ Return(c)
    /\ UNCHANGED <<plans, bound, mailbox, processed, replied, laneVars, undone>>

(* ... and once it is answered the old plan is destroyed.                  *)
ReloadSwap(c) ==
    /\ mtx = c /\ call[c].op \in {"reload", "undo"}
    /\ c \in replied
    /\ previous_app' = dep.app
    /\ dep' = [app |-> call[c].arg, plan |-> call[c].plan]
    /\ alive' = alive \ {dep.plan}
    /\ replied' = replied \ {c}
    /\ lineage' = Append(lineage, call[c].arg)
    /\ undone' = IF call[c].op = "undo"
                   THEN undone \cup {[installed |-> call[c].arg,
                                      before |-> IF Len(lineage) > 1 THEN lineage[Len(lineage) - 1]
                                                 ELSE None]}
                   ELSE undone
    /\ Return(c)
    /\ UNCHANGED <<plans, bound, mailbox, processed, laneVars>>

(* rollback, its first half: the previous version is read under mtx_.      *)
RollbackRead(c) ==
    /\ Enter(c, "none") /\ dep # None /\ previous_app # None
    /\ call' = [call EXCEPT ![c] = [op |-> "rollback", arg |-> previous_app, plan |-> 0]]
    /\ UNCHANGED <<mtx, dep, previous_app, memVars, actorVars, laneVars, lineage, undone>>

-----------------------------------------------------------------------------
(* undeploy: teardown joins the producer, then the bridge, stops the       *)
(* engine and closes the driver; then the Deployment is destroyed.         *)

UndeployStop(c) ==
    /\ Enter(c, "none") /\ dep # None
    /\ mtx' = c
    /\ call' = [call EXCEPT ![c] = [op |-> "undeploy", arg |-> None, plan |-> 0]]
    /\ stop_flag' = TRUE
    /\ UNCHANGED <<dep, previous_app, memVars, actorVars, producer, stream, bridge, produced, lineage, undone>>

UndeployFinish(c) ==
    /\ mtx = c /\ call[c].op = "undeploy"
    /\ producer = "done" /\ bridge = "done"
    /\ alive' = alive \ {dep.plan}
    /\ dep' = None
    /\ bound' = 0 /\ mailbox' = << >> /\ processed' = << >> /\ replied' = {}
    /\ producer' = "none" /\ bridge' = "none" /\ stream' = << >> /\ produced' = 0 /\ stop_flag' = FALSE
    /\ lineage' = << >>
    /\ Return(c)
    /\ UNCHANGED <<previous_app, plans, undone>>

-----------------------------------------------------------------------------
(* The other calls                                                         *)

Told == [type |-> "told"]

(* tell_frame: a frame that does not come from the driver.                 *)
(* Bound: one of them in the mailbox at a time.                            *)
TellFrame(c) ==
    /\ Enter(c, "none") /\ dep # None
    /\ \A i \in 1..Len(mailbox) : mailbox[i] # Told
    /\ mailbox' = Append(mailbox, Told)
    /\ UNCHANGED <<mtx, call, dep, previous_app, memVars, bound, processed, replied, laneVars, lineage, undone>>

(* status asks the actor and waits for it with mtx_ held.                  *)
StatusAsk(c) ==
    /\ Enter(c, "none") /\ dep # None
    /\ mtx' = c
    /\ call' = [call EXCEPT ![c] = [op |-> "status", arg |-> None, plan |-> 0]]
    /\ mailbox' = Append(mailbox, [type |-> "status", from |-> c])
    /\ UNCHANGED <<dep, previous_app, memVars, bound, processed, replied, laneVars, lineage, undone>>

StatusReturn(c) ==
    /\ mtx = c /\ call[c].op = "status" /\ c \in replied
    /\ replied' = replied \ {c}
    /\ Return(c)
    /\ UNCHANGED <<dep, previous_app, memVars, bound, mailbox, processed, laneVars, lineage, undone>>

(* await_driver_drain joins the lane's threads with mtx_ held.             *)
AwaitDrain(c) ==
    /\ Enter(c, "none") /\ dep # None
    /\ mtx' = c
    /\ call' = [call EXCEPT ![c] = [op |-> "drain", arg |-> None, plan |-> 0]]
    /\ UNCHANGED <<dep, previous_app, memVars, actorVars, laneVars, lineage, undone>>

AwaitDrained(c) ==
    /\ mtx = c /\ call[c].op = "drain" /\ producer = "done" /\ bridge = "done"
    /\ Return(c)
    /\ UNCHANGED <<dep, previous_app, memVars, actorVars, laneVars, lineage, undone>>

-----------------------------------------------------------------------------
(* The FlowActor, one message at a time                                    *)

HandleFrame ==
    /\ mailbox # << >> /\ Head(mailbox).type \in {"frame", "told"}
    /\ processed' = IF Head(mailbox) = Told THEN processed
                    ELSE Append(processed, [frame |-> Head(mailbox).frame, plan |-> bound])
    /\ mailbox' = Tail(mailbox)
    /\ UNCHANGED <<mtx, call, dep, previous_app, memVars, bound, replied, laneVars, lineage, undone>>

HandleReload ==
    /\ mailbox # << >> /\ Head(mailbox).type = "reload"
    /\ bound' = Head(mailbox).plan
    /\ mailbox' = Tail(mailbox)
    /\ UNCHANGED <<mtx, call, dep, previous_app, memVars, processed, replied, laneVars, lineage, undone>>

HandleStatus ==
    /\ mailbox # << >> /\ Head(mailbox).type = "status"
    /\ replied' = replied \cup {Head(mailbox).from}
    /\ mailbox' = Tail(mailbox)
    /\ UNCHANGED <<mtx, call, dep, previous_app, memVars, bound, processed, laneVars, lineage, undone>>

Actor == HandleFrame \/ HandleReload \/ HandleStatus

-----------------------------------------------------------------------------
(* The driver's run loop (drivers/generator_driver.hpp; the callback of    *)
(* drivers/opcua_subscription_driver.hpp) and the bridge thread            *)

ProduceNext ==
    /\ producer = "next" /\ ~stop_flag /\ produced < FrameCount
    /\ producer' = "push"
    /\ UNCHANGED <<mtx, call, dep, previous_app, memVars, actorVars, stop_flag, stream, bridge, produced, lineage, undone>>

ProducePush ==
    /\ producer = "push" /\ Len(stream) < Capacity
    /\ produced' = produced + 1
    /\ stream' = Append(stream, produced')
    /\ producer' = "next"
    /\ UNCHANGED <<mtx, call, dep, previous_app, memVars, actorVars, stop_flag, bridge, lineage, undone>>

(* Mutant: a stalled driver does not look at its StopToken.                *)
ProduceEndUnstalled ==
    /\ producer = "next" /\ (stop_flag \/ produced = FrameCount)
    /\ producer' = "done"
    /\ UNCHANGED <<mtx, call, dep, previous_app, memVars, actorVars, stop_flag, stream, bridge, produced, lineage, undone>>

(* run() returns: stopped, out of frames, or stopped while stalled.        *)
ProduceEnd ==
    /\ \/ producer = "next" /\ (stop_flag \/ produced = FrameCount)
       \/ producer = "push" /\ Len(stream) = Capacity /\ stop_flag /\ DriverChecksStop
    /\ producer' = "done"
    /\ UNCHANGED <<mtx, call, dep, previous_app, memVars, actorVars, stop_flag, stream, bridge, produced, lineage, undone>>

(* producer_done is read before the stream is drained.                     *)
BridgeTop ==
    /\ bridge = "top"
    /\ bridge' = IF producer = "done" THEN "drain_last" ELSE "drain"
    /\ UNCHANGED <<mtx, call, dep, previous_app, memVars, actorVars, stop_flag, producer, stream, produced, lineage, undone>>

BridgeForward ==
    /\ bridge \in {"drain", "drain_last"} /\ stream # << >>
    /\ mailbox' = Append(mailbox, [type |-> "frame", frame |-> Head(stream)])
    /\ stream' = Tail(stream)
    /\ UNCHANGED <<mtx, call, dep, previous_app, memVars, bound, processed, replied, stop_flag, producer, bridge, produced,
                   lineage, undone>>

BridgeDrained ==
    /\ bridge \in {"drain", "drain_last"} /\ stream = << >>
    /\ bridge' = IF bridge = "drain" THEN "check" ELSE "check_last"
    /\ UNCHANGED <<mtx, call, dep, previous_app, memVars, actorVars, stop_flag, producer, stream, produced, lineage, undone>>

(* Mutant: producer_done is read after the drain instead of before it.     *)
BridgeCheckLate ==
    /\ bridge \in {"check", "check_last"}
    /\ bridge' = IF stop_flag \/ producer = "done" THEN "done" ELSE "top"
    /\ UNCHANGED <<mtx, call, dep, previous_app, memVars, actorVars, stop_flag, producer, stream, produced, lineage, undone>>

(* The loop is left when stop_flag is up, whatever has been pushed since.  *)
BridgeCheck ==
    /\ bridge \in {"check", "check_last"}
    /\ bridge' = IF stop_flag \/ (bridge = "check_last" /\ stream = << >>) THEN "done" ELSE "top"
    /\ UNCHANGED <<mtx, call, dep, previous_app, memVars, actorVars, stop_flag, producer, stream, produced, lineage, undone>>

Produce == ProduceNext \/ ProducePush \/ ProduceEnd

Bridge == BridgeTop \/ BridgeForward \/ BridgeDrained \/ BridgeCheck

-----------------------------------------------------------------------------

Finish(c) ==
    ReloadAsk(c) \/ ReloadSwap(c) \/ UndeployFinish(c) \/ StatusReturn(c) \/ AwaitDrained(c)

Request(c) ==
    \/ \E a \in App : Deploy(c, a) \/ ReloadTell(c, a)
    \/ ReloadRefused(c)
    \/ RollbackRead(c)
    \/ UndeployStop(c)
    \/ TellFrame(c)
    \/ StatusAsk(c)
    \/ AwaitDrain(c)

Next ==
    \/ \E c \in Caller : Request(c) \/ Finish(c)
    \/ Actor
    \/ Produce
    \/ Bridge

(* The actor's worker, the two lane threads and a call that waits all run  *)
(* when they can.                                                          *)
Fairness ==
    /\ \A c \in Caller : WF_vars(Finish(c))
    /\ WF_vars(Actor) /\ WF_vars(Produce) /\ WF_vars(Bridge)

Spec == Init /\ [][Next]_vars /\ Fairness

-----------------------------------------------------------------------------
(* Properties                                                              *)

Op == {"none", "rollback", "reload", "undo", "undeploy", "status", "drain"}

Call == [op : Op, arg : App \cup {None}, plan : Nat]

Message ==
    [type : {"reload"}, plan : Nat] \cup [type : {"status"}, from : Caller]
        \cup [type : {"frame"}, frame : Nat] \cup {Told}

(* Every variable has its type: in particular the plan the runtime reports *)
(* and those that exist were compiled, and the stream keeps its credits.   *)
TypeOK ==
    /\ mtx \in Caller \cup {None}
    /\ call \in [Caller -> Call]
    /\ dep \in [app : App, plan : 1..Len(plans)] \cup {None}
    /\ previous_app \in App \cup {None}
    /\ plans \in Seq(App) /\ alive \subseteq 1..Len(plans)
    /\ bound \in 0..Len(plans)
    /\ mailbox \in Seq(Message)
    /\ processed \in Seq([frame : Nat, plan : Nat])
    /\ replied \subseteq Caller
    /\ stop_flag \in BOOLEAN
    /\ stream \in Seq(Nat) /\ Len(stream) <= Capacity /\ produced \in 0..FrameCount
    /\ producer \in {"none", "next", "push", "done"}
    /\ bridge \in {"none", "top", "drain", "drain_last", "check", "check_last", "done"}

(* "Old plan destroyed here, provably unreferenced": whenever the actor    *)
(* may run, the plan it is bound to and every plan a queued ReloadFlow     *)
(* names still exist; between calls it runs the very plan the runtime      *)
(* reports, and no plan has outlived its deployment or its replacement.    *)
PlanIsLive ==
    /\ dep # None => bound \in alive
    /\ \A i \in 1..Len(mailbox) : mailbox[i].type = "reload" => mailbox[i].plan \in alive
    /\ mtx = None => IF dep = None THEN alive = {} ELSE bound = dep.plan /\ alive = {dep.plan}

IsFrame(m) == m.type = "frame"

(* The actor has run the frames 1, 2, ... in order, none again under an    *)
(* older plan than the frame before it.                                    *)
ProcessedInOrder ==
    /\ \A i \in 1..Len(processed) : processed[i].frame = i
    /\ \A i, j \in 1..Len(processed) : i < j => processed[i].plan <= processed[j].plan

(* The mailbox has the frames between those and the stream's, each once    *)
(* and in order, whatever is queued among them.                            *)
QueuedInOrder ==
    /\ \A i \in 1..Len(mailbox) : IsFrame(mailbox[i]) =>
            mailbox[i].frame \in Len(processed) + 1 .. produced - Len(stream)
    /\ \A i, j \in 1..Len(mailbox) :
            i < j /\ IsFrame(mailbox[i]) /\ IsFrame(mailbox[j]) => mailbox[i].frame < mailbox[j].frame
    /\ \A n \in Len(processed) + 1 .. produced - Len(stream) :
            \E i \in 1..Len(mailbox) : IsFrame(mailbox[i]) /\ mailbox[i].frame = n

(* The stream has the last ones the driver pushed.                         *)
StreamedInOrder ==
    /\ Len(processed) + Len(stream) <= produced
    /\ \A i \in 1..Len(stream) : stream[i] = produced - Len(stream) + i

(* P2 and the bridge: across reloads every frame the driver pushed is      *)
(* processed or still queued, once and in order, and later frames never    *)
(* run an older plan; a driver that ends by itself loses no frame.         *)
FramesIntact ==
    dep # None =>
        /\ ProcessedInOrder /\ QueuedInOrder /\ StreamedInOrder
        /\ bridge = "done" /\ ~stop_flag => stream = << >> /\ produced = FrameCount

(* "Rollback to the previously-deployed Application version": a rollback   *)
(* installs the version this deployment ran before the current one.        *)
RollbackIsPrevious == \A u \in undone : u.installed = u.before

(* Every call returns; none waits for ever for the actor, the producer or  *)
(* the bridge with mtx_ held.                                              *)
CallReturns == \A c \in Caller : (mtx = c) ~> (mtx = None)

=============================================================================
