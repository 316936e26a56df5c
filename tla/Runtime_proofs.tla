---------------------------- MODULE Runtime_proofs ----------------------------
(***************************************************************************)
(* The runtime's two lanes and the Application between them, for any       *)
(* number of callers, frames, plans and values written, and the flow       *)
(* compiler and its frames, for any applications.                          *)
(***************************************************************************)
EXTENDS Deployment, Drivers, Flow, FiniteSetTheorems, SequenceTheorems, TLAPS

-----------------------------------------------------------------------------
(* The deployment                                                          *)

(* What a caller does with mtx_ held, and the calls that swap plans.       *)
Holding == {"reload", "undo", "undeploy", "status", "drain"}
Swap == {"reload", "undo"}

(* Messages of one kind in a mailbox: none of them, one at most; no        *)
(* ReloadFlow behind a GetStatus; where they come from and go.             *)
NoneOf(mb, t) == \A i \in 1..Len(mb) : mb[i].type # t
OneOf(mb, t) == \A i, j \in 1..Len(mb) : mb[i].type = t /\ mb[j].type = t => i = j
AskedLast(mb) == \A i, j \in 1..Len(mb) : mb[i].type = "status" /\ mb[j].type = "reload" => j < i
ReloadsTo(mb, p) == \A i \in 1..Len(mb) : mb[i].type = "reload" => mb[i].plan = p
AskedBy(mb, c) == \A i \in 1..Len(mb) : mb[i].type = "status" => mb[i].from = c

(* mtx_ is held by exactly the caller whose call waits with it.            *)
MtxExclusive == \A c \in Caller : call[c].op \in Holding <=> mtx = c

(* A call that is to install an Application has one.                       *)
ArgKept == \A c \in Caller : call[c].op \in Swap \cup {"rollback"} => call[c].arg \in App

(* Nothing is left of an undeployed Application.                           *)
NothingLeft ==
    dep = None =>
        /\ mtx = None /\ alive = {} /\ mailbox = << >> /\ replied = {}
        /\ producer = "none" /\ bridge = "none"

(* Between reloads there is one plan and the actor runs it.                *)
Steady ==
    dep # None /\ (\A c \in Caller : call[c].op \notin Swap) =>
        alive = {dep.plan} /\ bound = dep.plan /\ NoneOf(mailbox, "reload")

(* During c's reload there are two, the actor runs the old one until it    *)
(* has taken the ReloadFlow, and it answers only after that.               *)
Swapping(c) ==
    /\ dep.plan < call[c].plan /\ call[c].plan <= Len(plans)
    /\ alive = {dep.plan, call[c].plan}
    /\ ReloadsTo(mailbox, call[c].plan)
    /\ NoneOf(mailbox, "reload") => bound = call[c].plan
    /\ ~NoneOf(mailbox, "reload") => bound = dep.plan
    /\ replied # {} => NoneOf(mailbox, "reload")

(* The actor is asked by the holder of mtx_ only, once, behind what it was *)
(* told before, and its answer is for that caller.                         *)
AskedOnce ==
    /\ OneOf(mailbox, "reload") /\ OneOf(mailbox, "status") /\ AskedLast(mailbox)
    /\ AskedBy(mailbox, mtx) /\ replied \subseteq {mtx}
    /\ replied # {} => NoneOf(mailbox, "status")
    /\ ~NoneOf(mailbox, "status") \/ replied # {} =>
           \E c \in Caller : mtx = c /\ call[c].op \in Swap \cup {"status"}

(* The bridge has read producer_done before its last drain, the driver     *)
(* ends by itself only when it is out of frames, and a frame it is about   *)
(* to push is one it may.                                                  *)
LaneInv ==
    /\ bridge \in {"drain_last", "check_last"} => producer = "done"
    /\ producer = "done" /\ ~stop_flag => produced = FrameCount
    /\ bridge = "done" /\ ~stop_flag => producer = "done" /\ stream = << >>
    /\ producer = "push" => produced < FrameCount

(* Every frame is where it belongs, and none was run by a plan newer than  *)
(* the one the actor has now.                                              *)
FrameInv ==
    /\ ProcessedInOrder /\ QueuedInOrder /\ StreamedInOrder
    /\ \A i \in 1..Len(processed) : processed[i].plan <= bound

PlanInv ==
    /\ MtxExclusive /\ ArgKept /\ NothingLeft /\ Steady
    /\ \A c \in Caller : call[c].op \in Swap => Swapping(c)
    /\ AskedOnce

-----------------------------------------------------------------------------

(* A mailbox with one message more.                                        *)
LEMMA AppendedIs ==
    ASSUME NEW mb \in Seq(Message), NEW m \in Message
    PROVE  /\ Append(mb, m) \in Seq(Message) /\ Len(mb) \in Nat
           /\ Len(Append(mb, m)) = Len(mb) + 1 /\ Append(mb, m)[Len(mb) + 1] = m
           /\ \A i \in 1..Len(mb) : Append(mb, m)[i] = mb[i]
  BY AppendProperties

(* A mailbox whose first message is taken.                                 *)
LEMMA TakenIs ==
    ASSUME NEW mb \in Seq(Message), mb # << >>
    PROVE  /\ Head(mb) = mb[1] /\ Head(mb) \in Message /\ 1 \in 1..Len(mb) /\ Len(mb) \in Nat
           /\ Tail(mb) \in Seq(Message) /\ Len(Tail(mb)) = Len(mb) - 1
           /\ \A i \in 1..Len(Tail(mb)) : Tail(mb)[i] = mb[i + 1] /\ i + 1 \in 1..Len(mb)
           /\ \A i \in 1..Len(mb) : i # 1 => i - 1 \in 1..Len(Tail(mb)) /\ Tail(mb)[i - 1] = mb[i]
  BY HeadTailProperties

(* A message queued behind the others.                                     *)
LEMMA AppendKeeps ==
    ASSUME NEW mb \in Seq(Message), NEW m \in Message, NEW t, NEW x
    PROVE  /\ NoneOf(mb, t) /\ m.type # t => NoneOf(Append(mb, m), t)
           /\ m.type = t => ~NoneOf(Append(mb, m), t)
           /\ ~NoneOf(mb, t) => ~NoneOf(Append(mb, m), t)
           /\ OneOf(mb, t) /\ m.type # t => OneOf(Append(mb, m), t)
           /\ NoneOf(mb, t) => OneOf(Append(mb, m), t)
           /\ AskedLast(mb) /\ m.type # "reload" => AskedLast(Append(mb, m))
           /\ NoneOf(mb, "status") => AskedLast(Append(mb, m))
           /\ ReloadsTo(mb, x) /\ (m.type = "reload" => m.plan = x) => ReloadsTo(Append(mb, m), x)
           /\ NoneOf(mb, "reload") /\ (m.type = "reload" => m.plan = x) => ReloadsTo(Append(mb, m), x)
           /\ AskedBy(mb, x) /\ (m.type = "status" => m.from = x) => AskedBy(Append(mb, m), x)
           /\ NoneOf(mb, "status") /\ (m.type = "status" => m.from = x) => AskedBy(Append(mb, m), x)
<1> DEFINE s == Append(mb, m)
<1>1. /\ Len(mb) \in Nat /\ Len(s) = Len(mb) + 1 /\ s[Len(mb) + 1] = m
      /\ \A i \in 1..Len(mb) : s[i] = mb[i]
  BY AppendedIs
<1>2. \A i \in 1..Len(s) : i \in 1..Len(mb) \/ i = Len(mb) + 1
  BY <1>1
<1>3. 1..Len(mb) \subseteq 1..Len(s) /\ Len(mb) + 1 \in 1..Len(s)
  BY <1>1
<1> HIDE DEF s
<1>4. /\ NoneOf(mb, t) /\ m.type # t => NoneOf(s, t)
      /\ m.type = t => ~NoneOf(s, t)
      /\ ~NoneOf(mb, t) => ~NoneOf(s, t)
  BY <1>1, <1>2, <1>3 DEF NoneOf
<1>5. /\ OneOf(mb, t) /\ m.type # t => OneOf(s, t)
      /\ NoneOf(mb, t) => OneOf(s, t)
  BY <1>1, <1>2, <1>3 DEF NoneOf, OneOf
<1>6. /\ AskedLast(mb) /\ m.type # "reload" => AskedLast(s)
      /\ NoneOf(mb, "status") => AskedLast(s)
  BY <1>1, <1>2, <1>3 DEF NoneOf, AskedLast
<1>7. /\ ReloadsTo(mb, x) /\ (m.type = "reload" => m.plan = x) => ReloadsTo(s, x)
      /\ NoneOf(mb, "reload") /\ (m.type = "reload" => m.plan = x) => ReloadsTo(s, x)
  BY <1>1, <1>2, <1>3 DEF NoneOf, ReloadsTo
<1>8. /\ AskedBy(mb, x) /\ (m.type = "status" => m.from = x) => AskedBy(s, x)
      /\ NoneOf(mb, "status") /\ (m.type = "status" => m.from = x) => AskedBy(s, x)
  BY <1>1, <1>2, <1>3 DEF NoneOf, AskedBy
<1> QED BY <1>4, <1>5, <1>6, <1>7, <1>8 DEF s

(* The first message taken.                                                *)
LEMMA TailKeeps ==
    ASSUME NEW mb \in Seq(Message), mb # << >>, NEW t, NEW x
    PROVE  /\ NoneOf(mb, t) => NoneOf(Tail(mb), t)
           /\ Head(mb).type # t /\ NoneOf(Tail(mb), t) => NoneOf(mb, t)
           /\ Head(mb).type = t => ~NoneOf(mb, t)
           /\ OneOf(mb, t) => OneOf(Tail(mb), t)
           /\ OneOf(mb, t) /\ Head(mb).type = t => NoneOf(Tail(mb), t)
           /\ AskedLast(mb) => AskedLast(Tail(mb))
           /\ AskedLast(mb) /\ Head(mb).type = "status" => NoneOf(mb, "reload")
           /\ ReloadsTo(mb, x) => ReloadsTo(Tail(mb), x) /\ (Head(mb).type = "reload" => Head(mb).plan = x)
           /\ AskedBy(mb, x) => AskedBy(Tail(mb), x) /\ (Head(mb).type = "status" => Head(mb).from = x)
<1> DEFINE s == Tail(mb)
           h == Head(mb)
<1>1. /\ h = mb[1] /\ 1 \in 1..Len(mb) /\ Len(mb) \in Nat /\ Len(s) = Len(mb) - 1
      /\ \A i \in 1..Len(s) : s[i] = mb[i + 1] /\ i + 1 \in 1..Len(mb)
      /\ \A i \in 1..Len(mb) : i # 1 => i - 1 \in 1..Len(s) /\ s[i - 1] = mb[i]
  BY TakenIs
<1> HIDE DEF s, h
<1>2. /\ NoneOf(mb, t) => NoneOf(s, t)
      /\ h.type # t /\ NoneOf(s, t) => NoneOf(mb, t)
      /\ h.type = t => ~NoneOf(mb, t)
  BY <1>1 DEF NoneOf
<1>3. OneOf(mb, t) => OneOf(s, t)
  BY <1>1 DEF OneOf
<1>4. OneOf(mb, t) /\ h.type = t => NoneOf(s, t)
  BY <1>1 DEF OneOf, NoneOf
<1>5. AskedLast(mb) => AskedLast(s)
  BY <1>1 DEF AskedLast
<1>6. AskedLast(mb) /\ h.type = "status" => NoneOf(mb, "reload")
  BY <1>1 DEF AskedLast, NoneOf
<1>7. ReloadsTo(mb, x) => ReloadsTo(s, x) /\ (h.type = "reload" => h.plan = x)
  BY <1>1 DEF ReloadsTo
<1>8. AskedBy(mb, x) => AskedBy(s, x) /\ (h.type = "status" => h.from = x)
  BY <1>1 DEF AskedBy
<1> QED BY <1>2, <1>3, <1>4, <1>5, <1>6, <1>7, <1>8 DEF s, h

(* An empty mailbox holds no message of any kind.                          *)
LEMMA EmptyMailbox ==
    ASSUME NEW t, NEW x
    PROVE  /\ NoneOf(<< >>, t) /\ OneOf(<< >>, t) /\ AskedLast(<< >>)
           /\ ReloadsTo(<< >>, x) /\ AskedBy(<< >>, x)
  BY DEF NoneOf, OneOf, AskedLast, ReloadsTo, AskedBy

-----------------------------------------------------------------------------

(* A caller moves on.                                                      *)
LEMMA CallSet ==
    ASSUME TypeOK, NEW c \in Caller, NEW r \in Call, call' = [call EXCEPT ![c] = r]
    PROVE  /\ call' \in [Caller -> Call] /\ call'[c] = r
           /\ \A d \in Caller : d # c => call'[d] = call[d]
  BY DEF TypeOK

(* A caller is in one call.                                                *)
LEMMA CallHasType == ASSUME TypeOK, NEW c \in Caller PROVE call[c] \in Call
  BY DEF TypeOK

(* To be in no call is a call of its own.                                  *)
LEMMA IdleIsCall == Idle \in Call /\ Idle.op = "none" /\ Idle.plan = 0
  BY DEF Idle, Call, Op

(* A waiting call returns: it gives up mtx_ and no other holds it.         *)
LEMMA ReturnGivesUp ==
    ASSUME TypeOK, MtxExclusive, NEW c \in Caller, mtx = c, Return(c)
    PROVE  /\ mtx' = None /\ call' \in [Caller -> Call] /\ call'[c].op = "none"
           /\ \A d \in Caller : d # c => call'[d] = call[d]
           /\ \A d \in Caller : call'[d].op \notin Holding
<1>1. /\ mtx' = None /\ call' \in [Caller -> Call] /\ call'[c] = Idle
      /\ \A d \in Caller : d # c => call'[d] = call[d]
  BY IdleIsCall, CallSet DEF Return
<1>2. \A d \in Caller : d # c => call[d].op \notin Holding
  BY DEF MtxExclusive
<1> QED BY <1>1, <1>2, IdleIsCall DEF Holding

(* A free mtx_ means that no call waits, nothing was asked and one plan    *)
(* is in use.                                                              *)
LEMMA MtxFree ==
    ASSUME TypeOK, PlanInv, mtx = None
    PROVE  /\ \A c \in Caller : call[c].op \notin Holding
           /\ \A c \in Caller : call[c].op \notin Swap
           /\ NoneOf(mailbox, "status") /\ replied = {}
           /\ dep # None => alive = {dep.plan} /\ bound = dep.plan /\ NoneOf(mailbox, "reload")
<1>1. \A c \in Caller : c # None
  BY DeploymentAssumption
<1>2. \A c \in Caller : call[c].op \notin Holding
  BY <1>1 DEF PlanInv, MtxExclusive
<1>3. \A c \in Caller : call[c].op \notin Swap
  BY <1>2 DEF Holding, Swap
<1> QED BY <1>1, <1>2, <1>3 DEF PlanInv, AskedOnce, Steady

(* dep_ is a compiled plan of an Application, or nothing.                  *)
LEMMA DepHasType ==
    ASSUME TypeOK, dep # None
    PROVE  /\ dep.app \in App /\ dep.plan \in Nat /\ dep.plan >= 1 /\ dep.plan <= Len(plans)
           /\ Len(plans) \in Nat
  BY DEF TypeOK

(* A deployment record is told apart from none.                            *)
LEMMA DepIsSomething ==
    ASSUME NEW a \in App, NEW p \in Nat
    PROVE  [app |-> a, plan |-> p] # None
  BY DeploymentAssumption

(* One more plan is compiled.                                              *)
LEMMA OneMorePlan ==
    ASSUME TypeOK
    PROVE  /\ Len(plans) \in Nat
           /\ alive \cup {Len(plans) + 1} \subseteq 1..(Len(plans) + 1)
           /\ bound \in 0..(Len(plans) + 1) /\ Len(plans) + 1 \in 0..(Len(plans) + 1)
           /\ dep \in [app : App, plan : 1..(Len(plans) + 1)] \cup {None}
<1>1. Len(plans) \in Nat /\ alive \subseteq 1..Len(plans)
  BY DEF TypeOK
<1>2. bound \in 0..Len(plans) /\ dep \in [app : App, plan : 1..Len(plans)] \cup {None}
  BY DEF TypeOK
<1>3. ASSUME NEW p \in alive \cup {Len(plans) + 1} PROVE p \in 1..(Len(plans) + 1)
  <2>1. CASE p \in alive
    <3>1. p \in 1..Len(plans)
      BY <1>1, <2>1
    <3> QED BY <1>1, <3>1
  <2>2. CASE p = Len(plans) + 1
    BY <1>1, <2>2
  <2> QED BY <2>1, <2>2
<1>4. dep \in [app : App, plan : 1..(Len(plans) + 1)] \cup {None}
  BY <1>1, <1>2
<1>5. alive \cup {Len(plans) + 1} \subseteq 1..(Len(plans) + 1)
  BY <1>3, Zenon
<1>6. bound \in 0..(Len(plans) + 1) /\ Len(plans) + 1 \in 0..(Len(plans) + 1)
  BY <1>1, <1>2
<1> QED BY <1>1, <1>4, <1>5, <1>6

(* Types, one lemma for each group of actions.                             *)
LEMMA DeployType == ASSUME TypeOK, NEW c \in Caller, NEW a \in App, Deploy(c, a) PROVE TypeOK'
<1>1. /\ plans' = Append(plans, a) /\ alive' = alive \cup {Len(plans) + 1}
      /\ bound' = Len(plans) + 1 /\ dep' = [app |-> a, plan |-> Len(plans) + 1]
      /\ mailbox' = << >> /\ processed' = << >> /\ replied' = {} /\ stream' = << >>
      /\ stop_flag' = FALSE /\ producer' = "next" /\ bridge' = "top" /\ produced' = 0
      /\ UNCHANGED <<mtx, call, previous_app>>
  BY DEF Deploy
<1>2. plans' \in Seq(App) /\ Len(plans') = Len(plans) + 1 /\ Len(plans) \in Nat
  BY <1>1, AppendProperties DEF TypeOK
<1>3. alive' \subseteq 1..Len(plans') /\ bound' \in 0..Len(plans')
  BY <1>1, <1>2, OneMorePlan
<1>4. dep' \in [app : App, plan : 1..Len(plans')]
  BY <1>1, <1>2
<1>5. /\ << >> \in Seq(Message) /\ << >> \in Seq([frame : Nat, plan : Nat])
      /\ << >> \in Seq(Nat) /\ Len(<< >>) <= Capacity /\ 0 \in 0..FrameCount
  BY DeploymentAssumption
<1> QED BY <1>1, <1>2, <1>3, <1>4, <1>5 DEF TypeOK

(* reload compiles a plan and sends it to the actor, with mtx_ held.       *)
LEMMA ReloadTellDoes ==
    ASSUME TypeOK, NEW c \in Caller, NEW a \in App, ReloadTell(c, a)
    PROVE  /\ mtx = None /\ mtx' = c /\ dep # None
           /\ plans' = Append(plans, a) /\ plans' \in Seq(App)
           /\ Len(plans) \in Nat /\ Len(plans') = Len(plans) + 1
           /\ alive' = alive \cup {Len(plans) + 1}
           /\ mailbox' = Append(mailbox, [type |-> "reload", plan |-> Len(plans) + 1])
           /\ [type |-> "reload", plan |-> Len(plans) + 1] \in Message
           /\ call' \in [Caller -> Call] /\ \A d \in Caller : d # c => call'[d] = call[d]
           /\ call'[c].op \in Swap /\ call'[c].arg = a /\ call'[c].plan = Len(plans) + 1
           /\ UNCHANGED <<dep, previous_app, bound, processed, replied, stop_flag, producer,
                          stream, bridge, produced>>
<1> DEFINE r == [op |-> IF call[c].op = "rollback" THEN "undo" ELSE "reload",
                 arg |-> a, plan |-> Len(plans) + 1]
<1>1. /\ mtx = None /\ mtx' = c /\ dep # None
      /\ plans' = Append(plans, a) /\ alive' = alive \cup {Len(plans) + 1}
      /\ mailbox' = Append(mailbox, [type |-> "reload", plan |-> Len(plans) + 1])
      /\ call' = [call EXCEPT ![c] = r]
      /\ UNCHANGED <<dep, previous_app, bound, processed, replied, stop_flag, producer,
                          stream, bridge, produced>>
  BY DEF ReloadTell, laneVars
<1>2. plans' \in Seq(App) /\ Len(plans') = Len(plans) + 1 /\ Len(plans) \in Nat
  BY <1>1, AppendProperties DEF TypeOK
<1>3. r \in Call /\ r.op \in Swap /\ r.arg = a /\ r.plan = Len(plans) + 1
  BY <1>2 DEF Call, Op, Swap
<1>4. [type |-> "reload", plan |-> Len(plans) + 1] \in Message
  BY <1>2 DEF Message
<1> HIDE DEF r
<1>5. /\ call' \in [Caller -> Call] /\ call'[c] = r
      /\ \A d \in Caller : d # c => call'[d] = call[d]
  BY <1>1, <1>3, CallSet
<1> QED BY <1>1, <1>2, <1>3, <1>4, <1>5

(* reload keeps the types.                                                 *)
LEMMA ReloadTellType ==
    ASSUME TypeOK, NEW c \in Caller, NEW a \in App, ReloadTell(c, a)
    PROVE  TypeOK'
<1>1. /\ mailbox' = Append(mailbox, [type |-> "reload", plan |-> Len(plans) + 1])
      /\ [type |-> "reload", plan |-> Len(plans) + 1] \in Message
  BY ReloadTellDoes
<1>2. mailbox' \in Seq(Message)
  BY <1>1, AppendedIs DEF TypeOK
<1>3. /\ Len(plans') = Len(plans) + 1 /\ alive' = alive \cup {Len(plans) + 1}
      /\ bound' = bound /\ dep' = dep
  BY ReloadTellDoes
<1>4. /\ alive' \subseteq 1..Len(plans') /\ bound' \in 0..Len(plans')
      /\ dep' \in [app : App, plan : 1..Len(plans')] \cup {None}
  BY <1>3, OneMorePlan
<1>5. /\ mtx' \in Caller /\ call' \in [Caller -> Call] /\ plans' \in Seq(App)
      /\ UNCHANGED <<previous_app, processed, replied, stop_flag, producer, stream, bridge, produced>>
  BY ReloadTellDoes
<1> QED BY <1>2, <1>4, <1>5 DEF TypeOK

(* The lane's threads, which leave the calls and the actor alone.          *)
LEMMA ProduceType == ASSUME TypeOK, LaneInv, Produce PROVE TypeOK'
<1>1. UNCHANGED <<mtx, call, dep, previous_app, plans, alive, bound, mailbox, processed, replied,
                  stop_flag, bridge>>
  BY DEF Produce, ProduceNext, ProducePush, ProduceEnd, memVars, actorVars
<1>2. producer' \in {"next", "push", "done"}
  BY DEF Produce, ProduceNext, ProducePush, ProduceEnd
<1>3. CASE UNCHANGED <<stream, produced>>
  BY <1>1, <1>2, <1>3 DEF TypeOK
<1>4. CASE ProducePush
  <2>1. /\ stream \in Seq(Nat) /\ produced \in Nat /\ Len(stream) < Capacity
        /\ produced + 1 \in 0..FrameCount
    BY <1>4, DeploymentAssumption DEF ProducePush, TypeOK, LaneInv
  <2>2. stream' = Append(stream, produced + 1) /\ produced' = produced + 1
    BY <1>4 DEF ProducePush
  <2>3. stream' \in Seq(Nat) /\ Len(stream') <= Capacity
    BY <2>1, <2>2, AppendProperties, DeploymentAssumption
  <2> QED BY <1>1, <1>2, <2>1, <2>2, <2>3 DEF TypeOK
<1> QED BY <1>3, <1>4 DEF Produce, ProduceNext, ProduceEnd

(* The bridge moves the oldest frame of the stream to the mailbox.         *)
LEMMA BridgeForwardDoes ==
    ASSUME TypeOK, BridgeForward
    PROVE  /\ bridge \in {"drain", "drain_last"} /\ stream # << >>
           /\ stream \in Seq(Nat) /\ stream' = Tail(stream) /\ stream' \in Seq(Nat)
           /\ Len(stream) \in Nat /\ Len(stream) >= 1 /\ Len(stream') = Len(stream) - 1
           /\ Head(stream) = stream[1]
           /\ [type |-> "frame", frame |-> Head(stream)] \in Message
           /\ mailbox' = Append(mailbox, [type |-> "frame", frame |-> Head(stream)])
           /\ UNCHANGED <<mtx, call, dep, previous_app, plans, alive, bound, processed, replied,
                          stop_flag, producer, bridge, produced>>
<1>1. /\ bridge \in {"drain", "drain_last"} /\ stream # << >> /\ stream' = Tail(stream)
      /\ mailbox' = Append(mailbox, [type |-> "frame", frame |-> Head(stream)])
      /\ UNCHANGED <<mtx, call, dep, previous_app, plans, alive, bound, processed, replied,
                     stop_flag, producer, bridge, produced>>
  BY DEF BridgeForward, memVars
<1>2. stream \in Seq(Nat)
  BY DEF TypeOK
<1>3. /\ stream' \in Seq(Nat) /\ Head(stream) \in Nat /\ Head(stream) = stream[1]
      /\ Len(stream) \in Nat /\ Len(stream) >= 1 /\ Len(stream') = Len(stream) - 1
  BY <1>1, <1>2, HeadTailProperties
<1>4. [type |-> "frame", frame |-> Head(stream)] \in Message
  BY <1>3 DEF Message
<1> QED BY <1>1, <1>2, <1>3, <1>4

(* The bridge keeps the types.                                             *)
LEMMA BridgeType == ASSUME TypeOK, Bridge PROVE TypeOK'
<1>1. CASE BridgeForward
  <2>1. mailbox' \in Seq(Message)
    BY <1>1, BridgeForwardDoes, AppendedIs DEF TypeOK
  <2>2. /\ stream' \in Seq(Nat) /\ Len(stream') <= Len(stream) /\ Len(stream') \in Nat
        /\ UNCHANGED <<mtx, call, dep, previous_app, plans, alive, bound, processed, replied,
                       stop_flag, producer, bridge, produced>>
    BY <1>1, BridgeForwardDoes
  <2>3. Len(stream') <= Capacity
    BY <2>2, DeploymentAssumption DEF TypeOK
  <2> QED BY <2>1, <2>2, <2>3 DEF TypeOK
<1>2. CASE BridgeTop \/ BridgeDrained \/ BridgeCheck
  BY <1>2 DEF BridgeTop, BridgeDrained, BridgeCheck, memVars, actorVars, TypeOK
<1> QED BY <1>1, <1>2 DEF Bridge

(* The actor takes the first message.                                      *)
LEMMA ActorDoes ==
    ASSUME TypeOK, Actor
    PROVE  /\ mailbox \in Seq(Message) /\ mailbox # << >> /\ mailbox' = Tail(mailbox)
           /\ Head(mailbox) \in Message /\ mailbox' \in Seq(Message)
           /\ UNCHANGED <<mtx, call, dep, previous_app, plans, alive, stop_flag, producer, stream,
                          bridge, produced>>
<1>1. /\ mailbox # << >> /\ mailbox' = Tail(mailbox)
      /\ UNCHANGED <<mtx, call, dep, previous_app, plans, alive, stop_flag, producer, stream,
                     bridge, produced>>
  BY DEF Actor, HandleFrame, HandleReload, HandleStatus, memVars, laneVars
<1>2. mailbox \in Seq(Message)
  BY DEF TypeOK
<1> QED BY <1>1, <1>2, TakenIs

(* What a message of each kind carries.                                    *)
LEMMA MessageIs ==
    ASSUME NEW m \in Message
    PROVE  /\ m.type \in {"reload", "status", "frame", "told"}
           /\ m.type = "reload" => m.plan \in Nat
           /\ m.type = "status" => m.from \in Caller
           /\ m.type = "frame" => m.frame \in Nat /\ m # Told
           /\ m.type = "told" => m = Told
  BY DEF Message, Told

(* The actor runs a frame, or what it was told, on the plan it has.        *)
LEMMA HandleFrameDoes ==
    ASSUME TypeOK, HandleFrame
    PROVE  /\ Head(mailbox).type \in {"frame", "told"}
           /\ Head(mailbox).type = "told" => processed' = processed
           /\ Head(mailbox).type = "frame" =>
                 /\ Head(mailbox).frame \in Nat
                 /\ processed' = Append(processed, [frame |-> Head(mailbox).frame, plan |-> bound])
           /\ UNCHANGED <<bound, replied>>
<1>1. Head(mailbox) \in Message
  BY ActorDoes DEF Actor
<1> QED BY <1>1, MessageIs DEF HandleFrame

(* A queued ReloadFlow is that of the call that holds mtx_.                *)
LEMMA ReloadIsOfHolder ==
    ASSUME TypeOK, PlanInv, mailbox # << >>, Head(mailbox).type = "reload"
    PROVE  \E c \in Caller :
               /\ mtx = c /\ call[c].op \in Swap /\ Swapping(c) /\ dep # None
               /\ Head(mailbox).plan = call[c].plan /\ bound = dep.plan
<1>1. mailbox \in Seq(Message) /\ ~NoneOf(mailbox, "reload")
  BY TailKeeps DEF TypeOK
<1>2. dep # None
  BY DEF PlanInv, NothingLeft
<1>3. PICK c \in Caller : call[c].op \in Swap
  BY <1>1, <1>2 DEF PlanInv, Steady
<1>4. Swapping(c) /\ mtx = c
  BY <1>3 DEF PlanInv, MtxExclusive, Swap, Holding
<1>5. ReloadsTo(mailbox, call[c].plan) /\ bound = dep.plan
  BY <1>1, <1>4 DEF Swapping
<1>6. Head(mailbox).plan = call[c].plan
  BY <1>1, <1>5, TailKeeps
<1> QED BY <1>2, <1>3, <1>4, <1>5, <1>6

(* The actor keeps the types.                                              *)
LEMMA ActorType == ASSUME TypeOK, PlanInv, Actor PROVE TypeOK'
<1>1. /\ mailbox \in Seq(Message) /\ mailbox # << >> /\ mailbox' \in Seq(Message)
      /\ Head(mailbox) \in Message
      /\ UNCHANGED <<mtx, call, dep, previous_app, plans, alive, stop_flag, producer, stream,
                     bridge, produced>>
  BY ActorDoes
<1>2. CASE HandleFrame
  <2>1. bound \in Nat
    BY DEF TypeOK
  <2>2. processed' \in Seq([frame : Nat, plan : Nat])
    <3>1. CASE Head(mailbox).type = "told"
      BY <1>2, <3>1, HandleFrameDoes DEF TypeOK
    <3>2. CASE Head(mailbox).type = "frame"
      <4>1. /\ processed' = Append(processed, [frame |-> Head(mailbox).frame, plan |-> bound])
            /\ [frame |-> Head(mailbox).frame, plan |-> bound] \in [frame : Nat, plan : Nat]
        BY <1>2, <2>1, <3>2, HandleFrameDoes
      <4>2. processed \in Seq([frame : Nat, plan : Nat])
        BY DEF TypeOK
      <4> QED BY <4>1, <4>2, AppendProperties
    <3> QED BY <1>2, <3>1, <3>2, HandleFrameDoes
  <2>3. UNCHANGED <<bound, replied>>
    BY <1>2, HandleFrameDoes
  <2> QED BY <1>1, <2>2, <2>3 DEF TypeOK
<1>3. CASE HandleReload
  <2>1. Head(mailbox).type = "reload" /\ bound' = Head(mailbox).plan /\ UNCHANGED <<processed, replied>>
    BY <1>3 DEF HandleReload
  <2>2. PICK c \in Caller : Swapping(c) /\ Head(mailbox).plan = call[c].plan
    BY <1>1, <2>1, ReloadIsOfHolder
  <2>3. call[c].plan \in Nat /\ call[c].plan <= Len(plans) /\ Len(plans) \in Nat
    BY <2>2, CallHasType DEF Swapping, TypeOK, Call
  <2>4. bound' \in 0..Len(plans)
    BY <2>1, <2>2, <2>3
  <2> QED BY <1>1, <2>1, <2>4 DEF TypeOK
<1>4. CASE HandleStatus
  <2>1. /\ Head(mailbox).type = "status" /\ replied' = replied \cup {Head(mailbox).from}
        /\ UNCHANGED <<bound, processed>>
    BY <1>4 DEF HandleStatus
  <2>2. Head(mailbox).from \in Caller
    BY <1>1, <2>1, MessageIs
  <2>3. replied' \subseteq Caller
    BY <2>1, <2>2 DEF TypeOK
  <2> QED BY <1>1, <2>1, <2>3 DEF TypeOK
<1> QED BY <1>2, <1>3, <1>4 DEF Actor

-----------------------------------------------------------------------------
(* The plans                                                               *)

(* A step that changes neither calls nor actor, nor ends the lane.         *)
LEMMA PlansUntouched ==
    ASSUME PlanInv,
           UNCHANGED <<mtx, call, dep, plans, alive, bound, mailbox, replied>>,
           dep = None => UNCHANGED <<producer, bridge>>
    PROVE  PlanInv'
  BY DEF PlanInv, MtxExclusive, ArgKept, NothingLeft, Steady, Swapping, AskedOnce

(* A frame is queued.                                                      *)
LEMMA PlansOnFrame ==
    ASSUME TypeOK, PlanInv, NEW m \in Message, m.type \in {"frame", "told"},
           mailbox' = Append(mailbox, m), dep # None,
           UNCHANGED <<mtx, call, dep, plans, alive, bound, replied>>
    PROVE  PlanInv'
<1>1. mailbox \in Seq(Message)
  BY DEF TypeOK
<1>2. /\ NoneOf(mailbox, "reload") <=> NoneOf(mailbox', "reload")
      /\ NoneOf(mailbox, "status") <=> NoneOf(mailbox', "status")
      /\ OneOf(mailbox, "reload") => OneOf(mailbox', "reload")
      /\ OneOf(mailbox, "status") => OneOf(mailbox', "status")
      /\ AskedLast(mailbox) => AskedLast(mailbox')
  BY <1>1, AppendKeeps
<1>3. \A x : ReloadsTo(mailbox, x) => ReloadsTo(mailbox', x)
  BY <1>1, AppendKeeps
<1>4. \A x : AskedBy(mailbox, x) => AskedBy(mailbox', x)
  BY <1>1, AppendKeeps
<1>5. MtxExclusive' /\ ArgKept' /\ NothingLeft'
  BY DEF PlanInv, MtxExclusive, ArgKept, NothingLeft
<1>6. Steady'
  BY <1>2 DEF PlanInv, Steady
<1>7. ASSUME NEW c \in Caller, call'[c].op \in Swap PROVE Swapping(c)'
  BY <1>2, <1>3, <1>7 DEF PlanInv, Swapping
<1>8. AskedOnce'
  BY <1>2, <1>4 DEF PlanInv, AskedOnce
<1> QED BY <1>5, <1>6, <1>7, <1>8 DEF PlanInv

(* The actor takes a message and answers or is bound anew.                 *)
LEMMA PlansOnActor == ASSUME TypeOK, PlanInv, Actor PROVE PlanInv'
<1>1. /\ mailbox \in Seq(Message) /\ mailbox # << >> /\ mailbox' = Tail(mailbox)
      /\ Head(mailbox) \in Message
      /\ UNCHANGED <<mtx, call, dep, plans, alive, producer, bridge>>
  BY ActorDoes
<1>2. /\ NoneOf(mailbox, "reload") => NoneOf(mailbox', "reload")
      /\ NoneOf(mailbox, "status") => NoneOf(mailbox', "status")
      /\ Head(mailbox).type # "reload" /\ NoneOf(mailbox', "reload") => NoneOf(mailbox, "reload")
      /\ OneOf(mailbox, "reload") => OneOf(mailbox', "reload")
      /\ OneOf(mailbox, "status") => OneOf(mailbox', "status")
      /\ AskedLast(mailbox) => AskedLast(mailbox')
  BY <1>1, TailKeeps
<1>3. \A x : ReloadsTo(mailbox, x) => ReloadsTo(mailbox', x)
  BY <1>1, TailKeeps
<1>4. \A x : AskedBy(mailbox, x) => AskedBy(mailbox', x)
  BY <1>1, TailKeeps
<1>5. dep # None
  BY <1>1 DEF PlanInv, NothingLeft
<1>6. MtxExclusive' /\ ArgKept' /\ NothingLeft'
  BY <1>1, <1>5 DEF PlanInv, MtxExclusive, ArgKept, NothingLeft
<1>7. CASE HandleFrame
  <2>1. Head(mailbox).type # "reload" /\ UNCHANGED <<bound, replied>>
    BY <1>7, HandleFrameDoes
  <2>2. Steady'
    BY <1>1, <1>2, <2>1 DEF PlanInv, Steady
  <2>3. ASSUME NEW c \in Caller, call'[c].op \in Swap PROVE Swapping(c)'
    BY <1>1, <1>2, <1>3, <2>1, <2>3 DEF PlanInv, Swapping
  <2>4. AskedOnce'
    BY <1>1, <1>2, <1>4, <2>1 DEF PlanInv, AskedOnce
  <2> QED BY <1>6, <2>2, <2>3, <2>4 DEF PlanInv
<1>8. CASE HandleReload
  <2>1. /\ Head(mailbox).type = "reload" /\ bound' = Head(mailbox).plan /\ UNCHANGED replied
    BY <1>8 DEF HandleReload
  <2>2. PICK c \in Caller :
            /\ mtx = c /\ call[c].op \in Swap /\ Swapping(c)
            /\ Head(mailbox).plan = call[c].plan
    BY <1>1, <2>1, ReloadIsOfHolder
  <2>3. NoneOf(mailbox', "reload")
    BY <1>1, <2>1, TailKeeps DEF PlanInv, AskedOnce
  <2>4. Steady'
    BY <1>1, <2>2 DEF Steady
  <2>5. ASSUME NEW d \in Caller, call'[d].op \in Swap PROVE Swapping(d)'
    <3>1. d = c
      BY <1>1, <2>2, <2>5 DEF PlanInv, MtxExclusive, Swap, Holding
    <3> QED BY <1>1, <1>3, <2>1, <2>2, <2>3, <3>1 DEF Swapping
  <2>6. AskedOnce'
    BY <1>1, <1>2, <1>4, <2>1 DEF PlanInv, AskedOnce
  <2> QED BY <1>6, <2>4, <2>5, <2>6 DEF PlanInv
<1>9. CASE HandleStatus
  <2>1. /\ Head(mailbox).type = "status" /\ replied' = replied \cup {Head(mailbox).from}
        /\ UNCHANGED bound
    BY <1>9 DEF HandleStatus
  <2>2. /\ ~NoneOf(mailbox, "status") /\ NoneOf(mailbox', "status")
        /\ NoneOf(mailbox, "reload") /\ NoneOf(mailbox', "reload")
        /\ Head(mailbox).from = mtx
    BY <1>1, <1>2, <2>1, TailKeeps DEF PlanInv, AskedOnce
  <2>3. Steady'
    BY <1>1, <2>1, <2>2 DEF PlanInv, Steady
  <2>4. ASSUME NEW c \in Caller, call'[c].op \in Swap PROVE Swapping(c)'
    BY <1>1, <1>3, <2>1, <2>2, <2>4 DEF PlanInv, Swapping
  <2>5. AskedOnce'
    BY <1>1, <1>2, <1>4, <2>1, <2>2 DEF PlanInv, AskedOnce
  <2> QED BY <1>6, <2>3, <2>4, <2>5 DEF PlanInv
<1> QED BY <1>7, <1>8, <1>9 DEF Actor

(* deploy().                                                               *)
LEMMA PlansOnDeploy ==
    ASSUME TypeOK, PlanInv, NEW c \in Caller, NEW a \in App, Deploy(c, a)
    PROVE  PlanInv'
<1>1. /\ mtx = None /\ dep = None
      /\ alive' = alive \cup {Len(plans) + 1} /\ bound' = Len(plans) + 1
      /\ dep' = [app |-> a, plan |-> Len(plans) + 1]
      /\ mailbox' = << >> /\ replied' = {} /\ UNCHANGED <<mtx, call>>
  BY DEF Deploy, Enter
<1>2. /\ alive = {} /\ \A d \in Caller : call'[d].op \notin Swap
  BY <1>1, MtxFree DEF PlanInv, NothingLeft
<1>3. Len(plans) + 1 \in Nat /\ dep' # None /\ dep'.plan = Len(plans) + 1
  BY <1>1, DepIsSomething DEF TypeOK
<1>4. MtxExclusive' /\ ArgKept' /\ NothingLeft'
  BY <1>1, <1>3 DEF PlanInv, MtxExclusive, ArgKept, NothingLeft
<1>5. Steady'
  BY <1>1, <1>2, <1>3, EmptyMailbox DEF Steady
<1>6. AskedOnce'
  BY <1>1, EmptyMailbox DEF AskedOnce
<1> QED BY <1>2, <1>4, <1>5, <1>6 DEF PlanInv

(* reload(): a second plan, and the actor told of it.                      *)
LEMMA PlansOnReloadTell ==
    ASSUME TypeOK, PlanInv, NEW c \in Caller, NEW a \in App, ReloadTell(c, a)
    PROVE  PlanInv'
<1> DEFINE m == [type |-> "reload", plan |-> Len(plans) + 1]
<1>1. /\ mtx = None /\ mtx' = c /\ dep # None /\ dep' = dep
      /\ Len(plans) \in Nat /\ Len(plans') = Len(plans) + 1
      /\ alive' = alive \cup {Len(plans) + 1}
      /\ mailbox' = Append(mailbox, m) /\ m \in Message
      /\ UNCHANGED <<bound, replied>>
  BY ReloadTellDoes
<1>2. /\ \A d \in Caller : d # c => call'[d] = call[d]
      /\ call'[c].op \in Swap /\ call'[c].arg = a /\ call'[c].plan = Len(plans) + 1
  BY ReloadTellDoes
<1>3. /\ \A d \in Caller : call[d].op \notin Holding
      /\ NoneOf(mailbox, "status") /\ replied = {}
      /\ alive = {dep.plan} /\ bound = dep.plan /\ NoneOf(mailbox, "reload")
  BY <1>1, MtxFree
<1>4. m.type = "reload" /\ m.plan = Len(plans) + 1 /\ mailbox \in Seq(Message)
  BY DEF TypeOK
<1> HIDE DEF m
<1>5. /\ ~NoneOf(mailbox', "reload") /\ NoneOf(mailbox', "status")
      /\ OneOf(mailbox', "reload") /\ OneOf(mailbox', "status") /\ AskedLast(mailbox')
      /\ ReloadsTo(mailbox', Len(plans) + 1) /\ AskedBy(mailbox', c)
  BY <1>1, <1>3, <1>4, AppendKeeps
<1>6. MtxExclusive'
  BY <1>1, <1>2, <1>3 DEF MtxExclusive, Swap, Holding
<1>7. ArgKept'
  BY <1>1, <1>2 DEF PlanInv, ArgKept
<1>8. NothingLeft' /\ Steady'
  BY <1>1, <1>2 DEF NothingLeft, Steady
<1>9. ASSUME NEW d \in Caller, call'[d].op \in Swap PROVE Swapping(d)'
  <2>1. d = c
    BY <1>2, <1>3, <1>9 DEF Swap, Holding
  <2>2. dep.plan \in Nat /\ dep.plan <= Len(plans)
    BY <1>1, DepHasType
  <2> QED BY <1>1, <1>2, <1>3, <1>5, <2>1, <2>2 DEF Swapping
<1>10. AskedOnce'
  BY <1>1, <1>3, <1>5 DEF AskedOnce
<1> QED BY <1>6, <1>7, <1>8, <1>9, <1>10 DEF PlanInv

(* A caller without mtx_ moves on without it.                              *)
LEMMA PlansOnFreeCall ==
    ASSUME TypeOK, PlanInv, mtx = None, NEW c \in Caller,
           \A d \in Caller : d # c => call'[d] = call[d],
           call'[c].op \in {"none", "rollback"},
           call'[c].op = "rollback" => call'[c].arg \in App,
           UNCHANGED <<mtx, dep, plans, alive, bound, mailbox, replied, producer, bridge>>
    PROVE  PlanInv'
<1>1. /\ \A d \in Caller : call[d].op \notin Holding /\ call[d].op \notin Swap
      /\ NoneOf(mailbox, "status") /\ replied = {}
      /\ dep # None => alive = {dep.plan} /\ bound = dep.plan /\ NoneOf(mailbox, "reload")
  BY MtxFree
<1>2. \A d \in Caller : call'[d].op \notin Holding /\ call'[d].op \notin Swap /\ d # None
  BY <1>1, DeploymentAssumption DEF Holding, Swap
<1>3. MtxExclusive' /\ NothingLeft'
  BY <1>2 DEF PlanInv, MtxExclusive, NothingLeft
<1>4. ArgKept'
  BY <1>2 DEF PlanInv, ArgKept
<1>5. Steady'
  BY <1>1 DEF Steady
<1>6. AskedOnce'
  BY <1>1 DEF PlanInv, AskedOnce
<1> QED BY <1>2, <1>3, <1>4, <1>5, <1>6 DEF PlanInv

(* A call takes mtx_ to wait for the lane, or for the actor's answer.      *)
LEMMA PlansOnWait ==
    ASSUME TypeOK, PlanInv, mtx = None, dep # None, NEW c \in Caller, mtx' = c,
           \A d \in Caller : d # c => call'[d] = call[d],
           call'[c].op \in {"undeploy", "drain", "status"},
           \/ UNCHANGED mailbox
           \/ /\ mailbox' = Append(mailbox, [type |-> "status", from |-> c])
              /\ call'[c].op = "status",
           UNCHANGED <<dep, plans, alive, bound, replied, producer, bridge>>
    PROVE  PlanInv'
<1>1. /\ \A d \in Caller : call[d].op \notin Holding /\ call[d].op \notin Swap
      /\ NoneOf(mailbox, "status") /\ replied = {}
      /\ alive = {dep.plan} /\ bound = dep.plan /\ NoneOf(mailbox, "reload")
  BY MtxFree
<1>2. \A d \in Caller : call'[d].op \notin Swap /\ (d # c => call'[d].op \notin Holding)
  BY <1>1 DEF Swap
<1>3. MtxExclusive' /\ NothingLeft'
  BY <1>2 DEF MtxExclusive, NothingLeft, Holding
<1>4. ArgKept'
  BY <1>2 DEF PlanInv, ArgKept
<1>5. mailbox \in Seq(Message) /\ OneOf(mailbox, "reload") /\ OneOf(mailbox, "status")
  BY DEF TypeOK, PlanInv, AskedOnce
<1>6. CASE UNCHANGED mailbox
  <2>1. Steady'
    BY <1>1, <1>6 DEF Steady
  <2>2. AskedBy(mailbox', c)
    BY <1>1, <1>6 DEF AskedBy, NoneOf
  <2>3. AskedOnce'
    BY <1>1, <1>6, <2>2 DEF PlanInv, AskedOnce
  <2> QED BY <1>2, <1>3, <1>4, <2>1, <2>3 DEF PlanInv
<1>7. CASE /\ mailbox' = Append(mailbox, [type |-> "status", from |-> c])
           /\ call'[c].op = "status"
  <2> DEFINE m == [type |-> "status", from |-> c]
  <2>1. m \in Message /\ m.type = "status" /\ m.from = c
    BY DEF Message
  <2>2. mailbox' = Append(mailbox, m)
    BY <1>7
  <2> HIDE DEF m
  <2>3. /\ NoneOf(mailbox', "reload") /\ AskedBy(mailbox', c)
        /\ OneOf(mailbox', "reload") /\ OneOf(mailbox', "status") /\ AskedLast(mailbox')
    BY <1>1, <1>5, <2>1, <2>2, AppendKeeps
  <2>4. Steady'
    BY <1>1, <2>3 DEF Steady
  <2>5. AskedOnce'
    BY <1>1, <1>7, <2>3 DEF AskedOnce
  <2> QED BY <1>2, <1>3, <1>4, <2>4, <2>5 DEF PlanInv
<1> QED BY <1>6, <1>7

(* GetStatus behind the ReloadFlow.                                        *)
LEMMA PlansOnReloadAsk ==
    ASSUME TypeOK, PlanInv, NEW c \in Caller, ReloadAsk(c)
    PROVE  PlanInv'
<1> DEFINE m == [type |-> "status", from |-> c]
<1>1. /\ mtx = c /\ call[c].op \in Swap /\ c \notin replied
      /\ \A i \in 1..Len(mailbox) : mailbox[i] # m
      /\ mailbox' = Append(mailbox, m)
      /\ UNCHANGED <<mtx, call, dep, plans, alive, bound, replied, producer, bridge>>
  BY DEF ReloadAsk, memVars, laneVars, Swap
<1>2. m \in Message /\ m.type = "status" /\ m.from = c /\ mailbox \in Seq(Message)
  BY DEF Message, TypeOK
<1>3. NoneOf(mailbox, "status")
  <2>1. ASSUME NEW i \in 1..Len(mailbox), mailbox[i].type = "status" PROVE FALSE
    <3>1. mailbox[i] \in Message /\ mailbox[i].from = c
      BY <1>1, <1>2, <2>1 DEF PlanInv, AskedOnce, AskedBy
    <3>2. mailbox[i] = m
      BY <2>1, <3>1 DEF Message, Told
    <3> QED BY <1>1, <3>2
  <2> QED BY <2>1 DEF NoneOf
<1> HIDE DEF m
<1>4. /\ NoneOf(mailbox, "reload") <=> NoneOf(mailbox', "reload")
      /\ OneOf(mailbox, "reload") => OneOf(mailbox', "reload")
      /\ OneOf(mailbox', "status") /\ AskedLast(mailbox')
      /\ AskedBy(mailbox', c)
  BY <1>1, <1>2, <1>3, AppendKeeps
<1>5. \A x : ReloadsTo(mailbox, x) => ReloadsTo(mailbox', x)
  BY <1>1, <1>2, AppendKeeps
<1>6. dep # None
  BY <1>1, DeploymentAssumption DEF PlanInv, NothingLeft
<1>7. MtxExclusive' /\ ArgKept' /\ NothingLeft'
  BY <1>1, <1>6 DEF PlanInv, MtxExclusive, ArgKept, NothingLeft
<1>8. Steady'
  BY <1>1 DEF Steady
<1>9. ASSUME NEW d \in Caller, call'[d].op \in Swap PROVE Swapping(d)'
  BY <1>1, <1>4, <1>5, <1>9 DEF PlanInv, Swapping
<1>10. AskedOnce'
  BY <1>1, <1>4 DEF PlanInv, AskedOnce
<1> QED BY <1>7, <1>8, <1>9, <1>10 DEF PlanInv

(* The old plan is destroyed: the actor has taken the new one before it    *)
(* answered, and no message names the old.                                 *)
LEMMA PlansOnReloadSwap ==
    ASSUME TypeOK, PlanInv, NEW c \in Caller, ReloadSwap(c)
    PROVE  PlanInv'
<1>1. /\ mtx = c /\ call[c].op \in Swap /\ c \in replied
      /\ dep' = [app |-> call[c].arg, plan |-> call[c].plan]
      /\ alive' = alive \ {dep.plan} /\ replied' = replied \ {c}
      /\ Return(c)
      /\ UNCHANGED <<plans, bound, mailbox, producer, bridge>>
  BY DEF ReloadSwap, laneVars, Swap
<1>2. /\ mtx' = None /\ \A d \in Caller : d # c => call'[d] = call[d]
      /\ call'[c].op = "none" /\ \A d \in Caller : call'[d].op \notin Holding
  BY <1>1, ReturnGivesUp DEF PlanInv
<1>3. \A d \in Caller : call'[d].op \notin Swap /\ d # None
  BY <1>2, DeploymentAssumption DEF Swap, Holding
<1>4. Swapping(c) /\ call[c].arg \in App /\ call[c].plan \in Nat /\ dep # None
  BY <1>1, <1>3, CallHasType DEF PlanInv, ArgKept, NothingLeft, Call
<1>5. dep' # None /\ dep'.plan = call[c].plan /\ dep.plan \in Nat
  BY <1>1, <1>4, DepIsSomething, DepHasType
<1>6. NoneOf(mailbox, "reload") /\ bound = call[c].plan /\ alive' = {call[c].plan}
  BY <1>1, <1>4, <1>5 DEF Swapping
<1>7. replied' = {} /\ NoneOf(mailbox, "status")
  BY <1>1 DEF PlanInv, AskedOnce
<1>8. MtxExclusive' /\ NothingLeft'
  BY <1>2, <1>3, <1>5 DEF MtxExclusive, NothingLeft
<1>9. ArgKept'
  BY <1>2 DEF PlanInv, ArgKept, Swap
<1>10. Steady'
  BY <1>1, <1>5, <1>6 DEF Steady
<1>11. AskedBy(mailbox, None)
  BY <1>7 DEF AskedBy, NoneOf
<1>12. AskedOnce'
  BY <1>1, <1>2, <1>7, <1>11 DEF PlanInv, AskedOnce
<1> QED BY <1>3, <1>8, <1>9, <1>10, <1>12 DEF PlanInv

(* The Deployment is destroyed with its plan.                              *)
LEMMA PlansOnUndeploy ==
    ASSUME TypeOK, PlanInv, NEW c \in Caller, UndeployFinish(c)
    PROVE  PlanInv'
<1>1. /\ mtx = c /\ call[c].op = "undeploy"
      /\ dep' = None /\ alive' = alive \ {dep.plan} /\ replied' = {}
      /\ mailbox' = << >> /\ producer' = "none" /\ bridge' = "none"
      /\ Return(c)
  BY DEF UndeployFinish
<1>2. /\ mtx' = None /\ \A d \in Caller : d # c => call'[d] = call[d]
      /\ call'[c].op = "none" /\ \A d \in Caller : call'[d].op \notin Holding
  BY <1>1, ReturnGivesUp DEF PlanInv
<1>3. \A d \in Caller : call'[d].op \notin Swap /\ d # None
  BY <1>2, DeploymentAssumption DEF Swap, Holding
<1>4. \A d \in Caller : call[d].op \notin Swap
  BY <1>1 DEF PlanInv, MtxExclusive, Swap, Holding
<1>5. dep # None
  BY <1>1, <1>3 DEF PlanInv, NothingLeft
<1>6. alive' = {}
  BY <1>1, <1>4, <1>5 DEF PlanInv, Steady
<1>7. MtxExclusive' /\ NothingLeft' /\ Steady'
  BY <1>1, <1>2, <1>3, <1>6 DEF MtxExclusive, NothingLeft, Steady
<1>8. ArgKept'
  BY <1>2 DEF PlanInv, ArgKept, Swap
<1>9. AskedOnce'
  BY <1>1, EmptyMailbox DEF AskedOnce
<1> QED BY <1>3, <1>7, <1>8, <1>9 DEF PlanInv

(* status() has its answer, or await_driver_drain() its threads.           *)
LEMMA PlansOnReturn ==
    ASSUME TypeOK, PlanInv, NEW c \in Caller, mtx = c, Return(c),
           \/ call[c].op = "status" /\ c \in replied /\ replied' = replied \ {c}
           \/ call[c].op = "drain" /\ UNCHANGED replied,
           UNCHANGED <<dep, plans, alive, bound, mailbox, producer, bridge>>
    PROVE  PlanInv'
<1>1. /\ mtx' = None /\ \A d \in Caller : d # c => call'[d] = call[d]
      /\ call'[c].op = "none" /\ \A d \in Caller : call'[d].op \notin Holding
  BY ReturnGivesUp DEF PlanInv
<1>2. \A d \in Caller : call'[d].op \notin Swap /\ d # None
  BY <1>1, DeploymentAssumption DEF Swap, Holding
<1>3. \A d \in Caller : call[d].op \notin Swap
  BY DEF PlanInv, MtxExclusive, Swap, Holding
<1>4. dep # None
  BY <1>2 DEF PlanInv, NothingLeft
<1>5. replied' = {} /\ NoneOf(mailbox, "status")
  BY <1>3 DEF PlanInv, AskedOnce
<1>6. MtxExclusive' /\ NothingLeft'
  BY <1>1, <1>2, <1>4 DEF MtxExclusive, NothingLeft
<1>7. ArgKept'
  BY <1>1 DEF PlanInv, ArgKept, Swap
<1>8. Steady'
  BY <1>3 DEF PlanInv, Steady
<1>9. AskedBy(mailbox, None)
  BY <1>5 DEF AskedBy, NoneOf
<1>10. AskedOnce'
  BY <1>1, <1>5, <1>9 DEF PlanInv, AskedOnce
<1> QED BY <1>2, <1>6, <1>7, <1>8, <1>10 DEF PlanInv

-----------------------------------------------------------------------------
(* The frames                                                              *)

(* A mailbox has the frames from lo + 1 to hi, each once and in order.     *)
Queued(mb, lo, hi) ==
    /\ \A i \in 1..Len(mb) : IsFrame(mb[i]) => mb[i].frame \in lo + 1 .. hi
    /\ \A i, j \in 1..Len(mb) :
            i < j /\ IsFrame(mb[i]) /\ IsFrame(mb[j]) => mb[i].frame < mb[j].frame
    /\ \A n \in lo + 1 .. hi : \E i \in 1..Len(mb) : IsFrame(mb[i]) /\ mb[i].frame = n

(* A message that is no frame arrives among the frames.                    *)
LEMMA QueuedOnOther ==
    ASSUME NEW mb \in Seq(Message), NEW m \in Message, m.type # "frame",
           NEW lo \in Nat, NEW hi \in Nat, Queued(mb, lo, hi)
    PROVE  Queued(Append(mb, m), lo, hi)
<1> DEFINE s == Append(mb, m)
<1>1. /\ Len(mb) \in Nat /\ Len(s) = Len(mb) + 1 /\ s[Len(mb) + 1] = m
      /\ \A i \in 1..Len(mb) : s[i] = mb[i]
  BY AppendedIs
<1> HIDE DEF s
<1>2. \A i \in 1..Len(s) : IsFrame(s[i]) => i \in 1..Len(mb) /\ s[i] = mb[i]
  BY <1>1 DEF IsFrame
<1>3. 1..Len(mb) \subseteq 1..Len(s)
  BY <1>1
<1> QED BY <1>1, <1>2, <1>3 DEF Queued, s

(* The next frame arrives behind the others.                               *)
LEMMA QueuedOnFrame ==
    ASSUME NEW mb \in Seq(Message), NEW m \in Message,
           NEW lo \in Nat, NEW hi \in Nat, lo <= hi, Queued(mb, lo, hi),
           IsFrame(m), m.frame = hi + 1
    PROVE  Queued(Append(mb, m), lo, hi + 1)
<1> DEFINE s == Append(mb, m)
<1>1. /\ Len(mb) \in Nat /\ Len(s) = Len(mb) + 1 /\ s[Len(mb) + 1] = m
      /\ \A i \in 1..Len(mb) : s[i] = mb[i]
  BY AppendedIs
<1> HIDE DEF s
<1>2. \A i \in 1..Len(s) : (i \in 1..Len(mb) /\ s[i] = mb[i]) \/ (i = Len(mb) + 1 /\ s[i] = m)
  BY <1>1
<1>3. ASSUME NEW i \in 1..Len(s), IsFrame(s[i]) PROVE s[i].frame \in lo + 1 .. hi + 1
  BY <1>2, <1>3 DEF Queued
<1>4. ASSUME NEW i \in 1..Len(s), NEW j \in 1..Len(s), i < j, IsFrame(s[i]), IsFrame(s[j])
      PROVE  s[i].frame < s[j].frame
  <2>1. i \in 1..Len(mb) /\ s[i] = mb[i] /\ s[i].frame \in lo + 1 .. hi
    BY <1>1, <1>2, <1>4 DEF Queued
  <2>2. CASE j \in 1..Len(mb) /\ s[j] = mb[j]
    BY <1>4, <2>1, <2>2 DEF Queued
  <2>3. CASE s[j] = m
    BY <2>1, <2>3
  <2> QED BY <1>2, <2>2, <2>3
<1>5. ASSUME NEW n \in lo + 1 .. hi + 1
      PROVE  \E i \in 1..Len(s) : IsFrame(s[i]) /\ s[i].frame = n
  <2>1. CASE n = hi + 1
    BY <1>1, <2>1
  <2>2. CASE n # hi + 1
    <3>1. PICK i \in 1..Len(mb) : IsFrame(mb[i]) /\ mb[i].frame = n
      BY <2>2 DEF Queued
    <3> QED BY <1>1, <3>1
  <2> QED BY <2>1, <2>2
<1> QED BY <1>3, <1>4, <1>5 DEF Queued, s

(* A message that is no frame is taken.                                    *)
LEMMA QueuedAfterOther ==
    ASSUME NEW mb \in Seq(Message), mb # << >>, ~IsFrame(Head(mb)),
           NEW lo \in Nat, NEW hi \in Nat, Queued(mb, lo, hi)
    PROVE  Queued(Tail(mb), lo, hi)
<1> DEFINE s == Tail(mb)
<1>1. /\ Head(mb) = mb[1] /\ Len(mb) \in Nat /\ Len(s) = Len(mb) - 1
      /\ \A i \in 1..Len(s) : s[i] = mb[i + 1] /\ i + 1 \in 1..Len(mb)
      /\ \A i \in 1..Len(mb) : i # 1 => i - 1 \in 1..Len(s) /\ s[i - 1] = mb[i]
  BY TakenIs
<1> HIDE DEF s
<1>2. ASSUME NEW i \in 1..Len(s), IsFrame(s[i]) PROVE s[i].frame \in lo + 1 .. hi
  BY <1>1, <1>2 DEF Queued
<1>3. ASSUME NEW i \in 1..Len(s), NEW j \in 1..Len(s), i < j, IsFrame(s[i]), IsFrame(s[j])
      PROVE  s[i].frame < s[j].frame
  BY <1>1, <1>3 DEF Queued
<1>4. ASSUME NEW n \in lo + 1 .. hi
      PROVE  \E i \in 1..Len(s) : IsFrame(s[i]) /\ s[i].frame = n
  <2>1. PICK i \in 1..Len(mb) : IsFrame(mb[i]) /\ mb[i].frame = n
    BY DEF Queued
  <2>2. i # 1
    BY <1>1, <2>1
  <2> QED BY <1>1, <2>1, <2>2
<1> QED BY <1>2, <1>3, <1>4 DEF Queued, s

(* The first frame of a mailbox is the one after those processed.          *)
LEMMA QueuedAfterFrame ==
    ASSUME NEW mb \in Seq(Message), mb # << >>, IsFrame(Head(mb)),
           NEW lo \in Nat, NEW hi \in Nat, Queued(mb, lo, hi)
    PROVE  Head(mb).frame = lo + 1 /\ lo + 1 <= hi /\ Queued(Tail(mb), lo + 1, hi)
<1> DEFINE s == Tail(mb)
<1>1. /\ Head(mb) = mb[1] /\ 1 \in 1..Len(mb) /\ Len(mb) \in Nat /\ Len(s) = Len(mb) - 1
      /\ \A i \in 1..Len(s) : s[i] = mb[i + 1] /\ i + 1 \in 1..Len(mb)
      /\ \A i \in 1..Len(mb) : i # 1 => i - 1 \in 1..Len(s) /\ s[i - 1] = mb[i]
  BY TakenIs
<1> HIDE DEF s
<1>2. Head(mb).frame \in lo + 1 .. hi
  BY <1>1 DEF Queued
<1>3. Head(mb).frame = lo + 1
  <2>1. lo + 1 \in lo + 1 .. hi
    BY <1>2
  <2>2. PICK i \in 1..Len(mb) : IsFrame(mb[i]) /\ mb[i].frame = lo + 1
    BY <2>1 DEF Queued
  <2>3. i # 1 => mb[1].frame < lo + 1
    BY <1>1, <2>2 DEF Queued
  <2> QED BY <1>1, <1>2, <2>2, <2>3
<1>4. ASSUME NEW i \in 1..Len(s), IsFrame(s[i]) PROVE s[i].frame \in lo + 1 + 1 .. hi
  <2>1. s[i] = mb[i + 1] /\ i + 1 \in 1..Len(mb) /\ 1 < i + 1
    BY <1>1
  <2>2. mb[i + 1].frame \in lo + 1 .. hi /\ mb[1].frame < mb[i + 1].frame
    BY <1>1, <1>4, <2>1 DEF Queued
  <2> QED BY <1>1, <1>3, <2>1, <2>2
<1>5. ASSUME NEW i \in 1..Len(s), NEW j \in 1..Len(s), i < j, IsFrame(s[i]), IsFrame(s[j])
      PROVE  s[i].frame < s[j].frame
  <2>1. /\ s[i] = mb[i + 1] /\ i + 1 \in 1..Len(mb) /\ s[j] = mb[j + 1] /\ j + 1 \in 1..Len(mb)
        /\ i + 1 < j + 1
    BY <1>1, <1>5
  <2> QED BY <1>5, <2>1 DEF Queued
<1>6. ASSUME NEW n \in lo + 1 + 1 .. hi
      PROVE  \E i \in 1..Len(s) : IsFrame(s[i]) /\ s[i].frame = n
  <2>1. n \in lo + 1 .. hi
    OBVIOUS
  <2>2. PICK i \in 1..Len(mb) : IsFrame(mb[i]) /\ mb[i].frame = n
    BY <2>1 DEF Queued
  <2>3. i # 1
    BY <1>1, <1>3, <2>2
  <2> QED BY <1>1, <2>2, <2>3
<1> QED BY <1>2, <1>3, <1>4, <1>5, <1>6 DEF Queued, s

(* The queued frames, by the counts of those before and behind them.       *)
LEMMA QueuedIs == QueuedInOrder <=> Queued(mailbox, Len(processed), produced - Len(stream))
  BY DEF QueuedInOrder, Queued

(* The same in the next state.                                             *)
LEMMA QueuedWillBe == QueuedInOrder' <=> Queued(mailbox', Len(processed'), produced' - Len(stream'))
  BY DEF QueuedInOrder, Queued

(* How many frames are where.                                              *)
LEMMA FrameCounts ==
    ASSUME TypeOK, FrameInv
    PROVE  /\ Len(processed) \in Nat /\ Len(stream) \in Nat /\ produced \in Nat
           /\ Len(processed) <= produced - Len(stream) /\ produced - Len(stream) \in Nat
  BY DEF TypeOK, FrameInv, StreamedInOrder

(* A message that is no frame.                                             *)
LEMMA FramesOnOther ==
    ASSUME TypeOK, FrameInv, NEW m \in Message, m.type # "frame",
           mailbox' = mailbox \/ mailbox' = Append(mailbox, m),
           UNCHANGED <<processed, bound, stream, produced>>
    PROVE  FrameInv'
<1>1. mailbox \in Seq(Message)
  BY DEF TypeOK
<1>2. Queued(mailbox, Len(processed), produced - Len(stream))
  BY QueuedIs DEF FrameInv
<1>3. Queued(mailbox', Len(processed), produced - Len(stream))
  BY <1>1, <1>2, FrameCounts, QueuedOnOther
<1>4. QueuedInOrder'
  BY <1>3, QueuedWillBe
<1> QED BY <1>4 DEF FrameInv, ProcessedInOrder, StreamedInOrder

(* A deployment begins, or is gone.                                        *)
LEMMA FramesReset ==
    ASSUME mailbox' = << >>, processed' = << >>, stream' = << >>, produced' = 0
    PROVE  FrameInv'
  BY DEF FrameInv, ProcessedInOrder, QueuedInOrder, StreamedInOrder

(* The actor runs a frame, or takes another message.                       *)
LEMMA FramesOnActor == ASSUME TypeOK, PlanInv, FrameInv, Actor PROVE FrameInv'
<1>1. /\ mailbox \in Seq(Message) /\ mailbox # << >> /\ mailbox' = Tail(mailbox)
      /\ UNCHANGED <<stream, produced>>
  BY ActorDoes
<1>2. Queued(mailbox, Len(processed), produced - Len(stream))
  BY QueuedIs DEF FrameInv
<1>3. bound \in Nat /\ processed \in Seq([frame : Nat, plan : Nat])
  BY DEF TypeOK
<1>4. ASSUME NEW i \in 1..Len(processed) PROVE processed[i].plan \in Nat
  <2>1. processed[i] \in [frame : Nat, plan : Nat]
    BY <1>3, ElementOfSeq
  <2> QED BY <2>1
<1>5. CASE ~IsFrame(Head(mailbox))
  <2>1. Queued(mailbox', Len(processed), produced - Len(stream))
    BY <1>1, <1>2, <1>5, FrameCounts, QueuedAfterOther
  <2>2. processed' = processed /\ bound <= bound'
    <3>1. CASE HandleFrame
      BY <1>3, <1>5, <3>1, HandleFrameDoes DEF IsFrame
    <3>2. CASE HandleReload
      <4>1. /\ Head(mailbox).type = "reload" /\ bound' = Head(mailbox).plan
            /\ processed' = processed
        BY <3>2 DEF HandleReload
      <4>2. PICK c \in Caller :
                Swapping(c) /\ Head(mailbox).plan = call[c].plan /\ bound = dep.plan
        BY <1>1, <4>1, ReloadIsOfHolder
      <4>3. call[c].plan \in Nat
        BY CallHasType DEF Call
      <4> QED BY <1>3, <4>1, <4>2, <4>3 DEF Swapping
    <3>3. CASE HandleStatus
      BY <1>3, <3>3 DEF HandleStatus
    <3> QED BY <3>1, <3>2, <3>3 DEF Actor
  <2>3. QueuedInOrder'
    BY <1>1, <2>1, <2>2, QueuedWillBe
  <2>4. ProcessedInOrder' /\ StreamedInOrder'
    BY <1>1, <2>2 DEF FrameInv, ProcessedInOrder, StreamedInOrder
  <2>5. ASSUME NEW i \in 1..Len(processed') PROVE processed'[i].plan <= bound'
    <3>1. i \in 1..Len(processed) /\ processed'[i] = processed[i] /\ processed[i].plan <= bound
      BY <2>2 DEF FrameInv
    <3>2. processed[i].plan \in Nat /\ bound' \in Nat
      BY <1>4, <3>1, ActorType DEF TypeOK
    <3> QED BY <1>3, <2>2, <3>1, <3>2
  <2> QED BY <2>3, <2>4, <2>5 DEF FrameInv
<1>6. CASE IsFrame(Head(mailbox))
  <2> DEFINE done == [frame |-> Head(mailbox).frame, plan |-> bound]
             n == Len(processed)
  <2>1. /\ Head(mailbox).frame = n + 1 /\ n + 1 <= produced - Len(stream)
        /\ Queued(mailbox', n + 1, produced - Len(stream))
    BY <1>1, <1>2, <1>6, FrameCounts, QueuedAfterFrame
  <2>2. processed' = Append(processed, done) /\ bound' = bound
    BY <1>6, HandleFrameDoes DEF IsFrame, Actor, HandleReload, HandleStatus
  <2>3. done \in [frame : Nat, plan : Nat] /\ done.frame = n + 1 /\ done.plan = bound
    BY <1>3, <2>1, FrameCounts
  <2> HIDE DEF done
  <2>4. /\ Len(processed') = n + 1 /\ n \in Nat /\ processed'[n + 1] = done
        /\ \A i \in 1..n : processed'[i] = processed[i]
    BY <1>3, <2>2, <2>3, AppendProperties
  <2>5. \A i \in 1..n : processed[i].plan \in Nat /\ processed[i].plan <= bound
    BY <1>4 DEF FrameInv
  <2>6. QueuedInOrder'
    BY <1>1, <2>1, <2>4, QueuedWillBe
  <2>7. ProcessedInOrder'
    <3>1. ASSUME NEW i \in 1..Len(processed') PROVE processed'[i].frame = i
      BY <2>3, <2>4 DEF FrameInv, ProcessedInOrder
    <3>2. ASSUME NEW i \in 1..Len(processed'), NEW j \in 1..Len(processed'), i < j
          PROVE  processed'[i].plan <= processed'[j].plan
      <4>1. i \in 1..n /\ processed'[i] = processed[i]
        BY <2>4, <3>2
      <4>2. CASE j \in 1..n
        BY <2>4, <3>2, <4>1, <4>2 DEF FrameInv, ProcessedInOrder
      <4>3. CASE j = n + 1
        BY <2>3, <2>4, <2>5, <4>1, <4>3
      <4> QED BY <2>4, <4>2, <4>3
    <3> QED BY <3>1, <3>2 DEF ProcessedInOrder
  <2>8. StreamedInOrder'
    BY <1>1, <2>1, <2>4, FrameCounts DEF FrameInv, StreamedInOrder
  <2>9. ASSUME NEW i \in 1..Len(processed') PROVE processed'[i].plan <= bound'
    BY <1>3, <2>2, <2>3, <2>4, <2>5
  <2> QED BY <2>6, <2>7, <2>8, <2>9 DEF FrameInv
<1> QED BY <1>5, <1>6

(* The driver pushes a frame behind those in the stream.                   *)
LEMMA FramesOnPush == ASSUME TypeOK, FrameInv, ProducePush PROVE FrameInv'
<1>1. /\ stream' = Append(stream, produced + 1) /\ produced' = produced + 1
      /\ UNCHANGED <<mailbox, processed, bound>>
  BY DEF ProducePush, actorVars
<1>2. /\ Len(processed) \in Nat /\ Len(stream) \in Nat /\ produced \in Nat
      /\ Len(processed) <= produced - Len(stream)
  BY FrameCounts
<1>3. /\ Len(stream') = Len(stream) + 1 /\ stream'[Len(stream) + 1] = produced + 1
      /\ \A i \in 1..Len(stream) : stream'[i] = stream[i]
  BY <1>1, <1>2, AppendProperties DEF TypeOK
<1>4. produced' - Len(stream') = produced - Len(stream)
  BY <1>1, <1>2, <1>3
<1>5. QueuedInOrder'
  BY <1>1, <1>4, QueuedIs, QueuedWillBe DEF FrameInv
<1>6. ASSUME NEW i \in 1..Len(stream') PROVE stream'[i] = produced' - Len(stream') + i
  <2>1. CASE i \in 1..Len(stream)
    BY <1>3, <1>4, <2>1 DEF FrameInv, StreamedInOrder
  <2>2. CASE i = Len(stream) + 1
    BY <1>1, <1>2, <1>3, <2>2
  <2> QED BY <1>2, <1>3, <2>1, <2>2
<1>7. StreamedInOrder'
  BY <1>1, <1>2, <1>3, <1>6 DEF StreamedInOrder
<1> QED BY <1>1, <1>5, <1>7 DEF FrameInv, ProcessedInOrder

(* The bridge moves the oldest frame of the stream into the mailbox.       *)
LEMMA FramesOnForward == ASSUME TypeOK, FrameInv, BridgeForward PROVE FrameInv'
<1> DEFINE m == [type |-> "frame", frame |-> Head(stream)]
           hi == produced - Len(stream)
<1>1. /\ mailbox' = Append(mailbox, m) /\ m \in Message
      /\ stream \in Seq(Nat) /\ stream # << >> /\ stream' = Tail(stream)
      /\ Len(stream) >= 1 /\ Len(stream') = Len(stream) - 1 /\ Head(stream) = stream[1]
      /\ UNCHANGED <<processed, bound, produced>>
  BY BridgeForwardDoes
<1>2. /\ Len(processed) \in Nat /\ Len(stream) \in Nat /\ produced \in Nat
      /\ Len(processed) <= hi /\ hi \in Nat
  BY FrameCounts
<1>3. \A i \in 1..Len(stream') : stream'[i] = stream[i + 1]
  BY <1>1, HeadTailProperties
<1>4. IsFrame(m) /\ m.frame = hi + 1
  BY <1>1, <1>2 DEF IsFrame, FrameInv, StreamedInOrder
<1> HIDE DEF m
<1>5. Queued(mailbox, Len(processed), hi) /\ mailbox \in Seq(Message)
  BY QueuedIs DEF FrameInv, TypeOK
<1>6. Queued(mailbox', Len(processed), hi + 1)
  BY <1>1, <1>2, <1>4, <1>5, QueuedOnFrame
<1>7. produced' - Len(stream') = hi + 1
  BY <1>1, <1>2
<1>8. QueuedInOrder'
  BY <1>1, <1>6, <1>7, QueuedWillBe
<1>9. ASSUME NEW i \in 1..Len(stream') PROVE stream'[i] = produced' - Len(stream') + i
  <2>1. i + 1 \in 1..Len(stream) /\ i \in Nat
    BY <1>1, <1>2
  <2>2. stream[i + 1] = hi + (i + 1)
    BY <2>1 DEF FrameInv, StreamedInOrder
  <2> QED BY <1>2, <1>3, <1>7, <2>1, <2>2
<1>10. StreamedInOrder'
  BY <1>1, <1>2, <1>9 DEF StreamedInOrder
<1> QED BY <1>1, <1>8, <1>10 DEF FrameInv, ProcessedInOrder

-----------------------------------------------------------------------------
(* Every step                                                              *)

(* The inductive invariant.                                                *)
DeploymentInv == TypeOK /\ PlanInv /\ LaneInv /\ FrameInv

(* The invariant holds before the first call.                              *)
LEMMA InitDeployment == Init => DeploymentInv
<1> SUFFICES ASSUME Init PROVE DeploymentInv
  OBVIOUS
<1>1. /\ << >> \in Seq(Message) /\ << >> \in Seq([frame : Nat, plan : Nat])
      /\ << >> \in Seq(Nat) /\ << >> \in Seq(App)
      /\ Len(<< >>) <= Capacity /\ 0 \in 0..FrameCount /\ 0 \in 0..Len(<< >>)
  BY DeploymentAssumption
<1>2. call \in [Caller -> Call] /\ \A c \in Caller : call[c].op = "none"
  BY IdleIsCall DEF Init
<1>3. TypeOK
  BY <1>1, <1>2 DEF Init, TypeOK
<1>4. \A c \in Caller : call[c].op \notin Holding /\ call[c].op \notin Swap /\ c # None
  BY <1>2, DeploymentAssumption DEF Holding, Swap
<1>5. MtxExclusive /\ ArgKept /\ NothingLeft /\ Steady
  BY <1>2, <1>4 DEF Init, MtxExclusive, ArgKept, NothingLeft, Steady
<1>6. AskedOnce
  BY EmptyMailbox DEF Init, AskedOnce
<1>7. LaneInv
  BY DEF Init, LaneInv
<1>8. FrameInv
  BY DEF Init, FrameInv, ProcessedInOrder, QueuedInOrder, StreamedInOrder
<1> QED BY <1>3, <1>4, <1>5, <1>6, <1>7, <1>8 DEF DeploymentInv, PlanInv

(* A call that leaves the lane and the frames alone, but for a message     *)
(* that is no frame.                                                       *)
LEMMA CallLeavesFrames ==
    ASSUME DeploymentInv, TypeOK', PlanInv', NEW m \in Message, m.type # "frame",
           mailbox' = mailbox \/ mailbox' = Append(mailbox, m),
           UNCHANGED <<processed, bound, producer, stream, bridge, produced>>,
           stop_flag' = stop_flag \/ stop_flag' = TRUE
    PROVE  DeploymentInv'
<1>1. FrameInv'
  BY FramesOnOther DEF DeploymentInv
<1>2. LaneInv'
  BY DEF DeploymentInv, LaneInv
<1> QED BY <1>1, <1>2 DEF DeploymentInv

(* What tell_frame sends is a message of its own kind.                     *)
LEMMA ToldIsMessage == Told \in Message /\ Told.type = "told"
  BY DEF Message, Told

(* deploy keeps the invariant: it starts both lanes on nothing.            *)
LEMMA DeployKeeps ==
    ASSUME DeploymentInv, NEW c \in Caller, NEW a \in App, Deploy(c, a)
    PROVE  DeploymentInv'
<1>1. TypeOK' /\ PlanInv'
  BY DeployType, PlansOnDeploy DEF DeploymentInv
<1>2. LaneInv'
  BY DEF Deploy, LaneInv
<1>3. FrameInv'
  BY FramesReset DEF Deploy
<1> QED BY <1>1, <1>2, <1>3 DEF DeploymentInv

(* So does a reload or an undo that sends its plan,                        *)
LEMMA ReloadTellKeeps ==
    ASSUME DeploymentInv, NEW c \in Caller, NEW a \in App, ReloadTell(c, a)
    PROVE  DeploymentInv'
<1>1. TypeOK' /\ PlanInv'
  BY ReloadTellType, PlansOnReloadTell DEF DeploymentInv
<1> DEFINE m == [type |-> "reload", plan |-> Len(plans) + 1]
<1>2. /\ m \in Message /\ mailbox' = Append(mailbox, m)
      /\ UNCHANGED <<processed, bound, stop_flag, producer, stream, bridge, produced>>
  BY ReloadTellDoes DEF DeploymentInv
<1>3. m.type # "frame"
  OBVIOUS
<1> HIDE DEF m
<1> QED BY <1>1, <1>2, <1>3, CallLeavesFrames

(* reload() as the second half of a rollback returns early; a rollback     *)
(* has read the previous version.                                          *)
LEMMA RollbackKeeps ==
    ASSUME DeploymentInv, NEW c \in Caller, ReloadRefused(c) \/ RollbackRead(c)
    PROVE  DeploymentInv'
<1>1. /\ mtx = None
      /\ UNCHANGED <<mtx, dep, previous_app, plans, alive, bound, mailbox, processed, replied,
                     stop_flag, producer, stream, bridge, produced>>
  BY DEF ReloadRefused, RollbackRead, Enter, memVars, actorVars, laneVars
<1>2. PICK r \in Call :
          /\ call' = [call EXCEPT ![c] = r] /\ r.op \in {"none", "rollback"}
          /\ r.op = "rollback" => r.arg \in App
  <2>1. CASE ReloadRefused(c)
    BY <2>1, IdleIsCall DEF ReloadRefused
  <2>2. CASE RollbackRead(c)
    <3> DEFINE r == [op |-> "rollback", arg |-> previous_app, plan |-> 0]
    <3>1. previous_app \in App /\ call' = [call EXCEPT ![c] = r]
      BY <2>2 DEF RollbackRead, DeploymentInv, TypeOK
    <3>2. r \in Call /\ r.op = "rollback" /\ r.arg \in App
      BY <3>1 DEF Call, Op
    <3> HIDE DEF r
    <3> QED BY <3>1, <3>2
  <2> QED BY <2>1, <2>2
<1>3. /\ call' \in [Caller -> Call] /\ call'[c] = r
      /\ \A d \in Caller : d # c => call'[d] = call[d]
  BY <1>2, CallSet DEF DeploymentInv
<1>4. TypeOK'
  BY <1>1, <1>3 DEF DeploymentInv, TypeOK
<1>5. PlanInv'
  BY <1>1, <1>2, <1>3, PlansOnFreeCall DEF DeploymentInv
<1> QED BY <1>1, <1>4, <1>5, ToldIsMessage, CallLeavesFrames

(* undeploy(), status() and await_driver_drain() take mtx_ and wait.       *)
LEMMA WaitKeeps ==
    ASSUME DeploymentInv, NEW c \in Caller, UndeployStop(c) \/ StatusAsk(c) \/ AwaitDrain(c)
    PROVE  DeploymentInv'
<1> DEFINE m == [type |-> "status", from |-> c]
<1>1. /\ mtx = None /\ dep # None /\ mtx' = c
      /\ stop_flag' = stop_flag \/ stop_flag' = TRUE
      /\ UNCHANGED <<dep, previous_app, plans, alive, bound, processed, replied, producer, stream,
                     bridge, produced>>
  BY DEF UndeployStop, StatusAsk, AwaitDrain, Enter, memVars, actorVars, laneVars
<1>2. m \in Message /\ m.type = "status"
  BY DEF Message
<1>3. PICK r \in Call :
          /\ call' = [call EXCEPT ![c] = r] /\ r.op \in {"undeploy", "drain", "status"}
          /\ mailbox' = mailbox \/ (mailbox' = Append(mailbox, m) /\ r.op = "status")
  <2>1. ASSUME NEW o \in {"undeploy", "drain", "status"}
        PROVE  [op |-> o, arg |-> None, plan |-> 0] \in Call
    BY DEF Call, Op
  <2>2. CASE UndeployStop(c)
    <3> DEFINE r == [op |-> "undeploy", arg |-> None, plan |-> 0]
    <3>1. r \in Call /\ r.op = "undeploy" /\ call' = [call EXCEPT ![c] = r] /\ mailbox' = mailbox
      BY <2>1, <2>2 DEF UndeployStop, actorVars
    <3> HIDE DEF r
    <3> QED BY <3>1
  <2>3. CASE AwaitDrain(c)
    <3> DEFINE r == [op |-> "drain", arg |-> None, plan |-> 0]
    <3>1. r \in Call /\ r.op = "drain" /\ call' = [call EXCEPT ![c] = r] /\ mailbox' = mailbox
      BY <2>1, <2>3 DEF AwaitDrain, actorVars
    <3> HIDE DEF r
    <3> QED BY <3>1
  <2>4. CASE StatusAsk(c)
    <3> DEFINE r == [op |-> "status", arg |-> None, plan |-> 0]
    <3>1. /\ r \in Call /\ r.op = "status" /\ call' = [call EXCEPT ![c] = r]
          /\ mailbox' = Append(mailbox, m)
      BY <2>1, <2>4 DEF StatusAsk
    <3> HIDE DEF r
    <3> QED BY <3>1
  <2> QED BY <2>2, <2>3, <2>4
<1>4. /\ call' \in [Caller -> Call] /\ call'[c] = r
      /\ \A d \in Caller : d # c => call'[d] = call[d]
  BY <1>3, CallSet DEF DeploymentInv
<1>5. PlanInv'
  BY <1>1, <1>3, <1>4, PlansOnWait DEF DeploymentInv
<1> HIDE DEF m
<1>6. mailbox' \in Seq(Message)
  BY <1>2, <1>3, AppendedIs DEF DeploymentInv, TypeOK
<1>7. TypeOK'
  BY <1>1, <1>4, <1>6 DEF DeploymentInv, TypeOK
<1> QED BY <1>1, <1>2, <1>3, <1>5, <1>7, CallLeavesFrames

(* tell_frame,                                                             *)
LEMMA TellFrameKeeps == ASSUME DeploymentInv, NEW c \in Caller, TellFrame(c) PROVE DeploymentInv'
<1>1. /\ dep # None /\ mailbox' = Append(mailbox, Told)
      /\ UNCHANGED <<mtx, call, dep, previous_app, plans, alive, bound, processed, replied, stop_flag,
                     producer, stream, bridge, produced>>
  BY DEF TellFrame, Enter, memVars, laneVars
<1>2. PlanInv'
  BY <1>1, ToldIsMessage, PlansOnFrame DEF DeploymentInv
<1>3. mailbox' \in Seq(Message)
  BY <1>1, ToldIsMessage, AppendedIs DEF DeploymentInv, TypeOK
<1>4. TypeOK'
  BY <1>1, <1>3 DEF DeploymentInv, TypeOK
<1> QED BY <1>1, <1>2, <1>4, ToldIsMessage, CallLeavesFrames

(* the GetStatus behind the plan,                                          *)
LEMMA ReloadAskKeeps == ASSUME DeploymentInv, NEW c \in Caller, ReloadAsk(c) PROVE DeploymentInv'
<1> DEFINE m == [type |-> "status", from |-> c]
<1>1. /\ mailbox' = Append(mailbox, m)
      /\ UNCHANGED <<mtx, call, dep, previous_app, plans, alive, bound, processed, replied, stop_flag,
                     producer, stream, bridge, produced>>
  BY DEF ReloadAsk, memVars, laneVars
<1>2. m \in Message /\ m.type # "frame"
  BY DEF Message
<1> HIDE DEF m
<1>3. PlanInv'
  BY PlansOnReloadAsk DEF DeploymentInv
<1>4. mailbox' \in Seq(Message)
  BY <1>1, <1>2, AppendedIs DEF DeploymentInv, TypeOK
<1>5. TypeOK'
  BY <1>1, <1>4 DEF DeploymentInv, TypeOK
<1> QED BY <1>1, <1>2, <1>3, <1>5, CallLeavesFrames

(* the swap once the actor has answered,                                   *)
LEMMA ReloadSwapKeeps == ASSUME DeploymentInv, NEW c \in Caller, ReloadSwap(c) PROVE DeploymentInv'
<1>1. /\ mtx = c /\ call[c].op \in Swap
      /\ previous_app' = dep.app /\ dep' = [app |-> call[c].arg, plan |-> call[c].plan]
      /\ alive' = alive \ {dep.plan} /\ replied' = replied \ {c}
      /\ Return(c)
      /\ UNCHANGED <<plans, bound, mailbox, processed, stop_flag, producer, stream, bridge, produced>>
  BY DEF ReloadSwap, laneVars, Swap
<1>2. mtx' = None /\ call' \in [Caller -> Call]
  BY <1>1, ReturnGivesUp DEF DeploymentInv, PlanInv
<1>3. Swapping(c) /\ call[c].arg \in App /\ call[c].plan \in Nat /\ dep # None
  BY <1>1, CallHasType, DeploymentAssumption DEF DeploymentInv, PlanInv, ArgKept, NothingLeft, Call
<1>4. dep.plan \in Nat /\ Len(plans) \in Nat /\ dep.app \in App
  BY <1>3, DepHasType DEF DeploymentInv
<1>5. call[c].plan \in 1..Len(plans)
  BY <1>3, <1>4 DEF Swapping
<1>6. dep' \in [app : App, plan : 1..Len(plans)]
  BY <1>1, <1>3, <1>5
<1>7. TypeOK'
  BY <1>1, <1>2, <1>4, <1>6 DEF DeploymentInv, TypeOK
<1>8. PlanInv'
  BY PlansOnReloadSwap DEF DeploymentInv
<1> QED BY <1>1, <1>7, <1>8, ToldIsMessage, CallLeavesFrames

(* the teardown after both lanes have ended,                               *)
LEMMA UndeployKeeps == ASSUME DeploymentInv, NEW c \in Caller, UndeployFinish(c) PROVE DeploymentInv'
<1>1. /\ mtx = c /\ Return(c)
      /\ alive' = alive \ {dep.plan} /\ dep' = None /\ bound' = 0
      /\ mailbox' = << >> /\ processed' = << >> /\ replied' = {}
      /\ producer' = "none" /\ bridge' = "none" /\ stream' = << >> /\ produced' = 0
      /\ stop_flag' = FALSE /\ UNCHANGED <<previous_app, plans>>
  BY DEF UndeployFinish
<1>2. mtx' = None /\ call' \in [Caller -> Call]
  BY <1>1, ReturnGivesUp DEF DeploymentInv, PlanInv
<1>3. /\ << >> \in Seq(Message) /\ << >> \in Seq([frame : Nat, plan : Nat])
      /\ << >> \in Seq(Nat) /\ Len(<< >>) <= Capacity /\ 0 \in 0..FrameCount
  BY DeploymentAssumption
<1>4. 0 \in 0..Len(plans)
  BY DEF DeploymentInv, TypeOK
<1>5. TypeOK'
  BY <1>1, <1>2, <1>3, <1>4 DEF DeploymentInv, TypeOK
<1>6. PlanInv'
  BY PlansOnUndeploy DEF DeploymentInv
<1>7. LaneInv' /\ FrameInv'
  BY <1>1, FramesReset DEF LaneInv
<1> QED BY <1>5, <1>6, <1>7 DEF DeploymentInv

(* a status or a drain that returns,                                       *)
LEMMA ReturnKeeps ==
    ASSUME DeploymentInv, NEW c \in Caller, StatusReturn(c) \/ AwaitDrained(c)
    PROVE  DeploymentInv'
<1>1. /\ mtx = c /\ Return(c)
      /\ \/ call[c].op = "status" /\ c \in replied /\ replied' = replied \ {c}
         \/ call[c].op = "drain" /\ UNCHANGED replied
      /\ UNCHANGED <<dep, previous_app, plans, alive, bound, mailbox, processed, stop_flag, producer,
                     stream, bridge, produced>>
  BY DEF StatusReturn, AwaitDrained, memVars, actorVars, laneVars
<1>2. mtx' = None /\ call' \in [Caller -> Call]
  BY <1>1, ReturnGivesUp DEF DeploymentInv, PlanInv
<1>3. TypeOK'
  BY <1>1, <1>2 DEF DeploymentInv, TypeOK
<1>4. PlanInv'
  BY <1>1, PlansOnReturn DEF DeploymentInv
<1> QED BY <1>1, <1>3, <1>4, ToldIsMessage, CallLeavesFrames

(* the actor,                                                              *)
LEMMA ActorKeeps == ASSUME DeploymentInv, Actor PROVE DeploymentInv'
<1>1. TypeOK' /\ PlanInv' /\ FrameInv'
  BY ActorType, PlansOnActor, FramesOnActor DEF DeploymentInv
<1>2. LaneInv'
  BY ActorDoes DEF DeploymentInv, LaneInv
<1> QED BY <1>1, <1>2 DEF DeploymentInv

(* the producer lane                                                       *)
LEMMA ProduceKeeps == ASSUME DeploymentInv, Produce PROVE DeploymentInv'
<1>1. UNCHANGED <<mtx, call, dep, plans, alive, bound, mailbox, processed, replied, stop_flag, bridge>>
  BY DEF Produce, ProduceNext, ProducePush, ProduceEnd, memVars, actorVars
<1>2. producer # "none" /\ producer # "done"
  BY DEF Produce, ProduceNext, ProducePush, ProduceEnd
<1>3. PlanInv'
  BY <1>1, <1>2, PlansUntouched DEF DeploymentInv, PlanInv, NothingLeft
<1>4. TypeOK'
  BY ProduceType DEF DeploymentInv
<1>5. LaneInv'
  BY <1>1, <1>2 DEF DeploymentInv, LaneInv, Produce, ProduceNext, ProducePush, ProduceEnd
<1>6. CASE ProducePush
  BY <1>3, <1>4, <1>5, <1>6, FramesOnPush DEF DeploymentInv
<1>7. CASE ProduceNext \/ ProduceEnd
  <2>1. UNCHANGED <<stream, produced>>
    BY <1>7 DEF ProduceNext, ProduceEnd
  <2>2. FrameInv'
    BY <1>1, <2>1, ToldIsMessage, FramesOnOther DEF DeploymentInv
  <2> QED BY <1>3, <1>4, <1>5, <2>2 DEF DeploymentInv
<1> QED BY <1>6, <1>7 DEF Produce

(* and the bridge lane.                                                    *)
LEMMA BridgeKeeps == ASSUME DeploymentInv, Bridge PROVE DeploymentInv'
<1>1. TypeOK'
  BY BridgeType DEF DeploymentInv
<1>2. bridge # "none" /\ dep # None
  BY DEF Bridge, BridgeTop, BridgeForward, BridgeDrained, BridgeCheck, DeploymentInv, PlanInv, NothingLeft
<1>3. CASE BridgeForward
  <2> DEFINE m == [type |-> "frame", frame |-> Head(stream)]
  <2>1. /\ mailbox' = Append(mailbox, m) /\ m \in Message
        /\ bridge \in {"drain", "drain_last"}
        /\ UNCHANGED <<mtx, call, dep, plans, alive, bound, replied, stop_flag, producer, bridge, produced>>
    BY <1>3, BridgeForwardDoes DEF DeploymentInv
  <2>2. m.type = "frame"
    OBVIOUS
  <2> HIDE DEF m
  <2>3. PlanInv'
    BY <1>2, <2>1, <2>2, PlansOnFrame DEF DeploymentInv
  <2>4. LaneInv'
    BY <2>1 DEF DeploymentInv, LaneInv
  <2> QED BY <1>1, <1>3, <2>3, <2>4, FramesOnForward DEF DeploymentInv
<1>4. CASE BridgeTop \/ BridgeDrained \/ BridgeCheck
  <2>1. UNCHANGED <<mtx, call, dep, plans, alive, bound, mailbox, processed, replied, stop_flag,
                    producer, stream, produced>>
    BY <1>4 DEF BridgeTop, BridgeDrained, BridgeCheck, memVars, actorVars
  <2>2. PlanInv'
    BY <1>2, <2>1, PlansUntouched DEF DeploymentInv
  <2>3. LaneInv'
    BY <1>4, <2>1 DEF DeploymentInv, LaneInv, BridgeTop, BridgeDrained, BridgeCheck
  <2>4. FrameInv'
    BY <2>1, ToldIsMessage, FramesOnOther DEF DeploymentInv
  <2> QED BY <1>1, <2>2, <2>3, <2>4 DEF DeploymentInv
<1> QED BY <1>3, <1>4 DEF Bridge

(* Every step of the runtime keeps the invariant.                          *)
LEMMA DeploymentStep == ASSUME DeploymentInv, [Next]_vars PROVE DeploymentInv'
<1>1. ASSUME NEW c \in Caller, Request(c) PROVE DeploymentInv'
  BY <1>1, DeployKeeps, ReloadTellKeeps, RollbackKeeps, WaitKeeps, TellFrameKeeps DEF Request
<1>2. ASSUME NEW c \in Caller, Finish(c) PROVE DeploymentInv'
  BY <1>2, ReloadAskKeeps, ReloadSwapKeeps, UndeployKeeps, ReturnKeeps DEF Finish
<1>3. CASE UNCHANGED vars
  <2>1. UNCHANGED <<mtx, call, dep, previous_app, plans, alive, bound, mailbox, processed, replied,
                    stop_flag, producer, stream, bridge, produced>>
    BY <1>3 DEF vars, memVars, actorVars, laneVars
  <2>2. TypeOK' /\ PlanInv'
    BY <2>1, PlansUntouched DEF DeploymentInv, TypeOK
  <2> QED BY <2>1, <2>2, ToldIsMessage, CallLeavesFrames
<1> QED BY <1>1, <1>2, <1>3, ActorKeeps, ProduceKeeps, BridgeKeeps DEF Next

(* It holds in every state of the runtime.                                 *)
LEMMA DeploymentInvariance == Spec => []DeploymentInv
<1>1. DeploymentInv /\ [Next]_vars => DeploymentInv'
  BY DeploymentStep
<1> QED BY <1>1, InitDeployment, PTL DEF Spec

-----------------------------------------------------------------------------
(* What the runtime promises                                               *)

(* Every variable keeps its type: the stream channel never exceeds its     *)
(* credits, and dep_ is always a compiled plan of an Application.          *)
THEOREM DeploymentTypeCorrect == Spec => []TypeOK
<1>1. DeploymentInv => TypeOK
  BY DEF DeploymentInv
<1> QED BY <1>1, DeploymentInvariance, PTL

(* For any number of callers and reloads, the actor only ever runs a plan  *)
(* that exists, no queued ReloadFlow names one that is gone, and between   *)
(* calls one plan is left, the one the runtime reports, or none.           *)
THEOREM PlansStayLive == Spec => []PlanIsLive
<1>1. DeploymentInv => PlanIsLive
  <2> SUFFICES ASSUME DeploymentInv PROVE PlanIsLive
    OBVIOUS
  <2>1. dep # None => bound \in alive
    <3>1. CASE \A c \in Caller : call[c].op \notin Swap
      BY <3>1 DEF DeploymentInv, PlanInv, Steady
    <3>2. CASE \E c \in Caller : call[c].op \in Swap
      BY <3>2 DEF DeploymentInv, PlanInv, Swapping
    <3> QED BY <3>1, <3>2
  <2>2. ASSUME NEW i \in 1..Len(mailbox), mailbox[i].type = "reload"
        PROVE  mailbox[i].plan \in alive
    <3>1. ~NoneOf(mailbox, "reload") /\ dep # None
      BY <2>2 DEF NoneOf, DeploymentInv, PlanInv, NothingLeft
    <3>2. PICK c \in Caller : call[c].op \in Swap
      BY <3>1 DEF DeploymentInv, PlanInv, Steady
    <3> QED BY <2>2, <3>2 DEF DeploymentInv, PlanInv, Swapping, ReloadsTo
  <2>3. mtx = None => IF dep = None THEN alive = {} ELSE bound = dep.plan /\ alive = {dep.plan}
    BY MtxFree DEF DeploymentInv, PlanInv, NothingLeft
  <2> QED BY <2>1, <2>2, <2>3 DEF PlanIsLive
<1> QED BY <1>1, DeploymentInvariance, PTL

(* For any number of frames, credits, callers and reloads, every frame the *)
(* driver pushed is processed or queued, once and in order, later frames   *)
(* never run an older plan, and a driver that ends by itself loses none.   *)
THEOREM FramesStayIntact == Spec => []FramesIntact
<1>1. DeploymentInv => FramesIntact
  BY DEF DeploymentInv, LaneInv, FrameInv, FramesIntact
<1> QED BY <1>1, DeploymentInvariance, PTL

-----------------------------------------------------------------------------
(* The polled drivers                                                      *)

(* r is, or answers, the request q of the call under way.                  *)
Own(r, q) == r.current /\ r.fc = q.fc /\ r.value = q.value

(* A Modbus TCP connection carries one exchange, and only while its call   *)
(* waits: what could still be answered is that call's, and so is what was. *)
OneExchange ==
    kind = "modbus_tcp" =>
        /\ \A r \in device : r.live => Own(r, request) /\ lane = "await" /\ wire = << >>
        /\ \A r, s \in device : r.live /\ s.live => r = s
        /\ wire # << >> => lane = "await" /\ Len(wire) = 1 /\ Own(wire[1], request)

(* A read carries no value, so that any read answers any other: all that   *)
(* an RTU line has to go by.                                               *)
Blank(r) == r.fc = "read" => r.value = 0

ReadsAreBlank ==
    /\ Blank(request)
    /\ \A r \in device : Blank(r)
    /\ \A i \in 1..Len(wire) : Blank(wire[i])

(* What does not parse is never sent.                                      *)
SentIsWellFormed == lane \in {"ready", "await"} => request.fc \in Writes \cup {"read"}

(* The inductive invariant.                                                *)
DriversInv ==
    /\ DriversTypeOK
    /\ OneExchange /\ ReadsAreBlank /\ SentIsWellFormed
    /\ AnswerIsOwn /\ WriteOkMeansDone

(* The ids stay within sixteen bits, whatever is counted.                  *)
LEMMA TxnInRange ==
    ASSUME NEW n \in Nat
    PROVE  n % TxnModulus \in 0..TxnModulus - 1
  BY DriversAssumption

(* An aged or an orphaned request is the same request.                     *)
LEMMA AgedIs ==
    ASSUME NEW r \in Pending
    PROVE  /\ Aged(r) \in Pending
           /\ Aged(r).live = r.live /\ Aged(r).fc = r.fc /\ Aged(r).value = r.value
  BY DEF Aged, Pending

(* A request whose connection is closed is the same request.               *)
LEMMA OrphanedIs ==
    ASSUME NEW r \in Pending
    PROVE  /\ Orphaned(r) \in Pending
           /\ Orphaned(r).live = FALSE /\ Orphaned(r).fc = r.fc /\ Orphaned(r).value = r.value
  BY DEF Orphaned, Pending

(* An answer that outlives its call is the same answer.                    *)
LEMMA AgedReplyIs ==
    ASSUME NEW r \in Reply
    PROVE  Aged(r) \in Reply /\ Aged(r).fc = r.fc /\ Aged(r).value = r.value
  BY DEF Aged, Reply

(* What a closed connection leaves behind: nothing to read, and over TCP   *)
(* nothing that can still be answered.                                     *)
LEMMA DisconnectLeaves ==
    ASSUME DriversTypeOK, ReadsAreBlank, Disconnect
    PROVE  /\ connected' = FALSE /\ wire' = << >> /\ wire' \in Seq(Reply)
           /\ device' \subseteq Pending
           /\ \A r \in device' : Blank(r)
           /\ kind = "modbus_tcp" => \A r \in device' : ~r.live
<1>1. connected' = FALSE /\ wire' = << >> /\ << >> \in Seq(Reply)
  BY DEF Disconnect
<1>2. CASE kind = "modbus_tcp"
  <2>1. device' = {Orphaned(r) : r \in device} /\ device \subseteq Pending
    BY <1>2 DEF Disconnect, DriversTypeOK
  <2>2. ASSUME NEW r \in device'
        PROVE  r \in Pending /\ Blank(r) /\ ~r.live
    <3>1. PICK s \in device : r = Orphaned(s)
      BY <2>1
    <3>2. s \in Pending /\ Blank(s)
      BY <2>1 DEF ReadsAreBlank
    <3> QED BY <3>1, <3>2, OrphanedIs DEF Blank
  <2> QED BY <1>1, <2>2
<1>3. CASE kind # "modbus_tcp"
  BY <1>1, <1>3 DEF Disconnect, DriversTypeOK, ReadsAreBlank
<1> QED BY <1>2, <1>3

(* Before open().                                                          *)
LEMMA InitDriversInv == DriversInit => DriversInv
<1> SUFFICES ASSUME DriversInit PROVE DriversInv
  OBVIOUS
<1>1. << >> \in Seq(Reply)
  OBVIOUS
<1>2. 0 \in 0..TxnModulus - 1 /\ 1 % TxnModulus \in 0..TxnModulus - 1
  BY DriversAssumption, TxnInRange
<1>3. NoAnswer \in Reply /\ Read \in Ask
  BY <1>2 DEF NoAnswer, Read, Reply, Ask, Function, Writes
<1>4. DriversTypeOK
  <2>1. backoff \in 0..MaxBackoff /\ txn \in 0..TxnModulus - 1
    BY <1>2, DriversAssumption DEF DriversInit
  <2>2. /\ opened \in BOOLEAN /\ connected \in BOOLEAN /\ waiting \in BOOLEAN
        /\ poll_stop \in BOOLEAN /\ up \in BOOLEAN
    BY Zenon DEF DriversInit
  <2> QED BY <1>1, <1>3, <2>1, <2>2 DEF DriversInit, DriversTypeOK
<1>5. OneExchange /\ ReadsAreBlank
  BY DEF DriversInit, OneExchange, ReadsAreBlank, Blank, Read
<1>6. SentIsWellFormed
  BY DEF DriversInit, SentIsWellFormed
<1>7. AnswerIsOwn /\ WriteOkMeansDone
  BY DEF DriversInit, AnswerIsOwn, WriteOkMeansDone, Confirmed, NoAnswer
<1> QED BY <1>4, <1>5, <1>7, <1>6 DEF DriversInv

(* A step that leaves request, device, wire and answer alone.              *)
LEMMA QuietStep ==
    ASSUME DriversInv, DriversTypeOK',
           UNCHANGED <<kind, request, device, wire, answer>>,
           lane' = lane \/ (lane # "await" /\ lane' \notin {"ready", "await"})
    PROVE  DriversInv'
  BY DEF DriversInv, OneExchange, ReadsAreBlank, SentIsWellFormed, AnswerIsOwn, WriteOkMeansDone,
         Confirmed

(* A step that closes the connection and leaves request and answer alone.  *)
LEMMA ClosingStep ==
    ASSUME DriversInv, DriversTypeOK', Disconnect, UNCHANGED <<kind, request, answer>>,
           lane' \notin {"ready", "await"}
    PROVE  DriversInv'
<1>1. DriversTypeOK /\ ReadsAreBlank
  BY DEF DriversInv
<1>2. OneExchange'
  BY <1>1, DisconnectLeaves DEF OneExchange
<1>3. ReadsAreBlank'
  <2>1. Blank(request)' /\ \A r \in device' : Blank(r)
    BY <1>1, DisconnectLeaves DEF ReadsAreBlank
  <2>2. 1..Len(wire') = {}
    BY <1>1, DisconnectLeaves
  <2> QED BY <2>1, <2>2 DEF ReadsAreBlank
<1>4. AnswerIsOwn' /\ WriteOkMeansDone'
  BY DEF DriversInv, AnswerIsOwn, WriteOkMeansDone, Confirmed
<1> QED BY <1>2, <1>3, <1>4 DEF DriversInv, SentIsWellFormed

(* poll() and write(): between two calls nothing of the last one is left   *)
(* on a TCP connection.                                                    *)
LEMMA BeginKeeps ==
    ASSUME DriversInv, NEW c \in Commands \cup {Read}, Begin(c)
    PROVE  DriversInv'
<1>1. c \in Ask /\ Blank(c)
  BY DEF Commands, Read, Malformed, Ask, Function, Writes, Blank
<1>2. /\ lane = "idle" /\ lane' \in {"sleep", "ready"}
      /\ request' = c /\ answer' = NoAnswer
      /\ UNCHANGED <<kind, txn, device, wire, poll_stop, up>>
  BY DEF Begin
<1>3. \/ UNCHANGED <<opened, connected, waiting, backoff>>
      \/ Connected /\ UNCHANGED opened
      \/ BackOff
  BY DEF Begin, connVars
<1>4. opened' \in BOOLEAN /\ connected' \in BOOLEAN /\ waiting' \in BOOLEAN
  BY <1>3, Zenon DEF Connected, BackOff, DriversInv, DriversTypeOK
<1>5. backoff' \in 0..MaxBackoff
  BY <1>3, DriversAssumption DEF Connected, BackOff, DriversInv, DriversTypeOK
<1>6. NoAnswer \in Reply
  BY DriversAssumption DEF NoAnswer, Reply, Function
<1>7. DriversTypeOK'
  BY <1>1, <1>2, <1>4, <1>5, <1>6 DEF DriversInv, DriversTypeOK
<1>8. OneExchange'
  BY <1>2 DEF DriversInv, OneExchange
<1>9. ReadsAreBlank'
  BY <1>1, <1>2 DEF DriversInv, ReadsAreBlank
<1>10. AnswerIsOwn' /\ WriteOkMeansDone'
  BY <1>2 DEF AnswerIsOwn, WriteOkMeansDone, Confirmed, NoAnswer
<1>11. SentIsWellFormed'
  BY <1>2 DEF Begin, Commands, Read, SentIsWellFormed
<1> QED BY <1>7, <1>8, <1>9, <1>10, <1>11 DEF DriversInv

(* A request leaves: over TCP it is the only one that can be answered.     *)
LEMMA SendKeeps == ASSUME DriversInv, Send PROVE DriversInv'
<1> DEFINE new == [fc |-> request.fc, value |-> request.value, txn |-> txn,
                   current |-> TRUE, live |-> TRUE]
<1>1. new \in Pending /\ Own(new, request) /\ (Blank(request) => Blank(new)) /\ new.live
  BY DEF DriversInv, DriversTypeOK, Pending, Ask, Own, Blank
<1>2. /\ lane = "ready" /\ lane' = "await" /\ kind # "opcua"
      /\ device' = {Aged(r) : r \in device} \cup {new}
      /\ wire' = [i \in DOMAIN wire |-> Aged(wire[i])]
      /\ txn' = (txn + 1) % TxnModulus
      /\ UNCHANGED <<kind, opened, connected, waiting, backoff, request, answer, poll_stop, up>>
  BY DEF Send, connVars
<1> HIDE DEF new
<1>3. ASSUME NEW r \in device'
      PROVE  /\ r \in Pending /\ Blank(r)
             /\ kind = "modbus_tcp" /\ r.live => r = new
  <2>1. CASE r = new
    BY <1>1, <2>1 DEF DriversInv, ReadsAreBlank
  <2>2. CASE r # new
    <3>1. PICK s \in device : r = Aged(s)
      BY <1>2, <2>2
    <3>2. s \in Pending /\ Blank(s) /\ (kind = "modbus_tcp" => ~s.live)
      BY <1>2 DEF DriversInv, DriversTypeOK, ReadsAreBlank, OneExchange
    <3> QED BY <3>1, <3>2, AgedIs DEF Blank
  <2> QED BY <2>1, <2>2
<1>4. /\ wire' \in Seq(Reply) /\ Len(wire') = Len(wire)
      /\ \A i \in 1..Len(wire') : Blank(wire'[i])
  <2>1. wire \in Seq(Reply) /\ \A i \in 1..Len(wire) : wire[i] \in Reply /\ Blank(wire[i])
    BY DEF DriversInv, DriversTypeOK, ReadsAreBlank
  <2>2. DOMAIN wire = 1..Len(wire) /\ Len(wire) \in Nat
    BY <2>1
  <2>3. \A i \in 1..Len(wire) : wire'[i] = Aged(wire[i]) /\ wire'[i] \in Reply /\ Blank(wire'[i])
    BY <1>2, <2>1, <2>2, AgedReplyIs DEF Blank
  <2>4. wire' \in Seq(Reply) /\ Len(wire') = Len(wire)
    BY <1>2, <2>2, <2>3, IsASeq
  <2> QED BY <2>3, <2>4
<1>5. txn' \in 0..TxnModulus - 1
  BY <1>2, DriversAssumption, TxnInRange DEF DriversInv, DriversTypeOK
<1>6. DriversTypeOK'
  BY <1>2, <1>3, <1>4, <1>5 DEF DriversInv, DriversTypeOK
<1>7. OneExchange'
  <2>1. kind = "modbus_tcp" => wire = << >>
    BY <1>2 DEF DriversInv, OneExchange
  <2>2. kind = "modbus_tcp" => wire' = << >>
    BY <1>4, <2>1, EmptySeq
  <2> QED BY <1>1, <1>2, <1>3, <2>2 DEF OneExchange
<1>8. ReadsAreBlank'
  BY <1>2, <1>3, <1>4 DEF DriversInv, ReadsAreBlank
<1>9. AnswerIsOwn' /\ WriteOkMeansDone'
  BY <1>2 DEF DriversInv, AnswerIsOwn, WriteOkMeansDone, Confirmed
<1>10. SentIsWellFormed'
  BY <1>2 DEF DriversInv, SentIsWellFormed
<1> QED BY <1>6, <1>7, <1>8, <1>9, <1>10 DEF DriversInv

(* A proper answer is taken: over TCP it is the only one there is.         *)
LEMMA AnswerTaken ==
    ASSUME DriversInv, lane = "await", wire # << >>, wire' = Tail(wire),
           lane' \in {"push", "sleep"},
           UNCHANGED <<kind, opened, connected, waiting, backoff, txn, request, device,
                       poll_stop, up>>,
           \/ UNCHANGED answer
           \/ Head(wire).status = "ok" /\ IsAnswer(Head(wire)) /\ answer' = Head(wire)
    PROVE  DriversInv'
<1>1. /\ wire \in Seq(Reply) /\ Head(wire) = wire[1] /\ 1 \in 1..Len(wire)
      /\ Head(wire) \in Reply /\ Blank(Head(wire)) /\ Tail(wire) \in Seq(Reply)
      /\ Len(Tail(wire)) = Len(wire) - 1 /\ Len(wire) \in Nat
      /\ \A i \in 1..Len(Tail(wire)) : Tail(wire)[i] = wire[i + 1] /\ i + 1 \in 1..Len(wire)
  BY HeadTailProperties DEF DriversInv, DriversTypeOK, ReadsAreBlank
<1>2. DriversTypeOK'
  BY <1>1 DEF DriversInv, DriversTypeOK
<1>3. OneExchange'
  <2>1. SUFFICES ASSUME kind = "modbus_tcp" PROVE OneExchange'
    BY DEF OneExchange
  <2>2. Len(wire) = 1 /\ \A r \in device : ~r.live
    BY <2>1 DEF DriversInv, OneExchange
  <2>3. wire' = << >>
    BY <1>1, <2>2, EmptySeq
  <2> QED BY <2>2, <2>3 DEF OneExchange
<1>4. ReadsAreBlank'
  BY <1>1 DEF DriversInv, ReadsAreBlank
<1>5. SentIsWellFormed'
  BY DEF SentIsWellFormed
<1>6. CASE UNCHANGED answer
  BY <1>2, <1>3, <1>4, <1>6, <1>5 DEF DriversInv, AnswerIsOwn, WriteOkMeansDone, Confirmed
<1>7. CASE Head(wire).status = "ok" /\ IsAnswer(Head(wire)) /\ answer' = Head(wire)
  <2>1. kind = "modbus_tcp" => Own(Head(wire), request)
    BY <1>1 DEF DriversInv, OneExchange
  <2>2. kind \in {"modbus_tcp", "modbus_rtu"}
    BY DriversAssumption DEF DriversInv, DriversTypeOK
  <2>3. Blank(request) /\ request.fc \in {"read", "write", "write_multiple"}
    BY DEF DriversInv, ReadsAreBlank, SentIsWellFormed, Writes
  <2>4. AnswerIsOwn'
    BY <1>7, <2>1, <2>2 DEF AnswerIsOwn, Own
  <2>5. WriteOkMeansDone'
    <3>1. CASE kind = "modbus_tcp"
      BY <1>7, <2>1, <3>1 DEF WriteOkMeansDone, Confirmed, Own
    <3>2. CASE kind = "modbus_rtu"
      BY <1>1, <1>7, <2>3, <3>2 DEF WriteOkMeansDone, Confirmed, IsAnswer, RtuReadAnswer,
         RtuWriteAnswer, RtuWriteMultipleAnswer, Blank
    <3> QED BY <2>2, <3>1, <3>2
  <2> QED BY <1>2, <1>3, <1>4, <1>5, <2>4, <2>5 DEF DriversInv
<1> QED BY <1>6, <1>7

(* A whole answer is read.                                                 *)
LEMMA ReceiveKeeps == ASSUME DriversInv, Receive PROVE DriversInv'
<1>1. /\ lane = "await" /\ wire # << >>
      /\ UNCHANGED <<kind, opened, waiting, backoff, txn, request, poll_stop, up>>
  BY DEF Receive
<1>2. CASE Disconnect /\ lane' = "sleep" /\ UNCHANGED answer
  <2>1. DriversTypeOK'
    BY <1>1, <1>2, DisconnectLeaves DEF DriversInv, DriversTypeOK
  <2> QED BY <1>1, <1>2, <2>1, ClosingStep
<1>3. CASE /\ wire' = Tail(wire) /\ lane' \in {"push", "sleep"} /\ UNCHANGED <<connected, device>>
           /\ \/ UNCHANGED answer
              \/ Head(wire).status = "ok" /\ IsAnswer(Head(wire)) /\ answer' = Head(wire)
  BY <1>1, <1>3, AnswerTaken
<1> QED BY <1>2, <1>3 DEF Receive

(* The device answers: over TCP only the call that waits, and once.        *)
LEMMA AnswerKeeps ==
    ASSUME DriversInv, NEW q \in device, NEW s \in {"ok", "exception", "bad"}, Answer(q, s)
    PROVE  DriversInv'
<1> DEFINE reply == [status |-> s, fc |-> q.fc, value |-> q.value, txn |-> q.txn,
                     current |-> q.current]
<1>1. /\ device' = device \ {q}
      /\ UNCHANGED <<kind, lane, opened, connected, waiting, backoff, txn, request, answer,
                     poll_stop, up>>
  BY DEF Answer, connVars
<1>2. q \in Pending /\ Blank(q)
  BY DEF DriversInv, DriversTypeOK, ReadsAreBlank
<1>3. /\ reply \in Reply /\ Blank(reply)
      /\ Own(q, request) => Own(reply, request)
  BY <1>2 DEF Pending, Reply, Blank, Own
<1>4. wire' = IF q.live /\ connected THEN Append(wire, reply) ELSE wire
  BY DEF Answer
<1> HIDE DEF reply
<1>5. AnswerIsOwn' /\ WriteOkMeansDone'
  BY <1>1 DEF DriversInv, AnswerIsOwn, WriteOkMeansDone, Confirmed
<1>6. wire \in Seq(Reply) /\ \A i \in 1..Len(wire) : Blank(wire[i])
  BY DEF DriversInv, DriversTypeOK, ReadsAreBlank
<1>7. wire' \in Seq(Reply) /\ \A i \in 1..Len(wire') : Blank(wire'[i])
  <2>1. CASE wire' = wire
    BY <1>6, <2>1
  <2>2. CASE wire' = Append(wire, reply)
    BY <1>3, <1>6, <2>2, AppendProperties
  <2> QED BY <1>4, <2>1, <2>2
<1>8. DriversTypeOK' /\ ReadsAreBlank'
  BY <1>1, <1>7 DEF DriversInv, DriversTypeOK, ReadsAreBlank
<1>9. OneExchange'
  <2>1. SUFFICES ASSUME kind = "modbus_tcp" PROVE OneExchange'
    BY <1>1 DEF OneExchange
  <2>2. CASE q.live /\ connected
    <3>1. Own(q, request) /\ lane = "await" /\ wire = << >> /\ \A r \in device' : ~r.live
      BY <1>1, <2>1, <2>2 DEF DriversInv, OneExchange
    <3>2. Len(wire') = 1 /\ wire'[1] = reply
      BY <1>3, <1>4, <1>6, <2>2, <3>1, AppendProperties
    <3> QED BY <1>1, <1>3, <3>1, <3>2 DEF OneExchange
  <2>3. CASE ~(q.live /\ connected)
    BY <1>1, <1>4, <2>1, <2>3 DEF DriversInv, OneExchange
  <2> QED BY <2>2, <2>3
<1>10. SentIsWellFormed'
  BY <1>1 DEF DriversInv, SentIsWellFormed
<1> QED BY <1>5, <1>8, <1>9, <1>10 DEF DriversInv

(* The device or the line loses a request.                                 *)
LEMMA LoseKeeps == ASSUME DriversInv, NEW q \in device, Lose(q) PROVE DriversInv'
  BY DEF DriversInv, DriversTypeOK, OneExchange, ReadsAreBlank, SentIsWellFormed, AnswerIsOwn,
         WriteOkMeansDone, Confirmed, Lose, connVars

(* An OPC UA call has its own answer from the client library.              *)
LEMMA OpcUaKeeps ==
    ASSUME DriversInv, NEW outcomes, OpcUaCall(outcomes)
    PROVE  DriversInv'
<1> DEFINE good == [status |-> "ok", fc |-> request.fc, value |-> request.value,
                    txn |-> 0, current |-> TRUE]
<1>1. /\ lane = "ready" /\ kind = "opcua" /\ lane' \in {"push", "sleep"}
      /\ UNCHANGED <<kind, opened, waiting, backoff, txn, request, device, wire, poll_stop, up>>
      /\ connected' \in BOOLEAN
      /\ answer' = good \/ UNCHANGED answer
  BY DEF OpcUaCall
<1>2. good \in Reply /\ Own(good, request) /\ good.current
  <2>1. request.fc \in Function /\ request.value \in Value \cup {0} /\ 0 \in 0..TxnModulus - 1
    BY DriversAssumption DEF DriversInv, DriversTypeOK, Ask
  <2> QED BY <2>1 DEF Reply, Own
<1> HIDE DEF good
<1>3. DriversTypeOK'
  BY <1>1, <1>2 DEF DriversInv, DriversTypeOK
<1>4. OneExchange' /\ ReadsAreBlank' /\ SentIsWellFormed'
  BY <1>1 DEF DriversInv, OneExchange, ReadsAreBlank, SentIsWellFormed
<1>5. AnswerIsOwn' /\ WriteOkMeansDone'
  BY <1>1, <1>2 DEF DriversInv, AnswerIsOwn, WriteOkMeansDone, Confirmed, Own
<1> QED BY <1>3, <1>4, <1>5 DEF DriversInv

(* open() at deploy.                                                       *)
LEMMA OpenKeeps == ASSUME DriversInv, NEW fits \in BOOLEAN, Open(fits) PROVE DriversInv'
<1>1. /\ lane = "new" /\ lane' \in {"idle", "rejected"}
      /\ UNCHANGED <<kind, txn, request, device, wire, answer, poll_stop, up>>
  BY DEF Open
<1>2. opened' \in BOOLEAN /\ connected' \in BOOLEAN /\ waiting' \in BOOLEAN
  BY Zenon DEF Open, Connected, connVars, DriversInv, DriversTypeOK
<1>3. backoff' \in 0..MaxBackoff
  BY DriversAssumption DEF Open, Connected, connVars, DriversInv, DriversTypeOK
<1>4. DriversTypeOK'
  BY <1>1, <1>2, <1>3 DEF DriversInv, DriversTypeOK
<1> QED BY <1>1, <1>4, QuietStep

(* The steps of the driver and its lane.                                   *)
LEMMA LaneKeeps == ASSUME DriversInv, LaneStep PROVE DriversInv'
<1>1. CASE Poll \/ \E c \in Commands : WriteModbusTcp(c) \/ WriteModbusRtu(c) \/ WriteOpcUa(c)
  <2>1. PICK c \in Commands \cup {Read} : Begin(c)
    BY <1>1 DEF Poll, PollModbusTcp, PollModbusRtu, PollOpcUa, WriteModbusTcp, WriteModbusRtu,
       WriteOpcUa
  <2> QED BY <2>1, BeginKeeps
<1>2. CASE SendFails
  <2>1. txn' \in 0..TxnModulus - 1
    BY <1>2, DriversAssumption, TxnInRange DEF SendFails, DriversInv, DriversTypeOK
  <2>2. DriversTypeOK'
    BY <1>2, <2>1, DisconnectLeaves DEF SendFails, DriversInv, DriversTypeOK
  <2> QED BY <1>2, <2>2, ClosingStep DEF SendFails
<1>3. CASE Timeout
  <2>1. DriversTypeOK'
    BY <1>3, DisconnectLeaves DEF Timeout, DriversInv, DriversTypeOK
  <2> QED BY <1>3, <2>1, ClosingStep DEF Timeout
<1>4. CASE Close
  <2>1. DriversTypeOK'
    BY <1>4, DisconnectLeaves DEF Close, DriversInv, DriversTypeOK
  <2> QED BY <1>4, <2>1, ClosingStep DEF Close
<1>5. CASE Push \/ Sleep \/ LeaveLoop
  <2>1. DriversTypeOK'
    BY <1>5 DEF Push, Sleep, LeaveLoop, connVars, DriversInv, DriversTypeOK
  <2> QED BY <1>5, <2>1, QuietStep DEF Push, Sleep, LeaveLoop
<1>6. CASE OpcUaRead \/ OpcUaBrowse \/ OpcUaWrite \/ OpcUaMethod
  BY <1>6, OpcUaKeeps DEF OpcUaRead, OpcUaBrowse, OpcUaWrite, OpcUaMethod
<1> QED BY <1>1, <1>2, <1>3, <1>4, <1>5, <1>6, SendKeeps, ReceiveKeeps DEF LaneStep

(* Every step of a driver keeps the invariant.                             *)
LEMMA DriversStep == ASSUME DriversInv, [DriversNext]_driverVars PROVE DriversInv'
<1>1. CASE OpenModbusTcp \/ OpenModbusRtu \/ OpenOpcUa
  BY <1>1, OpenKeeps DEF OpenModbusTcp, OpenModbusRtu, OpenOpcUa
<1>2. CASE BackoffExpires \/ Teardown \/ Reachable
  <2>1. DriversTypeOK'
    BY <1>2 DEF BackoffExpires, Teardown, Reachable, connVars, DriversInv, DriversTypeOK
  <2> QED BY <1>2, <2>1, QuietStep DEF BackoffExpires, Teardown, Reachable
<1>3. CASE \E r \in device : Lose(r) \/ \E s \in {"ok", "exception", "bad"} : Answer(r, s)
  BY <1>3, AnswerKeeps, LoseKeeps
<1>4. CASE UNCHANGED driverVars
  <2>1. DriversTypeOK'
    BY <1>4 DEF driverVars, connVars, DriversInv, DriversTypeOK
  <2> QED BY <1>4, <2>1, QuietStep DEF driverVars
<1> QED BY <1>1, <1>2, <1>3, <1>4, LaneKeeps DEF DriversNext

(* It holds in every state of a driver.                                    *)
LEMMA DriversInvariance == DriversSpec => []DriversInv
<1>1. DriversInv /\ [DriversNext]_driverVars => DriversInv'
  BY DriversStep
<1> QED BY <1>1, InitDriversInv, PTL DEF DriversSpec

(* Every variable of the drivers keeps its type: the transaction id wraps  *)
(* within its sixteen bits and the backoff stays at its cap.               *)
THEOREM DriversTypeCorrect == DriversSpec => []DriversTypeOK
<1>1. DriversInv => DriversTypeOK
  BY DEF DriversInv
<1> QED BY <1>1, DriversInvariance, PTL

(* For any values, however small the range of transaction ids and however  *)
(* late the device, a Modbus TCP or OPC UA call never takes the answer to  *)
(* an earlier one: close_socket() after a timeout leaves no request that   *)
(* could still be answered on the next connection.                         *)
THEOREM AnswersAreOwn == DriversSpec => []AnswerIsOwn
<1>1. DriversInv => AnswerIsOwn
  BY DEF DriversInv
<1> QED BY <1>1, DriversInvariance, PTL

(* A write that returns Ok was carried out with the value asked for, save  *)
(* a multiple write over RTU, whose echo does not show its values.         *)
THEOREM WritesAreDone == DriversSpec => []WriteOkMeansDone
<1>1. DriversInv => WriteOkMeansDone
  BY DEF DriversInv
<1> QED BY <1>1, DriversInvariance, PTL

-----------------------------------------------------------------------------
(* The flow                                                                *)

(* A list given by its members is a list of them.                          *)
LEMMA ListOf ==
    ASSUME NEW n \in Nat, NEW f, DOMAIN f = 1..n, f = [i \in 1..n |-> f[i]]
    PROVE  f \in Seq(Range(f)) /\ Len(f) = n
<1>1. f \in [1..n -> Range(f)]
  BY DEF Range
<1> QED BY <1>1, SeqDef, LenProperties

(* What an application consists of.                                        *)
LEMMA ApplicationHas ==
    ASSUME NEW a, IsApplication(a)
    PROVE  /\ Len(a.flow) \in Nat /\ DOMAIN a.flow = 1..Len(a.flow)
           /\ Len(a.edges) \in Nat /\ DOMAIN a.edges = 1..Len(a.edges)
           /\ Nodes(a) \subseteq Nat
           /\ \A i \in Nodes(a) : DOMAIN a.flow[i] = NodeFields
<1>1. Len(a.flow) \in Nat /\ DOMAIN a.flow = 1..Len(a.flow)
  <2>1. a.flow \in Seq(Range(a.flow))
    BY DEF IsApplication
  <2> QED BY <2>1, LenProperties
<1>2. Len(a.edges) \in Nat /\ DOMAIN a.edges = 1..Len(a.edges)
  <2>1. a.edges \in Seq(Range(a.edges))
    BY DEF IsApplication
  <2> QED BY <2>1, LenProperties
<1>3. \A i \in Nodes(a) : DOMAIN a.flow[i] = NodeFields
  BY DEF IsApplication, Nodes
<1> QED BY <1>1, <1>2, <1>3 DEF Nodes

(* Building the nodes changes nothing the compiler looks at.               *)
LEMMA BuiltIs ==
    ASSUME NEW a, IsApplication(a)
    PROVE  /\ IsApplication(Built(a)) /\ Built(a).edges = a.edges
           /\ Len(Built(a).flow) = Len(a.flow) /\ TagNames(Built(a)) = TagNames(a)
           /\ \A i \in Nodes(a) :
                /\ Built(a).flow[i].id = a.flow[i].id /\ Built(a).flow[i].type = a.flow[i].type
                /\ Built(a).flow[i].tag = a.flow[i].tag /\ Built(a).flow[i].config = a.flow[i].config
<1> DEFINE n == Len(a.flow)
           V(i) == Evaluate(CompileExpr(a.flow[i].text))
           f == [i \in 1..n |-> [a.flow[i] EXCEPT !.value = V(i)]]
           b == [a EXCEPT !.flow = f]
<1> HIDE DEF V
<1>1. Built(a) = b
  BY DEF Built, Nodes, V
<1>2. n \in Nat /\ \A i \in 1..n : DOMAIN a.flow[i] = NodeFields
  BY ApplicationHas DEF Nodes
<1>3. f \in Seq(Range(f)) /\ Len(f) = n
  <2>1. DOMAIN f = 1..n /\ f = [i \in 1..n |-> f[i]]
    OBVIOUS
  <2> HIDE DEF f
  <2> QED BY <2>1, <1>2, ListOf
<1>4. DOMAIN b = {"flow", "edges"} /\ b.flow = f /\ b.edges = a.edges
  BY DEF IsApplication
<1>5. ASSUME NEW i \in 1..n
      PROVE  /\ DOMAIN f[i] = NodeFields /\ f[i].id = a.flow[i].id /\ f[i].type = a.flow[i].type
             /\ f[i].tag = a.flow[i].tag /\ f[i].config = a.flow[i].config
  BY <1>2 DEF NodeFields
<1> HIDE DEF f, b
<1>6. IsApplication(b)
  BY <1>3, <1>4, <1>5 DEF IsApplication
<1>7. TagNames(b) = TagNames(a)
  BY <1>3, <1>4, <1>5 DEF TagNames, Nodes
<1> QED BY <1>1, <1>3, <1>4, <1>5, <1>6, <1>7 DEF Nodes

(* Nor does naming, but for the names.                                     *)
LEMMA NamedIs ==
    ASSUME NEW a, IsApplication(a)
    PROVE  IsApplication(Named(a))
<1> DEFINE n == Len(a.flow)
           f == [i \in 1..n |->
                    IF a.flow[i].id = NoId THEN [a.flow[i] EXCEPT !.id = i] ELSE a.flow[i]]
           b == [a EXCEPT !.flow = f]
<1>1. Named(a) = b
  BY DEF Named
<1>2. n \in Nat /\ \A i \in 1..n : DOMAIN a.flow[i] = NodeFields
  BY ApplicationHas DEF Nodes
<1>3. f \in Seq(Range(f)) /\ Len(f) = n
  <2>1. DOMAIN f = 1..n /\ f = [i \in 1..n |-> f[i]]
    OBVIOUS
  <2> HIDE DEF f
  <2> QED BY <2>1, <1>2, ListOf
<1>4. DOMAIN b = {"flow", "edges"} /\ b.flow = f /\ b.edges = a.edges
  BY DEF IsApplication
<1>5. ASSUME NEW i \in 1..n
      PROVE  DOMAIN f[i] = NodeFields /\ f[i].tag = a.flow[i].tag /\ f[i].config = a.flow[i].config
  BY <1>2 DEF NodeFields
<1> HIDE DEF f, b
<1> QED BY <1>1, <1>3, <1>4, <1>5 DEF IsApplication

(* Where names are unique, an id is that of one node.                      *)
LEMMA IndexIs ==
    ASSUME NEW a, IsApplication(a), \A i, j \in Nodes(a) : a.flow[i].id = a.flow[j].id => i = j,
           NEW id, Known(a, id)
    PROVE  /\ Index(a, id) \in Nodes(a) /\ a.flow[Index(a, id)].id = id
           /\ \A i \in Nodes(a) : a.flow[i].id = id => i = Index(a, id)
<1>1. PICK i \in Nodes(a) : a.flow[i].id = id
  BY DEF Known
<1>2. i \in Nat
  BY ApplicationHas
<1>3. \A j \in Nodes(a) : a.flow[j].id = id => i <= j
  BY <1>1, <1>2
<1>4. \E k \in Nodes(a) : a.flow[k].id = id /\ \A j \in Nodes(a) : a.flow[j].id = id => k <= j
  BY <1>1, <1>3
<1>5. Index(a, id) \in Nodes(a) /\ a.flow[Index(a, id)].id = id
  BY <1>4 DEF Index
<1> QED BY <1>5

(* Every edge has its two nodes.                                           *)
LEMMA EdgeEnds ==
    ASSUME NEW a, IsApplication(a), EdgesReadable(a), NEW p \in Edges(a)
    PROVE  /\ From(a, p) \in Nodes(a) /\ a.flow[From(a, p)].id = a.edges[p].from
           /\ To(a, p) \in Nodes(a) /\ a.flow[To(a, p)].id = a.edges[p].to
           /\ \A i \in Nodes(a) : a.flow[i].id = a.edges[p].from => i = From(a, p)
           /\ \A i \in Nodes(a) : a.flow[i].id = a.edges[p].to => i = To(a, p)
<1>1. /\ \A i, j \in Nodes(a) : a.flow[i].id = a.flow[j].id => i = j
      /\ Known(a, a.edges[p].from) /\ Known(a, a.edges[p].to)
  BY DEF EdgesReadable
<1> QED BY <1>1, IndexIs DEF From, To

(* The graph is the same once the nodes are built.                         *)
LEMMA BuiltGraph ==
    ASSUME NEW a, IsApplication(a), EdgesReadable(a)
    PROVE  /\ EdgesReadable(Built(a)) /\ Nodes(Built(a)) = Nodes(a)
           /\ Forward(Built(a)) = Forward(a)
           /\ \A p \in Edges(a) : From(Built(a), p) = From(a, p) /\ To(Built(a), p) = To(a, p)
           /\ \A i : Incoming(Built(a), i) = Incoming(a, i)
<1> DEFINE b == Built(a)
<1> HIDE DEF b
<1>1. /\ IsApplication(b) /\ b.edges = a.edges /\ Nodes(b) = Nodes(a) /\ Edges(b) = Edges(a)
      /\ \A i \in Nodes(a) : b.flow[i].id = a.flow[i].id
  BY BuiltIs DEF b, Nodes, Edges
<1>2. Forward(b) = Forward(a) /\ LoopEdges(b) = LoopEdges(a)
  BY <1>1 DEF Forward, LoopEdges, IsLoopEdge
<1>3. /\ \A i, j \in Nodes(b) : b.flow[i].id = b.flow[j].id => i = j
      /\ \A p \in Edges(a) : Known(b, b.edges[p].from) /\ Known(b, b.edges[p].to)
  BY <1>1 DEF EdgesReadable, Known
<1>4. \A p \in Edges(a) : From(b, p) = From(a, p) /\ To(b, p) = To(a, p)
  <2> TAKE p \in Edges(a)
  <2>1. /\ Index(b, b.edges[p].from) \in Nodes(b) /\ b.flow[Index(b, b.edges[p].from)].id = b.edges[p].from
        /\ Index(b, b.edges[p].to) \in Nodes(b) /\ b.flow[Index(b, b.edges[p].to)].id = b.edges[p].to
    BY <1>1, <1>3, IndexIs
  <2> QED BY <2>1, <1>1, EdgeEnds DEF From, To
<1>5. EdgesReadable(b)
  BY <1>1, <1>2, <1>3, <1>4 DEF EdgesReadable, Forward
<1>6. \A i : Incoming(b, i) = Incoming(a, i)
  BY <1>2, <1>4 DEF Incoming, Forward
<1> QED BY <1>1, <1>2, <1>4, <1>5, <1>6 DEF b

-----------------------------------------------------------------------------
(* The sort                                                                *)

HasGraph == stage # "loaded" /\ app.edges # << >>

(* The edges into v that are not used up: those of the node being visited  *)
(* that are left, and those of the nodes not visited yet.                  *)
Left(v) ==
    {p \in Incoming(app, v) : p \in out \/ \A k \in 1..visited : queue[k] # From(app, p)}

InQueue(v) == \E k \in 1..Len(queue) : queue[k] = v

(* A node enters the queue once, when no edge into it is left, and after   *)
(* the nodes these come from.                                              *)
SortInv ==
    /\ EdgesReadable(app)
    /\ Len(queue) >= 1 /\ Category(app, queue[1]) = "Source"
    /\ \A j, k \in 1..Len(queue) : queue[j] = queue[k] => j = k
    /\ IF visited = 0 THEN out = {} ELSE out \subseteq Outgoing(app, queue[visited])
    /\ \A v \in Nodes(app) : remaining[v] = Cardinality(Left(v))
    /\ \A v \in Nodes(app) : InQueue(v) <=> Left(v) = {}
    /\ \A k \in 1..Len(queue) : \A p \in Incoming(app, queue[k]) :
            \E j \in 1..visited : j < k /\ queue[j] = From(app, p)
    /\ stage # "sorting" => out = {} /\ visited = Len(queue)

-----------------------------------------------------------------------------
(* The plan and a frame                                                    *)

TagAt(k) == StaticTagWrite(app.flow[plan[k].node])

(* Every node is one that can be built; a set node names its tag.          *)
NodesBuilt ==
    stage # "loaded" => \A i \in Nodes(app) :
        Type(app, i) \in DOMAIN Builtins /\ (HasType(app, i, "set") => app.flow[i].tag # "")

(* The steps are the nodes, each once, a graph's in the order of the sort, *)
(* and two writers of a tag exclude each other.                            *)
PlanSound ==
    /\ Len(plan) = Len(app.flow)
    /\ \A j, k \in 1..Len(plan) : plan[j].node = plan[k].node => j = k
    /\ \A i \in Nodes(app) : \E k \in 1..Len(plan) : plan[k].node = i
    /\ \A j, k \in 1..Len(plan) :
            j # k /\ TagAt(j) # "" /\ TagAt(j) = TagAt(k) =>
                MutuallyExclusive(plan[j].label, plan[k].label)
    /\ app.edges # << >> => Len(queue) = Len(plan) /\ \A k \in 1..Len(plan) : plan[k].node = queue[k]

(* Without a loop a step that was passed is not run again.                 *)
Passed(k) == at = 0 \/ k < at

(* What a frame wrote was written by a step it passed, unconditional or of *)
(* the branch it is in, and only the switch chooses one.                   *)
WritersPassed ==
    /\ ctx.loop_continue = FALSE
    /\ \A i, j \in 1..Len(ctx.writes) : ctx.writes[i] = ctx.writes[j] => i = j
    /\ \A i \in 1..Len(ctx.writes) : \E k \in 1..Len(plan) :
            /\ Passed(k) /\ TagAt(k) = ctx.writes[i] /\ TagAt(k) # ""
            /\ plan[k].label \in {NoLabel, ctx.branch}
    /\ ctx.branch # NoLabel =>
            \E k \in 1..Len(plan) : Passed(k) /\ HasType(app, plan[k].node, "switch")

OneSwitch == \A i, j \in Switches : i = j

(* The inductive invariant.                                                *)
FlowInv ==
    /\ FlowTypeOK
    /\ NodesBuilt
    /\ HasGraph => SortInv
    /\ stage \in {"sorting", "cycle"} => app.edges # << >>
    /\ stage = "cycle" => Len(queue) # Len(app.flow)
    /\ plan = << >> => at = 0 /\ ctx = EmptyContext
    /\ plan # << >> => stage = "compiled" /\ PlanSound
    /\ plan # << >> /\ ~HasLoop /\ OneSwitch => WritersPassed

-----------------------------------------------------------------------------
(* The edges left into a node can be counted.                              *)
LEMMA LeftFinite ==
    ASSUME FlowTypeOK, NEW v
    PROVE  IsFiniteSet(Left(v)) /\ Cardinality(Left(v)) \in Nat
<1>1. Left(v) \subseteq 1..Len(app.edges) /\ Len(app.edges) \in Nat
  BY ApplicationHas DEF FlowTypeOK, Left, Incoming, Forward, Edges
<1>2. IsFiniteSet(1..Len(app.edges))
  BY <1>1, FS_Interval
<1> QED BY <1>1, <1>2, FS_Subset, FS_CardinalityType

(* The queue holds nodes, and of these some were visited.                  *)
LEMMA QueueHas ==
    ASSUME FlowTypeOK
    PROVE  /\ Len(queue) \in Nat /\ visited \in Nat /\ visited <= Len(queue)
           /\ \A k \in 1..Len(queue) : queue[k] \in Nodes(app)
           /\ Nodes(app) \subseteq Nat /\ IsApplication(app) /\ Len(app.flow) \in Nat
<1>1. queue \in Seq(Nodes(app)) /\ visited \in 0..Len(queue) /\ IsApplication(app)
  BY DEF FlowTypeOK
<1>2. Len(queue) \in Nat /\ \A k \in 1..Len(queue) : queue[k] \in Nodes(app)
  BY <1>1, LenProperties, ElementOfSeq
<1> QED BY <1>1, <1>2, ApplicationHas

(* The sort starts with the root.                                          *)
LEMMA SortBegins ==
    ASSUME FlowTypeOK, BeginSort
    PROVE  FlowTypeOK' /\ SortInv'
<1>1. IsApplication(app) /\ EdgesReadable(app)
  BY DEF FlowTypeOK, BeginSort
<1>2. PICK root \in Roots(app) :
        Roots(app) = {root} /\ Category(app, root) = "Source" /\ queue' = <<root>>
  BY DEF BeginSort
<1>3. /\ app' = Built(app) /\ stage' = "sorting" /\ visited' = 0 /\ out' = {}
      /\ remaining' = [i \in Nodes(app) |-> Cardinality(Incoming(app, i))]
      /\ UNCHANGED <<plan, at, payload, ctx, frames>>
  BY DEF BeginSort, frameVars
<1>4. /\ EdgesReadable(app') /\ Nodes(app') = Nodes(app) /\ Forward(app') = Forward(app)
      /\ \A i : Incoming(app', i) = Incoming(app, i)
      /\ IsApplication(app') /\ Len((app').flow) = Len(app.flow) /\ (app').edges = app.edges
      /\ TagNames(app') = TagNames(app)
      /\ \A i \in Nodes(app) : (app').flow[i].type = app.flow[i].type
  BY <1>1, <1>3, BuiltGraph, BuiltIs
<1>5. root \in Nodes(app) /\ Incoming(app, root) = {}
  BY <1>2 DEF Roots
<1>6. queue' \in Seq(Nodes(app)) /\ Len(queue') = 1 /\ queue'[1] = root
  BY <1>2, <1>5
<1>7. \A i \in Nodes(app) : Cardinality(Incoming(app, i)) \in Nat
  <2> TAKE i \in Nodes(app)
  <2>1. Incoming(app, i) \subseteq 1..Len(app.edges) /\ Len(app.edges) \in Nat
    BY <1>1, ApplicationHas DEF Incoming, Forward, Edges
  <2>2. IsFiniteSet(1..Len(app.edges))
    BY <2>1, FS_Interval
  <2> QED BY <2>1, <2>2, FS_Subset, FS_CardinalityType
<1>8. FlowTypeOK'
  BY <1>3, <1>4, <1>6, <1>7 DEF FlowTypeOK
<1>9. \A v \in Nodes(app) : Left(v)' = Incoming(app, v)
  BY <1>3, <1>4 DEF Left
<1>10. \A v \in Nodes(app) : InQueue(v)' <=> Left(v)' = {}
  BY <1>2, <1>6, <1>9 DEF InQueue, Roots
<1>11. Category(app', root) = "Source"
  BY <1>2, <1>4, <1>5 DEF Category, Type
<1> QED BY <1>3, <1>4, <1>5, <1>6, <1>8, <1>9, <1>10, <1>11 DEF SortInv

(* A visit uses up nothing yet.                                            *)
LEMMA VisitKeeps ==
    ASSUME FlowTypeOK, SortInv, VisitNode
    PROVE  FlowTypeOK' /\ SortInv'
<1>1. /\ stage = "sorting" /\ out = {} /\ visited < Len(queue) /\ visited' = visited + 1
      /\ out' = Outgoing(app, queue[visited + 1])
      /\ UNCHANGED <<app, stage, plan, queue, remaining, at, payload, ctx, frames>>
  BY DEF VisitNode, frameVars
<1>2. /\ Len(queue) \in Nat /\ visited \in Nat
      /\ \A j, k \in 1..Len(queue) : queue[j] = queue[k] => j = k
  BY QueueHas DEF SortInv
<1>3. FlowTypeOK'
  BY <1>1, <1>2 DEF FlowTypeOK, Outgoing
<1>4. \A v : Left(v)' = Left(v)
  <2> TAKE v
  <2>1. ASSUME NEW p \in Incoming(app, v)
        PROVE  (p \in out' \/ \A k \in 1..visited' : queue[k] # From(app, p))
                  <=> (p \in out \/ \A k \in 1..visited : queue[k] # From(app, p))
    BY <1>1, <1>2 DEF Outgoing, Incoming
  <2> QED BY <2>1, <1>1 DEF Left
<1>5. \A v : InQueue(v)' <=> InQueue(v)
  BY <1>1 DEF InQueue
<1>6. \A k \in 1..Len(queue) : \A p \in Incoming(app, queue[k]) :
            \E j \in 1..visited' : j < k /\ queue[j] = From(app, p)
  BY <1>1, <1>2 DEF SortInv
<1> QED BY <1>1, <1>2, <1>3, <1>4, <1>5, <1>6 DEF SortInv

(* An edge is used up; the last one into a node puts it in the queue.      *)
LEMMA UseEdgeKeeps ==
    ASSUME FlowTypeOK, SortInv, UseEdge
    PROVE  FlowTypeOK' /\ SortInv'
<1>1. PICK p \in out :
        /\ out' = out \ {p}
        /\ remaining' = [remaining EXCEPT ![To(app, p)] = @ - 1]
        /\ queue' = IF Ready(To(app, p)) THEN Append(queue, To(app, p)) ELSE queue
  BY DEF UseEdge
<1> DEFINE v == To(app, p)
<1>2. stage = "sorting" /\ UNCHANGED <<app, stage, plan, visited, at, payload, ctx, frames>>
  BY DEF UseEdge, frameVars
<1>3. /\ Len(queue) \in Nat /\ visited \in 1..Len(queue)
      /\ \A k \in 1..Len(queue) : queue[k] \in Nodes(app)
      /\ IsApplication(app) /\ EdgesReadable(app) /\ out \subseteq Outgoing(app, queue[visited])
      /\ \A j, k \in 1..Len(queue) : queue[j] = queue[k] => j = k
  BY <1>1, QueueHas DEF SortInv
<1>4. p \in Forward(app) /\ p \in Edges(app) /\ From(app, p) = queue[visited]
  BY <1>1, <1>3 DEF Outgoing, Forward
<1>5. v \in Nodes(app) /\ p \in Incoming(app, v) /\ \A w : w # v => p \notin Incoming(app, w)
  BY <1>3, <1>4, EdgeEnds DEF Incoming
<1>6. p \in Left(v)
  BY <1>1, <1>5 DEF Left
<1> HIDE DEF v
<1>7. IsFiniteSet(Left(v)) /\ Cardinality(Left(v)) \in Nat /\ remaining[v] = Cardinality(Left(v))
  BY <1>5, LeftFinite DEF SortInv
<1>8. /\ Cardinality(Left(v) \ {p}) = Cardinality(Left(v)) - 1 /\ IsFiniteSet(Left(v) \ {p})
      /\ Cardinality(Left(v) \ {p}) \in Nat
  BY <1>6, <1>7, FS_RemoveElement, FS_CardinalityType
<1>9. Ready(v) <=> Left(v) \ {p} = {}
  BY <1>7, <1>8, FS_EmptySet DEF Ready
<1>10. ~InQueue(v)
  BY <1>5, <1>6 DEF SortInv
<1>11. /\ queue' \in Seq(Nodes(app)) /\ Len(queue') \in Nat /\ Len(queue) <= Len(queue')
       /\ \A k \in 1..Len(queue) : queue'[k] = queue[k]
       /\ Ready(v) => Len(queue') = Len(queue) + 1 /\ queue'[Len(queue) + 1] = v
       /\ ~Ready(v) => queue' = queue
  <2>1. queue \in Seq(Nodes(app))
    BY DEF FlowTypeOK
  <2> QED BY <1>1, <1>3, <1>5, <2>1, AppendProperties DEF v
<1>12. remaining' = [remaining EXCEPT ![v] = @ - 1] /\ remaining \in [Nodes(app) -> Nat]
  BY <1>1, <1>2, <1>4, ApplicationHas DEF FlowTypeOK, v, Edges
<1>13. remaining' \in [Nodes(app) -> Nat]
  BY <1>5, <1>7, <1>8, <1>12
<1>14. FlowTypeOK'
  BY <1>1, <1>2, <1>3, <1>11, <1>13 DEF FlowTypeOK
<1>15. \A w : Left(w)' = IF w = v THEN Left(v) \ {p} ELSE Left(w)
  <2> TAKE w
  <2>1. Left(w)' = {q \in Incoming(app, w) : q \in out \ {p} \/ \A k \in 1..visited : queue[k] # From(app, q)}
    BY <1>1, <1>2, <1>3, <1>11 DEF Left
  <2>2. CASE w = v
    BY <2>1, <2>2, <1>3, <1>4 DEF Left
  <2>3. CASE w # v
    BY <2>1, <2>3, <1>5 DEF Left
  <2> QED BY <2>2, <2>3
<1>16. \A w \in Nodes(app) : InQueue(w)' <=> InQueue(w) \/ (Ready(v) /\ w = v)
  BY <1>3, <1>11 DEF InQueue
<1>17. \A w \in Nodes(app) : InQueue(w)' <=> Left(w)' = {}
  BY <1>6, <1>9, <1>10, <1>15, <1>16 DEF SortInv
<1>18. \A w \in Nodes(app) : remaining'[w] = Cardinality(Left(w)')
  BY <1>5, <1>7, <1>8, <1>12, <1>15 DEF SortInv
<1>19. \A j, k \in 1..Len(queue') : queue'[j] = queue'[k] => j = k
  BY <1>3, <1>10, <1>11 DEF InQueue
<1>20. \A k \in 1..Len(queue') : \A q \in Incoming(app, queue'[k]) :
            \E j \in 1..visited : j < k /\ queue'[j] = From(app, q)
  <2> TAKE k \in 1..Len(queue')
  <2> TAKE q \in Incoming(app, queue'[k])
  <2>1. CASE k \in 1..Len(queue)
    <3>1. PICK j \in 1..visited : j < k /\ queue[j] = From(app, q)
      BY <2>1, <1>11 DEF SortInv
    <3> QED BY <3>1, <1>3, <1>11
  <2>2. CASE k \notin 1..Len(queue)
    <3>1. Ready(v) /\ k = Len(queue) + 1 /\ queue'[k] = v
      BY <2>2, <1>11, <1>3
    <3>2. q \notin Left(v) \/ q = p
      BY <3>1, <1>9
    <3>3. PICK j \in 1..visited : queue[j] = From(app, q)
      BY <3>1, <3>2, <1>3, <1>4 DEF Left
    <3> QED BY <3>1, <3>3, <1>3, <1>11
  <2> QED BY <2>1, <2>2
<1>21. Len(queue') >= 1 /\ queue'[1] = queue[1]
  BY <1>3, <1>11
<1>22. out' \subseteq Outgoing(app, queue'[visited]) /\ visited # 0
  BY <1>1, <1>3, <1>11
<1> QED BY <1>2, <1>3, <1>14, <1>17, <1>18, <1>19, <1>20, <1>21, <1>22 DEF SortInv

(* A set of numbers has a least one.                                       *)
LEMMA LeastExists ==
    ASSUME NEW T, T \subseteq Nat, T # {}
    PROVE  \E x \in T : \A y \in T : x <= y
<1>1. PICK x \in T : \A y \in T : ~(<<y, x>> \in OpToRel(<, Nat))
  BY NatLessThanWellFounded, WFMin
<1>2. \A y \in T : ~(y < x)
  BY <1>1 DEF OpToRel
<1> QED BY <1>2

(* The first n numbers are n.                                              *)
LEMMA FirstNumbers ==
    ASSUME NEW n \in Nat
    PROVE  IsFiniteSet(1..n) /\ Cardinality(1..n) = n
<1>1. IsFiniteSet(1..n) /\ Cardinality(1..n) = IF 1 <= n THEN n - 1 + 1 ELSE 0
  BY FS_Interval
<1> QED BY <1>1

(* The queue is no longer than the list of nodes.                          *)
LEMMA QueueShort ==
    ASSUME FlowTypeOK, SortInv
    PROVE  Len(queue) <= Len(app.flow)
<1>1. /\ Len(queue) \in Nat /\ Len(app.flow) \in Nat
      /\ queue \in [1..Len(queue) -> 1..Len(app.flow)]
      /\ \A j, k \in 1..Len(queue) : queue[j] = queue[k] => j = k
  BY QueueHas, LenProperties DEF FlowTypeOK, SortInv, Nodes
<1>2. /\ IsFiniteSet(1..Len(queue)) /\ Cardinality(1..Len(queue)) = Len(queue)
      /\ IsFiniteSet(1..Len(app.flow)) /\ Cardinality(1..Len(app.flow)) = Len(app.flow)
  BY <1>1, FirstNumbers
<1>3. ASSUME Len(app.flow) < Len(queue) PROVE FALSE
  BY <1>1, <1>2, <1>3, FS_PigeonHole
<1> QED BY <1>1, <1>3

(* It holds all of them exactly if it is as long.                          *)
LEMMA QueueComplete ==
    ASSUME FlowTypeOK, SortInv
    PROVE  Len(queue) = Len(app.flow) <=> \A v \in Nodes(app) : InQueue(v)
<1> DEFINE q == Len(queue)
           n == Len(app.flow)
<1>1. /\ q \in Nat /\ n \in Nat /\ Nodes(app) = 1..n /\ q <= n
      /\ queue \in [1..q -> 1..n]
      /\ \A j, k \in 1..q : queue[j] = queue[k] => j = k
  BY QueueHas, QueueShort, LenProperties DEF FlowTypeOK, SortInv, Nodes
<1>2. /\ IsFiniteSet(1..q) /\ Cardinality(1..q) = q
      /\ IsFiniteSet(1..n) /\ Cardinality(1..n) = n
  BY <1>1, FirstNumbers
<1>3. ASSUME q = n, NEW v \in Nodes(app), ~InQueue(v) PROVE FALSE
  <2>1. queue \in [1..q -> 1..n \ {v}]
    BY <1>1, <1>3 DEF InQueue
  <2>2. IsFiniteSet(1..n \ {v}) /\ Cardinality(1..n \ {v}) = n - 1
    <3> HIDE DEF n
    <3>1. v \in 1..n
      BY <1>1, <1>3
    <3> QED BY <1>2, <3>1, FS_RemoveElement
  <2> HIDE DEF q, n
  <2>3. \E x, y \in 1..q : x # y /\ queue[x] = queue[y]
    BY <1>1, <1>2, <1>3, <2>1, <2>2, FS_PigeonHole
  <2> QED BY <1>1, <2>3
<1>4. ASSUME q < n, \A v \in Nodes(app) : InQueue(v) PROVE FALSE
  <2> DEFINE place == [v \in 1..n |-> CHOOSE k \in 1..q : queue[k] = v]
  <2>1. \A v \in 1..n : place[v] \in 1..q /\ queue[place[v]] = v
    BY <1>1, <1>4 DEF InQueue
  <2>2. place \in [1..n -> 1..q]
    BY <2>1
  <2> HIDE DEF q, n, place
  <2>3. \E x, y \in 1..n : x # y /\ place[x] = place[y]
    BY <1>1, <1>2, <1>4, <2>2, FS_PigeonHole
  <2> QED BY <2>1, <2>3
<1> QED BY <1>1, <1>3, <1>4

(* A numbering of the nodes along the edges lets the sort end with all of  *)
(* them: of the nodes not in the queue take the one with the least number; *)
(* an edge into it is left, and comes from another of them.                *)
LEMMA CycleFound ==
    ASSUME FlowTypeOK, SortInv, stage = "cycle", Len(queue) # Len(app.flow),
           NEW rank \in [Nodes(app) -> Nodes(app)],
           \A p \in Forward(app) : rank[From(app, p)] < rank[To(app, p)]
    PROVE  FALSE
<1>1. /\ IsApplication(app) /\ EdgesReadable(app) /\ Nodes(app) \subseteq Nat
      /\ out = {} /\ visited = Len(queue) /\ Len(queue) \in Nat
  BY QueueHas DEF SortInv
<1> DEFINE U == {v \in Nodes(app) : ~InQueue(v)}
           T == {rank[v] : v \in U}
<1>2. U # {}
  BY QueueComplete
<1>3. T \subseteq Nat /\ T # {}
  BY <1>1, <1>2
<1>4. PICK x \in T : \A y \in T : x <= y
  <2> HIDE DEF T
  <2> QED BY <1>3, LeastExists
<1>5. PICK v \in U : x = rank[v]
  BY <1>4
<1>6. PICK p \in Left(v) : TRUE
  BY <1>5 DEF SortInv
<1>7. p \in Forward(app) /\ p \in Edges(app) /\ To(app, p) = v
      /\ \A k \in 1..Len(queue) : queue[k] # From(app, p)
  BY <1>1, <1>6 DEF Left, Incoming, Forward
<1>8. From(app, p) \in U
  BY <1>1, <1>7, EdgeEnds DEF InQueue
<1>9. rank[From(app, p)] < rank[v] /\ rank[v] <= rank[From(app, p)]
  BY <1>4, <1>5, <1>7, <1>8
<1>10. rank[v] \in Nat /\ rank[From(app, p)] \in Nat
  BY <1>1, <1>5, <1>8
<1> QED BY <1>9, <1>10

-----------------------------------------------------------------------------
(* The plan                                                                *)

(* A node has no label or one of the two.                                  *)
LEMMA LabelIsOne ==
    ASSUME NEW a, EdgesReadable(a), NEW i
    PROVE  Label(a, i) \in Labels
<1>1. CASE Incoming(a, i) = {}
  BY <1>1 DEF Label, Labels
<1>2. CASE Incoming(a, i) # {}
  <2>1. IncomingLabels(a, i) # {} /\ IncomingLabels(a, i) \subseteq Labels
    BY <1>2 DEF IncomingLabels, Incoming, EdgesReadable, Labels
  <2>2. Label(a, i) \in IncomingLabels(a, i)
    BY <1>2, <2>1 DEF Label
  <2> QED BY <2>1, <2>2
<1> QED BY <1>1, <1>2

(* Of two numbers one is less.                                             *)
LEMMA NumbersDiffer ==
    ASSUME NEW i \in Nat, NEW j \in Nat, i # j
    PROVE  i < j \/ j < i
  OBVIOUS

(* Two writers that are found exclude each other, whichever comes first.   *)
LEMMA WritersExclude ==
    ASSUME NEW a, IsApplication(a), NEW labels, ValidateTagWriters(a, labels),
           NEW i \in Nodes(a), NEW j \in Nodes(a), i # j,
           StaticTagWrite(a.flow[i]) # "", StaticTagWrite(a.flow[i]) = StaticTagWrite(a.flow[j])
    PROVE  MutuallyExclusive(labels[i], labels[j])
<1>1. i \in Nat /\ j \in Nat
  BY ApplicationHas
<1>2. i < j \/ j < i
  BY <1>1, NumbersDiffer
<1>3. MutuallyExclusive(labels[i], labels[j]) \/ MutuallyExclusive(labels[j], labels[i])
  BY <1>2 DEF ValidateTagWriters
<1> QED BY <1>3 DEF MutuallyExclusive

(* The tag a node writes does not depend on what is built of it.           *)
LEMMA BuiltTags ==
    ASSUME NEW a, IsApplication(a), NEW i \in Nodes(a)
    PROVE  StaticTagWrite(Built(a).flow[i]) = StaticTagWrite(a.flow[i])
  BY BuiltIs DEF StaticTagWrite

(* A node that passed validate_node_config is of a known type, and a set   *)
(* node names its tag.                                                     *)
LEMMA NodesAreBuilt ==
    ASSUME NEW a, IsApplication(a), Buildable(a), NEW i \in Nodes(a)
    PROVE  Type(a, i) \in DOMAIN Builtins /\ (HasType(a, i, "set") => a.flow[i].tag # "")
<1>1. Type(a, i) \in DOMAIN Builtins /\ ValidateNodeConfig(a.flow[i])
  BY DEF Buildable
<1>2. Builtins["set"].requires = {"tag", "expr"}
  BY DEF Builtins, Descriptor
<1>3. HasType(a, i, "set") => "tag" \in a.flow[i].config
  BY <1>1, <1>2 DEF HasType, Type, ValidateNodeConfig
<1> QED BY <1>1, <1>3 DEF IsApplication, Nodes

(* A list without edges is its own order.                                  *)
LEMMA CompileListKeeps ==
    ASSUME FlowInv, CompileList
    PROVE  FlowInv'
<1>1. /\ stage = "loaded" /\ Buildable(app) /\ app.edges = << >> /\ LinearAccepted(app)
      /\ app' = Built(app) /\ stage' = "compiled"
      /\ plan' = [k \in Nodes(app) |-> Step(k, NoLabel, NoTarget)]
      /\ UNCHANGED <<queue, visited, out, remaining, at, payload, ctx, frames>>
  BY DEF CompileList, sortVars, frameVars
<1>2. IsApplication(app) /\ Len(app.flow) \in Nat
  BY ApplicationHas DEF FlowInv, FlowTypeOK
<1> DEFINE n == Len(app.flow)
<1>3. /\ IsApplication(app') /\ (app').edges = app.edges /\ Len((app').flow) = n
      /\ TagNames(app') = TagNames(app)
      /\ Nodes(app') = Nodes(app) /\ Forward(app') = Forward(app) /\ Nodes(app) = 1..n
      /\ \A i \in Nodes(app) : (app').flow[i].type = app.flow[i].type /\ (app').flow[i].tag = app.flow[i].tag
  BY <1>1, <1>2, BuiltIs DEF Nodes, Forward, Edges, IsLoopEdge
<1>4. plan = << >> /\ at = 0 /\ ctx = EmptyContext
  BY <1>1 DEF FlowInv
<1>5. /\ plan' \in Seq([node : 1..n, label : Labels, target : 0..n]) /\ Len(plan') = n
      /\ \A k \in 1..n : plan'[k].node = k /\ plan'[k].label = NoLabel
  <2>1. \A k \in 1..n : Step(k, NoLabel, NoTarget) \in [node : 1..n, label : Labels, target : 0..n]
    BY <1>2 DEF Step, Labels, NoTarget
  <2>2. plan' = [k \in 1..n |-> Step(k, NoLabel, NoTarget)]
    BY <1>1, <1>3
  <2> HIDE DEF n
  <2>3. n \in Nat
    BY <1>2 DEF n
  <2> QED BY <2>1, <2>2, <2>3 DEF Step
<1> HIDE DEF n
<1>6. FlowTypeOK'
  BY <1>1, <1>2, <1>3, <1>4, <1>5 DEF FlowInv, FlowTypeOK
<1>7. NodesBuilt'
  BY <1>1, <1>2, <1>3, NodesAreBuilt DEF NodesBuilt, Type, HasType
<1>8. ~HasGraph'
  BY <1>1, <1>3 DEF HasGraph
<1>9. ASSUME NEW j \in 1..n, NEW k \in 1..n, j # k, TagAt(j)' # "", TagAt(j)' = TagAt(k)'
      PROVE  FALSE
  <2>1. TagAt(j)' = StaticTagWrite(app.flow[j]) /\ TagAt(k)' = StaticTagWrite(app.flow[k])
    <3>1. TagAt(j)' = StaticTagWrite((app').flow[j]) /\ TagAt(k)' = StaticTagWrite((app').flow[k])
      BY <1>5 DEF TagAt
    <3> QED BY <3>1, <1>1, <1>2, <1>3, BuiltTags
  <2>2. ValidateTagWriters(app, [i \in Nodes(app) |-> NoLabel])
    BY <1>1 DEF LinearAccepted
  <2>3. MutuallyExclusive([i \in Nodes(app) |-> NoLabel][j], [i \in Nodes(app) |-> NoLabel][k])
    BY <1>2, <1>3, <1>9, <2>1, <2>2, WritersExclude
  <2> QED BY <1>3, <2>3 DEF MutuallyExclusive
<1>10. PlanSound'
  <2>1. \A j, k \in 1..Len(plan') : plan'[j].node = plan'[k].node => j = k
    BY <1>5
  <2>2. \A i \in Nodes(app') : \E k \in 1..Len(plan') : plan'[k].node = i
    BY <1>3, <1>5
  <2>3. \A j, k \in 1..Len(plan') :
            j # k /\ TagAt(j)' # "" /\ TagAt(j)' = TagAt(k)' =>
                MutuallyExclusive(plan'[j].label, plan'[k].label)
    BY <1>5, <1>9
  <2> QED BY <1>1, <1>3, <1>5, <2>1, <2>2, <2>3 DEF PlanSound
<1>11. WritersPassed'
  BY <1>1, <1>4 DEF WritersPassed, EmptyContext
<1> QED BY <1>1, <1>3, <1>5, <1>6, <1>7, <1>8, <1>10, <1>11, <1>4 DEF FlowInv

(* A graph that was sorted is wired in the order of the sort.              *)
LEMMA CompileGraphKeeps ==
    ASSUME FlowInv, CompileGraph
    PROVE  FlowInv'
<1> DEFINE n == Len(app.flow)
           order == queue
<1>1. /\ stage = "sorting" /\ out = {} /\ visited = Len(queue) /\ Len(queue) = n /\ LabelsAccepted(app)
      /\ plan' = Wire(app, queue) /\ stage' = "compiled"
      /\ UNCHANGED <<app, queue, visited, out, remaining, at, payload, ctx, frames>>
  BY DEF CompileGraph, Sorted, sortVars, frameVars
<1>2. /\ FlowTypeOK /\ SortInv /\ EdgesReadable(app) /\ IsApplication(app) /\ n \in Nat
      /\ Nodes(app) = 1..n /\ app.edges # << >>
      /\ \A k \in 1..n : queue[k] \in Nodes(app)
      /\ \A j, k \in 1..n : queue[j] = queue[k] => j = k
      /\ \A v \in Nodes(app) : \E k \in 1..n : queue[k] = v
  BY <1>1, QueueHas, QueueComplete DEF FlowInv, HasGraph, SortInv, InQueue, Nodes
<1>3. plan = << >> /\ at = 0 /\ ctx = EmptyContext
  BY <1>1 DEF FlowInv
<1> DEFINE Position(i) == CHOOSE k \in 1..Len(queue) : queue[k] = i
           Jump(i) == IF \E p \in LoopEdges(app) : From(app, p) = i
                      THEN Position(To(app, CHOOSE p \in LoopEdges(app) : TRUE)) ELSE NoTarget
<1>4. \A i : Jump(i) \in 0..n
  <2> TAKE i
  <2>1. CASE \E p \in LoopEdges(app) : From(app, p) = i
    <3> DEFINE p == CHOOSE p \in LoopEdges(app) : TRUE
    <3>1. p \in LoopEdges(app)
      BY <2>1
    <3> HIDE DEF p
    <3>2. To(app, p) \in Nodes(app)
      BY <1>2, <3>1, EdgeEnds DEF LoopEdges
    <3>3. Position(To(app, p)) \in 1..n
      BY <1>1, <1>2, <3>2
    <3> QED BY <2>1, <3>3, <1>2 DEF p
  <2>2. CASE ~\E p \in LoopEdges(app) : From(app, p) = i
    BY <1>2, <2>2 DEF NoTarget
  <2> QED BY <2>1, <2>2
<1>5. plan' = [k \in 1..n |-> Step(queue[k], Label(app, queue[k]), Jump(queue[k]))]
  BY <1>1 DEF Wire
<1> HIDE DEF Jump
<1>6. /\ plan' \in Seq([node : 1..n, label : Labels, target : 0..n]) /\ Len(plan') = n
      /\ \A k \in 1..n : plan'[k].node = queue[k] /\ plan'[k].label = Label(app, queue[k])
  <2>1. \A k \in 1..n : Step(queue[k], Label(app, queue[k]), Jump(queue[k]))
                           \in [node : 1..n, label : Labels, target : 0..n]
    BY <1>2, <1>4, LabelIsOne DEF Step
  <2> QED BY <1>2, <1>5, <2>1 DEF Step
<1> HIDE DEF n
<1>7. FlowTypeOK'
  <2>1. plan' \in Seq([node : Nodes(app), label : Labels, target : 0..Len(app.flow)])
    BY <1>2, <1>6 DEF n
  <2>2. at \in 0..Len(plan') + 1
    BY <1>2, <1>3, <1>6
  <2> QED BY <1>1, <1>2, <2>1, <2>2 DEF FlowTypeOK
<1>8. NodesBuilt' /\ SortInv'
  <2>1. NodesBuilt'
    BY <1>1 DEF FlowInv, NodesBuilt
  <2>2. \A v : Left(v)' = Left(v) /\ (InQueue(v)' <=> InQueue(v))
    BY <1>1 DEF Left, InQueue
  <2> QED BY <1>1, <1>2, <2>1, <2>2 DEF SortInv
<1>9. ASSUME NEW j \in 1..n, NEW k \in 1..n, j # k, TagAt(j)' # "", TagAt(j)' = TagAt(k)'
      PROVE  MutuallyExclusive(plan'[j].label, plan'[k].label)
  <2>1. /\ TagAt(j)' = StaticTagWrite(app.flow[queue[j]])
        /\ TagAt(k)' = StaticTagWrite(app.flow[queue[k]])
    BY <1>1, <1>6 DEF TagAt
  <2> DEFINE labels == [i \in Nodes(app) |-> Label(app, i)]
  <2>2. ValidateTagWriters(app, labels)
    BY <1>1 DEF LabelsAccepted
  <2>3. queue[j] # queue[k] /\ queue[j] \in Nodes(app) /\ queue[k] \in Nodes(app)
    BY <1>2, <1>9
  <2>4. labels[queue[j]] = plan'[j].label /\ labels[queue[k]] = plan'[k].label
    BY <1>6, <2>3
  <2> HIDE DEF labels
  <2>5. MutuallyExclusive(labels[queue[j]], labels[queue[k]])
    BY <1>2, <1>9, <2>1, <2>2, <2>3, WritersExclude
  <2> QED BY <2>4, <2>5
<1>10. PlanSound'
  <2>1. ASSUME NEW j \in 1..Len(plan'), NEW k \in 1..Len(plan'), plan'[j].node = plan'[k].node
        PROVE  j = k
    <3>1. j \in 1..n /\ k \in 1..n /\ queue[j] = queue[k]
      BY <2>1, <1>6
    <3> QED BY <3>1, <1>2
  <2>2. ASSUME NEW i \in Nodes(app)
        PROVE  \E k \in 1..Len(plan') : plan'[k].node = i
    <3>1. PICK k \in 1..n : queue[k] = i
      BY <1>2
    <3>2. k \in 1..Len(plan') /\ plan'[k].node = i
      BY <1>6, <3>1
    <3> QED BY <3>2
  <2>3. \A j, k \in 1..Len(plan') :
            j # k /\ TagAt(j)' # "" /\ TagAt(j)' = TagAt(k)' =>
                MutuallyExclusive(plan'[j].label, plan'[k].label)
    BY <1>6, <1>9
  <2>4. Len(plan') = Len(app.flow) /\ Len(queue) = Len(plan')
    BY <1>1, <1>6 DEF n
  <2>5. \A k \in 1..Len(plan') : plan'[k].node = queue[k]
    BY <1>6
  <2> QED BY <1>1, <2>1, <2>2, <2>3, <2>4, <2>5 DEF PlanSound
<1>11. WritersPassed'
  BY <1>1, <1>3 DEF WritersPassed, EmptyContext
<1> QED BY <1>1, <1>2, <1>3, <1>6, <1>7, <1>8, <1>10, <1>11 DEF FlowInv

(* The steps before leave no plan.                                         *)
LEMMA SortingKeeps ==
    ASSUME FlowInv, BeginSort \/ VisitNode \/ UseEdge \/ FindCycle
    PROVE  FlowInv'
<1>1. FlowTypeOK' /\ SortInv' /\ stage' # "loaded" /\ stage # "compiled" /\ (app').edges # << >>
  <2>1. CASE BeginSort
    BY <2>1, SortBegins, BuiltIs DEF FlowInv, FlowTypeOK, BeginSort
  <2>2. CASE VisitNode
    BY <2>2, VisitKeeps DEF FlowInv, HasGraph, VisitNode
  <2>3. CASE UseEdge
    BY <2>3, UseEdgeKeeps DEF FlowInv, HasGraph, UseEdge
  <2>4. CASE FindCycle
    <3>1. stage = "sorting" /\ stage' = "cycle" /\ out = {} /\ visited = Len(queue)
          /\ UNCHANGED <<app, plan, queue, visited, out, remaining, at, payload, ctx, frames>>
      BY <2>4 DEF FindCycle, Sorted, sortVars, frameVars
    <3>2. FlowTypeOK /\ SortInv /\ app.edges # << >>
      BY <3>1 DEF FlowInv, HasGraph
    <3>3. FlowTypeOK'
      BY <3>1, <3>2 DEF FlowTypeOK
    <3>4. \A v : Left(v)' = Left(v) /\ (InQueue(v)' <=> InQueue(v))
      BY <3>1 DEF Left, InQueue
    <3> QED BY <3>1, <3>2, <3>3, <3>4 DEF SortInv
  <2> QED BY <2>1, <2>2, <2>3, <2>4
<1>2. NodesBuilt'
  <2>1. CASE BeginSort
    <3>1. IsApplication(app) /\ Buildable(app) /\ app' = Built(app)
      BY <2>1 DEF FlowInv, FlowTypeOK, BeginSort
    <3>2. /\ Nodes(app') = Nodes(app)
          /\ \A i \in Nodes(app) :
                (app').flow[i].type = app.flow[i].type /\ (app').flow[i].tag = app.flow[i].tag
      BY <3>1, BuiltIs DEF Nodes
    <3> QED BY <3>1, <3>2, NodesAreBuilt DEF NodesBuilt, Type, HasType
  <2>2. CASE ~BeginSort
    BY <2>2 DEF FlowInv, NodesBuilt, VisitNode, UseEdge, FindCycle, Sorted
  <2> QED BY <2>1, <2>2
<1>3. plan = << >> /\ UNCHANGED <<plan, at, ctx>>
  BY <1>1 DEF FlowInv, BeginSort, VisitNode, UseEdge, FindCycle, frameVars
<1>4. stage' = "cycle" => Len(queue') # Len((app').flow)
  BY <1>1 DEF BeginSort, VisitNode, UseEdge, FindCycle, sortVars
<1> QED BY <1>1, <1>2, <1>3, <1>4 DEF FlowInv

-----------------------------------------------------------------------------
(* A frame                                                                 *)

Context(T) ==
    [writes : Seq(T), others : SUBSET (T \cup PayloadNames), branch : Labels,
     loop_continue : BOOLEAN, remaining : Nat, timed : BOOLEAN, failed : BOOLEAN, failed_step : Nat]

(* A write leaves everything but the tags alone, and a name that was not   *)
(* written yet becomes the last.                                           *)
LEMMA WriteDoes ==
    ASSUME NEW T, NEW c \in Context(T), NEW t \in T
    PROVE  /\ Write(c, t) \in Context(T)
           /\ Write(c, t).branch = c.branch /\ Write(c, t).loop_continue = c.loop_continue
           /\ (\A i \in 1..Len(c.writes) : c.writes[i] # t) => Write(c, t).writes = Append(c.writes, t)
<1> DEFINE d == [c EXCEPT !.writes = Append(@, t)]
<1>1. d \in Context(T) /\ d.branch = c.branch /\ d.loop_continue = c.loop_continue /\ d.writes = Append(c.writes, t)
  BY DEF Context
<1>2. ASSUME \A i \in 1..Len(c.writes) : c.writes[i] # t
      PROVE  Write(c, t) = d
  <2> DEFINE S == {i \in 1..Len(c.writes) : c.writes[i] = t}
  <2>1. S = {}
    BY <1>2
  <2>2. Write(c, t) = IF Cardinality(S) >= 2 THEN c ELSE d
    BY DEF Write
  <2> HIDE DEF S
  <2>3. Cardinality(S) = 0
    BY <2>1, FS_EmptySet
  <2>4. ~(Cardinality(S) >= 2)
    BY <2>3
  <2> QED BY <2>2, <2>4
<1>3. Write(c, t) = c \/ Write(c, t) = d
  BY DEF Write
<1> HIDE DEF d
<1> QED BY <1>1, <1>2, <1>3

(* What the nodes that write a tag write.                                  *)
LEMMA TagsOfTypes ==
    ASSUME NEW node
    PROVE  /\ node.type = "decode" => StaticTagWrite(node) = "raw"
           /\ node.type = "mes_order" => StaticTagWrite(node) = "order.qty"
           /\ node.type = "crc" => StaticTagWrite(node) = "crc16"
           /\ node.type = "set" => StaticTagWrite(node) = node.tag
<1>1. /\ Builtins["decode"].writes = "raw" /\ Builtins["mes_order"].writes = "order.qty"
      /\ Builtins["crc"].writes = "crc16" /\ Builtins["set"].writes = "tag"
  BY DEF Builtins, Descriptor
<1> QED BY <1>1 DEF StaticTagWrite

(* The types register_builtins knows.                                      *)
LEMMA BuiltinTypes ==
    DOMAIN Builtins =
        {"decode", "modbus", "modbus_bits", "json", "mes_order", "scale", "moving_average", "mean",
         "minmax", "sum", "crc", "set", "expr", "switch", "loop_start", "loop_back", "mes", "http",
         "sum_output"}
  BY DEF Builtins

(* A tag that is written without a loop is one of the three or is named in *)
(* the config.                                                             *)
LEMMA TagIsKnown ==
    ASSUME NEW node, node.type \in DOMAIN Builtins, StaticTagWrite(node) # "",
           NEW T, {"raw", "order.qty", "crc16", node.tag} \subseteq T
    PROVE  StaticTagWrite(node) \in T
<1>1. CASE node.type \in {"decode", "mes_order", "crc", "set"}
  BY <1>1, TagsOfTypes
<1>2. CASE node.type \notin {"decode", "mes_order", "crc", "set"}
  <2>1. /\ Builtins["modbus"].writes = "" /\ Builtins["modbus_bits"].writes = ""
        /\ Builtins["json"].writes = "" /\ Builtins["scale"].writes = ""
        /\ Builtins["moving_average"].writes = "" /\ Builtins["mean"].writes = ""
        /\ Builtins["minmax"].writes = "" /\ Builtins["sum"].writes = ""
        /\ Builtins["expr"].writes = "" /\ Builtins["switch"].writes = ""
        /\ Builtins["loop_start"].writes = "" /\ Builtins["loop_back"].writes = ""
        /\ Builtins["mes"].writes = "" /\ Builtins["http"].writes = ""
        /\ Builtins["sum_output"].writes = ""
    BY DEF Builtins, Descriptor
  <2>2. Builtins[node.type].writes = ""
    BY <1>2, <2>1, BuiltinTypes
  <2> QED BY <2>2 DEF StaticTagWrite
<1> QED BY <1>1, <1>2

Outcome(T) == [result : {"Continue", "Stop", "Error"}, ctx : Context(T)]

(* loop_back leaves a context, whether it goes on or fails.                *)
LEMMA LoopBackDoes ==
    ASSUME NEW node, NEW T, node.tag \in T, NEW c \in Context(T), NEW w \in BOOLEAN, NEW l \in BOOLEAN
    PROVE  LoopBack(node, c, w, l) \in Outcome(T)
<1> DEFINE left == Decremented(c.remaining)
           d == Write(c, node.tag)
<1>1. left \in Nat /\ d \in Context(T)
  <2>1. c.remaining \in Nat
    BY DEF Context
  <2>2. left \in Nat
    BY <2>1 DEF Decremented
  <2> QED BY <2>2, WriteDoes
<1> HIDE DEF left, d
<1>2. [d EXCEPT !.remaining = left] \in Context(T)
  BY <1>1 DEF Context
<1>3. [[d EXCEPT !.remaining = left] EXCEPT !.loop_continue = w] \in Context(T)
  BY <1>2 DEF Context
<1> QED BY <1>2, <1>3 DEF LoopBack, Continue, Result, Outcome, left, d

(* And so does loop_start.                                                 *)
LEMMA LoopStartDoes ==
    ASSUME NEW node, NEW T, node.tag \in T, NEW c \in Context(T)
    PROVE  LoopStart(node, c) \in Context(T)
<1>1. Write(c, node.tag) \in Context(T)
  BY WriteDoes
<1> QED BY <1>1, FlowAssumption DEF LoopStart, Context

(* What a node that is not of a loop does to the context: it writes its    *)
(* tag, or chooses the branch, or neither, whatever it writes otherwise.   *)
Kept(c, d) == d.writes = c.writes /\ d.branch = c.branch /\ d.loop_continue = c.loop_continue
Wrote(node, c, d) == StaticTagWrite(node) # "" /\ d = Write(c, StaticTagWrite(node))
Chose(node, c, d) ==
    node.type = "switch" /\ \E b \in {"true", "false"} : d = [c EXCEPT !.branch = b]

(* A node of each type runs its own process().                             *)
LEMMA ProcessByType ==
    ASSUME NEW node, NEW c
    PROVE  /\ node.type = "decode" => Process(node, c) = DecodeProcess(node, c)
           /\ node.type = "modbus" => Process(node, c) = ModbusProcess(c)
           /\ node.type = "modbus_bits" => Process(node, c) = ModbusBitsProcess(c)
           /\ node.type = "json" => Process(node, c) = JsonProcess(c)
           /\ node.type = "mes_order" => Process(node, c) = MesOrderProcess(node, c)
           /\ node.type = "scale" => Process(node, c) = ScaleProcess(c)
           /\ node.type = "moving_average" => Process(node, c) = MovingAverageProcess(c)
           /\ node.type = "mean" => Process(node, c) = AggregateProcess(c)
           /\ node.type = "minmax" => Process(node, c) = AggregateProcess(c)
           /\ node.type = "sum" => Process(node, c) = AggregateProcess(c)
           /\ node.type = "crc" => Process(node, c) = CrcProcess(node, c)
           /\ node.type = "set" => Process(node, c) = SetProcess(node, c)
           /\ node.type = "expr" => Process(node, c) = ExprProcess(node, c)
           /\ node.type = "switch" => Process(node, c) = SwitchProcess(node, c)
           /\ node.type \in {"mes", "http", "sum_output"} => Process(node, c) = OutputProcess(c)
  BY DEF Process

(* Every node leaves a context; one that is not of a loop changes only     *)
(* what Wrote and Chose say, and the names that are not the flow's.        *)
LEMMA ProcessDoes ==
    ASSUME NEW node, NEW T, {"raw", "order.qty", "crc16", node.tag} \subseteq T,
           node.type \in DOMAIN Builtins, node.type = "set" => node.tag # "",
           NEW c \in Context(T), NEW r \in Process(node, c)
    PROVE  /\ r \in Outcome(T)
           /\ node.type \notin {"loop_start", "loop_back"} =>
                Kept(c, r.ctx) \/ Wrote(node, c, r.ctx) \/ Chose(node, c, r.ctx)
<1> DEFINE Fine == /\ r \in Outcome(T)
                   /\ Kept(c, r.ctx) \/ Wrote(node, c, r.ctx) \/ Chose(node, c, r.ctx)
<1>1. ASSUME NEW t \in T, t = StaticTagWrite(node), t # "", r = Continue(Write(c, t))
      PROVE  Fine
  <2>1. Write(c, t) \in Context(T)
    BY <1>1, WriteDoes
  <2> QED BY <1>1, <2>1 DEF Continue, Result, Outcome, Wrote
<1>2. ASSUME NEW x \in {"Continue", "Stop", "Error"}, r = Result(x, c)
      PROVE  Fine
  BY <1>2 DEF Result, Outcome, Kept
<1>3. ASSUME NEW names, names \subseteq T \cup PayloadNames, r = Continue(WriteOthers(c, names))
      PROVE  Fine
  <2>1. PICK d : d = [c EXCEPT !.others = @ \cup names]
    OBVIOUS
  <2>2. d \in Context(T) /\ Kept(c, d)
    BY <1>3, <2>1 DEF Context, Kept
  <2>3. r = [result |-> "Continue", ctx |-> d]
    BY <1>3, <2>1 DEF Continue, Result, WriteOthers
  <2> QED BY <2>2, <2>3 DEF Outcome
<1> HIDE DEF Fine
<1>4. CASE node.type \in {"decode", "mes_order", "crc", "set"}
  <2>1. StaticTagWrite(node) \in T /\ StaticTagWrite(node) # ""
    BY <1>4, TagsOfTypes
  <2>2. r = Continue(Write(c, StaticTagWrite(node)))
    BY <1>4, ProcessByType DEF DecodeProcess, MesOrderProcess, CrcProcess, SetProcess
  <2> QED BY <1>1, <2>1, <2>2 DEF Fine
<1>5. CASE node.type = "switch"
  <2>1. PICK v \in Truths(node.value) : r = Continue([c EXCEPT !.branch = IF v THEN "true" ELSE "false"])
    BY <1>5, ProcessByType DEF SwitchProcess
  <2>2. PICK b \in {"true", "false"} : r = Continue([c EXCEPT !.branch = b])
    BY <2>1
  <2>3. [c EXCEPT !.branch = b] \in Context(T)
    BY DEF Context, Labels
  <2> QED BY <1>5, <2>2, <2>3 DEF Continue, Result, Outcome, Chose
<1>6. CASE node.type = "loop_start"
  <2>1. r = Continue(LoopStart(node, c))
    BY <1>6 DEF Process
  <2> QED BY <1>6, <2>1, LoopStartDoes DEF Continue, Result, Outcome
<1>7. CASE node.type = "loop_back"
  <2>1. \E w, l \in BOOLEAN : r = LoopBack(node, c, w, l)
    BY <1>7 DEF Process
  <2> QED BY <1>7, <2>1, LoopBackDoes
<1>8. CASE node.type \notin {"decode", "mes_order", "crc", "set", "switch", "loop_start", "loop_back"}
  <2>1. \/ r \in ModbusProcess(c) \/ r \in ModbusBitsProcess(c) \/ r \in JsonProcess(c)
        \/ r \in ScaleProcess(c) \/ r \in MovingAverageProcess(c) \/ r \in AggregateProcess(c)
        \/ r \in ExprProcess(node, c) \/ r \in OutputProcess(c)
    BY <1>8, ProcessByType, BuiltinTypes
  <2>2. r \in ExprProcess(node, c) => r = Result("Stop", c) \/ r = Result("Continue", c)
    BY DEF ExprProcess, Continue
  <2>3. r \in MovingAverageProcess(c) \cup AggregateProcess(c) \cup OutputProcess(c)
          => r = Result("Continue", c)
    BY DEF MovingAverageProcess, AggregateProcess, OutputProcess, Continue
  <2>4. r \in ModbusProcess(c) \cup JsonProcess(c) \cup ModbusBitsProcess(c)
          => r = Result("Error", c) \/ r \in Decoded(c)
    BY DEF ModbusProcess, JsonProcess, ModbusBitsProcess
  <2>5. r \in Decoded(c) => Fine
    <3>1. r \in Decoded(c) => \E names \in SUBSET PayloadNames : r = Continue(WriteOthers(c, names))
      BY DEF Decoded
    <3> QED BY <3>1, <1>3
  <2>6. r \in ScaleProcess(c) => Fine
    <3>1. Range(c.writes) \subseteq T
      <4>1. c.writes \in Seq(T)
        BY DEF Context
      <4>2. DOMAIN c.writes = 1..Len(c.writes) /\ \A i \in 1..Len(c.writes) : c.writes[i] \in T
        BY <4>1, LenProperties, ElementOfSeq
      <4> QED BY <4>2 DEF Range
    <3>2. r \in ScaleProcess(c) => r = Continue(WriteOthers(c, Range(c.writes)))
      BY DEF ScaleProcess
    <3> QED BY <3>1, <3>2, <1>3
  <2> QED BY <1>2, <2>1, <2>2, <2>3, <2>4, <2>5, <2>6 DEF Fine
<1> QED BY <1>4, <1>5, <1>6, <1>7, <1>8

(* The steps of a plan are nodes of its application.                       *)
LEMMA PlanHas ==
    ASSUME FlowInv
    PROVE  /\ Len(plan) \in Nat /\ (plan = << >> <=> Len(plan) = 0)
           /\ \A k \in 1..Len(plan) :
                /\ plan[k].node \in Nodes(app) /\ plan[k].label \in Labels
                /\ plan[k].target \in 0..Len(app.flow)
           /\ plan # << >> => Len(plan) = Len(app.flow)
           /\ ctx \in Context(TagNames(app))
<1> DEFINE S == [node : Nodes(app), label : Labels, target : 0..Len(app.flow)]
<1>1. plan \in Seq(S) /\ ctx \in Context(TagNames(app))
  BY DEF FlowInv, FlowTypeOK, Context
<1>2. Len(plan) \in Nat /\ (plan = << >> <=> Len(plan) = 0) /\ \A k \in 1..Len(plan) : plan[k] \in S
  <2> HIDE DEF S
  <2> QED BY <1>1, LenProperties, EmptySeq, ElementOfSeq
<1> QED BY <1>1, <1>2 DEF FlowInv, PlanSound

(* A step that leaves the compiler alone keeps what it made.               *)
LEMMA CompiledStays ==
    ASSUME FlowInv, plan # << >>, UNCHANGED <<app, stage, queue, visited, out, remaining, plan>>,
           at' \in 0..Len(plan) + 1, payload' \in Payloads, frames' \in Nat,
           ctx' \in Context(TagNames(app)),
           ~HasLoop /\ OneSwitch => WritersPassed'
    PROVE  FlowInv'
<1>1. FlowTypeOK'
  BY DEF FlowInv, FlowTypeOK, Context
<1>2. NodesBuilt' /\ PlanSound'
  BY DEF FlowInv, NodesBuilt, PlanSound, TagAt
<1>3. HasGraph' => SortInv'
  <2>1. \A v : Left(v)' = Left(v) /\ (InQueue(v)' <=> InQueue(v))
    BY DEF Left, InQueue
  <2> QED BY <2>1 DEF FlowInv, HasGraph, SortInv
<1>4. (HasLoop' <=> HasLoop) /\ (OneSwitch' <=> OneSwitch)
  BY DEF HasLoop, OneSwitch, Switches
<1> QED BY <1>1, <1>2, <1>3, <1>4 DEF FlowInv

(* A frame starts with nothing written.                                    *)
LEMMA ReceiveFrameKeeps ==
    ASSUME FlowInv, NEW p \in Payloads, ReceiveFrame(p)
    PROVE  FlowInv'
<1>1. /\ plan # << >> /\ payload' = p /\ ctx' = EmptyContext /\ at' = 1
      /\ UNCHANGED <<app, stage, queue, visited, out, remaining, plan, frames>>
  BY DEF ReceiveFrame, sortVars, Reset
<1>2. at' \in 0..Len(plan) + 1 /\ frames' \in Nat
  BY <1>1, PlanHas DEF FlowInv, FlowTypeOK
<1>3. ctx' \in Context(TagNames(app))
  BY <1>1 DEF EmptyContext, Context, Labels
<1>4. WritersPassed'
  BY <1>1 DEF WritersPassed, EmptyContext
<1> QED BY <1>1, <1>2, <1>3, <1>4, CompiledStays

(* What was written stays accounted for while the frame goes on.           *)
LEMMA WritersStayPassed ==
    ASSUME WritersPassed, UNCHANGED <<app, plan, ctx>>,
           \A k \in 1..Len(plan) : Passed(k) => Passed(k)'
    PROVE  WritersPassed'
<1>1. \A k \in 1..Len(plan) : TagAt(k)' = TagAt(k)
  BY DEF TagAt
<1>2. ASSUME NEW i \in 1..Len(ctx.writes)
      PROVE  \E k \in 1..Len(plan) :
                /\ Passed(k)' /\ TagAt(k)' = ctx.writes[i] /\ TagAt(k)' # ""
                /\ plan[k].label \in {NoLabel, ctx.branch}
  <2>1. PICK k \in 1..Len(plan) : Passed(k) /\ TagAt(k) = ctx.writes[i] /\ TagAt(k) # ""
                                  /\ plan[k].label \in {NoLabel, ctx.branch}
    BY DEF WritersPassed
  <2>2. Passed(k)' /\ TagAt(k)' = TagAt(k)
    BY <1>1, <2>1
  <2> QED BY <2>1, <2>2
<1>3. ctx.branch # NoLabel =>
        \E k \in 1..Len(plan) : Passed(k)' /\ HasType(app, plan[k].node, "switch")
  BY DEF WritersPassed
<1> QED BY <1>2, <1>3 DEF WritersPassed

(* A step of the other branch is passed.                                   *)
LEMMA SkipStepKeeps ==
    ASSUME FlowInv, SkipStep
    PROVE  FlowInv'
<1>1. /\ at \in 1..Len(plan) /\ at' = at + 1
      /\ UNCHANGED <<app, stage, queue, visited, out, remaining, plan, payload, ctx, frames>>
  BY DEF SkipStep, sortVars
<1>2. plan # << >> /\ at' \in 0..Len(plan) + 1 /\ payload' \in Payloads /\ frames' \in Nat
      /\ ctx' \in Context(TagNames(app))
  BY <1>1, PlanHas DEF FlowInv, FlowTypeOK
<1>3. \A k \in 1..Len(plan) : Passed(k) => Passed(k)'
  BY <1>1, PlanHas DEF Passed
<1>4. WritersPassed => WritersPassed'
  BY <1>1, <1>3, WritersStayPassed
<1> QED BY <1>1, <1>2, <1>4, CompiledStays DEF FlowInv

(* At the end every step is passed.                                        *)
LEMMA CommitKeeps ==
    ASSUME FlowInv, Commit
    PROVE  FlowInv'
<1>1. /\ plan # << >> /\ at' = 0 /\ frames' = frames + 1
      /\ UNCHANGED <<app, stage, queue, visited, out, remaining, plan, payload, ctx>>
  BY DEF Commit, sortVars
<1>2. at' \in 0..Len(plan) + 1 /\ payload' \in Payloads /\ frames' \in Nat
      /\ ctx' \in Context(TagNames(app))
  BY <1>1, PlanHas DEF FlowInv, FlowTypeOK
<1>3. \A k \in 1..Len(plan) : Passed(k)'
  BY <1>1 DEF Passed
<1>4. WritersPassed => WritersPassed'
  BY <1>1, <1>3, WritersStayPassed
<1> QED BY <1>1, <1>2, <1>4, CompiledStays DEF FlowInv

(* What comes before is something else.                                    *)
LEMMA EarlierDiffers ==
    ASSUME NEW n \in Nat, NEW k \in 1..n, NEW m \in 1..n, m = 0 \/ k < m
    PROVE  k # m
  OBVIOUS

(* The step to run writes a tag that no step before it wrote: a writer of  *)
(* the same tag excludes it, and both would be of the frame's branch.      *)
LEMMA WriteIsFirst ==
    ASSUME FlowInv, plan # << >>, WritersPassed, at \in 1..Len(plan), ~Skipped(plan[at]),
           TagAt(at) # "", NEW i \in 1..Len(ctx.writes), ctx.writes[i] = TagAt(at)
    PROVE  FALSE
<1>1. PICK k \in 1..Len(plan) :
        Passed(k) /\ TagAt(k) = ctx.writes[i] /\ plan[k].label \in {NoLabel, ctx.branch}
  BY DEF WritersPassed
<1>2. Len(plan) \in Nat
  BY PlanHas
<1>3. k # at
  <2>1. at = 0 \/ k < at
    BY <1>1 DEF Passed
  <2> QED BY <1>1, <1>2, <2>1, EarlierDiffers
<1>4. MutuallyExclusive(plan[k].label, plan[at].label)
  BY <1>1, <1>3 DEF FlowInv, PlanSound
<1>5. plan[at].label \in {NoLabel, ctx.branch}
  BY DEF Skipped
<1> QED BY <1>1, <1>4, <1>5 DEF MutuallyExclusive

(* Only the first of at most one switch finds the frame in no branch.      *)
LEMMA BranchIsFirst ==
    ASSUME FlowInv, plan # << >>, WritersPassed, OneSwitch, at \in 1..Len(plan),
           HasType(app, plan[at].node, "switch")
    PROVE  ctx.branch = NoLabel
<1>1. ASSUME ctx.branch # NoLabel PROVE FALSE
  <2>1. PICK k \in 1..Len(plan) : Passed(k) /\ HasType(app, plan[k].node, "switch")
    BY <1>1 DEF WritersPassed
  <2>2. Len(plan) \in Nat /\ plan[k].node \in Nodes(app) /\ plan[at].node \in Nodes(app)
    BY <2>1, PlanHas
  <2>3. plan[k].node = plan[at].node
    BY <2>1, <2>2 DEF OneSwitch, Switches
  <2>4. k = at
    BY <2>1, <2>3 DEF FlowInv, PlanSound
  <2> QED BY <2>1, <2>2, <2>4 DEF Passed
<1> QED BY <1>1

(* The context a step leaves, as far as the writers go.                    *)
LEMMA RunKeepsWriters ==
    ASSUME FlowInv, plan # << >>, WritersPassed, OneSwitch,
           NEW now \in 1..Len(plan), at = now, ~Skipped(plan[now]), NEW d \in Context(TagNames(app)),
           \/ Kept(ctx, d)
           \/ Wrote(app.flow[plan[now].node], ctx, d)
           \/ Chose(app.flow[plan[now].node], ctx, d),
           UNCHANGED <<app, plan>>, at' \in Nat, at' > now,
           ctx'.writes = d.writes, ctx'.branch = d.branch, ctx'.loop_continue = d.loop_continue
    PROVE  WritersPassed'
<1> DEFINE T == TagNames(app)
           node == app.flow[plan[now].node]
           By(k, t, b) == TagAt(k) = t /\ TagAt(k) # "" /\ plan[k].label \in {NoLabel, b}
           Switch(k) == HasType(app, plan[k].node, "switch")
<1>1. Len(plan) \in Nat /\ ctx \in Context(T) /\ now \in Nat /\ now # 0
  BY PlanHas
<1>2. \A k \in 1..Len(plan) : TagAt(k)' = TagAt(k) /\ (k <= now => Passed(k)')
  BY <1>1 DEF Passed, TagAt
<1>3. \A k \in 1..Len(plan) : Passed(k) => k < now
  BY <1>1 DEF Passed
<1>4. /\ ctx.loop_continue = FALSE
      /\ \A i, j \in 1..Len(ctx.writes) : ctx.writes[i] = ctx.writes[j] => i = j
      /\ \A i \in 1..Len(ctx.writes) : \E k \in 1..Len(plan) : k <= now /\ By(k, ctx.writes[i], ctx.branch)
      /\ ctx.branch # NoLabel => \E k \in 1..Len(plan) : k <= now /\ Switch(k)
  <2>1. ASSUME NEW i \in 1..Len(ctx.writes)
        PROVE  \E k \in 1..Len(plan) : k <= now /\ By(k, ctx.writes[i], ctx.branch)
    <3>1. PICK k \in 1..Len(plan) : Passed(k) /\ By(k, ctx.writes[i], ctx.branch)
      BY DEF WritersPassed
    <3> HIDE DEF By
    <3>2. k <= now
      BY <3>1, <1>1, <1>3
    <3> QED BY <3>1, <3>2
  <2>2. ASSUME ctx.branch # NoLabel
        PROVE  \E k \in 1..Len(plan) : k <= now /\ Switch(k)
    <3>1. PICK k \in 1..Len(plan) : Passed(k) /\ Switch(k)
      BY <2>2 DEF WritersPassed
    <3> QED BY <3>1, <1>1, <1>3
  <2> QED BY <2>1, <2>2 DEF WritersPassed
<1>5. plan[now].label \in {NoLabel, ctx.branch}
  BY DEF Skipped
<1>6. SUFFICES /\ d.loop_continue = FALSE
               /\ \A i, j \in 1..Len(d.writes) : d.writes[i] = d.writes[j] => i = j
               /\ \A i \in 1..Len(d.writes) : \E k \in 1..Len(plan) : k <= now /\ By(k, d.writes[i], d.branch)
               /\ d.branch # NoLabel => \E k \in 1..Len(plan) : k <= now /\ Switch(k)
  <2>1. ASSUME NEW i \in 1..Len(d.writes)
        PROVE  \E k \in 1..Len(plan) : /\ Passed(k)' /\ TagAt(k)' = d.writes[i] /\ TagAt(k)' # ""
                                       /\ plan[k].label \in {NoLabel, d.branch}
    <3>1. PICK k \in 1..Len(plan) : k <= now /\ By(k, d.writes[i], d.branch)
      BY <1>6
    <3>2. Passed(k)' /\ TagAt(k)' = TagAt(k)
      BY <1>2, <3>1
    <3> QED BY <3>1, <3>2
  <2>2. ASSUME d.branch # NoLabel
        PROVE  \E k \in 1..Len(plan) : Passed(k)' /\ Switch(k)
    <3>1. PICK k \in 1..Len(plan) : k <= now /\ Switch(k)
      BY <1>6, <2>2
    <3>2. Passed(k)'
      BY <1>2, <3>1
    <3> QED BY <3>1, <3>2
  <2>3. /\ ctx'.loop_continue = FALSE
        /\ \A i, j \in 1..Len(ctx'.writes) : ctx'.writes[i] = ctx'.writes[j] => i = j
    BY <1>6
  <2>4. \A i \in 1..Len(ctx'.writes) : \E k \in 1..Len(plan') :
            /\ Passed(k)' /\ TagAt(k)' = ctx'.writes[i] /\ TagAt(k)' # ""
            /\ plan'[k].label \in {NoLabel, ctx'.branch}
    <3> TAKE i \in 1..Len(ctx'.writes)
    <3>1. PICK k \in 1..Len(plan) : /\ Passed(k)' /\ TagAt(k)' = d.writes[i] /\ TagAt(k)' # ""
                                    /\ plan[k].label \in {NoLabel, d.branch}
      BY <2>1
    <3>2. k \in 1..Len(plan') /\ TagAt(k)' = ctx'.writes[i] /\ plan'[k].label \in {NoLabel, ctx'.branch}
      BY <3>1
    <3> QED BY <3>1, <3>2
  <2>5. ctx'.branch # NoLabel =>
            \E k \in 1..Len(plan') : Passed(k)' /\ HasType(app', plan'[k].node, "switch")
    BY <2>2
  <2> QED BY <2>3, <2>4, <2>5 DEF WritersPassed
<1> HIDE DEF By, Switch
<1>7. CASE Kept(ctx, d)
  BY <1>4, <1>7 DEF Kept
<1>8. CASE Wrote(node, ctx, d)
  <2> DEFINE t == TagAt(now)
             n == Len(ctx.writes)
  <2>1. t # "" /\ d = Write(ctx, t)
    BY <1>8 DEF Wrote, TagAt
  <2>2. \A i \in 1..n : ctx.writes[i] # t
    BY <2>1, WriteIsFirst
  <2>3. t \in T
    <3>1. d \in Context(T) /\ n \in Nat /\ ctx.writes \in Seq(T)
      BY <1>1, LenProperties DEF Context
    <3>2. plan[now].node \in Nodes(app) /\ stage # "loaded"
      BY PlanHas DEF FlowInv
    <3>3. node.type \in DOMAIN Builtins /\ {"raw", "order.qty", "crc16", node.tag} \subseteq T
      BY <3>2 DEF FlowInv, NodesBuilt, Type, TagNames
    <3> QED BY <2>1, <3>3, TagIsKnown DEF TagAt
  <2>4. /\ d.writes = Append(ctx.writes, t) /\ d.branch = ctx.branch
        /\ d.loop_continue = ctx.loop_continue
    BY <1>1, <2>1, <2>2, <2>3, WriteDoes
  <2>5. By(now, t, d.branch)
    BY <1>5, <2>1, <2>4 DEF By
  <2> HIDE DEF t, n
  <2>6. /\ n \in Nat /\ Len(d.writes) = n + 1 /\ d.writes[n + 1] = t
        /\ \A i \in 1..n : d.writes[i] = ctx.writes[i]
    <3>1. ctx.writes \in Seq(T)
      BY <1>1 DEF Context
    <3> QED BY <2>3, <2>4, <3>1, AppendProperties, LenProperties DEF n
  <2>7. \A i, j \in 1..n : ctx.writes[i] = ctx.writes[j] => i = j
    BY <1>4 DEF n
  <2>8. \A i, j \in 1..Len(d.writes) : d.writes[i] = d.writes[j] => i = j
    BY <2>2, <2>6, <2>7
  <2>9. ASSUME NEW i \in 1..Len(d.writes)
        PROVE  \E k \in 1..Len(plan) : k <= now /\ By(k, d.writes[i], d.branch)
    <3>1. CASE i \in 1..n
      <4>1. \E k \in 1..Len(plan) : k <= now /\ By(k, ctx.writes[i], ctx.branch)
        BY <1>4, <3>1 DEF n
      <4> QED BY <3>1, <4>1, <2>4, <2>6
    <3>2. CASE i \notin 1..n
      <4>1. i = n + 1
        BY <2>6, <3>2
      <4> QED BY <4>1, <2>5, <2>6, <1>1
    <3> QED BY <3>1, <3>2
  <2> QED BY <1>4, <2>4, <2>8, <2>9
<1>9. CASE Chose(node, ctx, d)
  <2>1. PICK b \in {"true", "false"} : d = [ctx EXCEPT !.branch = b]
    BY <1>9 DEF Chose
  <2>2. Switch(now)
    BY <1>9 DEF Chose, Switch, HasType, Type
  <2>3. ctx.branch = NoLabel
    BY <2>2, BranchIsFirst DEF Switch
  <2>4. d.writes = ctx.writes /\ d.loop_continue = ctx.loop_continue
    BY <1>1, <2>1 DEF Context
  <2>5. \A k, t : By(k, t, NoLabel) => By(k, t, d.branch)
    BY DEF By
  <2>6. ASSUME NEW i \in 1..Len(d.writes)
        PROVE  \E k \in 1..Len(plan) : k <= now /\ By(k, d.writes[i], d.branch)
    <3>1. PICK k \in 1..Len(plan) : k <= now /\ By(k, ctx.writes[i], ctx.branch)
      BY <1>4, <2>4
    <3> QED BY <3>1, <2>3, <2>4, <2>5
  <2>7. \E k \in 1..Len(plan) : k <= now /\ Switch(k)
    BY <1>1, <2>2
  <2> QED BY <1>4, <2>4, <2>6, <2>7
<1> QED BY <1>7, <1>8, <1>9

(* One node runs.                                                          *)
LEMMA RunStepKeeps ==
    ASSUME FlowInv, RunStep
    PROVE  FlowInv'
<1> DEFINE T == TagNames(app)
<1>1. /\ at \in 1..Len(plan) /\ ~Skipped(plan[at])
      /\ UNCHANGED <<app, stage, queue, visited, out, remaining, plan, payload, frames>>
  BY DEF RunStep, sortVars
<1>2. PICK now \in 1..Len(plan) : at = now
  BY <1>1
<1> DEFINE node == app.flow[plan[now].node]
<1>3. PICK r \in Process(node, ctx) :
        LET jump == r.ctx.loop_continue /\ plan[now].target # NoTarget IN
        /\ at' = CASE r.result \in {"Stop", "Error"} -> Len(plan) + 1
                   [] r.result = "Continue" /\ jump -> plan[now].target
                   [] OTHER -> now + 1
        /\ ctx' = CASE r.result = "Error" -> [r.ctx EXCEPT !.failed = TRUE, !.failed_step = now]
                    [] r.result = "Continue" /\ jump -> [r.ctx EXCEPT !.loop_continue = FALSE]
                    [] OTHER -> r.ctx
  BY <1>2 DEF RunStep
<1>4. /\ Len(plan) \in Nat /\ now \in Nat /\ plan # << >> /\ stage # "loaded"
      /\ plan[now].node \in Nodes(app) /\ plan[now].target \in 0..Len(plan)
      /\ ctx \in Context(T) /\ payload \in Payloads /\ frames \in Nat
  <2>1. Len(plan) \in Nat /\ now \in Nat /\ plan # << >>
    BY PlanHas
  <2> QED BY <2>1, PlanHas DEF FlowInv, FlowTypeOK
<1>5. /\ node.type \in DOMAIN Builtins /\ (node.type = "set" => node.tag # "")
      /\ {"raw", "order.qty", "crc16", node.tag} \subseteq T
  BY <1>4 DEF FlowInv, NodesBuilt, Type, HasType, TagNames
<1> HIDE DEF T, node
<1>6. /\ r \in Outcome(T)
      /\ node.type \notin {"loop_start", "loop_back"} =>
            Kept(ctx, r.ctx) \/ Wrote(node, ctx, r.ctx) \/ Chose(node, ctx, r.ctx)
  BY <1>3, <1>4, <1>5, ProcessDoes
<1>7. r.result \in {"Continue", "Stop", "Error"} /\ r.ctx \in Context(T)
  BY <1>6 DEF Outcome
<1>8. at' \in 0..Len(plan) + 1
  BY <1>3, <1>4, <1>7
<1>9. ctx' \in Context(T)
  <2>1. [r.ctx EXCEPT !.failed = TRUE, !.failed_step = now] \in Context(T)
    BY <1>4, <1>7 DEF Context
  <2>2. [r.ctx EXCEPT !.loop_continue = FALSE] \in Context(T)
    BY <1>7 DEF Context
  <2> QED BY <1>3, <1>7, <2>1, <2>2
<1>10. ASSUME ~HasLoop, OneSwitch
       PROVE  WritersPassed'
  <2>1. WritersPassed
    BY <1>4, <1>10 DEF FlowInv
  <2>2. Kept(ctx, r.ctx) \/ Wrote(node, ctx, r.ctx) \/ Chose(node, ctx, r.ctx)
    BY <1>4, <1>6, <1>10 DEF HasLoop, Type, node
  <2>3. r.ctx.loop_continue = FALSE
    <3>1. ctx.loop_continue = FALSE
      BY <2>1 DEF WritersPassed
    <3>2. CASE Wrote(node, ctx, r.ctx)
      <4>1. StaticTagWrite(node) \in T
        BY <1>5, <3>2, TagIsKnown DEF Wrote
      <4>2. r.ctx = Write(ctx, StaticTagWrite(node))
        BY <3>2 DEF Wrote
      <4>3. Write(ctx, StaticTagWrite(node)).loop_continue = ctx.loop_continue
        BY <1>4, <4>1, WriteDoes
      <4> QED BY <3>1, <4>2, <4>3
    <3>3. CASE Chose(node, ctx, r.ctx)
      BY <1>4, <3>1, <3>3 DEF Chose, Context
    <3> QED BY <2>2, <3>1, <3>2, <3>3 DEF Kept
  <2>4. at' \in Nat /\ at' > now
    BY <1>3, <1>4, <1>7, <2>3
  <2>5. /\ ctx'.writes = r.ctx.writes /\ ctx'.branch = r.ctx.branch
        /\ ctx'.loop_continue = r.ctx.loop_continue
    <3>1. ctx' = r.ctx \/ ctx' = [r.ctx EXCEPT !.failed = TRUE, !.failed_step = now]
      BY <1>3, <1>7, <2>3
    <3> QED BY <1>7, <3>1 DEF Context
  <2> QED BY <1>1, <1>2, <1>4, <1>7, <1>10, <2>1, <2>2, <2>4, <2>5, RunKeepsWriters DEF T, node
<1> QED BY <1>1, <1>4, <1>8, <1>9, <1>10, CompiledStays DEF T

-----------------------------------------------------------------------------
(* The theorems                                                            *)

(* The loaded application satisfies the invariant.                         *)
LEMMA InitFlowInv ==
    ASSUME FlowInit
    PROVE  FlowInv
<1>1. /\ stage = "loaded" /\ plan = << >> /\ queue = << >> /\ visited = 0 /\ out = {}
      /\ at = 0 /\ payload = "other" /\ ctx = EmptyContext /\ frames = 0
  BY DEF FlowInit
<1>2. IsApplication(app)
  BY FlowAssumption, NamedIs DEF FlowInit
<1>3. ctx \in Context(TagNames(app))
  BY <1>1 DEF EmptyContext, Context, Labels
<1>4. FlowTypeOK
  BY <1>1, <1>2, <1>3 DEF FlowTypeOK, Payloads, Context
<1> QED BY <1>1, <1>4 DEF FlowInv, NodesBuilt, HasGraph

(* A step of the other parts changes nothing.                              *)
LEMMA FlowStays ==
    ASSUME FlowInv, UNCHANGED flowVars
    PROVE  FlowInv'
<1>1. UNCHANGED <<app, stage, queue, visited, out, remaining, plan, at, payload, ctx, frames>>
  BY DEF flowVars, sortVars, frameVars
<1>2. FlowTypeOK' /\ NodesBuilt'
  BY <1>1 DEF FlowInv, FlowTypeOK, NodesBuilt
<1>3. \A v : Left(v)' = Left(v) /\ (InQueue(v)' <=> InQueue(v))
  BY <1>1 DEF Left, InQueue
<1>4. (HasGraph' <=> HasGraph) /\ (SortInv => SortInv')
  BY <1>1, <1>3 DEF HasGraph, SortInv
<1>5. PlanSound => PlanSound'
  BY <1>1 DEF PlanSound, TagAt
<1>6. WritersPassed => WritersPassed'
  <2>1. \A k \in 1..Len(plan) : Passed(k) => Passed(k)'
    BY <1>1 DEF Passed
  <2> QED BY <1>1, <2>1, WritersStayPassed
<1>7. (HasLoop' <=> HasLoop) /\ (OneSwitch' <=> OneSwitch)
  BY <1>1 DEF HasLoop, OneSwitch, Switches
<1> QED BY <1>1, <1>2, <1>4, <1>5, <1>6, <1>7 DEF FlowInv

(* Every step keeps the invariant.                                         *)
LEMMA FlowStep ==
    ASSUME FlowInv, [FlowNext]_flowVars
    PROVE  FlowInv'
<1>1. CASE BeginSort \/ VisitNode \/ UseEdge \/ FindCycle
  BY <1>1, SortingKeeps
<1>2. CASE CompileList
  BY <1>2, CompileListKeeps
<1>3. CASE CompileGraph
  BY <1>3, CompileGraphKeeps
<1>4. CASE \E p \in Payloads : ReceiveFrame(p)
  BY <1>4, ReceiveFrameKeeps
<1>5. CASE SkipStep
  BY <1>5, SkipStepKeeps
<1>6. CASE RunStep
  BY <1>6, RunStepKeeps
<1>7. CASE Commit
  BY <1>7, CommitKeeps
<1>8. CASE UNCHANGED flowVars
  BY <1>8, FlowStays
<1> QED BY <1>1, <1>2, <1>3, <1>4, <1>5, <1>6, <1>7, <1>8 DEF FlowNext

(* FlowInv holds of every application that is compiled and of every frame  *)
(* that runs through it (compile_flow, CompiledFlow::execute).             *)
THEOREM FlowInvariant == FlowSpec => []FlowInv
<1> QED BY InitFlowInv, FlowStep, PTL DEF FlowSpec

(* Every step, node, label and jump target is one there is, and so is the  *)
(* step that execute() runs, for any applications.                         *)
THEOREM FlowTypeCorrect == FlowSpec => []FlowTypeOK
<1>1. FlowInv => FlowTypeOK
  BY DEF FlowInv
<1> QED BY <1>1, FlowInvariant, PTL

(* The sort put a node behind those that feed it, and the plan has its     *)
(* order.                                                                  *)
LEMMA PlanOrdered ==
    ASSUME FlowInv, plan # << >>, app.edges # << >>
    PROVE  /\ Category(app, plan[1].node) = "Source"
           /\ \A j, k \in 1..Len(plan) : \A p \in Forward(app) :
                  /\ app.flow[plan[j].node].id = app.edges[p].from
                  /\ app.flow[plan[k].node].id = app.edges[p].to
                  => j < k
<1>1. /\ FlowTypeOK /\ SortInv /\ PlanSound /\ IsApplication(app) /\ EdgesReadable(app)
      /\ visited = Len(queue) /\ Len(queue) = Len(plan) /\ Len(plan) \in Nat /\ Len(plan) >= 1
      /\ \A k \in 1..Len(plan) : plan[k].node = queue[k] /\ plan[k].node \in Nodes(app)
  BY PlanHas DEF FlowInv, HasGraph, PlanSound, SortInv, FlowTypeOK
<1>2. Category(app, plan[1].node) = "Source"
  BY <1>1 DEF SortInv
<1>3. ASSUME NEW j \in 1..Len(plan), NEW k \in 1..Len(plan), NEW p \in Forward(app),
             app.flow[plan[j].node].id = app.edges[p].from,
             app.flow[plan[k].node].id = app.edges[p].to
      PROVE  j < k
  <2>1. queue[j] = From(app, p) /\ queue[k] = To(app, p)
    BY <1>1, <1>3, EdgeEnds DEF Forward
  <2>2. p \in Incoming(app, queue[k])
    BY <2>1 DEF Incoming
  <2>3. PICK i \in 1..visited : i < k /\ queue[i] = From(app, p)
    BY <1>1, <2>2 DEF SortInv
  <2>4. i = j
    BY <1>1, <2>1, <2>3 DEF SortInv
  <2> QED BY <2>3, <2>4
<1> QED BY <1>2, <1>3

(* For any application: the compiled steps are its nodes, each once and    *)
(* behind all that feed it, the first one a Source, and order_flow_graph   *)
(* says "flow contains a cycle" only where no numbering of the nodes along *)
(* the edges exists.                                                       *)
THEOREM OrderIsSound == FlowSpec => []OrderSound
<1>1. ASSUME FlowInv PROVE OrderSound
  <2>1. ASSUME plan # << >>
        PROVE  Len(plan) = Len(app.flow) /\ {plan[k].node : k \in 1..Len(plan)} = Nodes(app)
    <3>1. PlanSound
      BY <1>1, <2>1 DEF FlowInv
    <3>2. \A k \in 1..Len(plan) : plan[k].node \in Nodes(app)
      BY <1>1, PlanHas
    <3>3. \A i \in Nodes(app) : i \in {plan[k].node : k \in 1..Len(plan)}
      BY <3>1 DEF PlanSound
    <3>4. {plan[k].node : k \in 1..Len(plan)} \subseteq Nodes(app)
      BY <3>2
    <3>5. Len(plan) = Len(app.flow)
      BY <3>1 DEF PlanSound
    <3> QED BY <3>3, <3>4, <3>5
  <2>2. ASSUME stage = "cycle",
               NEW rank \in [Nodes(app) -> Nodes(app)],
               \A p \in Forward(app) : rank[From(app, p)] < rank[To(app, p)]
        PROVE  FALSE
    <3>1. FlowTypeOK /\ SortInv /\ Len(queue) # Len(app.flow)
      BY <1>1, <2>2 DEF FlowInv, HasGraph
    <3> QED BY <2>2, <3>1, CycleFound
  <2> QED BY <1>1, <2>1, <2>2, PlanOrdered DEF OrderSound
<1> QED BY <1>1, FlowInvariant, PTL

(* For any application without a loop and with at most one switch, and     *)
(* whatever its expressions come to: no two nodes that name a tag in the   *)
(* flow write the same one in one frame, which is what                     *)
(* validate_tag_writers is for.  Names found in the payload and scale are  *)
(* outside it (flow_compiler.hpp:195-200).                                 *)
THEOREM TagsWrittenOnce == FlowSpec => []TagWrittenOnce
<1>1. ASSUME FlowInv PROVE TagWrittenOnce
  <2> SUFFICES ASSUME plan # << >>, ~HasLoop, \A i, j \in Switches : i = j
               PROVE  IsInjective(ctx.writes)
    BY DEF TagWrittenOnce
  <2>1. WritersPassed
    BY <1>1 DEF FlowInv, OneSwitch
  <2>2. ctx.writes \in Seq(TagNames(app))
    BY <1>1, PlanHas DEF Context
  <2>3. DOMAIN ctx.writes = 1..Len(ctx.writes)
    BY <2>2, LenProperties
  <2> QED BY <2>1, <2>3 DEF WritersPassed, IsInjective
<1> QED BY <1>1, FlowInvariant, PTL

===============================================================================
