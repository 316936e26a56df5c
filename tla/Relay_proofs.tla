----------------------------- MODULE Relay_proofs -----------------------------
(***************************************************************************)
(* The relay between the brokers of a cluster, for every number of nodes,  *)
(* session threads, messages and connections: streams stay in frame, no    *)
(* thread reaches what stop() has taken down, and every broker is given a  *)
(* message once.                                                           *)
(***************************************************************************)
EXTENDS Relay, FiniteSetTheorems, TLAPS

Stage == {"off", "broker", "engine", "wired", "wiring", "up", "failing", "failed", "stopping",
          "brokerless", "defanged", "joining", "quiet", "stopped"}
CallPc == {"idle", "route", "check", "call", "send", "length", "body"}
Call == [pc : CallPc, m : Message \cup {None}, todo : SUBSET Node, via : 0..MaxDials]
Piece == {"length", "body"} \X Message
Conn == [stream : Seq(Piece), open : BOOLEAN,
         reader : {"none", "length", "body", "post", "gone"}, held : Message \cup {None}]

(* Every variable has its type; owed is read by no step of the relay.      *)
RelayTypeOK ==
    /\ stage \in [Node -> Stage]
    /\ forwarder \in [Node -> {"null", "half", "whole"}]
    /\ engine \in [Node -> {"none", "running", "destroyed"}]
    /\ running \in [Node -> BOOLEAN]
    /\ call \in [Node -> [Thread -> Call]]
    /\ sendLock \in [Node -> BOOLEAN]
    /\ fd \in [Pair -> 0..MaxDials] /\ dials \in [Pair -> 0..MaxDials]
    /\ \A p \in Pair : fd[p] <= dials[p]
    /\ conn \in [Link -> Conn]
    /\ \A l \in Link : conn[l].reader \in {"body", "post"} => conn[l].held \in Message
    /\ inbox \in [Node -> Seq(Message)] /\ delivered \in [Node -> Seq(Message)]
    /\ origin \in [Message -> Node \cup {None}]

-----------------------------------------------------------------------------
(* Who is there while a node starts and stops                              *)

Sending(n, t) == call[n][t].pc \in {"send", "length", "body"}
Writing(n, t) == call[n][t].pc \in {"length", "body"}

(* A session thread carries one message of its own node, and a target for  *)
(* it as long as it sends.                                                 *)
CallsSound ==
    \A n \in Node, t \in Thread :
        /\ call[n][t].pc = "idle" => call[n][t] = Idle
        /\ call[n][t].pc # "idle" => call[n][t].m \in Message /\ origin[call[n][t].m] = n
        /\ Sending(n, t) => call[n][t].todo # {} /\ call[n][t].todo \subseteq Peers(n)
        /\ Writing(n, t) => call[n][t].via \in 1..dials[Peer(n, t)]

(* The order of Runtime's start and stop: no session thread is left when   *)
(* the forwarder goes, no reader when the engine goes.                     *)
NodeOrdered(n) ==
    /\ running[n] <=> stage[n] \in {"wired", "wiring", "up", "stopping", "brokerless", "defanged"}
    /\ stage[n] \in {"engine", "wired", "wiring", "up", "stopping", "brokerless", "defanged",
                     "joining", "quiet"} => engine[n] = "running"
    /\ stage[n] \in {"brokerless", "defanged", "joining", "quiet", "stopped"} =>
          \A t \in Thread : call[n][t].pc = "idle"
    /\ \A t \in Thread : call[n][t].pc = "call" => forwarder[n] # "null"

ReaderServed(l) ==
    conn[l].reader \in {"length", "body", "post"} => running[l[2]] \/ stage[l[2]] = "joining"

StopOrdered ==
    /\ \A n \in Node : NodeOrdered(n)
    /\ \A l \in Link : ReaderServed(l)

-----------------------------------------------------------------------------
(* Streams in frame                                                        *)

(* send_mu_: one thread of a node writes at a time.                        *)
OneWriter ==
    \A n \in Node : \A t \in Thread : Writing(n, t) =>
        sendLock[n] /\ \A u \in Thread : Writing(n, u) => u = t

(* The piece a reader is about to take is the one it waits for, and in the *)
(* stream a body follows its length and a length follows a body.           *)
InOrder(c) ==
    /\ c.reader \in {"none", "length"} => c.held = None
    /\ c.stream # <<>> => IF c.reader = "body" THEN c.stream[1] = <<"body", c.held>>
                                               ELSE c.stream[1][1] = "length"
    /\ \A i \in 1..Len(c.stream) : i + 1 <= Len(c.stream) =>
          IF c.stream[i][1] = "length" THEN c.stream[i + 1] = <<"body", c.stream[i][2]>>
                                       ELSE c.stream[i + 1][1] = "length"

(* The last thing that went into the stream, or the reader's hands.        *)
EndsWithLength(c, m) ==
    IF c.stream = <<>> THEN c.reader = "body" /\ c.held = m
    ELSE c.stream[Len(c.stream)] = <<"length", m>>

EndsWithBody(c) ==
    IF c.stream = <<>> THEN c.reader # "body" ELSE c.stream[Len(c.stream)][1] = "body"

(* A thread with record r has written a length to l and owes the body.     *)
Midway(r, l) == r.pc = "body" /\ <<l[1], Lowest(r.todo), r.via>> = l

(* A connection c is used from its dial until it is closed, and only once; *)
(* its stream is in order, and while it is open ends with a length only    *)
(* if one of the sender's threads owes the body.                           *)
Framing(c, calls, made, l) ==
    /\ l[3] > made => c = Unused
    /\ c.reader = "gone" => ~c.open /\ c.stream = <<>>
    /\ InOrder(c)
    /\ c.open => /\ \A t \in Thread : Midway(calls[t], l) => EndsWithLength(c, calls[t].m)
                 /\ (\A t \in Thread : ~Midway(calls[t], l)) => EndsWithBody(c)

FrameInv ==
    /\ OneWriter
    /\ \A l \in Link : Framing(conn[l], call[l[1]], dials[<<l[1], l[2]>>], l)

-----------------------------------------------------------------------------
(* One copy for each broker                                                *)

(* A thread of node n with record r has still to route m to its own        *)
(* subscribers (b = n) or to send it to b.                                 *)
Owes(r, n, b, m) ==
    /\ r.pc # "idle" /\ r.m = m
    /\ IF b = n THEN r.pc = "route" ELSE r.pc \in {"route", "check", "call"} \/ b \in r.todo

(* The messages on connection c whose body has been written and not yet    *)
(* been posted to the relay actor.                                         *)
Loaded(s) == {m \in Message : <<"body", m>> \in Items(s)}
Cargo(c) == Loaded(c.stream) \cup (IF c.reader = "post" THEN {c.held} ELSE {})

Injective(s) == \A i, j \in 1..Len(s) : s[i] = s[j] => i = j

(* A copy under way was published by the node it comes from, which routed  *)
(* it to its own subscribers first.                                        *)
RoutedFirst ==
    /\ \A n \in Node, t \in Thread : call[n][t].pc \notin {"idle", "route"} =>
           call[n][t].m \in Items(delivered[n])
    /\ \A l \in Link : \A m \in Cargo(conn[l]) :
           origin[m] = l[1] /\ m \in Items(delivered[l[1]])
    /\ \A b \in Node : \A m \in Items(inbox[b]) \cup Items(delivered[b]) :
           origin[m] \in Node /\ m \in Items(delivered[origin[m]])

(* One thread carries a message.                                           *)
OneCarrier ==
    \A n \in Node : \A t, u \in Thread :
        call[n][t].pc # "idle" /\ call[n][u].pc # "idle" /\ call[n][t].m = call[n][u].m => t = u

(* The copy of a message for a node is in one place at a time: owed by a   *)
(* thread, on one connection, posted, or given to the node's subscribers.  *)
OwedOnly ==
    \A n \in Node, t \in Thread, b \in Node, m \in Message : Owes(call[n][t], n, b, m) =>
        /\ m \notin Items(inbox[b]) /\ m \notin Items(delivered[b])
        /\ \A l \in Link : l[2] = b => m \notin Cargo(conn[l])

LoadedOnly ==
    \A l \in Link : \A m \in Cargo(conn[l]) :
        /\ m \notin Items(inbox[l[2]]) /\ m \notin Items(delivered[l[2]])
        /\ \A k \in Link : k[2] = l[2] /\ k # l => m \notin Cargo(conn[k])

PostedOnly == \A b \in Node : \A m \in Items(inbox[b]) : m \notin Items(delivered[b])

(* ... and in that place once.                                             *)
Single(c) ==
    /\ \A i, j \in 1..Len(c.stream) :
          c.stream[i] = c.stream[j] /\ c.stream[i][1] = "body" => i = j
    /\ c.reader = "post" => c.held \notin Loaded(c.stream)

Distinct ==
    /\ \A b \in Node : Injective(inbox[b]) /\ Injective(delivered[b])
    /\ \A l \in Link : Single(conn[l])

CopyInv == RoutedFirst /\ OneCarrier /\ OwedOnly /\ LoadedOnly /\ PostedOnly /\ Distinct

RelayInv ==
    /\ RelayTypeOK /\ CallsSound /\ StopOrdered
    /\ FrameInv
    /\ CopyInv
    /\ StreamFramed /\ NothingAfterStop

-----------------------------------------------------------------------------
(* Facts about the operators                                               *)

(* A nonempty set of nodes has a lowest one.  (A set without one would     *)
(* have a smallest nonempty subset without one, and taking a member from   *)
(* that would leave a smaller one.)                                        *)
LEMMA LowestIsMember ==
    ASSUME NEW S, S \subseteq Node, S # {}
    PROVE  Lowest(S) \in S
<1> DEFINE HasLowest(U) == \E p \in U : \A q \in U : p <= q
           T == {U \in SUBSET S : U # {} /\ ~HasLowest(U)}
<1>1. S \subseteq Int /\ IsFiniteSet(S)
  BY RelayAssumption, FS_Subset
<1>2. T = {}
  <2> SUFFICES ASSUME T # {} PROVE FALSE
    OBVIOUS
  <2>1. T \subseteq FiniteSubsetsOf(S)
    BY <1>1, FS_FiniteSubsetsOfFinite
  <2>2. PICK U \in T : \A V \in T : ~(<<V, U>> \in StrictSubsetOrdering(S))
    <3> HIDE DEF T
    <3> QED BY <2>1, FS_StrictSubsetOrderingWellFounded, WFMin
  <2>3. PICK x \in U : TRUE
    OBVIOUS
  <2>4. PICK y \in U : ~(x <= y)
    BY <2>3
  <2> DEFINE V == U \ {x}
  <2>5. V \in SUBSET S /\ V # {} /\ <<V, U>> \in StrictSubsetOrdering(S)
    <3>1. y # x
      BY <1>1, <2>3, <2>4
    <3> QED BY <2>3, <2>4, <3>1 DEF StrictSubsetOrdering
  <2>6. PICK p \in V : \A q \in V : p <= q
    BY <2>2, <2>5
  <2>7. PICK q \in U : ~(p <= q)
    BY <2>6
  <2>8. q = x /\ y \in V /\ p <= y
    BY <1>1, <2>3, <2>4, <2>6, <2>7
  <2> QED BY <1>1, <2>3, <2>4, <2>6, <2>7, <2>8
<1>3. \E p \in S : \A q \in S : p <= q
  BY <1>2
<1> QED BY <1>3 DEF Lowest

(* The target of a thread that sends is one of its peers.                  *)
LEMMA TargetIsPeer ==
    ASSUME RelayTypeOK, CallsSound, NEW n \in Node, NEW t \in Thread, Sending(n, t)
    PROVE  /\ Target(n, t) \in call[n][t].todo /\ Target(n, t) \in Node
           /\ Target(n, t) # n /\ Peer(n, t) \in Pair
           /\ Writing(n, t) => Wire(n, t) \in Link
<1>1. call[n][t].todo # {} /\ call[n][t].todo \subseteq Node \ {n}
  BY DEF CallsSound, Peers
<1>2. Target(n, t) \in call[n][t].todo
  BY <1>1, LowestIsMember DEF Target
<1>3. Target(n, t) \in Node /\ Target(n, t) # n /\ Peer(n, t) \in Pair
  BY <1>1, <1>2 DEF Peer, Pair
<1>4. Writing(n, t) => Wire(n, t) \in Link
  <2> SUFFICES ASSUME Writing(n, t) PROVE Wire(n, t) \in Link
    OBVIOUS
  <2>1. dials[Peer(n, t)] \in 0..MaxDials /\ call[n][t].via \in 1..dials[Peer(n, t)]
    BY <1>3 DEF RelayTypeOK, CallsSound
  <2>2. call[n][t].via \in 1..MaxDials
    BY <2>1, RelayAssumption
  <2>3. Wire(n, t) = <<Peer(n, t)[1], Peer(n, t)[2], call[n][t].via>>
    BY DEF Wire, Peer
  <2> QED BY <1>3, <2>2, <2>3 DEF Link
<1> QED BY <1>2, <1>3, <1>4

(* A connection joins two nodes.                                           *)
LEMMA LinkFacts ==
    ASSUME NEW l \in Link
    PROVE  /\ l[1] \in Node /\ l[2] \in Node /\ l[1] # l[2] /\ <<l[1], l[2]>> \in Pair
           /\ l[3] \in 1..MaxDials /\ l = <<l[1], l[2], l[3]>>
<1>1. PICK p \in Pair, i \in 1..MaxDials : l = <<p[1], p[2], i>>
  BY DEF Link
<1>2. p[1] \in Node /\ p[2] \in Node /\ p[1] # p[2] /\ p = <<p[1], p[2]>>
  BY DEF Pair
<1>3. l[1] = p[1] /\ l[2] = p[2] /\ l[3] = i
  BY <1>1
<1> QED BY <1>1, <1>2, <1>3

(* What an assignment to one thread's record leaves alone.                 *)
LEMMA CallUpdate ==
    ASSUME RelayTypeOK, NEW n \in Node, NEW t \in Thread, NEW c,
           call' = [call EXCEPT ![n][t] = c]
    PROVE  /\ \A a \in Node, u \in Thread :
                  call'[a][u] = IF a = n /\ u = t THEN c ELSE call[a][u]
           /\ c \in Call => call' \in [Node -> [Thread -> Call]]
BY DEF RelayTypeOK

LEMMA GotoUpdate ==
    ASSUME RelayTypeOK, NEW n \in Node, NEW t \in Thread, NEW pc \in CallPc, Goto(n, t, pc)
    PROVE  /\ call' = [call EXCEPT ![n][t] = [call[n][t] EXCEPT !.pc = pc]]
           /\ [call[n][t] EXCEPT !.pc = pc] \in Call
<1>1. call' = [call EXCEPT ![n][t] = [call[n][t] EXCEPT !.pc = pc]]
  BY DEF Goto
<1>2. call[n][t] \in Call
  BY DEF RelayTypeOK
<1>3. [call[n][t] EXCEPT !.pc = pc] \in Call
  BY <1>2 DEF Call
<1> QED BY <1>1, <1>3

(* ... and to one connection.                                              *)
LEMMA ConnUpdate ==
    ASSUME RelayTypeOK, NEW l \in Link, NEW c, conn' = [conn EXCEPT ![l] = c]
    PROVE  /\ \A k \in Link : conn'[k] = IF k = l THEN c ELSE conn[k]
           /\ c \in Conn => conn' \in [Link -> Conn]
BY DEF RelayTypeOK

(* After a peer has been dealt with, the thread turns to the next or is    *)
(* done.                                                                   *)
LEMMA SentUpdate ==
    ASSUME RelayTypeOK, CallsSound, NEW n \in Node, NEW t \in Thread, Sending(n, t), Sent(n, t)
    PROVE  \E c \in Call :
              /\ call' = [call EXCEPT ![n][t] = c]
              /\ \/ c = Idle
                 \/ /\ c.pc = "send" /\ c.m = call[n][t].m /\ c.via = 0
                    /\ c.todo = call[n][t].todo \ {Target(n, t)} /\ c.todo # {}
<1> DEFINE rest == call[n][t].todo \ {Target(n, t)}
<1>1. call[n][t] \in Call
  BY DEF RelayTypeOK
<1>2. CASE rest = {}
  <2>1. call' = [call EXCEPT ![n][t] = Idle]
    BY <1>2 DEF Sent, Done
  <2>2. Idle \in Call
    BY RelayAssumption DEF Idle, Call, CallPc
  <2> QED BY <2>1, <2>2
<1>3. CASE rest # {}
  <2> DEFINE c == [call[n][t] EXCEPT !.pc = "send", !.todo = rest, !.via = 0]
  <2>1. call' = [call EXCEPT ![n][t] = c]
    BY <1>3 DEF Sent
  <2>2. c \in Call
    <3>1. rest \in SUBSET Node /\ 0 \in 0..MaxDials
      BY <1>1, RelayAssumption DEF Call
    <3> HIDE DEF rest
    <3> QED BY <1>1, <3>1 DEF Call, CallPc
  <2>3. c.pc = "send" /\ c.m = call[n][t].m /\ c.via = 0 /\ c.todo = rest
    BY <1>1 DEF Call
  <2> QED BY <1>3, <2>1, <2>2, <2>3
<1> QED BY <1>2, <1>3

(* What a thread's record must satisfy for CallsSound.                     *)
SoundFor(n, c, given, dialed) ==
    /\ c.pc = "idle" => c = Idle
    /\ c.pc # "idle" => c.m \in Message /\ given[c.m] = n
    /\ c.pc \in {"send", "length", "body"} => c.todo # {} /\ c.todo \subseteq Peers(n)
    /\ c.pc \in {"length", "body"} => c.via \in 1..dialed[<<n, Lowest(c.todo)>>]

LEMMA CallsSoundIs ==
    CallsSound <=> \A n \in Node, t \in Thread : SoundFor(n, call[n][t], origin, dials)
BY DEF CallsSound, SoundFor, Sending, Writing, Peer, Target

LEMMA CallsSoundAfter ==
    CallsSound' <=> \A n \in Node, t \in Thread : SoundFor(n, call'[n][t], origin', dials')
BY DEF CallsSound, SoundFor, Sending, Writing, Peer, Target

(* Publishing another message and dialling again leave a record sound.     *)
LEMMA SoundForGrows ==
    ASSUME RelayTypeOK, NEW n \in Node, NEW c, SoundFor(n, c, origin, dials),
           \A m \in Message : origin[m] # None => origin'[m] = origin[m],
           \A p \in Pair : dials'[p] \in Nat /\ dials[p] <= dials'[p]
    PROVE  SoundFor(n, c, origin', dials')
<1>1. c.pc # "idle" => origin'[c.m] = n
  BY RelayAssumption DEF SoundFor
<1>2. c.pc \in {"length", "body"} => c.via \in 1..dials'[<<n, Lowest(c.todo)>>]
  <2> SUFFICES ASSUME c.pc \in {"length", "body"}
               PROVE  c.via \in 1..dials'[<<n, Lowest(c.todo)>>]
    OBVIOUS
  <2>1. Lowest(c.todo) \in Node \ {n}
    BY LowestIsMember DEF SoundFor, Peers
  <2>2. <<n, Lowest(c.todo)>> \in Pair
    BY <2>1 DEF Pair
  <2> QED BY <2>2 DEF SoundFor, RelayTypeOK
<1> QED BY <1>1, <1>2 DEF SoundFor

LEMMA CallsSoundKept ==
    ASSUME RelayTypeOK, CallsSound,
           \A m \in Message : origin[m] # None => origin'[m] = origin[m],
           \A p \in Pair : dials'[p] \in Nat /\ dials[p] <= dials'[p],
           NEW n \in Node, NEW t \in Thread, NEW c, SoundFor(n, c, origin', dials'),
           call' = [call EXCEPT ![n][t] = c] \/ call' = call
    PROVE  CallsSound'
<1>1. ASSUME NEW a \in Node, NEW u \in Thread PROVE SoundFor(a, call[a][u], origin', dials')
  BY CallsSoundIs, SoundForGrows
<1>2. CASE call' = [call EXCEPT ![n][t] = c]
  BY <1>1, <1>2, CallUpdate, CallsSoundAfter
<1>3. CASE call' = call
  BY <1>1, <1>3, CallsSoundAfter
<1> QED BY <1>2, <1>3

-----------------------------------------------------------------------------
(* Types and threads                                                       *)

LEMMA IdleIsCall == Idle \in Call /\ Unused \in Conn
<1>1. Idle \in Call
  BY RelayAssumption DEF Idle, Call, CallPc
<1>2. << >> \in Seq(Piece)
  OBVIOUS
<1> QED BY <1>1, <1>2 DEF Unused, Conn

LEMMA InitTyped == Init => RelayTypeOK /\ CallsSound
<1> SUFFICES ASSUME Init PROVE RelayTypeOK /\ CallsSound
  OBVIOUS
<1>1. 0 \in 0..MaxDials
  BY RelayAssumption
<1>2. call \in [Node -> [Thread -> Call]] /\ conn \in [Link -> Conn]
  BY IdleIsCall DEF Init
<1>3. inbox \in [Node -> Seq(Message)] /\ delivered \in [Node -> Seq(Message)]
  BY DEF Init
<1>4. RelayTypeOK
  <2>1. \A l \in Link : conn[l].reader = "none"
    BY DEF Init, Unused
  <2>2. fd \in [Pair -> 0..MaxDials] /\ dials \in [Pair -> 0..MaxDials]
    BY <1>1 DEF Init
  <2>3. \A p \in Pair : fd[p] <= dials[p]
    BY DEF Init
  <2> QED BY <1>2, <1>3, <2>1, <2>2, <2>3 DEF Init, RelayTypeOK, Stage
<1>5. \A n \in Node, t \in Thread : call[n][t] = Idle /\ Idle.pc = "idle"
  BY DEF Init, Idle
<1>6. CallsSound
  BY <1>5 DEF CallsSound, Sending, Writing
<1> QED BY <1>4, <1>6

(* The steps of the thread that starts and stops a node touch no session   *)
(* thread.                                                                 *)
HostStep(n) ==
    \/ Start(n) \/ StopBroker(n) \/ AbandonCluster(n) \/ Defang(n) \/ StopTransport(n)
    \/ JoinReaders(n) \/ StopEngine(n)

LEMMA NextIs ==
    Next <=>
        \/ \E n \in Node : HostStep(n) \/ Handle(n)
        \/ \E n \in Node, t \in Thread : Deliver(n, t) \/ \E m \in Message : Publish(n, t, m)
        \/ \E l \in Link : Receive(l) \/ Break(l)
        \/ \E n \in Node, m \in Message : SettleOwed(n, m)
BY DEF Next, HostStep, StopCluster

(* A hand-off worker or a posted batch touches nothing of the relay.       *)
LEMMA StepIs ==
    [Next]_vars =>
        \/ \E n \in Node : HostStep(n) \/ Handle(n)
        \/ \E n \in Node, t \in Thread : Deliver(n, t) \/ \E m \in Message : Publish(n, t, m)
        \/ \E l \in Link : Receive(l) \/ Break(l)
        \/ UNCHANGED relayed
BY NextIs DEF vars, SettleOwed

LEMMA HostTyped ==
    ASSUME RelayTypeOK, CallsSound, NEW n \in Node, HostStep(n)
    PROVE  RelayTypeOK' /\ CallsSound'
<1>1. UNCHANGED <<call, origin, dials, sendLock, delivered>>
  BY DEF HostStep, Start, StartBroker, StartEngine, StartTransport, StartTransportFails,
         SetForwarder, StopBroker, AbandonCluster, Defang, StopTransport, JoinReaders,
         StopEngine, wire
<1>2. CallsSound'
  BY <1>1, CallsSoundIs, CallsSoundAfter
<1>3. stage' \in [Node -> Stage]
  <2>1. \E to \in Stage : stage' = [stage EXCEPT ![n] = to]
    BY DEF HostStep, Start, StartBroker, StartEngine, StartTransport, StartTransportFails,
           SetForwarder, StopBroker, AbandonCluster, Defang, StopTransport, JoinReaders,
           StopEngine, Move, Stage
  <2> QED BY <2>1 DEF RelayTypeOK
<1>4. /\ forwarder' \in [Node -> {"null", "half", "whole"}]
      /\ engine' \in [Node -> {"none", "running", "destroyed"}]
      /\ running' \in [Node -> BOOLEAN]
  BY DEF HostStep, Start, StartBroker, StartEngine, StartTransport, StartTransportFails,
         SetForwarder, StopBroker, AbandonCluster, Defang, StopTransport, JoinReaders,
         StopEngine, RelayTypeOK
<1>5. inbox' \in [Node -> Seq(Message)]
  <2>1. << >> \in Seq(Message)
    OBVIOUS
  <2>2. inbox' = inbox \/ inbox' = [inbox EXCEPT ![n] = << >>]
    BY DEF HostStep, Start, StartBroker, StartEngine, StartTransport, StartTransportFails,
           SetForwarder, StopBroker, AbandonCluster, Defang, StopTransport, JoinReaders,
           StopEngine
  <2> QED BY <2>1, <2>2 DEF RelayTypeOK
<1>6. /\ fd' \in [Pair -> 0..MaxDials] /\ conn' \in [Link -> Conn]
      /\ \A p \in Pair : fd'[p] <= dials'[p]
      /\ \A l \in Link : conn'[l].reader \in {"body", "post"} => conn'[l].held \in Message
  <2>1. CASE JoinReaders(n)
    <3>1. \A l \in Link : [conn[l] EXCEPT !.open = FALSE] \in Conn
      BY DEF RelayTypeOK, Conn
    <3>2. conn' \in [Link -> Conn]
      BY <2>1, <3>1 DEF JoinReaders, RelayTypeOK
    <3>3. fd' \in [Pair -> 0..MaxDials] /\ \A p \in Pair : fd'[p] <= dials'[p]
      BY <2>1, RelayAssumption DEF JoinReaders, RelayTypeOK
    <3>4. \A l \in Link : conn'[l].reader = conn[l].reader /\ conn'[l].held = conn[l].held
      BY <2>1 DEF JoinReaders, RelayTypeOK, Conn
    <3> QED BY <3>2, <3>3, <3>4 DEF RelayTypeOK
  <2>2. CASE UNCHANGED <<fd, conn>>
    BY <1>1, <2>2 DEF RelayTypeOK
  <2> QED BY <2>1, <2>2 DEF HostStep, Start, StartBroker, StartEngine, StartTransport,
             StartTransportFails, SetForwarder, StopBroker, AbandonCluster, Defang,
             StopTransport, StopEngine, wire
<1> QED BY <1>1, <1>2, <1>3, <1>4, <1>5, <1>6 DEF RelayTypeOK

LEMMA ReceiveTyped ==
    ASSUME RelayTypeOK, CallsSound, NEW l \in Link, Receive(l) \/ Break(l)
    PROVE  RelayTypeOK' /\ CallsSound'
<1>1. UNCHANGED <<host, call, origin, dials, fd, sendLock, delivered>>
  BY DEF Receive, Accept, Read, Post, ReaderEnds, Break
<1>2. CallsSound'
  BY <1>1, CallsSoundIs, CallsSoundAfter
<1>3. conn[l] \in Conn /\ l[2] \in Node
  BY LinkFacts DEF RelayTypeOK
<1>4. \E c \in Conn : /\ conn' = [conn EXCEPT ![l] = c]
                      /\ c.reader \in {"body", "post"} => c.held \in Message
  <2>1. CASE Accept(l)
    <3>1. [conn[l] EXCEPT !.reader = "length"] \in Conn
      BY <1>3 DEF Conn
    <3> QED BY <1>3, <2>1, <3>1 DEF Accept, Conn
  <2>2. CASE Break(l)
    <3> DEFINE c == [conn[l] EXCEPT !.open = FALSE]
    <3>1. c \in Conn /\ c.reader = conn[l].reader /\ c.held = conn[l].held
      BY <1>3 DEF Conn
    <3>2. conn' = [conn EXCEPT ![l] = c]
      BY <2>2 DEF Break
    <3> QED BY <3>1, <3>2 DEF RelayTypeOK
  <2>3. CASE Post(l)
    <3>1. [conn[l] EXCEPT !.reader = "length", !.held = None] \in Conn
      BY <1>3 DEF Conn
    <3> QED BY <1>3, <2>3, <3>1 DEF Post, Conn
  <2>4. CASE ReaderEnds(l)
    <3>1. [Unused EXCEPT !.reader = "gone"] \in Conn
      BY IdleIsCall DEF Conn
    <3> QED BY <2>4, <3>1, IdleIsCall DEF ReaderEnds, Conn
  <2>5. CASE Read(l)
    <3>1. conn[l].stream \in Seq(Piece) /\ conn[l].stream # << >>
      BY <1>3, <2>5 DEF Conn, Read
    <3>2. Tail(conn[l].stream) \in Seq(Piece) /\ Head(conn[l].stream)[2] \in Message
      BY <3>1 DEF Piece
    <3> DEFINE c == [conn[l] EXCEPT
                        !.stream = Tail(conn[l].stream), !.held = Head(conn[l].stream)[2],
                        !.reader = IF conn[l].reader = "length" THEN "body" ELSE "post"]
    <3>3. c \in Conn /\ c.held = Head(conn[l].stream)[2]
      BY <1>3, <3>2 DEF Conn
    <3>4. conn' = [conn EXCEPT ![l] = c]
      BY <2>5 DEF Read
    <3> QED BY <3>2, <3>3, <3>4
  <2> QED BY <2>1, <2>2, <2>3, <2>4, <2>5 DEF Receive
<1>5. inbox' \in [Node -> Seq(Message)]
  <2>1. CASE UNCHANGED inbox
    BY <2>1 DEF RelayTypeOK
  <2>2. CASE inbox' = [inbox EXCEPT ![l[2]] = Append(@, conn[l].held)] /\ Post(l)
    <3>1. conn[l].held \in Message
      BY <2>2 DEF RelayTypeOK, Post
    <3>2. Append(inbox[l[2]], conn[l].held) \in Seq(Message)
      BY <1>3, <3>1 DEF RelayTypeOK
    <3> QED BY <2>2, <3>2 DEF RelayTypeOK
  <2> QED BY <2>1, <2>2 DEF Receive, Accept, Read, Post, ReaderEnds, Break
<1> QED BY <1>1, <1>2, <1>4, <1>5, ConnUpdate DEF RelayTypeOK, host

LEMMA HandleTyped ==
    ASSUME RelayTypeOK, CallsSound, NEW n \in Node, Handle(n)
    PROVE  RelayTypeOK' /\ CallsSound'
<1>1. UNCHANGED <<host, wire, call, origin>>
  BY DEF Handle
<1>2. CallsSound'
  BY <1>1, CallsSoundIs, CallsSoundAfter DEF wire
<1>3. inbox[n] \in Seq(Message) /\ inbox[n] # << >> /\ delivered[n] \in Seq(Message)
  BY DEF Handle, RelayTypeOK
<1>4. Tail(inbox[n]) \in Seq(Message) /\ Append(delivered[n], Head(inbox[n])) \in Seq(Message)
  BY <1>3
<1>5. inbox' \in [Node -> Seq(Message)] /\ delivered' \in [Node -> Seq(Message)]
  BY <1>4 DEF Handle, DeliverRemote, RelayTypeOK
<1> QED BY <1>1, <1>2, <1>5 DEF RelayTypeOK, host, wire

(* What a step of a session thread makes of its record.                    *)
Same(c, d) == c.m = d.m /\ c.todo = d.todo

Becomes(n, t, c) ==
    \/ c = Idle
    \/ \E m \in Message : Publish(n, t, m) /\ c.pc = "route" /\ c.m = m /\ c.todo = {}
    \/ Route(n, t) /\ c.pc = "check" /\ Same(c, call[n][t])
    \/ CheckForwarder(n, t) /\ c.pc = "call" /\ forwarder[n] # "null" /\ Same(c, call[n][t])
    \/ CallForwarder(n, t) /\ c.pc = "send" /\ c.m = call[n][t].m /\ c.todo = Peers(n)
    \/ EnsurePeer(n, t) /\ c.pc = "length" /\ Same(c, call[n][t])
    \/ Write(n, t, "length") /\ c.pc = "body" /\ Same(c, call[n][t]) /\ c.via = call[n][t].via
    \/ /\ DialFails(n, t) \/ WriteFails(n, t) \/ Write(n, t, "body")
       /\ c.pc = "send" /\ c.m = call[n][t].m /\ c.todo = call[n][t].todo \ {Target(n, t)}

LEMMA DeliverUpdate ==
    ASSUME RelayTypeOK, CallsSound, NEW n \in Node, NEW t \in Thread,
           Deliver(n, t) \/ \E m \in Message : Publish(n, t, m)
    PROVE  \E c \in Call : /\ call' = [call EXCEPT ![n][t] = c]
                          /\ SoundFor(n, c, origin', dials')
                          /\ Becomes(n, t, c)
<1>1. call[n][t] \in Call /\ SoundFor(n, call[n][t], origin, dials)
  BY CallsSoundIs DEF RelayTypeOK
<1>2. SoundFor(n, Idle, origin', dials') /\ Becomes(n, t, Idle)
  BY DEF SoundFor, Idle, Becomes
<1>3. ASSUME NEW m \in Message, Publish(n, t, m)
      PROVE  \E c \in Call : /\ call' = [call EXCEPT ![n][t] = c]
                            /\ SoundFor(n, c, origin', dials') /\ Becomes(n, t, c)
  <2> DEFINE c == [Idle EXCEPT !.pc = "route", !.m = m]
  <2>1. c \in Call /\ c.pc = "route" /\ c.m = m /\ c.todo = {}
    BY IdleIsCall DEF Idle, Call, CallPc
  <2>2. origin'[m] = n
    BY <1>3 DEF Publish, RelayTypeOK
  <2>3. SoundFor(n, c, origin', dials')
    BY <2>1, <2>2 DEF SoundFor
  <2>4. Becomes(n, t, c)
    BY <1>3, <2>1 DEF Becomes
  <2> QED BY <1>3, <2>1, <2>3, <2>4 DEF Publish
<1>4. ASSUME NEW pc \in {"check", "call"}, Goto(n, t, pc), call[n][t].pc \in {"route", "check"},
             UNCHANGED <<origin, dials>>,
             IF pc = "check" THEN Route(n, t) ELSE CheckForwarder(n, t) /\ forwarder[n] # "null"
      PROVE  \E c \in Call : /\ call' = [call EXCEPT ![n][t] = c]
                            /\ SoundFor(n, c, origin', dials') /\ Becomes(n, t, c)
  <2> DEFINE c == [call[n][t] EXCEPT !.pc = pc]
  <2> pc \in CallPc
    BY DEF CallPc
  <2>1. c \in Call /\ call' = [call EXCEPT ![n][t] = c]
    BY <1>4, GotoUpdate
  <2>2. c.pc = pc /\ c.m = call[n][t].m /\ c.todo = call[n][t].todo
    BY <1>1 DEF Call
  <2>3. SoundFor(n, c, origin', dials')
    BY <1>1, <1>4, <2>2 DEF SoundFor
  <2>4. Becomes(n, t, c)
    BY <1>4, <2>2 DEF Becomes, Same
  <2> QED BY <2>1, <2>3, <2>4
<1>5. CASE Route(n, t)
  BY <1>4, <1>5 DEF Route, At, wire
<1>6. CASE CheckForwarder(n, t)
  <2>1. CASE forwarder[n] = "null"
    BY <1>2, <1>6, <2>1, IdleIsCall DEF CheckForwarder, Done
  <2>2. CASE forwarder[n] # "null"
    BY <1>4, <1>6, <2>2 DEF CheckForwarder, At, wire
  <2> QED BY <2>1, <2>2
<1>7. CASE CallForwarder(n, t)
  <2>1. CASE forwarder[n] # "whole"
    BY <1>2, <1>7, <2>1, IdleIsCall DEF CallForwarder, Done
  <2>2. CASE forwarder[n] = "whole"
    <3> DEFINE c == [call[n][t] EXCEPT !.pc = "send", !.todo = Peers(n)]
    <3>1. Peers(n) \in SUBSET Node /\ Peers(n) # {}
      BY RelayAssumption DEF Peers
    <3>2. c \in Call /\ c.pc = "send" /\ c.m = call[n][t].m /\ c.todo = Peers(n)
      BY <1>1, <3>1 DEF Call, CallPc
    <3>3. call' = [call EXCEPT ![n][t] = c]
      BY <1>7, <2>2 DEF CallForwarder
    <3>4. SoundFor(n, c, origin', dials')
      BY <1>1, <1>7, <3>1, <3>2 DEF SoundFor, CallForwarder, At
    <3>5. Becomes(n, t, c)
      BY <1>7, <3>2 DEF Becomes
    <3> QED BY <3>2, <3>3, <3>4, <3>5
  <2> QED BY <2>1, <2>2
<1>8. CASE EnsurePeer(n, t)
  <2> DEFINE p == Peer(n, t)
  <2>1. p \in Pair /\ Sending(n, t) /\ call[n][t].pc = "send"
    BY <1>8, TargetIsPeer DEF Sending, EnsurePeer, At
  <2>2. /\ dials[p] \in 0..MaxDials /\ fd[p] \in 0..MaxDials /\ fd[p] <= dials[p]
        /\ p = <<n, Lowest(call[n][t].todo)>>
    BY <2>1 DEF RelayTypeOK, Peer, Target
  <2>3. ASSUME NEW i \in 1..MaxDials, Using(n, t, i), i <= dials'[p], dials'[p] \in Nat,
               origin' = origin
        PROVE  \E c \in Call : /\ call' = [call EXCEPT ![n][t] = c]
                            /\ SoundFor(n, c, origin', dials') /\ Becomes(n, t, c)
    <3> DEFINE c == [call[n][t] EXCEPT !.pc = "length", !.via = i]
    <3>1. call' = [call EXCEPT ![n][t] = c]
      BY <2>3 DEF Using
    <3>2. /\ c \in Call /\ c.pc = "length" /\ c.via = i /\ c.m = call[n][t].m
          /\ c.todo = call[n][t].todo
      <4>1. i \in 0..MaxDials
        BY RelayAssumption
      <4> QED BY <1>1, <4>1 DEF Call, CallPc
    <3>3. SoundFor(n, c, origin', dials')
      BY <1>1, <2>1, <2>2, <2>3, <3>2, RelayAssumption DEF SoundFor
    <3>4. Becomes(n, t, c)
      BY <1>8, <3>2 DEF Becomes, Same
    <3> QED BY <3>1, <3>2, <3>3, <3>4
  <2>4. CASE fd[p] # 0
    BY <1>8, <2>2, <2>3, <2>4, RelayAssumption DEF EnsurePeer
  <2>5. CASE fd[p] = 0
    <3>1. /\ dials' = [dials EXCEPT ![p] = dials[p] + 1] /\ dials[p] < MaxDials
          /\ Using(n, t, dials[p] + 1) /\ origin' = origin
      BY <1>8, <2>5 DEF EnsurePeer
    <3>2. dials'[p] = dials[p] + 1
      BY <2>1, <3>1 DEF RelayTypeOK
    <3>3. dials[p] + 1 \in 1..MaxDials /\ dials[p] + 1 <= dials'[p] /\ dials'[p] \in Nat
      BY <2>2, <3>1, <3>2, RelayAssumption
    <3> HIDE DEF p
    <3> QED BY <2>3, <3>1, <3>3
  <2> QED BY <2>4, <2>5
<1>9. ASSUME Sending(n, t), Sent(n, t), UNCHANGED <<origin, dials>>,
             DialFails(n, t) \/ WriteFails(n, t) \/ Write(n, t, "body")
      PROVE  \E c \in Call : /\ call' = [call EXCEPT ![n][t] = c]
                            /\ SoundFor(n, c, origin', dials') /\ Becomes(n, t, c)
  <2>1. PICK c \in Call : /\ call' = [call EXCEPT ![n][t] = c]
                         /\ \/ c = Idle
                            \/ /\ c.pc = "send" /\ c.m = call[n][t].m /\ c.via = 0
                               /\ c.todo = call[n][t].todo \ {Target(n, t)} /\ c.todo # {}
    BY <1>9, SentUpdate
  <2>2. SoundFor(n, c, origin', dials')
    BY <1>1, <1>2, <1>9, <2>1 DEF SoundFor, Sending
  <2>3. Becomes(n, t, c)
    BY <1>9, <2>1 DEF Becomes
  <2> QED BY <2>1, <2>2, <2>3
<1>10. CASE DialFails(n, t)
  BY <1>9, <1>10 DEF DialFails, Sending, At, wire
<1>11. CASE WriteFails(n, t)
  BY <1>9, <1>11 DEF WriteFails, Sending
<1>12. CASE Write(n, t, "body")
  BY <1>9, <1>12 DEF Write, Sending, At
<1>13. CASE Write(n, t, "length")
  <2> DEFINE c == [call[n][t] EXCEPT !.pc = "body"]
  <2>1. c \in Call /\ call' = [call EXCEPT ![n][t] = c]
    BY <1>13, GotoUpdate DEF Write, CallPc
  <2>2. c.pc = "body" /\ c.m = call[n][t].m /\ c.todo = call[n][t].todo /\ c.via = call[n][t].via
    BY <1>1 DEF Call
  <2>3. SoundFor(n, c, origin', dials')
    BY <1>1, <1>13, <2>2 DEF SoundFor, Write, At
  <2>4. Becomes(n, t, c)
    BY <1>13, <2>2 DEF Becomes, Same
  <2> QED BY <2>1, <2>3, <2>4
<1> QED BY <1>3, <1>5, <1>6, <1>7, <1>8, <1>10, <1>11, <1>12, <1>13 DEF Deliver

(* write_all puts one piece at the end of one stream.                      *)
LEMMA WriteUpdate ==
    ASSUME RelayTypeOK, CallsSound, NEW n \in Node, NEW t \in Thread,
           NEW pc \in {"length", "body"}, Write(n, t, pc),
           NEW l, l = Wire(n, t), NEW s, s = Append(conn[l].stream, <<pc, call[n][t].m>>)
    PROVE  /\ l \in Link /\ call[n][t].pc = pc /\ call[n][t].m \in Message /\ conn[l].open
           /\ conn[l].stream \in Seq(Piece) /\ s \in Seq(Piece)
           /\ conn' \in [Link -> Conn]
           /\ \A k \in Link : k # l => conn'[k] = conn[k]
           /\ conn'[l].stream = s /\ conn'[l].open = conn[l].open
           /\ conn'[l].reader = conn[l].reader /\ conn'[l].held = conn[l].held
<1> DEFINE c == [conn[l] EXCEPT !.stream = s]
<1>1. Sending(n, t) /\ Writing(n, t) /\ call[n][t].pc = pc /\ conn[l].open
  BY DEF Write, At, Sending, Writing
<1>2. l \in Link /\ call[n][t].m \in Message
  BY <1>1, TargetIsPeer DEF CallsSound, Writing
<1>3. conn[l] \in Conn /\ conn[l].stream \in Seq(Piece)
  BY <1>2 DEF RelayTypeOK, Conn
<1>4. <<pc, call[n][t].m>> \in Piece
  BY <1>2 DEF Piece
<1>5. s \in Seq(Piece)
  BY <1>3, <1>4
<1>6. Frame(call[n][t].m)[pc] = <<pc, call[n][t].m>>
  BY DEF Frame
<1>7. conn' = [conn EXCEPT ![l] = c]
  BY <1>6 DEF Write
<1>8. /\ c \in Conn /\ c.stream = s /\ c.open = conn[l].open
      /\ c.reader = conn[l].reader /\ c.held = conn[l].held
  BY <1>3, <1>5 DEF Conn
<1>9. /\ \A k \in Link : conn'[k] = IF k = l THEN c ELSE conn[k]
      /\ conn' \in [Link -> Conn]
  BY <1>2, <1>7, <1>8, ConnUpdate
<1> QED BY <1>1, <1>2, <1>3, <1>5, <1>7, <1>8, <1>9

(* A dial makes the next connection to the peer.                           *)
LEMMA DialUpdate ==
    ASSUME RelayTypeOK, CallsSound, NEW n \in Node, NEW t \in Thread, EnsurePeer(n, t),
           fd[Peer(n, t)] = 0
    PROVE  \E p \in Pair : \E l \in Link :
             /\ p = Peer(n, t) /\ l = <<p[1], p[2], dials[p] + 1>> /\ dials[p] \in Nat
             /\ dials' = [dials EXCEPT ![p] = dials[p] + 1] /\ dials' \in [Pair -> 0..MaxDials]
             /\ fd' = [fd EXCEPT ![p] = dials[p] + 1]
             /\ conn' \in [Link -> Conn]
             /\ \A k \in Link : k # l => conn'[k] = conn[k]
             /\ conn'[l].stream = conn[l].stream /\ conn'[l].open
             /\ conn'[l].reader = conn[l].reader /\ conn'[l].held = conn[l].held
<1>0. PICK p, l : p = Peer(n, t) /\ l = <<p[1], p[2], dials[p] + 1>>
  OBVIOUS
<1> DEFINE c == [conn[l] EXCEPT !.open = TRUE]
<1>1. p \in Pair
  BY <1>0, TargetIsPeer DEF EnsurePeer, At, Sending
<1>2. dials[p] \in 0..MaxDials /\ dials[p] < MaxDials
  BY <1>0, <1>1 DEF EnsurePeer, RelayTypeOK
<1>3. dials[p] + 1 \in 1..MaxDials
  BY <1>2, RelayAssumption
<1>4. l \in Link
  BY <1>0, <1>1, <1>3 DEF Link
<1>5. /\ conn' = [conn EXCEPT ![l] = c]
      /\ dials' = [dials EXCEPT ![p] = dials[p] + 1]
      /\ fd' = [fd EXCEPT ![p] = dials[p] + 1]
  BY <1>0 DEF EnsurePeer
<1>6. dials' \in [Pair -> 0..MaxDials] /\ dials[p] \in Nat
  BY <1>1, <1>2, <1>3, <1>5, RelayAssumption DEF RelayTypeOK
<1>7. conn[l] \in Conn
  BY <1>4 DEF RelayTypeOK
<1>8. /\ c \in Conn /\ c.stream = conn[l].stream /\ c.open = TRUE
      /\ c.reader = conn[l].reader /\ c.held = conn[l].held
  BY <1>7 DEF Conn
<1>9. /\ \A k \in Link : conn'[k] = IF k = l THEN c ELSE conn[k]
      /\ conn' \in [Link -> Conn]
  BY <1>4, <1>5, <1>8, ConnUpdate
<1> HIDE DEF c
<1> QED BY <1>0, <1>1, <1>4, <1>5, <1>6, <1>8, <1>9

LEMMA DeliverTyped ==
    ASSUME RelayTypeOK, CallsSound, NEW n \in Node, NEW t \in Thread,
           Deliver(n, t) \/ \E m \in Message : Publish(n, t, m)
    PROVE  RelayTypeOK' /\ CallsSound'
<1>1. PICK c \in Call : call' = [call EXCEPT ![n][t] = c] /\ SoundFor(n, c, origin', dials')
  BY DeliverUpdate
<1>2. call' \in [Node -> [Thread -> Call]] /\ UNCHANGED <<host, inbox>>
  BY <1>1, CallUpdate
     DEF Deliver, Publish, Route, CheckForwarder, CallForwarder, EnsurePeer, DialFails, Write,
         WriteFails
<1>3. sendLock' \in [Node -> BOOLEAN]
  BY DEF Deliver, Publish, Route, CheckForwarder, CallForwarder, EnsurePeer, DialFails, Write,
         WriteFails, TakeLock, ReleaseLock, wire, RelayTypeOK
<1>4. /\ origin' \in [Message -> Node \cup {None}]
      /\ \A m \in Message : origin[m] # None => origin'[m] = origin[m]
  <2>1. CASE UNCHANGED origin
    BY <2>1 DEF RelayTypeOK
  <2>2. ASSUME NEW m \in Message, Publish(n, t, m)
        PROVE  /\ origin' \in [Message -> Node \cup {None}]
               /\ \A x \in Message : origin[x] # None => origin'[x] = origin[x]
    BY <2>2 DEF RelayTypeOK, Publish
  <2> QED BY <2>1, <2>2 DEF Deliver, Route, CheckForwarder, CallForwarder, EnsurePeer, DialFails,
             Write, WriteFails
<1>5. delivered' \in [Node -> Seq(Message)]
  <2>1. CASE UNCHANGED delivered
    BY <2>1 DEF RelayTypeOK
  <2>2. CASE Route(n, t)
    <3>1. Append(delivered[n], call[n][t].m) \in Seq(Message)
      BY <2>2 DEF Route, At, RelayTypeOK, CallsSound
    <3> QED BY <2>2, <3>1 DEF Route, RelayTypeOK
  <2> QED BY <2>1, <2>2 DEF Deliver, Publish, CheckForwarder, CallForwarder, EnsurePeer,
             DialFails, Write, WriteFails
<1>6. /\ dials' \in [Pair -> 0..MaxDials] /\ fd' \in [Pair -> 0..MaxDials]
      /\ \A p \in Pair : fd'[p] <= dials'[p] /\ dials'[p] \in Nat /\ dials[p] <= dials'[p]
      /\ conn' \in [Link -> Conn]
      /\ \A l \in Link : conn'[l].reader = conn[l].reader /\ conn'[l].held = conn[l].held
  <2>1. CASE UNCHANGED <<dials, fd, conn>>
    BY <2>1 DEF RelayTypeOK
  <2>2. CASE EnsurePeer(n, t) /\ fd[Peer(n, t)] = 0
    <3>1. PICK p \in Pair :
             /\ dials[p] \in Nat
             /\ dials' = [dials EXCEPT ![p] = dials[p] + 1] /\ dials' \in [Pair -> 0..MaxDials]
             /\ fd' = [fd EXCEPT ![p] = dials[p] + 1]
      BY <2>2, DialUpdate
    <3>2. /\ conn' \in [Link -> Conn]
          /\ \A l \in Link : conn'[l].reader = conn[l].reader /\ conn'[l].held = conn[l].held
      BY <2>2, DialUpdate
    <3>3. dials[p] + 1 \in 0..MaxDials
      BY <3>1 DEF RelayTypeOK
    <3>4. fd' \in [Pair -> 0..MaxDials]
      BY <3>1, <3>3 DEF RelayTypeOK
    <3>5. \A q \in Pair : fd'[q] <= dials'[q] /\ dials'[q] \in Nat /\ dials[q] <= dials'[q]
      BY <3>1 DEF RelayTypeOK
    <3> QED BY <3>1, <3>2, <3>4, <3>5
  <2>3. ASSUME NEW pc \in {"length", "body"}, Write(n, t, pc)
        PROVE  /\ UNCHANGED <<dials, fd>> /\ conn' \in [Link -> Conn]
               /\ \A l \in Link : conn'[l].reader = conn[l].reader /\ conn'[l].held = conn[l].held
    BY <2>3, WriteUpdate DEF Write
  <2>4. CASE WriteFails(n, t)
    <3>1. fd' = [fd EXCEPT ![Peer(n, t)] = 0] /\ UNCHANGED <<dials, conn>>
      BY <2>4 DEF WriteFails
    <3>2. fd' \in [Pair -> 0..MaxDials] /\ \A p \in Pair : fd'[p] = fd[p] \/ fd'[p] = 0
      <4>1. 0 \in 0..MaxDials /\ fd \in [Pair -> 0..MaxDials]
        BY RelayAssumption DEF RelayTypeOK
      <4> QED BY <3>1, <4>1
    <3>3. \A p \in Pair : dials[p] \in Nat /\ fd[p] <= dials[p]
      BY DEF RelayTypeOK
    <3> QED BY <3>1, <3>2, <3>3 DEF RelayTypeOK
  <2>5. CASE Write(n, t, "length") \/ Write(n, t, "body")
    BY <2>3, <2>5 DEF RelayTypeOK
  <2> QED BY <2>1, <2>2, <2>4, <2>5 DEF Deliver, Publish, Route, CheckForwarder, CallForwarder,
             EnsurePeer, DialFails, wire
<1>7. CallsSound'
  BY <1>1, <1>4, <1>6, CallsSoundKept
<1> QED BY <1>2, <1>3, <1>4, <1>5, <1>6, <1>7 DEF RelayTypeOK, host

LEMMA NextTyped ==
    ASSUME RelayTypeOK, CallsSound, [Next]_vars
    PROVE  RelayTypeOK' /\ CallsSound'
<1>1. CASE UNCHANGED relayed
  <2>1. CallsSound'
    BY <1>1, CallsSoundIs, CallsSoundAfter DEF relayed, wire
  <2> QED BY <1>1, <2>1 DEF relayed, host, wire, RelayTypeOK
<1> QED BY <1>1, StepIs, HostTyped, HandleTyped, DeliverTyped, ReceiveTyped

-----------------------------------------------------------------------------
(* Start and stop                                                          *)

LEMMA HostOrdered ==
    ASSUME RelayTypeOK, StopOrdered, NothingAfterStop, NEW n \in Node, HostStep(n)
    PROVE  StopOrdered' /\ NothingAfterStop'
<1>1. fault' \subseteq fault \cup {"broker used after destruction"}
  BY DEF HostStep, Start, StartBroker, StartEngine, StartTransport, StartTransportFails,
         SetForwarder, StopBroker, AbandonCluster, Defang, StopTransport, JoinReaders,
         StopEngine
<1>2. NothingAfterStop'
  BY <1>1 DEF NothingAfterStop
<1>3. /\ call' = call /\ \A l \in Link : conn'[l].reader = conn[l].reader
      /\ \A a \in Node : a # n => /\ stage'[a] = stage[a] /\ running'[a] = running[a]
                                  /\ engine'[a] = engine[a] /\ forwarder'[a] = forwarder[a]
  <2>1. CASE JoinReaders(n)
    BY <2>1 DEF JoinReaders, RelayTypeOK, Conn, Move
  <2>2. CASE ~JoinReaders(n)
    BY <2>2 DEF HostStep, Start, StartBroker, StartEngine, StartTransport, StartTransportFails,
           SetForwarder, StopBroker, AbandonCluster, Defang, StopTransport, StopEngine, Move,
           RelayTypeOK, wire
  <2> QED BY <2>1, <2>2
<1>4. NodeOrdered(n)'
  <2>1. NodeOrdered(n)
    BY DEF StopOrdered
  <2>2. CASE Start(n)
    BY <2>1, <2>2 DEF NodeOrdered, Start, StartBroker, StartEngine, StartTransport,
           StartTransportFails, SetForwarder, Move, RelayTypeOK
  <2>3. CASE StopBroker(n)
    <3>1. stage[n] = "stopping" => \A t \in Thread : call[n][t].pc = "idle"
      BY <2>3 DEF StopBroker, Move, Idle
    <3> QED BY <2>1, <2>3, <3>1 DEF NodeOrdered, StopBroker, Move, RelayTypeOK
  <2>4. CASE AbandonCluster(n) \/ Defang(n) \/ StopTransport(n) \/ JoinReaders(n) \/ StopEngine(n)
    BY <2>1, <2>4 DEF NodeOrdered, AbandonCluster, Defang, StopTransport, JoinReaders, StopEngine,
           Move, RelayTypeOK
  <2> QED BY <2>2, <2>3, <2>4 DEF HostStep
<1>5. ASSUME NEW a \in Node, a # n PROVE NodeOrdered(a)'
  BY <1>3, <1>5 DEF StopOrdered, NodeOrdered
<1>6. ASSUME NEW l \in Link PROVE ReaderServed(l)'
  <2>1. CASE l[2] # n
    BY <1>3, <2>1, LinkFacts DEF StopOrdered, ReaderServed
  <2>2. CASE l[2] = n
    <3>1. CASE JoinReaders(n)
      BY <1>3, <2>2, <3>1 DEF JoinReaders, Joined, ReaderServed
    <3>2. CASE ~JoinReaders(n) /\ ~(running[n] \/ stage[n] = "joining")
      BY <1>3, <2>2, <3>2 DEF StopOrdered, ReaderServed
    <3>3. CASE ~JoinReaders(n) /\ (running[n] \/ stage[n] = "joining")
      <4>1. running'[n] \/ stage'[n] = "joining"
        BY <3>3 DEF StopOrdered, NodeOrdered, HostStep, Start, StartBroker, StartEngine,
               StartTransport, StartTransportFails, SetForwarder, StopBroker, AbandonCluster,
               Defang, StopTransport, StopEngine, Move, RelayTypeOK
      <4> QED BY <2>2, <4>1 DEF ReaderServed
    <3> QED BY <3>1, <3>2, <3>3
  <2> QED BY <2>1, <2>2
<1> QED BY <1>2, <1>4, <1>5, <1>6 DEF StopOrdered

LEMMA ThreadOrdered ==
    ASSUME RelayTypeOK, CallsSound, StopOrdered, NothingAfterStop,
           NEW n \in Node, NEW t \in Thread,
           Deliver(n, t) \/ \E m \in Message : Publish(n, t, m)
    PROVE  StopOrdered' /\ NothingAfterStop'
<1>1. PICK c \in Call : call' = [call EXCEPT ![n][t] = c] /\ Becomes(n, t, c)
  BY DeliverUpdate
<1>2. \A a \in Node, u \in Thread : call'[a][u] = IF a = n /\ u = t THEN c ELSE call[a][u]
  BY <1>1, CallUpdate
<1>3. UNCHANGED host
  BY DEF Deliver, Publish, Route, CheckForwarder, CallForwarder, EnsurePeer, DialFails, Write,
         WriteFails
<1>4. stage[n] \notin {"brokerless", "defanged", "joining", "quiet", "stopped"}
  BY DEF Deliver, Publish, Route, CheckForwarder, CallForwarder, EnsurePeer, DialFails, Write,
         WriteFails, At, Accepting, StopOrdered, NodeOrdered
<1>5. c.pc = "call" => forwarder[n] # "null"
  BY <1>1 DEF Becomes, Idle
<1>6. \A l \in Link : conn'[l].reader = conn[l].reader
  <2>1. CASE UNCHANGED conn
    BY <2>1
  <2>2. CASE Write(n, t, "length") \/ Write(n, t, "body")
    <3>1. PICK pc \in {"length", "body"} : Write(n, t, pc)
      BY <2>2
    <3> QED BY <3>1, WriteUpdate
  <2>3. CASE EnsurePeer(n, t) /\ fd[Peer(n, t)] = 0
    BY <2>3, DialUpdate
  <2> QED BY <2>1, <2>2, <2>3 DEF Deliver, Publish, Route, CheckForwarder, CallForwarder,
             EnsurePeer, DialFails, WriteFails, wire
<1>7. StopOrdered'
  <2>1. ASSUME NEW a \in Node PROVE NodeOrdered(a)'
    BY <1>2, <1>3, <1>4, <1>5 DEF StopOrdered, NodeOrdered, host
  <2>2. ASSUME NEW l \in Link PROVE ReaderServed(l)'
    BY <1>3, <1>6 DEF StopOrdered, ReaderServed, host
  <2> QED BY <2>1, <2>2 DEF StopOrdered
<1>8. NothingAfterStop'
  <2>1. CASE CallForwarder(n, t)
    <3>1. forwarder[n] \in {"half", "whole"}
      BY <2>1 DEF CallForwarder, At, StopOrdered, NodeOrdered, RelayTypeOK
    <3> QED BY <2>1, <3>1 DEF CallForwarder, NothingAfterStop
  <2>2. CASE UNCHANGED fault
    BY <2>2 DEF NothingAfterStop
  <2> QED BY <2>1, <2>2 DEF Deliver, Publish, Route, CheckForwarder, EnsurePeer, DialFails,
             Write, WriteFails
<1> QED BY <1>7, <1>8

LEMMA ReceiveOrdered ==
    ASSUME RelayTypeOK, StopOrdered, NothingAfterStop, NEW l \in Link, Receive(l) \/ Break(l)
    PROVE  StopOrdered' /\ NothingAfterStop'
<1>1. UNCHANGED <<host, call>>
  BY DEF Receive, Accept, Read, Post, ReaderEnds, Break
<1>2. \A k \in Link : k # l => conn'[k] = conn[k]
  BY DEF Receive, Accept, Read, Post, ReaderEnds, Break, RelayTypeOK
<1>3. conn'[l].reader \in {"length", "body", "post"} => running[l[2]] \/ stage[l[2]] = "joining"
  <2>1. CASE conn[l].reader \in {"length", "body", "post"}
    BY <2>1 DEF StopOrdered, ReaderServed
  <2>2. CASE Accept(l)
    BY <2>2 DEF Accept
  <2>3. CASE Break(l) /\ conn[l].reader \notin {"length", "body", "post"}
    BY <2>3 DEF Break, RelayTypeOK, Conn
  <2> QED BY <2>1, <2>2, <2>3 DEF Receive, Read, Post, ReaderEnds
<1>4. StopOrdered'
  <2>1. ASSUME NEW n \in Node PROVE NodeOrdered(n)'
    BY <1>1 DEF StopOrdered, NodeOrdered, host
  <2>2. ASSUME NEW k \in Link PROVE ReaderServed(k)'
    BY <1>1, <1>2, <1>3 DEF StopOrdered, ReaderServed, host
  <2> QED BY <2>1, <2>2 DEF StopOrdered
<1>5. NothingAfterStop'
  <2>1. CASE Post(l)
    <3>1. engine[l[2]] = "running"
      BY <2>1, LinkFacts DEF Post, StopOrdered, NodeOrdered, ReaderServed
    <3> QED BY <2>1, <3>1 DEF Post, NothingAfterStop
  <2>2. CASE Read(l)
    BY <2>2 DEF Read, NothingAfterStop
  <2>3. CASE UNCHANGED fault
    BY <2>3 DEF NothingAfterStop
  <2> QED BY <2>1, <2>2, <2>3 DEF Receive, Accept, ReaderEnds, Break
<1> QED BY <1>4, <1>5

LEMMA NextOrdered ==
    ASSUME RelayTypeOK, CallsSound, StopOrdered, NothingAfterStop, [Next]_vars
    PROVE  StopOrdered' /\ NothingAfterStop'
<1>1. CASE UNCHANGED <<host, call, conn, fault>>
  BY <1>1 DEF host, StopOrdered, NodeOrdered, ReaderServed, NothingAfterStop
<1>2. CASE \E n \in Node : Handle(n)
  BY <1>1, <1>2 DEF Handle, wire
<1>3. CASE UNCHANGED relayed
  BY <1>1, <1>3 DEF relayed, wire
<1> QED BY <1>2, <1>3, StepIs, HostOrdered, ThreadOrdered, ReceiveOrdered

-----------------------------------------------------------------------------
(* Streams                                                                 *)

(* The steps after which a session thread is not writing.                  *)
Apart(n, t) ==
    \/ Route(n, t) \/ CheckForwarder(n, t) \/ CallForwarder(n, t)
    \/ DialFails(n, t) \/ WriteFails(n, t) \/ Write(n, t, "body")
    \/ \E m \in Message : Publish(n, t, m)

LEMMA ApartUpdate ==
    ASSUME RelayTypeOK, CallsSound, NEW n \in Node, NEW t \in Thread, Apart(n, t)
    PROVE  \E c \in Call : /\ call' = [call EXCEPT ![n][t] = c]
                          /\ c.pc \notin {"length", "body"}
<1>1. call[n][t] \in Call /\ Idle \in Call /\ Idle.pc = "idle"
  BY IdleIsCall DEF RelayTypeOK, Idle
<1>2. CASE DialFails(n, t) \/ WriteFails(n, t) \/ Write(n, t, "body")
  <2>1. Sending(n, t) /\ Sent(n, t)
    BY <1>2 DEF DialFails, WriteFails, Write, Sending, At
  <2> QED BY <1>1, <2>1, SentUpdate
<1>3. ASSUME NEW pc \in {"check", "call"}, Goto(n, t, pc)
      PROVE  \E c \in Call : /\ call' = [call EXCEPT ![n][t] = c]
                            /\ c.pc \notin {"length", "body"}
  <2> DEFINE c == [call[n][t] EXCEPT !.pc = pc]
  <2> pc \in CallPc
    BY DEF CallPc
  <2>1. c \in Call /\ call' = [call EXCEPT ![n][t] = c]
    BY <1>3, GotoUpdate
  <2>2. c.pc = pc
    BY <1>1 DEF Call
  <2> QED BY <2>1, <2>2
<1>4. CASE Route(n, t)
  BY <1>3, <1>4 DEF Route
<1>5. CASE CheckForwarder(n, t)
  BY <1>1, <1>3, <1>5 DEF CheckForwarder, Done
<1>6. CASE CallForwarder(n, t)
  <2> DEFINE c == [call[n][t] EXCEPT !.pc = "send", !.todo = Peers(n)]
  <2>1. Peers(n) \in SUBSET Node
    BY DEF Peers
  <2>2. c \in Call /\ c.pc = "send"
    BY <1>1, <2>1 DEF Call, CallPc
  <2>3. call' = [call EXCEPT ![n][t] = c] \/ call' = [call EXCEPT ![n][t] = Idle]
    BY <1>6 DEF CallForwarder, Done
  <2> QED BY <1>1, <2>2, <2>3
<1>7. ASSUME NEW m \in Message, Publish(n, t, m)
      PROVE  \E c \in Call : /\ call' = [call EXCEPT ![n][t] = c]
                            /\ c.pc \notin {"length", "body"}
  <2> DEFINE c == [Idle EXCEPT !.pc = "route", !.m = m]
  <2>1. c \in Call /\ c.pc = "route"
    BY <1>1 DEF Idle, Call, CallPc
  <2> QED BY <1>7, <2>1 DEF Publish
<1> QED BY <1>2, <1>4, <1>5, <1>6, <1>7 DEF Apart

(* send_mu_ goes to one thread at a time.                                  *)
LEMMA ThreadOneWriter ==
    ASSUME RelayTypeOK, CallsSound, OneWriter, NEW n \in Node, NEW t \in Thread,
           Deliver(n, t) \/ \E m \in Message : Publish(n, t, m)
    PROVE  OneWriter'
<1>1. CASE EnsurePeer(n, t) \/ Write(n, t, "length")
  <2>1. PICK c \in Call : call' = [call EXCEPT ![n][t] = c]
    BY DeliverUpdate
  <2>2. \A a \in Node, u \in Thread : call'[a][u] = IF a = n /\ u = t THEN c ELSE call[a][u]
    BY <2>1, CallUpdate
  <2>3. CASE EnsurePeer(n, t)
    <3>1. ~sendLock[n] /\ sendLock'[n] /\ \A a \in Node : a # n => sendLock'[a] = sendLock[a]
      BY <2>3 DEF EnsurePeer, TakeLock, RelayTypeOK
    <3>2. \A u \in Thread : ~Writing(n, u)
      BY <3>1 DEF OneWriter
    <3> QED BY <2>2, <3>1, <3>2 DEF OneWriter, Writing
  <2>4. CASE Write(n, t, "length")
    <3>1. Writing(n, t) /\ sendLock' = sendLock
      BY <2>4 DEF Write, At, Writing
    <3> QED BY <2>2, <3>1 DEF OneWriter, Writing
  <2> QED BY <1>1, <2>3, <2>4
<1>2. CASE Apart(n, t)
  <2>1. PICK c \in Call : call' = [call EXCEPT ![n][t] = c] /\ c.pc \notin {"length", "body"}
    BY <1>2, ApartUpdate
  <2>2. \A a \in Node, u \in Thread : call'[a][u] = IF a = n /\ u = t THEN c ELSE call[a][u]
    BY <2>1, CallUpdate
  <2>3. /\ \A a \in Node : a # n => sendLock'[a] = sendLock[a]
        /\ sendLock' = sendLock \/ Writing(n, t)
    BY <1>2 DEF Apart, Publish, Route, CheckForwarder, CallForwarder, DialFails, WriteFails,
           Write, At, Writing, ReleaseLock, wire, RelayTypeOK
  <2>4. \A u \in Thread : u # t /\ Writing(n, u) => sendLock'[n]
    BY <2>3 DEF OneWriter
  <2> QED BY <2>1, <2>2, <2>3, <2>4 DEF OneWriter, Writing
<1> QED BY <1>1, <1>2 DEF Deliver, Apart

LEMMA WriteFramed ==
    ASSUME RelayTypeOK, CallsSound, FrameInv, NEW n \in Node, NEW t \in Thread,
           NEW pc \in {"length", "body"}, Write(n, t, pc)
    PROVE  \A k \in Link : Framing(conn'[k], call'[k[1]], dials'[<<k[1], k[2]>>], k)
<1>1. PICK l, s, z, m : /\ l = Wire(n, t) /\ s = conn[l].stream /\ m = call[n][t].m
                        /\ z = Append(conn[l].stream, <<pc, call[n][t].m>>)
  OBVIOUS
<1>2. /\ l \in Link /\ call[n][t].pc = pc /\ m \in Message /\ conn[l].open /\ s \in Seq(Piece)
      /\ \A j \in Link : j # l => conn'[j] = conn[j]
      /\ conn'[l].stream = z /\ conn'[l].open = conn[l].open
      /\ conn'[l].reader = conn[l].reader /\ conn'[l].held = conn[l].held
  BY <1>1, WriteUpdate
<1>3. /\ l[1] = n /\ l[3] = call[n][t].via /\ <<l[1], l[2]>> = Peer(n, t) /\ UNCHANGED dials
      /\ l = <<n, Lowest(call[n][t].todo), call[n][t].via>>
  BY <1>1 DEF Wire, Peer, Write, Target
<1>4. l[3] <= dials[<<l[1], l[2]>>] /\ dials[<<l[1], l[2]>>] \in Nat /\ l[3] \in Nat
  <2>1. Writing(n, t) /\ Sending(n, t)
    BY <1>2 DEF Writing, Sending
  <2>2. Peer(n, t) \in Pair /\ call[n][t].via \in 1..dials[Peer(n, t)]
    BY <2>1, TargetIsPeer DEF CallsSound
  <2>3. dials[Peer(n, t)] \in Nat
    BY <2>2 DEF RelayTypeOK
  <2> QED BY <1>3, <2>2, <2>3
<1>5. \A u \in Thread : u # t => ~Midway(call[n][u], l)
  BY <1>2 DEF FrameInv, OneWriter, Writing, Midway
<1>6. PICK c \in Call :
        /\ call' = [call EXCEPT ![n][t] = c]
        /\ IF pc = "length" THEN /\ c.pc = "body" /\ c.m = m /\ c.todo = call[n][t].todo
                                 /\ c.via = call[n][t].via
           ELSE c.pc # "body"
  <2>1. CASE pc = "length"
    <3> DEFINE c == [call[n][t] EXCEPT !.pc = "body"]
    <3>1. c \in Call /\ call' = [call EXCEPT ![n][t] = c]
      BY <2>1, GotoUpdate DEF Write, CallPc
    <3>2. call[n][t] \in Call
      BY DEF RelayTypeOK
    <3>3. /\ c.pc = "body" /\ c.m = call[n][t].m /\ c.todo = call[n][t].todo
          /\ c.via = call[n][t].via
      BY <3>2 DEF Call
    <3> QED BY <1>1, <2>1, <3>1, <3>3
  <2>2. CASE pc = "body"
    BY <2>2, ApartUpdate DEF Apart
  <2> QED BY <2>1, <2>2
<1>7. \A a \in Node, u \in Thread : call'[a][u] = IF a = n /\ u = t THEN c ELSE call[a][u]
  BY <1>6, CallUpdate
<1>8. ASSUME NEW k \in Link, k # l
      PROVE  Framing(conn'[k], call'[k[1]], dials'[<<k[1], k[2]>>], k)
  <2>1. k[1] \in Node
    BY LinkFacts
  <2>2. \A u \in Thread : /\ Midway(call'[k[1]][u], k) <=> Midway(call[k[1]][u], k)
                          /\ Midway(call[k[1]][u], k) => call'[k[1]][u] = call[k[1]][u]
    BY <1>3, <1>6, <1>7, <1>8, <2>1 DEF Midway
  <2>3. Framing(conn[k], call[k[1]], dials[<<k[1], k[2]>>], k) /\ conn'[k] = conn[k]
    BY <1>2, <1>8 DEF FrameInv
  <2> QED BY <1>3, <2>2, <2>3 DEF Framing
<1>9. Framing(conn'[l], call'[l[1]], dials'[<<l[1], l[2]>>], l)
  <2>1. Framing(conn[l], call[l[1]], dials[<<l[1], l[2]>>], l)
    BY <1>2 DEF FrameInv
  <2>2. \A u \in Thread : u # t => ~Midway(call'[n][u], l)
    BY <1>5, <1>7
  <2>3. (pc = "length" <=> Midway(call'[n][t], l)) /\ (pc = "length" => call'[n][t].m = m)
    BY <1>3, <1>6, <1>7 DEF Midway
  <2>4. pc = "body" <=> Midway(call[n][t], l)
    BY <1>2, <1>3 DEF Midway
  <2>5. IF pc = "body" THEN EndsWithLength(conn[l], m) ELSE EndsWithBody(conn[l])
    BY <1>1, <1>2, <1>3, <1>5, <2>1, <2>4 DEF Framing
  <2>6. InOrder(conn[l]) /\ conn[l].reader # "gone"
    BY <1>2, <2>1 DEF Framing
  <2>7. /\ Len(z) = Len(s) + 1 /\ Len(s) \in Nat /\ z # << >>
        /\ \A i \in 1..Len(s) : z[i] = s[i]
        /\ z[Len(s) + 1] = <<pc, m>>
        /\ s = << >> <=> Len(s) = 0
    <3>1. z = Append(s, <<pc, m>>) /\ <<pc, m>> \in Piece
      BY <1>1, <1>2 DEF Piece
    <3> QED BY <1>2, <3>1
  <2>8. InOrder(conn'[l])
    <3>1. conn[l].reader \in {"none", "length"} => conn[l].held = None
      BY <2>6 DEF InOrder
    <3>2. IF conn[l].reader = "body" THEN z[1] = <<"body", conn[l].held>> ELSE z[1][1] = "length"
      <4>1. CASE s = << >>
        BY <1>1, <2>5, <2>7, <4>1 DEF EndsWithLength, EndsWithBody
      <4>2. CASE s # << >>
        BY <1>1, <2>6, <2>7, <4>2 DEF InOrder
      <4> QED BY <4>1, <4>2
    <3>3. ASSUME NEW i \in 1..Len(z), i + 1 <= Len(z)
          PROVE  IF z[i][1] = "length" THEN z[i + 1] = <<"body", z[i][2]>>
                 ELSE z[i + 1][1] = "length"
      <4>1. CASE i + 1 <= Len(s)
        <5>1. z[i] = s[i] /\ z[i + 1] = s[i + 1]
          BY <2>7, <3>3, <4>1
        <5>2. IF s[i][1] = "length" THEN s[i + 1] = <<"body", s[i][2]>>
              ELSE s[i + 1][1] = "length"
          BY <1>1, <2>6, <2>7, <3>3, <4>1 DEF InOrder
        <5> QED BY <5>1, <5>2
      <4>2. CASE i = Len(s)
        BY <1>1, <2>5, <2>7, <3>3, <4>2 DEF EndsWithLength, EndsWithBody
      <4> QED BY <2>7, <3>3, <4>1, <4>2
    <3> QED BY <1>2, <2>7, <3>1, <3>2, <3>3 DEF InOrder
  <2>9. IF pc = "length" THEN EndsWithLength(conn'[l], m) ELSE EndsWithBody(conn'[l])
    BY <1>2, <2>7 DEF EndsWithLength, EndsWithBody
  <2>10. ~(l[3] > dials'[<<l[1], l[2]>>]) /\ conn'[l].reader # "gone"
    BY <1>2, <1>3, <1>4, <2>6
  <2> QED BY <1>3, <2>2, <2>3, <2>8, <2>9, <2>10 DEF Framing
<1> QED BY <1>8, <1>9

LEMMA DialFramed ==
    ASSUME RelayTypeOK, CallsSound, FrameInv, NEW n \in Node, NEW t \in Thread, EnsurePeer(n, t)
    PROVE  \A k \in Link : Framing(conn'[k], call'[k[1]], dials'[<<k[1], k[2]>>], k)
<1>1. PICK c \in Call : call' = [call EXCEPT ![n][t] = c] /\ c.pc = "length"
  <2>1. \E i : Using(n, t, i)
    BY DEF EnsurePeer
  <2>2. PICK c \in Call : call' = [call EXCEPT ![n][t] = c]
    BY DeliverUpdate DEF Deliver
  <2>3. call'[n][t] = c /\ call[n][t] \in Call
    BY <2>2, CallUpdate DEF RelayTypeOK
  <2>4. call'[n][t].pc = "length"
    BY <2>1, <2>3 DEF Using, RelayTypeOK, Call
  <2> QED BY <2>2, <2>3, <2>4
<1>2. \A a \in Node, u \in Thread : call'[a][u] = IF a = n /\ u = t THEN c ELSE call[a][u]
  BY <1>1, CallUpdate
<1>3. call[n][t].pc = "send"
  BY DEF EnsurePeer, At
<1>4. ASSUME NEW k \in Link, NEW u \in Thread
      PROVE  /\ Midway(call'[k[1]][u], k) <=> Midway(call[k[1]][u], k)
             /\ Midway(call[k[1]][u], k) => call'[k[1]][u] = call[k[1]][u]
  BY <1>1, <1>2, <1>3, LinkFacts DEF Midway
<1>5. ASSUME NEW k \in Link, conn'[k] = conn[k], dials'[<<k[1], k[2]>>] >= dials[<<k[1], k[2]>>],
             dials'[<<k[1], k[2]>>] \in Nat
      PROVE  Framing(conn'[k], call'[k[1]], dials'[<<k[1], k[2]>>], k)
  <2>1. Framing(conn[k], call[k[1]], dials[<<k[1], k[2]>>], k)
    BY DEF FrameInv
  <2>2. k[3] > dials'[<<k[1], k[2]>>] => k[3] > dials[<<k[1], k[2]>>]
    BY <1>5, LinkFacts DEF RelayTypeOK
  <2> QED BY <1>4, <1>5, <2>1, <2>2 DEF Framing
<1>6. CASE fd[Peer(n, t)] # 0
  <2>1. conn' = conn /\ dials' = dials
    BY <1>6 DEF EnsurePeer
  <2>2. ASSUME NEW k \in Link
        PROVE  dials[<<k[1], k[2]>>] \in Nat /\ dials[<<k[1], k[2]>>] >= dials[<<k[1], k[2]>>]
    BY LinkFacts DEF RelayTypeOK
  <2> QED BY <1>5, <2>1, <2>2
<1>7. CASE fd[Peer(n, t)] = 0
  <2>2. PICK p \in Pair, l \in Link :
           /\ p = Peer(n, t) /\ l = <<p[1], p[2], dials[p] + 1>> /\ dials[p] \in Nat
           /\ dials' = [dials EXCEPT ![p] = dials[p] + 1] /\ dials' \in [Pair -> 0..MaxDials]
           /\ \A j \in Link : j # l => conn'[j] = conn[j]
           /\ conn'[l].stream = conn[l].stream /\ conn'[l].open
           /\ conn'[l].reader = conn[l].reader /\ conn'[l].held = conn[l].held
    BY <1>7, DialUpdate
  <2>3. p = <<l[1], l[2]>> /\ l[3] = dials[p] + 1 /\ l[1] \in Node
    BY <2>2, LinkFacts DEF Peer
  <2>4. ASSUME NEW k \in Link, k # l
        PROVE  Framing(conn'[k], call'[k[1]], dials'[<<k[1], k[2]>>], k)
    <3>1. <<k[1], k[2]>> \in Pair
      BY LinkFacts
    <3>2. /\ dials'[<<k[1], k[2]>>] >= dials[<<k[1], k[2]>>]
          /\ dials'[<<k[1], k[2]>>] \in Nat
      <4>1. dials[<<k[1], k[2]>>] \in Nat /\ dials'[<<k[1], k[2]>>] \in Nat
        BY <2>2, <3>1 DEF RelayTypeOK
      <4>2. dials \in [Pair -> 0..MaxDials]
        BY DEF RelayTypeOK
      <4>3. \A q \in Pair : dials'[q] = IF q = p THEN dials[p] + 1 ELSE dials[q]
        BY <2>2, <4>2
      <4> QED BY <2>2, <3>1, <4>1, <4>3
    <3> QED BY <1>5, <2>2, <2>4, <3>2
  <2>5. Framing(conn'[l], call'[l[1]], dials'[<<l[1], l[2]>>], l)
    <3>1. Framing(conn[l], call[l[1]], dials[<<l[1], l[2]>>], l)
      BY <2>2 DEF FrameInv
    <3>2. conn[l] = Unused
      BY <2>2, <2>3, <3>1 DEF Framing
    <3>3. /\ conn'[l].stream = << >> /\ conn'[l].open
          /\ conn'[l].reader = "none" /\ conn'[l].held = None
      BY <2>2, <3>2 DEF Unused
    <3>4. dials'[p] = dials[p] + 1 /\ ~(l[3] > dials'[<<l[1], l[2]>>])
      BY <2>2, <2>3 DEF RelayTypeOK
    <3>5. ASSUME NEW u \in Thread PROVE ~Midway(call[l[1]][u], l)
      <4> SUFFICES ASSUME Midway(call[l[1]][u], l) PROVE FALSE
        OBVIOUS
      <4>1. /\ Writing(l[1], u) /\ <<l[1], l[2]>> = Peer(l[1], u)
            /\ l[3] = call[l[1]][u].via
        BY DEF Midway, Writing, Target, Peer
      <4>2. call[l[1]][u].via \in 1..dials[<<l[1], l[2]>>]
        BY <2>3, <4>1 DEF CallsSound
      <4> QED BY <2>2, <2>3, <4>1, <4>2
    <3>6. InOrder(conn'[l]) /\ EndsWithBody(conn'[l])
      BY <3>3 DEF InOrder, EndsWithBody
    <3> QED BY <1>4, <2>2, <3>3, <3>4, <3>5, <3>6 DEF Framing
  <2> QED BY <2>4, <2>5
<1> QED BY <1>6, <1>7

LEMMA ApartFramed ==
    ASSUME RelayTypeOK, CallsSound, FrameInv, NEW n \in Node, NEW t \in Thread,
           Apart(n, t), ~Write(n, t, "body")
    PROVE  \A k \in Link : Framing(conn'[k], call'[k[1]], dials'[<<k[1], k[2]>>], k)
<1>1. PICK c \in Call : call' = [call EXCEPT ![n][t] = c] /\ c.pc \notin {"length", "body"}
  BY ApartUpdate
<1>2. \A a \in Node, u \in Thread : call'[a][u] = IF a = n /\ u = t THEN c ELSE call[a][u]
  BY <1>1, CallUpdate
<1>3. conn' = conn /\ dials' = dials
  BY DEF Apart, Publish, Route, CheckForwarder, CallForwarder, DialFails, WriteFails, wire
<1> SUFFICES ASSUME NEW k \in Link PROVE Framing(conn[k], call'[k[1]], dials[<<k[1], k[2]>>], k)
  BY <1>3
<1>4. Framing(conn[k], call[k[1]], dials[<<k[1], k[2]>>], k) /\ k[1] \in Node
  BY LinkFacts DEF FrameInv
<1>5. CASE k[1] = n /\ Midway(call[n][t], k)
  <2>1. WriteFails(n, t) /\ k = Wire(n, t)
    BY <1>5 DEF Midway, Apart, Publish, Route, CheckForwarder, CallForwarder, DialFails, At,
           WriteFails, Wire, Target
  <2>2. ~conn[k].open
    BY <2>1 DEF WriteFails
  <2> QED BY <1>4, <2>2 DEF Framing
<1>6. CASE ~(k[1] = n /\ Midway(call[n][t], k))
  <2>1. \A u \in Thread : /\ Midway(call'[k[1]][u], k) <=> Midway(call[k[1]][u], k)
                          /\ Midway(call[k[1]][u], k) => call'[k[1]][u] = call[k[1]][u]
    BY <1>1, <1>2, <1>4, <1>6 DEF Midway
  <2> QED BY <1>4, <2>1 DEF Framing
<1> QED BY <1>5, <1>6

(* A connection taken further at its receiving end stays in frame.         *)
LEMMA ReceiveFramed ==
    ASSUME RelayTypeOK, FrameInv, NEW l \in Link, Receive(l) \/ Break(l)
    PROVE  /\ \A k \in Link : Framing(conn'[k], call'[k[1]], dials'[<<k[1], k[2]>>], k)
           /\ StreamFramed => StreamFramed'
<1>1. UNCHANGED <<call, dials>> /\ \A k \in Link : k # l => conn'[k] = conn[k]
  BY DEF Receive, Accept, Read, Post, ReaderEnds, Break, RelayTypeOK
<1>2. /\ conn[l] \in Conn /\ conn[l].stream \in Seq(Piece) /\ l[3] \in Nat
      /\ dials[<<l[1], l[2]>>] \in Nat
  BY LinkFacts DEF RelayTypeOK, Conn
<1>3. Framing(conn[l], call[l[1]], dials[<<l[1], l[2]>>], l)
  BY DEF FrameInv
<1>4. ASSUME conn'[l].open => conn[l].open, InOrder(conn'[l]),
             l[3] > dials[<<l[1], l[2]>>] => FALSE,
             conn'[l].reader = "gone" => ~conn'[l].open /\ conn'[l].stream = << >>,
             conn'[l].open => \A m : EndsWithLength(conn[l], m) => EndsWithLength(conn'[l], m),
             conn'[l].open => (EndsWithBody(conn[l]) => EndsWithBody(conn'[l]))
      PROVE  \A k \in Link : Framing(conn'[k], call'[k[1]], dials'[<<k[1], k[2]>>], k)
  <2>1. Framing(conn'[l], call'[l[1]], dials'[<<l[1], l[2]>>], l)
    BY <1>1, <1>3, <1>4 DEF Framing
  <2> QED BY <1>1, <2>1 DEF FrameInv
<1>5. InOrder(conn[l]) /\ (l[3] > dials[<<l[1], l[2]>>] => conn[l].reader = "none" /\ ~conn[l].open)
  BY <1>3 DEF Framing, Unused
<1>6. CASE Accept(l)
  <2>1. /\ conn[l].reader = "none" /\ l[3] <= dials[<<l[1], l[2]>>] /\ conn'[l].reader = "length"
        /\ conn'[l].stream = conn[l].stream /\ conn'[l].open = conn[l].open
        /\ conn'[l].held = conn[l].held
    BY <1>2, <1>6 DEF Accept, RelayTypeOK, Conn
  <2>2. InOrder(conn'[l])
    BY <1>5, <2>1 DEF InOrder
  <2>3. \A m : EndsWithLength(conn[l], m) => EndsWithLength(conn'[l], m)
    BY <2>1 DEF EndsWithLength
  <2>4. EndsWithBody(conn[l]) => EndsWithBody(conn'[l])
    BY <2>1 DEF EndsWithBody
  <2>5. ~(l[3] > dials[<<l[1], l[2]>>])
    BY <1>2, <2>1
  <2> QED BY <1>4, <1>6, <2>1, <2>2, <2>3, <2>4, <2>5 DEF Accept, StreamFramed
<1>7. CASE Post(l)
  <2>1. /\ conn[l].reader = "post" /\ conn'[l].reader = "length"
        /\ conn'[l].stream = conn[l].stream /\ conn'[l].open = conn[l].open
        /\ conn'[l].held = None
    BY <1>2, <1>7 DEF Post, RelayTypeOK, Conn
  <2>2. InOrder(conn'[l])
    BY <1>5, <2>1 DEF InOrder
  <2>3. \A m : EndsWithLength(conn[l], m) => EndsWithLength(conn'[l], m)
    BY <2>1 DEF EndsWithLength
  <2>4. EndsWithBody(conn[l]) => EndsWithBody(conn'[l])
    BY <2>1 DEF EndsWithBody
  <2>5. StreamFramed => StreamFramed'
    <3>1. fault' \subseteq fault \cup {"frame posted to a destroyed engine"}
      BY <1>7 DEF Post
    <3> QED BY <3>1 DEF StreamFramed
  <2> QED BY <1>4, <1>5, <2>1, <2>2, <2>3, <2>4, <2>5
<1>8. CASE ReaderEnds(l)
  <2>1. /\ conn[l].reader # "none" /\ ~conn'[l].open /\ conn'[l].stream = << >>
        /\ conn'[l].reader = "gone"
    BY <1>8 DEF ReaderEnds, RelayTypeOK, Unused
  <2>2. InOrder(conn'[l])
    BY <2>1 DEF InOrder
  <2> QED BY <1>4, <1>5, <1>8, <2>1, <2>2 DEF ReaderEnds, StreamFramed
<1>9. CASE Break(l)
  <2>1. /\ conn[l].open /\ ~conn'[l].open /\ conn'[l].stream = conn[l].stream
        /\ conn'[l].reader = conn[l].reader /\ conn'[l].held = conn[l].held
    BY <1>2, <1>9 DEF Break, RelayTypeOK, Conn
  <2>2. InOrder(conn'[l]) /\ conn[l].reader # "gone"
    BY <1>3, <1>5, <2>1 DEF InOrder, Framing
  <2> QED BY <1>4, <1>5, <1>9, <2>1, <2>2 DEF Break, StreamFramed
<1>10. CASE Read(l)
  <2>1. PICK s, z : s = conn[l].stream /\ z = Tail(s)
    OBVIOUS
  <2>2. /\ conn[l].reader \in {"length", "body"} /\ s # << >> /\ s \in Seq(Piece)
        /\ s[1] \in Piece /\ Head(s) = s[1]
    <3>1. conn[l].reader \in {"length", "body"} /\ s # << >> /\ s \in Seq(Piece)
      BY <1>2, <1>10, <2>1 DEF Read
    <3> HIDE DEF Read
    <3>2. s[1] \in Piece /\ Head(s) = s[1]
      BY <3>1
    <3> QED BY <3>1, <3>2
  <2>3. /\ conn'[l].stream = z /\ conn'[l].open = conn[l].open /\ conn'[l].held = s[1][2]
        /\ conn'[l].reader = IF conn[l].reader = "length" THEN "body" ELSE "post"
    BY <1>2, <1>10, <2>1, <2>2 DEF Read, RelayTypeOK, Conn
  <2>4. /\ Len(s) \in Nat \ {0} /\ Len(z) = Len(s) - 1
        /\ \A i \in 1..Len(z) : z[i] = s[i + 1]
        /\ z = << >> <=> Len(s) = 1
    <3>1. Len(s) \in Nat /\ Len(s) # 0
      BY <2>2
    <3>2. Len(z) = Len(s) - 1 /\ z \in Seq(Piece)
      BY <2>1, <2>2, <3>1
    <3>3. \A i \in 1..Len(z) : z[i] = s[i + 1]
      BY <2>1, <2>2, <3>1, <3>2
    <3>4. z = << >> <=> Len(s) = 1
      <4>1. z = << >> <=> Len(z) = 0
        BY <3>2
      <4> QED BY <3>1, <3>2, <4>1
    <3> QED BY <3>1, <3>2, <3>3, <3>4
  <2>5. IF conn[l].reader = "body" THEN s[1] = <<"body", conn[l].held>>
        ELSE s[1][1] = "length" /\ conn[l].held = None
    BY <1>5, <2>1, <2>2 DEF InOrder
  <2>6. InOrder(conn'[l])
    <3>1. z # << >> => IF conn'[l].reader = "body" THEN z[1] = <<"body", conn'[l].held>>
                       ELSE z[1][1] = "length"
      <4> SUFFICES ASSUME z # << >>
                   PROVE  IF conn'[l].reader = "body" THEN z[1] = <<"body", conn'[l].held>>
                          ELSE z[1][1] = "length"
        OBVIOUS
      <4>1. z[1] = s[2] /\ Len(s) >= 2
        BY <2>4
      <4>2. IF s[1][1] = "length" THEN s[2] = <<"body", s[1][2]>> ELSE s[2][1] = "length"
        BY <1>5, <2>1, <2>4, <4>1 DEF InOrder
      <4> QED BY <2>2, <2>3, <2>5, <4>1, <4>2
    <3>2. ASSUME NEW i \in 1..Len(z), i + 1 <= Len(z)
          PROVE  IF z[i][1] = "length" THEN z[i + 1] = <<"body", z[i][2]>>
                 ELSE z[i + 1][1] = "length"
      <4>1. PICK j \in 1..Len(s) : j = i + 1 /\ j + 1 <= Len(s)
        BY <2>4, <3>2
      <4>2. z[i] = s[j] /\ z[i + 1] = s[j + 1]
        BY <2>4, <3>2, <4>1
      <4>3. IF s[j][1] = "length" THEN s[j + 1] = <<"body", s[j][2]>>
            ELSE s[j + 1][1] = "length"
        BY <1>5, <2>1, <4>1 DEF InOrder
      <4> QED BY <4>2, <4>3
    <3>3. conn'[l].reader \notin {"none", "length"}
      BY <2>3
    <3> QED BY <2>3, <3>1, <3>2, <3>3 DEF InOrder
  <2>7. z # << >> => z[Len(z)] = s[Len(s)]
    BY <2>4
  <2>8. ASSUME NEW m, EndsWithLength(conn[l], m) PROVE EndsWithLength(conn'[l], m)
    <3>1. s[Len(s)] = <<"length", m>>
      BY <2>1, <2>2, <2>8 DEF EndsWithLength
    <3>2. CASE z # << >>
      BY <2>3, <2>7, <3>1, <3>2 DEF EndsWithLength
    <3>3. CASE z = << >>
      <4>1. s[1] = <<"length", m>>
        BY <2>4, <3>1, <3>3
      <4>2. s[1][1] = "length" /\ s[1][2] = m
        BY <4>1
      <4>3. conn'[l].reader = "body" /\ conn'[l].held = m
        BY <2>2, <2>3, <2>5, <4>2
      <4> QED BY <2>3, <3>3, <4>3 DEF EndsWithLength
    <3> QED BY <3>2, <3>3
  <2>9. ASSUME EndsWithBody(conn[l]) PROVE EndsWithBody(conn'[l])
    <3>1. s[Len(s)][1] = "body"
      BY <2>1, <2>2, <2>9 DEF EndsWithBody
    <3>2. CASE z # << >>
      BY <2>3, <2>7, <3>1, <3>2 DEF EndsWithBody
    <3>3. CASE z = << >>
      BY <2>2, <2>3, <2>4, <2>5, <3>1, <3>3 DEF EndsWithBody
    <3> QED BY <3>2, <3>3
  <2>10. Framed(conn[l].reader, conn[l].held, s[1])
    <3>1. s[1] = <<s[1][1], s[1][2]>>
      BY <2>2 DEF Piece
    <3> QED BY <2>2, <2>5, <3>1 DEF Framed, Frame
  <2>11. fault' = fault
    BY <1>10, <2>1, <2>2, <2>10 DEF Read
  <2>12. l[3] > dials[<<l[1], l[2]>>] => FALSE
    BY <1>5, <2>2
  <2> QED BY <1>4, <2>3, <2>6, <2>8, <2>9, <2>11, <2>12 DEF StreamFramed
<1> QED BY <1>6, <1>7, <1>8, <1>9, <1>10 DEF Receive

LEMMA HostFramed ==
    ASSUME RelayTypeOK, FrameInv, StreamFramed, NEW n \in Node, HostStep(n)
    PROVE  FrameInv' /\ StreamFramed'
<1>1. UNCHANGED <<call, dials, sendLock>>
  BY DEF HostStep, Start, StartBroker, StartEngine, StartTransport, StartTransportFails,
         SetForwarder, StopBroker, AbandonCluster, Defang, StopTransport, JoinReaders,
         StopEngine, wire
<1>2. StreamFramed'
  <2>1. fault' \subseteq fault \cup {"broker used after destruction"}
    BY DEF HostStep, Start, StartBroker, StartEngine, StartTransport, StartTransportFails,
           SetForwarder, StopBroker, AbandonCluster, Defang, StopTransport, JoinReaders,
           StopEngine
  <2> QED BY <2>1 DEF StreamFramed
<1>3. OneWriter'
  BY <1>1 DEF FrameInv, OneWriter, Writing
<1>4. ASSUME NEW l \in Link
      PROVE  Framing(conn'[l], call'[l[1]], dials'[<<l[1], l[2]>>], l)
  <2>1. Framing(conn[l], call[l[1]], dials[<<l[1], l[2]>>], l) /\ conn[l] \in Conn
    BY DEF FrameInv, RelayTypeOK
  <2>2. CASE conn'[l] = conn[l]
    BY <1>1, <2>1, <2>2
  <2>3. CASE conn'[l] = [conn[l] EXCEPT !.open = FALSE]
    <3>1. /\ ~conn'[l].open /\ conn'[l].stream = conn[l].stream
          /\ conn'[l].reader = conn[l].reader /\ conn'[l].held = conn[l].held
      BY <2>1, <2>3 DEF Conn
    <3>2. conn[l] = Unused => conn'[l] = Unused
      <4>1. ASSUME NEW c \in Conn, ~c.open PROVE [c EXCEPT !.open = FALSE] = c
        BY <4>1 DEF Conn
      <4>2. ~Unused.open /\ Unused \in Conn
        BY IdleIsCall DEF Unused
      <4> QED BY <2>3, <4>1, <4>2
    <3>3. InOrder(conn'[l])
      BY <2>1, <3>1 DEF Framing, InOrder
    <3> QED BY <1>1, <2>1, <3>1, <3>2, <3>3 DEF Framing
  <2>4. conn'[l] = conn[l] \/ conn'[l] = [conn[l] EXCEPT !.open = FALSE]
    BY DEF HostStep, Start, StartBroker, StartEngine, StartTransport, StartTransportFails,
           SetForwarder, StopBroker, AbandonCluster, Defang, StopTransport, JoinReaders,
           StopEngine, wire
  <2> QED BY <2>2, <2>3, <2>4
<1> QED BY <1>2, <1>3, <1>4 DEF FrameInv

LEMMA NextFramed ==
    ASSUME RelayTypeOK, CallsSound, FrameInv, StreamFramed, [Next]_vars
    PROVE  FrameInv' /\ StreamFramed'
<1>1. CASE UNCHANGED <<call, wire, fault>>
  BY <1>1 DEF wire, FrameInv, OneWriter, Writing, StreamFramed
<1>2. CASE UNCHANGED relayed \/ \E n \in Node : Handle(n)
  BY <1>1, <1>2 DEF relayed, Handle
<1>3. ASSUME NEW n \in Node, NEW t \in Thread,
             Deliver(n, t) \/ \E m \in Message : Publish(n, t, m)
      PROVE  FrameInv' /\ StreamFramed'
  <2>1. OneWriter'
    BY <1>3, ThreadOneWriter DEF FrameInv
  <2>2. StreamFramed'
    <3>1. fault' \subseteq fault \cup {"torn forwarder called", "forwarder called after stop"}
      BY <1>3 DEF Deliver, Publish, Route, CheckForwarder, CallForwarder, EnsurePeer, DialFails,
             Write, WriteFails
    <3> QED BY <3>1 DEF StreamFramed
  <2>3. \A k \in Link : Framing(conn'[k], call'[k[1]], dials'[<<k[1], k[2]>>], k)
    <3>1. CASE Write(n, t, "length") \/ Write(n, t, "body")
      <4>1. PICK pc \in {"length", "body"} : Write(n, t, pc)
        BY <3>1
      <4> QED BY <4>1, WriteFramed
    <3> QED BY <1>3, <3>1, DialFramed, ApartFramed DEF Deliver, Apart
  <2> QED BY <2>1, <2>2, <2>3 DEF FrameInv
<1>4. ASSUME NEW l \in Link, Receive(l) \/ Break(l) PROVE FrameInv' /\ StreamFramed'
  <2>1. UNCHANGED <<call, sendLock>>
    BY <1>4 DEF Receive, Accept, Read, Post, ReaderEnds, Break
  <2>2. OneWriter'
    BY <2>1 DEF FrameInv, OneWriter, Writing
  <2> QED BY <1>4, <2>2, ReceiveFramed DEF FrameInv
<1> QED BY <1>2, <1>3, <1>4, StepIs, HostFramed

-----------------------------------------------------------------------------
(* Copies                                                                  *)

LEMMA AppendItems ==
    ASSUME NEW S, NEW s \in Seq(S), NEW x \in S
    PROVE  /\ Items(Append(s, x)) = Items(s) \cup {x}
           /\ Injective(s) /\ x \notin Items(s) => Injective(Append(s, x))
<1>1. PICK z : z = Append(s, x)
  OBVIOUS
<1>2. /\ Len(s) \in Nat /\ Len(z) = Len(s) + 1 /\ z[Len(s) + 1] = x
      /\ \A i \in 1..Len(s) : z[i] = s[i]
  BY <1>1
<1>3. 1..Len(z) = 1..Len(s) \cup {Len(s) + 1}
  BY <1>2
<1>4. Items(z) = Items(s) \cup {x}
  BY <1>2, <1>3 DEF Items
<1>5. Injective(s) /\ x \notin Items(s) => Injective(z)
  BY <1>2, <1>3 DEF Items, Injective
<1> QED BY <1>1, <1>4, <1>5

LEMMA TailItems ==
    ASSUME NEW S, NEW s \in Seq(S), s # << >>
    PROVE  /\ Head(s) \in S /\ Items(s) = Items(Tail(s)) \cup {Head(s)}
           /\ Injective(s) => Injective(Tail(s)) /\ Head(s) \notin Items(Tail(s))
<1>1. PICK z : z = Tail(s)
  OBVIOUS
<1>2. /\ Len(s) \in Nat /\ Len(s) # 0 /\ Len(z) = Len(s) - 1
      /\ \A i \in 1..Len(z) : z[i] = s[i + 1]
      /\ Head(s) = s[1] /\ s[1] \in S
  <2>1. Len(s) \in Nat /\ Len(s) # 0 /\ Head(s) = s[1] /\ s[1] \in S
    OBVIOUS
  <2>2. Len(z) = Len(s) - 1
    BY <1>1, <2>1
  <2>3. \A i \in 1..Len(z) : z[i] = s[i + 1]
    BY <1>1, <2>1, <2>2
  <2> QED BY <2>1, <2>2, <2>3
<1>3. \A i \in 1..Len(s) : i # 1 => i - 1 \in 1..Len(z) /\ z[i - 1] = s[i]
  BY <1>2
<1>4. \A i \in 1..Len(z) : i + 1 \in 1..Len(s) /\ 1 \in 1..Len(s)
  BY <1>2
<1>5. Items(s) = Items(z) \cup {s[1]}
  BY <1>2, <1>3, <1>4 DEF Items
<1>6. Injective(s) => Injective(z) /\ s[1] \notin Items(z)
  <2>1. ASSUME Injective(s) PROVE Injective(z)
    BY <1>2, <1>4, <2>1 DEF Injective
  <2>2. ASSUME Injective(s) PROVE s[1] \notin Items(z)
    BY <1>2, <1>4, <2>2 DEF Injective, Items
  <2> QED BY <2>1, <2>2
<1> QED BY <1>1, <1>2, <1>5, <1>6

(* A step that takes no copy anywhere and puts none where none was.        *)
LEMMA CopiesShrink ==
    ASSUME CopyInv, origin' = origin, delivered' = delivered,
           \A b \in Node : Items(inbox'[b]) \subseteq Items(inbox[b]) /\ Injective(inbox'[b]),
           \A l \in Link : Cargo(conn'[l]) \subseteq Cargo(conn[l]) /\ Single(conn'[l]),
           \A n \in Node, t \in Thread :
               /\ \A b \in Node, m \in Message :
                     Owes(call'[n][t], n, b, m) => Owes(call[n][t], n, b, m)
               /\ call'[n][t].pc # "idle" => /\ call[n][t].pc # "idle"
                                             /\ call'[n][t].m = call[n][t].m
               /\ call'[n][t].pc \notin {"idle", "route"} => call[n][t].pc # "route" 
    PROVE  CopyInv'
<1>1. RoutedFirst'
  BY DEF CopyInv, RoutedFirst
<1>2. OneCarrier'
  BY DEF CopyInv, OneCarrier
<1>3. OwedOnly'
  BY DEF CopyInv, OwedOnly
<1>4. LoadedOnly'
  BY LinkFacts DEF CopyInv, LoadedOnly
<1>5. PostedOnly'
  BY DEF CopyInv, PostedOnly
<1>6. Distinct'
  BY DEF CopyInv, Distinct
<1> QED BY <1>1, <1>2, <1>3, <1>4, <1>5, <1>6 DEF CopyInv

(* deliver_publish starts with a message that is nowhere yet.              *)
LEMMA PublishCopies ==
    ASSUME RelayTypeOK, CallsSound, CopyInv, NEW n \in Node, NEW t \in Thread,
           NEW m \in Message, Publish(n, t, m)
    PROVE  CopyInv'
<1>1. /\ UNCHANGED <<conn, inbox, delivered>> /\ origin[m] = None /\ None \notin Node
      /\ origin'[m] = n /\ \A x \in Message : x # m => origin'[x] = origin[x]
  BY RelayAssumption DEF Publish, wire, RelayTypeOK
<1>2. PICK c \in Call : /\ call' = [call EXCEPT ![n][t] = c] /\ c.pc = "route" /\ c.m = m
  <2> DEFINE c == [Idle EXCEPT !.pc = "route", !.m = m]
  <2>1. c \in Call /\ c.pc = "route" /\ c.m = m
    BY IdleIsCall DEF Idle, Call, CallPc
  <2>2. call' = [call EXCEPT ![n][t] = c]
    BY DEF Publish
  <2> HIDE DEF c
  <2> QED BY <2>1, <2>2
<1>3. \A a \in Node, u \in Thread : call'[a][u] = IF a = n /\ u = t THEN c ELSE call[a][u]
  BY <1>2, CallUpdate
<1>4. /\ \A l \in Link : m \notin Cargo(conn[l])
      /\ \A b \in Node : m \notin Items(inbox[b]) /\ m \notin Items(delivered[b])
      /\ \A a \in Node, u \in Thread : call[a][u].pc # "idle" => call[a][u].m # m
  <2>1. \A l \in Link : m \notin Cargo(conn[l])
    BY <1>1, LinkFacts DEF CopyInv, RoutedFirst
  <2>2. \A b \in Node : m \notin Items(inbox[b]) /\ m \notin Items(delivered[b])
    BY <1>1 DEF CopyInv, RoutedFirst
  <2>3. \A a \in Node, u \in Thread : call[a][u].pc # "idle" => call[a][u].m # m
    BY <1>1 DEF CallsSound
  <2> QED BY <2>1, <2>2, <2>3
<1>5. /\ \A l \in Link : \A x \in Cargo(conn[l]) : x \in Message
      /\ \A b \in Node : \A x \in Items(inbox[b]) \cup Items(delivered[b]) : x \in Message
  BY DEF RelayTypeOK, Items, Cargo, Loaded
<1>6. RoutedFirst'
  BY <1>1, <1>2, <1>3, <1>4, <1>5 DEF CopyInv, RoutedFirst
<1>7. OneCarrier'
  BY <1>2, <1>3, <1>4 DEF CopyInv, OneCarrier
<1>8. OwedOnly'
  BY <1>1, <1>2, <1>3, <1>4 DEF CopyInv, OwedOnly, Owes
<1> QED BY <1>1, <1>6, <1>7, <1>8 DEF CopyInv, LoadedOnly, PostedOnly, Distinct

(* route_publish gives the message to the node's own subscribers.          *)
LEMMA RouteCopies ==
    ASSUME RelayTypeOK, CallsSound, CopyInv, NEW n \in Node, NEW t \in Thread, Route(n, t)
    PROVE  CopyInv'
<1>1. PICK m : m = call[n][t].m
  OBVIOUS
<1>2. /\ UNCHANGED <<conn, inbox, origin>> /\ call[n][t].pc = "route" /\ m \in Message
      /\ origin[m] = n
  BY <1>1 DEF Route, At, wire, CallsSound
<1>3. PICK c \in Call : /\ call' = [call EXCEPT ![n][t] = c] /\ c.pc = "check" /\ c.m = m
                        /\ c.todo = call[n][t].todo
  <2> DEFINE c == [call[n][t] EXCEPT !.pc = "check"]
  <2>1. c \in Call /\ call' = [call EXCEPT ![n][t] = c]
    BY GotoUpdate DEF Route, CallPc
  <2>2. c.pc = "check" /\ c.m = call[n][t].m /\ c.todo = call[n][t].todo
    BY DEF RelayTypeOK, Call
  <2> HIDE DEF c
  <2> QED BY <1>1, <2>1, <2>2
<1>4. \A a \in Node, u \in Thread : call'[a][u] = IF a = n /\ u = t THEN c ELSE call[a][u]
  BY <1>3, CallUpdate
<1>5. /\ m \notin Items(inbox[n]) /\ m \notin Items(delivered[n])
      /\ \A l \in Link : l[2] = n => m \notin Cargo(conn[l])
  <2>1. Owes(call[n][t], n, n, m)
    BY <1>1, <1>2 DEF Owes
  <2> QED BY <1>2, <2>1 DEF CopyInv, OwedOnly
<1>6. /\ Items(delivered'[n]) = Items(delivered[n]) \cup {m} /\ Injective(delivered'[n])
      /\ \A b \in Node : b # n => delivered'[b] = delivered[b]
  <2>1. delivered[n] \in Seq(Message) /\ Injective(delivered[n])
    BY DEF RelayTypeOK, CopyInv, Distinct
  <2>2. /\ delivered'[n] = Append(delivered[n], m)
        /\ \A b \in Node : b # n => delivered'[b] = delivered[b]
    BY <1>1 DEF Route, RelayTypeOK
  <2> QED BY <1>2, <1>5, <2>1, <2>2, AppendItems
<1>7. \A b \in Node, x \in Message : Owes(c, n, b, x) => b # n /\ x = m /\ Owes(call[n][t], n, b, x)
  BY <1>1, <1>2, <1>3 DEF Owes
<1>8. RoutedFirst'
  <2>1. \A b \in Node : Items(delivered[b]) \subseteq Items(delivered'[b])
    BY <1>6
  <2>2. ASSUME NEW a \in Node, NEW u \in Thread, call'[a][u].pc \notin {"idle", "route"}
        PROVE  call'[a][u].m \in Items(delivered'[a])
    BY <1>3, <1>4, <1>6, <2>1, <2>2 DEF CopyInv, RoutedFirst
  <2>3. ASSUME NEW l \in Link, NEW x \in Cargo(conn[l])
        PROVE  origin[x] = l[1] /\ x \in Items(delivered'[l[1]])
    BY <2>1, LinkFacts DEF CopyInv, RoutedFirst
  <2>4. ASSUME NEW b \in Node, NEW x \in Items(inbox[b]) \cup Items(delivered'[b])
        PROVE  origin[x] \in Node /\ x \in Items(delivered'[origin[x]])
    <3>1. x = m \/ x \in Items(inbox[b]) \cup Items(delivered[b])
      BY <1>6
    <3> QED BY <1>2, <1>6, <2>1, <3>1 DEF CopyInv, RoutedFirst
  <2> QED BY <1>2, <2>2, <2>3, <2>4 DEF RoutedFirst
<1>9. OneCarrier'
  BY <1>1, <1>2, <1>3, <1>4 DEF CopyInv, OneCarrier
<1>10. OwedOnly'
  <2> SUFFICES ASSUME NEW a \in Node, NEW u \in Thread, NEW b \in Node, NEW x \in Message,
                      Owes(call'[a][u], a, b, x)
               PROVE  /\ x \notin Items(inbox[b]) /\ x \notin Items(delivered'[b])
                      /\ \A l \in Link : l[2] = b => x \notin Cargo(conn[l])
    BY <1>2 DEF OwedOnly
  <2>1. Owes(call[a][u], a, b, x)
    BY <1>4, <1>7
  <2>2. b = n => x # m
    <3> SUFFICES ASSUME b = n, x = m PROVE FALSE
      OBVIOUS
    <3>1. call[a][u].pc # "idle" /\ call[a][u].m = m /\ call[n][t].pc # "idle"
      BY <1>2, <2>1 DEF Owes
    <3>2. a = n
      BY <1>2, <3>1 DEF CallsSound
    <3>3. u = t
      BY <1>1, <3>1, <3>2 DEF CopyInv, OneCarrier
    <3> QED BY <1>4, <1>7, <3>2, <3>3
  <2> QED BY <1>6, <2>1, <2>2 DEF CopyInv, OwedOnly
<1>11. LoadedOnly'
  BY <1>2, <1>5, <1>6, LinkFacts DEF CopyInv, LoadedOnly
<1>12. PostedOnly'
  BY <1>2, <1>5, <1>6 DEF CopyInv, PostedOnly
<1>13. Distinct'
  BY <1>2, <1>6 DEF CopyInv, Distinct
<1> QED BY <1>8, <1>9, <1>10, <1>11, <1>12, <1>13 DEF CopyInv

(* BrokerRelayActor::handle gives a posted message to the subscribers.     *)
LEMMA HandleCopies ==
    ASSUME RelayTypeOK, CopyInv, NEW n \in Node, Handle(n)
    PROVE  CopyInv'
<1>1. PICK m : m = Head(inbox[n])
  OBVIOUS
<1>2. /\ UNCHANGED <<conn, call, origin>> /\ inbox[n] \in Seq(Message) /\ inbox[n] # << >>
      /\ delivered[n] \in Seq(Message) /\ Injective(inbox[n]) /\ Injective(delivered[n])
  BY DEF Handle, wire, RelayTypeOK, CopyInv, Distinct
<1>3. /\ inbox'[n] = Tail(inbox[n]) /\ delivered'[n] = Append(delivered[n], m)
      /\ \A b \in Node : b # n => inbox'[b] = inbox[b] /\ delivered'[b] = delivered[b]
  BY <1>1 DEF Handle, DeliverRemote, RelayTypeOK
<1>4. /\ m \in Message /\ Items(inbox[n]) = Items(inbox'[n]) \cup {m}
      /\ Injective(inbox'[n]) /\ m \notin Items(inbox'[n])
  BY <1>1, <1>2, <1>3, TailItems
<1>5. m \notin Items(delivered[n]) /\ origin[m] \in Node /\ m \in Items(delivered[origin[m]])
  BY <1>4 DEF CopyInv, PostedOnly, RoutedFirst
<1>6. Items(delivered'[n]) = Items(delivered[n]) \cup {m} /\ Injective(delivered'[n])
  BY <1>2, <1>3, <1>4, <1>5, AppendItems
<1>7. \A b \in Node : /\ Items(inbox'[b]) \subseteq Items(inbox[b])
                      /\ Items(delivered[b]) \subseteq Items(delivered'[b])
                      /\ Items(inbox'[b]) \cup Items(delivered'[b]) =
                            Items(inbox[b]) \cup Items(delivered[b])
  BY <1>3, <1>4, <1>6
<1>8. RoutedFirst'
  BY <1>2, <1>7, LinkFacts DEF CopyInv, RoutedFirst
<1>9. OneCarrier' /\ OwedOnly'
  BY <1>2, <1>7 DEF CopyInv, OneCarrier, OwedOnly
<1>10. LoadedOnly'
  BY <1>2, <1>7, LinkFacts DEF CopyInv, LoadedOnly
<1>11. PostedOnly'
  BY <1>3, <1>4, <1>6 DEF CopyInv, PostedOnly
<1>12. Distinct'
  BY <1>2, <1>3, <1>4, <1>6 DEF CopyInv, Distinct
<1> QED BY <1>8, <1>9, <1>10, <1>11, <1>12 DEF CopyInv

(* What an appended piece adds to the cargo of a connection.               *)
LEMMA AppendCargo ==
    ASSUME NEW c \in Conn, NEW d \in Conn, NEW m \in Message, NEW pc \in {"length", "body"},
           c.stream \in Seq(Piece), d.stream = Append(c.stream, <<pc, m>>),
           d.reader = c.reader, d.held = c.held
    PROVE  /\ pc = "length" => Cargo(d) = Cargo(c)
           /\ pc = "body" => Cargo(d) = Cargo(c) \cup {m}
           /\ Single(c) /\ (pc = "body" => m \notin Cargo(c)) => Single(d)
<1>1. PICK s, z : s = c.stream /\ z = d.stream
  OBVIOUS
<1>2. s \in Seq(Piece) /\ <<pc, m>> \in Piece /\ z = Append(s, <<pc, m>>)
  BY <1>1 DEF Piece
<1>3. Items(z) = Items(s) \cup {<<pc, m>>}
  BY <1>2, AppendItems
<1>4. pc = "length" => Loaded(z) = Loaded(s)
  BY <1>3 DEF Loaded
<1>5. pc = "body" => Loaded(z) = Loaded(s) \cup {m}
  BY <1>3 DEF Loaded
<1>6. /\ pc = "length" => Cargo(d) = Cargo(c)
      /\ pc = "body" => Cargo(d) = Cargo(c) \cup {m}
  BY <1>1, <1>4, <1>5 DEF Cargo
<1>7. ASSUME Single(c), pc = "body" => m \notin Cargo(c) PROVE Single(d)
  <2>1. /\ Len(s) \in Nat /\ Len(z) = Len(s) + 1 /\ z[Len(s) + 1] = <<pc, m>>
        /\ \A i \in 1..Len(s) : z[i] = s[i]
    BY <1>2
  <2>2. pc = "body" => \A i \in 1..Len(s) : s[i] # <<pc, m>>
    BY <1>1, <1>7 DEF Cargo, Loaded, Items
  <2>3. ASSUME NEW i \in 1..Len(z), NEW j \in 1..Len(z), z[i] = z[j], z[i][1] = "body"
        PROVE  i = j
    <3>1. CASE i \in 1..Len(s) /\ j \in 1..Len(s)
      BY <1>1, <1>7, <2>1, <2>3, <3>1 DEF Single
    <3>2. CASE i = Len(s) + 1 \/ j = Len(s) + 1
      <4>1. z[i] = <<pc, m>> /\ z[j] = <<pc, m>> /\ pc = "body"
        BY <2>1, <2>3, <3>2
      <4> QED BY <2>1, <2>2, <2>3, <4>1
    <3> QED BY <2>1, <2>3, <3>1, <3>2
  <2>4. d.reader = "post" => d.held \notin Loaded(z)
    BY <1>1, <1>4, <1>5, <1>7 DEF Single, Cargo
  <2> QED BY <1>1, <2>3, <2>4 DEF Single
<1> QED BY <1>6, <1>7

(* send() puts the owed copy on the connection to the target.              *)
LEMMA WriteBodyCopies ==
    ASSUME RelayTypeOK, CallsSound, CopyInv, NEW n \in Node, NEW t \in Thread,
           Write(n, t, "body")
    PROVE  CopyInv'
<1>1. PICK l, m, z : /\ l = Wire(n, t) /\ m = call[n][t].m
                     /\ z = Append(conn[l].stream, <<"body", call[n][t].m>>)
  OBVIOUS
<1>2. /\ l \in Link /\ call[n][t].pc = "body" /\ m \in Message
      /\ conn[l].stream \in Seq(Piece)
      /\ \A j \in Link : j # l => conn'[j] = conn[j]
      /\ conn'[l].stream = z
      /\ conn'[l].reader = conn[l].reader /\ conn'[l].held = conn[l].held
  <2>1. "body" \in {"length", "body"}
    OBVIOUS
  <2> QED BY <1>1, <2>1, WriteUpdate
<1>3. /\ UNCHANGED <<inbox, delivered, origin>> /\ origin[m] = n
      /\ l[1] = n /\ l[2] = Target(n, t) /\ l[2] \in Node /\ l[2] # n
      /\ l[2] \in call[n][t].todo
  <2>1. Sending(n, t)
    BY <1>2 DEF Sending
  <2>2. l[1] = n /\ l[2] = Target(n, t)
    BY <1>1 DEF Wire
  <2> QED BY <1>1, <1>2, <2>1, <2>2, TargetIsPeer DEF Write, CallsSound
<1>4. PICK c \in Call :
        /\ call' = [call EXCEPT ![n][t] = c]
        /\ c.pc = "idle" \/ (c.pc = "send" /\ c.m = m /\ c.todo = call[n][t].todo \ {l[2]})
  <2>1. Sending(n, t) /\ Sent(n, t)
    BY <1>2 DEF Sending, Write
  <2>2. PICK c \in Call :
           /\ call' = [call EXCEPT ![n][t] = c]
           /\ \/ c = Idle
              \/ /\ c.pc = "send" /\ c.m = call[n][t].m /\ c.via = 0
                 /\ c.todo = call[n][t].todo \ {Target(n, t)} /\ c.todo # {}
    BY <2>1, SentUpdate
  <2>3. Idle.pc = "idle"
    BY DEF Idle
  <2>4. c.pc = "idle" \/ (c.pc = "send" /\ c.m = m /\ c.todo = call[n][t].todo \ {l[2]})
    BY <1>1, <1>3, <2>2, <2>3
  <2> QED BY <2>2, <2>4
<1>5. \A a \in Node, u \in Thread : call'[a][u] = IF a = n /\ u = t THEN c ELSE call[a][u]
  BY <1>4, CallUpdate
<1>6. /\ m \notin Items(inbox[l[2]]) /\ m \notin Items(delivered[l[2]])
      /\ \A k \in Link : k[2] = l[2] => m \notin Cargo(conn[k])
  <2>1. Owes(call[n][t], n, l[2], m)
    BY <1>1, <1>2, <1>3 DEF Owes
  <2> QED BY <1>2, <1>3, <2>1 DEF CopyInv, OwedOnly
<1>7. Cargo(conn'[l]) = Cargo(conn[l]) \cup {m} /\ Single(conn'[l])
  <2>1. Single(conn[l]) /\ m \notin Cargo(conn[l])
    BY <1>2, <1>6 DEF CopyInv, Distinct
  <2>2. conn[l] \in Conn /\ conn'[l] \in Conn
    BY <1>1, <1>2, WriteUpdate DEF RelayTypeOK
  <2>3. conn'[l].stream = Append(conn[l].stream, <<"body", m>>)
    BY <1>1, <1>2
  <2> QED BY <1>2, <2>1, <2>2, <2>3, AppendCargo
<1>8. /\ \A b \in Node, x \in Message :
            Owes(c, n, b, x) => b # l[2] /\ Owes(call[n][t], n, b, x)
      /\ c.pc # "idle" => c.m = m /\ c.pc # "route"
  BY <1>1, <1>2, <1>4 DEF Owes
<1>9. RoutedFirst'
  <2>1. m \in Items(delivered[n])
    BY <1>1, <1>2 DEF CopyInv, RoutedFirst
  <2>2. ASSUME NEW a \in Node, NEW u \in Thread, call'[a][u].pc \notin {"idle", "route"}
        PROVE  call'[a][u].m \in Items(delivered[a])
    BY <1>5, <1>8, <2>1, <2>2 DEF CopyInv, RoutedFirst
  <2>3. ASSUME NEW k \in Link, NEW x \in Cargo(conn'[k])
        PROVE  origin[x] = k[1] /\ x \in Items(delivered[k[1]])
    BY <1>2, <1>3, <1>7, <2>1 DEF CopyInv, RoutedFirst
  <2> QED BY <1>3, <2>2, <2>3 DEF CopyInv, RoutedFirst
<1>10. OneCarrier'
  BY <1>1, <1>2, <1>5, <1>8 DEF CopyInv, OneCarrier
<1>11. OwedOnly'
  <2> SUFFICES ASSUME NEW a \in Node, NEW u \in Thread, NEW b \in Node, NEW x \in Message,
                      Owes(call'[a][u], a, b, x)
               PROVE  /\ x \notin Items(inbox[b]) /\ x \notin Items(delivered[b])
                      /\ \A k \in Link : k[2] = b => x \notin Cargo(conn'[k])
    BY <1>3 DEF OwedOnly
  <2>1. Owes(call[a][u], a, b, x)
    BY <1>5, <1>8
  <2>2. b = l[2] => x # m
    <3> SUFFICES ASSUME b = l[2], x = m PROVE FALSE
      OBVIOUS
    <3>1. call[a][u].pc # "idle" /\ call[a][u].m = m /\ call[n][t].pc # "idle"
      BY <1>2, <2>1 DEF Owes
    <3>2. a = n
      BY <1>3, <3>1 DEF CallsSound
    <3>3. u = t
      BY <1>1, <3>1, <3>2 DEF CopyInv, OneCarrier
    <3> QED BY <1>5, <1>8, <3>2, <3>3
  <2> QED BY <1>2, <1>7, <2>1, <2>2 DEF CopyInv, OwedOnly
<1>12. LoadedOnly'
  <2> SUFFICES ASSUME NEW k \in Link, NEW x \in Cargo(conn'[k])
               PROVE  /\ x \notin Items(inbox[k[2]]) /\ x \notin Items(delivered[k[2]])
                      /\ \A j \in Link : j[2] = k[2] /\ j # k => x \notin Cargo(conn'[j])
    BY <1>3 DEF LoadedOnly
  <2>1. CASE x \in Cargo(conn[k])
    BY <1>2, <1>6, <1>7, <2>1 DEF CopyInv, LoadedOnly
  <2>2. CASE k = l /\ x = m
    BY <1>2, <1>6, <2>2
  <2> QED BY <1>2, <1>7, <2>1, <2>2
<1>13. PostedOnly' /\ Distinct'
  BY <1>2, <1>3, <1>7 DEF CopyInv, PostedOnly, Distinct
<1> QED BY <1>9, <1>10, <1>11, <1>12, <1>13 DEF CopyInv

(* The router posts the frame a reader holds.                              *)
LEMMA PostCopies ==
    ASSUME RelayTypeOK, CopyInv, NEW l \in Link, Post(l)
    PROVE  CopyInv'
<1>1. PICK m, b : m = conn[l].held /\ b = l[2]
  OBVIOUS
<1>2. /\ UNCHANGED <<call, delivered, origin>> /\ conn[l].reader = "post" /\ m \in Message
      /\ b \in Node /\ inbox[b] \in Seq(Message) /\ Injective(inbox[b])
  BY <1>1, LinkFacts DEF Post, RelayTypeOK, CopyInv, Distinct
<1>3. /\ conn'[l].stream = conn[l].stream /\ conn'[l].reader = "length"
      /\ \A k \in Link : k # l => conn'[k] = conn[k]
  BY DEF Post, RelayTypeOK, Conn
<1>4. Cargo(conn[l]) = Cargo(conn'[l]) \cup {m} /\ m \notin Cargo(conn'[l]) /\ Single(conn'[l])
  BY <1>1, <1>2, <1>3 DEF Cargo, CopyInv, Distinct, Single
<1>5. \A k \in Link : Cargo(conn'[k]) \subseteq Cargo(conn[k]) /\ Single(conn'[k])
  BY <1>3, <1>4 DEF CopyInv, Distinct
<1>6. CASE inbox' = inbox
  <2>1. \A a \in Node : Items(inbox'[a]) \subseteq Items(inbox[a]) /\ Injective(inbox'[a])
    BY <1>6 DEF CopyInv, Distinct
  <2> QED BY <1>2, <1>5, <2>1, CopiesShrink
<1>7. CASE inbox' = [inbox EXCEPT ![l[2]] = Append(inbox[l[2]], conn[l].held)]
  <2>1. /\ m \notin Items(inbox[b]) /\ m \notin Items(delivered[b])
        /\ \A k \in Link : k[2] = b => m \notin Cargo(conn'[k])
        /\ origin[m] = l[1] /\ l[1] \in Node /\ m \in Items(delivered[l[1]])
    <3>1. m \in Cargo(conn[l])
      BY <1>4
    <3>2. \A k \in Link : k[2] = b /\ k # l => m \notin Cargo(conn[k])
      BY <1>1, <3>1 DEF CopyInv, LoadedOnly
    <3> QED BY <1>1, <1>3, <1>4, <3>1, <3>2, LinkFacts DEF CopyInv, LoadedOnly, RoutedFirst
  <2>2. inbox'[b] = Append(inbox[b], m) /\ \A a \in Node : a # b => inbox'[a] = inbox[a]
    BY <1>1, <1>2, <1>7 DEF RelayTypeOK
  <2>3. Items(inbox'[b]) = Items(inbox[b]) \cup {m} /\ Injective(inbox'[b])
    BY <1>2, <2>1, <2>2, AppendItems
  <2>4. RoutedFirst'
    <3>1. ASSUME NEW a \in Node, NEW x \in Items(inbox'[a]) \cup Items(delivered[a])
          PROVE  origin[x] \in Node /\ x \in Items(delivered[origin[x]])
      <4>1. x = m \/ x \in Items(inbox[a]) \cup Items(delivered[a])
        BY <2>2, <2>3
      <4> QED BY <2>1, <4>1 DEF CopyInv, RoutedFirst
    <3> QED BY <1>2, <1>5, <3>1 DEF CopyInv, RoutedFirst
  <2>5. OneCarrier'
    BY <1>2 DEF CopyInv, OneCarrier
  <2>6. OwedOnly'
    <3> SUFFICES ASSUME NEW n \in Node, NEW t \in Thread, NEW a \in Node, NEW x \in Message,
                        Owes(call[n][t], n, a, x)
                 PROVE  /\ x \notin Items(inbox'[a]) /\ x \notin Items(delivered[a])
                        /\ \A k \in Link : k[2] = a => x \notin Cargo(conn'[k])
      BY <1>2 DEF OwedOnly
    <3>1. /\ x \notin Items(inbox[a]) /\ x \notin Items(delivered[a])
          /\ \A k \in Link : k[2] = a => x \notin Cargo(conn[k])
      BY DEF CopyInv, OwedOnly
    <3>2. a = b => x # m
      BY <1>1, <1>4, <3>1
    <3> QED BY <1>5, <2>2, <2>3, <3>1, <3>2
  <2>7. LoadedOnly'
    <3> SUFFICES ASSUME NEW k \in Link, NEW x \in Cargo(conn'[k])
                 PROVE  /\ x \notin Items(inbox'[k[2]]) /\ x \notin Items(delivered[k[2]])
                        /\ \A j \in Link : j[2] = k[2] /\ j # k => x \notin Cargo(conn'[j])
      BY <1>2 DEF LoadedOnly
    <3>1. /\ x \notin Items(inbox[k[2]]) /\ x \notin Items(delivered[k[2]]) /\ k[2] \in Node
          /\ \A j \in Link : j[2] = k[2] /\ j # k => x \notin Cargo(conn[j])
      BY <1>5, LinkFacts DEF CopyInv, LoadedOnly
    <3>2. k[2] = b => x # m
      BY <2>1
    <3> QED BY <1>5, <2>2, <2>3, <3>1, <3>2
  <2>8. PostedOnly'
    BY <1>2, <2>1, <2>2, <2>3 DEF CopyInv, PostedOnly
  <2>9. Distinct'
    BY <1>2, <1>5, <2>2, <2>3 DEF CopyInv, Distinct
  <2> QED BY <2>4, <2>5, <2>6, <2>7, <2>8, <2>9 DEF CopyInv
<1> QED BY <1>6, <1>7 DEF Post

(* read_exact takes one piece off the stream; the cargo stays.             *)
LEMMA ReadCargo ==
    ASSUME RelayTypeOK, FrameInv, Distinct, NEW l \in Link, Read(l)
    PROVE  Cargo(conn'[l]) \subseteq Cargo(conn[l]) /\ Single(conn'[l])
<1>1. PICK s, z : s = conn[l].stream /\ z = Tail(s)
  OBVIOUS
<1>2. /\ conn[l].reader \in {"length", "body"} /\ s # << >> /\ s \in Seq(Piece)
      /\ Single(conn[l]) /\ conn[l] \in Conn
  BY <1>1 DEF Read, RelayTypeOK, Conn, Distinct
<1>3. /\ Len(s) \in Nat /\ Len(s) # 0 /\ Head(s) = s[1] /\ s[1] \in Piece
      /\ Len(z) = Len(s) - 1 /\ \A i \in 1..Len(z) : z[i] = s[i + 1]
  <2>1. Len(s) \in Nat /\ Len(s) # 0 /\ Head(s) = s[1] /\ s[1] \in Piece
    BY <1>2
  <2>2. Len(z) = Len(s) - 1
    BY <1>1, <1>2, <2>1
  <2>3. \A i \in 1..Len(z) : z[i] = s[i + 1]
    BY <1>1, <1>2, <2>1, <2>2
  <2> QED BY <2>1, <2>2, <2>3
<1>4. /\ conn'[l].stream = z /\ conn'[l].held = s[1][2]
      /\ conn'[l].reader = IF conn[l].reader = "length" THEN "body" ELSE "post"
  BY <1>1, <1>2, <1>3 DEF Read, RelayTypeOK, Conn
<1>5. Items(s) = Items(z) \cup {s[1]}
  BY <1>1, <1>2, <1>3, TailItems
<1>6. conn[l].reader = "body" => s[1] = <<"body", s[1][2]>> /\ s[1][2] \in Message
  <2>1. InOrder(conn[l])
    BY DEF FrameInv, Framing
  <2>2. conn[l].reader = "body" => s[1] = <<"body", conn[l].held>>
    BY <1>1, <1>2, <2>1 DEF InOrder
  <2> QED BY <1>3, <2>2 DEF Piece
<1>7. Loaded(z) \subseteq Loaded(s)
  BY <1>5 DEF Loaded
<1>8. conn[l].reader = "body" => s[1][2] \in Loaded(s)
  BY <1>5, <1>6 DEF Loaded
<1>9. Cargo(conn'[l]) \subseteq Cargo(conn[l])
  BY <1>1, <1>2, <1>4, <1>7, <1>8 DEF Cargo
<1>10. \A i, j \in 1..Len(z) : z[i] = z[j] /\ z[i][1] = "body" => i = j
  <2> SUFFICES ASSUME NEW i \in 1..Len(z), NEW j \in 1..Len(z), z[i] = z[j], z[i][1] = "body"
               PROVE  i = j
    OBVIOUS
  <2>1. i + 1 \in 1..Len(s) /\ j + 1 \in 1..Len(s) /\ z[i] = s[i + 1] /\ z[j] = s[j + 1]
    BY <1>3
  <2>2. i + 1 = j + 1
    BY <1>1, <1>2, <2>1 DEF Single
  <2> QED BY <2>2
<1>11. conn'[l].reader = "post" => conn'[l].held \notin Loaded(z)
  <2> SUFFICES ASSUME conn'[l].reader = "post", s[1][2] \in Loaded(z) PROVE FALSE
    BY <1>4
  <2>1. s[1] = <<"body", s[1][2]>> /\ s[1] \in Items(z)
    BY <1>2, <1>4, <1>6 DEF Loaded
  <2>2. PICK i \in 1..Len(z) : s[1] = z[i]
    BY <2>1 DEF Items
  <2>3. i + 1 \in 1..Len(s) /\ 1 \in 1..Len(s) /\ s[i + 1] = s[1] /\ s[1][1] = "body"
    BY <1>3, <2>1, <2>2
  <2>4. i + 1 = 1
    BY <1>1, <1>2, <2>3 DEF Single
  <2> QED BY <2>4
<1> QED BY <1>4, <1>9, <1>10, <1>11 DEF Single

LEMMA ReceiveCopies ==
    ASSUME RelayTypeOK, FrameInv, CopyInv, NEW l \in Link, Receive(l) \/ Break(l)
    PROVE  CopyInv'
<1>1. CASE Post(l)
  BY <1>1, PostCopies
<1>2. CASE Accept(l) \/ Read(l) \/ ReaderEnds(l) \/ Break(l)
  <2>1. UNCHANGED <<call, inbox, delivered, origin>> /\ \A k \in Link : k # l => conn'[k] = conn[k]
    BY <1>2 DEF Accept, Read, ReaderEnds, Break, RelayTypeOK
  <2>2. Single(conn[l])
    BY DEF CopyInv, Distinct
  <2>3. Cargo(conn'[l]) \subseteq Cargo(conn[l]) /\ Single(conn'[l])
    <3>1. CASE Accept(l) \/ Break(l)
      <4>1. /\ conn'[l].stream = conn[l].stream /\ conn'[l].held = conn[l].held
            /\ conn'[l].reader = "post" <=> conn[l].reader = "post"
        BY <3>1 DEF Accept, Break, RelayTypeOK, Conn
      <4> QED BY <2>2, <4>1 DEF Cargo, Single
    <3>2. CASE ReaderEnds(l)
      <4>1. conn'[l].stream = << >> /\ conn'[l].reader # "post"
        BY <3>2 DEF ReaderEnds, RelayTypeOK, Unused
      <4>2. Loaded(<< >>) = {}
        BY DEF Loaded, Items
      <4> QED BY <4>1, <4>2 DEF Cargo, Single
    <3>3. CASE Read(l)
      BY <3>3, ReadCargo DEF CopyInv
    <3> QED BY <1>2, <3>1, <3>2, <3>3
  <2>4. \A k \in Link : Cargo(conn'[k]) \subseteq Cargo(conn[k]) /\ Single(conn'[k])
    BY <2>1, <2>3 DEF CopyInv, Distinct
  <2>5. \A b \in Node : Items(inbox'[b]) \subseteq Items(inbox[b]) /\ Injective(inbox'[b])
    BY <2>1 DEF CopyInv, Distinct
  <2> QED BY <2>1, <2>4, <2>5, CopiesShrink
<1> QED BY <1>1, <1>2 DEF Receive

LEMMA HostCopies ==
    ASSUME RelayTypeOK, CopyInv, NEW n \in Node, HostStep(n)
    PROVE  CopyInv'
<1>1. UNCHANGED <<call, delivered, origin>>
  BY DEF HostStep, Start, StartBroker, StartEngine, StartTransport, StartTransportFails,
         SetForwarder, StopBroker, AbandonCluster, Defang, StopTransport, JoinReaders,
         StopEngine, wire
<1>2. ASSUME NEW b \in Node
      PROVE  Items(inbox'[b]) \subseteq Items(inbox[b]) /\ Injective(inbox'[b])
  <2>1. inbox'[b] = inbox[b] \/ inbox'[b] = << >>
    BY DEF HostStep, Start, StartBroker, StartEngine, StartTransport, StartTransportFails,
           SetForwarder, StopBroker, AbandonCluster, Defang, StopTransport, JoinReaders,
           StopEngine, RelayTypeOK
  <2>2. Items(<< >>) = {} /\ Injective(<< >>)
    BY DEF Items, Injective
  <2> QED BY <2>1, <2>2 DEF CopyInv, Distinct
<1>3. ASSUME NEW l \in Link
      PROVE  Cargo(conn'[l]) \subseteq Cargo(conn[l]) /\ Single(conn'[l])
  <2>1. conn'[l] = conn[l] \/ conn'[l] = [conn[l] EXCEPT !.open = FALSE]
    BY DEF HostStep, Start, StartBroker, StartEngine, StartTransport, StartTransportFails,
           SetForwarder, StopBroker, AbandonCluster, Defang, StopTransport, JoinReaders,
           StopEngine, wire
  <2>2. conn[l] \in Conn /\ Single(conn[l])
    BY DEF RelayTypeOK, CopyInv, Distinct
  <2>3. /\ conn'[l].stream = conn[l].stream /\ conn'[l].held = conn[l].held
        /\ conn'[l].reader = conn[l].reader
    BY <2>1, <2>2 DEF Conn
  <2> QED BY <2>2, <2>3 DEF Cargo, Single
<1> QED BY <1>1, <1>2, <1>3, CopiesShrink

(* The steps of a session thread that move no copy.                        *)
LEMMA ThreadCopies ==
    ASSUME RelayTypeOK, CallsSound, CopyInv, NEW n \in Node, NEW t \in Thread,
           \/ CheckForwarder(n, t) \/ CallForwarder(n, t) \/ EnsurePeer(n, t)
           \/ DialFails(n, t) \/ WriteFails(n, t) \/ Write(n, t, "length")
    PROVE  CopyInv'
<1>1. /\ UNCHANGED <<inbox, delivered, origin>> /\ call[n][t].pc \notin {"idle", "route"}
      /\ Deliver(n, t)
  BY DEF CheckForwarder, CallForwarder, EnsurePeer, DialFails, WriteFails, Write, At, Deliver
<1>2. PICK c \in Call : call' = [call EXCEPT ![n][t] = c] /\ Becomes(n, t, c)
  BY <1>1, DeliverUpdate
<1>3. \A a \in Node, u \in Thread : call'[a][u] = IF a = n /\ u = t THEN c ELSE call[a][u]
  BY <1>2, CallUpdate
<1>4. /\ c.pc # "idle" => c.m = call[n][t].m
      /\ \A b \in Node, m \in Message : Owes(c, n, b, m) => Owes(call[n][t], n, b, m)
  <2>1. CASE c = Idle
    BY <2>1 DEF Idle, Owes
  <2>2. CASE \/ CheckForwarder(n, t) /\ c.pc = "call" /\ Same(c, call[n][t])
             \/ CallForwarder(n, t) /\ c.pc = "send" /\ c.m = call[n][t].m /\ c.todo = Peers(n)
    BY <2>2 DEF CheckForwarder, CallForwarder, At, Same, Owes, Peers
  <2>3. CASE \/ c.pc \in {"length", "body"} /\ Same(c, call[n][t])
             \/ /\ c.pc = "send" /\ c.m = call[n][t].m
                /\ c.todo = call[n][t].todo \ {Target(n, t)}
    BY <1>1, <2>3 DEF Same, Owes
  <2> QED BY <1>1, <1>2, <2>1, <2>2, <2>3 DEF Becomes, Publish, Route, At
<1>5. ASSUME NEW a \in Node, NEW u \in Thread
      PROVE  /\ \A b \in Node, m \in Message :
                   Owes(call'[a][u], a, b, m) => Owes(call[a][u], a, b, m)
             /\ call'[a][u].pc # "idle" => /\ call[a][u].pc # "idle"
                                           /\ call'[a][u].m = call[a][u].m
             /\ call'[a][u].pc \notin {"idle", "route"} => call[a][u].pc # "route"
  BY <1>1, <1>3, <1>4
<1>6. ASSUME NEW l \in Link
      PROVE  Cargo(conn'[l]) \subseteq Cargo(conn[l]) /\ Single(conn'[l])
  <2>1. Single(conn[l]) /\ conn[l] \in Conn
    BY DEF CopyInv, Distinct, RelayTypeOK
  <2>2. CASE conn' = conn
    BY <2>1, <2>2
  <2>3. CASE EnsurePeer(n, t) /\ fd[Peer(n, t)] = 0
    <3>1. PICK k \in Link :
             /\ \A j \in Link : j # k => conn'[j] = conn[j]
             /\ conn'[k].stream = conn[k].stream
             /\ conn'[k].reader = conn[k].reader /\ conn'[k].held = conn[k].held
      BY <2>3, DialUpdate
    <3> QED BY <2>1, <3>1 DEF Cargo, Single
  <2>4. CASE Write(n, t, "length")
    <3>1. PICK k, z : k = Wire(n, t) /\ z = Append(conn[k].stream, <<"length", call[n][t].m>>)
      OBVIOUS
    <3>2. /\ k \in Link /\ call[n][t].m \in Message /\ conn[k].stream \in Seq(Piece)
          /\ conn' \in [Link -> Conn] /\ \A j \in Link : j # k => conn'[j] = conn[j]
          /\ conn'[k].stream = z
          /\ conn'[k].reader = conn[k].reader /\ conn'[k].held = conn[k].held
      <4>1. "length" \in {"length", "body"}
        OBVIOUS
      <4> QED BY <2>4, <3>1, <4>1, WriteUpdate
    <3>3. CASE l # k
      BY <2>1, <3>2, <3>3
    <3>4. CASE l = k
      <4>1. conn'[l] \in Conn /\ conn'[l].stream = Append(conn[l].stream, <<"length", call[n][t].m>>)
        BY <3>1, <3>2, <3>4
      <4> QED BY <2>1, <3>2, <3>4, <4>1, AppendCargo
    <3> QED BY <3>3, <3>4
  <2> QED BY <2>2, <2>3, <2>4 DEF CheckForwarder, CallForwarder, EnsurePeer, DialFails,
             WriteFails, wire
<1>7. \A b \in Node : Items(inbox'[b]) \subseteq Items(inbox[b]) /\ Injective(inbox'[b])
  BY <1>1 DEF CopyInv, Distinct
<1> QED BY <1>1, <1>5, <1>6, <1>7, CopiesShrink

LEMMA NextCopies ==
    ASSUME RelayTypeOK, CallsSound, FrameInv, CopyInv, [Next]_vars
    PROVE  CopyInv'
<1>1. CASE UNCHANGED relayed
  BY <1>1 DEF relayed, wire, CopyInv, RoutedFirst, OneCarrier, OwedOnly, LoadedOnly, PostedOnly,
         Distinct
<1>2. ASSUME NEW n \in Node, NEW t \in Thread, Deliver(n, t) PROVE CopyInv'
  BY <1>2, RouteCopies, WriteBodyCopies, ThreadCopies DEF Deliver
<1> QED BY <1>1, <1>2, StepIs, HostCopies, HandleCopies, PublishCopies, ReceiveCopies

-----------------------------------------------------------------------------
(* Theorems                                                                *)

LEMMA InitRelay == Init => RelayInv
<1> SUFFICES ASSUME Init PROVE RelayInv
  OBVIOUS
<1>1. RelayTypeOK /\ CallsSound
  BY InitTyped
<1>2. /\ \A n \in Node, t \in Thread : call[n][t].pc = "idle"
      /\ \A l \in Link : conn[l] = Unused
      /\ \A n \in Node : /\ inbox[n] = << >> /\ delivered[n] = << >> /\ running[n] = FALSE
                         /\ stage[n] = "off"
      /\ fault = {}
  BY DEF Init, Idle
<1>3. /\ Unused.stream = << >> /\ ~Unused.open /\ Unused.reader = "none" /\ Unused.held = None
      /\ Items(<< >>) = {} /\ Injective(<< >>) /\ Loaded(<< >>) = {}
  BY DEF Unused, Items, Injective, Loaded
<1>4. StopOrdered
  BY <1>2, <1>3 DEF StopOrdered, NodeOrdered, ReaderServed
<1>5. FrameInv
  <2>1. InOrder(Unused)
    BY <1>3 DEF InOrder
  <2> QED BY <1>2, <1>3, <2>1 DEF FrameInv, OneWriter, Writing, Framing
<1>6. CopyInv
  <2>1. Cargo(Unused) = {} /\ Single(Unused)
    BY <1>3 DEF Cargo, Single
  <2> QED BY <1>2, <1>3, <2>1, LinkFacts
         DEF CopyInv, RoutedFirst, OneCarrier, OwedOnly, Owes, LoadedOnly, PostedOnly, Distinct
<1>7. StreamFramed /\ NothingAfterStop
  BY <1>2 DEF StreamFramed, NothingAfterStop
<1> QED BY <1>1, <1>4, <1>5, <1>6, <1>7 DEF RelayInv

LEMMA NextRelay == RelayInv /\ [Next]_vars => RelayInv'
<1> SUFFICES ASSUME RelayInv, [Next]_vars PROVE RelayInv'
  OBVIOUS
<1>1. /\ RelayTypeOK /\ CallsSound /\ StopOrdered /\ FrameInv /\ CopyInv
      /\ StreamFramed /\ NothingAfterStop
  BY DEF RelayInv
<1>2. RelayTypeOK' /\ CallsSound'
  BY <1>1, NextTyped
<1>3. StopOrdered' /\ NothingAfterStop'
  BY <1>1, NextOrdered
<1>4. FrameInv' /\ StreamFramed'
  BY <1>1, NextFramed
<1>5. CopyInv'
  BY <1>1, NextCopies
<1> QED BY <1>2, <1>3, <1>4, <1>5 DEF RelayInv

(* The relay keeps its invariant, whatever threads, connections and stops   *)
(* do (broker_cluster.hpp, tcp_transport.hpp).                             *)
THEOREM RelayInvariance == Spec => []RelayInv
BY InitRelay, NextRelay, PTL DEF Spec

(* No reader is ever put out of frame: not by two session threads sending  *)
(* to one peer, nor by a connection that breaks between the length and the *)
(* body (tcp_transport.hpp:151-172, 246-258).                              *)
THEOREM StreamsStayFramed == Spec => []StreamFramed
<1>1. RelayInv => StreamFramed
  BY DEF RelayInv
<1> QED BY <1>1, RelayInvariance, PTL

(* No thread calls a forwarder that stop() has taken away or posts to an   *)
(* engine it has destroyed (runtime.hpp:354-360, broker_cluster.hpp:347-   *)
(* 357).                                                                   *)
THEOREM StopIsOrdered == Spec => []NothingAfterStop
<1>1. RelayInv => NothingAfterStop
  BY DEF RelayInv
<1> QED BY <1>1, RelayInvariance, PTL

(* A sequence without repetitions has as many members as places.           *)
LEMMA InjectiveCardinality ==
    ASSUME NEW S, NEW s \in Seq(S), Injective(s)
    PROVE  Cardinality(Items(s)) = Len(s)
<1>1. Len(s) \in Nat /\ s \in [1..Len(s) -> Items(s)]
  BY DEF Items
<1>2. s \in Bijection(1..Len(s), Items(s))
  <2>1. \A a, b \in 1..Len(s) : s[a] = s[b] => a = b
    BY DEF Injective
  <2>2. \A y \in Items(s) : \E a \in 1..Len(s) : s[a] = y
    BY DEF Items
  <2>3. s \in Injection(1..Len(s), Items(s))
    BY <1>1, <2>1 DEF Injection, IsInjective
  <2>4. s \in Surjection(1..Len(s), Items(s))
    BY <1>1, <2>2 DEF Surjection
  <2> QED BY <2>3, <2>4 DEF Bijection
<1>3. IsFiniteSet(1..Len(s)) /\ Cardinality(1..Len(s)) = Len(s)
  BY <1>1, FS_Interval
<1> QED BY <1>2, <1>3, FS_Bijection DEF ExistsBijection

(* Every broker routes a message to its subscribers once, and a peer none  *)
(* that the publishing node has not routed, whatever connections break and *)
(* are redialled (native_broker.hpp:302-314, 1605-1620).  Nothing is said  *)
(* of when the subscribers of either node are written to.                  *)
THEOREM MessagesRelayedOnce == Spec => []RelayedOnce
<1>1. RelayInv => RelayedOnce
  <2> SUFFICES ASSUME RelayInv, NEW n \in Node
               PROVE  /\ Cardinality(Items(delivered[n])) = Len(delivered[n])
                      /\ \A m \in Items(delivered[n]) : m \in Items(delivered[origin[m]])
    BY DEF RelayedOnce
  <2>1. delivered[n] \in Seq(Message) /\ Injective(delivered[n])
    BY DEF RelayInv, RelayTypeOK, CopyInv, Distinct
  <2>2. Cardinality(Items(delivered[n])) = Len(delivered[n])
    BY <2>1, InjectiveCardinality
  <2>3. \A m \in Items(delivered[n]) : m \in Items(delivered[origin[m]])
    BY DEF RelayInv, CopyInv, RoutedFirst
  <2> QED BY <2>2, <2>3
<1> QED BY <1>1, RelayInvariance, PTL

=============================================================================
