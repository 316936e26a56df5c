------------------------------- MODULE Relay -------------------------------
(***************************************************************************)
(* Brokers of one cluster relay every locally published message to their   *)
(* peers: NativeBroker::deliver_publish and deliver_remote_publish,         *)
(* BrokerCluster (broker_cluster.hpp) and the TcpTransport under it         *)
(* (tcp_transport.hpp), started and stopped by Runtime (runtime.hpp).       *)
(*                                                                         *)
(* The threads are: on every node the broker's threads that publish (the    *)
(* reactor, the TLS session threads, the one in stop()), each in            *)
(* deliver_publish for one message; one reader thread per accepted          *)
(* connection; the worker of the relay engine; and the thread that starts   *)
(* and stops the node.  A frame is two pieces on the stream, its length and *)
(* its body, because send() writes them one after the other.                *)
(***************************************************************************)
EXTENDS Integers, Sequences, FiniteSets

CONSTANTS
    Node,        \* the members, numbered by NodeId
    Thread,      \* threads of one broker that publish
    ReactorThread, \* the one that serves the plaintext sessions
    Message,     \* messages, each published once by some client
    Slow,        \* those with TLS subscribers, or more than 256, where published
    MaxDials,    \* bound: connections from one node to another over a behaviour
    Capacity     \* pieces a connection holds before the writer must wait

None == 0

\* NodeId 0 names no node; a cluster of one has nobody to relay to.
ASSUME RelayAssumption ==
    /\ Node \subseteq Int \ {None} /\ IsFiniteSet(Node)
    /\ \E a, b \in Node : a # b
    /\ None \notin Message /\ Slow \subseteq Message /\ ReactorThread \in Thread
    /\ MaxDials \in Nat \ {0} /\ Capacity \in Nat \ {0}

VARIABLES
    stage,      \* node -> how far Runtime has started or stopped it
    forwarder,  \* node -> NativeBroker::peer_forwarder_: null, half written, or whole
    engine,     \* node -> the relay engine: none, running or destroyed
    running,    \* node -> TcpTransport::running_
    call,       \* node -> thread -> where the thread is in deliver_publish
    sendLock,   \* node -> is TcpTransport::send_mu_ held
    fd,         \* <<from, to>> -> the cached connection, peer_fd_ (0: invalid)
    dials,      \* <<from, to>> -> connections made so far
    conn,       \* <<from, to, i>> -> that connection
    inbox,      \* node -> frames posted to the relay actor
    delivered,  \* node -> messages route_publish was given, in order
    owed,       \* node -> messages routed to subscribers that wait in the hand-off
                \* queue or in a batch posted to the reactor
    origin,     \* message -> the node that published it, or None
    fault       \* the misuses that have happened

wire == <<sendLock, fd, dials, conn>>
host == <<stage, forwarder, engine, running>>
relayed == <<host, wire, call, inbox, delivered, origin, fault>>
vars == <<relayed, owed>>

Pair == {p \in Node \X Node : p[1] # p[2]}
Link == {<<p[1], p[2], i>> : p \in Pair, i \in 1..MaxDials}

Idle == [pc |-> "idle", m |-> None, todo |-> {}, via |-> 0]

\* A connection: the pieces on their way, whether the sender's side is open,
\* and the reader thread at the other end (none before it is accepted).
Unused == [stream |-> <<>>, open |-> FALSE, reader |-> "none", held |-> None]

Init ==
    /\ stage = [n \in Node |-> "off"]
    /\ forwarder = [n \in Node |-> "null"]
    /\ engine = [n \in Node |-> "none"]
    /\ running = [n \in Node |-> FALSE]
    /\ call = [n \in Node |-> [t \in Thread |-> Idle]]
    /\ sendLock = [n \in Node |-> FALSE]
    /\ fd = [p \in Pair |-> 0]
    /\ dials = [p \in Pair |-> 0]
    /\ conn = [l \in Link |-> Unused]
    /\ inbox = [n \in Node |-> <<>>]
    /\ delivered = [n \in Node |-> <<>>]
    /\ owed = [n \in Node |-> {}]
    /\ origin = [m \in Message |-> None]
    /\ fault = {}

(***************************************************************************)
(* Start: Runtime::configure_broker, BrokerCluster::start.                  *)
(***************************************************************************)
Move(n, from, to) == stage[n] = from /\ stage' = [stage EXCEPT ![n] = to]

\* The broker accepts clients before the cluster exists.
StartBroker(n) ==
    /\ Move(n, "off", "broker")
    /\ UNCHANGED <<forwarder, engine, running, wire, call, inbox, delivered, origin, fault, owed>>

StartEngine(n) ==
    /\ Move(n, "broker", "engine")
    /\ engine' = [engine EXCEPT ![n] = "running"]
    /\ UNCHANGED <<forwarder, running, wire, call, inbox, delivered, origin, fault, owed>>

StartTransport(n) ==
    /\ Move(n, "engine", "wired")
    /\ running' = [running EXCEPT ![n] = TRUE]
    /\ UNCHANGED <<forwarder, engine, wire, call, inbox, delivered, origin, fault, owed>>

\* tcp_listen fails: the port is taken.
StartTransportFails(n) ==
    /\ Move(n, "engine", "failing")
    /\ UNCHANGED <<forwarder, engine, running, wire, call, inbox, delivered, origin, fault, owed>>

\* set_peer_forwarder assigns a std::function other threads may be reading:
\* its manager and its invoker are two words, and a reader may see one only.
SetForwarder(n) ==
    /\ \/ Move(n, "wired", "wiring") /\ forwarder' = [forwarder EXCEPT ![n] = "half"]
       \/ Move(n, "wiring", "up") /\ forwarder' = [forwarder EXCEPT ![n] = "whole"]
    /\ UNCHANGED <<engine, running, wire, call, inbox, delivered, origin, fault, owed>>

\* configure_broker's failure path: the broker is stopped and destroyed, then
\* the cluster's destructor runs stop(), which assigns the broker's forwarder.
AbandonCluster(n) ==
    /\ Move(n, "failing", "failed")
    /\ call[n] = [t \in Thread |-> Idle]
    /\ engine' = [engine EXCEPT ![n] = "destroyed"]
    /\ fault' = fault \cup {"broker used after destruction"}
    /\ UNCHANGED <<forwarder, running, wire, call, inbox, delivered, origin, owed>>

(***************************************************************************)
(* deliver_publish on a session thread.                                     *)
(***************************************************************************)
At(n, t, pc) == call[n][t].pc = pc
Goto(n, t, pc) == call' = [call EXCEPT ![n][t].pc = pc]
Done(n, t) == call' = [call EXCEPT ![n][t] = Idle]

\* Clients publish as long as their session lives; stop() itself still publishes
\* the Wills of the sessions it ends.
Accepting(n) ==
    stage[n] \in {"broker", "engine", "wired", "wiring", "up", "failing", "stopping"}

Publish(n, t, m) ==
    /\ Accepting(n) /\ At(n, t, "idle") /\ origin[m] = None
    /\ origin' = [origin EXCEPT ![m] = n]
    /\ call' = [call EXCEPT ![n][t] = [Idle EXCEPT !.pc = "route", !.m = m]]
    /\ UNCHANGED <<host, wire, inbox, delivered, fault, owed>>

\* route_publish.  On the reactor thread it returns with TLS recipients waiting
\* in the hand-off queue and with those beyond a batch of 256 waiting in a posted
\* task; other threads write to each recipient.
Route(n, t) ==
    /\ At(n, t, "route") /\ Goto(n, t, "check")
    /\ delivered' = [delivered EXCEPT ![n] = Append(@, call[n][t].m)]
    /\ owed' = IF t = ReactorThread THEN [owed EXCEPT ![n] = @ \cup ({call[n][t].m} \cap Slow)]
               ELSE owed
    /\ UNCHANGED <<host, wire, inbox, origin, fault>>

\* The last of them is written by a hand-off worker or a posted batch, or given
\* up: the queue drops its oldest, a send its deadline, a stopped reactor its tasks.
SettleOwed(n, m) ==
    /\ m \in owed[n]
    /\ owed' = [owed EXCEPT ![n] = @ \ {m}]
    /\ UNCHANGED relayed

CheckForwarder(n, t) ==
    /\ At(n, t, "check")
    /\ IF forwarder[n] = "null" THEN Done(n, t) ELSE Goto(n, t, "call")
    /\ UNCHANGED <<host, wire, inbox, delivered, origin, fault, owed>>

\* The static membership without the node itself, in the order of NodeId.
Peers(n) == Node \ {n}

\* The call itself reads peer_forwarder_ again; broadcast goes to every member
\* but this node.
CallForwarder(n, t) ==
    /\ At(n, t, "call")
    /\ IF forwarder[n] = "whole"
       THEN /\ call' = [call EXCEPT ![n][t] = [@ EXCEPT !.pc = "send", !.todo = Peers(n)]]
            /\ UNCHANGED fault
       ELSE /\ Done(n, t)
            /\ fault' = fault \cup {IF forwarder[n] = "half" THEN "torn forwarder called"
                                                             ELSE "forwarder called after stop"}
    /\ UNCHANGED <<host, wire, inbox, delivered, origin, owed>>

(***************************************************************************)
(* TcpTransport::send.                                                      *)
(***************************************************************************)
Lowest(S) == CHOOSE p \in S : \A q \in S : p <= q
Target(n, t) == Lowest(call[n][t].todo)
Peer(n, t) == <<n, Target(n, t)>>
Wire(n, t) == <<n, Target(n, t), call[n][t].via>>

Sent(n, t) ==
    LET rest == call[n][t].todo \ {Target(n, t)} IN
    IF rest = {} THEN Done(n, t)
    ELSE call' = [call EXCEPT ![n][t] = [@ EXCEPT !.pc = "send", !.todo = rest, !.via = 0]]

\* Mutant: send() does not take send_mu_.
TakeLockNever(n) == UNCHANGED sendLock

TakeLock(n) == ~sendLock[n] /\ sendLock' = [sendLock EXCEPT ![n] = TRUE]
ReleaseLock(n) == sendLock' = [sendLock EXCEPT ![n] = FALSE]

Using(n, t, i) == call' = [call EXCEPT ![n][t] = [@ EXCEPT !.pc = "length", !.via = i]]

\* ensure_peer: the cached connection, or a new one if the peer listens.
EnsurePeer(n, t) ==
    /\ At(n, t, "send") /\ TakeLock(n)
    /\ LET p == Peer(n, t)  l == <<p[1], p[2], dials[p] + 1>> IN
       IF fd[p] # 0
       THEN Using(n, t, fd[p]) /\ UNCHANGED <<fd, dials, conn, owed>>
       ELSE /\ running[p[2]] /\ dials[p] < MaxDials
            /\ dials' = [dials EXCEPT ![p] = @ + 1]
            /\ fd' = [fd EXCEPT ![p] = dials[p] + 1]
            /\ conn' = [conn EXCEPT ![l].open = TRUE]
            /\ Using(n, t, dials[p] + 1)
    /\ UNCHANGED <<host, inbox, delivered, origin, fault, owed>>

\* The dial fails: the peer does not listen, or does not answer in time.
DialFails(n, t) ==
    /\ At(n, t, "send") /\ ~sendLock[n] /\ fd[Peer(n, t)] = 0
    /\ Sent(n, t)
    /\ UNCHANGED <<host, wire, inbox, delivered, origin, fault, owed>>

\* What encode_frame and the length before it put on the stream, and what a
\* reader makes of a length piece and a body piece read one after the other.
Frame(m) == [length |-> <<"length", m>>, body |-> <<"body", m>>]
Framed(state, held, piece) == piece = Frame(piece[2])[state] /\ held \in {None, piece[2]}

\* write_all of the length, then of the body: it waits while the peer's buffer
\* is full.  The lock is held across both.
Write(n, t, pc) ==
    /\ At(n, t, pc) /\ conn[Wire(n, t)].open
    /\ Len(conn[Wire(n, t)].stream) < Capacity
    /\ conn' = [conn EXCEPT ![Wire(n, t)].stream = Append(@, Frame(call[n][t].m)[pc])]
    /\ IF pc = "length" THEN Goto(n, t, "body") /\ UNCHANGED sendLock
       ELSE Sent(n, t) /\ ReleaseLock(n)
    /\ UNCHANGED <<host, fd, dials, inbox, delivered, origin, fault, owed>>

\* A failed write drops the connection and the frame; the next send redials.
WriteFails(n, t) ==
    /\ call[n][t].pc \in {"length", "body"} /\ ~conn[Wire(n, t)].open
    /\ fd' = [fd EXCEPT ![Peer(n, t)] = 0]
    /\ Sent(n, t) /\ ReleaseLock(n)
    /\ UNCHANGED <<host, dials, conn, inbox, delivered, origin, fault, owed>>

\* The network or the peer breaks a connection; what has arrived stays readable.
Break(l) ==
    /\ conn[l].open
    /\ conn' = [conn EXCEPT ![l].open = FALSE]
    /\ UNCHANGED <<host, sendLock, fd, dials, call, inbox, delivered, origin, fault, owed>>

(***************************************************************************)
(* The receiving side: accept_loop, reader_loop, BrokerRelayActor.          *)
(***************************************************************************)
Accept(l) ==
    /\ running[l[2]] /\ conn[l].reader = "none" /\ l[3] <= dials[<<l[1], l[2]>>]
    /\ conn' = [conn EXCEPT ![l].reader = "length"]
    /\ UNCHANGED <<host, sendLock, fd, dials, call, inbox, delivered, origin, fault, owed>>

\* read_exact of the length, then of the body.
Read(l) ==
    /\ conn[l].reader \in {"length", "body"} /\ running[l[2]] /\ conn[l].stream # <<>>
    /\ LET piece == Head(conn[l].stream)
           next == IF conn[l].reader = "length" THEN "body" ELSE "post" IN
       /\ conn' = [conn EXCEPT ![l] = [@ EXCEPT
                     !.stream = Tail(conn[l].stream), !.held = piece[2], !.reader = next]]
       /\ fault' = IF Framed(conn[l].reader, conn[l].held, piece) THEN fault
                   ELSE fault \cup {"stream out of frame"}
    /\ UNCHANGED <<host, sendLock, fd, dials, call, inbox, delivered, origin, owed>>

\* cb_: the router posts the frame to the relay actor's engine.
Post(l) ==
    /\ conn[l].reader = "post"
    /\ conn' = [conn EXCEPT ![l] = [@ EXCEPT !.reader = "length", !.held = None]]
    /\ IF engine[l[2]] = "running"
       THEN inbox' = [inbox EXCEPT ![l[2]] = Append(@, conn[l].held)] /\ UNCHANGED fault
       ELSE fault' = fault \cup {"frame posted to a destroyed engine"} /\ UNCHANGED inbox
    /\ UNCHANGED <<host, sendLock, fd, dials, call, delivered, origin, owed>>

\* Mutant: a reader notices only the end of its connection, never the stop.
MayEndOnEofOnly(l) == ~conn[l].open /\ conn[l].stream = <<>>

\* read_exact gives up when the transport stops or the stream has ended.
MayEnd(l) == ~running[l[2]] \/ (~conn[l].open /\ conn[l].stream = <<>>)

ReaderEnds(l) ==
    /\ conn[l].reader \in {"length", "body"} /\ MayEnd(l)
    /\ conn' = [conn EXCEPT ![l] = [Unused EXCEPT !.reader = "gone"]]
    /\ UNCHANGED <<host, sendLock, fd, dials, call, inbox, delivered, origin, fault, owed>>

\* deliver_remote_publish: routed to the local subscribers and no further.
DeliverRemote(n, m) == delivered' = [delivered EXCEPT ![n] = Append(@, m)]

\* Mutant: the relayed message is delivered like a local one.
HandleAsLocal(n) ==
    /\ engine[n] = "running" /\ inbox[n] # <<>>
    /\ inbox' = [inbox EXCEPT ![n] = Tail(@)]
    /\ \E t \in Thread : /\ At(n, t, "idle")
                         /\ call' = [call EXCEPT ![n][t] =
                                        [Idle EXCEPT !.pc = "route", !.m = Head(inbox[n])]]
    /\ UNCHANGED <<host, wire, delivered, origin, fault, owed>>

\* BrokerRelayActor::handle: local delivery only, never the forwarder.
Handle(n) ==
    /\ engine[n] = "running" /\ inbox[n] # <<>>
    /\ inbox' = [inbox EXCEPT ![n] = Tail(@)]
    /\ DeliverRemote(n, Head(inbox[n]))
    /\ UNCHANGED <<host, wire, call, origin, fault, owed>>

(***************************************************************************)
(* Stop: ~Runtime, then BrokerCluster::stop.                                *)
(***************************************************************************)
\* NativeBroker::stop returns when the threads that publish have ended; that it
\* does return is not assumed (BrokerLifecycle).
StopBroker(n) ==
    /\ \/ Move(n, "up", "stopping")
       \/ Move(n, "stopping", "brokerless") /\ call[n] = [t \in Thread |-> Idle]
    /\ UNCHANGED <<forwarder, engine, running, wire, call, inbox, delivered, origin, fault, owed>>

Defang(n) ==
    /\ Move(n, "brokerless", "defanged")
    /\ forwarder' = [forwarder EXCEPT ![n] = "null"]
    /\ UNCHANGED <<engine, running, wire, call, inbox, delivered, origin, fault, owed>>

StopTransport(n) ==
    /\ Move(n, "defanged", "joining")
    /\ running' = [running EXCEPT ![n] = FALSE]
    /\ UNCHANGED <<forwarder, engine, wire, call, inbox, delivered, origin, fault, owed>>

\* Mutant: stop() does not join the reader threads.
JoinedAtOnce(n) == TRUE

Joined(n) == \A l \in Link : l[2] = n => conn[l].reader \in {"none", "gone"}

\* The accept and reader threads are joined, the listener and the peers closed;
\* a connection nobody accepted dies with the listener.
JoinReaders(n) ==
    /\ Joined(n)
    /\ Move(n, "joining", "quiet")
    /\ conn' = [l \in Link |->
                  IF l[1] = n \/ (l[2] = n /\ conn[l].reader = "none")
                  THEN [conn[l] EXCEPT !.open = FALSE] ELSE conn[l]]
    /\ fd' = [p \in Pair |-> IF p[1] = n THEN 0 ELSE fd[p]]
    /\ UNCHANGED <<forwarder, engine, running, sendLock, dials, call, inbox, delivered, origin, fault, owed>>

StopEngine(n) ==
    /\ Move(n, "quiet", "stopped")
    /\ engine' = [engine EXCEPT ![n] = "destroyed"]
    /\ inbox' = [inbox EXCEPT ![n] = <<>>]
    /\ UNCHANGED <<forwarder, running, wire, call, delivered, origin, fault, owed>>

-----------------------------------------------------------------------------
Deliver(n, t) ==
    \/ Route(n, t) \/ CheckForwarder(n, t) \/ CallForwarder(n, t)
    \/ EnsurePeer(n, t) \/ DialFails(n, t) \/ WriteFails(n, t)
    \/ Write(n, t, "length") \/ Write(n, t, "body")

Receive(l) == Accept(l) \/ Read(l) \/ Post(l) \/ ReaderEnds(l)

Start(n) ==
    \/ StartBroker(n) \/ StartEngine(n) \/ StartTransport(n) \/ StartTransportFails(n)
    \/ SetForwarder(n)

\* The steps of BrokerCluster::stop.
StopCluster(n) == Defang(n) \/ StopTransport(n) \/ JoinReaders(n) \/ StopEngine(n)

Next ==
    \/ \E n \in Node :
        \/ Start(n) \/ AbandonCluster(n) \/ StopBroker(n) \/ StopCluster(n) \/ Handle(n)
        \/ \E m \in Message : SettleOwed(n, m)
    \/ \E n \in Node, t \in Thread : Deliver(n, t) \/ \E m \in Message : Publish(n, t, m)
    \/ \E l \in Link : Receive(l) \/ Break(l)

\* The threads that exist keep running: publishing threads, readers, the thread
\* in BrokerCluster::stop.  Nothing makes a client publish or Runtime stop, and
\* nothing makes NativeBroker::stop return.
Fairness ==
    /\ \A n \in Node : WF_vars(StopCluster(n))
    /\ \A n \in Node, t \in Thread : WF_vars(Deliver(n, t))
    /\ \A l \in Link : WF_vars(Receive(l))

Spec == Init /\ [][Next]_vars /\ Fairness

-----------------------------------------------------------------------------
Items(s) == {s[i] : i \in 1..Len(s)}

\* A node routes a message to its subscribers at most once, never again when it
\* comes back to the node that published it, and no peer routes one that node has
\* not routed: relayed messages are not relayed again (native_broker.hpp:302-314,
\* 1605-1620), whatever connections break and are redialled.  Routed is not
\* written: see OriginFirst.
RelayedOnce ==
    \A n \in Node :
        /\ Cardinality(Items(delivered[n])) = Len(delivered[n])
        /\ \A m \in Items(delivered[n]) : m \in Items(delivered[origin[m]])

\* Two session threads that send to one peer, and connections that fail in the
\* middle of a frame, never put a reader out of frame (tcp_transport.hpp:151-172,
\* 246-258).
StreamFramed == "stream out of frame" \notin fault

\* Stopping the broker before the cluster, and the transport before the engine,
\* leaves no thread that calls a forwarder that is gone or posts to an engine
\* that is destroyed (runtime.hpp:354-360, broker_cluster.hpp:347-357).
NothingAfterStop ==
    {"forwarder called after stop", "frame posted to a destroyed engine"} \cap fault = {}

\* The relay holds up no stop for ever: the threads NativeBroker::stop waits for
\* come out of their sends, and once it has returned, BrokerCluster::stop returns
\* as well, whatever reader, lock or half-sent frame it meets, while the peers
\* keep reading (tcp_transport.hpp:129-150).
StopReturns ==
    \A n \in Node :
        stage[n] \in {"stopping", "brokerless"} ~>
            \/ stage[n] = "stopping" /\ call[n] = [t \in Thread |-> Idle]
            \/ stage[n] = "stopped"

\* What native_broker.hpp:1606-1607 says of the order: no peer sees a message
\* before the subscribers of its own node.  It does not hold for a message
\* published on the reactor thread.
OriginFirst ==
    \A n \in Node : \A m \in Items(delivered[n]) :
        n # origin[m] => m \notin owed[origin[m]]

\* What broker_cluster.hpp:347-357 claims of stop(): nothing it touches is gone.
\* It does not hold after a failed start.
StopTouchesNothingDead == "broker used after destruction" \notin fault

=============================================================================
