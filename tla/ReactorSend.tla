------------------------------ MODULE ReactorSend ------------------------------
(***************************************************************************)
(* The outbound path of one session of the native broker                   *)
(* (include/aero/broker/native_broker.hpp), of either kind.                *)
(*                                                                         *)
(* A plaintext session is served by the reactor thread, which takes        *)
(* readiness events and posted tasks one at a time: the outbound queue,    *)
(* the packet being sent, the EPOLLOUT interest and the deferred teardown. *)
(* Any other thread (a TLS session, the relay, a bridge) may enqueue for   *)
(* it as well; io_mu serialises the drain loops, but only the reactor may  *)
(* call mod_fd, so others post it.                                         *)
(*                                                                         *)
(* A TLS session is served by a thread of its own; other session threads   *)
(* and the hand-off workers write to it directly, one packet under io_mu.  *)
(*                                                                         *)
(* In both, a PUBLISH is built (its topic name or alias chosen) at one     *)
(* moment and written at another.                                          *)
(*                                                                         *)
(* A packet is PacketLen pieces; the socket buffer holds SockCap of them.  *)
(* IoContext, epoll (level triggered) and the socket are external and      *)
(* modelled from how the broker uses them.                                 *)
(***************************************************************************)
EXTENDS Integers, Sequences, FiniteSets

CONSTANTS
    Foreign,    \* the other threads that publish to this session
    PacketLen,  \* pieces per packet: a packet may be sent in several calls
    SockCap,    \* pieces the kernel's socket buffer holds
    MaxPushed,  \* bound: packets queued in a behaviour
    Topic,      \* topics published to this session
    AliasMax,   \* client_topic_alias_max, 0 if the client announced none
    NoTopic     \* stands in for the topic of a packet that is no PUBLISH

ASSUME ReactorAssumption ==
    /\ "server" \notin Foreign /\ "free" \notin Foreign
    /\ PacketLen \in Nat \ {0}
    /\ SockCap \in Nat \ {0}
    /\ MaxPushed \in Nat /\ AliasMax \in Nat
    /\ NoTopic \notin Topic

(* The thread that serves the session (the reactor, or its own) and others *)
Thread == Foreign \cup {"server"}

VARIABLES
    kind,       \* "reactor" or "tls" (is_reactor_session), fixed
    call,       \* per thread: the packet it has built and not yet queued or begun
    aliases,    \* outbound_topic_aliases: topic -> alias
    header,     \* packet built -> is its topic named, and its alias (0: none)
    io_mu,      \* the thread running the drain loop, or "free"
    out_queue,  \* packets not begun (out_queue)
    current,    \* the unsent pieces of the packet begun (out_current, out_sent)
    armed,      \* write_interest_armed
    interest,   \* what epoll watches for this fd
    posted,     \* the session's tasks waiting in the IoContext, FIFO
    scheduled,  \* teardown_scheduled
    fd,         \* "open" or "closed"
    loop,       \* the reactor: "events", "flush" or "closing"
    wire,       \* pieces in the socket buffer
    reset,      \* the connection is broken: every send is a hard error
    peer,       \* history: pieces the client has read
    pushed,     \* history: who queued each packet and its topic; packets are numbered
    skipped,    \* history: packets a choke point refused, as expired or too large
    built,      \* history: the packets built, in that order
    begun,      \* history: the packets written, or begun, in that order
    torn,       \* history: a packet was given up half written
    stray       \* history: a send was attempted on the closed fd number

queueVars == <<out_queue, current>>
epollVars == <<armed, interest, posted>>
lifeVars  == <<scheduled, fd, loop>>
netVars   == <<wire, reset, peer>>
buildVars == <<kind, call, aliases, header, skipped, built>>
histVars  == <<pushed, begun, torn, stray>>
vars == <<io_mu, buildVars, queueVars, epollVars, lifeVars, netVars, histVars>>

(* A function given one more point, as emplace does.                       *)
Extended(f, k, v) == [x \in DOMAIN f \cup {k} |-> IF x \in DOMAIN f THEN f[x] ELSE v]

Pieces(p) == [i \in 1..PacketLen |-> <<p, i>>]

Init ==
    /\ kind \in {"reactor", "tls"}
    /\ call = [t \in Thread |-> 0]
    /\ aliases = << >> /\ header = << >>
    /\ io_mu = "free"
    /\ out_queue = << >> /\ current = << >>
    /\ armed = FALSE /\ interest = {"IN"} /\ posted = << >>
    /\ scheduled = FALSE /\ fd = "open" /\ loop = "events"
    /\ wire = << >> /\ reset = FALSE /\ peer = << >>
    /\ pushed = << >> /\ skipped = << >> /\ built = << >> /\ begun = << >>
    /\ torn = FALSE /\ stray = FALSE

-----------------------------------------------------------------------------
(* Calls of the IoContext                                                  *)

(* mod_fd by thread t: the reactor's takes effect, another thread's is     *)
(* posted and takes effect when the reactor gets to it.                    *)
ModFd(t, task, events) ==
    IF t = "server"
      THEN interest' = (IF fd = "open" THEN events ELSE {}) /\ UNCHANGED posted
      ELSE posted' = Append(posted, task) /\ UNCHANGED interest

(* Mutant: every trigger posts the task.                                   *)
ScheduleTeardownAlways ==
    /\ scheduled' = TRUE
    /\ posted' = Append(posted, "teardown")

(* schedule_reactor_teardown: only the first trigger posts the task.       *)
ScheduleTeardown ==
    /\ scheduled' = TRUE
    /\ posted' = IF scheduled THEN posted ELSE Append(posted, "teardown")

(* The end of a drain loop: the lock goes, and a flush that was part of    *)
(* the teardown task goes on to close.                                     *)
Release(t) ==
    /\ io_mu' = "free"
    /\ loop' = IF t = "server" /\ loop = "flush" THEN "closing" ELSE loop

-----------------------------------------------------------------------------
(* build_publish_variable_header_and_payload                               *)

(* The alias of a topic that has one replaces its name; a free alias is    *)
(* announced together with the name; when none is free the name is sent.   *)
HeaderOf(x) ==
    CASE x = NoTopic          -> [named |-> TRUE, alias |-> 0]
      [] x \in DOMAIN aliases -> [named |-> FALSE, alias |-> aliases[x]]
      [] OTHER -> [named |-> TRUE,
                   alias |-> IF Cardinality(DOMAIN aliases) < AliasMax
                               THEN Cardinality(DOMAIN aliases) + 1 ELSE 0]

(* outbound_topic_aliases.emplace                                          *)
Emplaced(x) ==
    IF HeaderOf(x).named /\ HeaderOf(x).alias # 0 THEN Extended(aliases, x, HeaderOf(x).alias)
                                                 ELSE aliases

(* Mutant: an expired message is refused after its alias is recorded.      *)
BuildExpiryLate(p, x) ==
    \/ /\ header' = Extended(header, p, HeaderOf(x))
       /\ aliases' = Emplaced(x)
       /\ built' = Append(built, p)
       /\ UNCHANGED skipped
    \/ /\ x # NoTopic
       /\ \E why \in {"expired", "oversize"} : skipped' = Extended(skipped, p, why)
       /\ aliases' = Emplaced(x)
       /\ UNCHANGED <<header, built>>

(* Built, or refused: an expired message before its alias is recorded, one *)
(* too large for the client after.  An acknowledgement is never refused.   *)
Build(p, x) ==
    \/ /\ header' = Extended(header, p, HeaderOf(x))
       /\ aliases' = Emplaced(x)
       /\ built' = Append(built, p)
       /\ UNCHANGED skipped
    \/ /\ x # NoTopic
       /\ skipped' = Extended(skipped, p, "expired")
       /\ UNCHANGED <<header, aliases, built>>
    \/ /\ x # NoTopic
       /\ skipped' = Extended(skipped, p, "oversize")
       /\ aliases' = Emplaced(x)
       /\ UNCHANGED <<header, built>>

-----------------------------------------------------------------------------
(* enqueue_reactor_publish, publish_to and send_packet                     *)

Push(t, x) ==
    /\ Len(pushed) < MaxPushed
    /\ pushed' = Append(pushed, [by |-> t, topic |-> x])

(* A publication is queued under io_mu, to be built when its turn comes,   *)
(* and the drain loop entered.  The reactor only writes to a session it    *)
(* still serves; another thread holds on to the session it looked up,      *)
(* whatever became of it since.                                            *)
Enqueue(t, x) ==
    /\ kind = "reactor" /\ io_mu = "free"
    /\ t = "server" => loop = "events" /\ fd = "open" /\ call[t] = 0
    /\ io_mu' = t
    /\ Push(t, x)
    /\ out_queue' = Append(out_queue, Len(pushed'))
    /\ UNCHANGED <<buildVars, current, epollVars, lifeVars, netVars, begun, torn, stray>>

(* A packet that is built before it is queued, with io_mu not held: an     *)
(* acknowledgement or a retained message of the reactor's (publish_to),    *)
(* anything written to a TLS session.                                      *)
BuildFirst(t, x) ==
    /\ call[t] = 0 /\ io_mu # t
    /\ t = "server" => loop = "events" /\ fd = "open"
    /\ t # "server" => kind = "tls" /\ x # NoTopic
    /\ Push(t, x)
    /\ Build(Len(pushed'), x)
    /\ call' = [call EXCEPT ![t] = IF built' # built THEN Len(pushed') ELSE 0]
    /\ UNCHANGED <<kind, io_mu, queueVars, epollVars, lifeVars, netVars, begun, torn, stray>>

(* send_packet to a reactor session: the packet goes behind what is queued *)
EnqueueBuilt ==
    /\ kind = "reactor" /\ io_mu = "free" /\ call["server"] # 0
    /\ io_mu' = "server"
    /\ out_queue' = Append(out_queue, call["server"])
    /\ call' = [call EXCEPT !["server"] = 0]
    /\ UNCHANGED <<kind, aliases, header, skipped, built, current, epollVars,
                   lifeVars, netVars, histVars>>

(* write_packet or write_packet_bounded to a TLS session: io_mu is taken.  *)
Begin(t) ==
    /\ kind = "tls" /\ io_mu = "free" /\ call[t] # 0
    /\ io_mu' = t
    /\ current' = Pieces(call[t])
    /\ begun' = Append(begun, call[t])
    /\ call' = [call EXCEPT ![t] = 0]
    /\ UNCHANGED <<kind, aliases, header, skipped, built, out_queue, epollVars,
                   lifeVars, netVars, pushed, torn, stray>>

(* The packet is out.                                                      *)
Written(t) ==
    /\ kind = "tls" /\ io_mu = t /\ current = << >>
    /\ io_mu' = "free"
    /\ UNCHANGED <<buildVars, queueVars, epollVars, lifeVars, netVars, histVars>>

(* The deadline of a hand-off worker passes, or the connection is broken   *)
(* or closed: the rest of the packet is given up, and nobody is told.      *)
GiveUp(t) ==
    /\ kind = "tls" /\ io_mu = t /\ current # << >>
    /\ t # "server" \/ reset \/ fd = "closed"
    /\ io_mu' = "free"
    /\ current' = << >>
    /\ IF Len(current) < PacketLen
         THEN torn' = TRUE /\ UNCHANGED begun
         ELSE begun' = SubSeq(begun, 1, Len(begun) - 1) /\ UNCHANGED torn
    /\ stray' = (stray \/ fd = "closed")
    /\ UNCHANGED <<buildVars, out_queue, epollVars, lifeVars, netVars, pushed>>

(* teardown_session on the session's own thread.                           *)
CloseTls ==
    /\ kind = "tls" /\ io_mu = "free" /\ call["server"] = 0
    /\ fd = "open"
    /\ fd' = "closed"
    /\ scheduled' = TRUE
    /\ UNCHANGED <<io_mu, buildVars, queueVars, epollVars, loop, netVars, histVars>>

(* on_reactor_ready with EPOLLOUT.                                         *)
EpollOut ==
    /\ loop = "events" /\ io_mu = "free" /\ call["server"] = 0
    /\ fd = "open" /\ "OUT" \in interest
    /\ reset \/ Len(wire) < SockCap
    /\ ~scheduled
    /\ io_mu' = "server"
    /\ UNCHANGED <<buildVars, queueVars, epollVars, lifeVars, netVars, histVars>>

-----------------------------------------------------------------------------
(* try_drain_reactor_send, one iteration at a time, by the holder of io_mu *)

(* Mutant: the next packet is taken up before the last one is out.         *)
DrainPopEarly(t) ==
    /\ kind = "reactor" /\ io_mu = t
    /\ out_queue # << >>
    /\ out_queue' = Tail(out_queue)
    /\ LET p == Head(out_queue) IN
       /\ IF p \in DOMAIN header THEN UNCHANGED <<aliases, header, skipped, built>>
                                 ELSE Build(p, pushed[p].topic)
       /\ IF p \in DOMAIN header' THEN current' = Pieces(p) /\ begun' = Append(begun, p)
                                  ELSE UNCHANGED <<current, begun>>
    /\ UNCHANGED <<kind, call, io_mu, epollVars, lifeVars, netVars, pushed, torn, stray>>

(* The next packet is taken up, and built now if it is not built already;  *)
(* a refused one is passed over.                                           *)
DrainPop(t) ==
    /\ kind = "reactor" /\ io_mu = t
    /\ current = << >> /\ out_queue # << >>
    /\ out_queue' = Tail(out_queue)
    /\ LET p == Head(out_queue) IN
       /\ IF p \in DOMAIN header THEN UNCHANGED <<aliases, header, skipped, built>>
                                 ELSE Build(p, pushed[p].topic)
       /\ IF p \in DOMAIN header' THEN current' = Pieces(p) /\ begun' = Append(begun, p)
                                  ELSE UNCHANGED <<current, begun>>
    /\ UNCHANGED <<kind, call, io_mu, epollVars, lifeVars, netVars, pushed, torn, stray>>

(* Everything is sent: disarm EPOLLOUT if it was armed.                    *)
DrainEmpty(t) ==
    /\ kind = "reactor" /\ io_mu = t
    /\ current = << >> /\ out_queue = << >>
    /\ armed' = FALSE
    /\ IF armed THEN ModFd(t, "disarm", {"IN"}) ELSE UNCHANGED <<interest, posted>>
    /\ Release(t)
    /\ UNCHANGED <<buildVars, queueVars, scheduled, fd, netVars, histVars>>

DrainSend(t) ==
    /\ io_mu = t
    /\ current # << >>
    /\ fd = "open" /\ ~reset /\ Len(wire) < SockCap
    /\ wire' = Append(wire, Head(current))
    /\ current' = Tail(current)
    /\ UNCHANGED <<io_mu, buildVars, out_queue, epollVars, lifeVars, reset, peer, histVars>>

(* Mutant: EPOLLOUT is never armed.                                        *)
DrainWouldBlockUnarmed(t) ==
    /\ kind = "reactor" /\ io_mu = t
    /\ current # << >>
    /\ fd = "open" /\ ~reset /\ Len(wire) = SockCap
    /\ Release(t)
    /\ UNCHANGED <<buildVars, queueVars, epollVars, scheduled, fd, netVars, histVars>>

(* Would block: arm_write_interest, unless it is armed already.            *)
DrainWouldBlock(t) ==
    /\ kind = "reactor" /\ io_mu = t
    /\ current # << >>
    /\ fd = "open" /\ ~reset /\ Len(wire) = SockCap
    /\ armed' = TRUE
    /\ IF armed THEN UNCHANGED <<interest, posted>> ELSE ModFd(t, "arm", {"IN", "OUT"})
    /\ Release(t)
    /\ UNCHANGED <<buildVars, queueVars, scheduled, fd, netVars, histVars>>

(* A hard error discards the queue and schedules the teardown.  A closed   *)
(* fd is such an error, unless its number has been given out again.        *)
DrainHardError(t) ==
    /\ kind = "reactor" /\ io_mu = t
    /\ current # << >>
    /\ fd = "closed" \/ reset
    /\ stray' = (stray \/ fd = "closed")
    /\ out_queue' = << >> /\ current' = << >>
    /\ ScheduleTeardown
    /\ Release(t)
    /\ UNCHANGED <<buildVars, armed, interest, fd, netVars, pushed, begun, torn>>

-----------------------------------------------------------------------------
(* The reactor's other work                                                *)

(* A posted mod_fd; a session already deleted is no longer registered.     *)
RunModFd ==
    /\ loop = "events" /\ io_mu # "server" /\ call["server"] = 0
    /\ posted # << >> /\ Head(posted) \in {"arm", "disarm"}
    /\ posted' = Tail(posted)
    /\ interest' = IF fd = "closed" THEN {}
                   ELSE IF Head(posted) = "arm" THEN {"IN", "OUT"} ELSE {"IN"}
    /\ UNCHANGED <<io_mu, buildVars, queueVars, armed, lifeVars, netVars, histVars>>

(* The posted teardown: a last attempt to flush, ...                       *)
RunTeardown ==
    /\ loop = "events" /\ io_mu = "free" /\ call["server"] = 0
    /\ posted # << >> /\ Head(posted) = "teardown"
    /\ posted' = Tail(posted)
    /\ loop' = "flush"
    /\ io_mu' = "server"
    /\ UNCHANGED <<buildVars, queueVars, armed, interest, scheduled, fd, netVars, histVars>>

(* ... then del_fd and, under io_mu again, close_fd (teardown_session).    *)
Close ==
    /\ loop = "closing" /\ io_mu = "free"
    /\ interest' = {}
    /\ out_queue' = << >> /\ current' = << >>
    /\ fd' = "closed"
    /\ loop' = "events"
    /\ UNCHANGED <<io_mu, buildVars, armed, posted, scheduled, netVars, histVars>>

(* End of stream, a parse error, a DISCONNECT or keep-alive expiry.        *)
EndOfSession ==
    /\ loop = "events" /\ io_mu # "server" /\ call["server"] = 0
    /\ kind = "reactor" /\ fd = "open" /\ ~scheduled
    /\ ScheduleTeardown
    /\ UNCHANGED <<io_mu, buildVars, queueVars, armed, interest, fd, loop, netVars, histVars>>

(* A takeover: the thread of the client's new connection schedules the     *)
(* teardown, whatever the reactor is doing.  The DISCONNECT a version 5    *)
(* client gets first is one of the packets of that thread.                 *)
TakenOver ==
    /\ kind = "reactor" /\ fd = "open" /\ ~scheduled
    /\ ScheduleTeardown
    /\ UNCHANGED <<io_mu, buildVars, queueVars, armed, interest, fd, loop, netVars, histVars>>

-----------------------------------------------------------------------------
(* The client                                                              *)

PeerRead ==
    /\ wire # << >>
    /\ peer' = Append(peer, Head(wire))
    /\ wire' = Tail(wire)
    /\ UNCHANGED <<io_mu, buildVars, queueVars, epollVars, lifeVars, reset, histVars>>

PeerReset ==
    /\ ~reset /\ fd = "open"
    /\ reset' = TRUE
    /\ wire' = << >>
    /\ UNCHANGED <<io_mu, buildVars, queueVars, epollVars, lifeVars, peer, histVars>>

-----------------------------------------------------------------------------

Drain(t) ==
    \/ DrainPop(t)
    \/ DrainEmpty(t)
    \/ DrainSend(t)
    \/ DrainWouldBlock(t)
    \/ DrainHardError(t)

Reactor == EpollOut \/ RunModFd \/ RunTeardown \/ Close \/ EnqueueBuilt

WriteTls(t) == Begin(t) \/ DrainSend(t) \/ Written(t) \/ GiveUp(t)

Next ==
    \/ \E t \in Thread :
          \/ \E x \in Topic : Enqueue(t, x)
          \/ \E x \in Topic \cup {NoTopic} : BuildFirst(t, x)
          \/ Drain(t) \/ Begin(t) \/ Written(t) \/ GiveUp(t)
    \/ Reactor
    \/ EndOfSession \/ TakenOver \/ CloseTls
    \/ PeerRead
    \/ PeerReset

(* A thread in the drain loop or in a write runs on, and gets io_mu in the *)
(* end; the reactor keeps serving what is ready, and a client that is not  *)
(* broken keeps reading.                                                   *)
Fairness ==
    /\ \A t \in Thread : WF_vars(Drain(t)) /\ SF_vars(WriteTls(t))
    /\ SF_vars(Reactor)
    /\ WF_vars(PeerRead)

Spec == Init /\ [][Next]_vars /\ Fairness

-----------------------------------------------------------------------------
(* Properties                                                              *)

(* The pieces of the packets begun, in that order.                         *)
Stream ==
    [k \in 1..(Len(begun) * PacketLen) |->
        <<begun[((k - 1) \div PacketLen) + 1], ((k - 1) % PacketLen) + 1>>]

(* What the client reads is always a prefix of the packets begun for it,   *)
(* each whole, though several threads send, a packet takes several calls   *)
(* and each may stop half way (out_current/out_sent under io_mu).  A TLS   *)
(* session keeps this only until a hand-off worker gives up half way.      *)
StreamIntact ==
    LET got == peer \o wire
    IN  ~torn => /\ Len(got) <= Len(Stream)
                 /\ \A i \in 1..Len(got) : got[i] = Stream[i]

Leaving == {i \in 1..Len(posted) : posted[i] = "teardown"}

(* So far nobody but the serving thread has written to this session.       *)
Alone == \A i \in 1..Len(pushed) : pushed[i].by = "server"

(* A session is torn down once, however many triggers race: the posted     *)
(* task exists at most once and never again after the fd is closed (the    *)
(* exchange in schedule_reactor_teardown).  Nobody writes to the           *)
(* descriptor's number once it is closed, if only the serving thread ever  *)
(* writes (the io_mu around close_fd in teardown_session).                 *)
ClosedOnce ==
    /\ Cardinality(Leaving) + (IF loop # "events" THEN 1 ELSE 0)
         + (IF fd = "closed" THEN 1 ELSE 0) <= 1
    /\ Alone => ~stray

(* Whatever waits to be sent has somebody to send it: when all threads and *)
(* posted tasks have come to rest, EPOLLOUT is watched for (the promise of *)
(* try_drain_reactor_send that the EPOLLOUT dispatch resumes it).          *)
NoLostWakeup ==
    (/\ kind = "reactor" /\ fd = "open" /\ ~scheduled /\ io_mu = "free" /\ posted = << >>
     /\ current # << >> \/ out_queue # << >>) => "OUT" \in interest

(* The topic the client takes packet begun[k] to be about: the one named,  *)
(* or the one last named with the alias.                                   *)
Understood(k) ==
    LET h(i) == header[begun[i]]
        told == {i \in 1..(k - 1) : h(i).named /\ h(i).alias = h(k).alias}
        last == CHOOSE i \in told : \A j \in told : j <= i
    IN  IF h(k).named THEN pushed[begun[k]].topic
        ELSE IF told # {} THEN pushed[begun[last]].topic ELSE NoTopic

(* The client resolves every packet to the topic it was published under,   *)
(* however many topics share AliasMax aliases and whatever has expired, as *)
(* long as packets leave in the order in which they were built and none is *)
(* refused for its size after its alias was recorded                       *)
(* (build_publish_variable_header_and_payload).                            *)
AliasResolves ==
    (/\ \A p \in DOMAIN skipped : skipped[p] # "oversize"
     /\ \A i \in 1..Len(begun) : begun[i] = built[i])
      => \A k \in 1..Len(begun) : Understood(k) = pushed[begun[k]].topic

Settled(p) ==
    \/ <<p, PacketLen>> \in {peer[i] : i \in 1..Len(peer)}
    \/ p \in DOMAIN skipped

(* Again and again every packet queued so far has been read whole by the   *)
(* client or refused by a choke point, until the session ends or another   *)
(* thread writes too: what EPOLLOUT resumes is not left lying.             *)
EventuallySent ==
    []<>(scheduled \/ reset \/ ~Alone \/ \A p \in 1..Len(pushed) : Settled(p))

=============================================================================
