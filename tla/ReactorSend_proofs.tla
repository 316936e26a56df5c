-------------------------- MODULE ReactorSend_proofs --------------------------
(***************************************************************************)
(* What leaves a session of the broker is whole and in order, a client     *)
(* resolves every topic alias and a session is torn down once, for every   *)
(* number of publishing threads, every packet length, socket buffer and    *)
(* alias limit, and sessions of either kind.                               *)
(***************************************************************************)
EXTENDS ReactorSend, FiniteSetTheorems, TLAPS

Packet == 1..Len(pushed)

Piece == Nat \X Nat

(* Every variable that the arguments read has its type.                    *)
SendTypeOK ==
    /\ kind \in {"reactor", "tls"}
    /\ call \in [Thread -> Nat] /\ io_mu \in Thread \cup {"free"}
    /\ out_queue \in Seq(Nat) /\ built \in Seq(Nat) /\ begun \in Seq(Nat)
    /\ current \in Seq(Piece) /\ wire \in Seq(Piece) /\ peer \in Seq(Piece)
    /\ posted \in Seq({"arm", "disarm", "teardown"})
    /\ scheduled \in BOOLEAN /\ reset \in BOOLEAN
    /\ torn \in BOOLEAN /\ stray \in BOOLEAN
    /\ fd \in {"open", "closed"} /\ loop \in {"events", "flush", "closing"}
    /\ pushed \in Seq([by : Thread, topic : Topic \cup {NoTopic}])

-----------------------------------------------------------------------------
(* A session that nobody has scheduled for teardown is open and at rest;   *)
(* the task, its execution and the closed descriptor exclude each other.   *)
TeardownOnce ==
    /\ \A i, j \in 1..Len(posted) :
          posted[i] = "teardown" /\ posted[j] = "teardown" => i = j
    /\ \A i \in 1..Len(posted) :
          posted[i] = "teardown" => scheduled /\ loop = "events" /\ fd = "open"
    /\ loop # "events" => scheduled /\ fd = "open"
    /\ fd = "closed" => scheduled
    /\ kind = "tls" => posted = << >> /\ loop = "events"

(* The serving thread is in no write and holds no packet when it closes    *)
(* the descriptor; any other thread that writes has left its mark in       *)
(* pushed.                                                                 *)
WritersKnown ==
    /\ io_mu = "server" => fd = "open"
    /\ call["server"] # 0 => fd = "open" /\ loop = "events"
    /\ \A t \in Foreign : io_mu = t \/ call[t] # 0 => ~Alone
    /\ Alone => ~stray

LifeInv == TeardownOnce /\ WritersKnown

-----------------------------------------------------------------------------
(* Piece k of the packets b, one after the other.                          *)
PieceAt(b, k) == <<b[((k - 1) \div PacketLen) + 1], ((k - 1) % PacketLen) + 1>>

(* What the client has, what the socket holds and what is still unsent of  *)
(* the packet begun are consecutive stretches of the packets begun.  While *)
(* the connection lives nothing is missing at the end.                     *)
InStream ==
    /\ Len(current) <= PacketLen
    /\ Len(peer) + Len(wire) + Len(current) <= Len(begun) * PacketLen
    /\ \A i \in 1..Len(peer) : peer[i] = PieceAt(begun, i)
    /\ \A i \in 1..Len(wire) : wire[i] = PieceAt(begun, Len(peer) + i)
    /\ fd = "open" /\ ~reset =>
          /\ Len(peer) + Len(wire) + Len(current) = Len(begun) * PacketLen
          /\ \A i \in 1..Len(current) :
                current[i] = PieceAt(begun, Len(peer) + Len(wire) + i)

StreamInv ==
    /\ kind = "tls" /\ io_mu = "free" => current = << >>
    /\ ~torn => InStream

-----------------------------------------------------------------------------
(* A packet is in one place: built and not queued, queued, or begun.       *)
OnePlace ==
    /\ \A t \in Thread : call[t] # 0 => call[t] \in Packet
    /\ \A i \in 1..Len(out_queue) : out_queue[i] \in Packet
    /\ \A i \in 1..Len(begun) : begun[i] \in Packet
    /\ \A t, u \in Thread : call[t] # 0 /\ call[t] = call[u] => t = u
    /\ \A i, j \in 1..Len(out_queue) : out_queue[i] = out_queue[j] => i = j
    /\ \A i, j \in 1..Len(begun) : begun[i] = begun[j] => i = j
    /\ \A t \in Thread : \A i \in 1..Len(out_queue) : call[t] # out_queue[i]
    /\ \A t \in Thread : \A i \in 1..Len(begun) : call[t] # begun[i]
    /\ \A i \in 1..Len(out_queue) : \A j \in 1..Len(begun) : out_queue[i] # begun[j]

(* The packets that have a header are those built, each once; whatever is  *)
(* begun, or handed on before it is queued, has one.                       *)
BuiltOnce ==
    /\ header \in [DOMAIN header -> [named : BOOLEAN, alias : Nat]]
    /\ DOMAIN header \subseteq Packet
    /\ DOMAIN header = {built[i] : i \in 1..Len(built)}
    /\ \A i, j \in 1..Len(built) : built[i] = built[j] => i = j
    /\ \A t \in Thread : call[t] # 0 => call[t] \in DOMAIN header
    /\ \A i \in 1..Len(begun) : begun[i] \in DOMAIN header

(* No two topics share an alias, and every alias has been used up to the   *)
(* number of topics that have one.                                         *)
AliasesDistinct ==
    /\ IsFiniteSet(DOMAIN aliases)
    /\ aliases \in [DOMAIN aliases -> 1..Cardinality(DOMAIN aliases)]
    /\ NoTopic \notin DOMAIN aliases
    /\ \A x, y \in DOMAIN aliases : aliases[x] = aliases[y] => x = y

(* Packet p names topic x together with its alias: h, s and a are the      *)
(* headers, the packets pushed and the aliases.                            *)
Announces(h, s, a, p, x) == h[p].named /\ h[p].alias = a[x] /\ s[p].topic = x

(* An alias announced is that of the topic, announced once; one that       *)
(* stands for the name was announced by a packet built earlier, unless one *)
(* was refused for its size.                                               *)
AliasesAnnounced ==
    /\ \A p \in DOMAIN header : header[p].alias # 0 =>
          pushed[p].topic \in DOMAIN aliases /\ aliases[pushed[p].topic] = header[p].alias
    /\ \A p \in DOMAIN header : ~header[p].named => header[p].alias # 0
    /\ \A p, q \in DOMAIN header :
          (/\ header[p].named /\ header[q].named
           /\ header[p].alias = header[q].alias /\ header[p].alias # 0) => p = q
    /\ (\A p \in DOMAIN skipped : skipped[p] # "oversize") =>
          /\ \A x \in DOMAIN aliases : \E i \in 1..Len(built) :
                Announces(header, pushed, aliases, built[i], x)
          /\ \A k \in 1..Len(built) : ~header[built[k]].named => \E i \in 1..(k - 1) :
                Announces(header, pushed, aliases, built[i], pushed[built[k]].topic)

(* A packet refused is gone: it is not refused again.                      *)
RefusedOnce ==
    /\ DOMAIN skipped \subseteq Packet
    /\ \A t \in Thread : call[t] \notin DOMAIN skipped
    /\ \A i \in 1..Len(out_queue) : out_queue[i] \notin DOMAIN skipped

PacketInv == OnePlace /\ BuiltOnce /\ RefusedOnce

AliasInv == AliasesDistinct /\ AliasesAnnounced

(* The inductive invariant.                                                *)
SendInv == SendTypeOK /\ LifeInv /\ StreamInv /\ PacketInv /\ AliasInv

-----------------------------------------------------------------------------
(* Sequences and functions                                                 *)

(* What Append does to length and elements.                                *)
LEMMA AppendIs ==
    ASSUME NEW S, NEW s \in Seq(S), NEW e \in S
    PROVE  /\ Append(s, e) \in Seq(S) /\ Len(Append(s, e)) = Len(s) + 1 /\ Len(s) \in Nat
           /\ \A i \in 1..Len(s) : Append(s, e)[i] = s[i]
           /\ Append(s, e)[Len(s) + 1] = e
  OBVIOUS

(* What Head and Tail do.                                                  *)
LEMMA TailIs ==
    ASSUME NEW S, NEW s \in Seq(S), s # << >>
    PROVE  /\ Tail(s) \in Seq(S) /\ Len(s) \in Nat \ {0} /\ Len(Tail(s)) = Len(s) - 1
           /\ Head(s) \in S /\ Head(s) = s[1]
           /\ \A i \in 1..Len(Tail(s)) : Tail(s)[i] = s[i + 1]
<1>1. Len(s) \in Nat \ {0}
  OBVIOUS
<1>2. Tail(s) \in Seq(S) /\ Len(Tail(s)) = Len(s) - 1
  BY <1>1
<1>3. Head(s) = s[1] /\ Head(s) \in S
  BY <1>1
<1>4. \A i \in 1..Len(Tail(s)) : Tail(s)[i] = s[i + 1]
  BY <1>1, <1>2
<1> QED
  BY <1>1, <1>2, <1>3, <1>4

(* The empty sequence has no element.                                      *)
LEMMA EmptyIs == ASSUME NEW S PROVE << >> \in Seq(S) /\ Len(<< >>) = 0
  OBVIOUS

(* All of a sequence but its last element.                                 *)
LEMMA FrontIs ==
    ASSUME NEW S, NEW s \in Seq(S), Len(s) > 0
    PROVE  /\ SubSeq(s, 1, Len(s) - 1) \in Seq(S) /\ Len(SubSeq(s, 1, Len(s) - 1)) = Len(s) - 1
           /\ \A i \in 1..(Len(s) - 1) : SubSeq(s, 1, Len(s) - 1)[i] = s[i]
<1>1. PICK n \in Nat : Len(s) = n + 1 /\ Len(s) - 1 = n
  <2>1. Len(s) - 1 \in Nat /\ Len(s) = (Len(s) - 1) + 1
    OBVIOUS
  <2> QED
    BY <2>1
<1>2. \A i \in 1..n : s[i] \in S
  BY <1>1
<1>3. SubSeq(s, 1, n) \in Seq(S)
  BY <1>1, <1>2
<1>4. Len(SubSeq(s, 1, n)) = n
  BY <1>1
<1>5. \A i \in 1..n : SubSeq(s, 1, n)[i] = s[i]
  BY <1>1
<1> QED
  BY <1>1, <1>3, <1>4, <1>5

(* The pieces of a packet.                                                 *)
LEMMA PiecesType ==
    ASSUME NEW p \in Nat
    PROVE  /\ Pieces(p) \in Seq(Piece) /\ Len(Pieces(p)) = PacketLen
           /\ \A i \in 1..PacketLen : Pieces(p)[i] = <<p, i>>
<1>1. PacketLen \in Nat
  BY ReactorAssumption
<1>2. Pieces(p) \in [1..PacketLen -> Piece]
  BY <1>1 DEF Pieces, Piece
<1> QED
  BY <1>1, <1>2 DEF Pieces

(* The names of the threads.                                               *)
LEMMA ThreadNames ==
    /\ "server" \in Thread /\ "free" \notin Thread /\ "server" # "free"
    /\ \A t \in Thread : t # "server" => t \in Foreign
    /\ \A t \in Foreign : t \in Thread /\ t # "server"
  BY ReactorAssumption DEF Thread

-----------------------------------------------------------------------------
(* build_publish_variable_header_and_payload                               *)

(* Packet p on topic x is built.                                           *)
Made(p, x) ==
    /\ header' = Extended(header, p, HeaderOf(x)) /\ built' = Append(built, p)
    /\ aliases' = Emplaced(x) /\ skipped' = skipped

(* It is refused, before its alias is recorded or after.                   *)
Refused(p, x) ==
    /\ header' = header /\ built' = built
    /\ \/ aliases' = aliases /\ skipped' = Extended(skipped, p, "expired")
       \/ aliases' = Emplaced(x) /\ skipped' = Extended(skipped, p, "oversize")

(* Whether the packet was built shows in the sequence of packets built.    *)
LEMMA BuildFirstIs ==
    ASSUME SendTypeOK, NEW t \in Thread, NEW x \in Topic \cup {NoTopic}, BuildFirst(t, x)
    PROVE  \E p \in Nat \ {0} :
              /\ p = Len(pushed) + 1 /\ call[t] = 0
              /\ pushed' = Append(pushed, [by |-> t, topic |-> x])
              /\ UNCHANGED <<kind, io_mu, out_queue, current, posted, scheduled, fd, loop, wire, reset,
                             peer, begun, torn, stray>>
              /\ \/ Made(p, x) /\ call' = [call EXCEPT ![t] = p]
                 \/ Refused(p, x) /\ call' = [call EXCEPT ![t] = 0]
<1>1. PICK p \in Nat \ {0} : p = Len(pushed) + 1
  BY DEF SendTypeOK
<1>2. /\ Len(pushed') = p /\ call[t] = 0
      /\ pushed' = Append(pushed, [by |-> t, topic |-> x])
  BY <1>1, AppendIs DEF BuildFirst, Push, SendTypeOK
<1>3. UNCHANGED <<kind, io_mu, out_queue, current, posted, scheduled, fd, loop, wire, reset,
                  peer, begun, torn, stray>>
  BY DEF BuildFirst, queueVars, epollVars, lifeVars, netVars
<1>4. call' = [call EXCEPT ![t] = IF built' # built THEN p ELSE 0]
  BY <1>2 DEF BuildFirst
<1>5. Len(Append(built, p)) # Len(built)
  BY AppendIs DEF SendTypeOK
<1>6. Made(p, x) \/ Refused(p, x)
  BY <1>2 DEF BuildFirst, Build, Made, Refused
<1>7. CASE Made(p, x)
  <2>1. built' # built
    BY <1>5, <1>7 DEF Made
  <2> QED
    BY <1>1, <1>2, <1>3, <1>4, <1>7, <2>1
<1>8. CASE Refused(p, x)
  <2>1. built' = built
    BY <1>8 DEF Refused
  <2> QED
    BY <1>1, <1>2, <1>3, <1>4, <1>8, <2>1
<1> QED
  BY <1>6, <1>7, <1>8

(* The packet taken up was built earlier, is built now, or is refused.     *)
LEMMA DrainPopIs ==
    ASSUME SendTypeOK, NEW t \in Thread, DrainPop(t)
    PROVE  \E p \in Nat :
              /\ kind = "reactor" /\ io_mu = t
              /\ current = << >> /\ out_queue # << >>
              /\ p = Head(out_queue) /\ out_queue' = Tail(out_queue)
              /\ UNCHANGED <<kind, call, io_mu, posted, scheduled, fd, loop, wire, reset,
                             peer, pushed, torn, stray>>
              /\ \/ /\ p \in DOMAIN header /\ UNCHANGED <<aliases, header, skipped, built>>
                    /\ current' = Pieces(p) /\ begun' = Append(begun, p)
                 \/ /\ p \notin DOMAIN header /\ Made(p, pushed[p].topic)
                    /\ current' = Pieces(p) /\ begun' = Append(begun, p)
                 \/ /\ p \notin DOMAIN header /\ Refused(p, pushed[p].topic)
                    /\ UNCHANGED <<current, begun>>
<1>1. PICK p \in Nat : p = Head(out_queue)
  BY TailIs DEF DrainPop, SendTypeOK
<1>2. /\ kind = "reactor" /\ io_mu = t
      /\ current = << >> /\ out_queue # << >>
      /\ out_queue' = Tail(out_queue)
      /\ UNCHANGED <<kind, call, io_mu, posted, scheduled, fd, loop, wire, reset,
                     peer, pushed, torn, stray>>
  BY DEF DrainPop, epollVars, lifeVars, netVars
<1>3. /\ IF p \in DOMAIN header THEN UNCHANGED <<aliases, header, skipped, built>>
                                ELSE Made(p, pushed[p].topic) \/ Refused(p, pushed[p].topic)
      /\ IF p \in DOMAIN header' THEN current' = Pieces(p) /\ begun' = Append(begun, p)
                                 ELSE UNCHANGED <<current, begun>>
  BY <1>1 DEF DrainPop, Build, Made, Refused
<1>4. Made(p, pushed[p].topic) => p \in DOMAIN header'
  <2>1. ASSUME Made(p, pushed[p].topic) PROVE DOMAIN header' = (DOMAIN header) \cup {p}
    BY <2>1 DEF Made, Extended
  <2> QED
    BY <2>1
<1>5. Refused(p, pushed[p].topic) => header' = header
  BY DEF Refused
<1> QED
  BY <1>1, <1>2, <1>3, <1>4, <1>5

-----------------------------------------------------------------------------
(* Types                                                                   *)

(* Nothing queued, nobody writing.                                         *)
LEMMA InitType == Init => SendTypeOK
<1> SUFFICES ASSUME Init PROVE SendTypeOK
  OBVIOUS
<1>1. call \in [Thread -> Nat]
  BY DEF Init
<1>2. /\ << >> \in Seq(Nat) /\ << >> \in Seq(Piece) /\ << >> \in Seq({"arm", "disarm", "teardown"})
      /\ << >> \in Seq([by : Thread, topic : Topic \cup {NoTopic}])
  BY EmptyIs
<1> QED
  BY <1>1, <1>2 DEF Init, SendTypeOK

(* No step takes a variable out of its type.                               *)
LEMMA NextType ==
    ASSUME SendTypeOK, [Next]_vars
    PROVE  SendTypeOK'
<1> USE DEF SendTypeOK
<1>1. ASSUME NEW t \in Thread, NEW x \in Topic, Enqueue(t, x) PROVE SendTypeOK'
  <2>1. pushed' \in Seq([by : Thread, topic : Topic \cup {NoTopic}]) /\ Len(pushed') \in Nat
    BY <1>1, AppendIs DEF Enqueue, Push
  <2>2. out_queue' \in Seq(Nat)
    BY <1>1, <2>1, AppendIs DEF Enqueue
  <2> QED
    BY <1>1, <2>1, <2>2 DEF Enqueue, buildVars, epollVars, lifeVars, netVars
<1>2. ASSUME NEW t \in Thread, NEW x \in Topic \cup {NoTopic}, BuildFirst(t, x) PROVE SendTypeOK'
  <2>1. PICK p \in Nat \ {0} :
              /\ p = Len(pushed) + 1 /\ call[t] = 0
              /\ pushed' = Append(pushed, [by |-> t, topic |-> x])
              /\ UNCHANGED <<kind, io_mu, out_queue, current, posted, scheduled, fd, loop, wire, reset,
                             peer, begun, torn, stray>>
              /\ \/ Made(p, x) /\ call' = [call EXCEPT ![t] = p]
                 \/ Refused(p, x) /\ call' = [call EXCEPT ![t] = 0]
    BY <1>2, BuildFirstIs
  <2>2. pushed' \in Seq([by : Thread, topic : Topic \cup {NoTopic}])
    BY <2>1, AppendIs
  <2>3. built' \in Seq(Nat)
    <3>1. Append(built, p) \in Seq(Nat)
      OBVIOUS
    <3> QED
      BY <2>1, <3>1 DEF Made, Refused
  <2>4. call' \in [Thread -> Nat]
    BY <2>1
  <2> QED
    BY <2>1, <2>2, <2>3, <2>4
<1>3. ASSUME NEW t \in Thread, DrainPop(t) PROVE SendTypeOK'
  <2>1. PICK p \in Nat :
              /\ kind = "reactor" /\ io_mu = t
              /\ current = << >> /\ out_queue # << >>
              /\ p = Head(out_queue) /\ out_queue' = Tail(out_queue)
              /\ UNCHANGED <<kind, call, io_mu, posted, scheduled, fd, loop, wire, reset,
                             peer, pushed, torn, stray>>
              /\ \/ /\ p \in DOMAIN header /\ UNCHANGED <<aliases, header, skipped, built>>
                    /\ current' = Pieces(p) /\ begun' = Append(begun, p)
                 \/ /\ p \notin DOMAIN header /\ Made(p, pushed[p].topic)
                    /\ current' = Pieces(p) /\ begun' = Append(begun, p)
                 \/ /\ p \notin DOMAIN header /\ Refused(p, pushed[p].topic)
                    /\ UNCHANGED <<current, begun>>
    BY <1>3, DrainPopIs
  <2>2. out_queue' \in Seq(Nat)
    BY <2>1, TailIs
  <2>3. built' \in Seq(Nat)
    <3>1. Append(built, p) \in Seq(Nat)
      OBVIOUS
    <3> QED
      BY <2>1, <3>1 DEF Made, Refused
  <2>4. current' \in Seq(Piece)
    BY <2>1, PiecesType
  <2>5. begun' \in Seq(Nat)
    <3>1. Append(begun, p) \in Seq(Nat)
      OBVIOUS
    <3> QED
      BY <2>1, <3>1
  <2> QED
    BY <2>1, <2>2, <2>3, <2>4, <2>5
<1>4. ASSUME NEW t \in Thread, DrainEmpty(t) \/ DrainWouldBlock(t) PROVE SendTypeOK'
  <2>1. posted' \in Seq({"arm", "disarm", "teardown"})
    <3>1. posted' \in {posted, Append(posted, "arm"), Append(posted, "disarm")}
      BY <1>4 DEF DrainEmpty, DrainWouldBlock, ModFd
    <3>2. {"arm", "disarm"} \subseteq {"arm", "disarm", "teardown"}
      OBVIOUS
    <3>3. Append(posted, "arm") \in Seq({"arm", "disarm", "teardown"})
      BY <3>2
    <3>4. Append(posted, "disarm") \in Seq({"arm", "disarm", "teardown"})
      BY <3>2
    <3> QED
      BY <3>1, <3>3, <3>4
  <2> QED
    BY <1>4, <2>1 DEF DrainEmpty, DrainWouldBlock, Release, buildVars, queueVars, netVars, histVars
<1>5. ASSUME NEW t \in Thread, DrainSend(t) PROVE SendTypeOK'
  <2>1. wire' \in Seq(Piece) /\ current' \in Seq(Piece)
    BY <1>5, TailIs, AppendIs DEF DrainSend
  <2> QED
    BY <1>5, <2>1 DEF DrainSend, buildVars, epollVars, lifeVars, histVars
<1>6. ASSUME NEW t \in Thread, DrainHardError(t) PROVE SendTypeOK'
  <2>1. posted' \in Seq({"arm", "disarm", "teardown"})
    BY <1>6, AppendIs DEF DrainHardError, ScheduleTeardown
  <2> QED
    BY <1>6, <2>1, EmptyIs DEF DrainHardError, ScheduleTeardown, Release, buildVars, netVars
<1>7. ASSUME NEW t \in Thread, Begin(t) PROVE SendTypeOK'
  <2>1. /\ call[t] \in Nat /\ call' \in [Thread -> Nat]
        /\ current' \in Seq(Piece) /\ begun' \in Seq(Nat)
    BY <1>7, PiecesType, AppendIs DEF Begin
  <2> QED
    BY <1>7, <2>1 DEF Begin, epollVars, lifeVars, netVars
<1>8. ASSUME NEW t \in Thread, Written(t) PROVE SendTypeOK'
  BY <1>8 DEF Written, buildVars, queueVars, epollVars, lifeVars, netVars, histVars
<1>9. ASSUME NEW t \in Thread, GiveUp(t) PROVE SendTypeOK'
  <2>1. SubSeq(begun, 1, Len(begun) - 1) \in Seq(Nat)
    OBVIOUS
  <2> QED
    BY <1>9, <2>1, EmptyIs DEF GiveUp, buildVars, epollVars, lifeVars, netVars
<1>10. ASSUME EpollOut \/ RunModFd \/ RunTeardown \/ Close PROVE SendTypeOK'
  <2>1. posted' \in Seq({"arm", "disarm", "teardown"})
    <3>1. posted' = posted \/ (posted # << >> /\ posted' = Tail(posted))
      BY <1>10 DEF EpollOut, RunModFd, RunTeardown, Close, epollVars
    <3>2. ASSUME posted # << >> PROVE Tail(posted) \in Seq({"arm", "disarm", "teardown"})
      BY <3>2
    <3> QED
      BY <3>1, <3>2
  <2> QED
    BY <1>10, <2>1, EmptyIs, ThreadNames
    DEF EpollOut, RunModFd, RunTeardown, Close, buildVars, queueVars, epollVars, lifeVars, netVars, histVars
<1>11. ASSUME EnqueueBuilt PROVE SendTypeOK'
  <2>1. call["server"] \in Nat /\ call' \in [Thread -> Nat]
    BY <1>11, ThreadNames DEF EnqueueBuilt
  <2>2. out_queue' \in Seq(Nat)
    BY <1>11, <2>1, AppendIs DEF EnqueueBuilt
  <2> QED
    BY <1>11, <2>1, <2>2, ThreadNames DEF EnqueueBuilt, epollVars, lifeVars, netVars, histVars
<1>12. ASSUME EndOfSession \/ TakenOver \/ CloseTls PROVE SendTypeOK'
  <2>1. posted' \in Seq({"arm", "disarm", "teardown"})
    BY <1>12, AppendIs DEF EndOfSession, TakenOver, CloseTls, ScheduleTeardown, epollVars
  <2> QED
    BY <1>12, <2>1
    DEF EndOfSession, TakenOver, CloseTls, ScheduleTeardown, buildVars, queueVars, epollVars,
        netVars, histVars
<1>13. ASSUME PeerRead PROVE SendTypeOK'
  <2>1. wire' \in Seq(Piece) /\ peer' \in Seq(Piece)
    BY <1>13, TailIs, AppendIs DEF PeerRead
  <2> QED
    BY <1>13, <2>1 DEF PeerRead, buildVars, queueVars, epollVars, lifeVars, histVars
<1>14. ASSUME PeerReset PROVE SendTypeOK'
  BY <1>14, EmptyIs DEF PeerReset, buildVars, queueVars, epollVars, lifeVars, histVars
<1>15. CASE UNCHANGED vars
  BY <1>15 DEF vars, buildVars, queueVars, epollVars, lifeVars, netVars, histVars
<1> QED
  BY <1>1, <1>2, <1>3, <1>4, <1>5, <1>6, <1>7, <1>8, <1>9, <1>10, <1>11, <1>12, <1>13, <1>14, <1>15
  DEF Next, Drain, Reactor

-----------------------------------------------------------------------------
(* The teardown                                                            *)

(* The task is posted once, by whoever comes first, run once, and the      *)
(* descriptor closed after it.                                             *)
LEMMA NextTeardown ==
    ASSUME SendTypeOK, LifeInv, [Next]_vars
    PROVE  TeardownOnce'
<1> USE DEF SendTypeOK, LifeInv, TeardownOnce
<1> DEFINE Task == {"arm", "disarm", "teardown"}
<1>0. /\ posted \in Seq(Task) /\ Len(posted) \in Nat
      /\ "arm" \in Task /\ "disarm" \in Task /\ "teardown" \in Task
  OBVIOUS
<1>1. ASSUME UNCHANGED <<kind, posted, scheduled, fd, loop>> PROVE TeardownOnce'
  BY <1>1
<1>2. ASSUME NEW t \in Thread, DrainEmpty(t) \/ DrainWouldBlock(t) PROVE TeardownOnce'
  <2>1. /\ kind = "reactor" /\ UNCHANGED <<kind, scheduled, fd>>
        /\ loop' = loop \/ (loop = "flush" /\ loop' = "closing")
    BY <1>2 DEF DrainEmpty, DrainWouldBlock, Release, buildVars
  <2>2. posted' = posted \/ \E e \in {"arm", "disarm"} : posted' = Append(posted, e)
    BY <1>2 DEF DrainEmpty, DrainWouldBlock, ModFd
  <2>3. CASE posted' = posted
    BY <2>1, <2>3
  <2>4. ASSUME NEW e \in {"arm", "disarm"}, posted' = Append(posted, e) PROVE TeardownOnce'
    <3>1. Len(posted') = Len(posted) + 1
      BY <1>0, <2>4, AppendIs
    <3>2. \A i \in 1..Len(posted') : posted'[i] = "teardown" => i \in 1..Len(posted) /\ posted'[i] = posted[i]
      BY <1>0, <2>4, <3>1, AppendIs
    <3> QED
      BY <1>0, <2>1, <3>1, <3>2
  <2> QED
    BY <2>2, <2>3, <2>4
<1>3. ASSUME ScheduleTeardown, kind = "reactor", UNCHANGED <<kind, fd>>,
             loop' = loop \/ (loop = "flush" /\ loop' = "closing")
      PROVE  TeardownOnce'
  <2>1. CASE scheduled
    BY <1>3, <2>1 DEF ScheduleTeardown
  <2>2. CASE ~scheduled
    <3>1. posted' = Append(posted, "teardown") /\ scheduled' /\ loop = "events" /\ fd = "open"
      BY <1>3, <2>2 DEF ScheduleTeardown
    <3>2. Len(posted') = Len(posted) + 1
      BY <1>0, <3>1, AppendIs
    <3>3. \A i \in 1..Len(posted') : posted'[i] = "teardown" => i = Len(posted) + 1
      BY <1>0, <2>2, <3>1, <3>2, AppendIs
    <3> QED
      BY <1>0, <1>3, <3>1, <3>2, <3>3
  <2> QED
    BY <2>1, <2>2
<1>4. ASSUME NEW t \in Thread, DrainHardError(t) PROVE TeardownOnce'
  BY <1>3, <1>4 DEF DrainHardError, Release, buildVars
<1>5. ASSUME EndOfSession \/ TakenOver PROVE TeardownOnce'
  BY <1>3, <1>5 DEF EndOfSession, TakenOver, buildVars
<1>6. ASSUME RunModFd \/ RunTeardown PROVE TeardownOnce'
  <2>1. /\ posted # << >> /\ posted' = Tail(posted) /\ UNCHANGED <<kind, scheduled, fd>>
        /\ loop = "events"
    BY <1>6 DEF RunModFd, RunTeardown, buildVars, lifeVars
  <2>2. /\ Len(posted) \in Nat \ {0} /\ Len(posted') = Len(posted) - 1 /\ Head(posted) = posted[1]
        /\ \A i \in 1..Len(posted') : posted'[i] = posted[i + 1]
    BY <1>0, <2>1, TailIs
  <2>3. \A i \in 1..Len(posted') : i + 1 \in 1..Len(posted)
    BY <2>2
  <2>4. CASE RunModFd
    <3>1. loop' = loop
      BY <2>4 DEF RunModFd, lifeVars
    <3>2. \A i, j \in 1..Len(posted') : posted'[i] = "teardown" /\ posted'[j] = "teardown" => i = j
      <4> SUFFICES ASSUME NEW i \in 1..Len(posted'), NEW j \in 1..Len(posted'),
                          posted'[i] = "teardown", posted'[j] = "teardown"
                   PROVE  i = j
        OBVIOUS
      <4>1. posted[i + 1] = "teardown" /\ posted[j + 1] = "teardown"
        BY <2>2
      <4>2. i + 1 \in 1..Len(posted) /\ j + 1 \in 1..Len(posted)
        BY <2>3
      <4>3. i + 1 = j + 1
        BY <4>1, <4>2
      <4> QED
        BY <2>2, <4>3
    <3>3. \A i \in 1..Len(posted') :
             posted'[i] = "teardown" => scheduled' /\ loop' = "events" /\ fd' = "open"
      BY <2>1, <2>2, <2>3, <3>1
    <3> QED
      BY <2>1, <3>1, <3>2, <3>3
  <2>5. CASE RunTeardown
    <3>1. posted[1] = "teardown" /\ 1 \in 1..Len(posted) /\ loop' = "flush"
      BY <2>2, <2>5 DEF RunTeardown
    <3>2. \A i \in 1..Len(posted') : posted'[i] # "teardown"
      <4> SUFFICES ASSUME NEW i \in 1..Len(posted'), posted'[i] = "teardown" PROVE FALSE
        OBVIOUS
      <4>1. posted[i + 1] = "teardown" /\ i + 1 \in 1..Len(posted)
        BY <2>2, <2>3
      <4>2. i + 1 = 1
        BY <3>1, <4>1
      <4> QED
        BY <2>2, <4>2
    <3> QED
      BY <2>1, <3>1, <3>2
  <2> QED
    BY <1>6, <2>4, <2>5
<1>7. ASSUME Close PROVE TeardownOnce'
  BY <1>7 DEF Close, buildVars
<1>8. ASSUME CloseTls PROVE TeardownOnce'
  <2>1. posted = << >> /\ posted' = posted /\ UNCHANGED <<kind, loop>> /\ scheduled' /\ loop = "events"
    BY <1>8 DEF CloseTls, buildVars, epollVars
  <2>2. \A i \in 1..Len(posted') : FALSE
    BY <2>1
  <2> QED
    BY <2>1, <2>2
<1>9. ASSUME NEW t \in Thread, NEW x \in Topic, Enqueue(t, x) PROVE TeardownOnce'
  BY <1>1, <1>9 DEF Enqueue, buildVars, epollVars, lifeVars
<1>10. ASSUME NEW t \in Thread, NEW x \in Topic \cup {NoTopic}, BuildFirst(t, x) PROVE TeardownOnce'
  BY <1>1, <1>10 DEF BuildFirst, epollVars, lifeVars
<1>11. ASSUME NEW t \in Thread, DrainPop(t) \/ DrainSend(t) \/ Begin(t) \/ Written(t) \/ GiveUp(t)
       PROVE TeardownOnce'
  BY <1>1, <1>11 DEF DrainPop, DrainSend, Begin, Written, GiveUp, buildVars, epollVars, lifeVars
<1>12. ASSUME EpollOut \/ EnqueueBuilt \/ PeerRead \/ PeerReset PROVE TeardownOnce'
  BY <1>1, <1>12 DEF EpollOut, EnqueueBuilt, PeerRead, PeerReset, buildVars, epollVars, lifeVars
<1>13. CASE UNCHANGED vars
  BY <1>1, <1>13 DEF vars, buildVars, epollVars, lifeVars
<1> QED
  BY <1>2, <1>4, <1>5, <1>6, <1>7, <1>8, <1>9, <1>10, <1>11, <1>12, <1>13 DEF Next, Drain, Reactor

(* A packet of another thread ends the solitude of the serving thread,     *)
(* which never comes back.                                                 *)
LEMMA PushEndsAlone ==
    ASSUME SendTypeOK, NEW t \in Thread, NEW x \in Topic \cup {NoTopic},
           pushed' = Append(pushed, [by |-> t, topic |-> x])
    PROVE  (Alone' => Alone) /\ (t # "server" => ~Alone')
<1> DEFINE R == [by : Thread, topic : Topic \cup {NoTopic}]
           r == [by |-> t, topic |-> x]
<1>1. pushed \in Seq(R) /\ r \in R
  BY DEF SendTypeOK
<1>2. /\ Len(pushed') = Len(pushed) + 1 /\ Len(pushed) \in Nat
      /\ \A i \in 1..Len(pushed) : pushed'[i] = pushed[i]
      /\ pushed'[Len(pushed) + 1] = r
  BY <1>1, AppendIs
<1>3. Len(pushed) + 1 \in 1..Len(pushed') /\ \A i \in 1..Len(pushed) : i \in 1..Len(pushed')
  BY <1>2
<1>4. r.by = t
  OBVIOUS
<1> QED
  BY <1>2, <1>3, <1>4 DEF Alone

(* No write outlives the descriptor unless another thread writes.          *)
LEMMA NextWriters ==
    ASSUME SendTypeOK, LifeInv, [Next]_vars
    PROVE  WritersKnown'
<1> USE DEF SendTypeOK, LifeInv, WritersKnown
<1>0. ASSUME pushed' = pushed PROVE Alone' <=> Alone
  BY <1>0 DEF Alone
<1>1. ASSUME NEW t \in Thread, NEW x \in Topic, Enqueue(t, x) PROVE WritersKnown'
  <2>1. (Alone' => Alone) /\ (t # "server" => ~Alone')
    BY <1>1, PushEndsAlone DEF Enqueue, Push
  <2> QED
    BY <1>1, <2>1, ThreadNames DEF Enqueue, buildVars, lifeVars
<1>2. ASSUME NEW t \in Thread, NEW x \in Topic \cup {NoTopic}, BuildFirst(t, x) PROVE WritersKnown'
  <2>1. (Alone' => Alone) /\ (t # "server" => ~Alone')
    BY <1>2, PushEndsAlone DEF BuildFirst, Push
  <2>2. /\ UNCHANGED <<io_mu, fd, loop, stray>>
        /\ t = "server" => fd = "open" /\ loop = "events"
        /\ \A u \in Thread : u # t => call'[u] = call[u]
    BY <1>2 DEF BuildFirst, lifeVars
  <2> QED
    BY <2>1, <2>2, ThreadNames
<1>3. ASSUME NEW t \in Thread, Begin(t) PROVE WritersKnown'
  <2>1. Alone' <=> Alone
    BY <1>0, <1>3 DEF Begin
  <2>2. \A u \in Thread : call'[u] # 0 => call[u] # 0
    BY <1>3 DEF Begin
  <2> QED
    BY <1>3, <2>1, <2>2, ThreadNames DEF Begin, lifeVars
<1>4. ASSUME NEW t \in Thread, DrainPop(t) \/ DrainSend(t) PROVE WritersKnown'
  <2>1. Alone' <=> Alone
    BY <1>0, <1>4 DEF DrainPop, DrainSend, histVars
  <2>2. UNCHANGED <<io_mu, call, fd, loop, stray>>
    BY <1>4 DEF DrainPop, DrainSend, buildVars, lifeVars, histVars
  <2> QED
    BY <2>1, <2>2
<1>5. ASSUME NEW t \in Thread, DrainEmpty(t) \/ DrainWouldBlock(t) \/ DrainHardError(t) PROVE WritersKnown'
  <2>1. Alone' <=> Alone
    BY <1>0, <1>5 DEF DrainEmpty, DrainWouldBlock, DrainHardError, histVars
  <2>2. /\ io_mu = t /\ io_mu' = "free" /\ UNCHANGED <<call, fd>>
        /\ loop = "events" => loop' = "events"
        /\ stray' => stray \/ fd = "closed"
    BY <1>5 DEF DrainEmpty, DrainWouldBlock, DrainHardError, Release, buildVars, histVars
  <2> QED
    BY <2>1, <2>2, ThreadNames
<1>6. ASSUME NEW t \in Thread, Written(t) \/ GiveUp(t) PROVE WritersKnown'
  <2>1. Alone' <=> Alone
    BY <1>0, <1>6 DEF Written, GiveUp, histVars
  <2>2. /\ io_mu = t /\ io_mu' = "free" /\ UNCHANGED <<call, fd, loop>>
        /\ stray' => stray \/ fd = "closed"
    BY <1>6 DEF Written, GiveUp, buildVars, lifeVars, histVars
  <2> QED
    BY <2>1, <2>2, ThreadNames
<1>7. ASSUME EpollOut \/ RunTeardown PROVE WritersKnown'
  <2>1. Alone' <=> Alone
    BY <1>0, <1>7 DEF EpollOut, RunTeardown, histVars
  <2>2. /\ io_mu' = "server" /\ UNCHANGED <<call, fd, stray>> /\ call["server"] = 0
    BY <1>7 DEF EpollOut, RunTeardown, buildVars, lifeVars, histVars
  <2>3. fd = "open"
    <3>1. CASE EpollOut
      BY <3>1 DEF EpollOut
    <3>2. CASE RunTeardown
      <4>1. posted # << >> /\ posted[1] = "teardown" /\ 1 \in 1..Len(posted)
        BY <3>2 DEF RunTeardown
      <4> QED
        BY <4>1 DEF TeardownOnce
    <3> QED
      BY <1>7, <3>1, <3>2
  <2> QED
    BY <2>1, <2>2, <2>3, ThreadNames
<1>8. ASSUME EnqueueBuilt PROVE WritersKnown'
  <2>1. Alone' <=> Alone
    BY <1>0, <1>8 DEF EnqueueBuilt, histVars
  <2>2. /\ io_mu' = "server" /\ UNCHANGED <<fd, loop, stray>> /\ call["server"] # 0
        /\ \A u \in Thread : call'[u] # 0 => call[u] # 0
    BY <1>8 DEF EnqueueBuilt, lifeVars, histVars
  <2> QED
    BY <2>1, <2>2, ThreadNames
<1>9. ASSUME Close PROVE WritersKnown'
  <2>1. Alone' <=> Alone
    BY <1>0, <1>9 DEF Close, histVars
  <2> QED
    BY <1>9, <2>1, ThreadNames DEF Close, buildVars, histVars
<1>10. ASSUME CloseTls PROVE WritersKnown'
  <2>1. Alone' <=> Alone
    BY <1>0, <1>10 DEF CloseTls, histVars
  <2> QED
    BY <1>10, <2>1, ThreadNames DEF CloseTls, buildVars, histVars
<1>11. ASSUME UNCHANGED <<io_mu, call, fd, loop, pushed, stray>> PROVE WritersKnown'
  <2>1. Alone' <=> Alone
    BY <1>0, <1>11
  <2> QED
    BY <1>11, <2>1
<1>12. ASSUME RunModFd \/ EndOfSession \/ TakenOver \/ PeerRead \/ PeerReset PROVE WritersKnown'
  BY <1>11, <1>12 DEF RunModFd, EndOfSession, TakenOver, PeerRead, PeerReset, buildVars, lifeVars, histVars
<1>13. CASE UNCHANGED vars
  BY <1>11, <1>13 DEF vars, buildVars, lifeVars, histVars
<1> QED
  BY <1>1, <1>2, <1>3, <1>4, <1>5, <1>6, <1>7, <1>8, <1>9, <1>10, <1>12, <1>13
  DEF Next, Drain, Reactor

-----------------------------------------------------------------------------
(* The stream                                                              *)

(* One more packet is PacketLen more pieces.                               *)
LEMMA OneMore ==
    ASSUME NEW n \in Nat
    PROVE  n * PacketLen \in Nat /\ (n + 1) * PacketLen = n * PacketLen + PacketLen
  BY ReactorAssumption

(* The pieces of the first n packets do not depend on the others.          *)
LEMMA PieceOld ==
    ASSUME NEW n \in Nat, NEW b \in Seq(Nat), NEW c \in Seq(Nat), \A i \in 1..n : b[i] = c[i],
           NEW k \in 1..(n * PacketLen)
    PROVE  PieceAt(b, k) = PieceAt(c, k)
<1>1. PacketLen \in Nat \ {0} /\ n * PacketLen \in Nat
  BY ReactorAssumption, OneMore
<1>2. k - 1 \in Nat /\ k - 1 < n * PacketLen
  BY <1>1
<1>3. (k - 1) \div PacketLen \in Nat /\ (k - 1) \div PacketLen < n
  BY <1>1, <1>2
<1>4. ((k - 1) \div PacketLen) + 1 \in 1..n
  BY <1>3
<1> QED
  BY <1>4 DEF PieceAt

(* The pieces of packet n + 1 follow them.                                 *)
LEMMA PieceNew ==
    ASSUME NEW n \in Nat, NEW b \in Seq(Nat), NEW i \in 1..PacketLen
    PROVE  PieceAt(b, n * PacketLen + i) = <<b[n + 1], i>>
<1>1. PacketLen \in Nat \ {0} /\ n * PacketLen \in Nat /\ i - 1 \in Nat /\ i - 1 < PacketLen
  BY ReactorAssumption, OneMore
<1>2. (n * PacketLen + (i - 1)) \div PacketLen = n /\ (n * PacketLen + (i - 1)) % PacketLen = i - 1
  BY <1>1
<1>3. (n * PacketLen + i) - 1 = n * PacketLen + (i - 1)
  BY <1>1
<1>4. (i - 1) + 1 = i
  BY <1>1
<1> QED
  BY <1>2, <1>3, <1>4 DEF PieceAt

(* A packet begun when nothing is unsent continues the stream.             *)
LEMMA BeginsPacket ==
    ASSUME SendTypeOK, InStream, current = << >>, NEW p \in Nat,
           begun' = Append(begun, p), current' = Pieces(p),
           UNCHANGED <<peer, wire, fd, reset>>
    PROVE  InStream'
<1> DEFINE n == Len(begun)
           m == Len(peer) + Len(wire)
<1>1. /\ Len(begun') = n + 1 /\ n \in Nat /\ begun \in Seq(Nat) /\ begun' \in Seq(Nat)
      /\ \A i \in 1..n : begun[i] = begun'[i]
      /\ begun'[n + 1] = p
  BY AppendIs DEF SendTypeOK
<1>2. /\ Len(current') = PacketLen /\ PacketLen \in Nat \ {0}
      /\ \A i \in 1..PacketLen : current'[i] = <<p, i>>
  BY PiecesType, ReactorAssumption
<1>3. n * PacketLen \in Nat /\ Len(begun') * PacketLen = n * PacketLen + PacketLen
  BY <1>1, OneMore
<1>4. /\ Len(peer) \in Nat /\ Len(wire) \in Nat /\ m \in Nat /\ m <= n * PacketLen
      /\ fd = "open" /\ ~reset => m = n * PacketLen
  BY <1>3, EmptyIs DEF InStream, SendTypeOK
<1>5. \A k \in 1..(n * PacketLen) : PieceAt(begun', k) = PieceAt(begun, k)
  BY <1>1, PieceOld
<1>6. \A i \in 1..Len(peer) : peer[i] = PieceAt(begun', i)
  <2> SUFFICES ASSUME NEW i \in 1..Len(peer) PROVE peer[i] = PieceAt(begun', i)
    OBVIOUS
  <2>1. i \in 1..(n * PacketLen)
    BY <1>3, <1>4
  <2> QED
    BY <1>5, <2>1 DEF InStream
<1>7. \A i \in 1..Len(wire) : wire[i] = PieceAt(begun', Len(peer) + i)
  <2> SUFFICES ASSUME NEW i \in 1..Len(wire) PROVE wire[i] = PieceAt(begun', Len(peer) + i)
    OBVIOUS
  <2>1. Len(peer) + i \in 1..(n * PacketLen)
    BY <1>3, <1>4
  <2> QED
    BY <1>5, <2>1 DEF InStream
<1>8. \A i \in 1..PacketLen : current'[i] = PieceAt(begun', n * PacketLen + i)
  <2>1. \A i \in 1..PacketLen : PieceAt(begun', n * PacketLen + i) = <<begun'[n + 1], i>>
    BY <1>1, PieceNew
  <2> QED
    BY <1>1, <1>2, <2>1
<1>9. Len(peer') + Len(wire') + Len(current') <= Len(begun') * PacketLen
  BY <1>2, <1>3, <1>4
<1>10. ASSUME fd = "open", ~reset
       PROVE  /\ Len(peer') + Len(wire') + Len(current') = Len(begun') * PacketLen
              /\ \A i \in 1..Len(current') :
                    current'[i] = PieceAt(begun', Len(peer') + Len(wire') + i)
  BY <1>2, <1>3, <1>4, <1>8, <1>10
<1>11. Len(current') <= PacketLen
  BY <1>2
<1> QED
  BY <1>6, <1>7, <1>9, <1>10, <1>11 DEF InStream

(* Pieces move on from the packet begun to the socket and to the client.   *)
LEMMA SendKeepsStream ==
    ASSUME SendTypeOK, InStream, NEW t \in Thread, DrainSend(t)
    PROVE  InStream'
<1>1. /\ current # << >> /\ fd = "open" /\ ~reset
      /\ wire' = Append(wire, Head(current)) /\ current' = Tail(current)
      /\ UNCHANGED <<peer, begun, fd, reset>>
  BY DEF DrainSend, lifeVars, histVars
<1>2. /\ Len(current') = Len(current) - 1 /\ Len(current) \in Nat \ {0}
      /\ Head(current) = current[1] /\ Head(current) \in Piece
      /\ \A i \in 1..Len(current') : current'[i] = current[i + 1]
  BY <1>1, TailIs DEF SendTypeOK
<1>3. /\ Len(wire') = Len(wire) + 1 /\ Len(wire) \in Nat
      /\ \A i \in 1..Len(wire) : wire'[i] = wire[i]
      /\ wire'[Len(wire) + 1] = Head(current)
  BY <1>1, <1>2, AppendIs DEF SendTypeOK
<1>4. Len(peer) \in Nat
  BY DEF SendTypeOK
<1>5. /\ Len(peer) + Len(wire) + Len(current) = Len(begun) * PacketLen
      /\ \A i \in 1..Len(current) : current[i] = PieceAt(begun, Len(peer) + Len(wire) + i)
  BY <1>1 DEF InStream
<1>6. Len(peer') + Len(wire') + Len(current') = Len(begun') * PacketLen
  BY <1>1, <1>2, <1>3, <1>4, <1>5
<1>7. \A i \in 1..Len(wire') : wire'[i] = PieceAt(begun, Len(peer) + i)
  <2>1. 1 \in 1..Len(current) /\ Len(peer) + Len(wire) + 1 = Len(peer) + (Len(wire) + 1)
    BY <1>2, <1>3, <1>4
  <2>2. wire'[Len(wire) + 1] = PieceAt(begun, Len(peer) + (Len(wire) + 1))
    BY <1>2, <1>3, <1>5, <2>1
  <2>3. \A i \in 1..Len(wire) : wire'[i] = PieceAt(begun, Len(peer) + i)
    BY <1>3 DEF InStream
  <2>4. \A i \in 1..Len(wire') : i \in 1..Len(wire) \/ i = Len(wire) + 1
    BY <1>3
  <2> QED
    BY <2>2, <2>3, <2>4
<1>8. \A i \in 1..Len(current') : current'[i] = PieceAt(begun, Len(peer) + Len(wire') + i)
  <2> SUFFICES ASSUME NEW i \in 1..Len(current')
               PROVE  current'[i] = PieceAt(begun, Len(peer) + Len(wire') + i)
    OBVIOUS
  <2>1. i + 1 \in 1..Len(current) /\ Len(peer) + Len(wire) + (i + 1) = Len(peer) + Len(wire') + i
    BY <1>2, <1>3, <1>4
  <2> QED
    BY <1>2, <1>5, <2>1
<1>9. \A i \in 1..Len(peer) : peer[i] = PieceAt(begun, i)
  BY DEF InStream
<1>10. Len(peer') + Len(wire') + Len(current') <= Len(begun') * PacketLen
  <2>1. Len(peer') + Len(wire') + Len(current') \in Int
    BY <1>1, <1>2, <1>3, <1>4
  <2> QED
    BY <1>6, <2>1
<1>11. Len(current') <= PacketLen
  BY <1>2, ReactorAssumption DEF InStream
<1> QED
  BY <1>1, <1>6, <1>7, <1>8, <1>9, <1>10, <1>11 DEF InStream

(* The client reads what the socket holds.                                 *)
LEMMA ReadKeepsStream ==
    ASSUME SendTypeOK, InStream, PeerRead
    PROVE  InStream'
<1>1. /\ wire # << >> /\ peer' = Append(peer, Head(wire)) /\ wire' = Tail(wire)
      /\ UNCHANGED <<current, begun, fd, reset>>
  BY DEF PeerRead, queueVars, lifeVars, histVars
<1>2. /\ Len(wire') = Len(wire) - 1 /\ Len(wire) \in Nat \ {0}
      /\ Head(wire) = wire[1] /\ Head(wire) \in Piece
      /\ \A i \in 1..Len(wire') : wire'[i] = wire[i + 1]
  BY <1>1, TailIs DEF SendTypeOK
<1>3. /\ Len(peer') = Len(peer) + 1 /\ Len(peer) \in Nat
      /\ \A i \in 1..Len(peer) : peer'[i] = peer[i]
      /\ peer'[Len(peer) + 1] = Head(wire)
  BY <1>1, <1>2, AppendIs DEF SendTypeOK
<1>4. Len(peer') + Len(wire') = Len(peer) + Len(wire)
  BY <1>2, <1>3
<1>5. \A i \in 1..Len(wire) : wire[i] = PieceAt(begun, Len(peer) + i)
  BY DEF InStream
<1>6. \A i \in 1..Len(peer') : peer'[i] = PieceAt(begun, i)
  <2>1. 1 \in 1..Len(wire)
    BY <1>2
  <2>2. peer'[Len(peer) + 1] = PieceAt(begun, Len(peer) + 1)
    BY <1>2, <1>3, <1>5, <2>1
  <2>3. \A i \in 1..Len(peer) : peer'[i] = PieceAt(begun, i)
    BY <1>3 DEF InStream
  <2>4. \A i \in 1..Len(peer') : i \in 1..Len(peer) \/ i = Len(peer) + 1
    BY <1>3
  <2> QED
    BY <2>2, <2>3, <2>4
<1>7. \A i \in 1..Len(wire') : wire'[i] = PieceAt(begun, Len(peer') + i)
  <2> SUFFICES ASSUME NEW i \in 1..Len(wire') PROVE wire'[i] = PieceAt(begun, Len(peer') + i)
    OBVIOUS
  <2>1. i + 1 \in 1..Len(wire) /\ Len(peer) + (i + 1) = Len(peer') + i
    BY <1>2, <1>3
  <2> QED
    BY <1>2, <1>5, <2>1
<1> QED
  BY <1>1, <1>4, <1>6, <1>7 DEF InStream

(* A packet given up before its first piece went out was never begun.      *)
LEMMA GiveUpKeepsStream ==
    ASSUME SendTypeOK, InStream, NEW t \in Thread, GiveUp(t), ~torn'
    PROVE  InStream'
<1>1. /\ current # << >> /\ current' = << >>
      /\ begun' = SubSeq(begun, 1, Len(begun) - 1)
      /\ ~(Len(current) < PacketLen)
      /\ UNCHANGED <<peer, wire, fd, reset>>
  BY DEF GiveUp, lifeVars, netVars
<1>2. /\ Len(peer) \in Nat /\ Len(wire) \in Nat /\ Len(current) \in Nat /\ Len(begun) \in Nat
      /\ PacketLen \in Nat \ {0}
  BY ReactorAssumption DEF SendTypeOK
<1>3. Len(peer) + Len(wire) + Len(current) <= Len(begun) * PacketLen
  BY DEF InStream
<1>4. Len(begun) > 0
  <2>1. CASE Len(begun) = 0
    <3>1. Len(begun) * PacketLen = 0
      BY <1>2, <2>1
    <3> QED
      BY <1>1, <1>2, <1>3, <3>1
  <2> QED
    BY <1>2, <2>1
<1>5. PICK n \in Nat : Len(begun) = n + 1 /\ Len(begun) - 1 = n
  <2>1. Len(begun) - 1 \in Nat /\ Len(begun) = (Len(begun) - 1) + 1
    BY <1>2, <1>4
  <2> QED
    BY <2>1
<1>6. /\ Len(begun') = n /\ begun \in Seq(Nat) /\ begun' \in Seq(Nat)
      /\ \A i \in 1..n : begun[i] = begun'[i]
  BY <1>1, <1>4, <1>5, FrontIs DEF SendTypeOK
<1>7. n * PacketLen \in Nat /\ Len(begun) * PacketLen = n * PacketLen + PacketLen
  BY <1>5, OneMore
<1>8. Len(peer) + Len(wire) <= n * PacketLen
  BY <1>1, <1>2, <1>3, <1>7
<1>9. \A k \in 1..(n * PacketLen) : PieceAt(begun', k) = PieceAt(begun, k)
  BY <1>6, PieceOld
<1>10. \A i \in 1..Len(peer) : peer[i] = PieceAt(begun', i)
  <2> SUFFICES ASSUME NEW i \in 1..Len(peer) PROVE peer[i] = PieceAt(begun', i)
    OBVIOUS
  <2>1. i \in 1..(n * PacketLen)
    BY <1>2, <1>7, <1>8
  <2> QED
    BY <1>9, <2>1 DEF InStream
<1>11. \A i \in 1..Len(wire) : wire[i] = PieceAt(begun', Len(peer) + i)
  <2> SUFFICES ASSUME NEW i \in 1..Len(wire) PROVE wire[i] = PieceAt(begun', Len(peer) + i)
    OBVIOUS
  <2>1. Len(peer) + i \in 1..(n * PacketLen)
    BY <1>2, <1>7, <1>8
  <2> QED
    BY <1>9, <2>1 DEF InStream
<1>12. Len(current') = 0 /\ \A i \in 1..Len(current') : FALSE
  BY <1>1
<1>13. ASSUME fd = "open", ~reset
       PROVE  Len(peer') + Len(wire') + Len(current') = Len(begun') * PacketLen
  <2>1. Len(peer) + Len(wire) + Len(current) = Len(begun) * PacketLen
    BY <1>13 DEF InStream
  <2>2. Len(current) = PacketLen
    BY <1>1, <1>2 DEF InStream
  <2> QED
    <3>1. Len(peer) + Len(wire) = n * PacketLen
      BY <1>2, <1>7, <2>1, <2>2
    <3>2. Len(begun') * PacketLen = n * PacketLen
      BY <1>6
    <3> QED
      BY <1>1, <1>2, <1>7, <1>12, <3>1, <3>2
<1>14. Len(peer') + Len(wire') + Len(current') <= Len(begun') * PacketLen
  <2>1. Len(begun') * PacketLen = n * PacketLen
    BY <1>6
  <2>2. Len(peer') + Len(wire') + Len(current') = Len(peer) + Len(wire)
    BY <1>1, <1>2, <1>12
  <2> QED
    BY <1>8, <2>1, <2>2
<1>15. Len(current') <= PacketLen
  BY <1>2, <1>12
<1> QED
  BY <1>1, <1>10, <1>11, <1>12, <1>13, <1>14, <1>15 DEF InStream

(* What is discarded with the connection is missing at the end only.       *)
LEMMA DropKeepsStream ==
    ASSUME SendTypeOK, InStream, UNCHANGED <<peer, begun>>,
           current' = << >> \/ current' = current, wire' = << >> \/ wire' = wire,
           fd' = "closed" \/ reset'
    PROVE  InStream'
<1>1. /\ Len(peer) \in Nat /\ Len(wire) \in Nat /\ Len(current) \in Nat
      /\ Len(begun) * PacketLen \in Nat /\ PacketLen \in Nat
  <2>1. Len(begun) \in Nat
    BY DEF SendTypeOK
  <2> QED
    BY <2>1, OneMore, ReactorAssumption DEF SendTypeOK
<1>2. /\ Len(current') \in Nat /\ Len(current') <= Len(current)
      /\ Len(wire') \in Nat /\ Len(wire') <= Len(wire)
  BY <1>1, EmptyIs
<1>3. \A i \in 1..Len(wire') : wire'[i] = PieceAt(begun, Len(peer) + i)
  <2>1. CASE wire' = << >>
    <3>1. \A i \in 1..Len(wire') : FALSE
      BY <2>1, EmptyIs
    <3> QED
      BY <3>1
  <2>2. CASE wire' = wire
    BY <2>2 DEF InStream
  <2> QED
    BY <2>1, <2>2
<1>4. Len(peer) + Len(wire') + Len(current') <= Len(begun) * PacketLen
  BY <1>1, <1>2 DEF InStream
<1>5. Len(current') <= PacketLen
  BY <1>1, <1>2 DEF InStream
<1> QED
  BY <1>3, <1>4, <1>5 DEF InStream

(* Every step keeps the stream in one piece.                               *)
LEMMA NextStream ==
    ASSUME SendTypeOK, StreamInv, [Next]_vars
    PROVE  StreamInv'
<1> USE DEF StreamInv
<1>1. ASSUME NEW t \in Thread, NEW x \in Topic, Enqueue(t, x) PROVE StreamInv'
  <2>1. UNCHANGED <<kind, current, peer, wire, begun, fd, reset, torn>> /\ kind = "reactor"
    BY <1>1 DEF Enqueue, buildVars, lifeVars, netVars
  <2> QED
    BY <2>1 DEF InStream
<1>2. ASSUME NEW t \in Thread, NEW x \in Topic \cup {NoTopic}, BuildFirst(t, x) PROVE StreamInv'
  <2>1. UNCHANGED <<kind, io_mu, current, peer, wire, begun, fd, reset, torn>>
    BY <1>2 DEF BuildFirst, queueVars, lifeVars, netVars
  <2> QED
    BY <2>1 DEF InStream
<1>3. ASSUME NEW t \in Thread, DrainPop(t) PROVE StreamInv'
  <2>1. PICK p \in Nat :
              /\ kind = "reactor" /\ io_mu = t
              /\ current = << >> /\ out_queue # << >>
              /\ p = Head(out_queue) /\ out_queue' = Tail(out_queue)
              /\ UNCHANGED <<kind, call, io_mu, posted, scheduled, fd, loop, wire, reset,
                             peer, pushed, torn, stray>>
              /\ \/ /\ p \in DOMAIN header /\ UNCHANGED <<aliases, header, skipped, built>>
                    /\ current' = Pieces(p) /\ begun' = Append(begun, p)
                 \/ /\ p \notin DOMAIN header /\ Made(p, pushed[p].topic)
                    /\ current' = Pieces(p) /\ begun' = Append(begun, p)
                 \/ /\ p \notin DOMAIN header /\ Refused(p, pushed[p].topic)
                    /\ UNCHANGED <<current, begun>>
    BY <1>3, DrainPopIs
  <2>2. CASE current' = Pieces(p) /\ begun' = Append(begun, p)
    BY <2>1, <2>2, BeginsPacket
  <2>3. CASE UNCHANGED <<current, begun>>
    BY <2>1, <2>3 DEF InStream
  <2> QED
    BY <2>1, <2>2, <2>3
<1>4. ASSUME NEW t \in Thread, DrainEmpty(t) \/ DrainWouldBlock(t) PROVE StreamInv'
  <2>1. UNCHANGED <<kind, current, peer, wire, begun, fd, reset, torn>> /\ kind = "reactor"
    BY <1>4 DEF DrainEmpty, DrainWouldBlock, buildVars, queueVars, netVars, histVars
  <2> QED
    BY <2>1 DEF InStream
<1>5. ASSUME NEW t \in Thread, DrainSend(t) PROVE StreamInv'
  <2>1. UNCHANGED <<kind, io_mu, torn>> /\ io_mu # "free"
    BY <1>5, ThreadNames DEF DrainSend, buildVars, histVars
  <2> QED
    BY <1>5, <2>1, SendKeepsStream
<1>6. ASSUME NEW t \in Thread, DrainHardError(t) PROVE StreamInv'
  <2>1. /\ kind = "reactor" /\ current' = << >> /\ (fd' = "closed" \/ reset')
        /\ UNCHANGED <<kind, peer, wire, begun, torn>>
    BY <1>6 DEF DrainHardError, buildVars, netVars
  <2> QED
    BY <2>1, DropKeepsStream
<1>7. ASSUME NEW t \in Thread, Begin(t) PROVE StreamInv'
  <2>1. PICK p \in Nat : p = call[t]
    BY DEF SendTypeOK
  <2>2. /\ current = << >> /\ io_mu' # "free"
        /\ begun' = Append(begun, p) /\ current' = Pieces(p)
        /\ UNCHANGED <<peer, wire, fd, reset, torn>>
    BY <1>7, <2>1, ThreadNames DEF Begin, lifeVars, netVars
  <2> QED
    BY <2>2, BeginsPacket
<1>8. ASSUME NEW t \in Thread, Written(t) PROVE StreamInv'
  <2>1. UNCHANGED <<kind, current, peer, wire, begun, fd, reset, torn>> /\ current = << >>
    BY <1>8 DEF Written, buildVars, queueVars, lifeVars, netVars, histVars
  <2> QED
    BY <2>1 DEF InStream
<1>9. ASSUME NEW t \in Thread, GiveUp(t) PROVE StreamInv'
  <2>1. current' = << >> /\ (torn => torn')
    BY <1>9 DEF GiveUp
  <2> QED
    BY <1>9, <2>1, GiveUpKeepsStream
<1>10. ASSUME EpollOut \/ RunTeardown \/ EnqueueBuilt PROVE StreamInv'
  <2>1. UNCHANGED <<kind, current, peer, wire, begun, fd, reset, torn>> /\ io_mu' # "free"
    BY <1>10, ThreadNames
    DEF EpollOut, RunTeardown, EnqueueBuilt, buildVars, queueVars, lifeVars, netVars, histVars
  <2> QED
    BY <2>1 DEF InStream
<1>11. ASSUME RunModFd \/ EndOfSession \/ TakenOver PROVE StreamInv'
  <2>1. UNCHANGED <<kind, io_mu, current, peer, wire, begun, fd, reset, torn>>
    BY <1>11 DEF RunModFd, EndOfSession, TakenOver, buildVars, queueVars, lifeVars, netVars, histVars
  <2> QED
    BY <2>1 DEF InStream
<1>12. ASSUME Close PROVE StreamInv'
  <2>1. current' = << >> /\ fd' = "closed" /\ UNCHANGED <<kind, peer, wire, begun, torn>>
    BY <1>12 DEF Close, buildVars, netVars, histVars
  <2> QED
    BY <2>1, DropKeepsStream
<1>13. ASSUME CloseTls PROVE StreamInv'
  <2>1. fd' = "closed" /\ UNCHANGED <<kind, io_mu, current, peer, wire, begun, torn>>
    BY <1>13 DEF CloseTls, buildVars, queueVars, netVars, histVars
  <2> QED
    BY <2>1, DropKeepsStream
<1>14. ASSUME PeerRead PROVE StreamInv'
  <2>1. UNCHANGED <<kind, io_mu, current, torn>>
    BY <1>14 DEF PeerRead, buildVars, queueVars, histVars
  <2> QED
    BY <1>14, <2>1, ReadKeepsStream
<1>15. ASSUME PeerReset PROVE StreamInv'
  <2>1. reset' /\ wire' = << >> /\ UNCHANGED <<kind, io_mu, current, peer, begun, torn>>
    BY <1>15 DEF PeerReset, buildVars, queueVars, histVars
  <2> QED
    BY <2>1, DropKeepsStream
<1>16. CASE UNCHANGED vars
  <2>1. UNCHANGED <<kind, io_mu, current, peer, wire, begun, fd, reset, torn>>
    BY <1>16 DEF vars, buildVars, queueVars, lifeVars, netVars, histVars
  <2> QED
    BY <2>1 DEF InStream
<1> QED
  BY <1>1, <1>2, <1>3, <1>4, <1>5, <1>6, <1>7, <1>8, <1>9, <1>10, <1>11, <1>12, <1>13, <1>14, <1>15, <1>16
  DEF Next, Drain, Reactor

-----------------------------------------------------------------------------
(* The packets                                                             *)

(* The types of what holds packets.                                        *)
LEMMA PacketTypes ==
    SendTypeOK => /\ call \in [Thread -> Nat] /\ out_queue \in Seq(Nat) /\ begun \in Seq(Nat)
                  /\ Len(pushed) \in Nat /\ Len(out_queue) \in Nat /\ Len(begun) \in Nat
  BY DEF SendTypeOK

(* No step has a packet in two places.                                     *)
LEMMA NextPlace ==
    ASSUME SendTypeOK, OnePlace, [Next]_vars
    PROVE  OnePlace'
<1>0. /\ call \in [Thread -> Nat] /\ out_queue \in Seq(Nat) /\ begun \in Seq(Nat)
      /\ Len(pushed) \in Nat /\ Len(out_queue) \in Nat /\ Len(begun) \in Nat
  BY PacketTypes
<1>1. ASSUME NEW t \in Thread, NEW x \in Topic, Enqueue(t, x) PROVE OnePlace'
  <2>1. UNCHANGED <<call, begun>>
    BY <1>1 DEF Enqueue, buildVars
  <2>2. Len(pushed') = Len(pushed) + 1
    BY <1>1, AppendIs DEF Enqueue, Push, SendTypeOK
  <2>3. /\ Len(out_queue') = Len(out_queue) + 1
        /\ \A i \in 1..Len(out_queue) : out_queue'[i] = out_queue[i]
        /\ out_queue'[Len(out_queue) + 1] = Len(pushed) + 1
    BY <1>0, <1>1, <2>2, AppendIs DEF Enqueue
  <2>4. \A i \in 1..Len(out_queue') : i \in 1..Len(out_queue) \/ i = Len(out_queue) + 1
    BY <1>0, <2>3
  <2>5. \A p \in Packet : p \in Packet' /\ p # Len(pushed) + 1
    BY <1>0, <2>2 DEF Packet
  <2>6. Len(pushed) + 1 \in Packet' /\ Len(pushed) + 1 # 0
    BY <1>0, <2>2 DEF Packet
  <2>7. /\ \A u \in Thread : call[u] # Len(pushed) + 1
        /\ \A i \in 1..Len(out_queue) : out_queue[i] # Len(pushed) + 1
        /\ \A i \in 1..Len(begun) : begun[i] # Len(pushed) + 1
    BY <2>5, <2>6 DEF OnePlace
  <2>8. /\ \A u \in Thread : call'[u] # 0 => call'[u] \in Packet'
        /\ \A i \in 1..Len(out_queue') : out_queue'[i] \in Packet'
        /\ \A i \in 1..Len(begun') : begun'[i] \in Packet'
    BY <2>1, <2>3, <2>4, <2>5, <2>6 DEF OnePlace
  <2>9. /\ \A u, v \in Thread : call'[u] # 0 /\ call'[u] = call'[v] => u = v
        /\ \A i, j \in 1..Len(out_queue') : out_queue'[i] = out_queue'[j] => i = j
        /\ \A i, j \in 1..Len(begun') : begun'[i] = begun'[j] => i = j
    BY <2>1, <2>3, <2>4, <2>7 DEF OnePlace
  <2>10. /\ \A u \in Thread : \A i \in 1..Len(out_queue') : call'[u] # out_queue'[i]
         /\ \A u \in Thread : \A i \in 1..Len(begun') : call'[u] # begun'[i]
         /\ \A i \in 1..Len(out_queue') : \A j \in 1..Len(begun') : out_queue'[i] # begun'[j]
    BY <2>1, <2>3, <2>4, <2>7 DEF OnePlace
  <2> QED
    BY <2>8, <2>9, <2>10 DEF OnePlace
<1>2. ASSUME NEW t \in Thread, NEW x \in Topic \cup {NoTopic}, BuildFirst(t, x) PROVE OnePlace'
  <2>1. PICK p \in Nat \ {0} :
              /\ p = Len(pushed) + 1 /\ call[t] = 0
              /\ pushed' = Append(pushed, [by |-> t, topic |-> x])
              /\ UNCHANGED <<kind, io_mu, out_queue, current, posted, scheduled, fd, loop, wire, reset,
                             peer, begun, torn, stray>>
              /\ \/ Made(p, x) /\ call' = [call EXCEPT ![t] = p]
                 \/ Refused(p, x) /\ call' = [call EXCEPT ![t] = 0]
    BY <1>2, BuildFirstIs
  <2>2. Len(pushed') = p
    BY <2>1, AppendIs DEF SendTypeOK
  <2>3. \A u \in Thread : call'[u] = call[u] \/ (u = t /\ call'[u] = p)
    BY <1>0, <2>1
  <2>4. \A q \in Packet : q \in Packet' /\ q # p
    BY <1>0, <2>1, <2>2 DEF Packet
  <2>5. p \in Packet'
    BY <2>2 DEF Packet
  <2>6. /\ \A u \in Thread : call[u] # p
        /\ \A i \in 1..Len(out_queue) : out_queue[i] # p
        /\ \A i \in 1..Len(begun) : begun[i] # p
    BY <2>4 DEF OnePlace
  <2>7. /\ \A u \in Thread : call'[u] # 0 => call'[u] \in Packet'
        /\ \A i \in 1..Len(out_queue') : out_queue'[i] \in Packet'
        /\ \A i \in 1..Len(begun') : begun'[i] \in Packet'
    BY <2>1, <2>3, <2>4, <2>5 DEF OnePlace
  <2>8. /\ \A u, v \in Thread : call'[u] # 0 /\ call'[u] = call'[v] => u = v
        /\ \A i, j \in 1..Len(out_queue') : out_queue'[i] = out_queue'[j] => i = j
        /\ \A i, j \in 1..Len(begun') : begun'[i] = begun'[j] => i = j
    BY <2>1, <2>3, <2>6 DEF OnePlace
  <2>9. /\ \A u \in Thread : \A i \in 1..Len(out_queue') : call'[u] # out_queue'[i]
        /\ \A u \in Thread : \A i \in 1..Len(begun') : call'[u] # begun'[i]
        /\ \A i \in 1..Len(out_queue') : \A j \in 1..Len(begun') : out_queue'[i] # begun'[j]
    BY <2>1, <2>3, <2>6 DEF OnePlace
  <2> QED
    BY <2>7, <2>8, <2>9 DEF OnePlace
<1>3. ASSUME EnqueueBuilt PROVE OnePlace'
  <2>1. PICK p \in Nat : p = call["server"] /\ p # 0
    BY <1>0, <1>3, ThreadNames DEF EnqueueBuilt
  <2>2. /\ UNCHANGED <<begun, pushed>> /\ out_queue' = Append(out_queue, p)
        /\ call' = [call EXCEPT !["server"] = 0]
    BY <1>3, <2>1 DEF EnqueueBuilt, histVars
  <2>3. /\ Len(out_queue') = Len(out_queue) + 1
        /\ \A i \in 1..Len(out_queue) : out_queue'[i] = out_queue[i]
        /\ out_queue'[Len(out_queue) + 1] = p
    BY <1>0, <2>2, AppendIs
  <2>4. \A i \in 1..Len(out_queue') : i \in 1..Len(out_queue) \/ i = Len(out_queue) + 1
    BY <1>0, <2>3
  <2>5. \A u \in Thread : (u # "server" /\ call'[u] = call[u]) \/ (u = "server" /\ call'[u] = 0)
    BY <1>0, <2>2
  <2>6. Packet' = Packet /\ 0 \notin Packet
    BY <2>2 DEF Packet
  <2> QED
    BY <1>0, <2>1, <2>2, <2>3, <2>4, <2>5, <2>6, ThreadNames DEF OnePlace
<1>4. ASSUME NEW t \in Thread, Begin(t) PROVE OnePlace'
  <2>1. PICK p \in Nat : p = call[t] /\ p # 0
    BY <1>0, <1>4 DEF Begin
  <2>2. /\ UNCHANGED <<out_queue, pushed>> /\ begun' = Append(begun, p)
        /\ call' = [call EXCEPT ![t] = 0]
    BY <1>4, <2>1 DEF Begin
  <2>3. /\ Len(begun') = Len(begun) + 1
        /\ \A i \in 1..Len(begun) : begun'[i] = begun[i]
        /\ begun'[Len(begun) + 1] = p
    BY <1>0, <2>2, AppendIs
  <2>4. \A i \in 1..Len(begun') : i \in 1..Len(begun) \/ i = Len(begun) + 1
    BY <1>0, <2>3
  <2>5. \A u \in Thread : (u # t /\ call'[u] = call[u]) \/ (u = t /\ call'[u] = 0)
    BY <1>0, <2>2
  <2>6. Packet' = Packet /\ 0 \notin Packet
    BY <2>2 DEF Packet
  <2> QED
    BY <1>0, <2>1, <2>2, <2>3, <2>4, <2>5, <2>6 DEF OnePlace
<1>5. ASSUME NEW t \in Thread, DrainPop(t) PROVE OnePlace'
  <2>1. PICK p \in Nat :
              /\ kind = "reactor" /\ io_mu = t
              /\ current = << >> /\ out_queue # << >>
              /\ p = Head(out_queue) /\ out_queue' = Tail(out_queue)
              /\ UNCHANGED <<kind, call, io_mu, posted, scheduled, fd, loop, wire, reset,
                             peer, pushed, torn, stray>>
              /\ \/ /\ p \in DOMAIN header /\ UNCHANGED <<aliases, header, skipped, built>>
                    /\ current' = Pieces(p) /\ begun' = Append(begun, p)
                 \/ /\ p \notin DOMAIN header /\ Made(p, pushed[p].topic)
                    /\ current' = Pieces(p) /\ begun' = Append(begun, p)
                 \/ /\ p \notin DOMAIN header /\ Refused(p, pushed[p].topic)
                    /\ UNCHANGED <<current, begun>>
    BY <1>5, DrainPopIs
  <2>2. /\ Len(out_queue') = Len(out_queue) - 1 /\ p = out_queue[1] /\ 1 \in 1..Len(out_queue)
        /\ \A i \in 1..Len(out_queue') : out_queue'[i] = out_queue[i + 1]
    BY <1>0, <2>1, TailIs
  <2>3. \A i \in 1..Len(out_queue') : i + 1 \in 1..Len(out_queue) /\ i + 1 # 1
    BY <1>0, <2>2
  <2>4. \A i, j \in 1..Len(out_queue') : out_queue'[i] = out_queue'[j] => i = j
    <3> SUFFICES ASSUME NEW i \in 1..Len(out_queue'), NEW j \in 1..Len(out_queue'),
                        out_queue'[i] = out_queue'[j]
                 PROVE  i = j
      OBVIOUS
    <3>1. i + 1 = j + 1
      BY <2>2, <2>3 DEF OnePlace
    <3> QED
      BY <1>0, <2>2, <3>1
  <2>5. \A i \in 1..Len(out_queue') : out_queue'[i] # p /\ out_queue'[i] \in Packet
    <3> SUFFICES ASSUME NEW i \in 1..Len(out_queue') PROVE out_queue'[i] # p /\ out_queue'[i] \in Packet
      OBVIOUS
    <3> QED
      BY <2>2, <2>3 DEF OnePlace
  <2>6. /\ \A u \in Thread : \A i \in 1..Len(out_queue') : call[u] # out_queue'[i]
        /\ \A i \in 1..Len(out_queue') : \A j \in 1..Len(begun) : out_queue'[i] # begun[j]
    <3> SUFFICES ASSUME NEW i \in 1..Len(out_queue')
                 PROVE  /\ \A u \in Thread : call[u] # out_queue'[i]
                        /\ \A j \in 1..Len(begun) : out_queue'[i] # begun[j]
      OBVIOUS
    <3> QED
      BY <2>2, <2>3 DEF OnePlace
  <2>7. Packet' = Packet /\ call' = call
    BY <2>1 DEF Packet
  <2>8. CASE begun' = begun
    BY <2>4, <2>5, <2>6, <2>7, <2>8 DEF OnePlace
  <2>9. CASE begun' = Append(begun, p)
    <3>1. /\ Len(begun') = Len(begun) + 1
          /\ \A i \in 1..Len(begun) : begun'[i] = begun[i]
          /\ begun'[Len(begun) + 1] = p
      BY <1>0, <2>9, AppendIs
    <3>2. \A i \in 1..Len(begun') : i \in 1..Len(begun) \/ i = Len(begun) + 1
      BY <1>0, <3>1
    <3>3. /\ p \in Packet
          /\ \A u \in Thread : call[u] # p
          /\ \A j \in 1..Len(begun) : begun[j] # p
      BY <2>2 DEF OnePlace
    <3> QED
      BY <2>4, <2>5, <2>6, <2>7, <3>1, <3>2, <3>3 DEF OnePlace
  <2> QED
    BY <2>1, <2>8, <2>9
<1>6. ASSUME UNCHANGED <<call, pushed>>, out_queue' = out_queue \/ out_queue' = << >>,
             begun' = begun \/ begun' = SubSeq(begun, 1, Len(begun) - 1)
      PROVE  OnePlace'
  <2>1. \A i \in 1..Len(out_queue') : i \in 1..Len(out_queue) /\ out_queue'[i] = out_queue[i]
    BY <1>0, <1>6, EmptyIs
  <2>2. \A i \in 1..Len(begun') : i \in 1..Len(begun) /\ begun'[i] = begun[i]
    <3>1. CASE begun' = begun
      BY <3>1
    <3>2. CASE begun' = SubSeq(begun, 1, Len(begun) - 1) /\ Len(begun) > 0
      <4>1. Len(begun') = Len(begun) - 1 /\ \A i \in 1..(Len(begun) - 1) : begun'[i] = begun[i]
        BY <1>0, <3>2, FrontIs
      <4> QED
        BY <1>0, <4>1
    <3>3. CASE begun' = SubSeq(begun, 1, Len(begun) - 1) /\ Len(begun) = 0
      <4>1. Len(begun') = 0
        BY <1>0, <3>3
      <4> QED
        BY <4>1
    <3> QED
      BY <1>0, <1>6, <3>1, <3>2, <3>3
  <2>3. Packet' = Packet /\ call' = call
    BY <1>6 DEF Packet
  <2> QED
    BY <2>1, <2>2, <2>3 DEF OnePlace
<1>7. ASSUME NEW t \in Thread, DrainEmpty(t) \/ DrainSend(t) \/ DrainWouldBlock(t) \/ Written(t)
      PROVE  OnePlace'
  BY <1>6, <1>7 DEF DrainEmpty, DrainSend, DrainWouldBlock, Written, buildVars, queueVars, histVars
<1>8. ASSUME NEW t \in Thread, DrainHardError(t) \/ GiveUp(t) PROVE OnePlace'
  BY <1>6, <1>8 DEF DrainHardError, GiveUp, buildVars
<1>9. ASSUME EpollOut \/ RunModFd \/ RunTeardown \/ Close PROVE OnePlace'
  BY <1>6, <1>9 DEF EpollOut, RunModFd, RunTeardown, Close, buildVars, queueVars, histVars
<1>10. ASSUME EndOfSession \/ TakenOver \/ CloseTls \/ PeerRead \/ PeerReset PROVE OnePlace'
  BY <1>6, <1>10 DEF EndOfSession, TakenOver, CloseTls, PeerRead, PeerReset, buildVars, queueVars, histVars
<1>11. CASE UNCHANGED vars
  BY <1>6, <1>11 DEF vars, buildVars, queueVars, histVars
<1> QED
  BY <1>1, <1>2, <1>3, <1>4, <1>5, <1>7, <1>8, <1>9, <1>10, <1>11 DEF Next, Drain, Reactor

(* The header of a topic: an acknowledgement and a topic without an alias  *)
(* are named, a topic that has one is not.                                 *)
LEMMA HeaderIs ==
    ASSUME AliasesDistinct, AliasMax \in Nat, NEW x
    PROVE  /\ HeaderOf(x) \in [named : BOOLEAN, alias : Nat]
           /\ x = NoTopic => HeaderOf(x) = [named |-> TRUE, alias |-> 0]
           /\ x # NoTopic /\ x \in DOMAIN aliases =>
                 HeaderOf(x) = [named |-> FALSE, alias |-> aliases[x]]
           /\ x # NoTopic /\ x \notin DOMAIN aliases =>
                 HeaderOf(x) = [named |-> TRUE,
                                alias |-> IF Cardinality(DOMAIN aliases) < AliasMax
                                            THEN Cardinality(DOMAIN aliases) + 1 ELSE 0]
<1>1. Cardinality(DOMAIN aliases) \in Nat
  BY FS_CardinalityType DEF AliasesDistinct
<1>2. CASE x = NoTopic
  <2>1. HeaderOf(x) = [named |-> TRUE, alias |-> 0]
    BY <1>2 DEF HeaderOf, AliasesDistinct
  <2> QED
    BY <1>2, <2>1
<1>3. CASE x # NoTopic /\ x \in DOMAIN aliases
  <2>1. HeaderOf(x) = [named |-> FALSE, alias |-> aliases[x]]
    BY <1>3 DEF HeaderOf
  <2>2. aliases[x] \in Nat
    BY <1>1, <1>3 DEF AliasesDistinct
  <2> QED
    BY <1>3, <2>1, <2>2
<1>4. CASE x # NoTopic /\ x \notin DOMAIN aliases
  <2>1. HeaderOf(x) = [named |-> TRUE,
                       alias |-> IF Cardinality(DOMAIN aliases) < AliasMax
                                   THEN Cardinality(DOMAIN aliases) + 1 ELSE 0]
    BY <1>4 DEF HeaderOf
  <2> QED
    BY <1>1, <1>4, <2>1
<1> QED
  BY <1>2, <1>3, <1>4

(* One more packet built.                                                  *)
LEMMA MadeBuilt ==
    ASSUME SendTypeOK, SendTypeOK', OnePlace, BuiltOnce, AliasesDistinct,
           NEW p \in Nat, NEW x, p \notin DOMAIN header, p \in Packet',
           \A q \in Packet : q \in Packet', Made(p, x),
           \A t \in Thread : call'[t] # 0 => call'[t] = p \/ call'[t] \in DOMAIN header,
           \A i \in 1..Len(begun') : begun'[i] = p \/ begun'[i] \in DOMAIN header
    PROVE  BuiltOnce'
<1>1. HeaderOf(x) \in [named : BOOLEAN, alias : Nat]
  BY HeaderIs, ReactorAssumption
<1>2. /\ DOMAIN header' = (DOMAIN header) \cup {p} /\ header'[p] = HeaderOf(x)
      /\ \A q \in DOMAIN header : header'[q] = header[q]
  BY DEF Made, Extended
<1>3. header' \in [DOMAIN header' -> [named : BOOLEAN, alias : Nat]]
  BY <1>1 DEF Made, Extended, BuiltOnce
<1>4. DOMAIN header' \subseteq Packet'
  BY <1>2 DEF BuiltOnce
<1>5. /\ Len(built') = Len(built) + 1 /\ Len(built) \in Nat
      /\ \A i \in 1..Len(built) : built'[i] = built[i]
      /\ built'[Len(built) + 1] = p
  BY AppendIs DEF Made, SendTypeOK
<1>6. /\ \A i \in 1..Len(built') : i \in 1..Len(built) \/ i = Len(built) + 1
      /\ \A i \in 1..Len(built) : i \in 1..Len(built')
      /\ Len(built) + 1 \in 1..Len(built')
  BY <1>5
<1>7. DOMAIN header' = {built'[i] : i \in 1..Len(built')}
  BY <1>2, <1>5, <1>6 DEF BuiltOnce
<1>8. \A i \in 1..Len(built) : built[i] # p
  BY DEF BuiltOnce
<1>9. \A i, j \in 1..Len(built') : built'[i] = built'[j] => i = j
  BY <1>5, <1>6, <1>8 DEF BuiltOnce
<1> QED
  BY <1>2, <1>3, <1>4, <1>7, <1>9 DEF BuiltOnce

(* Every packet is built at most once, and before it is begun.             *)
LEMMA NextBuilt ==
    ASSUME SendTypeOK, SendTypeOK', OnePlace, BuiltOnce, AliasesDistinct, [Next]_vars
    PROVE  BuiltOnce'
<1>0. /\ call \in [Thread -> Nat] /\ out_queue \in Seq(Nat) /\ begun \in Seq(Nat)
      /\ Len(pushed) \in Nat /\ Len(out_queue) \in Nat /\ Len(begun) \in Nat
  BY PacketTypes
<1>1. ASSUME UNCHANGED <<header, built>>, \A q \in Packet : q \in Packet',
             \A t \in Thread : call'[t] # 0 => call'[t] \in DOMAIN header,
             \A i \in 1..Len(begun') : begun'[i] \in DOMAIN header
      PROVE  BuiltOnce'
  BY <1>1 DEF BuiltOnce
<1>2. ASSUME NEW t \in Thread, NEW x \in Topic, Enqueue(t, x) PROVE BuiltOnce'
  <2>1. UNCHANGED <<header, built, call, begun>>
    BY <1>2 DEF Enqueue, buildVars
  <2>2. Len(pushed') = Len(pushed) + 1
    BY <1>2, AppendIs DEF Enqueue, Push, SendTypeOK
  <2>3. \A q \in Packet : q \in Packet'
    BY <1>0, <2>2 DEF Packet
  <2> QED
    BY <2>1, <2>3 DEF BuiltOnce
<1>3. ASSUME NEW t \in Thread, NEW x \in Topic \cup {NoTopic}, BuildFirst(t, x) PROVE BuiltOnce'
  <2>1. PICK p \in Nat \ {0} :
              /\ p = Len(pushed) + 1 /\ call[t] = 0
              /\ pushed' = Append(pushed, [by |-> t, topic |-> x])
              /\ UNCHANGED <<kind, io_mu, out_queue, current, posted, scheduled, fd, loop, wire, reset,
                             peer, begun, torn, stray>>
              /\ \/ Made(p, x) /\ call' = [call EXCEPT ![t] = p]
                 \/ Refused(p, x) /\ call' = [call EXCEPT ![t] = 0]
    BY <1>3, BuildFirstIs
  <2>2. Len(pushed') = p
    BY <2>1, AppendIs DEF SendTypeOK
  <2>3. \A q \in Packet : q \in Packet' /\ q # p
    BY <1>0, <2>1, <2>2 DEF Packet
  <2>4. p \in Packet' /\ p \notin DOMAIN header
    BY <2>2, <2>3 DEF Packet, BuiltOnce
  <2>5. \A i \in 1..Len(begun') : begun'[i] \in DOMAIN header
    BY <2>1 DEF BuiltOnce
  <2>6. CASE Made(p, x) /\ call' = [call EXCEPT ![t] = p]
    <3>1. \A u \in Thread : call'[u] # 0 => call'[u] = p \/ call'[u] \in DOMAIN header
      BY <1>0, <2>6 DEF BuiltOnce
    <3> QED
      BY <2>3, <2>4, <2>5, <2>6, <3>1, MadeBuilt
  <2>7. CASE Refused(p, x) /\ call' = [call EXCEPT ![t] = 0]
    <3>1. \A u \in Thread : call'[u] # 0 => call'[u] \in DOMAIN header
      BY <1>0, <2>7 DEF BuiltOnce
    <3> QED
      BY <1>1, <2>3, <2>5, <2>7, <3>1 DEF Refused
  <2> QED
    BY <2>1, <2>6, <2>7
<1>4. ASSUME NEW t \in Thread, DrainPop(t) PROVE BuiltOnce'
  <2>1. PICK p \in Nat :
              /\ kind = "reactor" /\ io_mu = t
              /\ current = << >> /\ out_queue # << >>
              /\ p = Head(out_queue) /\ out_queue' = Tail(out_queue)
              /\ UNCHANGED <<kind, call, io_mu, posted, scheduled, fd, loop, wire, reset,
                             peer, pushed, torn, stray>>
              /\ \/ /\ p \in DOMAIN header /\ UNCHANGED <<aliases, header, skipped, built>>
                    /\ current' = Pieces(p) /\ begun' = Append(begun, p)
                 \/ /\ p \notin DOMAIN header /\ Made(p, pushed[p].topic)
                    /\ current' = Pieces(p) /\ begun' = Append(begun, p)
                 \/ /\ p \notin DOMAIN header /\ Refused(p, pushed[p].topic)
                    /\ UNCHANGED <<current, begun>>
    BY <1>4, DrainPopIs
  <2>2. Packet' = Packet /\ p \in Packet
    <3>1. p = out_queue[1] /\ 1 \in 1..Len(out_queue)
      BY <1>0, <2>1, TailIs
    <3> QED
      BY <2>1, <3>1 DEF Packet, OnePlace
  <2>3. \A i \in 1..Len(begun') : begun'[i] \in DOMAIN header \/ (begun' # begun /\ begun'[i] = p)
    <3>1. CASE begun' = begun
      BY <3>1 DEF BuiltOnce
    <3>2. CASE begun' = Append(begun, p)
      <4>1. /\ Len(begun') = Len(begun) + 1
            /\ \A i \in 1..Len(begun) : begun'[i] = begun[i]
            /\ begun'[Len(begun) + 1] = p
        BY <1>0, <3>2, AppendIs
      <4>2. \A i \in 1..Len(begun') : i \in 1..Len(begun) \/ i = Len(begun) + 1
        BY <1>0, <4>1
      <4>3. begun' # begun
        BY <1>0, <4>1
      <4> QED
        BY <4>1, <4>2, <4>3 DEF BuiltOnce
    <3> QED
      BY <2>1, <3>1, <3>2
  <2>4. \A u \in Thread : call'[u] # 0 => call'[u] \in DOMAIN header
    BY <2>1 DEF BuiltOnce
  <2>5. CASE p \in DOMAIN header /\ UNCHANGED <<header, built>>
    BY <1>1, <2>2, <2>3, <2>4, <2>5
  <2>6. CASE p \notin DOMAIN header /\ Made(p, pushed[p].topic)
    <3>1. PICK x : x = pushed[p].topic
      OBVIOUS
    <3>2. Made(p, x)
      BY <2>6, <3>1 DEF Made
    <3> QED
      BY <2>2, <2>3, <2>4, <2>6, <3>2, MadeBuilt
  <2>7. CASE Refused(p, pushed[p].topic) /\ UNCHANGED begun
    BY <1>1, <2>2, <2>3, <2>4, <2>7 DEF Refused
  <2> QED
    BY <2>1, <2>5, <2>6, <2>7
<1>5. ASSUME EnqueueBuilt PROVE BuiltOnce'
  <2>1. UNCHANGED <<header, built, begun, pushed>> /\ \A u \in Thread : call'[u] # 0 => call'[u] = call[u]
    BY <1>0, <1>5 DEF EnqueueBuilt, histVars
  <2> QED
    BY <2>1 DEF BuiltOnce, Packet
<1>6. ASSUME NEW t \in Thread, Begin(t) PROVE BuiltOnce'
  <2>1. PICK p \in Nat : p = call[t] /\ p # 0
    BY <1>0, <1>6 DEF Begin
  <2>2. /\ UNCHANGED <<header, built, pushed>> /\ begun' = Append(begun, p)
        /\ \A u \in Thread : call'[u] # 0 => call'[u] = call[u]
    BY <1>0, <1>6, <2>1 DEF Begin
  <2>3. /\ Len(begun') = Len(begun) + 1
        /\ \A i \in 1..Len(begun) : begun'[i] = begun[i]
        /\ begun'[Len(begun) + 1] = p
    BY <1>0, <2>2, AppendIs
  <2>4. \A i \in 1..Len(begun') : i \in 1..Len(begun) \/ i = Len(begun) + 1
    BY <1>0, <2>3
  <2>5. p \in DOMAIN header
    BY <2>1 DEF BuiltOnce
  <2>6. \A i \in 1..Len(begun') : begun'[i] \in DOMAIN header
    BY <2>3, <2>4, <2>5 DEF BuiltOnce
  <2> QED
    BY <2>2, <2>6 DEF BuiltOnce, Packet
<1>7. ASSUME NEW t \in Thread, GiveUp(t) PROVE BuiltOnce'
  <2>1. /\ UNCHANGED <<header, built, pushed, call>>
        /\ begun' = begun \/ begun' = SubSeq(begun, 1, Len(begun) - 1)
    BY <1>7 DEF GiveUp, buildVars
  <2>2. \A i \in 1..Len(begun') : i \in 1..Len(begun) /\ begun'[i] = begun[i]
    <3>1. CASE begun' = begun
      BY <3>1
    <3>2. CASE begun' = SubSeq(begun, 1, Len(begun) - 1) /\ Len(begun) > 0
      <4>1. Len(begun') = Len(begun) - 1 /\ \A i \in 1..(Len(begun) - 1) : begun'[i] = begun[i]
        BY <1>0, <3>2, FrontIs
      <4> QED
        BY <1>0, <4>1
    <3>3. CASE begun' = SubSeq(begun, 1, Len(begun) - 1) /\ Len(begun) = 0
      <4>1. Len(begun') = 0
        BY <1>0, <3>3
      <4> QED
        BY <4>1
    <3> QED
      BY <1>0, <2>1, <3>1, <3>2, <3>3
  <2> QED
    BY <2>1, <2>2 DEF BuiltOnce, Packet
<1>8. ASSUME UNCHANGED <<header, built, begun, pushed, call>> PROVE BuiltOnce'
  BY <1>8 DEF BuiltOnce, Packet
<1>9. ASSUME NEW t \in Thread, DrainEmpty(t) \/ DrainSend(t) \/ DrainWouldBlock(t)
                               \/ DrainHardError(t) \/ Written(t)
      PROVE  BuiltOnce'
  BY <1>8, <1>9 DEF DrainEmpty, DrainSend, DrainWouldBlock, DrainHardError, Written, buildVars, histVars
<1>10. ASSUME EpollOut \/ RunModFd \/ RunTeardown \/ Close PROVE BuiltOnce'
  BY <1>8, <1>10 DEF EpollOut, RunModFd, RunTeardown, Close, buildVars, histVars
<1>11. ASSUME EndOfSession \/ TakenOver \/ CloseTls \/ PeerRead \/ PeerReset PROVE BuiltOnce'
  BY <1>8, <1>11 DEF EndOfSession, TakenOver, CloseTls, PeerRead, PeerReset, buildVars, histVars
<1>12. CASE UNCHANGED vars
  BY <1>8, <1>12 DEF vars, buildVars, histVars
<1> QED
  BY <1>2, <1>3, <1>4, <1>5, <1>6, <1>7, <1>9, <1>10, <1>11, <1>12 DEF Next, Drain, Reactor


(* No packet is refused twice.                                             *)
LEMMA NextRefused ==
    ASSUME SendTypeOK, OnePlace, RefusedOnce, [Next]_vars
    PROVE  RefusedOnce'
<1>0. /\ call \in [Thread -> Nat] /\ out_queue \in Seq(Nat) /\ begun \in Seq(Nat)
      /\ Len(pushed) \in Nat /\ Len(out_queue) \in Nat /\ Len(begun) \in Nat
  BY PacketTypes
<1>1. 0 \notin Packet
  BY <1>0 DEF Packet
<1>2. ASSUME UNCHANGED <<skipped, pushed>>, \A t \in Thread : call'[t] = call[t] \/ call'[t] = 0,
             out_queue' = out_queue \/ out_queue' = << >>
      PROVE  RefusedOnce'
  <2>1. \A i \in 1..Len(out_queue') : i \in 1..Len(out_queue) /\ out_queue'[i] = out_queue[i]
    BY <1>0, <1>2, EmptyIs
  <2>2. Packet' = Packet
    BY <1>2 DEF Packet
  <2> QED
    BY <1>1, <1>2, <2>1, <2>2 DEF RefusedOnce
<1>3. ASSUME NEW t \in Thread, NEW x \in Topic, Enqueue(t, x) PROVE RefusedOnce'
  <2>1. UNCHANGED <<call, skipped>>
    BY <1>3 DEF Enqueue, buildVars
  <2>2. Len(pushed') = Len(pushed) + 1
    BY <1>3, AppendIs DEF Enqueue, Push, SendTypeOK
  <2>3. /\ Len(out_queue') = Len(out_queue) + 1
        /\ \A i \in 1..Len(out_queue) : out_queue'[i] = out_queue[i]
        /\ out_queue'[Len(out_queue) + 1] = Len(pushed) + 1
    BY <1>0, <1>3, <2>2, AppendIs DEF Enqueue
  <2>4. \A i \in 1..Len(out_queue') : i \in 1..Len(out_queue) \/ i = Len(out_queue) + 1
    BY <1>0, <2>3
  <2>5. \A p \in Packet : p \in Packet' /\ p # Len(pushed) + 1
    BY <1>0, <2>2 DEF Packet
  <2>6. Len(pushed) + 1 \notin DOMAIN skipped
    BY <2>5 DEF RefusedOnce
  <2> QED
    BY <2>1, <2>3, <2>4, <2>5, <2>6 DEF RefusedOnce
<1>4. ASSUME NEW t \in Thread, NEW x \in Topic \cup {NoTopic}, BuildFirst(t, x) PROVE RefusedOnce'
  <2>1. PICK p \in Nat \ {0} :
              /\ p = Len(pushed) + 1 /\ call[t] = 0
              /\ pushed' = Append(pushed, [by |-> t, topic |-> x])
              /\ UNCHANGED <<kind, io_mu, out_queue, current, posted, scheduled, fd, loop, wire, reset,
                             peer, begun, torn, stray>>
              /\ \/ Made(p, x) /\ call' = [call EXCEPT ![t] = p]
                 \/ Refused(p, x) /\ call' = [call EXCEPT ![t] = 0]
    BY <1>4, BuildFirstIs
  <2>2. Len(pushed') = p
    BY <2>1, AppendIs DEF SendTypeOK
  <2>3. \A q \in Packet : q \in Packet' /\ q # p
    BY <1>0, <2>1, <2>2 DEF Packet
  <2>4. p \in Packet' /\ p \notin DOMAIN skipped
    BY <2>2, <2>3 DEF Packet, RefusedOnce
  <2>5. CASE Made(p, x) /\ call' = [call EXCEPT ![t] = p]
    <3>1. \A u \in Thread : call'[u] = call[u] \/ call'[u] = p
      BY <1>0, <2>5
    <3> QED
      BY <2>1, <2>3, <2>4, <2>5, <3>1 DEF RefusedOnce, Made
  <2>6. CASE Refused(p, x) /\ call' = [call EXCEPT ![t] = 0]
    <3>1. call' = call
      BY <1>0, <2>1, <2>6
    <3>2. DOMAIN skipped' = (DOMAIN skipped) \cup {p}
      BY <2>6 DEF Refused, Extended
    <3>3. /\ \A u \in Thread : call[u] # p
          /\ \A i \in 1..Len(out_queue) : out_queue[i] # p
      BY <2>3 DEF OnePlace
    <3> QED
      BY <2>1, <2>3, <2>4, <3>1, <3>2, <3>3 DEF RefusedOnce
  <2> QED
    BY <2>1, <2>5, <2>6
<1>5. ASSUME EnqueueBuilt PROVE RefusedOnce'
  <2>1. PICK p \in Nat : p = call["server"]
    BY <1>0, ThreadNames
  <2>2. /\ UNCHANGED <<skipped, pushed>> /\ out_queue' = Append(out_queue, p)
        /\ \A u \in Thread : call'[u] = call[u] \/ call'[u] = 0
    BY <1>0, <1>5, <2>1 DEF EnqueueBuilt, histVars
  <2>3. /\ Len(out_queue') = Len(out_queue) + 1
        /\ \A i \in 1..Len(out_queue) : out_queue'[i] = out_queue[i]
        /\ out_queue'[Len(out_queue) + 1] = p
    BY <1>0, <2>2, AppendIs
  <2>4. \A i \in 1..Len(out_queue') : i \in 1..Len(out_queue) \/ i = Len(out_queue) + 1
    BY <1>0, <2>3
  <2>5. Packet' = Packet /\ p \notin DOMAIN skipped
    BY <2>1, <2>2, ThreadNames DEF Packet, RefusedOnce
  <2> QED
    BY <1>1, <2>2, <2>3, <2>4, <2>5 DEF RefusedOnce
<1>6. ASSUME NEW t \in Thread, DrainPop(t) PROVE RefusedOnce'
  <2>1. PICK p \in Nat :
              /\ kind = "reactor" /\ io_mu = t
              /\ current = << >> /\ out_queue # << >>
              /\ p = Head(out_queue) /\ out_queue' = Tail(out_queue)
              /\ UNCHANGED <<kind, call, io_mu, posted, scheduled, fd, loop, wire, reset,
                             peer, pushed, torn, stray>>
              /\ \/ /\ p \in DOMAIN header /\ UNCHANGED <<aliases, header, skipped, built>>
                    /\ current' = Pieces(p) /\ begun' = Append(begun, p)
                 \/ /\ p \notin DOMAIN header /\ Made(p, pushed[p].topic)
                    /\ current' = Pieces(p) /\ begun' = Append(begun, p)
                 \/ /\ p \notin DOMAIN header /\ Refused(p, pushed[p].topic)
                    /\ UNCHANGED <<current, begun>>
    BY <1>6, DrainPopIs
  <2>2. /\ Len(out_queue') = Len(out_queue) - 1 /\ p = out_queue[1] /\ 1 \in 1..Len(out_queue)
        /\ \A i \in 1..Len(out_queue') : out_queue'[i] = out_queue[i + 1]
    BY <1>0, <2>1, TailIs
  <2>3. \A i \in 1..Len(out_queue') : i + 1 \in 1..Len(out_queue) /\ i + 1 # 1
    BY <1>0, <2>2
  <2>4. \A i \in 1..Len(out_queue') : out_queue'[i] # p /\ out_queue'[i] \notin DOMAIN skipped
    <3> SUFFICES ASSUME NEW i \in 1..Len(out_queue')
                 PROVE  out_queue'[i] # p /\ out_queue'[i] \notin DOMAIN skipped
      OBVIOUS
    <3> QED
      BY <2>2, <2>3 DEF OnePlace, RefusedOnce
  <2>5. Packet' = Packet /\ p \in Packet /\ \A u \in Thread : call[u] # p
    BY <2>1, <2>2 DEF Packet, OnePlace
  <2>6. skipped' = skipped \/ DOMAIN skipped' = (DOMAIN skipped) \cup {p}
    BY <2>1 DEF Made, Refused, Extended
  <2> QED
    BY <2>1, <2>4, <2>5, <2>6 DEF RefusedOnce
<1>7. ASSUME NEW t \in Thread, Begin(t) PROVE RefusedOnce'
  <2>1. UNCHANGED <<skipped, pushed, out_queue>> /\ \A u \in Thread : call'[u] = call[u] \/ call'[u] = 0
    BY <1>0, <1>7 DEF Begin
  <2> QED
    BY <1>2, <2>1
<1>8. ASSUME NEW t \in Thread, DrainEmpty(t) \/ DrainSend(t) \/ DrainWouldBlock(t)
                               \/ DrainHardError(t) \/ Written(t) \/ GiveUp(t)
      PROVE  RefusedOnce'
  BY <1>2, <1>8
  DEF DrainEmpty, DrainSend, DrainWouldBlock, DrainHardError, Written, GiveUp, buildVars, queueVars, histVars
<1>9. ASSUME EpollOut \/ RunModFd \/ RunTeardown \/ Close PROVE RefusedOnce'
  BY <1>2, <1>9 DEF EpollOut, RunModFd, RunTeardown, Close, buildVars, queueVars, histVars
<1>10. ASSUME EndOfSession \/ TakenOver \/ CloseTls \/ PeerRead \/ PeerReset PROVE RefusedOnce'
  BY <1>2, <1>10 DEF EndOfSession, TakenOver, CloseTls, PeerRead, PeerReset, buildVars, queueVars, histVars
<1>11. CASE UNCHANGED vars
  BY <1>2, <1>11 DEF vars, buildVars, queueVars, histVars
<1> QED
  BY <1>3, <1>4, <1>5, <1>6, <1>7, <1>8, <1>9, <1>10, <1>11 DEF Next, Drain, Reactor

-----------------------------------------------------------------------------
(* The aliases                                                             *)

(* A topic gets the next alias together with its name, or none.            *)
LEMMA EmplacedIs ==
    ASSUME AliasesDistinct, NEW x
    PROVE  \/ /\ Emplaced(x) = aliases
              /\ HeaderOf(x).named => HeaderOf(x).alias = 0
              /\ ~HeaderOf(x).named => x \in DOMAIN aliases /\ HeaderOf(x).alias = aliases[x]
           \/ /\ Emplaced(x) = Extended(aliases, x, Cardinality(DOMAIN aliases) + 1)
              /\ x # NoTopic /\ x \notin DOMAIN aliases
              /\ HeaderOf(x).named
              /\ HeaderOf(x).alias = Cardinality(DOMAIN aliases) + 1
<1>1. AliasMax \in Nat /\ Cardinality(DOMAIN aliases) \in Nat
  BY ReactorAssumption, FS_CardinalityType DEF AliasesDistinct
<1>2. CASE x = NoTopic
  <2>1. HeaderOf(x).named /\ HeaderOf(x).alias = 0
    BY <1>1, <1>2, HeaderIs
  <2> QED
    BY <2>1 DEF Emplaced
<1>3. CASE x # NoTopic /\ x \in DOMAIN aliases
  <2>1. ~HeaderOf(x).named /\ HeaderOf(x).alias = aliases[x]
    BY <1>1, <1>3, HeaderIs
  <2> QED
    BY <1>3, <2>1 DEF Emplaced
<1>4. CASE x # NoTopic /\ x \notin DOMAIN aliases
  <2>1. /\ HeaderOf(x).named
        /\ HeaderOf(x).alias = IF Cardinality(DOMAIN aliases) < AliasMax
                                 THEN Cardinality(DOMAIN aliases) + 1 ELSE 0
    BY <1>1, <1>4, HeaderIs
  <2> QED
    BY <1>1, <1>4, <2>1 DEF Emplaced
<1> QED
  BY <1>2, <1>3, <1>4

(* The topics that have an alias keep it, and no two share one.            *)
LEMMA EmplacedDistinct ==
    ASSUME AliasesDistinct, NEW x, aliases' = Emplaced(x)
    PROVE  /\ AliasesDistinct'
           /\ \A y \in DOMAIN aliases : y \in DOMAIN aliases' /\ aliases'[y] = aliases[y]
<1> DEFINE n == Cardinality(DOMAIN aliases)
<1>1. CASE Emplaced(x) = aliases
  BY <1>1 DEF AliasesDistinct
<1>2. CASE /\ Emplaced(x) = Extended(aliases, x, n + 1)
           /\ x # NoTopic /\ x \notin DOMAIN aliases
  <2>1. /\ DOMAIN aliases' = (DOMAIN aliases) \cup {x} /\ aliases'[x] = n + 1
        /\ \A y \in DOMAIN aliases : aliases'[y] = aliases[y]
    BY <1>2 DEF Extended
  <2>2. IsFiniteSet(DOMAIN aliases) /\ n \in Nat
    BY FS_CardinalityType DEF AliasesDistinct
  <2>3. IsFiniteSet(DOMAIN aliases') /\ Cardinality(DOMAIN aliases') = n + 1
    BY <1>2, <2>1, <2>2, FS_AddElement
  <2>4. aliases' = [y \in DOMAIN aliases' |-> aliases'[y]]
    BY <1>2 DEF Extended
  <2>5. \A y \in DOMAIN aliases : aliases[y] \in 1..n
    BY DEF AliasesDistinct
  <2>6. \A y \in DOMAIN aliases' : aliases'[y] \in 1..(n + 1)
    <3>1. \A y \in DOMAIN aliases : aliases[y] \in 1..(n + 1)
      BY <2>2, <2>5
    <3> QED
      BY <2>1, <2>2, <3>1
  <2>7. \A y, z \in DOMAIN aliases' : aliases'[y] = aliases'[z] => y = z
    <3>1. \A y \in DOMAIN aliases : aliases[y] # n + 1
      BY <2>2, <2>5
    <3> QED
      BY <2>1, <3>1 DEF AliasesDistinct
  <2>8. NoTopic \notin DOMAIN aliases'
    BY <1>2, <2>1 DEF AliasesDistinct
  <2>9. aliases' \in [DOMAIN aliases' -> 1..Cardinality(DOMAIN aliases')]
    BY <2>3, <2>4, <2>6
  <2> QED
    BY <2>1, <2>3, <2>7, <2>8, <2>9 DEF AliasesDistinct
<1> QED
  BY <1>1, <1>2, EmplacedIs

(* A refusal leaves the packets built as they are.                         *)
LEMMA RefusedAnnounced ==
    ASSUME BuiltOnce, AliasInv, NEW p \in Nat, NEW x, Refused(p, x), p \notin DOMAIN skipped,
           \A q \in DOMAIN header : pushed'[q] = pushed[q]
    PROVE  AliasInv'
<1>1. /\ AliasesDistinct'
      /\ \A y \in DOMAIN aliases : y \in DOMAIN aliases' /\ aliases'[y] = aliases[y]
  <2>1. CASE aliases' = aliases
    BY <2>1 DEF AliasInv, AliasesDistinct
  <2>2. CASE aliases' = Emplaced(x)
    BY <2>2, EmplacedDistinct DEF AliasInv
  <2> QED
    BY <2>1, <2>2 DEF Refused
<1>2. /\ header' = header /\ built' = built
      /\ \A k \in 1..Len(built) : built[k] \in DOMAIN header
  BY DEF Refused, BuiltOnce
<1>3. \A q \in DOMAIN header : header[q].alias # 0 =>
         pushed'[q].topic \in DOMAIN aliases' /\ aliases'[pushed'[q].topic] = header[q].alias
  BY <1>1 DEF AliasInv, AliasesAnnounced
<1>4. ASSUME \A q \in DOMAIN skipped' : skipped'[q] # "oversize"
      PROVE  /\ aliases' = aliases
             /\ \A q \in DOMAIN skipped : skipped[q] # "oversize"
  <2>1. \A q \in DOMAIN skipped : q \in DOMAIN skipped' /\ skipped'[q] = skipped[q]
    BY DEF Refused, Extended
  <2>2. CASE skipped' = Extended(skipped, p, "oversize")
    <3>1. p \in DOMAIN skipped' /\ skipped'[p] = "oversize"
      BY <2>2 DEF Extended
    <3> QED
      BY <1>4, <3>1
  <2> QED
    BY <1>4, <2>1, <2>2 DEF Refused
<1>5. ASSUME \A q \in DOMAIN skipped' : skipped'[q] # "oversize"
      PROVE  /\ \A y \in DOMAIN aliases' : \E i \in 1..Len(built) :
                   Announces(header, pushed', aliases', built[i], y)
             /\ \A k \in 1..Len(built) : ~header[built[k]].named => \E i \in 1..(k - 1) :
                   Announces(header, pushed', aliases', built[i], pushed'[built[k]].topic)
  <2>1. /\ \A y \in DOMAIN aliases : \E i \in 1..Len(built) :
              Announces(header, pushed, aliases, built[i], y)
        /\ \A k \in 1..Len(built) : ~header[built[k]].named => \E i \in 1..(k - 1) :
              Announces(header, pushed, aliases, built[i], pushed[built[k]].topic)
    BY <1>4, <1>5 DEF AliasInv, AliasesAnnounced
  <2>2. \A i \in 1..Len(built) : pushed'[built[i]] = pushed[built[i]]
    BY <1>2
  <2>3. aliases' = aliases
    BY <1>4, <1>5
  <2>4. \A k \in 1..Len(built) : \A i \in 1..(k - 1) : i \in 1..Len(built)
    OBVIOUS
  <2> QED
    BY <2>1, <2>2, <2>3, <2>4 DEF Announces
<1> QED
  BY <1>1, <1>2, <1>3, <1>5 DEF AliasInv, AliasesAnnounced

(* A packet built announces its alias, or uses one announced before.       *)
LEMMA MadeAnnounced ==
    ASSUME BuiltOnce, AliasInv, built \in Seq(Nat), NEW p \in Nat, NEW x, Made(p, x),
           p \notin DOMAIN header, pushed'[p].topic = x,
           \A q \in DOMAIN header : pushed'[q] = pushed[q]
    PROVE  AliasInv'
<1> DEFINE n == Cardinality(DOMAIN aliases)
           h == HeaderOf(x)
<1>1. /\ AliasesDistinct'
      /\ \A y \in DOMAIN aliases : y \in DOMAIN aliases' /\ aliases'[y] = aliases[y]
  BY EmplacedDistinct DEF AliasInv, Made
<1>2. /\ DOMAIN header' = (DOMAIN header) \cup {p} /\ header'[p] = h
      /\ \A q \in DOMAIN header : header'[q] = header[q]
  BY DEF Made, Extended
<1>3. /\ n \in Nat
      /\ \A y \in DOMAIN aliases : aliases[y] # n + 1 /\ aliases[y] # 0
  <2>1. n \in Nat
    BY FS_CardinalityType DEF AliasInv, AliasesDistinct
  <2> QED
    BY <2>1 DEF AliasInv, AliasesDistinct
<1>4. \/ /\ aliases' = aliases
         /\ h.named => h.alias = 0
         /\ ~h.named => x \in DOMAIN aliases /\ h.alias = aliases[x]
      \/ /\ DOMAIN aliases' = (DOMAIN aliases) \cup {x} /\ x \notin DOMAIN aliases
         /\ h.named /\ h.alias = n + 1 /\ aliases'[x] = n + 1
  <2>1. CASE /\ Emplaced(x) = aliases
             /\ h.named => h.alias = 0
             /\ ~h.named => x \in DOMAIN aliases /\ h.alias = aliases[x]
    BY <2>1 DEF Made
  <2>2. CASE /\ Emplaced(x) = Extended(aliases, x, n + 1)
             /\ x # NoTopic /\ x \notin DOMAIN aliases
             /\ h.named /\ h.alias = n + 1
    BY <2>2 DEF Made, Extended
  <2> QED
    BY <2>1, <2>2, EmplacedIs DEF AliasInv
<1>5. \A q \in DOMAIN header' : header'[q].alias # 0 =>
         pushed'[q].topic \in DOMAIN aliases' /\ aliases'[pushed'[q].topic] = header'[q].alias
  <2>1. ASSUME NEW q \in DOMAIN header, header'[q].alias # 0
        PROVE  pushed'[q].topic \in DOMAIN aliases' /\ aliases'[pushed'[q].topic] = header'[q].alias
    BY <1>1, <1>2, <2>1 DEF AliasInv, AliasesAnnounced
  <2>2. ASSUME h.alias # 0 PROVE x \in DOMAIN aliases' /\ aliases'[x] = h.alias
    BY <1>1, <1>4, <2>2
  <2> QED
    BY <1>2, <2>1, <2>2
<1>6. \A q \in DOMAIN header' : ~header'[q].named => header'[q].alias # 0
  BY <1>2, <1>3, <1>4 DEF AliasInv, AliasesAnnounced
<1>7. \A q \in DOMAIN header : h.named /\ h.alias # 0 => header[q].alias # h.alias
  BY <1>3, <1>4 DEF AliasInv, AliasesAnnounced
<1>8. \A q, r \in DOMAIN header' :
         (/\ header'[q].named /\ header'[r].named
          /\ header'[q].alias = header'[r].alias /\ header'[q].alias # 0) => q = r
  BY <1>2, <1>7 DEF AliasInv, AliasesAnnounced
<1>9. /\ Len(built') = Len(built) + 1 /\ Len(built) \in Nat
      /\ \A i \in 1..Len(built) : built'[i] = built[i]
      /\ built'[Len(built) + 1] = p
  BY AppendIs DEF Made
<1>10. /\ \A i \in 1..Len(built') : i \in 1..Len(built) \/ i = Len(built) + 1
       /\ \A i \in 1..Len(built) : i \in 1..Len(built')
       /\ Len(built) + 1 \in 1..Len(built')
       /\ \A i \in 1..Len(built) : i \in 1..((Len(built) + 1) - 1)
       /\ \A k \in 1..Len(built) : \A i \in 1..(k - 1) : i \in 1..Len(built)
  BY <1>9
<1>11. \A i \in 1..Len(built) : /\ built[i] \in DOMAIN header
                               /\ header'[built[i]] = header[built[i]]
                               /\ pushed'[built[i]] = pushed[built[i]]
  BY <1>2 DEF BuiltOnce
<1>12. ASSUME \A q \in DOMAIN skipped' : skipped'[q] # "oversize"
       PROVE  /\ \A y \in DOMAIN aliases' : \E i \in 1..Len(built') :
                    Announces(header', pushed', aliases', built'[i], y)
              /\ \A k \in 1..Len(built') : ~header'[built'[k]].named => \E i \in 1..(k - 1) :
                    Announces(header', pushed', aliases', built'[i], pushed'[built'[k]].topic)
  <2>1. /\ \A y \in DOMAIN aliases : \E i \in 1..Len(built) :
              Announces(header, pushed, aliases, built[i], y)
        /\ \A k \in 1..Len(built) : ~header[built[k]].named => \E i \in 1..(k - 1) :
              Announces(header, pushed, aliases, built[i], pushed[built[k]].topic)
    BY <1>12 DEF AliasInv, AliasesAnnounced, Made
  <2>2. ASSUME NEW y \in DOMAIN aliases
        PROVE  \E i \in 1..Len(built) : Announces(header', pushed', aliases', built'[i], y)
    <3>1. PICK i \in 1..Len(built) : Announces(header, pushed, aliases, built[i], y)
      BY <2>1
    <3>2. Announces(header', pushed', aliases', built'[i], y)
      BY <1>1, <1>9, <1>11, <3>1 DEF Announces
    <3> QED
      BY <3>2
  <2>3. \A y \in DOMAIN aliases' : \E i \in 1..Len(built') :
           Announces(header', pushed', aliases', built'[i], y)
    <3> SUFFICES ASSUME NEW y \in DOMAIN aliases'
                 PROVE  \E i \in 1..Len(built') : Announces(header', pushed', aliases', built'[i], y)
      OBVIOUS
    <3>1. CASE y \in DOMAIN aliases
      BY <1>10, <2>2, <3>1
    <3>2. CASE y \notin DOMAIN aliases
      <4>1. y = x /\ h.named /\ h.alias = aliases'[x]
        BY <1>4, <3>2
      <4>2. Announces(header', pushed', aliases', built'[Len(built) + 1], y)
        BY <1>2, <1>9, <4>1 DEF Announces
      <4> QED
        BY <1>10, <4>2
    <3> QED
      BY <3>1, <3>2
  <2>4. ASSUME NEW k \in 1..Len(built), ~header'[built'[k]].named
        PROVE  \E i \in 1..(k - 1) :
                  Announces(header', pushed', aliases', built'[i], pushed'[built'[k]].topic)
    <3>1. ~header[built[k]].named /\ built'[k] = built[k] /\ pushed'[built'[k]] = pushed[built[k]]
      BY <1>9, <1>11, <2>4
    <3>2. PICK i \in 1..(k - 1) : Announces(header, pushed, aliases, built[i], pushed[built[k]].topic)
      BY <2>1, <3>1
    <3>3. i \in 1..Len(built)
      BY <1>10
    <3>4. pushed[built[i]].topic \in DOMAIN aliases
      <4>1. header[built[k]].alias # 0
        BY <1>11, <3>1 DEF AliasInv, AliasesAnnounced
      <4>2. pushed[built[k]].topic \in DOMAIN aliases
        BY <1>11, <4>1 DEF AliasInv, AliasesAnnounced
      <4> QED
        BY <3>2, <4>2 DEF Announces
    <3>5. Announces(header', pushed', aliases', built'[i], pushed'[built'[k]].topic)
      BY <1>1, <1>9, <1>11, <3>1, <3>2, <3>3, <3>4 DEF Announces
    <3> QED
      BY <3>5
  <2>5. ASSUME ~header'[p].named
        PROVE  \E i \in 1..((Len(built) + 1) - 1) :
                  Announces(header', pushed', aliases', built'[i], pushed'[p].topic)
    <3>1. x \in DOMAIN aliases
      BY <1>2, <1>4, <2>5
    <3> QED
      BY <1>10, <2>2, <3>1
  <2>6. ASSUME NEW k \in 1..Len(built'), ~header'[built'[k]].named
        PROVE  \E i \in 1..(k - 1) :
                  Announces(header', pushed', aliases', built'[i], pushed'[built'[k]].topic)
    <3>1. CASE k \in 1..Len(built)
      BY <2>4, <2>6, <3>1
    <3>2. CASE k = Len(built) + 1
      BY <1>9, <2>5, <2>6, <3>2
    <3> QED
      BY <1>10, <3>1, <3>2
  <2> QED
    BY <2>3, <2>6
<1> QED
  BY <1>1, <1>5, <1>6, <1>8, <1>12 DEF AliasInv, AliasesAnnounced

(* Every step keeps the aliases distinct and announced.                    *)
LEMMA NextAlias ==
    ASSUME SendTypeOK, PacketInv, AliasInv, [Next]_vars
    PROVE  AliasInv'
<1> USE DEF PacketInv
<1>0. /\ call \in [Thread -> Nat] /\ out_queue \in Seq(Nat) /\ begun \in Seq(Nat)
      /\ Len(pushed) \in Nat /\ Len(out_queue) \in Nat /\ Len(begun) \in Nat /\ built \in Seq(Nat)
  BY DEF SendTypeOK
<1>1. ASSUME UNCHANGED <<aliases, header, built, skipped>>,
             \A q \in DOMAIN header : pushed'[q] = pushed[q]
      PROVE  AliasInv'
  <2>1. AliasesDistinct'
    BY <1>1 DEF AliasInv, AliasesDistinct
  <2>2. \A i \in 1..Len(built) : built[i] \in DOMAIN header /\ pushed'[built[i]] = pushed[built[i]]
    BY <1>1 DEF BuiltOnce
  <2>3. \A k \in 1..Len(built) : \A i \in 1..(k - 1) : i \in 1..Len(built)
    BY <1>0
  <2>4. \A i \in 1..Len(built) : \A y :
           Announces(header, pushed, aliases, built[i], y)
             => Announces(header', pushed', aliases', built'[i], y)
    BY <1>1, <2>2 DEF Announces
  <2>5. /\ \A p \in DOMAIN header : header[p].alias # 0 =>
              pushed'[p].topic \in DOMAIN aliases' /\ aliases'[pushed'[p].topic] = header[p].alias
        /\ \A p \in DOMAIN header : ~header[p].named => header[p].alias # 0
        /\ \A p, q \in DOMAIN header :
              (/\ header[p].named /\ header[q].named
               /\ header[p].alias = header[q].alias /\ header[p].alias # 0) => p = q
    BY <1>1 DEF AliasInv, AliasesAnnounced
  <2>6. ASSUME \A p \in DOMAIN skipped : skipped[p] # "oversize"
        PROVE  /\ \A y \in DOMAIN aliases' : \E i \in 1..Len(built') :
                     Announces(header', pushed', aliases', built'[i], y)
               /\ \A k \in 1..Len(built') : ~header'[built'[k]].named => \E i \in 1..(k - 1) :
                     Announces(header', pushed', aliases', built'[i], pushed'[built'[k]].topic)
    <3>1. /\ \A y \in DOMAIN aliases : \E i \in 1..Len(built) :
                Announces(header, pushed, aliases, built[i], y)
          /\ \A k \in 1..Len(built) : ~header[built[k]].named => \E i \in 1..(k - 1) :
                Announces(header, pushed, aliases, built[i], pushed[built[k]].topic)
      BY <2>6 DEF AliasInv, AliasesAnnounced
    <3>2. \A y \in DOMAIN aliases : \E i \in 1..Len(built) :
             Announces(header', pushed', aliases', built'[i], y)
      BY <2>4, <3>1
    <3>3. ASSUME NEW k \in 1..Len(built), ~header[built[k]].named
          PROVE  \E i \in 1..(k - 1) :
                    Announces(header', pushed', aliases', built'[i], pushed'[built[k]].topic)
      <4>1. PICK i \in 1..(k - 1) : Announces(header, pushed, aliases, built[i], pushed[built[k]].topic)
        BY <3>1, <3>3
      <4>2. i \in 1..Len(built)
        BY <2>3
      <4>3. Announces(header', pushed', aliases', built'[i], pushed'[built[k]].topic)
        BY <2>2, <2>4, <4>1, <4>2
      <4> QED
        BY <4>3
    <3> QED
      BY <1>1, <3>2, <3>3
  <2> QED
    BY <1>1, <2>1, <2>5, <2>6 DEF AliasInv, AliasesAnnounced
<1>2. ASSUME NEW t \in Thread, NEW x \in Topic \cup {NoTopic},
             pushed' = Append(pushed, [by |-> t, topic |-> x])
      PROVE  /\ \A q \in DOMAIN header : pushed'[q] = pushed[q]
             /\ pushed'[Len(pushed) + 1].topic = x
  <2> DEFINE R == [by : Thread, topic : Topic \cup {NoTopic}]
             r == [by |-> t, topic |-> x]
  <2>1. pushed \in Seq(R) /\ r \in R
    BY DEF SendTypeOK
  <2>2. /\ \A i \in 1..Len(pushed) : pushed'[i] = pushed[i]
        /\ pushed'[Len(pushed) + 1] = r
    BY <1>2, <2>1, AppendIs
  <2> QED
    BY <2>2 DEF BuiltOnce, Packet
<1>3. ASSUME NEW t \in Thread, NEW x \in Topic, Enqueue(t, x) PROVE AliasInv'
  BY <1>1, <1>2, <1>3 DEF Enqueue, Push, buildVars
<1>4. ASSUME NEW t \in Thread, NEW x \in Topic \cup {NoTopic}, BuildFirst(t, x) PROVE AliasInv'
  <2>1. PICK p \in Nat \ {0} :
              /\ p = Len(pushed) + 1 /\ call[t] = 0
              /\ pushed' = Append(pushed, [by |-> t, topic |-> x])
              /\ UNCHANGED <<kind, io_mu, out_queue, current, posted, scheduled, fd, loop, wire, reset,
                             peer, begun, torn, stray>>
              /\ \/ Made(p, x) /\ call' = [call EXCEPT ![t] = p]
                 \/ Refused(p, x) /\ call' = [call EXCEPT ![t] = 0]
    BY <1>4, BuildFirstIs
  <2>2. (\A q \in DOMAIN header : pushed'[q] = pushed[q]) /\ pushed'[p].topic = x
    BY <1>2, <2>1
  <2>3. p \notin DOMAIN header /\ p \notin DOMAIN skipped
    BY <1>0, <2>1 DEF BuiltOnce, RefusedOnce, Packet
  <2>4. CASE Made(p, x)
    BY <1>0, <2>2, <2>3, <2>4, MadeAnnounced
  <2>5. CASE Refused(p, x)
    BY <2>2, <2>3, <2>5, RefusedAnnounced
  <2> QED
    BY <2>1, <2>4, <2>5
<1>5. ASSUME NEW t \in Thread, DrainPop(t) PROVE AliasInv'
  <2>1. PICK p \in Nat :
              /\ kind = "reactor" /\ io_mu = t
              /\ current = << >> /\ out_queue # << >>
              /\ p = Head(out_queue) /\ out_queue' = Tail(out_queue)
              /\ UNCHANGED <<kind, call, io_mu, posted, scheduled, fd, loop, wire, reset,
                             peer, pushed, torn, stray>>
              /\ \/ /\ p \in DOMAIN header /\ UNCHANGED <<aliases, header, skipped, built>>
                    /\ current' = Pieces(p) /\ begun' = Append(begun, p)
                 \/ /\ p \notin DOMAIN header /\ Made(p, pushed[p].topic)
                    /\ current' = Pieces(p) /\ begun' = Append(begun, p)
                 \/ /\ p \notin DOMAIN header /\ Refused(p, pushed[p].topic)
                    /\ UNCHANGED <<current, begun>>
    BY <1>5, DrainPopIs
  <2>2. p \notin DOMAIN skipped
    <3>1. p = out_queue[1] /\ 1 \in 1..Len(out_queue)
      BY <1>0, <2>1, TailIs
    <3> QED
      BY <3>1 DEF RefusedOnce
  <2>3. PICK x : x = pushed[p].topic
    OBVIOUS
  <2>4. (\A q \in DOMAIN header : pushed'[q] = pushed[q]) /\ pushed'[p].topic = x
    BY <2>1, <2>3
  <2>5. CASE UNCHANGED <<aliases, header, skipped, built>>
    BY <1>1, <2>4, <2>5
  <2>6. CASE p \notin DOMAIN header /\ Made(p, pushed[p].topic)
    <3>1. Made(p, x)
      BY <2>3, <2>6 DEF Made
    <3> QED
      BY <1>0, <2>4, <2>6, <3>1, MadeAnnounced
  <2>7. CASE Refused(p, pushed[p].topic)
    <3>1. Refused(p, x)
      BY <2>3, <2>7 DEF Refused
    <3> QED
      BY <2>2, <2>4, <3>1, RefusedAnnounced
  <2> QED
    BY <2>1, <2>5, <2>6, <2>7
<1>6. ASSUME EnqueueBuilt PROVE AliasInv'
  BY <1>1, <1>6 DEF EnqueueBuilt, histVars
<1>7. ASSUME NEW t \in Thread, Begin(t) \/ Written(t) \/ GiveUp(t) PROVE AliasInv'
  BY <1>1, <1>7 DEF Begin, Written, GiveUp, buildVars, histVars
<1>8. ASSUME NEW t \in Thread, DrainEmpty(t) \/ DrainSend(t) \/ DrainWouldBlock(t) \/ DrainHardError(t)
      PROVE  AliasInv'
  BY <1>1, <1>8 DEF DrainEmpty, DrainSend, DrainWouldBlock, DrainHardError, buildVars, histVars
<1>9. ASSUME EpollOut \/ RunModFd \/ RunTeardown \/ Close PROVE AliasInv'
  BY <1>1, <1>9 DEF EpollOut, RunModFd, RunTeardown, Close, buildVars, histVars
<1>10. ASSUME EndOfSession \/ TakenOver \/ CloseTls \/ PeerRead \/ PeerReset PROVE AliasInv'
  BY <1>1, <1>10 DEF EndOfSession, TakenOver, CloseTls, PeerRead, PeerReset, buildVars, histVars
<1>11. CASE UNCHANGED vars
  BY <1>1, <1>11 DEF vars, buildVars, histVars
<1> QED
  BY <1>3, <1>4, <1>5, <1>6, <1>7, <1>8, <1>9, <1>10, <1>11 DEF Next, Drain, Reactor

-----------------------------------------------------------------------------
(* The theorems                                                            *)

(* Nothing is queued, built, begun or posted in a new session.             *)
LEMMA InitSendInv == Init => SendInv
<1> SUFFICES ASSUME Init PROVE SendInv
  OBVIOUS
<1>1. SendTypeOK
  BY InitType
<1>2. Len(<< >>) = 0 /\ DOMAIN << >> = {} /\ 1..0 = {}
  OBVIOUS
<1>3. LifeInv
  BY <1>2, ThreadNames DEF Init, LifeInv, TeardownOnce, WritersKnown
<1>4. StreamInv
  <2>1. Len(begun) * PacketLen = 0 /\ 0 <= PacketLen
    BY <1>2, ReactorAssumption DEF Init
  <2> QED
    BY <1>2, <2>1 DEF Init, StreamInv, InStream
<1>5. PacketInv
  <2>1. OnePlace
    BY <1>2 DEF Init, OnePlace
  <2>2. BuiltOnce
    BY <1>2 DEF Init, BuiltOnce
  <2>3. RefusedOnce
    BY <1>2 DEF Init, RefusedOnce
  <2> QED
    BY <2>1, <2>2, <2>3 DEF PacketInv
<1>6. AliasInv
  <2>1. AliasesDistinct
    BY <1>2, FS_EmptySet DEF Init, AliasesDistinct
  <2>2. AliasesAnnounced
    BY <1>2 DEF Init, AliasesAnnounced
  <2> QED
    BY <2>1, <2>2 DEF AliasInv
<1> QED
  BY <1>1, <1>3, <1>4, <1>5, <1>6 DEF SendInv

(* The inductive invariant holds of the outbound path of every session.    *)
THEOREM SendInvariance == Spec => []SendInv
<1>1. Init => SendInv
  BY InitSendInv
<1>2. SendInv /\ [Next]_vars => SendInv'
  <2> SUFFICES ASSUME SendInv, [Next]_vars PROVE SendInv'
    OBVIOUS
  <2> USE DEF SendInv
  <2>1. SendTypeOK'
    BY NextType
  <2>2. LifeInv'
    BY NextTeardown, NextWriters DEF LifeInv
  <2>3. StreamInv'
    BY NextStream
  <2>4. PacketInv'
    BY <2>1, NextPlace, NextBuilt, NextRefused DEF PacketInv, AliasInv
  <2>5. AliasInv'
    BY NextAlias
  <2> QED
    BY <2>1, <2>2, <2>3, <2>4, <2>5
<1> QED
  BY <1>1, <1>2, PTL DEF Spec

(* For any number of threads, packet length and socket buffer, what the    *)
(* client reads is a prefix of the packets begun for it, each whole, until *)
(* a hand-off worker gives up half way (out_current and out_sent under     *)
(* io_mu, write_packet_bounded).                                           *)
THEOREM StreamStaysIntact == Spec => []StreamIntact
<1>1. SendInv => StreamIntact
  <2> SUFFICES ASSUME SendInv, ~torn
               PROVE  LET got == peer \o wire
                      IN  /\ Len(got) <= Len(Stream)
                          /\ \A i \in 1..Len(got) : got[i] = Stream[i]
    BY DEF StreamIntact
  <2> DEFINE got == peer \o wire
             n == Len(begun) * PacketLen
  <2>1. InStream
    BY DEF SendInv, StreamInv
  <2>2. /\ peer \in Seq(Piece) /\ wire \in Seq(Piece)
        /\ Len(peer) \in Nat /\ Len(wire) \in Nat /\ Len(current) \in Nat /\ Len(begun) \in Nat
    BY DEF SendInv, SendTypeOK
  <2>3. n \in Nat
    BY <2>2, OneMore
  <2>4. Len(Stream) = n /\ \A k \in 1..n : Stream[k] = PieceAt(begun, k)
    <3>1. Stream = [k \in 1..n |-> PieceAt(begun, k)]
      BY DEF Stream, PieceAt
    <3>2. Stream \in Seq(Piece \cup {PieceAt(begun, k) : k \in 1..n})
      BY <2>3, <3>1
    <3> QED
      BY <2>3, <3>1
  <2>5. Len(got) = Len(peer) + Len(wire) /\ Len(got) <= n
    BY <2>1, <2>2, <2>3 DEF InStream
  <2>6. ASSUME NEW i \in 1..Len(got) PROVE got[i] = Stream[i]
    <3>1. i \in 1..n
      BY <2>2, <2>3, <2>5
    <3>2. CASE i <= Len(peer)
      <4>1. got[i] = peer[i] /\ i \in 1..Len(peer)
        BY <2>2, <2>5, <3>2
      <4> QED
        BY <2>1, <2>4, <3>1, <4>1 DEF InStream
    <3>3. CASE i > Len(peer)
      <4>1. PICK j \in 1..Len(wire) : i = Len(peer) + j
        <5>1. i - Len(peer) \in 1..Len(wire) /\ i = Len(peer) + (i - Len(peer))
          BY <2>2, <2>5, <3>3
        <5> QED
          BY <5>1
      <4>2. got[Len(peer) + j] = wire[j]
        BY <2>2
      <4>3. wire[j] = PieceAt(begun, Len(peer) + j)
        BY <2>1 DEF InStream
      <4> QED
        BY <2>4, <3>1, <4>1, <4>2, <4>3
    <3> QED
      BY <2>2, <2>5, <3>2, <3>3
  <2> HIDE DEF got, n
  <2> QED
    BY <2>4, <2>5, <2>6 DEF got
<1> QED
  BY <1>1, SendInvariance, PTL

(* However many triggers race, the teardown task is posted and run once,   *)
(* and nobody writes to the closed descriptor's number if only the serving *)
(* thread writes (schedule_reactor_teardown, teardown_session).            *)
THEOREM TornDownOnce == Spec => []ClosedOnce
<1>1. SendInv => ClosedOnce
  <2> SUFFICES ASSUME SendInv PROVE ClosedOnce
    OBVIOUS
  <2>1. TeardownOnce /\ (Alone => ~stray)
    BY DEF SendInv, LifeInv, WritersKnown
  <2>2. Cardinality(Leaving) = 0 \/ (Cardinality(Leaving) = 1 /\ loop = "events" /\ fd = "open")
    <3>1. CASE Leaving = {}
      BY <3>1, FS_EmptySet
    <3>2. CASE Leaving # {}
      <4>1. PICK i \in Leaving : TRUE
        BY <3>2
      <4>2. Leaving = {i} /\ loop = "events" /\ fd = "open"
        BY <2>1, <4>1 DEF Leaving, TeardownOnce
      <4> QED
        BY <4>2, FS_Singleton
    <3> QED
      BY <3>1, <3>2
  <2>3. loop # "events" => fd = "open"
    BY <2>1 DEF TeardownOnce
  <2>4. fd \in {"open", "closed"}
    BY DEF SendInv, SendTypeOK
  <2> QED
    BY <2>1, <2>2, <2>3, <2>4 DEF ClosedOnce
<1> QED
  BY <1>1, SendInvariance, PTL

(* How many numbers there are up to n.                                     *)
LEMMA IntervalSize ==
    ASSUME NEW n \in Nat
    PROVE  IsFiniteSet(1..n) /\ Cardinality(1..n) = n
  BY FS_Interval

(* Every packet begun was built, so no more are begun than built.          *)
LEMMA BegunWithinBuilt ==
    ASSUME SendTypeOK, PacketInv
    PROVE  Len(begun) <= Len(built)
<1> DEFINE S == 1..Len(begun)
           T == 1..Len(built)
           f == [i \in S |-> CHOOSE j \in T : built[j] = begun[i]]
<1>1. Len(begun) \in Nat /\ Len(built) \in Nat
  BY DEF SendTypeOK
<1>2. \A i \in S : f[i] \in T /\ built[f[i]] = begun[i]
  <2> SUFFICES ASSUME NEW i \in S PROVE f[i] \in T /\ built[f[i]] = begun[i]
    OBVIOUS
  <2>1. \E j \in T : built[j] = begun[i]
    BY DEF PacketInv, BuiltOnce
  <2> QED
    BY <2>1
<1>3. \A i, j \in S : f[i] = f[j] => i = j
  BY <1>2 DEF PacketInv, OnePlace
<1>4. /\ IsFiniteSet(S) /\ IsFiniteSet(T)
      /\ Cardinality(S) = Len(begun) /\ Cardinality(T) = Len(built)
  BY <1>1, IntervalSize
<1>5. f \in [S -> T]
  BY <1>2
<1> HIDE DEF f, S, T
<1>6. ASSUME Cardinality(T) < Cardinality(S) PROVE FALSE
  <2>1. \E i, j \in S : i # j /\ f[i] = f[j]
    BY <1>4, <1>5, <1>6, FS_PigeonHole
  <2> QED
    BY <1>3, <2>1
<1> QED
  BY <1>1, <1>4, <1>6

(* However many topics share AliasMax aliases, the client resolves every   *)
(* packet to its topic, if packets leave in the order in which they were   *)
(* built and none is refused for its size                                  *)
(* (build_publish_variable_header_and_payload).                            *)
THEOREM AliasesResolve == Spec => []AliasResolves
<1>1. SendInv => AliasResolves
  <2> SUFFICES ASSUME SendInv,
                      \A p \in DOMAIN skipped : skipped[p] # "oversize",
                      \A i \in 1..Len(begun) : begun[i] = built[i],
                      NEW k \in 1..Len(begun)
               PROVE  Understood(k) = pushed[begun[k]].topic
    BY DEF AliasResolves
  <2>1. SendTypeOK /\ PacketInv /\ OnePlace /\ BuiltOnce /\ AliasesAnnounced
    BY DEF SendInv, PacketInv, AliasInv
  <2>2. Len(begun) <= Len(built) /\ Len(begun) \in Nat /\ Len(built) \in Nat
    BY <2>1, BegunWithinBuilt DEF SendTypeOK
  <2> DEFINE told == {i \in 1..(k - 1) : /\ header[begun[i]].named
                                         /\ header[begun[i]].alias = header[begun[k]].alias}
  <2>3. Understood(k) =
          IF header[begun[k]].named THEN pushed[begun[k]].topic
          ELSE IF told # {} THEN pushed[begun[CHOOSE i \in told : \A j \in told : j <= i]].topic
          ELSE NoTopic
    BY DEF Understood
  <2>4. CASE header[begun[k]].named
    BY <2>3, <2>4
  <2>5. CASE ~header[begun[k]].named
    <3>1. k \in 1..Len(built) /\ begun[k] = built[k] /\ begun[k] \in DOMAIN header
      BY <2>1, <2>2 DEF BuiltOnce
    <3>2. PICK i \in 1..(k - 1) :
             Announces(header, pushed, aliases, built[i], pushed[built[k]].topic)
      BY <2>1, <2>5, <3>1 DEF AliasesAnnounced
    <3>3. /\ header[begun[k]].alias # 0
          /\ aliases[pushed[begun[k]].topic] = header[begun[k]].alias
      BY <2>1, <2>5, <3>1 DEF AliasesAnnounced
    <3>4. i \in 1..Len(begun) /\ begun[i] = built[i] /\ i \in Int
      BY <2>2
    <3>5. /\ header[begun[i]].named /\ header[begun[i]].alias = header[begun[k]].alias
          /\ pushed[begun[i]].topic = pushed[begun[k]].topic
      BY <3>1, <3>2, <3>3, <3>4 DEF Announces
    <3>6. ASSUME NEW j \in told PROVE j = i
      <4>1. j \in 1..Len(begun) /\ header[begun[j]].named
            /\ header[begun[j]].alias = header[begun[i]].alias
        BY <2>2, <3>5
      <4>2. begun[j] \in DOMAIN header /\ begun[i] \in DOMAIN header
        BY <2>1, <3>4, <4>1 DEF BuiltOnce
      <4>3. begun[j] = begun[i]
        BY <2>1, <3>3, <3>5, <4>1, <4>2 DEF AliasesAnnounced
      <4> QED
        BY <2>1, <3>4, <4>1, <4>3 DEF OnePlace
    <3>7. told = {i}
      BY <3>2, <3>5, <3>6
    <3> HIDE DEF told
    <3>8. (CHOOSE l \in told : \A j \in told : j <= l) = i
      BY <3>4, <3>7
    <3> QED
      BY <2>3, <2>5, <3>5, <3>7, <3>8
  <2> QED
    BY <2>4, <2>5
<1> QED
  BY <1>1, SendInvariance, PTL

=============================================================================
