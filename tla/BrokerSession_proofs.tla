------------------------- MODULE BrokerSession_proofs -------------------------
(***************************************************************************)
(* The tables, subscriptions, fan-outs, retained messages and Wills of the *)
(* broker, for every number of clients, connections, filters and messages, *)
(* if CONNECT is the first packet of a connection and comes once.          *)
(***************************************************************************)
EXTENDS BrokerSession, TLAPS

(* Where a handler can be.                                                 *)
Label == {"absent", "idle", "claimed", "indexing", "restoring", "connack", "subscribing",
          "suback", "scan", "fanout", "ending", "handoff", "remove", "gone"}

(* What holds of a session by itself at each point of its handlers: it has *)
(* no filters before CONNECT is done with them, the ones being restored    *)
(* are its own in the end, and it is in a fan-out exactly where it says.   *)
SessionShape(s) ==
    /\ pc[s] \in {"absent", "claimed", "indexing", "restoring"} => ses[s].subs = << >>
    /\ pc[s] = "absent" => ses[s].client_id = None /\ ~ses[s].will
    /\ pc[s] \in {"claimed", "indexing", "restoring", "connack"} => ses[s].client_id \in Client
    /\ pc[s] \notin {"indexing", "restoring"} =>
          local[s].subs = << >> \/ (pc[s] = "connack" /\ local[s].subs = ses[s].subs)
    /\ pc[s] \in {"subscribing", "suback"} => ses[s].subs # << >>
    /\ route[s] # None <=> pc[s] \in {"scan", "fanout"}

(* The filters a session is indexed under: those it has, but one that is   *)
(* just being subscribed to, and but between the restored filters and it.  *)
IndexedUnder(s) ==
    IF pc[s] \in {"absent", "claimed", "indexing", "gone"} THEN {}
    ELSE IF pc[s] = "restoring" THEN ElementsOf(local[s].subs)
    ELSE IF pc[s] = "subscribing" THEN {ses[s].subs[i] : i \in 1..(Len(ses[s].subs) - 1)}
    ELSE ElementsOf(ses[s].subs)

IndexExact == \A s \in Session, f \in Filter : s \in index[f] <=> f \in IndexedUnder(s)

(* The owner of a client is its newest session until that is handed off;   *)
(* only a takeover kicks a session.                                        *)
OwnersLive ==
    /\ \A c \in Client : owner[c] # None =>
          /\ ses[owner[c]].client_id = c /\ ~ses[owner[c]].kicked
          /\ pc[owner[c]] \notin {"absent", "remove", "gone"}
          /\ stored[c] # None => pc[owner[c]] = "claimed"
    /\ \A s \in Session :
          /\ ses[s].client_id # None /\ pc[s] \notin {"remove", "gone"} /\ ~ses[s].kicked =>
                owner[ses[s].client_id] = s
          /\ ses[s].kicked => ses[s].client_id \in taken

(* A client promised anything asked for a session that is kept.            *)
PromiseKept(c) ==
    /\ promised[c] \subseteq KeptFilters(c)
    /\ owner[c] # None /\ (ses[owner[c]].clean \/ ses[owner[c]].expires) => promised[c] = {}
    /\ stored[c] # None /\ stored[c].expires => promised[c] = {}

PromisesKept == \A c \in Client \ taken : PromiseKept(c)

InIndex(s) == \E f \in Filter : s \in index[f]

(* A client that a fan-out finds in stored_sessions_ ...                   *)
Offline(c) == owner[c] = None /\ stored[c] # None /\ stored[c].subs # << >>

(* ... or in the index.                                                    *)
Online(c) ==
    /\ owner[c] # None /\ InIndex(owner[c]) /\ ses[owner[c]].subs # << >>
    /\ pc[owner[c]] \notin {"claimed", "indexing", "restoring"}

(* A fan-out can still reach every client it owes the message to.          *)
SteadyReachable ==
    /\ \A s \in Session : route[s] # None =>
          \A c \in route[s].steady \ taken :
              \/ Offline(c)
              \/ Online(c) /\ (pc[s] = "fanout" => owner[c] \in route[s].cand)
              \/ pc[s] = "fanout" /\ c \in route[s].reached
    /\ missed.steady \subseteq taken

(* A message on its way to session s.                                      *)
Coming(m, s) ==
    \E t \in Session :
        /\ route[t] # None /\ route[t].msg = m
        /\ pc[t] = "fanout" => s \in route[t].cand

(* A session that subscribed stays indexed to its end, and has the         *)
(* retained message or is about to get it.                                 *)
RetainedComing ==
    \A s \in fresh : pc[s] # "gone" =>
        /\ ses[s].subs # << >> /\ InIndex(s)
        /\ pc[s] \notin {"absent", "claimed", "indexing", "restoring"}
        /\ retained # None => retained \in got[s] \/ Coming(retained, s)

(* The Will is published once the session is past its teardown's first     *)
(* step, and a DISCONNECT has dropped it by then.                          *)
WillsExact ==
    \A s \in Session :
        /\ s \in willed => ses[s].will /\ pc[s] \in {"scan", "fanout", "handoff", "remove", "gone"}
        /\ pc[s] \in {"handoff", "remove", "gone"} => (s \in willed <=> ses[s].will)
        /\ route[s] # None => (route[s].back = "handoff" <=> s \in willed)
        /\ s \in graceful => ~ses[s].will /\ pc[s] \in {"ending", "handoff", "remove", "gone"}

(* Every variable has its type.                                            *)
SessionTypeOK ==
    /\ TypeOK
    /\ pc \in [Session -> Label]
    /\ promised \in [Client -> SUBSET Filter]
    /\ fresh \subseteq Session
    /\ missed \in [steady : SUBSET Client, due : SUBSET Client]

(* The inductive invariant.                                                *)
BrokerInv ==
    /\ SessionTypeOK
    /\ \A s \in Session : SessionShape(s)
    /\ IndexExact /\ OwnersLive /\ PromisesKept /\ SteadyReachable /\ RetainedComing
    /\ WillsExact

-----------------------------------------------------------------------------
(* Types                                                                   *)

LEMMA InitTypes == Init => SessionTypeOK
BY SessionAssumption DEF Init, SessionTypeOK, TypeOK, Label, Fields, NoLocal

(* A restarted or clean CONNECT changes only who a fan-out is owed to.     *)
LEMMA UnsteadyType ==
    ASSUME SessionTypeOK, NEW c \in Client, NEW cl \in BOOLEAN
    PROVE  Unsteady(c, cl) \in [Session -> Route \cup {None}]
<1> SUFFICES ASSUME NEW s \in Session, route[s] # None
             PROVE  [route[s] EXCEPT !.steady = @ \ {c}, !.due = IF cl THEN @ \ {c} ELSE @] \in Route
  BY DEF Unsteady
<1>1. route[s] \in Route
  BY DEF SessionTypeOK, TypeOK
<1> QED BY <1>1 DEF Route

LEMMA DeliverType ==
    ASSUME SessionTypeOK, NEW s \in Session, NEW m \in Payload, DeliverPublish(s, m)
    PROVE  /\ published' \subseteq Payload /\ retained' \in Payload \cup {None}
           /\ route' \in [Session -> Route \cup {None}] /\ pc' \in [Session -> Label]
<1>1. published' \subseteq Payload /\ retained' \in Payload \cup {None}
  BY DEF SessionTypeOK, TypeOK, DeliverPublish
<1>2. pc' \in [Session -> Label]
  BY DEF SessionTypeOK, DeliverPublish, Goto, Label
<1> DEFINE owed == {c \in Client : Subscribed(c)}
           r == [msg |-> m, cand |-> {}, reached |-> {}, due |-> owed,
                 steady |-> {c \in owed : ~Connecting(c)},
                 back |-> IF pc[s] = "idle" THEN "idle" ELSE "handoff"]
<1>3. route' = [route EXCEPT ![s] = r]
  BY DEF DeliverPublish
<1>4. r \in Route
  BY DEF Route
<1> HIDE DEF r
<1>5. route' \in [Session -> Route \cup {None}]
  BY <1>3, <1>4 DEF SessionTypeOK, TypeOK
<1> QED BY <1>1, <1>2, <1>5

LEMMA FieldsUpdate ==
    ASSUME NEW r \in Fields
    PROVE  /\ \A q \in Seq(Filter) : [r EXCEPT !.subs = q] \in Fields
           /\ [r EXCEPT !.will = FALSE] \in Fields /\ [r EXCEPT !.kicked = TRUE] \in Fields
           /\ \A c \in Client, cl, w, x \in BOOLEAN :
                 [r EXCEPT !.client_id = c, !.clean = cl, !.expires = x, !.will = @ \/ w] \in Fields
<1>1. ASSUME NEW q \in Seq(Filter) PROVE [r EXCEPT !.subs = q] \in Fields
  BY DEF Fields
<1>2. [r EXCEPT !.will = FALSE] \in Fields /\ [r EXCEPT !.kicked = TRUE] \in Fields
  BY DEF Fields
<1>3. ASSUME NEW c \in Client, NEW cl \in BOOLEAN, NEW w \in BOOLEAN, NEW x \in BOOLEAN
      PROVE  [r EXCEPT !.client_id = c, !.clean = cl, !.expires = x, !.will = @ \/ w] \in Fields
  BY DEF Fields
<1> QED BY <1>1, <1>2, <1>3

LEMMA TypesKept ==
    ASSUME SessionTypeOK, NEW s \in Session, SessionShape(s), Handler(s) \/ Peer(s)
    PROVE  SessionTypeOK'
<1> USE DEF SessionTypeOK, TypeOK, Label, Goto
<1>1. CASE TakeStored(s)
  <2>1. ses[s].client_id \in Client => stored'[ses[s].client_id] = None
    BY <1>1 DEF TakeStored
  <2>2. stored' \in [Client -> Stored \cup {None}]
    BY <1>1 DEF TakeStored
  <2>3. pc' \in [Session -> Label]
    BY <1>1 DEF TakeStored
  <2>4. local' \in [Session -> [subs : Seq(Filter), flush : Seq(Payload)]]
    <3>1. ses[s].client_id \in Client
      BY <1>1 DEF TakeStored, SessionShape
    <3>2. stored[ses[s].client_id] # None =>
             /\ stored[ses[s].client_id].subs \in Seq(Filter)
             /\ stored[ses[s].client_id].queued \in Seq(Payload)
      BY <3>1 DEF Stored
    <3> DEFINE l == [subs |-> stored[ses[s].client_id].subs, flush |-> stored[ses[s].client_id].queued]
    <3>3. local' = local \/ (stored[ses[s].client_id] # None /\ local' = [local EXCEPT ![s] = l])
      BY <1>1 DEF TakeStored
    <3>4. stored[ses[s].client_id] # None => l \in [subs : Seq(Filter), flush : Seq(Payload)]
      BY <3>2
    <3> HIDE DEF l
    <3> QED BY <3>3, <3>4
  <2> QED BY <1>1, <2>2, <2>3, <2>4 DEF TakeStored, hist
<1>2. CASE RestoreIndex(s)
  BY <1>2 DEF RestoreIndex, Indexed, hist
<1>3. CASE RestoreSubs(s)
  <2>1. local[s].subs \in Seq(Filter)
    OBVIOUS
  <2>2. [ses[s] EXCEPT !.subs = local[s].subs] \in Fields
    BY <2>1, FieldsUpdate
  <2>3. ses' = [ses EXCEPT ![s] = [ses[s] EXCEPT !.subs = local[s].subs]]
    BY <1>3 DEF RestoreSubs
  <2>4. ses' \in [Session -> Fields]
    BY <2>2, <2>3
  <2> QED BY <1>3, <2>4 DEF RestoreSubs, broker, hist
<1>4. CASE ConnackAndFlush(s)
  <2>1. ElementsOf(local[s].flush) \subseteq Payload
    <3>1. local[s].flush \in Seq(Payload)
      OBVIOUS
    <3> QED BY <3>1 DEF ElementsOf
  <2>2. got' \in [Session -> SUBSET Payload]
    <3>1. got[s] \cup ElementsOf(local[s].flush) \in SUBSET Payload
      BY <2>1
    <3>2. got' = got \/ got' = [got EXCEPT ![s] = got[s] \cup ElementsOf(local[s].flush)]
      BY <1>4 DEF ConnackAndFlush
    <3> QED BY <3>1, <3>2
  <2>3. local' \in [Session -> [subs : Seq(Filter), flush : Seq(Payload)]]
    BY <1>4 DEF ConnackAndFlush, NoLocal
  <2>4. pc' \in [Session -> Label]
    BY <1>4 DEF ConnackAndFlush
  <2> QED BY <1>4, <2>2, <2>3, <2>4 DEF ConnackAndFlush, broker, hist
<1>5. CASE IndexSubscription(s)
  BY <1>5 DEF IndexSubscription, Indexed, hist
<1>6. CASE SubackAndReplay(s)
  <2>1. ses[s].subs \in Seq(Filter)
    BY DEF Fields
  <2>2. ElementsOf(ses[s].subs) \subseteq Filter
    BY <2>1 DEF ElementsOf
  <2>3. promised' \in [Client -> SUBSET Filter]
    BY <1>6, <2>2 DEF SubackAndReplay
  <2>4. got' \in [Session -> SUBSET Payload]
    BY <1>6 DEF SubackAndReplay
  <2> QED BY <1>6, <2>3, <2>4 DEF SubackAndReplay, broker
<1>7. CASE ScanIndex(s)
  <2>1. UNION {index[f] : f \in Filter} \subseteq Session
    OBVIOUS
  <2>2. [route[s] EXCEPT !.cand = UNION {index[f] : f \in Filter}] \in Route
    <3>1. route[s] \in Route
      BY <1>7 DEF ScanIndex, SessionShape
    <3> QED BY <2>1, <3>1 DEF Route
  <2>3. route' = [route EXCEPT ![s] = [route[s] EXCEPT !.cand = UNION {index[f] : f \in Filter}]]
    BY <1>7 DEF ScanIndex
  <2>4. route' \in [Session -> Route \cup {None}]
    BY <2>2, <2>3
  <2> QED BY <1>7, <2>4 DEF ScanIndex, broker, hist
<1>8. ASSUME NEW t \in Session, FanOut(s, t) PROVE SessionTypeOK'
  <2>1. route[s] \in Route
    BY <1>8 DEF FanOut, SessionShape
  <2>2. ses[t].client_id \in Client \cup {None}
    BY DEF Fields
  <2>3. /\ [route[s] EXCEPT !.cand = @ \ {t}] \in Route
        /\ [route[s] EXCEPT !.cand = @ \ {t}, !.reached = @ \cup {ses[t].client_id}] \in Route
        /\ route[s].msg \in Payload
    BY <2>1, <2>2 DEF Route
  <2>4. \/ route' = [route EXCEPT ![s] = [route[s] EXCEPT !.cand = @ \ {t}]]
        \/ route' = [route EXCEPT ![s] = [route[s] EXCEPT !.cand = @ \ {t},
                                                 !.reached = @ \cup {ses[t].client_id}]]
    BY <1>8 DEF FanOut
  <2>5. route' \in [Session -> Route \cup {None}]
    BY <2>3, <2>4
  <2>6. got' \in [Session -> SUBSET Payload]
    <3>1. got[t] \cup {route[s].msg} \in SUBSET Payload
      BY <2>3
    <3>2. got' = got \/ got' = [got EXCEPT ![t] = got[t] \cup {route[s].msg}]
      BY <1>8 DEF FanOut
    <3> QED BY <3>1, <3>2
  <2> QED BY <1>8, <2>5, <2>6 DEF FanOut, broker, hist
<1>9. CASE QueueOffline(s)
  <2>1. route[s] \in Route
    BY <1>9 DEF QueueOffline, SessionShape
  <2>2. /\ route[s].msg \in Payload /\ route[s].back \in {"idle", "handoff"}
        /\ route[s].steady \subseteq Client /\ route[s].due \subseteq Client
    BY <2>1 DEF Route
  <2>3. ASSUME NEW c \in Client, stored[c] # None
        PROVE  [stored[c] EXCEPT !.queued = Pushed(@, route[s].msg)] \in Stored
    <3>1. stored[c] \in Stored /\ stored[c].queued \in Seq(Payload)
      BY <2>3 DEF Stored
    <3>2. Pushed(stored[c].queued, route[s].msg) \in Seq(Payload)
      BY <2>2, <3>1, SessionAssumption DEF Pushed
    <3> QED BY <3>1, <3>2 DEF Stored
  <2>4. stored' \in [Client -> Stored \cup {None}]
    BY <1>9, <2>3 DEF QueueOffline
  <2>5. missed' \in [steady : SUBSET Client, due : SUBSET Client]
    BY <1>9, <2>2 DEF QueueOffline
  <2>6. route' \in [Session -> Route \cup {None}] /\ pc' \in [Session -> Label]
    BY <1>9, <2>2 DEF QueueOffline
  <2> QED BY <1>9, <2>4, <2>5, <2>6 DEF QueueOffline
<1>10. CASE NoticeKicked(s) \/ TeardownNoWill(s) \/ ConnectionLost(s) \/ Accept(s)
  BY <1>10 DEF NoticeKicked, TeardownNoWill, ConnectionLost, Accept, broker, hist
<1>11. CASE TeardownWill(s)
  BY <1>11, DeliverType DEF TeardownWill, Payload
<1>12. CASE HandOff(s)
  <2>1. [subs |-> ses[s].subs, queued |-> << >>, expires |-> ses[s].expires] \in Stored
    BY DEF Fields, Stored
  <2>2. stored' \in [Client -> Stored \cup {None}]
    BY <1>12, <2>1 DEF HandOff
  <2>3. ses[s].client_id \in Client \cup {None}
    BY DEF Fields
  <2>4. route' \in [Session -> Route \cup {None}]
    BY <1>12, <2>3, UnsteadyType DEF HandOff
  <2> QED BY <1>12, <2>2, <2>4 DEF HandOff, hist
<1>13. CASE RemoveSession(s)
  BY <1>13 DEF RemoveSession, hist
<1>14. ASSUME NEW c \in Client, NEW cl \in CleanChoices, NEW w \in WillChoices, NEW x \in ExpiryChoices,
              Connect(s, c, cl, w, x)
       PROVE  SessionTypeOK'
  <2>1. cl \in BOOLEAN /\ w \in BOOLEAN /\ x \in BOOLEAN
    BY SessionAssumption
  <2>2. ses' \in [Session -> Fields]
    BY <1>14, <2>1, FieldsUpdate DEF Connect
  <2>3. route' \in [Session -> Route \cup {None}]
    BY <1>14, <2>1, UnsteadyType DEF Connect
  <2> QED BY <1>14, <2>2, <2>3 DEF Connect
<1>15. ASSUME NEW f \in Filter, Subscribe(s, f) PROVE SessionTypeOK'
  <2>1. Append(ses[s].subs, f) \in Seq(Filter)
    BY DEF Fields
  <2>2. [ses[s] EXCEPT !.subs = Append(ses[s].subs, f)] \in Fields
    BY <2>1, FieldsUpdate
  <2>3. ses' = [ses EXCEPT ![s] = [ses[s] EXCEPT !.subs = Append(ses[s].subs, f)]]
    BY <1>15 DEF Subscribe
  <2>4. ses' \in [Session -> Fields]
    BY <2>2, <2>3
  <2> QED BY <1>15, <2>4 DEF Subscribe, broker, hist
<1>16. CASE Disconnect(s)
  <2>1. ses' \in [Session -> Fields]
    BY <1>16, FieldsUpdate DEF Disconnect
  <2> QED BY <1>16, <2>1 DEF Disconnect, broker
<1>17. ASSUME NEW m \in Message, Publish(s, m) PROVE SessionTypeOK'
  BY <1>17, DeliverType DEF Publish, Payload, hist
<1> QED BY <1>1, <1>2, <1>3, <1>4, <1>5, <1>6, <1>7, <1>8, <1>9, <1>10, <1>11, <1>12, <1>13,
           <1>14, <1>15, <1>16, <1>17 DEF Handler, Peer

-----------------------------------------------------------------------------
(* What a step on one session's thread leaves alone                        *)

LEMMA UnsteadyKeeps ==
    ASSUME SessionTypeOK, NEW c \in Client, NEW cl \in BOOLEAN, NEW t \in Session
    PROVE  /\ Unsteady(c, cl)[t] = None <=> route[t] = None
           /\ route[t] # None =>
                 /\ Unsteady(c, cl)[t].msg = route[t].msg /\ Unsteady(c, cl)[t].cand = route[t].cand
                 /\ Unsteady(c, cl)[t].reached = route[t].reached
                 /\ Unsteady(c, cl)[t].back = route[t].back
                 /\ Unsteady(c, cl)[t].steady = route[t].steady \ {c}
<1>1. CASE route[t] = None
  BY <1>1 DEF Unsteady
<1>2. CASE route[t] # None
  <2>1. route[t] \in Route
    BY <1>2 DEF SessionTypeOK, TypeOK
  <2>2. Unsteady(c, cl)[t] = [route[t] EXCEPT !.steady = @ \ {c}, !.due = IF cl THEN @ \ {c} ELSE @]
    BY <1>2 DEF Unsteady
  <2>3. Unsteady(c, cl)[t] \in Route
    BY <2>1, <2>2 DEF Route
  <2> QED BY <1>2, <2>1, <2>2, <2>3, SessionAssumption DEF Route
<1> QED BY <1>1, <1>2

(* The fan-out of a session as another session's step leaves it.           *)
SameRoute(t) ==
    /\ route'[t] = None <=> route[t] = None
    /\ route[t] # None =>
          /\ route'[t].msg = route[t].msg /\ route'[t].cand = route[t].cand
          /\ route'[t].reached = route[t].reached /\ route'[t].back = route[t].back
          /\ route'[t].steady \subseteq route[t].steady

(* The fields of a session that only its own thread writes.                *)
SameFields(t) ==
    /\ ses'[t].client_id = ses[t].client_id /\ ses'[t].subs = ses[t].subs
    /\ ses'[t].clean = ses[t].clean /\ ses'[t].expires = ses[t].expires
    /\ ses'[t].will = ses[t].will

(* A handler leaves the other sessions where they are; it may kick one,    *)
(* and take a client off what their fan-outs owe.                          *)
LEMMA OthersAlone ==
    ASSUME SessionTypeOK, NEW s \in Session, Handler(s) \/ Peer(s), NEW t \in Session, t # s
    PROVE  pc'[t] = pc[t] /\ local'[t] = local[t] /\ SameFields(t) /\ SameRoute(t)
<1>1. pc'[t] = pc[t]
  BY DEF SessionTypeOK, Handler, Peer, TakeStored, RestoreIndex, RestoreSubs, ConnackAndFlush,
         IndexSubscription, SubackAndReplay, ScanIndex, FanOut, QueueOffline, NoticeKicked,
         TeardownWill, TeardownNoWill, HandOff, RemoveSession, Accept, Connect, Subscribe,
         Disconnect, ConnectionLost, Publish, DeliverPublish, Goto
<1>2. local'[t] = local[t]
  BY DEF SessionTypeOK, TypeOK, Handler, Peer, TakeStored, RestoreIndex, RestoreSubs,
         ConnackAndFlush, IndexSubscription, SubackAndReplay, ScanIndex, FanOut, QueueOffline,
         NoticeKicked, TeardownWill, TeardownNoWill, HandOff, RemoveSession, Accept, Connect,
         Subscribe, Disconnect, ConnectionLost, Publish
<1>3. SameFields(t)
  <2>1. ses[t] \in Fields
    BY DEF SessionTypeOK, TypeOK
  <2>2. \/ ses'[t] = ses[t]
        \/ ses'[t] = [ses[t] EXCEPT !.kicked = TRUE]
    BY DEF SessionTypeOK, TypeOK, Handler, Peer, TakeStored, RestoreIndex, RestoreSubs,
           ConnackAndFlush, IndexSubscription, SubackAndReplay, ScanIndex, FanOut, QueueOffline,
           NoticeKicked, TeardownWill, TeardownNoWill, HandOff, RemoveSession, Accept, Connect,
           Subscribe, Disconnect, ConnectionLost, Publish
  <2> QED BY <2>1, <2>2 DEF SameFields, Fields
<1>4. SameRoute(t)
  <2>1. CASE route'[t] = route[t]
    BY <2>1 DEF SameRoute
  <2>2. CASE \E c \in Client, cl \in BOOLEAN : route' = Unsteady(c, cl)
    BY <2>2, UnsteadyKeeps DEF SameRoute
  <2>3. CASE HandOff(s)
    <3>1. ses[s].client_id \in Client \cup {None}
      BY DEF SessionTypeOK, TypeOK, Fields
    <3> QED BY <2>1, <2>2, <2>3, <3>1 DEF HandOff
  <2>4. ASSUME NEW c \in Client, NEW cl \in CleanChoices, NEW w \in WillChoices,
               NEW x \in ExpiryChoices, Connect(s, c, cl, w, x)
        PROVE  SameRoute(t)
    <3>1. cl \in BOOLEAN
      BY SessionAssumption
    <3> QED BY <2>2, <2>4, <3>1 DEF Connect
  <2>5. CASE ~HandOff(s) /\ ~ \E c \in Client, cl \in CleanChoices, w \in WillChoices,
                                  x \in ExpiryChoices : Connect(s, c, cl, w, x)
    <3>1. route'[t] = route[t]
      BY <2>5 DEF SessionTypeOK, TypeOK, Handler, Peer, TakeStored, RestoreIndex, RestoreSubs,
             ConnackAndFlush, IndexSubscription, SubackAndReplay, ScanIndex, FanOut, QueueOffline,
             NoticeKicked, TeardownWill, TeardownNoWill, RemoveSession, Accept,
             Subscribe, Disconnect, ConnectionLost, Publish, DeliverPublish
    <3> QED BY <2>1, <3>1
  <2> QED BY <2>3, <2>4, <2>5
<1> QED BY <1>1, <1>2, <1>3, <1>4

-----------------------------------------------------------------------------
(* What a step does to its own session                                     *)

(* The fields of s but its filters stay.                                   *)
ButSubs(s) ==
    /\ ses'[s].client_id = ses[s].client_id /\ ses'[s].kicked = ses[s].kicked
    /\ ses'[s].clean = ses[s].clean /\ ses'[s].expires = ses[s].expires
    /\ ses'[s].will = ses[s].will

LEMMA TakeStoredDoes ==
    ASSUME SessionTypeOK, NEW s \in Session, SessionShape(s), TakeStored(s), NEW c, c = ses[s].client_id
    PROVE  /\ c \in Client /\ pc[s] = "claimed" /\ UNCHANGED <<owner, index, retained, ses, route, got, hist>>
           /\ stored'[c] = None /\ \A d \in Client : d # c => stored'[d] = stored[d]
           /\ \/ /\ ~(stored[c] # None /\ ~ses[s].clean /\ ~stored[c].expires)
                 /\ pc'[s] = "connack" /\ local'[s].subs = << >>
              \/ /\ stored[c] # None /\ stored[c].subs = << >>
                 /\ pc'[s] = "connack" /\ local'[s].subs = << >>
              \/ /\ stored[c] # None /\ stored[c].subs # << >>
                 /\ pc'[s] = "indexing" /\ local'[s].subs = stored[c].subs
<1>1. c \in Client /\ pc[s] = "claimed" /\ local[s].subs = << >>
  BY DEF TakeStored, SessionShape
<1>2. stored'[c] = None /\ \A d \in Client : d # c => stored'[d] = stored[d]
  BY <1>1 DEF TakeStored, SessionTypeOK, TypeOK
<1>3. \/ /\ ~(stored[c] # None /\ ~ses[s].clean /\ ~stored[c].expires)
         /\ pc'[s] = "connack" /\ local' = local
      \/ /\ stored[c] # None
         /\ pc'[s] = IF stored[c].subs = << >> THEN "connack" ELSE "indexing"
         /\ local'[s] = [subs |-> stored[c].subs, flush |-> stored[c].queued]
  BY DEF TakeStored, SessionTypeOK, TypeOK, Goto
<1>4. UNCHANGED <<owner, index, retained, ses, route, got, hist>>
  BY DEF TakeStored
<1> QED BY <1>1, <1>2, <1>3, <1>4

LEMMA RestoreSubsDoes ==
    ASSUME SessionTypeOK, NEW s \in Session, RestoreSubs(s)
    PROVE  /\ pc[s] = "restoring" /\ pc'[s] = "connack"
           /\ ses'[s].subs = local[s].subs /\ ButSubs(s)
           /\ \A t \in Session : t # s => ses'[t] = ses[t]
           /\ UNCHANGED <<broker, local, route, published, got, hist>>
<1>1. ses' = [ses EXCEPT ![s] = [ses[s] EXCEPT !.subs = local[s].subs]] /\ ses[s] \in Fields
  BY DEF RestoreSubs, SessionTypeOK, TypeOK
<1> QED BY <1>1 DEF RestoreSubs, SessionTypeOK, TypeOK, Goto, Fields, ButSubs

LEMMA SubscribeDoes ==
    ASSUME SessionTypeOK, NEW s \in Session, NEW f \in Filter, Subscribe(s, f)
    PROVE  /\ pc[s] = "idle" /\ pc'[s] = "subscribing"
           /\ ses'[s].subs = Append(ses[s].subs, f) /\ ButSubs(s)
           /\ \A t \in Session : t # s => ses'[t] = ses[t]
           /\ UNCHANGED <<broker, local, route, published, got, hist>>
<1>1. ses' = [ses EXCEPT ![s] = [ses[s] EXCEPT !.subs = Append(ses[s].subs, f)]] /\ ses[s] \in Fields
  BY DEF Subscribe, SessionTypeOK, TypeOK
<1>2. pc[s] = "idle" /\ pc'[s] = "subscribing"
  BY DEF Subscribe, SessionTypeOK, Goto, Ready
<1>3. UNCHANGED <<broker, local, route, published, got, hist>>
  BY DEF Subscribe
<1> QED BY <1>1, <1>2, <1>3 DEF SessionTypeOK, TypeOK, Fields, ButSubs

LEMMA DisconnectDoes ==
    ASSUME SessionTypeOK, NEW s \in Session, Disconnect(s)
    PROVE  /\ pc[s] = "idle" /\ pc'[s] = "ending"
           /\ ses'[s].will = FALSE /\ ses'[s].subs = ses[s].subs
           /\ ses'[s].client_id = ses[s].client_id /\ ses'[s].kicked = ses[s].kicked
           /\ ses'[s].clean = ses[s].clean /\ ses'[s].expires = ses[s].expires
           /\ \A t \in Session : t # s => ses'[t] = ses[t]
<1>1. ses' = [ses EXCEPT ![s] = [ses[s] EXCEPT !.will = FALSE]] /\ ses[s] \in Fields
  BY DEF Disconnect, SessionTypeOK, TypeOK
<1>2. pc[s] = "idle" /\ pc'[s] = "ending"
  BY DEF Disconnect, SessionTypeOK, Goto, Ready
<1> QED BY <1>1, <1>2 DEF SessionTypeOK, TypeOK, Fields

LEMMA ConnectDoes ==
    ASSUME ~LateConnect, SessionTypeOK, NEW s \in Session, SessionShape(s), NEW c \in Client,
           NEW cl \in CleanChoices, NEW w \in WillChoices, NEW x \in ExpiryChoices,
           Connect(s, c, cl, w, x)
    PROVE  /\ pc[s] = "idle" /\ pc'[s] = "claimed"
           /\ ses[s].client_id = None /\ ses[s].subs = << >> /\ ~ses[s].kicked
           /\ ses'[s].client_id = c /\ ses'[s].subs = << >> /\ ~ses'[s].kicked
           /\ ses'[s].clean = cl /\ ses'[s].expires = x
           /\ \A t \in Session : t # s /\ t # owner[c] => ses'[t] = ses[t]
           /\ \A t \in Session : t # s /\ t = owner[c] => ses'[t].kicked
           /\ owner'[c] = s /\ \A d \in Client : d # c => owner'[d] = owner[d]
           /\ cl \in BOOLEAN /\ x \in BOOLEAN /\ route' = Unsteady(c, cl)
<1>1. cl \in BOOLEAN /\ w \in BOOLEAN /\ x \in BOOLEAN
  BY SessionAssumption
<1>2. pc[s] = "idle" /\ pc'[s] = "claimed" /\ ~ses[s].kicked
  BY DEF Connect, Ready, SessionTypeOK, Goto
<1>3. ses[s].client_id = None /\ ses[s].subs = << >>
  BY DEF Connect
<1>4. ses'[s] = [ses[s] EXCEPT !.client_id = c, !.clean = cl, !.expires = x, !.will = @ \/ w]
  BY DEF Connect
<1>5. ses[s] \in Fields
  BY DEF SessionTypeOK, TypeOK
<1>6. /\ ses'[s].client_id = c /\ ses'[s].subs = << >> /\ ~ses'[s].kicked
      /\ ses'[s].clean = cl /\ ses'[s].expires = x
  BY <1>2, <1>3, <1>4, <1>5 DEF Fields
<1>7. \A t \in Session : t # s /\ t # owner[c] => ses'[t] = ses[t]
  BY DEF Connect
<1>8. \A t \in Session : t # s /\ t = owner[c] => ses'[t].kicked
  <2> SUFFICES ASSUME NEW t \in Session, t # s, t = owner[c] PROVE ses'[t].kicked
    OBVIOUS
  <2>1. ses'[t] = [ses[t] EXCEPT !.kicked = TRUE]
    BY DEF Connect
  <2>2. ses[t] \in Fields
    BY DEF SessionTypeOK, TypeOK
  <2> QED BY <2>1, <2>2 DEF Fields
<1>9. owner'[c] = s /\ (\A d \in Client : d # c => owner'[d] = owner[d]) /\ route' = Unsteady(c, cl)
  BY DEF Connect, SessionTypeOK, TypeOK
<1> QED BY <1>1, <1>2, <1>3, <1>6, <1>7, <1>8, <1>9

LEMMA DeliverDoes ==
    ASSUME SessionTypeOK, NEW s \in Session, NEW m \in Payload, DeliverPublish(s, m), NEW r, r = route'[s]
    PROVE  /\ pc'[s] = "scan" /\ r # None /\ r.msg = m
           /\ r.steady = {c \in Client : Subscribed(c) /\ ~Connecting(c)}
           /\ r.back = IF pc[s] = "idle" THEN "idle" ELSE "handoff"
           /\ retained' = IF m \notin Retain THEN retained ELSE IF m \in Clearing THEN None ELSE m
           /\ \A t \in Session : t # s => route'[t] = route[t]
<1> DEFINE rec == [msg |-> m, cand |-> {}, reached |-> {}, due |-> {c \in Client : Subscribed(c)},
                   steady |-> {c \in {d \in Client : Subscribed(d)} : ~Connecting(c)},
                   back |-> IF pc[s] = "idle" THEN "idle" ELSE "handoff"]
<1>1. route' = [route EXCEPT ![s] = rec]
  BY DEF DeliverPublish
<1>2. r = rec /\ \A t \in Session : t # s => route'[t] = route[t]
  BY <1>1 DEF SessionTypeOK, TypeOK
<1>3. r \in Route
  BY <1>2 DEF Route
<1>4. r # None
  BY <1>3, SessionAssumption
<1>5. /\ r.msg = m /\ r.steady = {c \in Client : Subscribed(c) /\ ~Connecting(c)}
      /\ r.back = IF pc[s] = "idle" THEN "idle" ELSE "handoff"
  BY <1>2
<1>6. pc'[s] = "scan"
  BY DEF DeliverPublish, SessionTypeOK, Goto
<1>7. retained' = IF m \notin Retain THEN retained ELSE IF m \in Clearing THEN None ELSE m
  BY DEF DeliverPublish
<1> QED BY <1>2, <1>4, <1>5, <1>6, <1>7

LEMMA ScanDoes ==
    ASSUME SessionTypeOK, NEW s \in Session, SessionShape(s), ScanIndex(s)
    PROVE  /\ pc[s] = "scan" /\ pc'[s] = "fanout" /\ route[s] # None /\ route'[s] # None
           /\ route'[s].msg = route[s].msg /\ route'[s].back = route[s].back
           /\ route'[s].steady = route[s].steady /\ route'[s].cand = {t \in Session : InIndex(t)}
           /\ \A t \in Session : t # s => route'[t] = route[t]
           /\ UNCHANGED <<broker, ses, local, published, got, hist>>
<1>1. pc[s] = "scan" /\ pc'[s] = "fanout" /\ UNCHANGED <<broker, ses, local, published, got, hist>>
  BY DEF ScanIndex, SessionTypeOK, Goto
<1>2. route[s] \in Route /\ route[s] # None
  BY <1>1 DEF SessionShape, SessionTypeOK, TypeOK
<1>3. UNION {index[f] : f \in Filter} = {t \in Session : InIndex(t)}
  BY DEF SessionTypeOK, TypeOK, InIndex
<1>4. route' = [route EXCEPT ![s] = [route[s] EXCEPT !.cand = {t \in Session : InIndex(t)}]]
  BY <1>3 DEF ScanIndex
<1>5. /\ route'[s] = [route[s] EXCEPT !.cand = {t \in Session : InIndex(t)}]
      /\ \A t \in Session : t # s => route'[t] = route[t]
  BY <1>4 DEF SessionTypeOK, TypeOK
<1>6. route'[s] \in Route
  BY <1>2, <1>5 DEF Route
<1>7. /\ route'[s].msg = route[s].msg /\ route'[s].back = route[s].back
      /\ route'[s].steady = route[s].steady /\ route'[s].cand = {t \in Session : InIndex(t)}
  BY <1>2, <1>5 DEF Route
<1> QED BY <1>1, <1>2, <1>5, <1>6, <1>7, SessionAssumption

LEMMA FanOutDoes ==
    ASSUME SessionTypeOK, NEW s \in Session, SessionShape(s), NEW t \in Session, FanOut(s, t)
    PROVE  /\ pc[s] = "fanout" /\ pc' = pc /\ route[s] # None /\ route'[s] # None
           /\ route'[s].msg = route[s].msg /\ route'[s].back = route[s].back
           /\ route'[s].steady = route[s].steady /\ route'[s].cand = route[s].cand \ {t}
           /\ route[s].reached \subseteq route'[s].reached
           /\ \A u \in Session : got[u] \subseteq got'[u]
           /\ ses[t].subs # << >> => ses[t].client_id \in route'[s].reached /\ route[s].msg \in got'[t]
           /\ \A u \in Session : u # s => route'[u] = route[u]
           /\ UNCHANGED <<broker, ses, local, published, hist>>
<1>1. pc[s] = "fanout" /\ pc' = pc /\ UNCHANGED <<broker, ses, local, published, hist>>
  BY DEF FanOut
<1>2. route[s] \in Route /\ route[s] # None
  BY <1>1 DEF SessionShape, SessionTypeOK, TypeOK
<1>3. CASE ses[t].subs = << >>
  <2>1. /\ got' = got /\ route'[s] = [route[s] EXCEPT !.cand = @ \ {t}]
        /\ \A u \in Session : u # s => route'[u] = route[u]
    BY <1>3 DEF FanOut, SessionTypeOK, TypeOK
  <2>2. route'[s] \in Route
    BY <1>2, <2>1 DEF Route
  <2> QED BY <1>1, <1>2, <1>3, <2>1, <2>2, SessionAssumption DEF Route
<1>4. CASE ses[t].subs # << >>
  <2>1. /\ got' = [got EXCEPT ![t] = @ \cup {route[s].msg}]
        /\ route'[s] = [route[s] EXCEPT !.cand = @ \ {t}, !.reached = @ \cup {ses[t].client_id}]
        /\ \A u \in Session : u # s => route'[u] = route[u]
    BY <1>4 DEF FanOut, SessionTypeOK, TypeOK
  <2>2. ses[t].client_id \in Client \cup {None}
    BY DEF SessionTypeOK, TypeOK, Fields
  <2>3. [route[s] EXCEPT !.cand = @ \ {t}, !.reached = @ \cup {ses[t].client_id}] \in Route
    BY <1>2, <2>2 DEF Route
  <2>4. /\ route'[s].msg = route[s].msg /\ route'[s].back = route[s].back
        /\ route'[s].steady = route[s].steady /\ route'[s].cand = route[s].cand \ {t}
        /\ route'[s].reached = route[s].reached \cup {ses[t].client_id}
    BY <1>2, <2>1 DEF Route
  <2>5. (\A u \in Session : got[u] \subseteq got'[u]) /\ route[s].msg \in got'[t]
    BY <2>1 DEF SessionTypeOK, TypeOK
  <2> QED BY <1>1, <1>2, <2>1, <2>3, <2>4, <2>5, SessionAssumption
<1> QED BY <1>3, <1>4

LEMMA QueueDoes ==
    ASSUME SessionTypeOK, NEW s \in Session, SessionShape(s), QueueOffline(s)
    PROVE  /\ pc[s] = "fanout" /\ pc'[s] = route[s].back /\ route[s] \in Route
           /\ route[s].cand = {} /\ route'[s] = None
           /\ \A t \in Session : t # s => route'[t] = route[t]
           /\ \A c \in Client : /\ stored[c] = None <=> stored'[c] = None
                                /\ stored[c] # None => /\ stored'[c].subs = stored[c].subs
                                                       /\ stored'[c].expires = stored[c].expires
           /\ missed'.steady \subseteq
                 missed.steady \cup {c \in route[s].steady \ route[s].reached :
                                        ~(stored[c] # None /\ stored[c].subs # << >>)}
           /\ UNCHANGED <<owner, index, retained, ses, local, got, fresh, promised, taken, graceful, willed>>
<1> DEFINE offline == {c \in Client : route[s].msg \notin AtMostOnce /\ stored[c] # None
                                        /\ stored[c].subs # << >>}
<1>1. /\ pc[s] = "fanout" /\ pc'[s] = route[s].back /\ route[s].cand = {}
      /\ UNCHANGED <<owner, index, retained, ses, local, got, fresh, promised, taken, graceful, willed>>
  BY DEF QueueOffline, SessionTypeOK, Goto
<1>2. route[s] \in Route
  BY <1>1 DEF SessionShape, SessionTypeOK, TypeOK
<1>3. route'[s] = None /\ \A t \in Session : t # s => route'[t] = route[t]
  BY DEF QueueOffline, SessionTypeOK, TypeOK
<1>4. ASSUME NEW c \in Client
      PROVE  /\ stored[c] = None <=> stored'[c] = None
             /\ stored[c] # None => /\ stored'[c].subs = stored[c].subs
                                    /\ stored'[c].expires = stored[c].expires
  <2>1. stored'[c] = IF c \in offline THEN [stored[c] EXCEPT !.queued = Pushed(@, route[s].msg)]
                     ELSE stored[c]
    BY DEF QueueOffline
  <2>2. CASE c \in offline
    <3>1. stored[c] \in Stored /\ route[s].msg \in Payload
      BY <1>2, <2>2 DEF SessionTypeOK, TypeOK, Route
    <3>2. stored[c].queued \in Seq(Payload)
      BY <3>1 DEF Stored
    <3>3. Pushed(stored[c].queued, route[s].msg) \in Seq(Payload)
      BY <3>1, <3>2, SessionAssumption DEF Pushed
    <3>4. stored'[c] \in Stored
      BY <2>1, <2>2, <3>1, <3>3 DEF Stored
    <3>5. stored'[c].subs = stored[c].subs /\ stored'[c].expires = stored[c].expires
      BY <2>1, <2>2, <3>1 DEF Stored
    <3> QED BY <2>2, <3>4, <3>5, SessionAssumption
  <2>3. CASE c \notin offline
    BY <2>1, <2>3
  <2> QED BY <2>2, <2>3
<1>5. missed'.steady \subseteq
         missed.steady \cup {c \in route[s].steady \ route[s].reached :
                                ~(stored[c] # None /\ stored[c].subs # << >>)}
  <2>1. CASE route[s].msg \in AtMostOnce
    BY <2>1 DEF QueueOffline
  <2>2. CASE route[s].msg \notin AtMostOnce
    <3>1. missed'.steady = missed.steady \cup (route[s].steady \ (route[s].reached \cup offline))
      BY <2>2 DEF QueueOffline
    <3>2. route[s].steady \subseteq Client
      BY <1>2 DEF Route
    <3> QED BY <2>2, <3>1, <3>2
  <2> QED BY <2>1, <2>2
<1> QED BY <1>1, <1>2, <1>3, <1>4, <1>5

LEMMA HandOffDoes ==
    ASSUME SessionTypeOK, NEW s \in Session, HandOff(s)
    PROVE  /\ pc[s] = "handoff" /\ pc'[s] = "remove"
           /\ UNCHANGED <<index, retained, ses, local, got, fresh, promised, taken, graceful, willed, missed>>
           /\ ~(ses[s].client_id # None /\ owner[ses[s].client_id] = s) =>
                 owner' = owner /\ stored' = stored /\ route' = route
BY DEF HandOff, SessionTypeOK, Goto, hist

(* The session of client c is handed off by its owner.                     *)
LEMMA OwnerHandsOff ==
    ASSUME SessionTypeOK, NEW s \in Session, HandOff(s), NEW c \in Client, c = ses[s].client_id,
           owner[c] = s
    PROVE  /\ owner'[c] = None
           /\ \A d \in Client : d # c => owner'[d] = owner[d] /\ stored'[d] = stored[d]
           /\ ses[s].clean => stored' = stored /\ route' = Unsteady(c, TRUE)
           /\ ~ses[s].clean => /\ route' = route /\ stored'[c] # None
                               /\ stored'[c].subs = ses[s].subs
                               /\ stored'[c].expires = ses[s].expires
<1> DEFINE rec == [subs |-> ses[s].subs, queued |-> << >>, expires |-> ses[s].expires]
<1>1. c # None
  BY SessionAssumption
<1>2. owner' = [owner EXCEPT ![c] = None]
  BY <1>1 DEF HandOff
<1>3. owner'[c] = None /\ \A d \in Client : d # c => owner'[d] = owner[d]
  BY <1>2 DEF SessionTypeOK, TypeOK
<1>4. ses[s].clean => stored' = stored /\ route' = Unsteady(c, TRUE)
  BY <1>1 DEF HandOff
<1>5. ~ses[s].clean => route' = route /\ stored' = [stored EXCEPT ![c] = rec]
  BY <1>1 DEF HandOff
<1>6. rec \in Stored
  BY DEF SessionTypeOK, TypeOK, Fields, Stored
<1>7. rec # None /\ rec.subs = ses[s].subs /\ rec.expires = ses[s].expires
  BY <1>6, SessionAssumption
<1> HIDE DEF rec
<1>8. ~ses[s].clean => stored'[c] = rec /\ \A d \in Client : d # c => stored'[d] = stored[d]
  BY <1>5 DEF SessionTypeOK, TypeOK
<1> QED BY <1>3, <1>4, <1>5, <1>7, <1>8

-----------------------------------------------------------------------------
(* Each session by itself                                                  *)

LEMMA ShapeKept ==
    ASSUME ~LateConnect, SessionTypeOK, \A t \in Session : SessionShape(t),
           NEW s \in Session, Handler(s) \/ Peer(s)
    PROVE  \A t \in Session : SessionShape(t)'
<1>1. ASSUME NEW t \in Session, t # s PROVE SessionShape(t)'
  BY <1>1, OthersAlone DEF SessionShape, SameFields, SameRoute
<1>2. SessionShape(s)'
  <2>0. SessionShape(s)
    OBVIOUS
  <2>1. CASE TakeStored(s)
    BY <2>0, <2>1, TakeStoredDoes DEF SessionShape
  <2>2. CASE RestoreIndex(s)
    BY <2>0, <2>2 DEF RestoreIndex, SessionTypeOK, Goto, SessionShape
  <2>3. CASE RestoreSubs(s)
    BY <2>0, <2>3, RestoreSubsDoes DEF ButSubs, SessionShape
  <2>4. CASE ConnackAndFlush(s)
    <3>1. local'[s].subs = << >>
      BY <2>4 DEF ConnackAndFlush, NoLocal, SessionTypeOK, TypeOK
    <3> QED BY <2>0, <2>4, <3>1 DEF ConnackAndFlush, SessionTypeOK, Goto, SessionShape
  <2>5. CASE IndexSubscription(s)
    BY <2>0, <2>5 DEF IndexSubscription, SessionTypeOK, Goto, SessionShape
  <2>6. CASE SubackAndReplay(s)
    BY <2>0, <2>6 DEF SubackAndReplay, SessionTypeOK, Goto, SessionShape
  <2>7. CASE ScanIndex(s)
    BY <2>0, <2>7, ScanDoes DEF SessionShape
  <2>8. ASSUME NEW t \in Session, FanOut(s, t) PROVE SessionShape(s)'
    BY <2>0, <2>8, FanOutDoes DEF SessionShape
  <2>9. CASE QueueOffline(s)
    <3>1. route[s].back \in {"idle", "handoff"}
      BY <2>0, <2>9, QueueDoes DEF Route
    <3> QED BY <2>0, <2>9, <3>1, QueueDoes DEF SessionShape
  <2>10. CASE NoticeKicked(s) \/ TeardownNoWill(s) \/ ConnectionLost(s) \/ Accept(s)
    BY <2>0, <2>10 DEF NoticeKicked, TeardownNoWill, ConnectionLost, Accept, SessionTypeOK, Goto,
                       SessionShape
  <2>11. CASE TeardownWill(s)
    <3>1. pc'[s] = "scan" /\ route'[s] # None
      BY <2>11, DeliverDoes DEF TeardownWill, Payload
    <3> QED BY <2>0, <2>11, <3>1 DEF TeardownWill, SessionShape
  <2>12. CASE HandOff(s)
    <3>0. ses[s].client_id \in Client \cup {None}
      BY DEF SessionTypeOK, TypeOK, Fields
    <3>1. route' = route \/ \E c \in Client, cl \in BOOLEAN : route' = Unsteady(c, cl)
      BY <2>12, <3>0, HandOffDoes, OwnerHandsOff
    <3>2. route'[s] = None <=> route[s] = None
      BY <3>1, UnsteadyKeeps
    <3> QED BY <2>0, <2>12, <3>2, HandOffDoes DEF SessionShape
  <2>13. CASE RemoveSession(s)
    BY <2>0, <2>13 DEF RemoveSession, SessionTypeOK, Goto, SessionShape
  <2>14. ASSUME NEW c \in Client, NEW cl \in CleanChoices, NEW w \in WillChoices,
               NEW x \in ExpiryChoices, Connect(s, c, cl, w, x)
         PROVE  SessionShape(s)'
    <3>1. /\ pc[s] = "idle" /\ pc'[s] = "claimed" /\ ses'[s].client_id = c /\ ses'[s].subs = << >>
          /\ cl \in BOOLEAN /\ route' = Unsteady(c, cl)
      BY <2>0, <2>14, ConnectDoes
    <3>2. route'[s] = None <=> route[s] = None
      BY <3>1, UnsteadyKeeps
    <3>3. local' = local
      BY <2>14 DEF Connect
    <3> QED BY <2>0, <3>1, <3>2, <3>3 DEF SessionShape
  <2>15. ASSUME NEW f \in Filter, Subscribe(s, f) PROVE SessionShape(s)'
    <3>1. ses'[s].subs # << >>
      <4>1. ses[s].subs \in Seq(Filter)
        BY DEF SessionTypeOK, TypeOK, Fields
      <4> QED BY <2>15, <4>1, SubscribeDoes
    <3> QED BY <2>0, <2>15, <3>1, SubscribeDoes DEF SessionShape
  <2>16. CASE Disconnect(s)
    BY <2>0, <2>16, DisconnectDoes DEF Disconnect, SessionShape
  <2>17. ASSUME NEW m \in Message, Publish(s, m) PROVE SessionShape(s)'
    <3>1. pc'[s] = "scan" /\ route'[s] # None /\ pc[s] = "idle"
      BY <2>17, DeliverDoes DEF Publish, Ready, Payload
    <3> QED BY <2>0, <2>17, <3>1 DEF Publish, SessionShape
  <2> QED BY <2>1, <2>2, <2>3, <2>4, <2>5, <2>6, <2>7, <2>8, <2>9, <2>10, <2>11, <2>12, <2>13,
             <2>14, <2>15, <2>16, <2>17 DEF Handler, Peer
<1> QED BY <1>1, <1>2

-----------------------------------------------------------------------------
(* The topic index                                                         *)

LEMMA IndexKept ==
    ASSUME ~LateConnect, SessionTypeOK, \A t \in Session : SessionShape(t), IndexExact,
           NEW s \in Session, Handler(s) \/ Peer(s)
    PROVE  IndexExact'
<1>1. ASSUME NEW t \in Session, t # s, NEW f \in Filter PROVE t \in index'[f] <=> f \in IndexedUnder(t)'
  <2>1. IndexedUnder(t)' = IndexedUnder(t)
    <3>1. pc'[t] = pc[t] /\ local'[t] = local[t] /\ ses'[t].subs = ses[t].subs
      BY <1>1, OthersAlone DEF SameFields
    <3> QED BY <3>1 DEF IndexedUnder
  <2>2. t \in index'[f] <=> t \in index[f]
    <3>1. CASE RestoreIndex(s) \/ IndexSubscription(s)
      <4>1. \A fs : Indexed(s, fs)[f] = index[f] \/ Indexed(s, fs)[f] = index[f] \cup {s}
        BY DEF Indexed
      <4>2. index'[f] = index[f] \/ index'[f] = index[f] \cup {s}
        BY <3>1, <4>1 DEF RestoreIndex, IndexSubscription
      <4> QED BY <1>1, <4>2
    <3>2. CASE RemoveSession(s)
      BY <1>1, <3>2 DEF RemoveSession, SessionTypeOK, TypeOK
    <3>3. CASE ~RestoreIndex(s) /\ ~IndexSubscription(s) /\ ~RemoveSession(s)
      <4>1. index' = index
        BY <3>3 DEF Handler, Peer, TakeStored, RestoreSubs, ConnackAndFlush, SubackAndReplay,
               ScanIndex, FanOut, QueueOffline, NoticeKicked, TeardownWill, TeardownNoWill,
               HandOff, Accept, Connect, Subscribe, Disconnect, ConnectionLost, Publish, broker
      <4> QED BY <4>1
    <3> QED BY <3>1, <3>2, <3>3
  <2> QED BY <2>1, <2>2 DEF IndexExact
<1>2. ASSUME NEW f \in Filter PROVE s \in index'[f] <=> f \in IndexedUnder(s)'
  <2>0. SessionShape(s) /\ ElementsOf(<< >>) = {} /\ (s \in index[f] <=> f \in IndexedUnder(s))
    BY DEF ElementsOf, IndexExact
  <2>a. ses[s].subs \in Seq(Filter) /\ local[s].subs \in Seq(Filter)
    BY DEF SessionTypeOK, TypeOK, Fields
  <2>1. ASSUME index' = index, IndexedUnder(s)' = IndexedUnder(s)
        PROVE  s \in index'[f] <=> f \in IndexedUnder(s)'
    BY <2>0, <2>1
  <2>2. CASE TakeStored(s)
    BY <2>0, <2>1, <2>2, TakeStoredDoes DEF SessionShape, IndexedUnder
  <2>3. CASE RestoreIndex(s)
    BY <2>0, <2>3 DEF RestoreIndex, Indexed, IndexedUnder, SessionTypeOK, TypeOK, Goto
  <2>4. CASE RestoreSubs(s)
    BY <2>0, <2>1, <2>4, RestoreSubsDoes DEF IndexedUnder, broker
  <2>5. CASE \/ ConnackAndFlush(s) \/ SubackAndReplay(s) \/ NoticeKicked(s) \/ TeardownNoWill(s)
             \/ ConnectionLost(s) \/ HandOff(s)
    <3>1. index' = index /\ ses' = ses
      BY <2>5 DEF ConnackAndFlush, SubackAndReplay, NoticeKicked, TeardownNoWill, ConnectionLost,
                  HandOff, broker
    <3>2. /\ pc[s] \in {"connack", "suback", "idle", "ending", "handoff"}
          /\ pc'[s] \in {"idle", "ending", "handoff", "remove"}
      BY <2>5 DEF ConnackAndFlush, SubackAndReplay, NoticeKicked, TeardownNoWill, ConnectionLost,
                  HandOff, SessionTypeOK, Goto
    <3> QED BY <2>1, <3>1, <3>2 DEF IndexedUnder
  <2>6. CASE IndexSubscription(s)
    <3> DEFINE n == Len(ses[s].subs)
    <3>1. n \in Nat \ {0}
      BY <2>0, <2>6, <2>a DEF IndexSubscription, SessionShape
    <3>2. ElementsOf(<<ses[s].subs[n]>>) = {ses[s].subs[n]}
      BY DEF ElementsOf
    <3>3. s \in index'[f] <=> s \in index[f] \/ f = ses[s].subs[n]
      BY <2>6, <3>2 DEF IndexSubscription, Indexed, SessionTypeOK, TypeOK
    <3>4. IndexedUnder(s) = {ses[s].subs[i] : i \in 1..(n - 1)}
      BY <2>6 DEF IndexSubscription, IndexedUnder
    <3>5. IndexedUnder(s)' = {ses[s].subs[i] : i \in 1..n}
      BY <2>6 DEF IndexSubscription, IndexedUnder, ElementsOf, SessionTypeOK, Goto
    <3>6. f \in IndexedUnder(s)' <=> f \in IndexedUnder(s) \/ f = ses[s].subs[n]
      BY <3>1, <3>4, <3>5
    <3> QED BY <2>0, <3>3, <3>6
  <2>7. CASE ScanIndex(s)
    BY <2>1, <2>0, <2>7, ScanDoes DEF IndexedUnder, broker
  <2>8. ASSUME NEW t \in Session, FanOut(s, t) PROVE s \in index'[f] <=> f \in IndexedUnder(s)'
    BY <2>1, <2>0, <2>8, FanOutDoes DEF IndexedUnder, broker
  <2>9. CASE QueueOffline(s)
    <3>1. route[s].back \in {"idle", "handoff"}
      BY <2>0, <2>9, QueueDoes DEF Route
    <3> QED BY <2>0, <2>1, <2>9, <3>1, QueueDoes DEF IndexedUnder
  <2>10. CASE TeardownWill(s)
    BY <2>1, <2>10 DEF TeardownWill, DeliverPublish, IndexedUnder, SessionTypeOK, Goto
  <2>11. CASE RemoveSession(s)
    BY <2>0, <2>11 DEF RemoveSession, IndexedUnder, SessionTypeOK, TypeOK, Goto
  <2>12. CASE Accept(s)
    BY <2>0, <2>1, <2>12 DEF Accept, SessionShape, IndexedUnder, SessionTypeOK, Goto, broker
  <2>13. ASSUME NEW c \in Client, NEW cl \in CleanChoices, NEW w \in WillChoices,
               NEW x \in ExpiryChoices, Connect(s, c, cl, w, x)
         PROVE  s \in index'[f] <=> f \in IndexedUnder(s)'
    <3>1. pc[s] = "idle" /\ pc'[s] = "claimed" /\ ses[s].subs = << >>
      BY <2>0, <2>13, ConnectDoes
    <3>2. index' = index
      BY <2>13 DEF Connect
    <3> QED BY <2>0, <2>1, <3>1, <3>2 DEF IndexedUnder
  <2>14. ASSUME NEW g \in Filter, Subscribe(s, g) PROVE s \in index'[f] <=> f \in IndexedUnder(s)'
    <3>1. /\ pc[s] = "idle" /\ pc'[s] = "subscribing" /\ ses'[s].subs = Append(ses[s].subs, g)
          /\ index' = index
      BY <2>14, SubscribeDoes DEF broker
    <3>2. IndexedUnder(s)' = {ses'[s].subs[i] : i \in 1..(Len(ses'[s].subs) - 1)}
      BY <3>1 DEF IndexedUnder
    <3>3. IndexedUnder(s) = {ses[s].subs[i] : i \in 1..Len(ses[s].subs)}
      BY <3>1 DEF IndexedUnder, ElementsOf
    <3>4. /\ Len(ses'[s].subs) - 1 = Len(ses[s].subs)
          /\ \A i \in 1..Len(ses[s].subs) : ses'[s].subs[i] = ses[s].subs[i]
      BY <2>a, <3>1
    <3>5. IndexedUnder(s)' = IndexedUnder(s)
      BY <3>2, <3>3, <3>4
    <3> QED BY <2>1, <3>1, <3>5
  <2>15. CASE Disconnect(s)
    <3>1. pc[s] = "idle" /\ pc'[s] = "ending" /\ ses'[s].subs = ses[s].subs
      BY <2>15, DisconnectDoes
    <3>2. index' = index
      BY <2>15 DEF Disconnect, broker
    <3> QED BY <2>1, <3>1, <3>2 DEF IndexedUnder
  <2>16. ASSUME NEW m \in Message, Publish(s, m) PROVE s \in index'[f] <=> f \in IndexedUnder(s)'
    BY <2>1, <2>16 DEF Publish, Ready, DeliverPublish, IndexedUnder, SessionTypeOK, Goto
  <2> QED BY <2>2, <2>3, <2>4, <2>5, <2>6, <2>7, <2>8, <2>9, <2>10, <2>11, <2>12, <2>13, <2>14,
             <2>15, <2>16 DEF Handler, Peer
<1> QED BY <1>1, <1>2 DEF IndexExact

-----------------------------------------------------------------------------
(* Owners and stored sessions                                              *)

LEMMA OwnersKept ==
    ASSUME ~LateConnect, SessionTypeOK, SessionTypeOK', \A t \in Session : SessionShape(t), OwnersLive,
           NEW s \in Session, Handler(s) \/ Peer(s)
    PROVE  OwnersLive'
<1>0. SessionShape(s) /\ ses[s].client_id \in Client \cup {None} /\ None \notin Client
  BY SessionAssumption DEF SessionTypeOK, TypeOK, Fields
<1>b. s # None /\ None \notin Session
  BY SessionAssumption DEF Session
<1>a. \A c \in Client : owner[c] \in Session \cup {None}
  BY DEF SessionTypeOK, TypeOK
<1>1. ASSUME UNCHANGED <<owner, stored>>, taken' = taken,
             \A t \in Session : ses'[t].client_id = ses[t].client_id /\ ses'[t].kicked = ses[t].kicked,
             \A t \in Session : t # s => pc'[t] = pc[t],
             pc[s] # "claimed" \/ pc'[s] = "claimed",
             pc'[s] \notin {"absent", "remove", "gone"} \/ (pc[s] = "remove" /\ pc'[s] = "gone"),
             pc[s] \notin {"remove", "gone"} \/ (pc[s] = "remove" /\ pc'[s] = "gone")
      PROVE  OwnersLive'
  BY <1>1, <1>a DEF OwnersLive
<1>2. ASSUME NEW t \in Session, t # s PROVE pc'[t] = pc[t]
  BY <1>2, OthersAlone
<1>3. CASE TakeStored(s)
  <2> DEFINE c == ses[s].client_id
  <2>1. /\ c \in Client /\ pc[s] = "claimed" /\ UNCHANGED <<owner, ses, taken>>
        /\ stored'[c] = None /\ \A d \in Client : d # c => stored'[d] = stored[d]
        /\ pc'[s] \in {"connack", "indexing"}
    BY <1>0, <1>3, TakeStoredDoes DEF hist
  <2> HIDE DEF c
  <2>2. \A d \in Client : owner[d] = s => d = c
    BY <1>b DEF OwnersLive, c
  <2> QED BY <1>0, <1>2, <1>a, <2>1, <2>2 DEF OwnersLive
<1>4. CASE \/ RestoreIndex(s) \/ ConnackAndFlush(s) \/ IndexSubscription(s) \/ SubackAndReplay(s)
           \/ NoticeKicked(s) \/ TeardownNoWill(s) \/ ConnectionLost(s) \/ Accept(s)
           \/ RemoveSession(s) \/ TeardownWill(s) \/ \E m \in Message : Publish(s, m)
  <2>1. UNCHANGED <<owner, stored, ses>> /\ taken' = taken
    BY <1>4 DEF RestoreIndex, ConnackAndFlush, IndexSubscription, SubackAndReplay, NoticeKicked,
                TeardownNoWill, ConnectionLost, Accept, RemoveSession, TeardownWill, Publish,
                broker, hist
  <2>2. /\ pc[s] \notin {"claimed", "gone"}
        /\ \/ pc[s] = "remove" /\ pc'[s] = "gone"
           \/ pc[s] # "remove" /\ pc'[s] \notin {"absent", "remove", "gone"}
    BY <1>4 DEF RestoreIndex, ConnackAndFlush, IndexSubscription, SubackAndReplay, NoticeKicked,
                TeardownNoWill, ConnectionLost, Accept, RemoveSession, TeardownWill, Publish,
                DeliverPublish, Ready, SessionTypeOK, Goto
  <2> QED BY <1>1, <1>2, <2>1, <2>2
<1>5. CASE ScanIndex(s)
  <2>1. UNCHANGED <<owner, stored, ses, taken>> /\ pc[s] = "scan" /\ pc'[s] = "fanout"
    BY <1>0, <1>5, ScanDoes DEF broker, hist
  <2> QED BY <1>1, <1>2, <2>1
<1>6. ASSUME NEW t \in Session, FanOut(s, t) PROVE OwnersLive'
  <2>1. UNCHANGED <<owner, stored, ses, taken>> /\ pc[s] = "fanout" /\ pc' = pc
    BY <1>0, <1>6, FanOutDoes DEF broker, hist
  <2> QED BY <1>1, <1>2, <2>1
<1>7. CASE QueueOffline(s)
  <2>1. /\ UNCHANGED <<owner, ses, taken>> /\ pc[s] = "fanout" /\ pc'[s] \in {"idle", "handoff"}
        /\ \A c \in Client : stored[c] = None <=> stored'[c] = None
    BY <1>0, <1>7, QueueDoes DEF Route
  <2> QED BY <1>2, <1>a, <2>1 DEF OwnersLive
<1>8. CASE RestoreSubs(s)
  <2>1. /\ UNCHANGED <<owner, stored, taken>> /\ pc[s] = "restoring" /\ pc'[s] = "connack"
        /\ \A t \in Session : ses'[t].client_id = ses[t].client_id /\ ses'[t].kicked = ses[t].kicked
    BY <1>8, RestoreSubsDoes DEF ButSubs, broker, hist
  <2> QED BY <1>1, <1>2, <2>1
<1>9. ASSUME NEW f \in Filter, Subscribe(s, f) PROVE OwnersLive'
  <2>1. /\ UNCHANGED <<owner, stored, taken>> /\ pc[s] = "idle" /\ pc'[s] = "subscribing"
        /\ \A t \in Session : ses'[t].client_id = ses[t].client_id /\ ses'[t].kicked = ses[t].kicked
    BY <1>9, SubscribeDoes DEF ButSubs, broker, hist
  <2> QED BY <1>1, <1>2, <2>1
<1>10. CASE Disconnect(s)
  <2>1. /\ pc[s] = "idle" /\ pc'[s] = "ending"
        /\ \A t \in Session : ses'[t].client_id = ses[t].client_id /\ ses'[t].kicked = ses[t].kicked
    BY <1>10, DisconnectDoes
  <2>2. UNCHANGED <<owner, stored, taken>>
    BY <1>10 DEF Disconnect, broker
  <2> QED BY <1>1, <1>2, <2>1, <2>2
<1>11. CASE HandOff(s)
  <2> PICK c \in Client \cup {None} : c = ses[s].client_id
    BY <1>0
  <2>1. pc[s] = "handoff" /\ pc'[s] = "remove" /\ ses' = ses /\ taken' = taken
    BY <1>11, HandOffDoes
  <2>2. \A d \in Client : owner[d] = s => d = c
    BY <1>b DEF OwnersLive
  <2>3. CASE c = None \/ owner[c] # s
    <3>1. owner' = owner /\ stored' = stored
      BY <1>11, <2>3, HandOffDoes
    <3>2. \A d \in Client : owner[d] # s
      BY <1>0, <2>2, <2>3
    <3> QED BY <1>2, <1>a, <2>1, <3>1, <3>2 DEF OwnersLive
  <2>4. CASE c # None /\ owner[c] = s
    <3>3. /\ c \in Client /\ owner'[c] = None
          /\ \A d \in Client : d # c => owner'[d] = owner[d] /\ stored'[d] = stored[d]
      BY <1>11, <2>4, OwnerHandsOff
    <3>1. ASSUME NEW d \in Client, owner'[d] # None
          PROVE  /\ ses'[owner'[d]].client_id = d /\ ~ses'[owner'[d]].kicked
                 /\ pc'[owner'[d]] \notin {"absent", "remove", "gone"}
                 /\ stored'[d] # None => pc'[owner'[d]] = "claimed"
      <4>1. d # c /\ owner'[d] = owner[d] /\ stored'[d] = stored[d] /\ owner[d] \in Session \ {s}
        BY <1>a, <2>2, <2>4, <3>1, <3>3
      <4> QED BY <1>2, <2>1, <3>1, <4>1 DEF OwnersLive
    <3>2. ASSUME NEW t \in Session
          PROVE  /\ ses'[t].client_id # None /\ pc'[t] \notin {"remove", "gone"} /\ ~ses'[t].kicked =>
                       owner'[ses'[t].client_id] = t
                 /\ ses'[t].kicked => ses'[t].client_id \in taken'
      <4>1. CASE t = s
        BY <2>1, <4>1 DEF OwnersLive
      <4>2. CASE t # s
        <5>1. ses[t].client_id \in Client \cup {None}
          BY DEF SessionTypeOK, TypeOK, Fields
        <5> QED BY <1>2, <2>1, <2>4, <3>3, <4>2, <5>1 DEF OwnersLive
      <4> QED BY <4>1, <4>2
    <3> QED BY <3>1, <3>2 DEF OwnersLive
  <2> QED BY <2>3, <2>4
<1>12. ASSUME NEW c \in Client, NEW cl \in CleanChoices, NEW w \in WillChoices,
              NEW x \in ExpiryChoices, Connect(s, c, cl, w, x)
       PROVE  OwnersLive'
  <2>1. /\ pc[s] = "idle" /\ pc'[s] = "claimed" /\ ses[s].client_id = None /\ ~ses[s].kicked
        /\ ses'[s].client_id = c /\ ~ses'[s].kicked
        /\ \A t \in Session : t # s /\ t # owner[c] => ses'[t] = ses[t]
        /\ \A t \in Session : t # s /\ t = owner[c] => ses'[t].kicked
        /\ owner'[c] = s /\ \A d \in Client : d # c => owner'[d] = owner[d]
    BY <1>0, <1>12, ConnectDoes
  <2>2. stored' = stored /\ taken' = IF owner[c] \in {None, s} THEN taken ELSE taken \cup {c}
    BY <1>12 DEF Connect
  <2>3. \A t \in Session : t # s => ses'[t].client_id = ses[t].client_id
    BY OthersAlone DEF SameFields
  <2>4. owner[c] # s /\ \A d \in Client : owner[d] # s
    BY <1>0, <1>b, <2>1 DEF OwnersLive
  <2>5. ASSUME NEW d \in Client, owner'[d] # None
        PROVE  /\ ses'[owner'[d]].client_id = d /\ ~ses'[owner'[d]].kicked
               /\ pc'[owner'[d]] \notin {"absent", "remove", "gone"}
               /\ stored'[d] # None => pc'[owner'[d]] = "claimed"
    <3>1. CASE d = c
      BY <2>1, <3>1
    <3>2. CASE d # c
      <4> DEFINE o == owner[d]
      <4>1. o \in Session /\ o # s /\ owner'[d] = o /\ ses[o].client_id = d
        BY <1>a, <2>1, <2>4, <2>5, <3>2 DEF OwnersLive
      <4>2. o # owner[c]
        BY <1>a, <2>5, <3>2, <4>1 DEF OwnersLive
      <4> QED BY <1>2, <2>1, <2>2, <2>3, <2>5, <4>1, <4>2, <3>2 DEF OwnersLive
    <3> QED BY <3>1, <3>2
  <2>6. ASSUME NEW t \in Session
        PROVE  /\ ses'[t].client_id # None /\ pc'[t] \notin {"remove", "gone"} /\ ~ses'[t].kicked =>
                     owner'[ses'[t].client_id] = t
               /\ ses'[t].kicked => ses'[t].client_id \in taken'
    <3>1. CASE t = s
      BY <2>1, <3>1
    <3>2. CASE t # s /\ t = owner[c]
      <4>1. ses'[t].client_id = c
        BY <2>3, <3>2, <1>a, SessionAssumption DEF OwnersLive, Session
      <4> QED BY <2>1, <2>2, <3>2, <4>1, SessionAssumption DEF Session
    <3>3. CASE t # s /\ t # owner[c]
      <4>1. ses'[t] = ses[t] /\ pc'[t] = pc[t]
        BY <1>2, <2>1, <3>3
      <4>2. ses[t].client_id \in Client \cup {None}
        BY DEF SessionTypeOK, TypeOK, Fields
      <4> QED BY <2>1, <2>2, <3>3, <4>1, <4>2 DEF OwnersLive
    <3> QED BY <3>1, <3>2, <3>3
  <2> QED BY <2>5, <2>6 DEF OwnersLive
<1> QED BY <1>3, <1>4, <1>5, <1>6, <1>7, <1>8, <1>9, <1>10, <1>11, <1>12 DEF Handler, Peer


-----------------------------------------------------------------------------
(* Wills                                                                   *)

LEMMA WillsKept ==
    ASSUME SessionTypeOK, SessionTypeOK', \A t \in Session : SessionShape(t)',
           \A t \in Session : SessionShape(t), WillsExact, NEW s \in Session, Handler(s) \/ Peer(s)
    PROVE  WillsExact'
<1> DEFINE Exact(t) ==
             /\ t \in willed => ses[t].will /\ pc[t] \in {"scan", "fanout", "handoff", "remove", "gone"}
             /\ pc[t] \in {"handoff", "remove", "gone"} => (t \in willed <=> ses[t].will)
             /\ route[t] # None => (route[t].back = "handoff" <=> t \in willed)
             /\ t \in graceful => ~ses[t].will /\ pc[t] \in {"ending", "handoff", "remove", "gone"}
<1>0. \A t \in Session : Exact(t)
  BY DEF WillsExact
<1>1. ASSUME NEW t \in Session, t # s PROVE Exact(t)'
  <2>1. (t \in willed' <=> t \in willed) /\ (t \in graceful' <=> t \in graceful)
    BY <1>1 DEF Handler, Peer, TakeStored, RestoreIndex, RestoreSubs, ConnackAndFlush,
           IndexSubscription, SubackAndReplay, ScanIndex, FanOut, QueueOffline, NoticeKicked,
           TeardownWill, TeardownNoWill, HandOff, RemoveSession, Accept, Connect, Subscribe,
           Disconnect, ConnectionLost, Publish, hist
  <2>2. /\ pc'[t] = pc[t] /\ ses'[t].will = ses[t].will /\ (route'[t] = None <=> route[t] = None)
        /\ route[t] # None => route'[t].back = route[t].back
    BY <1>1, OthersAlone DEF SameFields, SameRoute
  <2> QED BY <1>0, <2>1, <2>2
<1>2. Exact(s)'
  <2>0. /\ SessionShape(s) /\ SessionShape(s)' /\ Exact(s)
        /\ ses[s].will \in BOOLEAN /\ ses'[s].will \in BOOLEAN
    BY <1>0 DEF SessionTypeOK, TypeOK, Fields
  <2>1. CASE \/ TakeStored(s) \/ RestoreIndex(s) \/ RestoreSubs(s) \/ ConnackAndFlush(s)
             \/ IndexSubscription(s) \/ SubackAndReplay(s) \/ NoticeKicked(s) \/ ConnectionLost(s)
             \/ Accept(s) \/ \E f \in Filter : Subscribe(s, f)
             \/ \E c \in Client, cl \in CleanChoices, w \in WillChoices, x \in ExpiryChoices :
                   Connect(s, c, cl, w, x)
    <3>1. willed' = willed /\ graceful' = graceful
      BY <2>1 DEF TakeStored, RestoreIndex, RestoreSubs, ConnackAndFlush, IndexSubscription,
             SubackAndReplay, NoticeKicked, ConnectionLost, Accept, Subscribe, Connect, hist
    <3>2. pc[s] \notin {"scan", "fanout", "ending", "handoff", "remove", "gone"}
      BY <2>1 DEF TakeStored, RestoreIndex, RestoreSubs, ConnackAndFlush, IndexSubscription,
             SubackAndReplay, NoticeKicked, ConnectionLost, Accept, Subscribe, Connect, Ready
    <3>3. pc'[s] \notin {"scan", "fanout", "handoff", "remove", "gone"}
      BY <2>1 DEF TakeStored, RestoreIndex, RestoreSubs, ConnackAndFlush, IndexSubscription,
             SubackAndReplay, NoticeKicked, ConnectionLost, Accept, Subscribe, Connect,
             SessionTypeOK, Goto
    <3>4. s \notin willed' /\ s \notin graceful' /\ route'[s] = None
      BY <2>0, <3>1, <3>2, <3>3 DEF SessionShape
    <3> QED BY <3>3, <3>4
  <2>2. CASE ScanIndex(s) \/ \E t \in Session : FanOut(s, t)
    <3>1. /\ pc[s] \in {"scan", "fanout"} /\ pc'[s] = "fanout" /\ route[s] # None
          /\ route'[s].back = route[s].back /\ ses' = ses /\ UNCHANGED hist
      BY <2>0, <2>2, ScanDoes, FanOutDoes
    <3> QED BY <2>0, <3>1 DEF hist
  <2>3. CASE QueueOffline(s)
    <3>1. /\ pc[s] = "fanout" /\ pc'[s] = route[s].back /\ route[s] \in Route /\ route'[s] = None
          /\ ses' = ses /\ willed' = willed /\ graceful' = graceful
      BY <2>0, <2>3, QueueDoes
    <3>2. route[s] # None /\ route[s].back \in {"idle", "handoff"}
      BY <3>1, SessionAssumption DEF Route
    <3> QED BY <2>0, <3>1, <3>2
  <2>4. CASE TeardownWill(s)
    <3>1. pc'[s] = "scan" /\ route'[s].back = "handoff"
      BY <2>4, DeliverDoes DEF TeardownWill, Payload
    <3>2. ses' = ses /\ pc[s] = "ending" /\ ses[s].will /\ willed' = willed \cup {s} /\ graceful' = graceful
      BY <2>4 DEF TeardownWill
    <3> QED BY <2>0, <3>1, <3>2
  <2>5. CASE TeardownNoWill(s) \/ HandOff(s) \/ RemoveSession(s)
    <3>1. /\ ses' = ses /\ willed' = willed /\ graceful' = graceful
          /\ pc[s] \in {"ending", "handoff", "remove"} /\ pc'[s] \in {"handoff", "remove", "gone"}
          /\ pc[s] = "ending" => ~ses[s].will
      BY <2>5 DEF TeardownNoWill, HandOff, RemoveSession, hist, SessionTypeOK, Goto
    <3>2. route'[s] = None
      BY <2>0, <3>1 DEF SessionShape
    <3> QED BY <2>0, <3>1, <3>2
  <2>6. CASE Disconnect(s)
    <3>1. pc[s] = "idle" /\ pc'[s] = "ending" /\ ~ses'[s].will
      BY <2>6, DisconnectDoes
    <3>2. willed' = willed
      BY <2>6 DEF Disconnect
    <3>3. route'[s] = None
      BY <2>0, <3>1 DEF SessionShape
    <3> QED BY <2>0, <3>1, <3>2, <3>3
  <2>7. ASSUME NEW m \in Message, Publish(s, m) PROVE Exact(s)'
    <3>1. pc[s] = "idle" /\ pc'[s] = "scan" /\ route'[s].back = "idle"
      BY <2>7, DeliverDoes DEF Publish, Ready, Payload
    <3>2. ses' = ses /\ willed' = willed /\ graceful' = graceful
      BY <2>7 DEF Publish, hist
    <3> QED BY <2>0, <3>1, <3>2
  <2> QED BY <2>1, <2>2, <2>3, <2>4, <2>5, <2>6, <2>7 DEF Handler, Peer
<1> QED BY <1>1, <1>2 DEF WillsExact

-----------------------------------------------------------------------------
(* Retained messages                                                       *)

(* A session stays in the index until it is removed, whoever moves.        *)
LEMMA IndexGrows ==
    ASSUME SessionTypeOK, NEW s \in Session, Handler(s) \/ Peer(s), NEW t \in Session, InIndex(t),
           t # s \/ pc[s] # "remove"
    PROVE  InIndex(t)'
<1> PICK f \in Filter : t \in index[f]
  BY DEF InIndex
<1> SUFFICES t \in index'[f]
  BY DEF InIndex
<1>1. CASE RestoreIndex(s) \/ IndexSubscription(s)
  <2>1. \A fs : Indexed(s, fs)[f] = index[f] \/ Indexed(s, fs)[f] = index[f] \cup {s}
    BY DEF Indexed
  <2>2. index'[f] = index[f] \/ index'[f] = index[f] \cup {s}
    BY <1>1, <2>1 DEF RestoreIndex, IndexSubscription
  <2> QED BY <2>2
<1>2. CASE RemoveSession(s)
  BY <1>2 DEF RemoveSession
<1>3. CASE ~RestoreIndex(s) /\ ~IndexSubscription(s) /\ ~RemoveSession(s)
  <2>1. index' = index
    BY <1>3 DEF Handler, Peer, TakeStored, RestoreSubs, ConnackAndFlush, SubackAndReplay,
           ScanIndex, FanOut, QueueOffline, NoticeKicked, TeardownWill, TeardownNoWill,
           HandOff, Accept, Connect, Subscribe, Disconnect, ConnectionLost, Publish, broker
  <2> QED BY <2>1
<1> QED BY <1>1, <1>2, <1>3

(* A message handed to a session stays with it.                            *)
LEMMA GotGrows ==
    ASSUME SessionTypeOK, NEW s \in Session, Handler(s) \/ Peer(s), NEW t \in Session
    PROVE  got[t] \subseteq got'[t]
<1>1. CASE ConnackAndFlush(s)
  BY <1>1 DEF ConnackAndFlush, SessionTypeOK, TypeOK
<1>2. CASE SubackAndReplay(s)
  BY <1>2 DEF SubackAndReplay, SessionTypeOK, TypeOK
<1>3. CASE \E u \in Session : FanOut(s, u)
  <2>1. PICK u \in Session : got' = got \/ got' = [got EXCEPT ![u] = @ \cup {route[s].msg}]
    BY <1>3 DEF FanOut
  <2> QED BY <2>1 DEF SessionTypeOK, TypeOK
<1>4. CASE ~ConnackAndFlush(s) /\ ~SubackAndReplay(s) /\ ~ \E u \in Session : FanOut(s, u)
  <2>1. got' = got
    BY <1>4 DEF Handler, Peer, TakeStored, RestoreIndex, RestoreSubs, IndexSubscription,
           ScanIndex, QueueOffline, NoticeKicked, TeardownWill, TeardownNoWill, RemoveSession,
           HandOff, Accept, Connect, Subscribe, Disconnect, ConnectionLost, Publish
  <2> QED BY <2>1
<1> QED BY <1>1, <1>2, <1>3, <1>4

(* A session in a fan-out takes one of its steps.                          *)
LEMMA InFanOut ==
    ASSUME SessionTypeOK, NEW s \in Session, Handler(s) \/ Peer(s), pc[s] \in {"scan", "fanout"}
    PROVE  ScanIndex(s) \/ (\E t \in Session : FanOut(s, t)) \/ QueueOffline(s)
BY DEF Handler, Peer, TakeStored, RestoreIndex, RestoreSubs, ConnackAndFlush,
       IndexSubscription, SubackAndReplay, NoticeKicked, TeardownWill, TeardownNoWill, HandOff,
       RemoveSession, Accept, Connect, Subscribe, Disconnect, ConnectionLost, Publish, Ready

(* A message on its way to a session that is indexed and has filters stays *)
(* on its way until it is handed over.                                     *)
LEMMA ComingKept ==
    ASSUME SessionTypeOK, \A t \in Session : SessionShape(t), NEW s \in Session, Handler(s) \/ Peer(s),
           NEW u \in Session, NEW m, Coming(m, u), InIndex(u), ses[u].subs # << >>
    PROVE  m \in got'[u] \/ Coming(m, u)'
<1> PICK t \in Session : /\ route[t] # None /\ route[t].msg = m
                         /\ pc[t] = "fanout" => u \in route[t].cand
  BY DEF Coming
<1>1. CASE t # s
  <2>1. /\ pc'[t] = pc[t] /\ route'[t] # None /\ route'[t].msg = route[t].msg
        /\ route'[t].cand = route[t].cand
    BY <1>1, OthersAlone DEF SameRoute
  <2> QED BY <2>1 DEF Coming
<1>2. CASE t = s
  <2>0. SessionShape(s) /\ pc[s] \in {"scan", "fanout"}
    BY <1>2 DEF SessionShape
  <2>1. CASE ScanIndex(s)
    <3>1. route'[s] # None /\ route'[s].msg = m /\ u \in route'[s].cand
      BY <1>2, <2>0, <2>1, ScanDoes
    <3> QED BY <3>1 DEF Coming
  <2>2. ASSUME NEW v \in Session, FanOut(s, v) PROVE m \in got'[u] \/ Coming(m, u)'
    <3>1. /\ pc[s] = "fanout" /\ route'[s] # None /\ route'[s].msg = m
          /\ route'[s].cand = route[s].cand \ {v} /\ (ses[v].subs # << >> => m \in got'[v])
      BY <1>2, <2>0, <2>2, FanOutDoes
    <3> QED BY <1>2, <3>1 DEF Coming
  <2>3. CASE QueueOffline(s)
    <3>1. pc[s] = "fanout" /\ route[s].cand = {}
      BY <2>0, <2>3, QueueDoes
    <3> QED BY <1>2, <3>1
  <2> QED BY <2>0, <2>1, <2>2, <2>3, InFanOut
<1> QED BY <1>1, <1>2

(* What is retained changes only to a message whose fan-out begins.        *)
LEMMA RetainedChanges ==
    ASSUME SessionTypeOK, NEW s \in Session, Handler(s) \/ Peer(s), retained' # retained,
           retained' # None, NEW u \in Session
    PROVE  Coming(retained, u)'
<1>1. PICK m \in Payload : DeliverPublish(s, m)
  BY DEF Handler, Peer, TakeStored, RestoreIndex, RestoreSubs, ConnackAndFlush,
         IndexSubscription, SubackAndReplay, ScanIndex, FanOut, QueueOffline, NoticeKicked,
         TeardownWill, TeardownNoWill, HandOff, RemoveSession, Accept, Connect, Subscribe,
         Disconnect, ConnectionLost, Publish, broker, Payload
<1>2. pc'[s] = "scan" /\ route'[s] # None /\ route'[s].msg = retained'
  BY <1>1, DeliverDoes
<1> QED BY <1>2 DEF Coming

(* A session that has filters and is past its CONNECT keeps some.          *)
LEMMA FiltersStay ==
    ASSUME ~LateConnect, SessionTypeOK, \A t \in Session : SessionShape(t), NEW s \in Session,
           Handler(s) \/ Peer(s), NEW u \in Session, ses[u].subs # << >>,
           pc[u] \notin {"absent", "claimed", "indexing", "restoring"}
    PROVE  /\ ses'[u].subs # << >>
           /\ pc'[u] \notin {"absent", "claimed", "indexing", "restoring"}
<1>1. CASE u # s
  BY <1>1, OthersAlone DEF SameFields
<1>2. CASE u = s
  <2>0. SessionShape(s) /\ ses[s].subs \in Seq(Filter)
    BY DEF SessionTypeOK, TypeOK, Fields
  <2>1. ASSUME NEW c \in Client, NEW cl \in CleanChoices, NEW w \in WillChoices,
               NEW x \in ExpiryChoices, Connect(s, c, cl, w, x)
        PROVE  FALSE
    BY <1>2, <2>0, <2>1, ConnectDoes
  <2>2. ASSUME NEW f \in Filter, Subscribe(s, f)
        PROVE  ses'[s].subs # << >> /\ pc'[s] = "subscribing"
    BY <2>0, <2>2, SubscribeDoes
  <2>3. CASE Disconnect(s)
    BY <1>2, <2>3, DisconnectDoes
  <2>4. CASE QueueOffline(s)
    <3>1. ses' = ses /\ pc'[s] \in {"idle", "handoff"}
      BY <2>0, <2>4, QueueDoes DEF Route
    <3> QED BY <1>2, <3>1
  <2>5. CASE \/ ConnackAndFlush(s) \/ IndexSubscription(s) \/ SubackAndReplay(s) \/ ScanIndex(s)
             \/ (\E t \in Session : FanOut(s, t)) \/ NoticeKicked(s) \/ TeardownWill(s)
             \/ TeardownNoWill(s) \/ HandOff(s) \/ RemoveSession(s) \/ ConnectionLost(s)
             \/ \E m \in Message : Publish(s, m)
    <3>1. ses' = ses
      BY <2>5 DEF ConnackAndFlush, IndexSubscription, SubackAndReplay, ScanIndex, FanOut,
             NoticeKicked, TeardownWill, TeardownNoWill, HandOff, RemoveSession, ConnectionLost,
             Publish
    <3>2. pc'[s] \notin {"absent", "claimed", "indexing", "restoring"}
      BY <1>2, <2>5 DEF ConnackAndFlush, IndexSubscription, SubackAndReplay, ScanIndex, FanOut,
             NoticeKicked, TeardownWill, TeardownNoWill, HandOff, RemoveSession, ConnectionLost,
             Publish, DeliverPublish, SessionTypeOK, Goto
    <3> QED BY <1>2, <3>1, <3>2
  <2>6. ~TakeStored(s) /\ ~RestoreIndex(s) /\ ~RestoreSubs(s) /\ ~Accept(s)
    BY <1>2 DEF TakeStored, RestoreIndex, RestoreSubs, Accept
  <2> QED BY <1>2, <2>1, <2>2, <2>3, <2>4, <2>5, <2>6 DEF Handler, Peer
<1> QED BY <1>1, <1>2

LEMMA RetainedKept ==
    ASSUME ~LateConnect, SessionTypeOK, \A t \in Session : SessionShape(t), IndexExact, RetainedComing,
           NEW s \in Session, Handler(s) \/ Peer(s)
    PROVE  RetainedComing'
<1> SUFFICES ASSUME NEW u \in Session, u \in fresh', pc'[u] # "gone"
             PROVE  /\ ses'[u].subs # << >> /\ InIndex(u)'
                    /\ pc'[u] \notin {"absent", "claimed", "indexing", "restoring"}
                    /\ retained' # None => retained' \in got'[u] \/ Coming(retained, u)'
  <2>1. fresh' \subseteq Session
    BY DEF SessionTypeOK, Handler, Peer, TakeStored, RestoreIndex, RestoreSubs, ConnackAndFlush,
           IndexSubscription, SubackAndReplay, ScanIndex, FanOut, QueueOffline, NoticeKicked,
           TeardownWill, TeardownNoWill, HandOff, RemoveSession, Accept, Connect, Subscribe,
           Disconnect, ConnectionLost, Publish, hist
  <2> QED BY <2>1 DEF RetainedComing
<1>1. CASE u \in fresh
  <2>1. pc[u] # "gone"
    <3>1. CASE u = s
      BY <3>1 DEF Handler, Peer, TakeStored, RestoreIndex, RestoreSubs, ConnackAndFlush,
           IndexSubscription, SubackAndReplay, ScanIndex, FanOut, QueueOffline, NoticeKicked,
           TeardownWill, TeardownNoWill, HandOff, RemoveSession, Accept, Connect, Subscribe,
           Disconnect, ConnectionLost, Publish, Ready
    <3>2. CASE u # s
      BY <3>2, OthersAlone
    <3> QED BY <3>1, <3>2
  <2>2. /\ ses[u].subs # << >> /\ InIndex(u)
        /\ pc[u] \notin {"absent", "claimed", "indexing", "restoring"}
        /\ retained # None => retained \in got[u] \/ Coming(retained, u)
    BY <1>1, <2>1 DEF RetainedComing
  <2>3. u # s \/ pc[s] # "remove"
    <3>1. ASSUME u = s, pc[s] = "remove" PROVE pc'[s] = "gone"
      BY <3>1 DEF Handler, Peer, TakeStored, RestoreIndex, RestoreSubs, ConnackAndFlush,
           IndexSubscription, SubackAndReplay, ScanIndex, FanOut, QueueOffline, NoticeKicked,
           TeardownWill, TeardownNoWill, HandOff, RemoveSession, Accept, Connect, Subscribe,
           Disconnect, ConnectionLost, Publish, Ready, Goto, SessionTypeOK
    <3> QED BY <3>1
  <2>4. InIndex(u)'
    BY <2>2, <2>3, IndexGrows
  <2>5. /\ ses'[u].subs # << >>
        /\ pc'[u] \notin {"absent", "claimed", "indexing", "restoring"}
    BY <2>2, FiltersStay
  <2>6. ASSUME retained' # None PROVE retained' \in got'[u] \/ Coming(retained, u)'
    <3>1. CASE retained' = retained
      <4>1. CASE retained \in got[u]
        BY <3>1, <4>1, GotGrows
      <4>2. CASE Coming(retained, u)
        <5>1. PICK m : m = retained
          OBVIOUS
        <5>2. m \in got'[u] \/ Coming(m, u)'
          BY <2>2, <4>2, <5>1, ComingKept
        <5> QED BY <3>1, <5>1, <5>2 DEF Coming
      <4> QED BY <2>2, <2>6, <3>1, <4>1, <4>2
    <3>2. CASE retained' # retained
      BY <2>6, <3>2, RetainedChanges
    <3> QED BY <3>1, <3>2
  <2> QED BY <2>4, <2>5, <2>6
<1>2. CASE u \notin fresh
  <2>1. u = s /\ SubackAndReplay(s)
    BY <1>2 DEF Handler, Peer, TakeStored, RestoreIndex, RestoreSubs, ConnackAndFlush,
           IndexSubscription, SubackAndReplay, ScanIndex, FanOut, QueueOffline, NoticeKicked,
           TeardownWill, TeardownNoWill, HandOff, RemoveSession, Accept, Connect, Subscribe,
           Disconnect, ConnectionLost, Publish, hist
  <2>2. /\ pc[s] = "suback" /\ pc'[s] = "idle" /\ ses' = ses /\ index' = index /\ retained' = retained
        /\ retained # None => retained \in got'[s]
    BY <2>1 DEF SubackAndReplay, broker, SessionTypeOK, TypeOK, Goto
  <2>3. ses[s].subs # << >> /\ ses[s].subs \in Seq(Filter)
    BY <2>2 DEF SessionShape, SessionTypeOK, TypeOK, Fields
  <2>4. ses[s].subs[1] \in Filter /\ ses[s].subs[1] \in ElementsOf(ses[s].subs)
    BY <2>3 DEF ElementsOf
  <2>5. InIndex(s)
    BY <2>2, <2>4 DEF IndexExact, IndexedUnder, InIndex
  <2> QED BY <2>1, <2>2, <2>3, <2>5 DEF InIndex
<1> QED BY <1>1, <1>2

-----------------------------------------------------------------------------
(* Promises to clients                                                     *)

(* The filters a client has offline, and those of its session.             *)
StoredFilters(c) == IF stored[c] = None THEN {} ELSE ElementsOf(stored[c].subs)

LiveFilters(s) == ElementsOf(ses[s].subs) \cup ElementsOf(local[s].subs)

LEMMA KeptFiltersAre ==
    ASSUME NEW c \in Client
    PROVE  /\ owner[c] = None => KeptFilters(c) = StoredFilters(c)
           /\ \A o \in Session : owner[c] = o /\ o # None =>
                 KeptFilters(c) = StoredFilters(c) \cup LiveFilters(o)
BY DEF KeptFilters, StoredFilters, LiveFilters

LEMMA KeptFiltersWillBe ==
    ASSUME NEW c \in Client
    PROVE  /\ owner'[c] = None => KeptFilters(c)' = StoredFilters(c)'
           /\ \A o \in Session : owner'[c] = o /\ o # None =>
                 KeptFilters(c)' = StoredFilters(c)' \cup LiveFilters(o)'
BY DEF KeptFilters, StoredFilters, LiveFilters

(* A step of a session that does not own c, and does not CONNECT as c,     *)
(* leaves alone what the broker keeps for c.                               *)
LEMMA NotMine ==
    ASSUME SessionTypeOK, \A t \in Session : SessionShape(t), OwnersLive, NEW s \in Session,
           Handler(s) \/ Peer(s), NEW c \in Client, c \notin taken, owner[c] # s,
           \A cl \in CleanChoices, w \in WillChoices, x \in ExpiryChoices : ~Connect(s, c, cl, w, x)
    PROVE  /\ owner'[c] = owner[c] /\ promised'[c] = promised[c]
           /\ stored'[c] = None <=> stored[c] = None
           /\ stored[c] # None => /\ stored'[c].subs = stored[c].subs
                                  /\ stored'[c].expires = stored[c].expires
<1>0. SessionShape(s) /\ ses[s].client_id \in Client \cup {None} /\ s # None /\ None \notin Client
  BY SessionAssumption DEF SessionTypeOK, TypeOK, Fields, Session
<1>1. CASE TakeStored(s)
  <2>1. PICK d \in Client : d = ses[s].client_id /\ pc[s] = "claimed" /\ owner' = owner
    BY <1>0, <1>1, TakeStoredDoes
  <2>2. d # c
    BY <1>0, <2>1 DEF OwnersLive
  <2>3. stored'[c] = stored[c]
    BY <1>0, <1>1, <2>1, <2>2, TakeStoredDoes
  <2> QED BY <1>1, <2>1, <2>3 DEF TakeStored, hist
<1>2. CASE HandOff(s)
  <2>1. promised' = promised
    BY <1>2, HandOffDoes
  <2>2. CASE ses[s].client_id # None /\ owner[ses[s].client_id] = s
    <3>1. PICK d \in Client : d = ses[s].client_id /\ d # c
      BY <1>0, <2>2
    <3> QED BY <1>2, <2>1, <2>2, <3>1, OwnerHandsOff
  <2>3. CASE ~(ses[s].client_id # None /\ owner[ses[s].client_id] = s)
    BY <1>2, <2>1, <2>3, HandOffDoes
  <2> QED BY <2>2, <2>3
<1>3. CASE QueueOffline(s)
  BY <1>0, <1>3, QueueDoes
<1>4. ASSUME NEW d \in Client, NEW cl \in CleanChoices, NEW w \in WillChoices,
             NEW x \in ExpiryChoices, Connect(s, d, cl, w, x)
      PROVE  owner'[c] = owner[c] /\ promised'[c] = promised[c] /\ stored' = stored
  <2>1. d # c
    BY <1>4
  <2> QED BY <1>4, <2>1 DEF Connect, SessionTypeOK, TypeOK
<1>5. CASE SubackAndReplay(s)
  BY <1>0, <1>5 DEF SubackAndReplay, broker, SessionTypeOK, TypeOK
<1>6. CASE \/ RestoreIndex(s) \/ RestoreSubs(s) \/ ConnackAndFlush(s) \/ IndexSubscription(s)
           \/ ScanIndex(s) \/ (\E t \in Session : FanOut(s, t)) \/ NoticeKicked(s) \/ TeardownWill(s)
           \/ TeardownNoWill(s) \/ RemoveSession(s) \/ Accept(s) \/ (\E f \in Filter : Subscribe(s, f))
           \/ Disconnect(s) \/ ConnectionLost(s) \/ \E m \in Message : Publish(s, m)
  <2>1. owner' = owner /\ promised' = promised /\ stored' = stored
    BY <1>6 DEF RestoreIndex, RestoreSubs, ConnackAndFlush, IndexSubscription, ScanIndex, FanOut,
           NoticeKicked, TeardownWill, TeardownNoWill, RemoveSession, Accept, Subscribe,
           Disconnect, ConnectionLost, Publish, broker, hist
  <2> QED BY <2>1
<1> QED BY <1>1, <1>2, <1>3, <1>4, <1>5, <1>6 DEF Handler, Peer

(* Only the owner's step changes what it keeps for its client: what it     *)
(* drops from one table it has put into another.                           *)
LEMMA PromisesStay ==
    ASSUME ~LateConnect, SessionTypeOK, SessionTypeOK', \A t \in Session : SessionShape(t), OwnersLive,
           PromisesKept, NEW s \in Session, Handler(s) \/ Peer(s)
    PROVE  PromisesKept'
<1> USE DEF PromiseKept
<1> SUFFICES ASSUME NEW c \in Client, c \notin taken'
             PROVE  PromiseKept(c)'
  BY DEF PromisesKept
<1>0. /\ SessionShape(s) /\ ses[s].client_id \in Client \cup {None} /\ s # None
      /\ None \notin Client /\ c # None /\ ElementsOf(<< >>) = {}
  BY SessionAssumption DEF SessionTypeOK, TypeOK, Fields, Session, ElementsOf
<1>1. c \notin taken
  BY DEF Handler, Peer, TakeStored, RestoreIndex, RestoreSubs, ConnackAndFlush,
         IndexSubscription, SubackAndReplay, ScanIndex, FanOut, QueueOffline, NoticeKicked,
         TeardownWill, TeardownNoWill, HandOff, RemoveSession, Accept, Connect, Subscribe,
         Disconnect, ConnectionLost, Publish, hist
<1>2. /\ promised[c] \subseteq KeptFilters(c)
      /\ owner[c] # None /\ (ses[owner[c]].clean \/ ses[owner[c]].expires) => promised[c] = {}
      /\ stored[c] # None /\ stored[c].expires => promised[c] = {}
  BY <1>1 DEF PromisesKept
<1>3. owner[c] \in Session \cup {None} /\ owner'[c] \in Session \cup {None}
  BY DEF SessionTypeOK, TypeOK
<1>4. ASSUME NEW cl \in CleanChoices, NEW w \in WillChoices, NEW x \in ExpiryChoices,
             Connect(s, c, cl, w, x)
      PROVE  PromiseKept(c)'
  <2>1. /\ ses[s].client_id = None /\ owner'[c] = s /\ ses'[s].clean = cl /\ ses'[s].expires = x
    BY <1>0, <1>4, ConnectDoes
  <2>2. owner[c] = None
    <3>1. owner[c] # s
      BY <1>0, <2>1 DEF OwnersLive
    <3> QED BY <1>4, <3>1 DEF Connect
  <2>3. /\ stored' = stored /\ promised'[c] \subseteq promised[c] /\ (cl \/ x => promised'[c] = {})
    BY <1>4 DEF Connect, SessionTypeOK, TypeOK
  <2>4. promised[c] \subseteq StoredFilters(c)
    BY <1>2, <2>2, KeptFiltersAre
  <2>5. StoredFilters(c)' = StoredFilters(c)
    BY <2>3 DEF StoredFilters
  <2>6. StoredFilters(c)' \subseteq KeptFilters(c)'
    BY <1>0, <2>1, KeptFiltersWillBe
  <2>7. promised'[c] \subseteq KeptFilters(c)'
    BY <2>3, <2>4, <2>5, <2>6
  <2> QED BY <1>2, <2>1, <2>3, <2>7
<1>5. ASSUME /\ owner[c] # s
             /\ \A cl \in CleanChoices, w \in WillChoices, x \in ExpiryChoices : ~Connect(s, c, cl, w, x)
      PROVE  PromiseKept(c)'
  <2>1. /\ owner'[c] = owner[c] /\ promised'[c] = promised[c]
        /\ stored'[c] = None <=> stored[c] = None
        /\ stored[c] # None => /\ stored'[c].subs = stored[c].subs
                               /\ stored'[c].expires = stored[c].expires
    BY <1>1, <1>5, NotMine
  <2>2. StoredFilters(c)' = StoredFilters(c)
    BY <2>1 DEF StoredFilters
  <2>3. CASE owner[c] = None
    BY <1>2, <2>1, <2>2, <2>3, KeptFiltersAre, KeptFiltersWillBe
  <2>4. CASE owner[c] # None
    <3> PICK o \in Session : o = owner[c] /\ o # s /\ o # None
      BY <1>3, <1>5, <2>4
    <3>1. /\ ses'[o].subs = ses[o].subs /\ local'[o] = local[o]
          /\ ses'[o].clean = ses[o].clean /\ ses'[o].expires = ses[o].expires
      BY OthersAlone DEF SameFields
    <3>2. LiveFilters(o)' = LiveFilters(o)
      BY <3>1 DEF LiveFilters
    <3>3. KeptFilters(c)' = KeptFilters(c)
      BY <2>1, <2>2, <3>2, KeptFiltersAre, KeptFiltersWillBe
    <3> QED BY <1>2, <2>1, <3>1, <3>3
  <2> QED BY <2>3, <2>4
<1>6. CASE owner[c] = s
  <2>0. /\ ses[s].client_id = c /\ ~ses[s].kicked /\ pc[s] \notin {"absent", "remove", "gone"}
        /\ stored[c] # None => pc[s] = "claimed"
    BY <1>0, <1>6 DEF OwnersLive
  <2>1. KeptFilters(c) = StoredFilters(c) \cup LiveFilters(s)
    BY <1>0, <1>6, KeptFiltersAre
  <2>2. owner'[c] = s => KeptFilters(c)' = StoredFilters(c)' \cup LiveFilters(s)'
    BY <1>0, KeptFiltersWillBe
  <2>3. ASSUME owner' = owner, stored' = stored, promised' = promised,
               LiveFilters(s) \subseteq LiveFilters(s)',
               ses'[s].clean = ses[s].clean, ses'[s].expires = ses[s].expires
        PROVE  PromiseKept(c)'
    <3>1. StoredFilters(c)' = StoredFilters(c)
      BY <2>3 DEF StoredFilters
    <3> QED BY <1>2, <1>6, <2>1, <2>2, <2>3, <3>1
  <2>4. CASE TakeStored(s)
    <3>1. /\ owner' = owner /\ ses' = ses /\ promised' = promised /\ stored'[c] = None
          /\ \/ ~(stored[c] # None /\ ~ses[s].clean /\ ~stored[c].expires)
             \/ stored[c] # None /\ stored[c].subs = << >>
             \/ stored[c] # None /\ local'[s].subs = stored[c].subs
      BY <1>0, <2>0, <2>4, TakeStoredDoes DEF hist
    <3>2. pc[s] = "claimed" /\ LiveFilters(s) = {}
      BY <1>0, <2>4 DEF TakeStored, SessionShape, LiveFilters
    <3>3. promised[c] \subseteq StoredFilters(c)
      BY <1>2, <2>1, <3>2
    <3>4. promised[c] = {} \/ promised[c] \subseteq LiveFilters(s)'
      BY <1>0, <1>2, <1>6, <3>1, <3>3 DEF StoredFilters, LiveFilters
    <3> QED BY <1>2, <1>6, <2>2, <3>1, <3>4
  <2>5. CASE RestoreSubs(s)
    <3>1. /\ pc[s] = "restoring" /\ ses'[s].subs = local[s].subs /\ ButSubs(s)
          /\ owner' = owner /\ stored' = stored /\ promised' = promised /\ local' = local
      BY <2>5, RestoreSubsDoes DEF broker, hist
    <3>2. LiveFilters(s) \subseteq LiveFilters(s)'
      BY <1>0, <3>1 DEF LiveFilters, SessionShape
    <3> QED BY <2>3, <3>1, <3>2 DEF ButSubs
  <2>6. CASE ConnackAndFlush(s)
    <3>1. /\ pc[s] = "connack" /\ local'[s].subs = << >> /\ ses' = ses
          /\ owner' = owner /\ stored' = stored /\ promised' = promised
      BY <2>6 DEF ConnackAndFlush, NoLocal, broker, hist, SessionTypeOK, TypeOK
    <3>2. LiveFilters(s) \subseteq LiveFilters(s)'
      BY <1>0, <3>1 DEF LiveFilters, SessionShape
    <3> QED BY <2>3, <3>1, <3>2
  <2>7. ASSUME NEW f \in Filter, Subscribe(s, f)
        PROVE  PromiseKept(c)'
    <3>1. /\ ses'[s].subs = Append(ses[s].subs, f) /\ ButSubs(s)
          /\ owner' = owner /\ stored' = stored /\ promised' = promised /\ local' = local
      BY <2>7, SubscribeDoes DEF broker, hist
    <3>2. ses[s].subs \in Seq(Filter)
      BY DEF SessionTypeOK, TypeOK, Fields
    <3>3. ElementsOf(ses[s].subs) \subseteq ElementsOf(ses'[s].subs)
      BY <3>1, <3>2 DEF ElementsOf
    <3>4. LiveFilters(s) \subseteq LiveFilters(s)'
      BY <3>1, <3>3 DEF LiveFilters
    <3> QED BY <2>3, <3>1, <3>4 DEF ButSubs
  <2>8. CASE SubackAndReplay(s)
    <3>1. /\ pc[s] = "suback" /\ ses' = ses /\ local' = local /\ owner' = owner /\ stored' = stored
      BY <2>8 DEF SubackAndReplay, broker
    <3>2. stored[c] = None
      BY <2>0, <3>1
    <3>3. LiveFilters(s)' = LiveFilters(s) /\ StoredFilters(c)' = StoredFilters(c)
      BY <3>1 DEF LiveFilters, StoredFilters
    <3>4. \/ promised'[c] = promised[c]
          \/ /\ ~ses[s].clean /\ ~ses[s].expires
             /\ promised'[c] = promised[c] \cup ElementsOf(ses[s].subs)
      BY <1>0, <1>6, <2>0, <2>8 DEF SubackAndReplay, SessionTypeOK, TypeOK
    <3>5. ElementsOf(ses[s].subs) \subseteq LiveFilters(s)
      BY DEF LiveFilters
    <3> QED BY <1>2, <1>6, <2>1, <2>2, <3>1, <3>2, <3>3, <3>4, <3>5
  <2>9. CASE QueueOffline(s)
    <3>1. /\ pc[s] = "fanout" /\ ses' = ses /\ local' = local /\ owner' = owner /\ promised' = promised
          /\ stored[c] = None => stored'[c] = None
      BY <1>0, <2>9, QueueDoes
    <3>2. stored[c] = None /\ stored'[c] = None
      BY <2>0, <3>1
    <3>3. LiveFilters(s)' = LiveFilters(s) /\ StoredFilters(c) = {} /\ StoredFilters(c)' = {}
      BY <3>1, <3>2 DEF LiveFilters, StoredFilters
    <3> QED BY <1>2, <1>6, <2>1, <2>2, <3>1, <3>2, <3>3
  <2>10. CASE Disconnect(s)
    <3>1. /\ ses'[s].subs = ses[s].subs /\ ses'[s].clean = ses[s].clean
          /\ ses'[s].expires = ses[s].expires
      BY <2>10, DisconnectDoes
    <3>2. owner' = owner /\ stored' = stored /\ promised' = promised /\ local' = local
      BY <2>10 DEF Disconnect, broker
    <3>3. LiveFilters(s)' = LiveFilters(s)
      BY <3>1, <3>2 DEF LiveFilters
    <3> QED BY <2>3, <3>1, <3>2, <3>3
  <2>11. CASE HandOff(s)
    <3>1. pc[s] = "handoff" /\ promised' = promised
      BY <2>11, HandOffDoes
    <3>2. stored[c] = None
      BY <2>0, <3>1
    <3>3. promised[c] \subseteq ElementsOf(ses[s].subs)
      BY <1>0, <1>2, <2>1, <3>1, <3>2 DEF StoredFilters, LiveFilters, SessionShape
    <3>4. /\ owner'[c] = None
          /\ ses[s].clean => stored' = stored
          /\ ~ses[s].clean => /\ stored'[c] # None /\ stored'[c].subs = ses[s].subs
                              /\ stored'[c].expires = ses[s].expires
      BY <1>6, <2>0, <2>11, OwnerHandsOff
    <3>5. ses[s].clean \/ ses[s].expires => promised[c] = {}
      BY <1>0, <1>2, <1>6
    <3>6. ~ses[s].clean => StoredFilters(c)' = ElementsOf(ses[s].subs)
      BY <3>4 DEF StoredFilters
    <3>7. KeptFilters(c)' = StoredFilters(c)'
      BY <3>4, KeptFiltersWillBe
    <3> QED BY <3>1, <3>2, <3>3, <3>4, <3>5, <3>6, <3>7
  <2>12. CASE \/ RestoreIndex(s) \/ IndexSubscription(s) \/ ScanIndex(s)
              \/ (\E t \in Session : FanOut(s, t)) \/ NoticeKicked(s) \/ TeardownWill(s)
              \/ TeardownNoWill(s) \/ RemoveSession(s) \/ Accept(s) \/ ConnectionLost(s)
              \/ \E m \in Message : Publish(s, m)
    <3>1. owner' = owner /\ promised' = promised /\ stored' = stored /\ ses' = ses /\ local' = local
      BY <2>12 DEF RestoreIndex, IndexSubscription, ScanIndex, FanOut, NoticeKicked, TeardownWill,
             TeardownNoWill, RemoveSession, Accept, ConnectionLost, Publish, broker, hist
    <3>2. LiveFilters(s)' = LiveFilters(s)
      BY <3>1 DEF LiveFilters
    <3> QED BY <2>3, <3>1, <3>2
  <2>13. \A d \in Client, cl \in CleanChoices, w \in WillChoices, x \in ExpiryChoices :
            ~Connect(s, d, cl, w, x)
    BY <1>0, <2>0, ConnectDoes
  <2> QED BY <2>4, <2>5, <2>6, <2>7, <2>8, <2>9, <2>10, <2>11, <2>12, <2>13 DEF Handler, Peer
<1> QED BY <1>4, <1>5, <1>6

-----------------------------------------------------------------------------
(* Fan-outs                                                                *)

(* A client still owed a message did not just CONNECT or end clean.        *)
LEMMA StillSteady ==
    ASSUME SessionTypeOK, NEW u \in Session, route'[u] # None, NEW c \in Client, c \in route'[u].steady,
           NEW cl \in BOOLEAN
    PROVE  route' # Unsteady(c, cl)
<1> SUFFICES ASSUME route' = Unsteady(c, cl) PROVE FALSE
  OBVIOUS
<1>1. route[u] # None /\ route'[u].steady = route[u].steady \ {c}
  BY UnsteadyKeeps
<1> QED BY <1>1

(* A client that is offline, and was not taken over, stays offline.        *)
LEMMA OfflineStays ==
    ASSUME SessionTypeOK, \A t \in Session : SessionShape(t), OwnersLive, NEW s \in Session,
           Handler(s) \/ Peer(s), NEW u \in Session, route'[u] # None, NEW c \in Client,
           c \in route'[u].steady, c \notin taken, Offline(c)
    PROVE  Offline(c)'
<1>1. owner[c] # s
  BY SessionAssumption DEF Offline, Session
<1>2. \A cl \in CleanChoices, w \in WillChoices, x \in ExpiryChoices : ~Connect(s, c, cl, w, x)
  BY StillSteady, SessionAssumption DEF Connect
<1>3. /\ owner'[c] = owner[c] /\ (stored'[c] = None <=> stored[c] = None)
      /\ stored[c] # None => stored'[c].subs = stored[c].subs
  BY <1>1, <1>2, NotMine
<1> QED BY <1>3 DEF Offline

(* A client that is online stays so with the same session, or goes offline.*)
LEMMA OnlineStays ==
    ASSUME ~LateConnect, SessionTypeOK, \A t \in Session : SessionShape(t), OwnersLive,
           NEW s \in Session, Handler(s) \/ Peer(s), NEW u \in Session, route'[u] # None,
           NEW c \in Client, c \in route'[u].steady, c \notin taken, Online(c)
    PROVE  Offline(c)' \/ (Online(c)' /\ owner'[c] = owner[c])
<1>1. PICK o \in Session : /\ o = owner[c] /\ o # None /\ InIndex(o) /\ ses[o].subs # << >>
                           /\ pc[o] \notin {"claimed", "indexing", "restoring"}
  BY DEF Online, SessionTypeOK, TypeOK
<1>2. ses[o].client_id = c /\ pc[o] \notin {"absent", "remove", "gone"}
  BY <1>1 DEF OwnersLive
<1>3. \A cl \in CleanChoices, w \in WillChoices, x \in ExpiryChoices : ~Connect(s, c, cl, w, x)
  BY StillSteady, SessionAssumption DEF Connect
<1>4. InIndex(o)'
  BY <1>1, <1>2, IndexGrows
<1>5. /\ ses'[o].subs # << >>
      /\ pc'[o] \notin {"absent", "claimed", "indexing", "restoring"}
  BY <1>1, <1>2, FiltersStay
<1>6. ASSUME owner'[c] = o PROVE Online(c)' /\ owner'[c] = owner[c]
  BY <1>1, <1>4, <1>5, <1>6 DEF Online
<1>7. CASE o # s
  BY <1>1, <1>3, <1>6, <1>7, NotMine
<1>8. CASE o = s
  <2>1. CASE HandOff(s)
    <3>0. c = ses[s].client_id /\ owner[c] = s
      BY <1>1, <1>2, <1>8
    <3>1. ~ses[s].clean
      BY <2>1, <3>0, OwnerHandsOff, StillSteady
    <3>2. owner'[c] = None /\ stored'[c] # None /\ stored'[c].subs = ses[s].subs
      BY <2>1, <3>0, <3>1, OwnerHandsOff
    <3> QED BY <1>1, <1>8, <3>2 DEF Offline
  <2>2. CASE ~HandOff(s)
    <3>1. \A d \in Client, cl \in CleanChoices, w \in WillChoices, x \in ExpiryChoices :
             ~Connect(s, d, cl, w, x)
      BY <1>2, <1>8, ConnectDoes, SessionAssumption
    <3>2. owner' = owner
      BY <2>2, <3>1 DEF Handler, Peer, TakeStored, RestoreIndex, RestoreSubs, ConnackAndFlush,
             IndexSubscription, SubackAndReplay, ScanIndex, FanOut, QueueOffline, NoticeKicked,
             TeardownWill, TeardownNoWill, RemoveSession, Accept, Subscribe, Disconnect,
             ConnectionLost, Publish, broker
    <3> QED BY <1>1, <1>6, <3>2
  <2> QED BY <2>1, <2>2
<1> QED BY <1>7, <1>8

(* A client with filters that is not in the middle of a CONNECT or a       *)
(* SUBSCRIBE is found in one of the two tables.                            *)
LEMMA SteadyFound ==
    ASSUME SessionTypeOK, \A t \in Session : SessionShape(t), IndexExact, OwnersLive, NEW c \in Client,
           Subscribed(c), ~Connecting(c)
    PROVE  Offline(c) \/ Online(c)
<1>0. ElementsOf(<< >>) = {}
  BY DEF ElementsOf
<1>1. CASE owner[c] = None
  <2>1. StoredFilters(c) # {}
    BY <1>1, KeptFiltersAre DEF Subscribed
  <2> QED BY <1>0, <1>1, <2>1 DEF StoredFilters, Offline
<1>2. CASE owner[c] # None
  <2>1. PICK o \in Session : o = owner[c] /\ o # None
    BY <1>2 DEF SessionTypeOK, TypeOK
  <2>2. pc[o] \notin {"claimed", "indexing", "restoring", "subscribing", "gone", "absent", "remove"}
    BY <2>1 DEF Subscribed, Connecting, InHandler, OwnersLive
  <2>3. stored[c] = None
    BY <2>1, <2>2 DEF OwnersLive
  <2>4. LiveFilters(o) # {}
    BY <2>1, <2>3, KeptFiltersAre DEF Subscribed, StoredFilters
  <2>5. local[o].subs = << >> \/ local[o].subs = ses[o].subs
    BY <2>2 DEF SessionShape
  <2>6. ses[o].subs # << >> /\ ses[o].subs \in Seq(Filter)
    BY <1>0, <2>4, <2>5 DEF LiveFilters, SessionTypeOK, TypeOK, Fields
  <2>7. ses[o].subs[1] \in Filter /\ ses[o].subs[1] \in ElementsOf(ses[o].subs)
    BY <2>6 DEF ElementsOf
  <2>8. InIndex(o)
    BY <2>2, <2>7 DEF IndexExact, IndexedUnder, InIndex
  <2> QED BY <2>1, <2>2, <2>6, <2>8 DEF Online
<1> QED BY <1>1, <1>2

LEMMA SteadyKept ==
    ASSUME ~LateConnect, SessionTypeOK, SessionTypeOK', \A t \in Session : SessionShape(t),
           \A t \in Session : SessionShape(t)', IndexExact, OwnersLive, SteadyReachable,
           NEW s \in Session, Handler(s) \/ Peer(s)
    PROVE  SteadyReachable'
<1>0. SessionShape(s) /\ SessionShape(s)'
  OBVIOUS
<1>1. taken \subseteq taken'
  BY DEF Handler, Peer, TakeStored, RestoreIndex, RestoreSubs, ConnackAndFlush,
         IndexSubscription, SubackAndReplay, ScanIndex, FanOut, QueueOffline, NoticeKicked,
         TeardownWill, TeardownNoWill, HandOff, RemoveSession, Accept, Connect, Subscribe,
         Disconnect, ConnectionLost, Publish, hist
<1>2. ASSUME NEW u \in Session, route'[u] # None, NEW c \in Client, c \in route'[u].steady,
             c \notin taken'
      PROVE  \/ Offline(c)'
             \/ Online(c)' /\ (pc'[u] = "fanout" => owner'[c] \in route'[u].cand)
             \/ pc'[u] = "fanout" /\ c \in route'[u].reached
  <2>0. c \notin taken
    BY <1>1, <1>2
  <2>1. Offline(c) => Offline(c)'
    BY <1>2, <2>0, OfflineStays
  <2>2. Online(c) => Offline(c)' \/ (Online(c)' /\ owner'[c] = owner[c])
    BY <1>2, <2>0, OnlineStays
  <2>3. ASSUME route[u] # None, c \in route[u].steady
        PROVE  \/ Offline(c)
               \/ Online(c) /\ (pc[u] = "fanout" => owner[c] \in route[u].cand)
               \/ pc[u] = "fanout" /\ c \in route[u].reached
    BY <2>0, <2>3 DEF SteadyReachable
  <2>4. CASE u # s
    <3>1. /\ pc'[u] = pc[u] /\ route[u] # None /\ route'[u].cand = route[u].cand
          /\ route'[u].reached = route[u].reached /\ c \in route[u].steady
      BY <1>2, <2>4, OthersAlone DEF SameRoute
    <3> QED BY <2>1, <2>2, <2>3, <3>1
  <2>5. CASE u = s
    <3>0. pc'[s] \in {"scan", "fanout"}
      BY <1>0, <1>2, <2>5 DEF SessionShape
    <3>1. ASSUME NEW m \in Payload, DeliverPublish(s, m)
          PROVE  pc'[s] = "scan" /\ (Offline(c) \/ Online(c))
      <4>1. pc'[s] = "scan" /\ Subscribed(c) /\ ~Connecting(c)
        BY <1>2, <2>5, <3>1, DeliverDoes
      <4> QED BY <4>1, SteadyFound
    <3>2. CASE TeardownWill(s) \/ \E m \in Message : Publish(s, m)
      <4>1. pc'[s] = "scan" /\ (Offline(c) \/ Online(c))
        BY <3>1, <3>2 DEF TeardownWill, Publish, Payload
      <4> QED BY <2>1, <2>2, <2>5, <4>1
    <3>3. CASE ScanIndex(s)
      <4>1. /\ pc[s] = "scan" /\ route[s] # None /\ c \in route[s].steady
            /\ route'[s].cand = {t \in Session : InIndex(t)}
        BY <1>0, <1>2, <2>5, <3>3, ScanDoes
      <4>2. Offline(c) \/ Online(c)
        BY <2>3, <2>5, <4>1
      <4>3. Online(c) => owner[c] \in route'[s].cand
        BY <4>1 DEF Online, SessionTypeOK, TypeOK
      <4> QED BY <2>1, <2>2, <2>5, <4>2, <4>3
    <3>4. ASSUME NEW t \in Session, FanOut(s, t)
          PROVE  \/ Offline(c)'
                 \/ Online(c)' /\ (pc'[u] = "fanout" => owner'[c] \in route'[u].cand)
                 \/ pc'[u] = "fanout" /\ c \in route'[u].reached
      <4>1. /\ pc[s] = "fanout" /\ pc' = pc /\ route[s] # None /\ c \in route[s].steady
            /\ route'[s].cand = route[s].cand \ {t} /\ route[s].reached \subseteq route'[s].reached
            /\ ses[t].subs # << >> => ses[t].client_id \in route'[s].reached
        BY <1>0, <1>2, <2>5, <3>4, FanOutDoes
      <4>2. ASSUME Online(c), owner[c] = t PROVE c \in route'[s].reached
        BY <4>1, <4>2 DEF Online, OwnersLive
      <4> QED BY <2>1, <2>2, <2>3, <2>5, <4>1, <4>2
    <3>5. ScanIndex(s) \/ (\E t \in Session : FanOut(s, t)) \/ TeardownWill(s)
             \/ \E m \in Message : Publish(s, m)
      <4>1. CASE QueueOffline(s)
        BY <1>0, <1>2, <2>5, <4>1, QueueDoes
      <4>2. CASE ~QueueOffline(s)
        BY <3>0, <4>2 DEF Handler, Peer, TakeStored, RestoreIndex, RestoreSubs, ConnackAndFlush,
             IndexSubscription, SubackAndReplay, NoticeKicked, TeardownNoWill, HandOff,
             RemoveSession, Accept, Connect, Subscribe, Disconnect, ConnectionLost, SessionTypeOK,
             Goto
      <4> QED BY <4>1, <4>2
    <3> QED BY <3>2, <3>3, <3>4, <3>5
  <2> QED BY <2>4, <2>5
<1>3. missed'.steady \subseteq taken'
  <2>1. CASE QueueOffline(s)
    <3>1. /\ pc[s] = "fanout" /\ route[s] \in Route /\ route[s].cand = {}
          /\ missed'.steady \subseteq
                missed.steady \cup {c \in route[s].steady \ route[s].reached :
                                       ~(stored[c] # None /\ stored[c].subs # << >>)}
      BY <1>0, <2>1, QueueDoes
    <3>2. route[s] # None /\ route[s].steady \subseteq Client
      BY <3>1, SessionAssumption DEF Route
    <3>3. ASSUME NEW c \in route[s].steady \ route[s].reached,
                 ~(stored[c] # None /\ stored[c].subs # << >>), c \notin taken
          PROVE  FALSE
      BY <3>1, <3>2, <3>3 DEF SteadyReachable, Offline
    <3> QED BY <1>1, <3>1, <3>3 DEF SteadyReachable
  <2>2. CASE ~QueueOffline(s)
    <3>1. missed' = missed
      BY <2>2 DEF Handler, Peer, TakeStored, RestoreIndex, RestoreSubs, ConnackAndFlush,
           IndexSubscription, SubackAndReplay, ScanIndex, FanOut, NoticeKicked,
           TeardownWill, TeardownNoWill, HandOff, RemoveSession, Accept, Connect, Subscribe,
           Disconnect, ConnectionLost, Publish, hist
    <3> QED BY <1>1, <3>1 DEF SteadyReachable
  <2> QED BY <2>1, <2>2
<1>4. \A u \in Session : route'[u] # None => route'[u].steady \subseteq Client
  BY DEF SessionTypeOK, TypeOK, Route
<1> QED BY <1>2, <1>3, <1>4 DEF SteadyReachable

-----------------------------------------------------------------------------
(* The invariant                                                           *)

LEMMA InitBroker == Init => BrokerInv
<1> SUFFICES ASSUME Init PROVE BrokerInv
  OBVIOUS
<1>0. ElementsOf(<< >>) = {} /\ None \notin Session
  BY SessionAssumption DEF ElementsOf, Session
<1>1. SessionTypeOK
  BY InitTypes
<1>2. \A s \in Session : SessionShape(s)
  BY DEF Init, SessionShape, NoLocal
<1>3. IndexExact
  BY DEF Init, IndexExact, IndexedUnder
<1>4. OwnersLive
  BY DEF Init, OwnersLive
<1>5. PromisesKept
  BY DEF Init, PromisesKept, PromiseKept
<1>6. SteadyReachable
  BY DEF Init, SteadyReachable
<1>7. RetainedComing
  BY DEF Init, RetainedComing
<1>8. WillsExact
  BY DEF Init, WillsExact
<1> QED BY <1>1, <1>2, <1>3, <1>4, <1>5, <1>6, <1>7, <1>8 DEF BrokerInv

(* Every step of a handler, or of a peer, keeps each part of it.           *)
LEMMA NextBroker == ~LateConnect => (BrokerInv /\ [Next]_vars => BrokerInv')
<1> SUFFICES ASSUME ~LateConnect, BrokerInv, [Next]_vars PROVE BrokerInv'
  OBVIOUS
<1>1. CASE UNCHANGED vars
  <2>1. SessionTypeOK'
    BY <1>1 DEF BrokerInv, SessionTypeOK, TypeOK, vars, broker, hist
  <2>2. \A s \in Session : SessionShape(s)'
    BY <1>1 DEF BrokerInv, SessionShape, vars
  <2>3. IndexExact'
    BY <1>1 DEF BrokerInv, IndexExact, IndexedUnder, vars, broker
  <2>4. OwnersLive'
    BY <1>1 DEF BrokerInv, OwnersLive, vars, broker, hist
  <2>5. PromisesKept'
    BY <1>1 DEF BrokerInv, PromisesKept, PromiseKept, KeptFilters, vars, broker, hist
  <2>6. SteadyReachable'
    BY <1>1 DEF BrokerInv, SteadyReachable, Offline, Online, InIndex, vars, broker, hist
  <2>7. RetainedComing'
    BY <1>1 DEF BrokerInv, RetainedComing, Coming, InIndex, vars, broker, hist
  <2>8. WillsExact'
    BY <1>1 DEF BrokerInv, WillsExact, vars, hist
  <2> QED BY <2>1, <2>2, <2>3, <2>4, <2>5, <2>6, <2>7, <2>8 DEF BrokerInv
<1>2. ASSUME NEW s \in Session, Handler(s) \/ Peer(s) PROVE BrokerInv'
  <2>0. /\ SessionTypeOK /\ \A t \in Session : SessionShape(t)
        /\ IndexExact /\ OwnersLive /\ PromisesKept /\ SteadyReachable /\ RetainedComing /\ WillsExact
    BY DEF BrokerInv
  <2>1. SessionTypeOK'
    BY <1>2, <2>0, TypesKept
  <2>2. \A t \in Session : SessionShape(t)'
    BY <1>2, <2>0, ShapeKept
  <2>3. IndexExact'
    BY <1>2, <2>0, IndexKept
  <2>4. OwnersLive'
    BY <1>2, <2>0, <2>1, OwnersKept
  <2>5. PromisesKept'
    BY <1>2, <2>0, <2>1, PromisesStay
  <2>6. SteadyReachable'
    BY <1>2, <2>0, <2>1, <2>2, SteadyKept
  <2>7. RetainedComing'
    BY <1>2, <2>0, RetainedKept
  <2>8. WillsExact'
    BY <1>2, <2>0, <2>1, <2>2, WillsKept
  <2> QED BY <2>1, <2>2, <2>3, <2>4, <2>5, <2>6, <2>7, <2>8 DEF BrokerInv
<1> QED BY <1>1, <1>2 DEF Next

(* With CONNECT first and once on every connection, the tables, sessions   *)
(* and fan-outs of the broker stay as BrokerInv says, whatever the         *)
(* interleaving of the handlers' critical sections.                        *)
THEOREM BrokerInvariance == ASSUME ~LateConnect PROVE Spec => []BrokerInv
<1>1. Init => BrokerInv
  BY InitBroker
<1>2. BrokerInv /\ [Next]_vars => BrokerInv'
  BY NextBroker
<1> QED BY <1>1, <1>2, PTL DEF Spec

(* Every variable keeps its type.                                          *)
THEOREM BrokerTypeCorrect == ASSUME ~LateConnect PROVE Spec => []TypeOK
<1>1. BrokerInv => TypeOK
  BY DEF BrokerInv, SessionTypeOK
<1> QED BY <1>1, BrokerInvariance, PTL

(* topic_index_ is exact between handlers, client_sessions_ holds live     *)
(* sessions only and stored_sessions_ offline clients only, however        *)
(* takeovers and teardowns interleave.                                     *)
THEOREM TablesStayConsistent == ASSUME ~LateConnect PROVE Spec => []TablesAgree
<1>1. BrokerInv => TablesAgree
  <2> SUFFICES ASSUME BrokerInv PROVE TablesAgree
    OBVIOUS
  <2>1. ASSUME NEW s \in Session, NEW f \in Filter, pc[s] \in {"absent", "idle", "gone"}
        PROVE  s \in index[f] <=> pc[s] = "idle" /\ f \in ElementsOf(ses[s].subs)
    BY <2>1 DEF BrokerInv, IndexExact, IndexedUnder
  <2>2. OwnersLive
    BY DEF BrokerInv
  <2> QED BY <2>1, <2>2 DEF TablesAgree, OwnersLive
<1> QED BY <1>1, BrokerInvariance, PTL

(* Teardown stores what a persistent session had and CONNECT restores it:  *)
(* no acknowledged filter of a client that was not taken over is lost.     *)
THEOREM SubscriptionsSurvive == ASSUME ~LateConnect PROVE Spec => []SubscriptionSurvivesReconnect
<1>1. BrokerInv => SubscriptionSurvivesReconnect
  BY DEF BrokerInv, PromisesKept, PromiseKept, SubscriptionSurvivesReconnect
<1> QED BY <1>1, BrokerInvariance, PTL

(* A fan-out of a QoS 1 message passes over no client that was subscribed  *)
(* when it began and neither reconnected nor ended a clean session since,  *)
(* because teardown stores a session before it leaves the index.           *)
THEOREM DisconnectMissesNothing == ASSUME ~LateConnect PROVE Spec => []NoneMissedOnDisconnect
<1>1. BrokerInv => NoneMissedOnDisconnect
  BY DEF BrokerInv, SteadyReachable, NoneMissedOnDisconnect
<1> QED BY <1>1, BrokerInvariance, PTL

(* A subscriber has the retained message from the replay or the fan-out.   *)
THEOREM RetainedReachesSubscribers == ASSUME ~LateConnect PROVE Spec => []RetainedSeen
<1>1. BrokerInv => RetainedSeen
  BY DEF BrokerInv, RetainedComing, Coming, RetainedSeen, SessionTypeOK
<1> QED BY <1>1, BrokerInvariance, PTL

(* A Will is published exactly for the sessions that announced one and did *)
(* not DISCONNECT.                                                         *)
THEOREM WillsFireExactly == ASSUME ~LateConnect PROVE Spec => []WillOnUngracefulEnd
<1>1. BrokerInv => WillOnUngracefulEnd
  BY DEF BrokerInv, WillsExact, WillOnUngracefulEnd
<1> QED BY <1>1, BrokerInvariance, PTL

=============================================================================
