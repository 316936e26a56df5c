----------------------------- MODULE BrokerSession -----------------------------
(***************************************************************************)
(* Sessions, subscriptions and fan-out of the native broker (include/aero/ *)
(* broker/native_broker.hpp): CONNECT with takeover and restoration,       *)
(* SUBSCRIBE, PUBLISH, the Will and the teardown of a session, at the      *)
(* granularity of the broker's locks.                                      *)
(*                                                                         *)
(* Every TLS session runs its handlers on a thread of its own; all the     *)
(* plaintext sessions share the reactor, which runs one handler at a time. *)
(* There is one topic; a filter is the exact topic or a wildcard matching  *)
(* it.  A message carries its QoS and retain flag.  What happens to a      *)
(* packet once it is handed to a session is ReactorSend's subject.         *)
(***************************************************************************)
EXTENDS Integers, Sequences, FiniteSets

CONSTANTS
    Client,           \* client identifiers
    Plain, Tls,       \* connections, by the listener that accepts them
    Message,          \* PUBLISHes, each sent at most once
    AtMostOnce,       \* the messages and Wills of QoS 0
    Retain,           \* the messages and Wills with the retain flag
    Clearing,         \* the retained ones with an empty payload
    Filter,           \* topic filters matching the topic, exact or wildcard
    Publisher,        \* the connections that publish, and stay; the others
                      \* connect, subscribe and end
    None,             \* no session, client, message or stored state
    CleanChoices,     \* the Clean Session flags clients use
    WillChoices,      \* whether clients announce a Will (subset of BOOLEAN)
    ExpiryChoices,    \* whether clients set a Session Expiry Interval
    LateConnect,      \* whether CONNECT may come again, or after SUBSCRIBE
    QueuedMessageCap, \* kQueuedMessageCap
    MaxSubs           \* bound: subscriptions made on one connection

Session == Plain \cup Tls

(* What is published: a message, or the Will of a session, named by it.    *)
Payload == Message \cup Session

Fields == [client_id : Client \cup {None}, clean : BOOLEAN, expires : BOOLEAN,
           will : BOOLEAN, kicked : BOOLEAN, subs : Seq(Filter)]

Stored == [subs : Seq(Filter), queued : Seq(Payload), expires : BOOLEAN]

(* A fan-out: what is left of its candidates, the clients it reached, and  *)
(* for the properties the clients it owes the message to.                  *)
Route == [msg : Payload, cand : SUBSET Session, reached : SUBSET (Client \cup {None}),
          due : SUBSET Client, steady : SUBSET Client, back : {"idle", "handoff"}]

ASSUME SessionAssumption ==
    /\ Plain \cap Tls = {} /\ None \notin Plain \cup Tls \cup Client \cup Message
    /\ None \notin Stored \cup Route
    /\ AtMostOnce \subseteq Payload /\ Retain \subseteq Payload /\ Clearing \subseteq Retain
    /\ CleanChoices \subseteq BOOLEAN /\ WillChoices \subseteq BOOLEAN
    /\ ExpiryChoices \subseteq BOOLEAN /\ LateConnect \in BOOLEAN
    /\ QueuedMessageCap \in Nat \ {0} /\ MaxSubs \in Nat
    /\ Publisher \subseteq Plain \cup Tls

VARIABLES
    owner,      \* client_sessions_
    stored,     \* stored_sessions_
    index,      \* exact_topic_index_ and wildcard_subscribers_, by filter
    retained,   \* retained_
    pc,         \* where each session's handler is
    ses,        \* the fields of each Session
    local,      \* a CONNECT's restored_subs and to_flush
    route,      \* the fan-out a session's handler is in, or None
    published,  \* messages already sent
    got,        \* history: messages handed to each session
    fresh,      \* history: sessions that completed a SUBSCRIBE
    promised,   \* history: filters acknowledged to a persistent client
    taken,      \* history: clients whose live session was taken over
    graceful,   \* history: sessions ended by DISCONNECT
    willed,     \* history: sessions whose Will was published
    missed      \* history: who a fan-out should have reached and did not

broker == <<owner, stored, index, retained>>
hist == <<fresh, promised, taken, graceful, willed, missed>>
vars == <<broker, pc, ses, local, route, published, got, hist>>

ElementsOf(s) == {s[i] : i \in 1..Len(s)}

NoLocal == [subs |-> << >>, flush |-> << >>]

Init ==
    /\ owner = [c \in Client |-> None]
    /\ stored = [c \in Client |-> None]
    /\ index = [f \in Filter |-> {}]
    /\ retained = None
    /\ pc = [s \in Session |-> "absent"]
    /\ ses = [s \in Session |-> [client_id |-> None, clean |-> TRUE, expires |-> FALSE,
                                 will |-> FALSE, kicked |-> FALSE, subs |-> << >>]]
    /\ local = [s \in Session |-> NoLocal]
    /\ route = [s \in Session |-> None]
    /\ published = {}
    /\ got = [s \in Session |-> {}]
    /\ fresh = {}
    /\ promised = [c \in Client |-> {}]
    /\ taken = {} /\ graceful = {} /\ willed = {}
    /\ missed = [steady |-> {}, due |-> {}]

Goto(s, l) == pc' = [pc EXCEPT ![s] = l]

(* The thread that serves s is free to begin a handler for it.             *)
ThreadFree(s) ==
    s \in Plain => \A t \in Plain \ {s} : pc[t] \in {"absent", "idle", "gone"}

(* session_loop and on_reactor_ready look at kicked before every packet.   *)
Ready(s) == pc[s] = "idle" /\ ThreadFree(s) /\ ~ses[s].kicked

(* accept_loop, accept_loop_tls.                                           *)
Accept(s) ==
    /\ pc[s] = "absent"
    /\ Goto(s, "idle")
    /\ UNCHANGED <<broker, ses, local, route, published, got, hist>>

-----------------------------------------------------------------------------
(* Whom a fan-out owes the message: the clients subscribed when it begins. *)

(* The filters the broker knows for c: stored, restored or live.           *)
KeptFilters(c) ==
    (IF stored[c] = None THEN {} ELSE ElementsOf(stored[c].subs))
    \cup UNION {ElementsOf(ses[s].subs) \cup ElementsOf(local[s].subs) : s \in {owner[c]} \ {None}}

InHandler(c, labels) == owner[c] # None /\ pc[owner[c]] \in labels

Subscribed(c) == KeptFilters(c) # {} /\ ~InHandler(c, {"subscribing", "gone"})

Connecting(c) == InHandler(c, {"claimed", "indexing", "restoring"})

(* A CONNECT of c: a fan-out under way may lose sight of c, and owes it    *)
(* nothing any more if the session starts clean.                           *)
Unsteady(c, cl) ==
    [s \in Session |->
        IF route[s] = None THEN None
        ELSE [route[s] EXCEPT !.steady = @ \ {c}, !.due = IF cl THEN @ \ {c} ELSE @]]

-----------------------------------------------------------------------------
(* handle_connect                                                          *)

(* The fields are set; under client_sessions_mu_ a live session of the     *)
(* same client is kicked and c becomes this session's.                     *)
Connect(s, c, cl, w, x) ==
    /\ Ready(s)
    /\ LateConnect \/ (ses[s].client_id = None /\ ses[s].subs = << >>)
    /\ ses' = [t \in Session |->
                 IF t = s THEN [ses[s] EXCEPT !.client_id = c, !.clean = cl, !.expires = x,
                                              !.will = @ \/ w]
                 ELSE IF t = owner[c] THEN [ses[t] EXCEPT !.kicked = TRUE]
                 ELSE ses[t]]
    /\ owner' = [owner EXCEPT ![c] = s]
    /\ taken' = IF owner[c] \in {None, s} THEN taken ELSE taken \cup {c}
    /\ promised' = IF cl \/ x THEN [promised EXCEPT ![c] = {}] ELSE promised
    /\ route' = Unsteady(c, cl)
    /\ Goto(s, "claimed")
    /\ UNCHANGED <<stored, index, retained, local, published, got, fresh, graceful, willed, missed>>

(* Under stored_sessions_mu_ the stored state is discarded, found expired  *)
(* or moved to this session.                                               *)
TakeStored(s) ==
    LET c == ses[s].client_id
    IN  /\ pc[s] = "claimed"
        /\ \/ /\ ~(stored[c] # None /\ ~ses[s].clean /\ ~stored[c].expires)
              /\ Goto(s, "connack")
              /\ UNCHANGED local
           \/ /\ ~ses[s].clean /\ stored[c] # None
              /\ local' = [local EXCEPT ![s] = [subs |-> stored[c].subs, flush |-> stored[c].queued]]
              /\ Goto(s, IF stored[c].subs = << >> THEN "connack" ELSE "indexing")
        /\ stored' = [stored EXCEPT ![c] = None]
        /\ UNCHANGED <<owner, index, retained, ses, route, published, got, hist>>

Indexed(s, fs) == [f \in Filter |-> IF f \in ElementsOf(fs) THEN index[f] \cup {s} ELSE index[f]]

(* Every restored filter is indexed (a session is a candidate from the     *)
(* first one on) ...                                                       *)
RestoreIndex(s) ==
    /\ pc[s] = "indexing"
    /\ index' = Indexed(s, local[s].subs)
    /\ Goto(s, "restoring")
    /\ UNCHANGED <<owner, stored, retained, ses, local, route, published, got, hist>>

(* Mutant: the filters are indexed but the session does not get them.      *)
RestoreSubsForgotten(s) ==
    /\ pc[s] = "restoring"
    /\ Goto(s, "connack")
    /\ UNCHANGED <<broker, ses, local, route, published, got, hist>>

(* ... and then the session gets its subs.                                 *)
RestoreSubs(s) ==
    /\ pc[s] = "restoring"
    /\ ses' = [ses EXCEPT ![s].subs = local[s].subs]
    /\ Goto(s, "connack")
    /\ UNCHANGED <<broker, local, route, published, got, hist>>

(* CONNACK, then the queued messages; a TLS write may fail and end the     *)
(* session, a plaintext one is queued.                                     *)
ConnackAndFlush(s) ==
    /\ pc[s] = "connack"
    /\ local' = [local EXCEPT ![s] = NoLocal]
    /\ \/ got' = [got EXCEPT ![s] = @ \cup ElementsOf(local[s].flush)] /\ Goto(s, "idle")
       \/ s \in Tls /\ Goto(s, "ending") /\ UNCHANGED got
    /\ UNCHANGED <<broker, ses, route, published, hist>>

-----------------------------------------------------------------------------
(* handle_subscribe                                                        *)

Subscribe(s, f) ==
    /\ Ready(s)
    /\ Len(ses[s].subs) < MaxSubs
    /\ ses' = [ses EXCEPT ![s].subs = Append(@, f)]
    /\ Goto(s, "subscribing")
    /\ UNCHANGED <<broker, local, route, published, got, hist>>

(* The filter is indexed after subs_mu is released, before the SUBACK.     *)
IndexSubscription(s) ==
    /\ pc[s] = "subscribing"
    /\ index' = Indexed(s, <<ses[s].subs[Len(ses[s].subs)]>>)
    /\ Goto(s, "suback")
    /\ UNCHANGED <<owner, stored, retained, ses, local, route, published, got, hist>>

(* Mutant: no replay.                                                      *)
SubackNoReplay(s) ==
    /\ pc[s] = "suback"
    /\ fresh' = fresh \cup {s}
    /\ Goto(s, "idle")
    /\ UNCHANGED <<broker, ses, local, route, published, got, promised, taken, graceful, willed,
                   missed>>

(* SUBACK and the replay of the retained message under retained_mu_.       *)
SubackAndReplay(s) ==
    LET c == ses[s].client_id
    IN  /\ pc[s] = "suback"
        /\ got' = [got EXCEPT ![s] = @ \cup ({retained} \ {None})]
        /\ fresh' = fresh \cup {s}
        /\ promised' = IF c # None /\ owner[c] = s /\ ~ses[s].clean /\ ~ses[s].expires
                         THEN [promised EXCEPT ![c] = @ \cup ElementsOf(ses[s].subs)] ELSE promised
        /\ Goto(s, "idle")
        /\ UNCHANGED <<broker, ses, local, route, published, taken, graceful, willed, missed>>

-----------------------------------------------------------------------------
(* deliver_publish and route_publish, for a PUBLISH or a Will              *)

(* Retention; the fan-out of m on s's thread begins.                       *)
DeliverPublish(s, m) ==
    /\ published' = published \cup {m}
    /\ retained' = IF m \notin Retain THEN retained ELSE IF m \in Clearing THEN None ELSE m
    /\ LET owed == {c \in Client : Subscribed(c)}
       IN  route' = [route EXCEPT ![s] =
             [msg |-> m, cand |-> {}, reached |-> {}, due |-> owed,
              steady |-> {c \in owed : ~Connecting(c)},
              back |-> IF pc[s] = "idle" THEN "idle" ELSE "handoff"]]
    /\ Goto(s, "scan")

(* handle_publish of QoS 0 or 1, authorised.                               *)
Publish(s, m) ==
    /\ Ready(s)
    /\ m \notin published
    /\ DeliverPublish(s, m)
    /\ UNCHANGED <<owner, stored, index, ses, local, got, hist>>

(* topic_index_candidates under topic_index_mu_.                           *)
ScanIndex(s) ==
    /\ pc[s] = "scan"
    /\ route' = [route EXCEPT ![s].cand = UNION {index[f] : f \in Filter}]
    /\ Goto(s, "fanout")
    /\ UNCHANGED <<broker, ses, local, published, got, hist>>

(* One candidate: its subs are matched under subs_mu, the message handed   *)
(* to it whatever has become of the session since.  Handed over is what    *)
(* "got" records: a TLS recipient of a publish on the reactor thread goes  *)
(* through a queue of 100 that drops its oldest, written within 5 seconds  *)
(* or not at all, and recipients beyond 256 are posted in batches; those   *)
(* limits are not in this module.                                          *)
FanOut(s, t) ==
    /\ pc[s] = "fanout"
    /\ t \in route[s].cand
    /\ IF ses[t].subs = << >>
         THEN route' = [route EXCEPT ![s].cand = @ \ {t}] /\ UNCHANGED got
         ELSE /\ route' = [route EXCEPT ![s].cand = @ \ {t},
                                        ![s].reached = @ \cup {ses[t].client_id}]
              /\ got' = [got EXCEPT ![t] = @ \cup {route[s].msg}]
    /\ UNCHANGED <<broker, pc, ses, local, published, hist>>

Pushed(q, m) == Append(IF Len(q) >= QueuedMessageCap THEN Tail(q) ELSE q, m)

(* Under stored_sessions_mu_ a QoS 1 message is queued, drop-oldest, for   *)
(* every offline client with a matching filter; the fan-out ends.          *)
QueueOffline(s) ==
    LET r == route[s]
        offline == {c \in Client : r.msg \notin AtMostOnce /\ stored[c] # None
                                     /\ stored[c].subs # << >>}
        reached == r.reached \cup offline
    IN  /\ pc[s] = "fanout" /\ r.cand = {}
        /\ stored' = [c \in Client |->
                        IF c \in offline THEN [stored[c] EXCEPT !.queued = Pushed(@, r.msg)]
                        ELSE stored[c]]
        /\ missed' = IF r.msg \in AtMostOnce THEN missed
                     ELSE [steady |-> missed.steady \cup (r.steady \ reached),
                           due |-> missed.due \cup (r.due \ reached)]
        /\ route' = [route EXCEPT ![s] = None]
        /\ Goto(s, r.back)
        /\ UNCHANGED <<owner, index, retained, ses, local, published, got,
                       fresh, promised, taken, graceful, willed>>

-----------------------------------------------------------------------------
(* The end of a session                                                    *)

(* Mutant: DISCONNECT leaves the Will in place.                            *)
DisconnectKeepsWill(s) ==
    /\ Ready(s)
    /\ graceful' = graceful \cup {s}
    /\ Goto(s, "ending")
    /\ UNCHANGED <<broker, ses, local, route, published, got, fresh, promised, taken, willed, missed>>

(* DISCONNECT: the Will is discarded.                                      *)
Disconnect(s) ==
    /\ Ready(s)
    /\ ses' = [ses EXCEPT ![s].will = FALSE]
    /\ graceful' = graceful \cup {s}
    /\ Goto(s, "ending")
    /\ UNCHANGED <<broker, local, route, published, got, fresh, promised, taken, willed, missed>>

(* Socket error, end of file, keep-alive expiry, malformed packet.         *)
ConnectionLost(s) ==
    /\ pc[s] = "idle" /\ ThreadFree(s)
    /\ Goto(s, "ending")
    /\ UNCHANGED <<broker, ses, local, route, published, got, hist>>

(* A kicked session: the TLS thread's poll finds the flag, a plaintext     *)
(* session's teardown was posted by the session that took over.            *)
NoticeKicked(s) ==
    /\ pc[s] = "idle" /\ ThreadFree(s)
    /\ ses[s].kicked
    /\ Goto(s, "ending")
    /\ UNCHANGED <<broker, ses, local, route, published, got, hist>>

(* teardown_session: the Will first, if there is one ...                   *)
TeardownWill(s) ==
    /\ pc[s] = "ending" /\ ses[s].will
    /\ DeliverPublish(s, s)
    /\ willed' = willed \cup {s}
    /\ UNCHANGED <<owner, stored, index, ses, local, got, fresh, promised, taken, graceful, missed>>

(* Mutant: the session leaves the index before it is handed off.           *)
TeardownRemovesFirst(s) ==
    /\ pc[s] = "ending" /\ ~ses[s].will
    /\ index' = [f \in Filter |-> index[f] \ {s}]
    /\ Goto(s, "handoff")
    /\ UNCHANGED <<owner, stored, retained, ses, local, route, published, got, hist>>

TeardownNoWill(s) ==
    /\ pc[s] = "ending" /\ ~ses[s].will
    /\ Goto(s, "handoff")
    /\ UNCHANGED <<broker, ses, local, route, published, got, hist>>

(* Mutant: the teardown does not look whether it still owns the client,    *)
(* when it erases the owner ...                                            *)
HandOffErasesAny(s) ==
    LET c == ses[s].client_id
    IN  /\ pc[s] = "handoff"
        /\ owner' = IF c # None THEN [owner EXCEPT ![c] = None] ELSE owner
        /\ Goto(s, "remove")
        /\ UNCHANGED <<stored, index, retained, ses, local, route, published, got, hist>>

(* ... or when it stores the session.                                      *)
HandOffStoresAny(s) ==
    LET c == ses[s].client_id
        still_owner == c # None /\ owner[c] = s
    IN  /\ pc[s] = "handoff"
        /\ owner' = IF still_owner THEN [owner EXCEPT ![c] = None] ELSE owner
        /\ stored' = IF c # None /\ ~ses[s].clean
                       THEN [stored EXCEPT ![c] = [subs |-> ses[s].subs, queued |-> << >>,
                                                   expires |-> ses[s].expires]]
                       ELSE stored
        /\ Goto(s, "remove")
        /\ UNCHANGED <<index, retained, ses, local, route, published, got, hist>>

(* ... then, under client_sessions_mu_, the hand-off of a persistent       *)
(* session that still owns its client ...                                  *)
HandOff(s) ==
    LET c == ses[s].client_id
        still_owner == c # None /\ owner[c] = s
    IN  /\ pc[s] = "handoff"
        /\ owner' = IF still_owner THEN [owner EXCEPT ![c] = None] ELSE owner
        /\ stored' = IF still_owner /\ ~ses[s].clean
                       THEN [stored EXCEPT ![c] = [subs |-> ses[s].subs, queued |-> << >>,
                                                   expires |-> ses[s].expires]]
                       ELSE stored
        /\ route' = IF still_owner /\ ses[s].clean THEN Unsteady(c, TRUE) ELSE route
        /\ Goto(s, "remove")
        /\ UNCHANGED <<index, retained, ses, local, published, got, hist>>

(* ... and remove_session takes it out of the index.                       *)
RemoveSession(s) ==
    /\ pc[s] = "remove"
    /\ index' = [f \in Filter |-> IF f \in ElementsOf(ses[s].subs) THEN index[f] \ {s} ELSE index[f]]
    /\ Goto(s, "gone")
    /\ UNCHANGED <<owner, stored, retained, ses, local, route, published, got, hist>>

-----------------------------------------------------------------------------

(* What a thread does once it has begun a handler for s, and its notice of *)
(* a takeover.                                                             *)
Handler(s) ==
    \/ TakeStored(s)
    \/ RestoreIndex(s)
    \/ RestoreSubs(s)
    \/ ConnackAndFlush(s)
    \/ IndexSubscription(s)
    \/ SubackAndReplay(s)
    \/ ScanIndex(s)
    \/ \E t \in Session : FanOut(s, t)
    \/ QueueOffline(s)
    \/ NoticeKicked(s)
    \/ TeardownWill(s)
    \/ TeardownNoWill(s)
    \/ HandOff(s)
    \/ RemoveSession(s)

Peer(s) ==
    \/ Accept(s)
    \/ /\ s \notin Publisher
       /\ \/ \E c \in Client, cl \in CleanChoices, w \in WillChoices, x \in ExpiryChoices :
                 Connect(s, c, cl, w, x)
          \/ \E f \in Filter : Subscribe(s, f)
          \/ Disconnect(s)
          \/ ConnectionLost(s)
    \/ s \in Publisher /\ \E m \in Message : Publish(s, m)

Next == \E s \in Session : Handler(s) \/ Peer(s)

Spec == Init /\ [][Next]_vars

-----------------------------------------------------------------------------
(* Properties                                                              *)

(* Every variable has its type.                                            *)
TypeOK ==
    /\ owner \in [Client -> Session \cup {None}]
    /\ stored \in [Client -> Stored \cup {None}]
    /\ index \in [Filter -> SUBSET Session]
    /\ retained \in Payload \cup {None}
    /\ ses \in [Session -> Fields]
    /\ local \in [Session -> [subs : Seq(Filter), flush : Seq(Payload)]]
    /\ route \in [Session -> Route \cup {None}]
    /\ published \subseteq Payload
    /\ got \in [Session -> SUBSET Payload]

(* The broker's tables agree, however takeovers and teardowns interleave.  *)
(* Between handlers a session is in topic_index_ under exactly the filters *)
(* it has, so no fan-out overlooks it, and a session that is gone is in no *)
(* list.  client_sessions_ "only ever holds LIVE sessions": the newest     *)
(* connection owns the client until its own teardown.  stored_sessions_    *)
(* "only ever holds OFFLINE clients": a client with stored state has no    *)
(* session but one that is just about to take it.                          *)
TablesAgree ==
    /\ \A s \in Session, f \in Filter :
          pc[s] \in {"absent", "idle", "gone"} =>
              (s \in index[f] <=> pc[s] = "idle" /\ f \in ElementsOf(ses[s].subs))
    /\ \A c \in Client : owner[c] # None => pc[owner[c]] \notin {"remove", "gone"}
    /\ \A s \in Session :
          (ses[s].client_id # None /\ pc[s] \notin {"remove", "gone"} /\ ~ses[s].kicked)
              => owner[ses[s].client_id] = s
    /\ \A c \in Client :
          stored[c] # None /\ owner[c] # None => pc[owner[c]] = "claimed"

(* A client with a persistent session keeps every filter it got a SUBACK   *)
(* for: when its next CONNECT with Clean Session 0 is answered, the new    *)
(* session has it, whether the old connection had ended or was still open. *)
SubscriptionSurvives ==
    \A c \in Client : InHandler(c, {"idle"}) => promised[c] \subseteq KeptFilters(c)

(* The same, for clients that were never taken over: teardown stores what  *)
(* the session had, CONNECT restores it.                                   *)
SubscriptionSurvivesReconnect ==
    \A c \in Client \ taken : promised[c] \subseteq KeptFilters(c)

(* A QoS 1 message reaches every client that is subscribed throughout its  *)
(* fan-out, even one that goes offline meanwhile: teardown stores the      *)
(* session before it leaves the index, and the fan-out looks at the index  *)
(* before the stored sessions.                                             *)
NoneMissedOnDisconnect == missed.steady \ taken = {}

(* "A publisher holding a PUBACK can assume subscribers will see it": also *)
(* a persistent client that reconnects meanwhile.                          *)
NoneMissedOnReconnect == missed.due \ taken = {}

(* A session that subscribed has seen the retained message, from the       *)
(* replay or from the fan-out, whichever way the two threads interleave.   *)
RetainedSeen ==
    \A s \in fresh :
        (pc[s] = "idle" /\ retained # None /\ \A t \in Session : route[t] = None \/ route[t].msg # retained)
            => retained \in got[s]

(* N9: a Will is published for every session that announced one and ended  *)
(* without a DISCONNECT, and for no other.                                 *)
WillOnUngracefulEnd ==
    \A s \in Session : pc[s] = "gone" =>
        (s \in willed <=> ses[s].will) /\ (s \in graceful => s \notin willed)

=============================================================================
