------------------------ MODULE BrokerLifecycle_proofs ------------------------
(***************************************************************************)
(* No descriptor of the broker is closed twice or forgotten by stop(), for *)
(* every number of connections and workers and every moment at which       *)
(* stop() is called.                                                       *)
(***************************************************************************)
EXTENDS BrokerLifecycle, TLAPS

(* stop() has emptied the session list.                                    *)
Cleared == stopper \in {"teardown", "done"}

(* The threads stop() has joined are gone for good.                        *)
JoinedStayGone ==
    /\ stopper # "not_called" => ~running
    /\ stopper \notin {"not_called", "join_accept"} =>
          reactor_stop /\ \A l \in Listener : accepting[l] = "exited"
    /\ stopper \notin {"not_called", "join_accept", "join_reactor"} => reactor = "stopped"
    /\ Cleared => sessions = {}
    /\ stopper = "done" => to_tear = {}

(* A connection in the hands of an accept thread is known nowhere else.    *)
AcceptedFresh ==
    \A l \in Listener : accepting[l] \in Session =>
        /\ accepting[l] \in Connections(l)
        /\ accepting[l] \notin sessions /\ closes[accepting[l]] = 0
        /\ l = "tls" => thread[accepting[l]] = "none"

(* A plaintext session on the list is in the reactor's inbox, registered   *)
(* with it or being torn down by it, in one of the three only; once stop() *)
(* has cleared the list, whoever is still registered waits for stop().     *)
PlainPlaced ==
    /\ inbox \cap registered = {} /\ reactor \notin inbox \cup registered
    /\ ~Cleared =>
          /\ to_tear = {}
          /\ \A s \in Plain : s \in sessions <=> s \in inbox \cup registered \/ reactor = s
          /\ \A s \in Plain \cap sessions : closes[s] = 0
    /\ Cleared =>
          /\ to_tear \subseteq inbox \cup registered
          /\ \A s \in inbox \cup registered : closes[s] = IF s \in to_tear THEN 0 ELSE 1

(* A TLS session is on the list while its thread runs, and was closed once *)
(* when the thread is gone; one without a thread may have been closed by   *)
(* the accept thread after a failed handshake.                             *)
TlsPlaced ==
    \A s \in Tls :
        /\ s \in sessions <=> thread[s] \in {"serve", "teardown"}
        /\ thread[s] = "exited" => closes[s] = 1
        /\ thread[s] \in {"serve", "teardown"} => closes[s] = 0

(* The inductive invariant.                                                *)
LifecycleInv ==
    /\ TypeOK
    /\ \A s \in Session : closes[s] <= 1
    /\ JoinedStayGone /\ AcceptedFresh /\ PlainPlaced /\ TlsPlaced

(* Nothing is accepted yet and stop() not called.                          *)
LEMMA InitLifecycleInv == Init => LifecycleInv
<1> SUFFICES ASSUME Init PROVE LifecycleInv
  OBVIOUS
<1>1. TypeOK
  <2>1. /\ accepting \in [Listener -> {"test", "wait", "exited"} \cup Session]
        /\ thread \in [Tls -> {"none", "serve", "teardown", "exited"}]
        /\ worker \in [Worker -> {"wait", "send", "exited"}]
        /\ closes \in [Session -> 0..2]
    BY DEF Init
  <2>2. handoff \in 0..HandoffCap
    BY LifecycleAssumption DEF Init
  <2> QED BY <2>1, <2>2 DEF Init, TypeOK
<1>2. JoinedStayGone /\ AcceptedFresh
  BY LifecycleAssumption DEF Init, JoinedStayGone, AcceptedFresh, Cleared, Session
<1>3. PlainPlaced
  BY LifecycleAssumption DEF Init, PlainPlaced, Cleared, Session
<1>4. TlsPlaced /\ \A s \in Session : closes[s] <= 1
  BY DEF Init, TlsPlaced, Session
<1> QED BY <1>1, <1>2, <1>3, <1>4 DEF LifecycleInv

(* Every step of every thread keeps it: a session changes hands only under *)
(* sessions_mu_ or on the thread that owns it.                             *)
LEMMA NextPreservesLifecycleInv ==
    ASSUME LifecycleInv, [Next]_vars
    PROVE  LifecycleInv'
<1> USE LifecycleAssumption
    DEF LifecycleInv, TypeOK, JoinedStayGone, AcceptedFresh, PlainPlaced, TlsPlaced, Cleared,
        Session, Listener, Connections
<1>1. ASSUME NEW l \in Listener, NEW s \in Session, AcceptOne(l, s) PROVE LifecycleInv'
  BY <1>1 DEF AcceptOne, Unseen
<1>2. ASSUME NEW l \in Listener, AwaitConnection(l) \/ NoConnection(l) PROVE LifecycleInv'
  BY <1>2 DEF AwaitConnection, NoConnection
<1>3. ASSUME NEW s \in Tls, HandshakeFails(s) PROVE LifecycleInv'
  BY <1>3 DEF HandshakeFails
<1>4. ASSUME NEW l \in Listener, HandOver(l) PROVE LifecycleInv'
  BY <1>4 DEF HandOver
<1>5. ASSUME NEW l \in Listener, AcceptExit(l) PROVE LifecycleInv'
  BY <1>5 DEF AcceptExit
<1>6. ASSUME NEW s \in Plain, RunRegistration(s) PROVE LifecycleInv'
  BY <1>6 DEF RunRegistration
<1>7. CASE EnqueueHandoff
  BY <1>7 DEF EnqueueHandoff
<1>8. ASSUME NEW s \in Plain, ReactorTeardown(s) PROVE LifecycleInv'
  BY <1>8 DEF ReactorTeardown
<1>9. CASE ReactorRemove
  BY <1>9 DEF ReactorRemove
<1>10. CASE ReactorExit
  BY <1>10 DEF ReactorExit
<1>11. ASSUME NEW s \in Tls, NoticeStop(s) PROVE LifecycleInv'
  BY <1>11 DEF NoticeStop
<1>12. ASSUME NEW s \in Tls, SessionEnds(s) PROVE LifecycleInv'
  BY <1>12 DEF SessionEnds
<1>13. ASSUME NEW s \in Tls, ThreadTeardown(s) PROVE LifecycleInv'
  BY <1>13 DEF ThreadTeardown
<1>14. ASSUME NEW w \in Worker, WorkerTake(w) PROVE LifecycleInv'
  BY <1>14 DEF WorkerTake
<1>15. ASSUME NEW w \in Worker, WorkerSent(w) PROVE LifecycleInv'
  BY <1>15 DEF WorkerSent
<1>16. ASSUME NEW w \in Worker, WorkerExit(w) PROVE LifecycleInv'
  BY <1>16 DEF WorkerExit
<1>17. CASE StopFlag
  BY <1>17 DEF StopFlag
<1>18. CASE StopAccept
  BY <1>18 DEF StopAccept
<1>19. CASE StopReactor
  BY <1>19 DEF StopReactor
<1>20. CASE StopWorkers
  BY <1>20 DEF StopWorkers
<1>21. CASE StopSessions
  BY <1>21 DEF StopSessions
<1>22. ASSUME NEW s \in Plain, StopTeardown(s) PROVE LifecycleInv'
  BY <1>22 DEF StopTeardown
<1>23. CASE StopDone
  BY <1>23 DEF StopDone
<1>24. CASE UNCHANGED vars
  BY <1>24 DEF vars
<1> QED BY <1>1, <1>2, <1>3, <1>4, <1>5, <1>6, <1>7, <1>8, <1>9, <1>10, <1>11, <1>12, <1>13,
           <1>14, <1>15, <1>16, <1>17, <1>18, <1>19, <1>20, <1>21, <1>22, <1>23, <1>24
           DEF Next, Stop, AcceptLoop, SessionLoop, WorkerLoop

(* The broker keeps the invariant from its start to the end of stop().     *)
THEOREM LifecycleInvariance == Spec => []LifecycleInv
<1>1. LifecycleInv /\ [Next]_vars => LifecycleInv'
  BY NextPreservesLifecycleInv
<1> QED BY InitLifecycleInv, <1>1, PTL DEF Spec

(* Every variable of the broker's lifecycle keeps its type: the hand-off   *)
(* queue never exceeds kLegacyHandoffQueueCap.                             *)
THEOREM LifecycleTypeCorrect == Spec => []TypeOK
BY LifecycleInvariance, PTL DEF LifecycleInv

(* Whichever of the connection, the reactor and stop() ends a session, its *)
(* descriptor is closed once; stop() returns with every accepted one       *)
(* closed and no thread left.                                              *)
THEOREM EveryDescriptorClosedOnce == Spec => []ClosedExactlyOnce
<1>1. LifecycleInv => ClosedExactlyOnce
  <2> SUFFICES ASSUME LifecycleInv, stopper = "done"
               PROVE  /\ sessions = {} /\ reactor = "stopped"
                      /\ \A l \in Listener : accepting[l] = "exited"
                      /\ \A s \in Tls : thread[s] \in {"none", "exited"}
                      /\ \A s \in inbox \cup registered : closes[s] = 1
                      /\ \A s \in Tls : thread[s] = "exited" => closes[s] = 1
    BY DEF ClosedExactlyOnce, LifecycleInv
  <2>1. /\ sessions = {} /\ reactor = "stopped" /\ to_tear = {}
        /\ \A l \in Listener : accepting[l] = "exited"
    BY DEF LifecycleInv, JoinedStayGone, Cleared
  <2>2. \A s \in Tls : /\ thread[s] \in {"none", "exited"}
                       /\ thread[s] = "exited" => closes[s] = 1
    BY <2>1 DEF LifecycleInv, TlsPlaced, TypeOK
  <2>3. \A s \in inbox \cup registered : closes[s] = 1
    BY <2>1 DEF LifecycleInv, PlainPlaced, Cleared
  <2> QED BY <2>1, <2>2, <2>3
<1> QED BY <1>1, LifecycleInvariance, PTL

=============================================================================
