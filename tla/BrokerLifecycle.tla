---------------------------- MODULE BrokerLifecycle ----------------------------
(***************************************************************************)
(* Connections coming and going while the native broker is stopped         *)
(* (include/aero/broker/native_broker.hpp): two accept threads, the        *)
(* reactor that serves every plaintext session, one thread per TLS         *)
(* session, the hand-off workers, and the thread that calls stop().        *)
(*                                                                         *)
(* What a session does while it is served is left out; what is kept is     *)
(* who holds sessions_mu_, who waits for whom, and which thread ends a     *)
(* session and closes its descriptor.                                      *)
(***************************************************************************)
EXTENDS Integers, FiniteSets

CONSTANTS
    Plain,       \* plaintext connections that may be made
    Tls,         \* TLS connections that may be made
    Worker,      \* the hand-off workers
    HandoffCap   \* kLegacyHandoffQueueCap

ASSUME LifecycleAssumption ==
    /\ Plain \cap Tls = {}
    /\ (Plain \cup Tls) \cap {"test", "wait", "exited", "run", "stopped"} = {}
    /\ HandoffCap \in Nat \ {0}

Session == Plain \cup Tls

Listener == {"plain", "tls"}

Connections(l) == IF l = "plain" THEN Plain ELSE Tls

VARIABLES
    running,     \* running_
    sessions,    \* sessions_
    mu,          \* sessions_mu_: "free", or "stop" while stop() holds it
    accepting,   \* per listener: "test" of running_, "wait" for a connection,
                 \* the connection in hand, or "exited"
    inbox,       \* registrations posted to the reactor and not yet run
    registered,  \* plaintext sessions the reactor serves
    reactor,     \* "run", "stopped", or the session it is tearing down
    reactor_stop,\* reactor_io_.stop() was called
    thread,      \* per TLS session: its thread's state
    handoff,     \* length of handoff_queue_
    handoff_stop,
    worker,      \* per hand-off worker: "wait", "send" or "exited"
    stopper,     \* where the thread in stop() is
    to_tear,     \* reactor_sessions_to_teardown
    closes       \* history: how often each session's fd was closed

vars == <<running, sessions, mu, accepting, inbox, registered, reactor, reactor_stop,
          thread, handoff, handoff_stop, worker, stopper, to_tear, closes>>

Init ==
    /\ running = TRUE
    /\ sessions = {}
    /\ mu = "free"
    /\ accepting = [l \in Listener |-> "test"]
    /\ inbox = {} /\ registered = {}
    /\ reactor = "run" /\ reactor_stop = FALSE
    /\ thread = [s \in Tls |-> "none"]
    /\ handoff = 0 /\ handoff_stop = FALSE
    /\ worker = [w \in Worker |-> "wait"]
    /\ stopper = "not_called"
    /\ to_tear = {}
    /\ closes = [s \in Session |-> 0]

Unseen(s) ==
    /\ closes[s] = 0
    /\ s \notin sessions
    /\ \A l \in Listener : accepting[l] # s
    /\ s \in Tls => thread[s] = "none"

-----------------------------------------------------------------------------
(* accept_loop and accept_loop_tls                                         *)

(* running_ is tested, then the loop waits up to 200 ms for a connection   *)
(* and takes one without testing again.                                    *)
AwaitConnection(l) ==
    /\ accepting[l] = "test" /\ running
    /\ accepting' = [accepting EXCEPT ![l] = "wait"]
    /\ UNCHANGED <<running, sessions, mu, inbox, registered, reactor, reactor_stop, thread,
                   handoff, handoff_stop, worker, stopper, to_tear, closes>>

(* The wait times out, or the accept fails.                                *)
NoConnection(l) ==
    /\ accepting[l] = "wait"
    /\ accepting' = [accepting EXCEPT ![l] = "test"]
    /\ UNCHANGED <<running, sessions, mu, inbox, registered, reactor, reactor_stop, thread,
                   handoff, handoff_stop, worker, stopper, to_tear, closes>>

AcceptOne(l, s) ==
    /\ accepting[l] = "wait"
    /\ s \in Connections(l) /\ Unseen(s)
    /\ accepting' = [accepting EXCEPT ![l] = s]
    /\ UNCHANGED <<running, sessions, mu, inbox, registered, reactor, reactor_stop, thread,
                   handoff, handoff_stop, worker, stopper, to_tear, closes>>

(* The TLS handshake fails or times out: the descriptor is closed here.    *)
HandshakeFails(s) ==
    /\ s \in Tls /\ accepting["tls"] = s
    /\ closes' = [closes EXCEPT ![s] = @ + 1]
    /\ accepting' = [accepting EXCEPT !["tls"] = "test"]
    /\ UNCHANGED <<running, sessions, mu, inbox, registered, reactor, reactor_stop, thread,
                   handoff, handoff_stop, worker, stopper, to_tear>>

(* Under sessions_mu_ the session is listed; a plaintext one is posted to  *)
(* the reactor, a TLS one gets a thread.                                   *)
HandOver(l) ==
    /\ accepting[l] \in Session
    /\ mu = "free"
    /\ sessions' = sessions \cup {accepting[l]}
    /\ accepting' = [accepting EXCEPT ![l] = "test"]
    /\ \/ l = "plain" /\ inbox' = inbox \cup {accepting[l]} /\ UNCHANGED thread
       \/ l = "tls" /\ thread' = [thread EXCEPT ![accepting[l]] = "serve"] /\ UNCHANGED inbox
    /\ UNCHANGED <<running, mu, registered, reactor, reactor_stop,
                   handoff, handoff_stop, worker, stopper, to_tear, closes>>

AcceptExit(l) ==
    /\ accepting[l] = "test" /\ ~running
    /\ accepting' = [accepting EXCEPT ![l] = "exited"]
    /\ UNCHANGED <<running, sessions, mu, inbox, registered, reactor, reactor_stop, thread,
                   handoff, handoff_stop, worker, stopper, to_tear, closes>>

-----------------------------------------------------------------------------
(* The reactor                                                             *)

RunRegistration(s) ==
    /\ reactor = "run" /\ ~reactor_stop
    /\ s \in inbox
    /\ inbox' = inbox \ {s}
    /\ registered' = registered \cup {s}
    /\ UNCHANGED <<running, sessions, mu, accepting, reactor, reactor_stop, thread,
                   handoff, handoff_stop, worker, stopper, to_tear, closes>>

(* A publish for a TLS recipient goes to the hand-off queue, drop-oldest.  *)
EnqueueHandoff ==
    /\ reactor = "run" /\ ~reactor_stop
    /\ registered # {} /\ \E s \in Tls : thread[s] = "serve"
    /\ handoff' = IF handoff >= HandoffCap THEN handoff ELSE handoff + 1
    /\ UNCHANGED <<running, sessions, mu, accepting, inbox, registered, reactor, reactor_stop,
                   thread, handoff_stop, worker, stopper, to_tear, closes>>

(* A served session ends: del_fd, then teardown_session on this thread.    *)
ReactorTeardown(s) ==
    /\ reactor = "run" /\ ~reactor_stop
    /\ s \in registered
    /\ registered' = registered \ {s}
    /\ reactor' = s
    /\ UNCHANGED <<running, sessions, mu, accepting, inbox, reactor_stop, thread,
                   handoff, handoff_stop, worker, stopper, to_tear, closes>>

(* remove_session needs sessions_mu_; then the fd is closed.               *)
ReactorRemove ==
    /\ reactor \in Session
    /\ mu = "free"
    /\ sessions' = sessions \ {reactor}
    /\ closes' = [closes EXCEPT ![reactor] = @ + 1]
    /\ reactor' = "run"
    /\ UNCHANGED <<running, mu, accepting, inbox, registered, reactor_stop, thread,
                   handoff, handoff_stop, worker, stopper, to_tear>>

ReactorExit ==
    /\ reactor = "run" /\ reactor_stop
    /\ reactor' = "stopped"
    /\ UNCHANGED <<running, sessions, mu, accepting, inbox, registered, reactor_stop, thread,
                   handoff, handoff_stop, worker, stopper, to_tear, closes>>

-----------------------------------------------------------------------------
(* session_loop, one thread per TLS session                                *)

(* The loop is left because running_ is off ...                            *)
NoticeStop(s) ==
    /\ thread[s] = "serve" /\ ~running
    /\ thread' = [thread EXCEPT ![s] = "teardown"]
    /\ UNCHANGED <<running, sessions, mu, accepting, inbox, registered, reactor, reactor_stop,
                   handoff, handoff_stop, worker, stopper, to_tear, closes>>

(* ... or because the connection ended, was taken over or broke a rule.    *)
SessionEnds(s) ==
    /\ thread[s] = "serve"
    /\ thread' = [thread EXCEPT ![s] = "teardown"]
    /\ UNCHANGED <<running, sessions, mu, accepting, inbox, registered, reactor, reactor_stop,
                   handoff, handoff_stop, worker, stopper, to_tear, closes>>

(* teardown_session: remove_session takes sessions_mu_, then close_fd.     *)
ThreadTeardown(s) ==
    /\ thread[s] = "teardown"
    /\ mu = "free"
    /\ sessions' = sessions \ {s}
    /\ closes' = [closes EXCEPT ![s] = @ + 1]
    /\ thread' = [thread EXCEPT ![s] = "exited"]
    /\ UNCHANGED <<running, mu, accepting, inbox, registered, reactor, reactor_stop,
                   handoff, handoff_stop, worker, stopper, to_tear>>

-----------------------------------------------------------------------------
(* handoff_worker_loop                                                     *)

WorkerTake(w) ==
    /\ worker[w] = "wait" /\ handoff > 0
    /\ handoff' = handoff - 1
    /\ worker' = [worker EXCEPT ![w] = "send"]
    /\ UNCHANGED <<running, sessions, mu, accepting, inbox, registered, reactor, reactor_stop,
                   thread, handoff_stop, stopper, to_tear, closes>>

(* The send succeeds, fails or runs into its deadline.                     *)
WorkerSent(w) ==
    /\ worker[w] = "send"
    /\ worker' = [worker EXCEPT ![w] = "wait"]
    /\ UNCHANGED <<running, sessions, mu, accepting, inbox, registered, reactor, reactor_stop,
                   thread, handoff, handoff_stop, stopper, to_tear, closes>>

WorkerExit(w) ==
    /\ worker[w] = "wait" /\ handoff_stop /\ handoff = 0
    /\ worker' = [worker EXCEPT ![w] = "exited"]
    /\ UNCHANGED <<running, sessions, mu, accepting, inbox, registered, reactor, reactor_stop,
                   thread, handoff, handoff_stop, stopper, to_tear, closes>>

-----------------------------------------------------------------------------
(* stop()                                                                  *)

StopFlag ==
    /\ stopper = "not_called"
    /\ running' = FALSE
    /\ stopper' = "join_accept"
    /\ UNCHANGED <<sessions, mu, accepting, inbox, registered, reactor, reactor_stop, thread,
                   handoff, handoff_stop, worker, to_tear, closes>>

(* Both accept threads are joined, then the reactor is told to stop.       *)
StopAccept ==
    /\ stopper = "join_accept"
    /\ \A l \in Listener : accepting[l] = "exited"
    /\ reactor_stop' = TRUE
    /\ stopper' = "join_reactor"
    /\ UNCHANGED <<running, sessions, mu, accepting, inbox, registered, reactor, thread,
                   handoff, handoff_stop, worker, to_tear, closes>>


StopReactor ==
    /\ stopper = "join_reactor"
    /\ reactor = "stopped"
    /\ handoff_stop' = TRUE
    /\ stopper' = "join_workers"
    /\ UNCHANGED <<running, sessions, mu, accepting, inbox, registered, reactor, reactor_stop,
                   thread, handoff, worker, to_tear, closes>>

(* The workers are joined, then sessions_mu_ is taken ...                  *)
StopWorkers ==
    /\ stopper = "join_workers"
    /\ \A w \in Worker : worker[w] = "exited"
    /\ mu = "free"
    /\ mu' = "stop"
    /\ stopper' = "join_sessions"
    /\ UNCHANGED <<running, sessions, accepting, inbox, registered, reactor, reactor_stop,
                   thread, handoff, handoff_stop, worker, to_tear, closes>>

(* Mutant: only sessions the reactor registered are collected.             *)
StopSessionsRegistered ==
    /\ stopper = "join_sessions"
    /\ \A s \in Tls : thread[s] \in {"none", "exited"}
    /\ to_tear' = sessions \cap registered
    /\ sessions' = {}
    /\ mu' = "free"
    /\ stopper' = "teardown"
    /\ UNCHANGED <<running, accepting, inbox, registered, reactor, reactor_stop, thread,
                   handoff, handoff_stop, worker, closes>>

(* ... and held while every session thread is joined; the reactor's        *)
(* sessions are collected and the list cleared before it is released.      *)
StopSessions ==
    /\ stopper = "join_sessions"
    /\ \A s \in Tls : thread[s] \in {"none", "exited"}
    /\ to_tear' = sessions \cap Plain
    /\ sessions' = {}
    /\ mu' = "free"
    /\ stopper' = "teardown"
    /\ UNCHANGED <<running, accepting, inbox, registered, reactor, reactor_stop, thread,
                   handoff, handoff_stop, worker, closes>>

StopTeardown(s) ==
    /\ stopper = "teardown" /\ s \in to_tear
    /\ to_tear' = to_tear \ {s}
    /\ closes' = [closes EXCEPT ![s] = @ + 1]
    /\ UNCHANGED <<running, sessions, mu, accepting, inbox, registered, reactor, reactor_stop,
                   thread, handoff, handoff_stop, worker, stopper>>

StopDone ==
    /\ stopper = "teardown" /\ to_tear = {}
    /\ stopper' = "done"
    /\ UNCHANGED <<running, sessions, mu, accepting, inbox, registered, reactor, reactor_stop,
                   thread, handoff, handoff_stop, worker, to_tear, closes>>

-----------------------------------------------------------------------------

Stop ==
    \/ StopAccept
    \/ StopReactor
    \/ StopWorkers
    \/ StopSessions
    \/ \E s \in Plain : StopTeardown(s)
    \/ StopDone

AcceptLoop(l) == NoConnection(l) \/ HandOver(l) \/ AcceptExit(l)

SessionLoop(s) == NoticeStop(s) \/ ThreadTeardown(s)

WorkerLoop(w) == WorkerTake(w) \/ WorkerSent(w) \/ WorkerExit(w)

Next ==
    \/ \E l \in Listener : \/ AwaitConnection(l) \/ AcceptLoop(l)
                          \/ \E s \in Session : AcceptOne(l, s)
    \/ \E s \in Tls : HandshakeFails(s)
    \/ \E s \in Plain : RunRegistration(s) \/ ReactorTeardown(s)
    \/ EnqueueHandoff \/ ReactorRemove \/ ReactorExit
    \/ \E s \in Tls : SessionLoop(s) \/ SessionEnds(s)
    \/ \E w \in Worker : WorkerLoop(w)
    \/ StopFlag
    \/ Stop

(* Every thread goes on when it can: each loop polls running_ with a       *)
(* timeout, a send has a deadline and a lock that stays free is granted.   *)
Fairness ==
    /\ \A l \in Listener : WF_vars(AcceptLoop(l))
    /\ WF_vars(ReactorRemove \/ ReactorExit)
    /\ \A s \in Tls : WF_vars(SessionLoop(s))
    /\ \A w \in Worker : WF_vars(WorkerLoop(w))
    /\ WF_vars(Stop)

Spec == Init /\ [][Next]_vars /\ Fairness

-----------------------------------------------------------------------------
(* Properties                                                              *)

(* Every variable has its type.                                            *)
TypeOK ==
    /\ running \in BOOLEAN
    /\ sessions \in SUBSET Session
    /\ mu \in {"free", "stop"}
    /\ accepting \in [Listener -> {"test", "wait", "exited"} \cup Session]
    /\ inbox \in SUBSET Plain /\ registered \in SUBSET Plain
    /\ reactor \in {"run", "stopped"} \cup Plain
    /\ reactor_stop \in BOOLEAN
    /\ thread \in [Tls -> {"none", "serve", "teardown", "exited"}]
    /\ handoff \in 0..HandoffCap
    /\ handoff_stop \in BOOLEAN
    /\ worker \in [Worker -> {"wait", "send", "exited"}]
    /\ stopper \in {"not_called", "join_accept", "join_reactor", "join_workers",
                    "join_sessions", "teardown", "done"}
    /\ to_tear \in SUBSET Plain
    /\ closes \in [Session -> 0..2]

(* No descriptor is closed twice, whether the connection, the reactor or   *)
(* stop() ends the session (a second close could hit a reused number), and *)
(* when stop() returns, every connection that was accepted has been closed *)
(* and every thread has ended: a connection caught between accept, post    *)
(* and registration is not forgotten.                                      *)
ClosedExactlyOnce ==
    /\ \A s \in Session : closes[s] <= 1
    /\ stopper = "done" =>
        /\ sessions = {}
        /\ \A l \in Listener : accepting[l] = "exited"
        /\ reactor = "stopped"
        /\ \A s \in Tls : thread[s] \in {"none", "exited"}
        /\ \A s \in inbox \cup registered : closes[s] = 1
        /\ \A s \in Tls : thread[s] = "exited" => closes[s] = 1

(* stop() returns: "join every thread" does not wait for itself.           *)
StopReturns == (stopper = "join_accept") ~> (stopper = "done")

(* The join of session threads has come to one that has not ended.         *)
JoinsTlsThread ==
    /\ stopper = "join_sessions"
    /\ \E s \in Tls : thread[s] \in {"serve", "teardown"}


=============================================================================
