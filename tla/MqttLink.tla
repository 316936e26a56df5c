------------------------------ MODULE MqttLink ------------------------------
(***************************************************************************)
(* One (from -> to) link of MqttClientTransport                            *)
(* (include/aero/transport/mqtt_client_transport.hpp): the sending node    *)
(* numbers a frame, tracks it under a packet id, publishes it at QoS 1 and *)
(* retries until the broker acknowledges it; the receiving node gives what *)
(* the broker delivers to its Resequencer.                                 *)
(*                                                                         *)
(* The threads are the callers of send() (Thread), the retry thread and    *)
(* the two reader threads.  The broker is external: it accepts or ignores  *)
(* a publish, acknowledges late, and delivers what it accepted in any      *)
(* order and as often as it likes.                                         *)
(***************************************************************************)
EXTENDS Resequencer

CONSTANTS
    Thread,            \* the callers of send()
    IdModulus,         \* packet_id_ counts modulo this (2^16 in the code)
    MaxRetries,        \* Config::max_publish_retries
    MaxIgnored,        \* bound: publishes the broker drops unacknowledged
    MayBreak           \* TRUE: the connection to the broker may break

ASSUME MqttLinkAssumption ==
    /\ IdModulus \in Nat /\ IdModulus > 2
    /\ MaxRetries \in Nat /\ MaxIgnored \in Nat
    /\ MayBreak \in BOOLEAN

VARIABLES
    link,      \* of the sender: down, connected, up (subscribed too), broken, stopped
    packetId,  \* packet_id_: the next value fetch_add returns
    call,      \* per thread: where its send() is, with its number and id
    inflight,  \* inflight_: tracked packet id -> number and retry count
    resend,    \* the retry thread's to_resend, not yet written
    wire,      \* PUBLISH packets on the way to the broker, in order
    acks,      \* PUBACK packets on the way back, in order
    topic,     \* numbers the broker has accepted
    seen,      \* numbers delivered at least once
    lost,      \* history: numbers given up, not written, or dropped as overflow
    ignored,   \* history: publishes the broker dropped
    reused     \* history: an id came round while a packet still carried it

linkVars == <<link, packetId, call, inflight, resend, wire, acks, topic, seen,
              lost, ignored, reused>>

PacketId == 1..(IdModulus - 1)

Publish == [pid : PacketId, seq : Nat]

NoCall == [pc |-> "idle", seq |-> 0, pid |-> 1]

(* The receiver runs; the sender has not been started.                     *)
LinkInit ==
    /\ Init
    /\ link = "down"
    /\ packetId = 1
    /\ call = [t \in Thread |-> NoCall]
    /\ inflight = << >>
    /\ resend = {}
    /\ wire = << >> /\ acks = << >>
    /\ topic = {} /\ seen = {} /\ lost = {}
    /\ ignored = 0 /\ reused = FALSE

(* next_packet_id(): fetch_add, once more when it returned 0.              *)
NextPacketId == IF packetId = 0 THEN 1 ELSE packetId

AfterPacketId == (NextPacketId + 1) % IdModulus

(* An id is free when nothing under way carries it any more.               *)
IdFree(pid) ==
    /\ pid \notin DOMAIN inflight
    /\ \A p \in resend : p.pid # pid
    /\ \A i \in DOMAIN wire : wire[i].pid # pid
    /\ \A i \in DOMAIN acks : acks[i] # pid
    /\ \A t \in Thread : call[t].pc # "idle" => call[t].pid # pid

Forget(f, pids) == [p \in DOMAIN f \ pids |-> f[p]]

-----------------------------------------------------------------------------
(* start(), stop(), and the connection that breaks                        *)

(* The broker is dialled and answers CONNECT.                              *)
Connect ==
    /\ link = "down"
    /\ link' = "connected"
    /\ UNCHANGED <<vars, packetId, call, inflight, resend, wire, acks, topic, seen, lost, ignored, reused>>

(* The inbox is subscribed to, which takes a packet id, and the reader and *)
(* the retry thread are started.                                           *)
SubscribeInbox ==
    /\ link = "connected"
    /\ link' = "up"
    /\ packetId' = AfterPacketId
    /\ UNCHANGED <<vars, call, inflight, resend, wire, acks, topic, seen, lost, ignored, reused>>

(* gate_err: no answer, a refusal, or any other packet than the answer     *)
(* awaited; the descriptor is closed.                                      *)
StartFails ==
    /\ link \in {"down", "connected"}
    /\ link' = "stopped"
    /\ packetId' = IF link = "down" THEN packetId ELSE AfterPacketId
    /\ acks' = << >>
    /\ UNCHANGED <<vars, call, inflight, resend, wire, topic, seen, lost, ignored, reused>>

(* stop(): running_ is cleared, the retry thread writes what it has        *)
(* collected, both threads are joined and the descriptor is closed.        *)
Stop ==
    /\ link \in {"up", "broken"}
    /\ resend = {}
    /\ link' = "stopped"
    /\ acks' = << >>
    /\ UNCHANGED <<vars, packetId, call, inflight, resend, wire, topic, seen, lost, ignored, reused>>

(* The connection goes away with what is on it; nothing reconnects.        *)
Break ==
    /\ MayBreak /\ link \in {"connected", "up"}
    /\ link' = "broken"
    /\ wire' = << >> /\ acks' = << >>
    /\ UNCHANGED <<vars, packetId, call, inflight, resend, topic, seen, lost, ignored, reused>>

-----------------------------------------------------------------------------
(* send()                                                                  *)

(* The number and the packet id of the frame are taken.                    *)
SendNumber(t, v) ==
    /\ call[t].pc = "idle"
    /\ Stamp(v)
    /\ call' = [call EXCEPT ![t] = [pc |-> "track", seq |-> Len(sent), pid |-> NextPacketId]]
    /\ packetId' = AfterPacketId
    /\ reused' = (reused \/ ~IdFree(NextPacketId))
    /\ UNCHANGED <<link, inflight, resend, wire, acks, topic, seen, lost, ignored>>

Tracked(c) ==
    IF c.pid \in DOMAIN inflight
      THEN inflight
      ELSE [p \in DOMAIN inflight \cup {c.pid} |->
              IF p = c.pid THEN [seq |-> c.seq, tries |-> 0] ELSE inflight[p]]

(* Mutant: the frame is tracked only after it has been written.            *)
SendTrackLate(t) ==
    /\ call[t].pc = "track"
    /\ call' = [call EXCEPT ![t].pc = "write"]
    /\ UNCHANGED <<vars, link, packetId, inflight, resend, wire, acks, topic,
                   seen, lost, ignored, reused>>

(* inflight_.emplace: an id already there keeps its old entry.             *)
SendTrack(t) ==
    /\ call[t].pc = "track"
    /\ inflight' = Tracked(call[t])
    /\ call' = [call EXCEPT ![t].pc = "write"]
    /\ UNCHANGED <<vars, link, packetId, resend, wire, acks, topic, seen, lost, ignored, reused>>

(* write_packet succeeds: no descriptor, or a broken one, refuses.         *)
SendWrite(t) ==
    /\ call[t].pc = "write"
    /\ link \in {"connected", "up"}
    /\ wire' = Append(wire, [pid |-> call[t].pid, seq |-> call[t].seq])
    /\ call' = [call EXCEPT ![t] = NoCall]
    /\ UNCHANGED <<vars, link, packetId, inflight, resend, acks, topic, seen, lost, ignored, reused>>

(* write_packet fails: the entry is erased, and the number is never used   *)
(* again.                                                                  *)
SendFail(t) ==
    /\ call[t].pc = "write"
    /\ link \in {"down", "stopped", "broken"}
    /\ inflight' = Forget(inflight, {call[t].pid})
    /\ lost' = lost \cup {call[t].seq}
    /\ call' = [call EXCEPT ![t] = NoCall]
    /\ UNCHANGED <<vars, link, packetId, resend, wire, acks, topic, seen, ignored, reused>>

-----------------------------------------------------------------------------
(* The broker                                                              *)

BrokerAccept ==
    /\ wire # << >>
    /\ wire' = Tail(wire)
    /\ topic' = topic \cup {Head(wire).seq}
    /\ acks' = IF link \in {"connected", "up"} THEN Append(acks, Head(wire).pid) ELSE acks
    /\ UNCHANGED <<vars, link, packetId, call, inflight, resend, seen, lost, ignored, reused>>

BrokerIgnore ==
    /\ wire # << >> /\ ignored < MaxIgnored
    /\ ignored' = ignored + 1
    /\ wire' = Tail(wire)
    /\ UNCHANGED <<vars, link, packetId, call, inflight, resend, acks, topic, seen, lost, reused>>

-----------------------------------------------------------------------------
(* The reader threads                                                      *)

(* handle_puback() of the sender.                                          *)
HandlePuback ==
    /\ link = "up" /\ acks # << >>
    /\ acks' = Tail(acks)
    /\ inflight' = Forget(inflight, {Head(acks)})
    /\ UNCHANGED <<vars, link, packetId, call, resend, wire, topic, seen, lost, ignored, reused>>

(* handle_publish() of the receiver: the delivery is acknowledged to the   *)
(* broker whatever offer() then makes of it.                               *)
HandlePublish(n) ==
    /\ n \in topic
    /\ Arrive(n)
    /\ seen' = seen \cup {n}
    /\ lost' = IF stats'.overflow > stats.overflow THEN lost \cup {n} ELSE lost
    /\ UNCHANGED <<link, packetId, call, inflight, resend, wire, acks, topic, ignored, reused>>

-----------------------------------------------------------------------------
(* retry_loop()                                                            *)

Exhausted(pids) == {p \in pids : inflight[p].tries >= MaxRetries}

(* One pass under inflight_mu_ over the entries that have timed out: spent *)
(* ones are given up, the others counted and collected.                    *)
RetryScan(pids) ==
    /\ link \in {"up", "broken"} /\ resend = {}
    /\ pids # {}
    /\ LET out == Exhausted(pids) IN
       /\ inflight' = [p \in DOMAIN inflight \ out |->
                          IF p \in pids THEN [inflight[p] EXCEPT !.tries = @ + 1]
                                        ELSE inflight[p]]
       /\ resend' = {[pid |-> p, seq |-> inflight[p].seq] : p \in pids \ out}
       /\ lost' = lost \cup {inflight[p].seq : p \in out}
    /\ UNCHANGED <<vars, link, packetId, call, wire, acks, topic, seen, ignored, reused>>

(* A collected packet is written again, with the lock released: its PUBACK *)
(* may have been handled since.  The result of the write is not looked at. *)
RetryWrite(p) ==
    /\ p \in resend
    /\ resend' = resend \ {p}
    /\ wire' = IF link = "up" THEN Append(wire, p) ELSE wire
    /\ UNCHANGED <<vars, link, packetId, call, inflight, acks, topic, seen, lost, ignored, reused>>

-----------------------------------------------------------------------------

LinkNext ==
    \/ Connect \/ SubscribeInbox \/ StartFails \/ Stop \/ Break
    \/ \E t \in Thread :
          \/ \E v \in Value : SendNumber(t, v)
          \/ SendTrack(t) \/ SendWrite(t) \/ SendFail(t)
    \/ BrokerAccept \/ BrokerIgnore
    \/ HandlePuback
    \/ \E n \in topic : HandlePublish(n)
    \/ \E pids \in SUBSET DOMAIN inflight : RetryScan(pids)
    \/ \E p \in resend : RetryWrite(p)

LinkSpec == LinkInit /\ [][LinkNext]_<<vars, linkVars>>

-----------------------------------------------------------------------------
(* Properties                                                              *)

UnderWay(n) ==
    \/ \E t \in Thread : call[t].pc # "idle" /\ call[t].seq = n
    \/ \E p \in DOMAIN inflight : inflight[p].seq = n
    \/ \E i \in DOMAIN wire : wire[i].seq = n
    \/ n \in topic \ seen

(* While the link is up, every frame is somewhere: handed up, buffered, on *)
(* its way or tracked for another try, or counted as lost by one of the    *)
(* three exits the code has (given up after its retries, not written, past *)
(* the window): no PUBACK settles a frame the broker never had.  This is   *)
(* so as long as no packet id comes round within an in-flight window,      *)
(* which is what handle_puback() counts on.                                *)
NoSilentLoss ==
    link \in {"connected", "up"} /\ ~reused => \A n \in 0..(Len(sent) - 1) :
                    n < next \/ Holds(ring, n) \/ UnderWay(n) \/ n \in lost

=============================================================================
