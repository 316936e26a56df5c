-------------------------------- MODULE Drivers ---------------------------------
(***************************************************************************)
(* The polled drivers (drivers/modbus_tcp_driver.hpp,                      *)
(* drivers/modbus_rtu_driver.hpp, drivers/opcua_driver.hpp) and the poll   *)
(* lane of the runtime that calls them (runtime/runtime.hpp).              *)
(*                                                                         *)
(* The three share one life: open, a call that connects lazily behind a    *)
(* backoff, one request and its answer, close.  They differ in what ties   *)
(* an answer to its request: Modbus TCP has a 16-bit transaction id and a  *)
(* connection of its own, RTU only the order on the line, OPC UA leaves it *)
(* to the client library.  The device may answer late, wrongly or not at   *)
(* all.  One thread calls the driver; poll() is what the lane calls,       *)
(* write() what a host does between polls.                                 *)
(***************************************************************************)
EXTENDS Integers, Sequences, FiniteSets

CONSTANTS
    Kind,        \* the drivers: "modbus_tcp", "modbus_rtu", "opcua"
    Value,       \* register values written
    TxnModulus,  \* 2^16 in the code
    MaxBackoff,  \* doublings until the cap of 5000 ms
    MaxPending   \* bound: requests the device still holds

ASSUME DriversAssumption ==
    /\ Kind \subseteq {"modbus_tcp", "modbus_rtu", "opcua"}
    /\ TxnModulus \in Nat \ {0} /\ MaxBackoff \in Nat /\ MaxPending \in Nat

VARIABLES
    kind,      \* which driver is deployed
    lane,      \* where the calling thread is
    opened,    \* opened_
    connected, \* fd_ valid, port open, connected_
    waiting,   \* now < next_attempt_at_
    backoff,   \* backoff_ms_, as doublings of 200 ms
    txn,       \* next_txn_id_
    request,   \* the request being made
    device,    \* requests the device has yet to answer
    wire,      \* answers on their way, or arrived and unread
    answer,    \* the answer the last call took, or NoAnswer
    poll_stop, \* teardown asked the lane to end
    up         \* the device can be dialled

connVars == <<connected, waiting, backoff>>
driverVars == <<kind, lane, opened, connVars, txn, request, device, wire, answer, poll_stop, up>>

Writes == {"write", "write_multiple"}
Read == [fc |-> "read", value |-> 0]
Malformed == [fc |-> "malformed", value |-> 0]
Commands == [fc : Writes, value : Value] \cup {Malformed}
NoAnswer == [status |-> "none", fc |-> "read", value |-> 0, txn |-> 0, current |-> FALSE]

DriversInit ==
    /\ kind \in Kind
    /\ lane = "new" /\ opened = FALSE
    /\ connected = FALSE /\ waiting = FALSE /\ backoff = 0
    /\ txn = 1 % TxnModulus
    /\ request = Read
    /\ device = {} /\ wire = << >> /\ answer = NoAnswer
    /\ poll_stop = FALSE /\ up \in BOOLEAN

(***************************************************************************)
(* The connection.                                                         *)
(***************************************************************************)
\* What is left of the exchange when the connection or port is closed: a TCP
\* device may still carry out what it has read, but its answer is gone; an
\* RTU device answers into a line that the next open flushes.
Orphaned(r) == [r EXCEPT !.live = FALSE]

\* Mutant: the connection is given back with what is still on its way.
DisconnectKeepsSocket ==
    UNCHANGED <<connected, device, wire>>

Disconnect ==
    /\ connected' = FALSE
    /\ wire' = << >>
    /\ device' = IF kind = "modbus_tcp" THEN {Orphaned(r) : r \in device} ELSE device

Connected ==
    /\ connected' = TRUE /\ waiting' = FALSE /\ backoff' = 0

\* Mutant: a failed dial gives the driver up.
BackOffForGood == UNCHANGED <<connected, waiting, backoff>> /\ opened' = FALSE

\* A failed attempt: no other before the backoff, which doubles to its cap.
BackOff ==
    /\ waiting' = TRUE
    /\ backoff' = IF backoff < MaxBackoff THEN backoff + 1 ELSE backoff
    /\ UNCHANGED <<connected, opened>>

BackoffExpires ==
    /\ waiting
    /\ waiting' = FALSE
    /\ UNCHANGED <<kind, lane, opened, connected, backoff, txn, request, device, wire, answer,
                   poll_stop, up>>

\* open() at deploy: what cannot work is refused before the first dial, and
\* so is a device that is down.
Open(fits) ==
    /\ lane = "new"
    /\ opened' = fits
    /\ IF fits /\ up
       THEN lane' = "idle" /\ Connected
       ELSE lane' = "rejected" /\ UNCHANGED connVars
    /\ UNCHANGED <<kind, txn, request, device, wire, answer, poll_stop, up>>

\* The registers must fit a frame.
OpenModbusTcp == kind = "modbus_tcp" /\ \E fits \in BOOLEAN : Open(fits)
OpenModbusRtu == kind = "modbus_rtu" /\ \E fits \in BOOLEAN : Open(fits)

\* The node ids must parse and fit a frame, or the root to browse must parse.
OpenOpcUa == kind = "opcua" /\ \E parses \in BOOLEAN : Open(parses)

(***************************************************************************)
(* A call.                                                                 *)
(***************************************************************************)
\* poll() or write() up to the request: connected, or within the backoff,
\* or after a dial (ensure_connected).
Begin(c) ==
    /\ lane = "idle" /\ ~poll_stop
    /\ request' = c /\ answer' = NoAnswer
    /\ CASE ~opened \/ c = Malformed -> lane' = "sleep" /\ UNCHANGED <<opened, connVars>>
         [] opened /\ c # Malformed /\ connected -> lane' = "ready" /\ UNCHANGED <<opened, connVars>>
         [] opened /\ c # Malformed /\ ~connected /\ waiting ->
                lane' = "sleep" /\ UNCHANGED <<opened, connVars>>
         [] opened /\ c # Malformed /\ ~connected /\ ~waiting /\ up ->
                lane' = "ready" /\ Connected /\ UNCHANGED opened
         [] OTHER -> lane' = "sleep" /\ BackOff
    /\ UNCHANGED <<kind, txn, device, wire, poll_stop, up>>

\* The entry points of the drivers.  A target that does not parse is refused.
PollModbusTcp == kind = "modbus_tcp" /\ Begin(Read)
PollModbusRtu == kind = "modbus_rtu" /\ Begin(Read)
PollOpcUa == kind = "opcua" /\ Begin(Read)
WriteModbusTcp(c) == kind = "modbus_tcp" /\ Begin(c)
WriteModbusRtu(c) == kind = "modbus_rtu" /\ Begin(c)
WriteOpcUa(c) == kind = "opcua" /\ Begin(c)

\* The requests and answers of earlier calls, seen from a new one.
Aged(r) == [r EXCEPT !.current = FALSE]

\* A Modbus request is written (do_transaction, do_write_transaction,
\* do_write_multiple_transaction).
Send ==
    /\ lane = "ready" /\ kind # "opcua" /\ Cardinality(device) < MaxPending
    /\ device' = {Aged(r) : r \in device} \cup
            {[fc |-> request.fc, value |-> request.value, txn |-> txn, current |-> TRUE, live |-> TRUE]}
    /\ wire' = [i \in DOMAIN wire |-> Aged(wire[i])]
    /\ txn' = (txn + 1) % TxnModulus
    /\ lane' = "await"
    /\ UNCHANGED <<kind, opened, connVars, request, answer, poll_stop, up>>

\* send_all fails: nothing usable reached the device.  A send ends: POSIX serial
\* open and write have no deadline of their own (serial.hpp:154, 201) and are
\* taken as bounded.
SendFails ==
    /\ lane = "ready" /\ kind # "opcua"
    /\ Disconnect
    /\ txn' = (txn + 1) % TxnModulus
    /\ lane' = "sleep"
    /\ UNCHANGED <<kind, opened, waiting, backoff, request, answer, poll_stop, up>>

Expected == (txn + TxnModulus - 1) % TxnModulus

\* Mutant: the echo of a write is not compared.
IsAnswerAnyEcho(r) ==
    /\ kind = "modbus_tcp" => r.txn = Expected
    /\ r.fc = request.fc

\* The checks on an answer that has its length and its CRC.  TCP compares the
\* transaction id, both the function; a single write compares the value
\* echoed, a multiple write only address and count.
TcpReadAnswer(r) == r.txn = Expected /\ r.fc = "read"
TcpWriteAnswer(r) == r.txn = Expected /\ r.fc = "write" /\ r.value = request.value
TcpWriteMultipleAnswer(r) == r.txn = Expected /\ r.fc = "write_multiple"
RtuReadAnswer(r) == r.fc = "read"
RtuWriteAnswer(r) == r.fc = "write" /\ r.value = request.value
RtuWriteMultipleAnswer(r) == r.fc = "write_multiple"

IsAnswer(r) ==
    IF kind = "modbus_tcp"
    THEN CASE request.fc = "read" -> TcpReadAnswer(r)
           [] request.fc = "write" -> TcpWriteAnswer(r)
           [] OTHER -> TcpWriteMultipleAnswer(r)
    ELSE CASE request.fc = "read" -> RtuReadAnswer(r)
           [] request.fc = "write" -> RtuWriteAnswer(r)
           [] OTHER -> RtuWriteMultipleAnswer(r)

\* An exception is a proper answer and keeps the connection; what does not
\* fit closes it; a reading goes on to the stream.
Receive ==
    /\ lane = "await" /\ wire # << >>
    /\ LET r == Head(wire) IN
       \/ /\ r.status = "exception" /\ (kind = "modbus_tcp" => r.txn = Expected)
          /\ wire' = Tail(wire) /\ lane' = "sleep"
          /\ UNCHANGED <<connected, device, answer>>
       \/ /\ r.status = "ok" /\ IsAnswer(r)
          /\ wire' = Tail(wire)
          /\ answer' = r
          /\ lane' = IF request.fc = "read" THEN "push" ELSE "sleep"
          /\ UNCHANGED <<connected, device>>
       \/ /\ \/ r.status = "bad"
             \/ r.status = "exception" /\ kind = "modbus_tcp" /\ r.txn # Expected
             \/ r.status = "ok" /\ ~IsAnswer(r)
          /\ Disconnect /\ lane' = "sleep"
          /\ UNCHANGED answer
    /\ UNCHANGED <<kind, opened, waiting, backoff, txn, request, poll_stop, up>>

\* Mutant: a wait without a deadline.
TimeoutNever == lane = "await" /\ FALSE /\ UNCHANGED driverVars

\* recv_exact reaches its deadline or the end of the stream.
Timeout ==
    /\ lane = "await"
    /\ Disconnect /\ lane' = "sleep"
    /\ UNCHANGED <<kind, opened, waiting, backoff, txn, request, answer, poll_stop, up>>

\* An OPC UA service call: only a lost session is torn down.  The client library
\* matches answers to requests (external), so an answer is to its own call here
\* by construction.
OpcUaCall(outcomes) ==
    /\ lane = "ready" /\ kind = "opcua"
    /\ \E outcome \in outcomes :
        /\ connected' = (outcome # "lost")
        /\ IF outcome = "good"
           THEN /\ answer' = [status |-> "ok", fc |-> request.fc, value |-> request.value,
                               txn |-> 0, current |-> TRUE]
                /\ lane' = IF request.fc = "read" THEN "push" ELSE "sleep"
           ELSE lane' = "sleep" /\ UNCHANGED answer
    /\ UNCHANGED <<kind, opened, waiting, backoff, txn, request, device, wire, poll_stop, up>>

\* A node that cannot be read is left out of the reading; too long a body is
\* an error.
OpcUaRead == request.fc = "read" /\ OpcUaCall({"good", "too_long", "lost"})

\* In browse mode the poll lists the references of one node instead.
OpcUaBrowse == request.fc = "read" /\ OpcUaCall({"good", "refused", "too_long", "lost"})

OpcUaWrite == request.fc = "write" /\ OpcUaCall({"good", "refused", "lost"})

\* A target "object|method" calls the method with the value.
OpcUaMethod == request.fc = "write_multiple" /\ OpcUaCall({"good", "refused", "lost"})

(***************************************************************************)
(* The lane.                                                               *)
(***************************************************************************)
\* The reading goes through the cycle's own stream, never full, to the actor.
Push ==
    /\ lane = "push"
    /\ lane' = "sleep"
    /\ UNCHANGED <<kind, opened, connVars, txn, request, device, wire, answer, poll_stop, up>>

\* The interval, in slices that end when the stop flag is up.
Sleep ==
    /\ lane = "sleep"
    /\ lane' = "idle"
    /\ UNCHANGED <<kind, opened, connVars, txn, request, device, wire, answer, poll_stop, up>>

\* The loop's condition.
LeaveLoop ==
    /\ lane = "idle" /\ poll_stop
    /\ lane' = "joined"
    /\ UNCHANGED <<kind, opened, connVars, txn, request, device, wire, answer, poll_stop, up>>

\* teardown(): the flag first, then the join, then close().
Teardown ==
    /\ lane \notin {"new", "rejected", "joined", "closed"} /\ ~poll_stop
    /\ poll_stop' = TRUE
    /\ UNCHANGED <<kind, lane, opened, connVars, txn, request, device, wire, answer, up>>

\* close(): only the OPC UA driver also forgets that it was opened.
Close ==
    /\ lane = "joined"
    /\ lane' = "closed"
    /\ Disconnect
    /\ opened' = (kind # "opcua")
    /\ UNCHANGED <<kind, waiting, backoff, txn, request, answer, poll_stop, up>>

(***************************************************************************)
(* The device.                                                             *)
(***************************************************************************)
\* A request is carried out or refused, and answered if the line still is
\* there; "bad" is any answer that fails its checks of length or CRC.  The
\* answer's value and current tell whose answer it is; only a single write's
\* answer shows its value to the driver.
Answer(r, status) ==
    /\ r \in device
    /\ device' = device \ {r}
    /\ wire' = IF r.live /\ connected
               THEN Append(wire, [status |-> status, fc |-> r.fc, value |-> r.value,
                                  txn |-> r.txn, current |-> r.current])
               ELSE wire
    /\ UNCHANGED <<kind, lane, opened, connVars, txn, request, answer, poll_stop, up>>

Lose(r) ==
    /\ r \in device
    /\ device' = device \ {r}
    /\ UNCHANGED <<kind, lane, opened, connVars, txn, request, wire, answer, poll_stop, up>>

Reachable ==
    /\ up' = ~up
    /\ UNCHANGED <<kind, lane, opened, connVars, txn, request, device, wire, answer, poll_stop>>

Poll == PollModbusTcp \/ PollModbusRtu \/ PollOpcUa

LaneStep ==
    \/ Poll
    \/ \E c \in Commands : WriteModbusTcp(c) \/ WriteModbusRtu(c) \/ WriteOpcUa(c)
    \/ Send \/ SendFails \/ Receive \/ Timeout
    \/ OpcUaRead \/ OpcUaBrowse \/ OpcUaWrite \/ OpcUaMethod
    \/ Push \/ Sleep \/ LeaveLoop \/ Close

DriversNext ==
    \/ OpenModbusTcp \/ OpenModbusRtu \/ OpenOpcUa
    \/ LaneStep
    \/ BackoffExpires
    \/ Teardown
    \/ \E r \in device : Lose(r) \/ \E s \in {"ok", "exception", "bad"} : Answer(r, s)
    \/ Reachable

\* The lane polls once an interval, whatever a host writes in between; its
\* thread runs, every wait of it has a deadline, time passes, and
\* the device does not hold on to requests for ever.
DriversFairness ==
    /\ WF_driverVars(LaneStep)
    /\ SF_driverVars(Poll)
    /\ WF_driverVars(BackoffExpires)
    /\ WF_driverVars(\E r \in device : Lose(r))

DriversSpec == DriversInit /\ [][DriversNext]_driverVars /\ DriversFairness
(***************************************************************************)
(* Properties.                                                             *)
(***************************************************************************)
Function == Writes \cup {"read", "malformed"}
Ask == [fc : Function, value : Value \cup {0}]
Pending == [fc : Function, value : Value \cup {0}, txn : 0..TxnModulus - 1,
            current : BOOLEAN, live : BOOLEAN]
Reply == [status : {"none", "ok", "exception", "bad"}, fc : Function, value : Value \cup {0},
          txn : 0..TxnModulus - 1, current : BOOLEAN]

\* Every variable has its type: the transaction id and the backoff stay in
\* their ranges, and only a Modbus driver waits for an answer itself.
DriversTypeOK ==
    /\ kind \in Kind
    /\ lane \in {"new", "idle", "ready", "await", "push", "sleep", "rejected", "joined", "closed"}
    /\ opened \in BOOLEAN /\ connected \in BOOLEAN /\ waiting \in BOOLEAN
    /\ poll_stop \in BOOLEAN /\ up \in BOOLEAN
    /\ backoff \in 0..MaxBackoff /\ txn \in 0..TxnModulus - 1
    /\ request \in Ask
    /\ device \subseteq Pending /\ wire \in Seq(Reply) /\ answer \in Reply
    /\ kind = "opcua" => lane # "await"

\* A call over Modbus TCP or OPC UA takes the answer to its own request,
\* never one to a call that had timed out (do_transaction, close_socket).
AnswerIsOwn == answer.status = "ok" /\ kind # "modbus_rtu" => answer.current

\* The request whose answer was taken asked for what this call asked for.
Confirmed == answer.status = "ok" => answer.fc = request.fc /\ answer.value = request.value

\* A write that returns Ok has been carried out by the device: on TCP by the
\* id, on RTU by the echoed value of a single register.
WriteOkMeansDone == kind # "modbus_rtu" \/ request.fc # "write_multiple" => Confirmed

\* The same of every driver and both kinds of write, as the RTU driver's
\* banner has it (modbus_rtu_driver.hpp:11-12).
EveryWriteOkMeansDone == Confirmed

\* teardown() joins: the lane leaves any wait, backoff or sleep.
TeardownEnds == poll_stop ~> lane = "closed"

\* A device that can be dialled again is connected again, whatever failed
\* before (ensure_connected's backoff, and opened_ kept through failures).
Reconnects ==
    <>[](up /\ ~poll_stop /\ lane \notin {"new", "rejected"}) => []<>connected
================================================================================
