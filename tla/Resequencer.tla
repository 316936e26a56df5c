----------------------------- MODULE Resequencer -----------------------------
(***************************************************************************)
(* The ordering shim of a broker link (include/aero/transport/             *)
(* resequencer.hpp): a SequenceStamper numbers the frames of one           *)
(* (from -> to) link, a substrate loses, duplicates and reorders them, and *)
(* a Resequencer with a bounded ring hands them up in order, each once.    *)
(*                                                                         *)
(* The substrate is every frame ever stamped: a frame may arrive at any    *)
(* time, any number of times, or never.  Sequence numbers are 64 bit in    *)
(* the code and never wrap in a run; here they are natural numbers.        *)
(***************************************************************************)
EXTENDS Integers, Sequences, FiniteSets

CONSTANTS
    Value,             \* the payloads a link moves (template parameter T)
    NoValue,           \* what a slot holds before its first frame, and after
                       \* its value has been moved out
    ConfiguredWindow,  \* the constructor's argument; 0 stands for 1
    MaxSend,           \* bound: frames stamped in a behaviour
    MaxArrivals        \* bound: arrivals offered in a behaviour

ASSUME ResequencerAssumption ==
    /\ NoValue \notin Value
    /\ ConfiguredWindow \in Nat
    /\ MaxSend \in Nat
    /\ MaxArrivals \in Nat

VARIABLES
    sent,      \* values stamped so far; the frame numbered n carries sent[n+1]
    ring,      \* ring_: one slot per residue modulo the window
    next,      \* next_: the sequence number to release next
    stats,     \* ResequencerStats
    released,  \* history: the values handed to the sink, in order
    arrivals   \* history: how many arrivals were offered

vars == <<sent, ring, next, stats, released, arrivals>>

Window == IF ConfiguredWindow = 0 THEN 1 ELSE ConfiguredWindow

Slots == 0..(Window - 1)

Slot == [seq : Nat, value : Value \cup {NoValue}, present : BOOLEAN]

Stats == [released : Nat, duplicates : Nat, overflow : Nat, max_buffered : Nat]

Init ==
    /\ sent = << >>
    /\ ring = [i \in Slots |-> [seq |-> 0, value |-> NoValue, present |-> FALSE]]
    /\ next = 0
    /\ stats = [released |-> 0, duplicates |-> 0, overflow |-> 0, max_buffered |-> 0]
    /\ released = << >>
    /\ arrivals = 0

-----------------------------------------------------------------------------

(* Ring r buffers the frame numbered n.                                    *)
Holds(r, n) == r[n % Window].present /\ r[n % Window].seq = n

Occupied(r) == {i \in Slots : r[i].present}

(* Mutant: the drain loop tests the slot after it has stepped past it.     *)
RunEndOneTooFar(r, n) ==
    1 + CHOOSE m \in n..(n + Window) :
            /\ ~Holds(r, m)
            /\ \A k \in n..(m - 1) : Holds(r, k)

(* The drain loop started at n stops at the first number not buffered.     *)
RunEnd(r, n) ==
    CHOOSE m \in n..(n + Window) :
        /\ ~Holds(r, m)
        /\ \A k \in n..(m - 1) : Holds(r, k)

(* The slots whose frames the numbers n..m-1 occupy are emptied.           *)
Cleared(r, n, m) ==
    [i \in Slots |-> IF \E k \in n..(m - 1) : k % Window = i
                       THEN [r[i] EXCEPT !.present = FALSE, !.value = NoValue]
                       ELSE r[i]]

Emitted(r, n, m) == [j \in 1..(m - n) |-> r[(n + j - 1) % Window].value]

Stored(r, seq, value) ==
    [r EXCEPT ![seq % Window] = [seq |-> seq, value |-> value, present |-> TRUE]]

(* note_occupancy() after the store.                                       *)
NoteOccupancy(st, r) ==
    LET occ == Cardinality(Occupied(r))
    IN  IF occ > st.max_buffered THEN [st EXCEPT !.max_buffered = occ] ELSE st

-----------------------------------------------------------------------------

(* SequenceStamper::stamp: the next number goes to the value being sent.   *)
Stamp(v) ==
    /\ Len(sent) < MaxSend
    /\ sent' = Append(sent, v)
    /\ UNCHANGED <<ring, next, stats, released, arrivals>>

(* offer(), the early return for a number already released.                *)
OfferStale(seq) ==
    /\ seq < next
    /\ stats' = [stats EXCEPT !.duplicates = @ + 1]
    /\ UNCHANGED <<ring, next, released>>

(* offer(), the early return for a number past the window.                 *)
OfferOverflow(seq) ==
    /\ seq >= next + Window
    /\ stats' = [stats EXCEPT !.overflow = @ + 1]
    /\ UNCHANGED <<ring, next, released>>

(* offer(), a second copy of a frame still buffered.                       *)
OfferBufferedCopy(seq) ==
    /\ next <= seq /\ seq < next + Window
    /\ Holds(ring, seq)
    /\ stats' = [stats EXCEPT !.duplicates = @ + 1]
    /\ UNCHANGED <<ring, next, released>>

(* Mutant: no window test, so a far frame lands on a buffered one.         *)
OfferAheadUnbounded(seq, v) ==
    /\ next < seq
    /\ ~Holds(ring, seq)
    /\ ring' = Stored(ring, seq, v)
    /\ stats' = NoteOccupancy(stats, ring')
    /\ UNCHANGED <<next, released>>

(* offer(), stored behind a gap that is still open.                        *)
OfferAhead(seq, v) ==
    /\ next < seq /\ seq < next + Window
    /\ ~Holds(ring, seq)
    /\ ring' = Stored(ring, seq, v)
    /\ stats' = NoteOccupancy(stats, ring')
    /\ UNCHANGED <<next, released>>

(* offer(), the awaited frame: it and the run behind it are released.      *)
OfferNext(seq, v) ==
    /\ seq = next
    /\ ~Holds(ring, seq)
    /\ LET r == Stored(ring, seq, v)
           m == RunEnd(r, next)
           st == NoteOccupancy(stats, r)
       IN  /\ ring' = Cleared(r, next, m)
           /\ next' = m
           /\ stats' = [st EXCEPT !.released = @ + (m - next)]
           /\ released' = released \o Emitted(r, next, m)

Offer(seq, v) ==
    \/ OfferStale(seq)
    \/ OfferOverflow(seq)
    \/ OfferBufferedCopy(seq)
    \/ OfferAhead(seq, v)
    \/ OfferNext(seq, v)

(* The substrate brings a copy of a frame that was stamped.                *)
Arrive(n) ==
    /\ arrivals < MaxArrivals
    /\ arrivals' = arrivals + 1
    /\ Offer(n, sent[n + 1])
    /\ UNCHANGED sent

Next ==
    \/ \E v \in Value : Stamp(v)
    \/ \E n \in 0..(Len(sent) - 1) : Arrive(n)

Spec == Init /\ [][Next]_vars

-----------------------------------------------------------------------------
(* Properties                                                              *)

(* Every variable has its type; the ring has exactly Window slots.         *)
TypeOK ==
    /\ sent \in Seq(Value)
    /\ ring \in [Slots -> Slot]
    /\ next \in Nat
    /\ stats \in Stats
    /\ released \in Seq(Value)
    /\ arrivals \in Nat

(* C1: whatever the substrate loses, repeats or reorders, the sink has     *)
(* seen exactly the values numbered 0..next-1, in the order they were      *)
(* stamped and each once (offer()'s dedup and drain loop).                 *)
ReleasedIsPrefix ==
    /\ next <= Len(sent)
    /\ released = SubSeq(sent, 1, next)

(* The reorder buffer: a present slot belongs to a number of the open      *)
(* window, sits at that number's residue and carries that frame's value;   *)
(* the awaited number itself is never left in the ring.                    *)
RingConsistent ==
    \A i \in Slots : ring[i].present =>
        /\ next < ring[i].seq /\ ring[i].seq < next + Window
        /\ ring[i].seq < Len(sent)
        /\ ring[i].seq % Window = i
        /\ ring[i].value = sent[ring[i].seq + 1]

(* Every arrival ends in exactly one bucket: handed up, still buffered,    *)
(* dropped as a duplicate or dropped past the window (ResequencerStats).   *)
ArrivalsAccountedFor ==
    arrivals = stats.released + stats.duplicates + stats.overflow
                 + Cardinality(Occupied(ring))

(* A buffered frame is never lost: a step either keeps it buffered or      *)
(* releases it (a store never lands on another frame's slot).              *)
BufferedIsKept ==
    [][\A i \in Slots : ring[i].present =>
          \/ ring'[i] = ring[i]
          \/ ring[i].seq < next']_vars

=============================================================================
