--------------------------- MODULE MqttLink_proofs ---------------------------
(***************************************************************************)
(* First, proofs about Resequencer for every window, every set of values   *)
(* and every bound: its inductive invariant is TypeOK, ReleasedIsPrefix    *)
(* and RingConsistent together.                                            *)
(*                                                                         *)
(* Then MqttLink implements Resequencer, so what is shown of a substrate   *)
(* that may bring any stamped frame at any time holds of the MQTT link,    *)
(* for every number of sending threads, packet ids, retries and lost       *)
(* packets; and nothing is lost silently on the link.                      *)
(***************************************************************************)
EXTENDS MqttLink, SequenceTheorems, FiniteSetTheorems, WellFoundedInduction, TLAPS

-----------------------------------------------------------------------------
(* The resequencer                                                         *)

LEMMA WindowPositive == Window \in Nat \ {0}
BY ResequencerAssumption DEF Window

(* A residue modulo the window is a slot of the ring.                      *)
LEMMA ResidueIsSlot ==
    ASSUME NEW n \in Nat
    PROVE  n % Window \in Slots
BY WindowPositive DEF Slots

(* Two numbers less than a window apart never share a slot.                *)
LEMMA ResidueInjective ==
    ASSUME NEW k \in Nat, NEW n \in Nat,
           k % Window = n % Window,
           k - n < Window, n - k < Window
    PROVE  k = n
<1> DEFINE W == Window
           p == k \div W
           q == n \div W
<1>1. W \in Nat \ {0}
  BY WindowPositive
<1> HIDE DEF W
<1>2. /\ p \in Int /\ q \in Int
      /\ k = W * p + (k % W) /\ n = W * q + (n % W)
  BY <1>1
<1>3. k - n = W * (p - q)
  <2>1. k % W = n % W
    BY DEF W
  <2>2. k % W \in Int
    BY <1>1
  <2> HIDE DEF p, q
  <2> QED BY <1>1, <1>2, <2>1, <2>2
<1> HIDE DEF p, q
<1>4. p - q < 1
  <2>1. SUFFICES ASSUME p - q >= 1 PROVE FALSE
    BY <1>2
  <2>2. W * (p - q) >= W
    BY <1>1, <1>2, <2>1
  <2> QED BY <1>1, <1>2, <1>3, <2>2 DEF W
<1>5. q - p < 1
  <2>1. SUFFICES ASSUME q - p >= 1 PROVE FALSE
    BY <1>2
  <2>2. W * (q - p) >= W
    BY <1>1, <1>2, <2>1
  <2>3. W * (q - p) = n - k
    BY <1>1, <1>2, <1>3
  <2> QED BY <1>1, <1>2, <2>2, <2>3 DEF W
<1>6. p = q
  BY <1>2, <1>4, <1>5
<1> QED BY <1>1, <1>2, <1>3, <1>6

(* Two numbers of one window are less than a window apart.                 *)
LEMMA WithinWindow ==
    ASSUME NEW x \in Nat, NEW s \in Nat, NEW m \in Nat, NEW w \in Nat,
           x < s, s < x + w, m <= x + w,
           NEW k \in x..(m - 1)
    PROVE  k \in Nat /\ k - s < w /\ s - k < w /\ k < m
OBVIOUS

(* A non-empty set of natural numbers has a least element.                 *)
LEMMA LeastNatural ==
    ASSUME NEW T \in SUBSET Nat, T # {}
    PROVE  \E m \in T : \A k \in T : m <= k
<1>1. PICK x \in T : \A y \in T : ~(<<y, x>> \in OpToRel(<, Nat))
  BY NatLessThanWellFounded, WFMin
<1>2. \A y \in T : ~(y < x)
  BY <1>1 DEF OpToRel
<1> QED BY <1>2

(* The drain loop stops: when the number a whole window after n is not in  *)
(* the ring, RunEnd is the first number from n on that is not.             *)
LEMMA RunEndCorrect ==
    ASSUME NEW r, NEW n \in Nat, ~Holds(r, n + Window)
    PROVE  /\ RunEnd(r, n) \in n..(n + Window)
           /\ ~Holds(r, RunEnd(r, n))
           /\ \A k \in n..(RunEnd(r, n) - 1) : Holds(r, k)
<1> DEFINE P(m) == ~Holds(r, m) /\ \A k \in n..(m - 1) : Holds(r, k)
           T == {m \in n..(n + Window) : ~Holds(r, m)}
<1>1. T \in SUBSET Nat /\ n + Window \in T
  BY WindowPositive
<1>2. PICK m \in T : \A k \in T : m <= k
  BY <1>1, LeastNatural
<1>3. m \in n..(n + Window) /\ P(m)
  <2>1. SUFFICES ASSUME NEW k \in n..(m - 1) PROVE Holds(r, k)
    BY <1>2
  <2>2. k \in n..(n + Window) /\ ~(m <= k)
    BY <1>1, <1>2, WindowPositive
  <2> QED BY <1>2, <2>2
<1>4. RunEnd(r, n) = CHOOSE x \in n..(n + Window) : P(x)
  BY DEF RunEnd
<1> HIDE DEF P, T
<1>5. RunEnd(r, n) \in n..(n + Window) /\ P(RunEnd(r, n))
  BY <1>3, <1>4
<1> QED BY <1>5 DEF P

-----------------------------------------------------------------------------

(* The inductive invariant.                                                *)
IInv == TypeOK /\ ReleasedIsPrefix /\ RingConsistent

LEMMA InitIInv == Init => IInv
<1> SUFFICES ASSUME Init PROVE IInv
  OBVIOUS
<1>1. TypeOK
  BY WindowPositive DEF Init, TypeOK, Slot, Stats
<1>2. ReleasedIsPrefix
  BY SubSeqEmpty DEF Init, ReleasedIsPrefix
<1>3. RingConsistent
  BY DEF Init, RingConsistent
<1> QED BY <1>1, <1>2, <1>3 DEF IInv

(* Stamping a value changes neither the ring nor the prefix already        *)
(* released.                                                               *)
LEMMA StampIInv ==
    ASSUME IInv, NEW v \in Value, Stamp(v)
    PROVE  IInv'
<1>1. /\ sent' \in Seq(Value)
      /\ Len(sent') = Len(sent) + 1
      /\ \A i \in 1..Len(sent) : sent'[i] = sent[i]
      /\ Len(sent) \in Nat
  BY AppendProperties DEF IInv, TypeOK, Stamp
<1>2. TypeOK'
  BY <1>1 DEF IInv, TypeOK, Stamp
<1>3. ReleasedIsPrefix'
  <2>1. next \in Nat /\ next <= Len(sent) /\ next <= Len(sent')
    BY <1>1 DEF IInv, TypeOK, ReleasedIsPrefix
  <2>2. sent \in Seq(Value)
    BY DEF IInv, TypeOK
  <2>3. /\ SubSeq(sent, 1, next) \in Seq(Value)
        /\ Len(SubSeq(sent, 1, next)) = next
        /\ \A i \in 1..next : SubSeq(sent, 1, next)[i] = sent[i]
    BY <2>1, <2>2, <1>1, SubSeqProperties, ElementOfSeq
  <2>4. /\ SubSeq(sent', 1, next) \in Seq(Value)
        /\ Len(SubSeq(sent', 1, next)) = next
        /\ \A i \in 1..next : SubSeq(sent', 1, next)[i] = sent'[i]
    BY <2>1, <1>1, SubSeqProperties, ElementOfSeq
  <2>5. SubSeq(sent, 1, next) = SubSeq(sent', 1, next)
    BY <2>1, <2>3, <2>4, <1>1, SeqEqual
  <2> QED BY <2>1, <2>5 DEF ReleasedIsPrefix, IInv, Stamp
<1>4. RingConsistent'
  BY <1>1 DEF IInv, TypeOK, RingConsistent, Stamp, Slot, Slots
<1> QED BY <1>2, <1>3, <1>4 DEF IInv

(* Storing the frame numbered seq in its slot.                             *)
LEMMA StoredType ==
    ASSUME IInv, NEW seq \in Nat, NEW v \in Value
    PROVE  /\ Stored(ring, seq, v) \in [Slots -> Slot]
           /\ \A i \in Slots : Stored(ring, seq, v)[i] =
                IF i = seq % Window THEN [seq |-> seq, value |-> v, present |-> TRUE]
                                    ELSE ring[i]
BY ResidueIsSlot DEF IInv, TypeOK, Stored, Slot

(* The occupancy counter stays a natural number.                           *)
LEMMA NoteOccupancyType ==
    ASSUME NEW st \in Stats, NEW r
    PROVE  NoteOccupancy(st, r) \in Stats
<1> DEFINE occ == Cardinality(Occupied(r))
<1>1. IsFiniteSet(Occupied(r)) /\ occ \in Nat
  <2>1. IsFiniteSet(Slots)
    BY WindowPositive, FS_Interval DEF Slots
  <2>2. Occupied(r) \in SUBSET Slots
    BY DEF Occupied
  <2> QED BY <2>1, <2>2, FS_Subset, FS_CardinalityType
<1> HIDE DEF occ
<1> QED BY <1>1 DEF NoteOccupancy, Stats, occ

LEMMA AheadIInv ==
    ASSUME IInv, NEW n \in 0..(Len(sent) - 1), OfferAhead(n, sent[n + 1]),
           UNCHANGED sent, arrivals' \in Nat
    PROVE  IInv'
<1>1. sent \in Seq(Value) /\ Len(sent) \in Nat /\ n \in Nat /\ sent[n + 1] \in Value
  BY ElementOfSeq, LenProperties DEF IInv, TypeOK
<1>2. ring' \in [Slots -> Slot]
  BY <1>1, StoredType DEF OfferAhead
<1>3. TypeOK'
  BY <1>1, <1>2, NoteOccupancyType DEF IInv, TypeOK, OfferAhead
<1>4. ReleasedIsPrefix'
  BY DEF IInv, ReleasedIsPrefix, OfferAhead
<1>5. RingConsistent'
  <2>1. SUFFICES ASSUME NEW i \in Slots, ring'[i].present
                 PROVE  /\ next < ring'[i].seq /\ ring'[i].seq < next + Window
                        /\ ring'[i].seq < Len(sent)
                        /\ ring'[i].seq % Window = i
                        /\ ring'[i].value = sent[ring'[i].seq + 1]
    BY DEF RingConsistent, OfferAhead
  <2>2. CASE i = n % Window
    <3>1. ring'[i] = [seq |-> n, value |-> sent[n + 1], present |-> TRUE]
      BY <1>1, <2>2, StoredType DEF OfferAhead
    <3> QED BY <1>1, <2>2, <3>1 DEF OfferAhead
  <2>3. CASE i # n % Window
    <3>1. ring'[i] = ring[i]
      BY <1>1, <2>3, StoredType DEF OfferAhead
    <3> QED BY <2>1, <3>1 DEF IInv, RingConsistent
  <2> QED BY <2>2, <2>3
<1> QED BY <1>3, <1>4, <1>5 DEF IInv

(* The awaited frame is stored: every frame the ring then holds is one of  *)
(* the stamped frames of the window, and the drain loop runs from next to  *)
(* a number it does not hold.                                              *)
LEMMA DrainRun ==
    ASSUME IInv, next < Len(sent),
           NEW r, r = Stored(ring, next, sent[next + 1]),
           NEW m, m = RunEnd(r, next)
    PROVE  /\ r \in [Slots -> Slot]
           /\ \A i \in Slots : r[i] =
                IF i = next % Window
                  THEN [seq |-> next, value |-> sent[next + 1], present |-> TRUE]
                  ELSE ring[i]
           /\ \A k \in Nat : Holds(r, k) => r[k % Window].value = sent[k + 1]
           /\ ~Holds(r, m)
           /\ \A k \in next..(m - 1) : Holds(r, k)
           /\ m \in Nat /\ next < m /\ m <= next + Window /\ m <= Len(sent)
<1>1. /\ sent \in Seq(Value) /\ Len(sent) \in Nat
      /\ next \in Nat /\ sent[next + 1] \in Value
  BY ElementOfSeq, LenProperties DEF IInv, TypeOK
<1>2. /\ r \in [Slots -> Slot]
      /\ \A i \in Slots : r[i] =
           IF i = next % Window
             THEN [seq |-> next, value |-> sent[next + 1], present |-> TRUE]
             ELSE ring[i]
  BY <1>1, StoredType
<1>3. \A k \in Nat : Holds(r, k) =>
        /\ k < next + Window
        /\ k < Len(sent)
        /\ r[k % Window].value = sent[k + 1]
  <2>1. SUFFICES ASSUME NEW k \in Nat, Holds(r, k)
                 PROVE  /\ k < next + Window
                        /\ k < Len(sent)
                        /\ r[k % Window].value = sent[k + 1]
    OBVIOUS
  <2>2. k % Window \in Slots
    BY ResidueIsSlot
  <2>3. CASE k % Window = next % Window
    BY <1>1, <1>2, <2>1, <2>2, <2>3, WindowPositive DEF Holds
  <2>4. CASE k % Window # next % Window
    <3>1. r[k % Window] = ring[k % Window]
      BY <1>2, <2>2, <2>4
    <3> QED BY <2>1, <2>2, <3>1 DEF IInv, RingConsistent, Holds
  <2> QED BY <2>3, <2>4
<1>4. ~Holds(r, next + Window)
  BY <1>1, <1>3, WindowPositive
<1>5. /\ m \in next..(next + Window)
      /\ ~Holds(r, m)
      /\ \A k \in next..(m - 1) : Holds(r, k)
  BY <1>1, <1>4, RunEndCorrect
<1>6. m \in Nat /\ next < m /\ m <= Len(sent)
  <2>1. m \in Nat /\ next <= m
    BY <1>1, <1>5, WindowPositive
  <2>2. Holds(r, next)
    BY <1>1, <1>2, ResidueIsSlot DEF Holds
  <2>3. m # next
    BY <1>5, <2>2
  <2>4. Holds(r, m - 1)
    BY <1>1, <1>5, <2>1, <2>3
  <2> QED BY <1>1, <1>3, <2>1, <2>3, <2>4
<1>7. m <= next + Window
  BY <1>1, <1>5, WindowPositive
<1>8. \A k \in Nat : Holds(r, k) => r[k % Window].value = sent[k + 1]
  BY <1>3
<1> QED BY <1>2, <1>5, <1>6, <1>7, <1>8

(* The awaited frame arrives: what the drain loop hands up is the next     *)
(* piece of the stamped stream, and what stays in the ring lies beyond it. *)
LEMMA NextIInv ==
    ASSUME IInv, NEW n \in 0..(Len(sent) - 1), OfferNext(n, sent[n + 1]),
           UNCHANGED sent, arrivals' \in Nat
    PROVE  IInv'
<1>1. /\ sent \in Seq(Value) /\ Len(sent) \in Nat
      /\ next \in Nat /\ n = next /\ next < Len(sent)
  BY LenProperties DEF IInv, TypeOK, OfferNext
<1> DEFINE r == Stored(ring, next, sent[next + 1])
           m == RunEnd(r, next)
<1>2. /\ ring' = Cleared(r, next, m)
      /\ next' = m
      /\ stats' = [NoteOccupancy(stats, r) EXCEPT !.released = @ + (m - next)]
      /\ released' = released \o Emitted(r, next, m)
  BY <1>1 DEF OfferNext
<1> HIDE DEF r, m
<1>3. /\ r \in [Slots -> Slot]
      /\ \A i \in Slots : r[i] =
           IF i = next % Window
             THEN [seq |-> next, value |-> sent[next + 1], present |-> TRUE]
             ELSE ring[i]
  BY <1>1, DrainRun DEF r, m
<1>4. \A k \in Nat : Holds(r, k) => r[k % Window].value = sent[k + 1]
  BY <1>1, DrainRun DEF r, m
<1>6. ~Holds(r, m) /\ \A k \in next..(m - 1) : Holds(r, k)
  BY <1>1, DrainRun DEF r, m
<1>7. m \in Nat /\ next < m /\ m <= Len(sent)
  BY <1>1, DrainRun DEF r, m
<1>8. Emitted(r, next, m) = SubSeq(sent, next + 1, m)
  <2>1. /\ SubSeq(sent, next + 1, m) \in Seq(Value)
        /\ Len(SubSeq(sent, next + 1, m)) = m - next
        /\ \A j \in 1..(m - next) : SubSeq(sent, next + 1, m)[j] = sent[next + j]
    <3>1. \A i \in (next + 1)..m : sent[i] \in Value
      BY <1>1, <1>7, ElementOfSeq
    <3> QED BY <1>1, <1>7, <3>1, SubSeqProperties
  <2>2. \A j \in 1..(m - next) : r[(next + j - 1) % Window].value = sent[next + j]
    <3>1. SUFFICES ASSUME NEW j \in 1..(m - next)
                   PROVE  r[(next + j - 1) % Window].value = sent[next + j]
      OBVIOUS
    <3>2. next + j - 1 \in next..(m - 1) /\ next + j - 1 \in Nat
      BY <1>1, <1>7
    <3> QED BY <1>1, <1>4, <1>6, <3>2
  <2> DEFINE piece == SubSeq(sent, next + 1, m)
             e(j) == r[(next + j - 1) % Window].value
  <2>3. piece = [j \in 1..(m - next) |-> piece[j]]
    BY <2>1, LenProperties
  <2>4. \A j \in 1..(m - next) : e(j) = piece[j]
    <3>1. SUFFICES ASSUME NEW j \in 1..(m - next) PROVE e(j) = piece[j]
      OBVIOUS
    <3> QED BY <2>1, <2>2
  <2>5. Emitted(r, next, m) = [j \in 1..(m - next) |-> e(j)]
    BY DEF Emitted
  <2> HIDE DEF piece, e
  <2>6. Emitted(r, next, m) = piece
    BY <2>3, <2>4, <2>5
  <2> QED BY <2>6 DEF piece
<1>9. ReleasedIsPrefix'
  <2>1. released = SubSeq(sent, 1, next)
    BY DEF IInv, ReleasedIsPrefix
  <2>2. SubSeq(sent, 1, next) \o SubSeq(sent, next + 1, m) = SubSeq(sent, 1, m)
    BY <1>1, <1>7, ConcatAdjacentSubSeq
  <2> QED BY <1>2, <1>7, <1>8, <2>1, <2>2 DEF ReleasedIsPrefix
<1>10. TypeOK'
  <2>1. ring' \in [Slots -> Slot]
    BY <1>2, <1>3 DEF Cleared, Slot
  <2>2. stats' \in Stats
    <3>1. NoteOccupancy(stats, r) \in Stats
      BY NoteOccupancyType DEF IInv, TypeOK
    <3>2. m - next \in Nat
      BY <1>1, <1>7
    <3> DEFINE st == NoteOccupancy(stats, r)
               d == m - next
    <3>3. st \in Stats /\ d \in Nat /\ stats' = [st EXCEPT !.released = @ + d]
      BY <1>2, <3>1, <3>2
    <3> HIDE DEF st, d
    <3> QED BY <3>3 DEF Stats
  <2>3. released' \in Seq(Value)
    <3>1. SubSeq(sent, 1, m) \in Seq(Value)
      <4>1. \A i \in 1..m : sent[i] \in Value
        BY <1>1, <1>7, ElementOfSeq
      <4> QED BY <1>7, <4>1, SubSeqProperties
    <3> QED BY <1>2, <1>9, <3>1 DEF ReleasedIsPrefix
  <2> QED BY <1>1, <1>2, <1>7, <2>1, <2>2, <2>3 DEF TypeOK
<1>11. RingConsistent'
  <2>1. SUFFICES ASSUME NEW i \in Slots, ring'[i].present
                 PROVE  /\ m < ring'[i].seq /\ ring'[i].seq < m + Window
                        /\ ring'[i].seq < Len(sent)
                        /\ ring'[i].seq % Window = i
                        /\ ring'[i].value = sent[ring'[i].seq + 1]
    BY <1>2 DEF RingConsistent
  <2>2. ring'[i] = r[i] /\ \A k \in next..(m - 1) : k % Window # i
    <3>1. CASE \E k \in next..(m - 1) : k % Window = i
      <4>1. ring'[i] = [r[i] EXCEPT !.present = FALSE, !.value = NoValue]
        BY <1>2, <3>1 DEF Cleared
      <4> QED BY <1>3, <2>1, <4>1 DEF Slot
    <3>2. CASE ~ \E k \in next..(m - 1) : k % Window = i
      BY <1>2, <3>2 DEF Cleared
    <3> QED BY <3>1, <3>2
  <2>3. r[i] = ring[i]
    <3>1. i # next % Window
      BY <1>1, <1>7, <2>2
    <3> QED BY <1>3, <3>1
  <2>4. /\ ring[i].seq \in Nat
        /\ next < ring[i].seq /\ ring[i].seq < next + Window
        /\ ring[i].seq < Len(sent)
        /\ ring[i].seq % Window = i
        /\ ring[i].value = sent[ring[i].seq + 1]
    BY <2>1, <2>2, <2>3 DEF IInv, RingConsistent, TypeOK, Slot
  <2>5. ring[i].seq >= m
    BY <1>1, <1>7, <2>2, <2>4
  <2>6. ring[i].seq # m
    BY <1>6, <2>1, <2>2, <2>3, <2>4 DEF Holds
  <2> QED BY <1>1, <1>7, <2>2, <2>3, <2>4, <2>5, <2>6, WindowPositive
<1> QED BY <1>9, <1>10, <1>11 DEF IInv

LEMMA ArriveIInv ==
    ASSUME IInv, NEW n \in 0..(Len(sent) - 1), Arrive(n)
    PROVE  IInv'
<1>1. arrivals' \in Nat /\ UNCHANGED sent
  BY DEF IInv, TypeOK, Arrive
<1>2. CASE /\ stats' \in Stats /\ UNCHANGED <<ring, next, released>>
  BY <1>1, <1>2 DEF IInv, TypeOK, ReleasedIsPrefix, RingConsistent
<1>a. \A k \in Nat : [stats EXCEPT !.duplicates = k] \in Stats /\ [stats EXCEPT !.overflow = k] \in Stats
  BY DEF IInv, TypeOK, Stats
<1>b. stats.duplicates + 1 \in Nat /\ stats.overflow + 1 \in Nat
  BY DEF IInv, TypeOK, Stats
<1>3. CASE OfferStale(n)
  <2>1. stats' = [stats EXCEPT !.duplicates = stats.duplicates + 1] /\ UNCHANGED <<ring, next, released>>
    BY <1>3 DEF OfferStale
  <2> QED BY <1>2, <1>a, <1>b, <2>1
<1>4. CASE OfferOverflow(n)
  <2>1. stats' = [stats EXCEPT !.overflow = stats.overflow + 1] /\ UNCHANGED <<ring, next, released>>
    BY <1>4 DEF OfferOverflow
  <2> QED BY <1>2, <1>a, <1>b, <2>1
<1>5. CASE OfferBufferedCopy(n)
  <2>1. stats' = [stats EXCEPT !.duplicates = stats.duplicates + 1] /\ UNCHANGED <<ring, next, released>>
    BY <1>5 DEF OfferBufferedCopy
  <2> QED BY <1>2, <1>a, <1>b, <2>1
<1>6. CASE OfferAhead(n, sent[n + 1])
  BY <1>1, <1>6, AheadIInv
<1>7. CASE OfferNext(n, sent[n + 1])
  BY <1>1, <1>7, NextIInv
<1> QED BY <1>3, <1>4, <1>5, <1>6, <1>7 DEF Arrive, Offer

LEMMA NextPreservesIInv == IInv /\ [Next]_vars => IInv'
<1> SUFFICES ASSUME IInv, [Next]_vars PROVE IInv'
  OBVIOUS
<1>1. CASE \E v \in Value : Stamp(v)
  BY <1>1, StampIInv
<1>2. CASE \E n \in 0..(Len(sent) - 1) : Arrive(n)
  BY <1>2, ArriveIInv
<1>3. CASE UNCHANGED vars
  BY <1>3 DEF vars, IInv, TypeOK, ReleasedIsPrefix, RingConsistent
<1> QED BY <1>1, <1>2, <1>3 DEF Next

(* The inductive invariant holds in every reachable state.                 *)
THEOREM Invariance == Spec => []IInv
BY InitIInv, NextPreservesIInv, PTL DEF Spec

(* offer() keeps every field within its type, for every window.            *)
THEOREM TypeCorrect == Spec => []TypeOK
BY Invariance, PTL DEF IInv

(* C1 for every window, every loss, duplication and reordering: the sink   *)
(* of offer() has seen exactly the stamped prefix, in order, each once.    *)
THEOREM InOrderExactlyOnce == Spec => []ReleasedIsPrefix
BY Invariance, PTL DEF IInv

(* The ring only ever buffers frames of the open window, at their residue. *)
THEOREM RingIsConsistent == Spec => []RingConsistent
BY Invariance, PTL DEF IInv

(* What a buffered frame may become in a step: it stays or is released.    *)
BufferKept ==
    \A i \in Slots : ring[i].present =>
        \/ ring'[i] = ring[i]
        \/ ring[i].seq < next'

(* The residues of the open window are distinct, so a store never lands on *)
(* another frame's slot.                                                   *)
LEMMA StepKeepsBuffer ==
    ASSUME IInv, Next
    PROVE  BufferKept
<1>1. SUFFICES ASSUME NEW i \in Slots, ring[i].present
               PROVE  ring'[i] = ring[i] \/ ring[i].seq < next'
  BY DEF BufferKept
<1> DEFINE s == ring[i].seq
<1>2. /\ next \in Nat /\ s \in Nat
      /\ next < s /\ s < next + Window
  BY <1>1 DEF IInv, TypeOK, RingConsistent, Slot
<1>r. s % Window = i
  BY <1>1 DEF IInv, TypeOK, RingConsistent, Slot
<1> HIDE DEF s
<1>3. CASE \E v \in Value : Stamp(v)
  BY <1>3 DEF Stamp
<1>4. CASE \E n \in 0..(Len(sent) - 1) : Arrive(n)
  <2>1. PICK n \in 0..(Len(sent) - 1) : Arrive(n)
    BY <1>4
  <2>2. /\ n \in Nat /\ sent \in Seq(Value) /\ Len(sent) \in Nat
        /\ sent[n + 1] \in Value
    BY ElementOfSeq, LenProperties DEF IInv, TypeOK
  <2>3. CASE UNCHANGED ring
    BY <2>3
  <2>4. CASE OfferAhead(n, sent[n + 1])
    <3>1. n % Window # i
      <4>1. SUFFICES ASSUME n % Window = i PROVE FALSE
        OBVIOUS
      <4>2. n - s < Window /\ s - n < Window
        BY <1>2, <2>2, <2>4, WindowPositive DEF OfferAhead
      <4>3. n = s
        BY <1>2, <1>r, <2>2, <4>1, <4>2, ResidueInjective
      <4> QED BY <1>1, <2>4, <4>1, <4>3 DEF OfferAhead, Holds, s
    <3>2. ring'[i] = ring[i]
      BY <2>2, <2>4, <3>1, StoredType DEF OfferAhead
    <3> QED BY <3>2
  <2>5. CASE OfferNext(n, sent[n + 1])
    <3>1. IInv'
      BY <2>1, ArriveIInv
    <3> DEFINE r == Stored(ring, next, sent[n + 1])
    <3>2. n = next /\ ring' = Cleared(r, next, next')
      BY <2>5 DEF OfferNext
    <3>3. i # next % Window
      <4>1. SUFFICES ASSUME i = next % Window PROVE FALSE
        OBVIOUS
      <4>2. s - next < Window /\ next - s < Window
        BY <1>2, WindowPositive
      <4>3. s = next
        BY <1>2, <1>r, <4>1, <4>2, ResidueInjective
      <4> QED BY <1>2, <4>3
    <3>4. r[i] = ring[i]
      BY <1>2, <2>2, <3>2, <3>3, StoredType
    <3> HIDE DEF r
    <3>5. CASE \E k \in next..(next' - 1) : k % Window = i
      <4>1. PICK m \in Nat : m = next' /\ m <= next + Window
        <5>1. next' \in Nat
          BY <3>1 DEF IInv, TypeOK
        <5>2. next' <= next + Window
          BY <2>2, <2>5, <3>2, DrainRun DEF OfferNext
        <5> QED BY <5>1, <5>2
      <4>2. PICK k \in next..(m - 1) : k % Window = i
        BY <3>5, <4>1
      <4>3. k \in Nat /\ k - s < Window /\ s - k < Window /\ k < m
        <5>1. Window \in Nat
          BY WindowPositive
        <5> QED BY ONLY <1>2, <4>1, <4>2, <5>1, WithinWindow
      <4>4. k = s
        BY <1>2, <1>r, <4>2, <4>3, ResidueInjective
      <4> QED BY <4>1, <4>3, <4>4 DEF s
    <3>6. CASE ~ \E k \in next..(next' - 1) : k % Window = i
      BY <3>2, <3>4, <3>6 DEF Cleared
    <3> QED BY <3>5, <3>6
  <2> QED BY <2>1, <2>3, <2>4, <2>5
          DEF Arrive, Offer, OfferStale, OfferOverflow, OfferBufferedCopy
<1> QED BY <1>3, <1>4 DEF Next

(* No step of offer() loses a buffered frame: the residues of the open     *)
(* window are distinct, so a store never overwrites another frame.         *)
THEOREM NoBufferedFrameLost == Spec => BufferedIsKept
<1>1. IInv /\ [Next]_vars => [BufferKept]_vars
  BY StepKeepsBuffer
<1> QED BY <1>1, Invariance, PTL DEF Spec, BufferedIsKept, BufferKept

(* The awaited number only grows.                                          *)
LEMMA NextGrows ==
    ASSUME IInv, [Next]_vars
    PROVE  next \in Nat /\ next' \in Nat /\ next <= next'
<1>1. next \in Nat /\ next' \in Nat
  BY NextPreservesIInv DEF IInv, TypeOK
<1>2. ASSUME NEW n \in 0..(Len(sent) - 1), Arrive(n), OfferNext(n, sent[n + 1])
      PROVE  next <= next'
  <2>1. n = next /\ next < Len(sent)
    BY <1>1, <1>2 DEF OfferNext, IInv, TypeOK
  <2> QED BY <1>1, <1>2, <2>1, DrainRun DEF OfferNext
<1>3. CASE UNCHANGED next
  BY <1>1, <1>3
<1>4. \/ UNCHANGED next
      \/ \E n \in 0..(Len(sent) - 1) : Arrive(n) /\ OfferNext(n, sent[n + 1])
  BY DEF Next, Stamp, Arrive, Offer, OfferStale, OfferOverflow, OfferBufferedCopy,
         OfferAhead, vars
<1> QED BY <1>1, <1>2, <1>3, <1>4

(* A frame offered is handed up, buffered, or counted as overflow.         *)
LEMMA OfferSettles ==
    ASSUME IInv, NEW n \in 0..(Len(sent) - 1), Arrive(n)
    PROVE  n < next' \/ Holds(ring', n) \/ stats'.overflow > stats.overflow
<1>1. /\ n \in Nat /\ next \in Nat /\ stats \in Stats
      /\ sent \in Seq(Value) /\ Len(sent) \in Nat /\ sent[n + 1] \in Value
  BY ElementOfSeq, LenProperties DEF IInv, TypeOK
<1>2. CASE OfferStale(n) \/ OfferOverflow(n) \/ OfferBufferedCopy(n)
  BY <1>1, <1>2 DEF OfferStale, OfferOverflow, OfferBufferedCopy, Stats
<1>3. CASE OfferAhead(n, sent[n + 1])
  <2>1. n % Window \in Slots
    BY <1>1, ResidueIsSlot
  <2>2. ring'[n % Window] = [seq |-> n, value |-> sent[n + 1], present |-> TRUE]
    BY <1>1, <1>3, <2>1, StoredType DEF OfferAhead
  <2> QED BY <2>2 DEF Holds
<1>4. CASE OfferNext(n, sent[n + 1])
  <2> DEFINE r == Stored(ring, next, sent[next + 1])
  <2>1. n = next /\ next < Len(sent) /\ next' = RunEnd(r, next)
    BY <1>1, <1>4 DEF OfferNext
  <2> HIDE DEF r
  <2>2. next < next'
    BY <2>1, DrainRun DEF r
  <2> QED BY <2>1, <2>2
<1> QED BY <1>2, <1>3, <1>4 DEF Arrive, Offer

-----------------------------------------------------------------------------
(* The link                                                                *)

(* The numbers the stamper has given out.                                  *)
Stamped == 0..(Len(sent) - 1)

(* The inductive invariant: whatever is tracked, collected for another     *)
(* try, on the wire or at the broker carries a number that was stamped.    *)
NumbersStamped ==
    /\ packetId \in 0..(IdModulus - 1)
    /\ call \in [Thread -> [pc : {"idle", "track", "write"}, seq : Nat, pid : PacketId]]
    /\ \A t \in Thread : call[t].pc # "idle" => call[t].seq \in Stamped
    /\ \A p \in DOMAIN inflight : p \in PacketId /\ inflight[p] \in [seq : Stamped, tries : Nat]
    /\ resend \subseteq [pid : PacketId, seq : Stamped]
    /\ wire \in Seq(Publish)
    /\ \A i \in 1..Len(wire) : wire[i].seq \in Stamped
    /\ topic \subseteq Stamped

(* Initially nothing is under way (the constructor).                       *)
LEMMA LinkInitStamped == LinkInit => Init /\ NumbersStamped
<1> SUFFICES ASSUME LinkInit PROVE Init /\ NumbersStamped
  OBVIOUS
<1>1. IdModulus \in Nat /\ IdModulus > 2
  BY MqttLinkAssumption
<1>2. 1 \in PacketId /\ packetId \in 0..(IdModulus - 1)
  BY <1>1 DEF LinkInit, PacketId
<1>3. call \in [Thread -> [pc : {"idle", "track", "write"}, seq : Nat, pid : PacketId]]
  BY <1>2 DEF LinkInit, NoCall
<1> QED BY <1>2, <1>3 DEF LinkInit, NumbersStamped, NoCall

(* next_packet_id() never returns 0 and stays within its width.            *)
LEMMA PacketIdRange ==
    ASSUME packetId \in 0..(IdModulus - 1)
    PROVE  NextPacketId \in PacketId /\ AfterPacketId \in 0..(IdModulus - 1)
BY MqttLinkAssumption DEF NextPacketId, AfterPacketId, PacketId

(* A step of the link is a step of the resequencer or leaves it alone.     *)
LEMMA LinkStep ==
    ASSUME NumbersStamped, [LinkNext]_<<vars, linkVars>>
    PROVE  [Next]_vars
<1>1. CASE UNCHANGED <<vars, linkVars>>
  BY <1>1
<1>2. CASE \E t \in Thread, v \in Value : SendNumber(t, v)
  BY <1>2 DEF SendNumber, Next
<1>3. CASE \E n \in topic : HandlePublish(n)
  BY <1>3 DEF HandlePublish, Next, NumbersStamped, Stamped
<1>4. CASE \/ Connect \/ SubscribeInbox \/ StartFails \/ Stop \/ Break
           \/ \E t \in Thread : SendTrack(t) \/ SendWrite(t) \/ SendFail(t)
           \/ BrokerAccept \/ BrokerIgnore \/ HandlePuback
           \/ \E pids \in SUBSET DOMAIN inflight : RetryScan(pids)
           \/ \E p \in resend : RetryWrite(p)
  BY <1>4 DEF Connect, SubscribeInbox, StartFails, Stop, Break, SendTrack, SendWrite,
              SendFail, BrokerAccept, BrokerIgnore, HandlePuback, RetryScan, RetryWrite
<1> QED BY <1>1, <1>2, <1>3, <1>4 DEF LinkNext

(* No step forgets a number.                                               *)
LEMMA StampedGrows ==
    ASSUME IInv, [Next]_vars
    PROVE  Stamped \subseteq Stamped' /\ Len(sent) \in Nat /\ Len(sent') \in Nat
<1>1. sent \in Seq(Value)
  BY DEF IInv, TypeOK
<1>2. CASE \E v \in Value : Stamp(v)
  BY <1>1, <1>2 DEF Stamp, Stamped
<1>3. CASE sent' = sent
  BY <1>1, <1>3 DEF Stamped
<1> QED BY <1>2, <1>3 DEF Next, Arrive, vars

(* Every step keeps the numbers stamped.                                   *)
LEMMA LinkNextStamped ==
    ASSUME IInv, NumbersStamped, [LinkNext]_<<vars, linkVars>>
    PROVE  NumbersStamped'
<1>1. Stamped \subseteq Stamped' /\ Len(sent) \in Nat /\ Len(sent') \in Nat
  BY LinkStep, StampedGrows
<1>2. CASE UNCHANGED linkVars
  BY <1>1, <1>2 DEF NumbersStamped, linkVars
<1>3. CASE Connect \/ SubscribeInbox \/ StartFails \/ Stop \/ Break
  <2>1. packetId' \in 0..(IdModulus - 1)
    BY <1>3, PacketIdRange
       DEF NumbersStamped, Connect, SubscribeInbox, StartFails, Stop, Break
  <2>2. /\ UNCHANGED <<call, inflight, resend, topic>>
        /\ wire' = wire \/ wire' = << >>
    BY <1>3 DEF Connect, SubscribeInbox, StartFails, Stop, Break
  <2>3. wire' \in Seq(Publish) /\ \A i \in 1..Len(wire') : wire'[i].seq \in Stamped'
    <3>1. CASE wire' = wire
      BY <1>1, <3>1 DEF NumbersStamped
    <3>2. CASE wire' = << >>
      BY <3>2
    <3> QED BY <2>2, <3>1, <3>2
  <2> QED BY <1>1, <2>1, <2>2, <2>3 DEF NumbersStamped
<1>4. ASSUME NEW t \in Thread, NEW v \in Value, SendNumber(t, v) PROVE NumbersStamped'
  <2>1. Len(sent) \in Stamped'
    BY <1>1, <1>4 DEF SendNumber, Stamp, Stamped, IInv, TypeOK
  <2>2. call' = [call EXCEPT ![t] = [pc |-> "track", seq |-> Len(sent), pid |-> NextPacketId]]
    BY <1>4 DEF SendNumber
  <2>3. /\ call' \in [Thread -> [pc : {"idle", "track", "write"}, seq : Nat, pid : PacketId]]
        /\ \A u \in Thread : call'[u].pc # "idle" => call'[u].seq \in Stamped'
    BY <1>1, <2>1, <2>2, PacketIdRange DEF NumbersStamped
  <2> QED BY <1>1, <1>4, <2>3, PacketIdRange DEF NumbersStamped, SendNumber
<1>5. ASSUME NEW t \in Thread, SendTrack(t) PROVE NumbersStamped'
  <2>1. /\ call' \in [Thread -> [pc : {"idle", "track", "write"}, seq : Nat, pid : PacketId]]
        /\ \A u \in Thread : call'[u].pc # "idle" => call'[u].seq \in Stamped'
    BY <1>1, <1>5 DEF NumbersStamped, SendTrack
  <2>2. \A p \in DOMAIN inflight' :
            p \in PacketId /\ inflight'[p] \in [seq : Stamped', tries : Nat]
    BY <1>1, <1>5 DEF NumbersStamped, SendTrack, Tracked
  <2> QED BY <1>1, <1>5, <2>1, <2>2 DEF NumbersStamped, SendTrack
<1>6. ASSUME NEW t \in Thread, SendWrite(t) PROVE NumbersStamped'
  <2>1. /\ call' \in [Thread -> [pc : {"idle", "track", "write"}, seq : Nat, pid : PacketId]]
        /\ \A u \in Thread : call'[u].pc # "idle" => call'[u].seq \in Stamped'
    BY <1>1, <1>6, MqttLinkAssumption DEF NumbersStamped, SendWrite, NoCall, PacketId
  <2>2. [pid |-> call[t].pid, seq |-> call[t].seq] \in Publish /\ call[t].seq \in Stamped
    BY <1>6 DEF NumbersStamped, SendWrite, Publish
  <2>3. wire' \in Seq(Publish) /\ \A i \in 1..Len(wire') : wire'[i].seq \in Stamped'
    BY <1>1, <1>6, <2>2 DEF NumbersStamped, SendWrite
  <2> QED BY <1>1, <1>6, <2>1, <2>3 DEF NumbersStamped, SendWrite
<1>7. ASSUME NEW t \in Thread, SendFail(t) PROVE NumbersStamped'
  <2>1. /\ call' \in [Thread -> [pc : {"idle", "track", "write"}, seq : Nat, pid : PacketId]]
        /\ \A u \in Thread : call'[u].pc # "idle" => call'[u].seq \in Stamped'
    BY <1>1, <1>7, MqttLinkAssumption DEF NumbersStamped, SendFail, NoCall, PacketId
  <2> QED BY <1>1, <1>7, <2>1 DEF NumbersStamped, SendFail, Forget
<1>8. CASE BrokerAccept \/ BrokerIgnore
  <2>1. wire # << >> /\ wire' = Tail(wire)
    BY <1>8 DEF BrokerAccept, BrokerIgnore
  <2>2. wire' \in Seq(Publish) /\ \A i \in 1..Len(wire') : wire'[i].seq \in Stamped'
    BY <1>1, <2>1 DEF NumbersStamped
  <2>3. Head(wire).seq \in Stamped
    BY <2>1 DEF NumbersStamped
  <2> QED BY <1>1, <1>8, <2>2, <2>3 DEF NumbersStamped, BrokerAccept, BrokerIgnore
<1>9. CASE HandlePuback
  BY <1>1, <1>9 DEF NumbersStamped, HandlePuback, Forget
<1>10. CASE \E n \in topic : HandlePublish(n)
  BY <1>1, <1>10 DEF NumbersStamped, HandlePublish
<1>11. ASSUME NEW pids \in SUBSET DOMAIN inflight, RetryScan(pids) PROVE NumbersStamped'
  <2>1. \A p \in DOMAIN inflight' :
            p \in PacketId /\ inflight'[p] \in [seq : Stamped', tries : Nat]
    BY <1>1, <1>11 DEF NumbersStamped, RetryScan
  <2>2. resend' \subseteq [pid : PacketId, seq : Stamped']
    BY <1>1, <1>11 DEF NumbersStamped, RetryScan
  <2> QED BY <1>1, <1>11, <2>1, <2>2 DEF NumbersStamped, RetryScan
<1>12. ASSUME NEW p \in resend, RetryWrite(p) PROVE NumbersStamped'
  <2>1. p \in Publish /\ p.seq \in Stamped
    BY DEF NumbersStamped, Publish, Stamped
  <2>2. wire' \in Seq(Publish) /\ \A i \in 1..Len(wire') : wire'[i].seq \in Stamped'
    BY <1>1, <1>12, <2>1 DEF NumbersStamped, RetryWrite
  <2> QED BY <1>1, <1>12, <2>2 DEF NumbersStamped, RetryWrite
<1> QED BY <1>2, <1>3, <1>4, <1>5, <1>6, <1>7, <1>8, <1>9, <1>10, <1>11, <1>12 DEF LinkNext

(* Everything under way on an MQTT link carries a number of the stamper,   *)
(* and the resequencer behind it keeps its own invariant.                  *)
THEOREM LinkInvariance == LinkSpec => [](IInv /\ NumbersStamped)
<1>1. LinkInit => IInv /\ NumbersStamped
  BY LinkInitStamped, InitIInv
<1>2. IInv /\ NumbersStamped /\ [LinkNext]_<<vars, linkVars>> => (IInv /\ NumbersStamped)'
  BY LinkStep, LinkNextStamped, NextPreservesIInv
<1> QED BY <1>1, <1>2, PTL DEF LinkSpec

(* The MQTT link, with its retries, wrapping packet ids and lost packets,  *)
(* implements the resequencer over an arbitrary substrate.                 *)
THEOREM LinkImplementsResequencer == LinkSpec => Spec
<1>1. LinkInit => Init
  BY LinkInitStamped
<1>2. NumbersStamped /\ [LinkNext]_<<vars, linkVars>> => [Next]_vars
  BY LinkStep
<1> QED BY <1>1, <1>2, LinkInvariance, PTL DEF LinkSpec, Spec

(* C1 of the MQTT link: frames are handed up in the order of send(), each  *)
(* once.                                                                   *)
THEOREM LinkInOrder == LinkSpec => []ReleasedIsPrefix
BY LinkImplementsResequencer, InOrderExactlyOnce, PTL

(* No step of the MQTT link loses a frame that waits behind a gap.         *)
THEOREM LinkKeepsBuffered == LinkSpec => BufferedIsKept
BY LinkImplementsResequencer, NoBufferedFrameLost, PTL

-----------------------------------------------------------------------------
(* No frame disappears unnoticed                                           *)

(* The packets that carry a packet id, with the number of their frame: of  *)
(* a send() under way, tracked, collected for another try, on the wire.    *)
Carried ==
    {<<call[t].pid, call[t].seq>> : t \in {u \in Thread : call[u].pc # "idle"}}
      \cup {<<p, inflight[p].seq>> : p \in DOMAIN inflight}
      \cup {<<p.pid, p.seq>> : p \in resend}
      \cup {<<wire[i].pid, wire[i].seq>> : i \in 1..Len(wire)}

(* While no id came round too early it names one frame, ...                *)
IdsNameFrames == ~reused => \A a, b \in Carried : a[1] = b[1] => a[2] = b[2]

(* ... and a PUBACK on its way is for a frame the broker has.              *)
AcksSound ==
    /\ acks \in Seq(PacketId)
    /\ ~reused => \A i \in 1..Len(acks), a \in Carried : a[1] = acks[i] => a[2] \in topic

(* What was delivered is handed up, buffered, or counted.                  *)
SeenSettled ==
    /\ seen \subseteq topic
    /\ \A n \in seen : n < next \/ Holds(ring, n) \/ n \in lost

TrackedNumbers == {inflight[p].seq : p \in DOMAIN inflight}

(* Until the broker has a frame or it is given up, it is about to be       *)
(* tracked or tracked: a packet on the wire is not needed for that, so one *)
(* the broker ignores is missed by nobody.                                 *)
AccountedFor ==
    link \in {"down", "connected", "up"} /\ ~reused =>
        \A n \in Stamped :
            \/ n \in topic \cup lost \cup TrackedNumbers
            \/ \E t \in Thread : call[t].pc = "track" /\ call[t].seq = n

(* The inductive invariant.                                                *)
LossInv == IdsNameFrames /\ AcksSound /\ SeenSettled /\ AccountedFor

LEMMA LinkInitLoss == LinkInit => LossInv
BY DEF LinkInit, Init, LossInv, IdsNameFrames, AcksSound, SeenSettled, AccountedFor,
       Carried, Stamped, NoCall

(* Nothing but send() gives a packet id to a frame.                        *)
LEMMA CarriedShrinks ==
    ASSUME NumbersStamped, [LinkNext]_<<vars, linkVars>>,
           ~ \E t \in Thread, v \in Value : SendNumber(t, v)
    PROVE  Carried' \subseteq Carried /\ reused' = reused
<1>1. reused' = reused
  BY DEF LinkNext, Connect, SubscribeInbox, StartFails, Stop, Break, SendTrack, SendWrite,
         SendFail, BrokerAccept, BrokerIgnore, HandlePuback, HandlePublish, RetryScan,
         RetryWrite, linkVars
<1>2. ASSUME UNCHANGED <<call, inflight, resend>>, wire' = wire \/ wire' = << >>
      PROVE  Carried' \subseteq Carried
  <2>1. \A i \in 1..Len(wire') : i \in 1..Len(wire) /\ wire'[i] = wire[i]
    BY <1>2
  <2> QED BY <1>2, <2>1 DEF Carried
<1>3. ASSUME NEW t \in Thread, SendTrack(t) PROVE Carried' \subseteq Carried
  <2>1. UNCHANGED <<resend, wire>> /\ call[t].pc = "track"
    BY <1>3 DEF SendTrack
  <2>2. \A u \in Thread : call'[u].pc # "idle" =>
            call[u].pc # "idle" /\ call'[u].pid = call[u].pid /\ call'[u].seq = call[u].seq
    BY <1>3 DEF SendTrack, NumbersStamped
  <2>3. \A p \in DOMAIN inflight' :
            \/ p \in DOMAIN inflight /\ inflight'[p].seq = inflight[p].seq
            \/ p = call[t].pid /\ inflight'[p].seq = call[t].seq
    BY <1>3 DEF SendTrack, Tracked
  <2> QED BY <2>1, <2>2, <2>3 DEF Carried
<1>4. ASSUME NEW t \in Thread, SendWrite(t) PROVE Carried' \subseteq Carried
  <2>1. UNCHANGED <<resend, inflight>> /\ call[t].pc = "write"
    BY <1>4 DEF SendWrite
  <2>2. \A u \in Thread : call'[u].pc # "idle" => u # t /\ call'[u] = call[u]
    BY <1>4 DEF SendWrite, NumbersStamped, NoCall
  <2>3. \A i \in 1..Len(wire') :
            \/ i \in 1..Len(wire) /\ wire'[i] = wire[i]
            \/ wire'[i] = [pid |-> call[t].pid, seq |-> call[t].seq]
    BY <1>4 DEF SendWrite, NumbersStamped
  <2> QED BY <2>1, <2>2, <2>3 DEF Carried
<1>5. ASSUME NEW t \in Thread, SendFail(t) PROVE Carried' \subseteq Carried
  <2>1. UNCHANGED <<resend, wire>>
    BY <1>5 DEF SendFail
  <2>2. \A u \in Thread : call'[u].pc # "idle" => u # t /\ call'[u] = call[u]
    BY <1>5 DEF SendFail, NumbersStamped, NoCall
  <2>3. \A p \in DOMAIN inflight' : p \in DOMAIN inflight /\ inflight'[p] = inflight[p]
    BY <1>5 DEF SendFail, Forget
  <2> QED BY <2>1, <2>2, <2>3 DEF Carried
<1>6. ASSUME BrokerAccept \/ BrokerIgnore PROVE Carried' \subseteq Carried
  <2>1. UNCHANGED <<call, inflight, resend>> /\ wire # << >> /\ wire' = Tail(wire)
    BY <1>6 DEF BrokerAccept, BrokerIgnore
  <2>2. \A i \in 1..Len(wire') : i + 1 \in 1..Len(wire) /\ wire'[i] = wire[i + 1]
    BY <2>1 DEF NumbersStamped
  <2> QED BY <2>1, <2>2 DEF Carried
<1>7. ASSUME HandlePuback PROVE Carried' \subseteq Carried
  <2>1. \A p \in DOMAIN inflight' : p \in DOMAIN inflight /\ inflight'[p] = inflight[p]
    BY <1>7 DEF HandlePuback, Forget
  <2> QED BY <1>7, <2>1 DEF Carried, HandlePuback
<1>8. ASSUME NEW pids \in SUBSET DOMAIN inflight, RetryScan(pids) PROVE Carried' \subseteq Carried
  <2>1. UNCHANGED <<call, wire>>
    BY <1>8 DEF RetryScan
  <2>2. \A p \in DOMAIN inflight' : p \in DOMAIN inflight /\ inflight'[p].seq = inflight[p].seq
    BY <1>8 DEF RetryScan, NumbersStamped
  <2>3. \A p \in resend' : p.pid \in DOMAIN inflight /\ p.seq = inflight[p.pid].seq
    BY <1>8 DEF RetryScan
  <2> QED BY <2>1, <2>2, <2>3 DEF Carried
<1>9. ASSUME NEW p \in resend, RetryWrite(p) PROVE Carried' \subseteq Carried
  <2>1. UNCHANGED <<call, inflight>> /\ resend' \subseteq resend
    BY <1>9 DEF RetryWrite
  <2>2. p \in Publish
    BY DEF NumbersStamped, Publish, Stamped
  <2>3. \A i \in 1..Len(wire') : (i \in 1..Len(wire) /\ wire'[i] = wire[i]) \/ wire'[i] = p
    BY <1>9, <2>2 DEF RetryWrite, NumbersStamped
  <2> QED BY <2>1, <2>3 DEF Carried
<1> QED BY <1>1, <1>2, <1>3, <1>4, <1>5, <1>6, <1>7, <1>8, <1>9
        DEF LinkNext, Connect, SubscribeInbox, StartFails, Stop, Break, HandlePublish, linkVars

(* An id that is free names nothing and no PUBACK is about it.             *)
LEMMA FreeIdUnused ==
    ASSUME NumbersStamped, AcksSound, NEW pid, IdFree(pid)
    PROVE  /\ \A a \in Carried : a[1] # pid
           /\ \A i \in 1..Len(acks) : acks[i] # pid
BY DEF NumbersStamped, AcksSound, IdFree, Carried

(* Ids keep naming one frame: next_packet_id() hands out a free one, and   *)
(* everything else passes ids on with the number they came with.           *)
LEMMA IdsKept ==
    ASSUME NumbersStamped, IdsNameFrames, AcksSound, [LinkNext]_<<vars, linkVars>>
    PROVE  IdsNameFrames' /\ AcksSound'
<1>1. ASSUME NEW t \in Thread, NEW v \in Value, SendNumber(t, v)
      PROVE  IdsNameFrames' /\ AcksSound'
  <2>0. acks' \in Seq(PacketId)
    BY <1>1 DEF SendNumber, AcksSound
  <2> SUFFICES ASSUME ~reused' PROVE IdsNameFrames' /\ AcksSound'
    BY <2>0 DEF IdsNameFrames, AcksSound
  <2>1. ~reused /\ IdFree(NextPacketId)
    BY <1>1 DEF SendNumber
  <2>2. UNCHANGED <<inflight, resend, wire, acks, topic>>
    BY <1>1 DEF SendNumber
  <2>3. \A u \in Thread :
           call'[u] = IF u = t THEN [pc |-> "track", seq |-> Len(sent), pid |-> NextPacketId]
                      ELSE call[u]
    BY <1>1 DEF SendNumber, NumbersStamped
  <2>4. \A a \in Carried' : a \in Carried \/ a = <<NextPacketId, Len(sent)>>
    BY <2>2, <2>3 DEF Carried
  <2>5. /\ \A a \in Carried : a[1] # NextPacketId
        /\ \A i \in 1..Len(acks) : acks[i] # NextPacketId
    BY <2>1, FreeIdUnused
  <2>6. IdsNameFrames'
    BY <2>1, <2>4, <2>5 DEF IdsNameFrames
  <2>7. AcksSound'
    BY <2>0, <2>1, <2>2, <2>4, <2>5 DEF AcksSound
  <2> QED BY <2>6, <2>7
<1>2. CASE ~ \E t \in Thread, v \in Value : SendNumber(t, v)
  <2>1. Carried' \subseteq Carried /\ reused' = reused
    BY <1>2, CarriedShrinks
  <2>2. IdsNameFrames'
    BY <2>1 DEF IdsNameFrames
  <2>3. ASSUME BrokerAccept PROVE AcksSound'
    <3>0. acks' \in Seq(PacketId)
      <4>1. wire # << >> /\ wire \in Seq(Publish)
        BY <2>3 DEF BrokerAccept, NumbersStamped
      <4>2. Head(wire) \in Publish
        BY <4>1
      <4>3. Head(wire).pid \in PacketId
        BY <4>2 DEF Publish
      <4>4. acks \in Seq(PacketId)
        BY DEF AcksSound
      <4>5. Append(acks, Head(wire).pid) \in Seq(PacketId)
        BY <4>3, <4>4
      <4> QED BY <2>3, <4>4, <4>5 DEF BrokerAccept
    <3> SUFFICES ASSUME ~reused', NEW i \in 1..Len(acks'), NEW a \in Carried', a[1] = acks'[i]
                 PROVE  a[2] \in topic'
      BY <3>0 DEF AcksSound
    <3>1. /\ wire # << >> /\ topic' = topic \cup {Head(wire).seq}
          /\ acks' = acks \/ acks' = Append(acks, Head(wire).pid)
      BY <2>3 DEF BrokerAccept
    <3>2. <<Head(wire).pid, Head(wire).seq>> \in Carried
      BY <3>1 DEF Carried, NumbersStamped
    <3>3. (i \in 1..Len(acks) /\ acks'[i] = acks[i]) \/ acks'[i] = Head(wire).pid
      BY <3>1 DEF AcksSound
    <3> QED BY <2>1, <3>1, <3>2, <3>3 DEF IdsNameFrames, AcksSound
  <2>4. ASSUME ~BrokerAccept PROVE AcksSound'
    <3>1. topic' = topic /\ (acks' = acks \/ acks' = << >> \/ (acks # << >> /\ acks' = Tail(acks)))
      BY <1>2, <2>4
         DEF LinkNext, Connect, SubscribeInbox, StartFails, Stop, Break, SendTrack, SendWrite,
             SendFail, BrokerIgnore, HandlePuback, HandlePublish, RetryScan, RetryWrite, linkVars
    <3>2. \A i \in 1..Len(acks') : \E j \in 1..Len(acks) : acks'[i] = acks[j]
      <4> SUFFICES ASSUME NEW i \in 1..Len(acks') PROVE \E j \in 1..Len(acks) : acks'[i] = acks[j]
        OBVIOUS
      <4>1. CASE acks # << >> /\ acks' = Tail(acks)
        <5>1. i + 1 \in 1..Len(acks) /\ acks'[i] = acks[i + 1]
          BY <4>1 DEF AcksSound
        <5> QED BY <5>1
      <4> QED BY <3>1, <4>1
    <3>3. acks' \in Seq(PacketId)
      <4>1. acks \in Seq(PacketId)
        BY DEF AcksSound
      <4>2. acks # << >> => Tail(acks) \in Seq(PacketId)
        BY <4>1
      <4>3. << >> \in Seq(PacketId)
        OBVIOUS
      <4> QED BY <3>1, <4>1, <4>2, <4>3
    <3>4. ASSUME ~reused', NEW i \in 1..Len(acks'), NEW a \in Carried', a[1] = acks'[i]
          PROVE  a[2] \in topic'
      BY <2>1, <3>1, <3>2, <3>4 DEF AcksSound
    <3> QED BY <3>3, <3>4 DEF AcksSound
  <2> QED BY <2>2, <2>3, <2>4
<1> QED BY <1>1, <1>2

(* What offer() was given once stays handed up, buffered or counted.       *)
LEMMA SeenKept ==
    ASSUME IInv, NumbersStamped, SeenSettled, [LinkNext]_<<vars, linkVars>>
    PROVE  SeenSettled'
<1>1. [Next]_vars /\ IInv'
  BY LinkStep, NextPreservesIInv
<1>2. next \in Nat /\ next' \in Nat /\ next <= next'
  BY <1>1, NextGrows
<1>3. topic \subseteq topic' /\ lost \subseteq lost'
  BY DEF LinkNext, Connect, SubscribeInbox, StartFails, Stop, Break, SendNumber, SendTrack,
         SendWrite, SendFail, BrokerAccept, BrokerIgnore, HandlePuback, HandlePublish,
         RetryScan, RetryWrite, linkVars
<1>4. \A n \in Stamped : Holds(ring, n) => Holds(ring', n) \/ n < next'
  <2> SUFFICES ASSUME NEW n \in Stamped, Holds(ring, n) PROVE Holds(ring', n) \/ n < next'
    OBVIOUS
  <2>1. n \in Nat
    BY DEF Stamped
  <2>2. n % Window \in Slots
    BY <2>1, ResidueIsSlot
  <2>3. ring[n % Window].present /\ ring[n % Window].seq = n
    BY DEF Holds
  <2>4. CASE UNCHANGED vars
    BY <2>4 DEF vars
  <2>5. CASE Next
    <3>1. ring'[n % Window] = ring[n % Window] \/ ring[n % Window].seq < next'
      BY <2>2, <2>3, <2>5, StepKeepsBuffer DEF BufferKept
    <3> QED BY <2>3, <3>1 DEF Holds
  <2> QED BY <1>1, <2>4, <2>5
<1>5. seen \subseteq Stamped /\ Stamped \subseteq Nat
  BY DEF SeenSettled, NumbersStamped, Stamped
<1>6. \A n \in seen : n < next' \/ Holds(ring', n) \/ n \in lost'
  BY <1>2, <1>3, <1>4, <1>5 DEF SeenSettled
<1>7. ASSUME NEW n \in topic, HandlePublish(n) PROVE SeenSettled'
  <2>1. n \in 0..(Len(sent) - 1) /\ Arrive(n)
    BY <1>7 DEF HandlePublish, NumbersStamped, Stamped
  <2>2. n < next' \/ Holds(ring', n) \/ stats'.overflow > stats.overflow
    BY <2>1, OfferSettles
  <2>3. n < next' \/ Holds(ring', n) \/ n \in lost'
    BY <1>7, <2>2 DEF HandlePublish
  <2> QED BY <1>3, <1>6, <1>7, <2>3 DEF SeenSettled, HandlePublish
<1>8. CASE ~ \E n \in topic : HandlePublish(n)
  <2>1. seen' = seen
    BY <1>8 DEF LinkNext, Connect, SubscribeInbox, StartFails, Stop, Break, SendNumber, SendTrack,
         SendWrite, SendFail, BrokerAccept, BrokerIgnore, HandlePuback, RetryScan, RetryWrite,
         linkVars
  <2> QED BY <1>3, <1>6, <2>1 DEF SeenSettled
<1> QED BY <1>7, <1>8

(* The exits of a frame from the books are the broker and the counted      *)
(* losses: a PUBACK erases only what the broker has.                       *)
LEMMA AccountsKept ==
    ASSUME IInv, NumbersStamped, IdsNameFrames, AcksSound, AccountedFor,
           [LinkNext]_<<vars, linkVars>>
    PROVE  AccountedFor'
<1> DEFINE Alive == {"down", "connected", "up"}
           Filed(n) == \/ n \in topic \cup lost \cup TrackedNumbers
                       \/ \E t \in Thread : call[t].pc = "track" /\ call[t].seq = n
<1> SUFFICES ASSUME link' \in Alive, ~reused', NEW n \in Stamped'
             PROVE  Filed(n)'
  BY DEF AccountedFor
<1>1. link \in Alive
  BY DEF LinkNext, Connect, SubscribeInbox, StartFails, Stop, Break, SendNumber, SendTrack,
         SendWrite, SendFail, BrokerAccept, BrokerIgnore, HandlePuback, HandlePublish,
         RetryScan, RetryWrite, linkVars
<1>2. ~reused
  BY DEF LinkNext, Connect, SubscribeInbox, StartFails, Stop, Break, SendNumber, SendTrack,
         SendWrite, SendFail, BrokerAccept, BrokerIgnore, HandlePuback, HandlePublish,
         RetryScan, RetryWrite, linkVars
<1>3. n \in Stamped => Filed(n)
  BY <1>1, <1>2 DEF AccountedFor
<1>4. ASSUME NEW t \in Thread, NEW v \in Value, SendNumber(t, v) PROVE Filed(n)'
  <2>1. /\ UNCHANGED <<inflight, topic, lost>>
        /\ \A u \in Thread :
             call'[u] = IF u = t THEN [pc |-> "track", seq |-> Len(sent), pid |-> NextPacketId]
                      ELSE call[u]
    BY <1>4 DEF SendNumber, NumbersStamped
  <2>2. n \in Stamped \/ n = Len(sent)
    BY <1>4 DEF SendNumber, Stamp, Stamped, IInv, TypeOK
  <2>3. call[t].pc = "idle"
    BY <1>4 DEF SendNumber
  <2> QED BY <1>3, <2>1, <2>2, <2>3 DEF TrackedNumbers
<1>5. CASE ~ \E t \in Thread, v \in Value : SendNumber(t, v)
  <2>1. sent' = sent
    BY <1>5 DEF LinkNext, Connect, SubscribeInbox, StartFails, Stop, Break, SendTrack, SendWrite,
                SendFail, BrokerAccept, BrokerIgnore, HandlePuback, HandlePublish, Arrive,
                RetryScan, RetryWrite, vars
  <2>2. n \in Stamped /\ Filed(n)
    BY <1>3, <2>1 DEF Stamped
  <2>3. ASSUME NEW t \in Thread, SendTrack(t) PROVE Filed(n)'
    <3>1. /\ UNCHANGED <<topic, lost>>
          /\ \A u \in Thread : u # t => call'[u] = call[u]
      BY <2>3 DEF SendTrack, NumbersStamped
    <3>2. \A p \in DOMAIN inflight : p \in DOMAIN inflight' /\ inflight'[p] = inflight[p]
      BY <2>3 DEF SendTrack, Tracked
    <3>3. call[t].pid \in DOMAIN inflight' /\ inflight'[call[t].pid].seq = call[t].seq
      <4>1. CASE call[t].pid \in DOMAIN inflight
        <5>1. <<call[t].pid, call[t].seq>> \in Carried
          BY <2>3 DEF Carried, SendTrack
        <5>2. <<call[t].pid, inflight[call[t].pid].seq>> \in Carried
          BY <4>1 DEF Carried
        <5>3. inflight[call[t].pid].seq = call[t].seq
          BY <1>2, <5>1, <5>2 DEF IdsNameFrames
        <5> QED BY <3>2, <4>1, <5>3
      <4>2. CASE call[t].pid \notin DOMAIN inflight
        BY <2>3, <4>2 DEF SendTrack, Tracked
      <4> QED BY <4>1, <4>2
    <3>4. n \in TrackedNumbers => n \in TrackedNumbers'
      BY <3>2 DEF TrackedNumbers
    <3>5. call[t].seq \in TrackedNumbers'
      BY <3>3 DEF TrackedNumbers
    <3> QED BY <2>2, <3>1, <3>4, <3>5
  <2>4. ASSUME NEW t \in Thread, SendFail(t) PROVE Filed(n)'
    <3>1. /\ topic' = topic /\ lost' = lost \cup {call[t].seq} /\ call[t].pc = "write"
          /\ \A u \in Thread : u # t => call'[u] = call[u]
      BY <2>4 DEF SendFail, NumbersStamped
    <3>2. \A p \in DOMAIN inflight : p # call[t].pid =>
             p \in DOMAIN inflight' /\ inflight'[p] = inflight[p]
      BY <2>4 DEF SendFail, Forget
    <3>3. ASSUME call[t].pid \in DOMAIN inflight PROVE inflight[call[t].pid].seq = call[t].seq
      <4>1. <<call[t].pid, call[t].seq>> \in Carried
        BY <3>1 DEF Carried
      <4>2. <<call[t].pid, inflight[call[t].pid].seq>> \in Carried
        BY <3>3 DEF Carried
      <4> QED BY <1>2, <4>1, <4>2 DEF IdsNameFrames
    <3>4. n \in TrackedNumbers => n \in TrackedNumbers' \cup lost'
      BY <3>1, <3>2, <3>3 DEF TrackedNumbers
    <3> QED BY <2>2, <3>1, <3>4
  <2>5. CASE HandlePuback
    <3>1. /\ acks # << >> /\ UNCHANGED <<call, topic, lost>>
          /\ inflight' = Forget(inflight, {Head(acks)})
      BY <2>5 DEF HandlePuback
    <3>2. 1 \in 1..Len(acks) /\ Head(acks) = acks[1]
      BY <3>1 DEF AcksSound
    <3>3. ASSUME Head(acks) \in DOMAIN inflight PROVE inflight[Head(acks)].seq \in topic
      <4>1. <<Head(acks), inflight[Head(acks)].seq>> \in Carried
        BY <3>3 DEF Carried
      <4> QED BY <1>2, <3>2, <4>1 DEF AcksSound
    <3>4. n \in TrackedNumbers => n \in TrackedNumbers' \cup topic
      BY <3>1, <3>3 DEF TrackedNumbers, Forget
    <3> QED BY <2>2, <3>1, <3>4
  <2>6. ASSUME NEW pids \in SUBSET DOMAIN inflight, RetryScan(pids) PROVE Filed(n)'
    <3>1. UNCHANGED <<call, topic>> /\ lost \subseteq lost'
      BY <2>6 DEF RetryScan
    <3>2. \A p \in DOMAIN inflight :
             \/ inflight[p].seq \in lost'
             \/ p \in DOMAIN inflight' /\ inflight'[p].seq = inflight[p].seq
      BY <2>6 DEF RetryScan, NumbersStamped
    <3>3. n \in TrackedNumbers => n \in TrackedNumbers' \cup lost'
      BY <3>2 DEF TrackedNumbers
    <3> QED BY <2>2, <3>1, <3>3
  <2>7. ASSUME NEW t \in Thread, SendWrite(t) PROVE Filed(n)'
    <3>1. /\ UNCHANGED <<inflight, topic, lost>> /\ call[t].pc = "write"
          /\ \A u \in Thread : u # t => call'[u] = call[u]
      BY <2>7 DEF SendWrite, NumbersStamped
    <3> QED BY <2>2, <3>1 DEF TrackedNumbers
  <2>8. ASSUME UNCHANGED <<call, inflight>>, topic \subseteq topic', lost \subseteq lost'
        PROVE  Filed(n)'
    BY <2>2, <2>8 DEF TrackedNumbers
  <2> QED BY <1>5, <2>3, <2>4, <2>5, <2>6, <2>7, <2>8
          DEF LinkNext, Connect, SubscribeInbox, StartFails, Stop, Break, BrokerAccept,
              BrokerIgnore, HandlePublish, RetryWrite, linkVars
<1> QED BY <1>4, <1>5

(* The books of the link hold, whatever is retried, ignored or broken.     *)
THEOREM LossInvariance == LinkSpec => []LossInv
<1>1. IInv /\ NumbersStamped /\ LossInv /\ [LinkNext]_<<vars, linkVars>> => LossInv'
  BY IdsKept, SeenKept, AccountsKept DEF LossInv
<1> QED BY <1>1, LinkInitLoss, LinkInvariance, PTL DEF LinkSpec

(* While the link is up and no packet id came round within the in-flight   *)
(* window, every frame of send() is handed up, buffered, on its way or     *)
(* counted as lost, for any number of threads, retries and ids             *)
(* (handle_puback, retry_loop).                                            *)
THEOREM NothingLostSilently == LinkSpec => []NoSilentLoss
<1>1. NumbersStamped /\ LossInv => NoSilentLoss
  <2> SUFFICES ASSUME NumbersStamped, LossInv, link \in {"connected", "up"}, ~reused,
                      NEW n \in 0..(Len(sent) - 1)
               PROVE  n < next \/ Holds(ring, n) \/ UnderWay(n) \/ n \in lost
    BY DEF NoSilentLoss
  <2>1. \/ n \in topic \cup lost \cup TrackedNumbers
        \/ \E t \in Thread : call[t].pc = "track" /\ call[t].seq = n
    BY DEF LossInv, AccountedFor, Stamped
  <2>2. CASE n \in topic
    BY <2>2 DEF LossInv, SeenSettled, UnderWay
  <2>3. CASE n \in TrackedNumbers
    BY <2>3 DEF TrackedNumbers, UnderWay
  <2>4. CASE \E t \in Thread : call[t].pc = "track" /\ call[t].seq = n
    BY <2>4 DEF UnderWay
  <2> QED BY <2>1, <2>2, <2>3, <2>4
<1> QED BY <1>1, LinkInvariance, LossInvariance, PTL

=============================================================================
