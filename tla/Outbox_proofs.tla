---------------------------- MODULE Outbox_proofs ----------------------------
(***************************************************************************)
(* Proofs about Outbox for every set of reports and any number of crashes  *)
(* and outages, for the store the outbox is written for: one that survives *)
(* crashes and whose writes succeed.                                       *)
(***************************************************************************)
EXTENDS Outbox, SequenceTheorems, TLAPS

(* The entries of a sequence carry increasing numbers.                     *)
Increasing(s) == \A i, j \in 1..Len(s) : i < j => s[i].seq < s[j].seq

(* No entry of a sequence is numbered above n.                             *)
AtMost(s, n) == \A i \in 1..Len(s) : s[i].seq <= n

(* What the MES recorded lies before what is pending, except that the      *)
(* front entry may have been recorded already.                             *)
Before(l, p) ==
    \A k \in 1..Len(l), i \in 1..Len(p) :
        l[k].seq < p[i].seq \/ (i = 1 /\ l[k] = p[1])

(* The snapshot is numbered consistently, also against the MES's records.  *)
StoreConsistent ==
    /\ Increasing(store.pending)
    /\ AtMost(store.pending, store.next_seq)
    /\ AtMost(log, store.next_seq)
    /\ Before(log, store.pending)

(* stage() has gone ahead of the snapshot by one entry.                    *)
OneAhead(r) ==
    mem = [next_seq |-> store.next_seq + 1,
           pending  |-> Append(store.pending, [seq |-> store.next_seq + 1, report |-> r])]

(* Memory and snapshot agree, except where a handler is between a change   *)
(* and its checkpoint.                                                     *)
MemoryFollows ==
    /\ pc \in {"idle", "drain", "delivered", "rejected"} => mem = store
    /\ pc = "staged" => \E r \in Report : OneAhead(r)
    /\ pc = "down" => mem = EmptyState

(* An answer is about a front entry, and a 2xx means it is recorded.       *)
AnswerConsistent ==
    /\ pc \in {"delivered", "rejected"} => store.pending # << >>
    /\ pc = "delivered" => Head(store.pending).seq \in SeqsIn(log)

IInv ==
    /\ TypeOK
    /\ RecordedInOrder
    /\ StoreConsistent
    /\ MemoryFollows
    /\ AnswerConsistent
    /\ NeverDropped

-----------------------------------------------------------------------------
(* Sequences of entries                                                    *)

LEMMA ElementsOfAppend ==
    ASSUME NEW S, NEW s \in Seq(S), NEW e \in S
    PROVE  /\ ElementsOf(Append(s, e)) = ElementsOf(s) \cup {e}
           /\ Append(s, e) \in Seq(S)
           /\ Len(Append(s, e)) = Len(s) + 1
           /\ \A i \in 1..Len(s) : Append(s, e)[i] = s[i]
           /\ Append(s, e)[Len(s) + 1] = e
<1>1. /\ Append(s, e) \in Seq(S)
      /\ Len(Append(s, e)) = Len(s) + 1
      /\ \A i \in 1..Len(s) : Append(s, e)[i] = s[i]
      /\ Append(s, e)[Len(s) + 1] = e
  BY AppendProperties
<1>2. 1..(Len(s) + 1) = (1..Len(s)) \cup {Len(s) + 1}
  BY LenProperties
<1> QED BY <1>1, <1>2 DEF ElementsOf

LEMMA ElementsOfTail ==
    ASSUME NEW S, NEW s \in Seq(S), s # << >>
    PROVE  /\ ElementsOf(s) = ElementsOf(Tail(s)) \cup {Head(s)}
           /\ Head(s) = s[1] /\ Head(s) \in S
           /\ Tail(s) \in Seq(S)
           /\ Len(Tail(s)) = Len(s) - 1
           /\ \A i \in 1..Len(Tail(s)) : i + 1 \in 1..Len(s) /\ Tail(s)[i] = s[i + 1]
<1>1. /\ Head(s) = s[1] /\ Head(s) \in S
      /\ Tail(s) \in Seq(S)
      /\ Len(Tail(s)) = Len(s) - 1
      /\ \A i \in 1..Len(Tail(s)) : Tail(s)[i] = s[i + 1]
      /\ Len(s) \in Nat /\ Len(s) > 0
  BY HeadTailProperties, LenProperties, EmptySeq, ElementOfSeq
<1>2. \A i \in 1..Len(Tail(s)) : i + 1 \in 1..Len(s)
  BY <1>1
<1>3. \A i \in 1..Len(s) : i # 1 => i - 1 \in 1..Len(Tail(s)) /\ Tail(s)[i - 1] = s[i]
  BY <1>1
<1>4. ElementsOf(s) \subseteq ElementsOf(Tail(s)) \cup {Head(s)}
  BY <1>1, <1>3 DEF ElementsOf
<1>5. ElementsOf(Tail(s)) \cup {Head(s)} \subseteq ElementsOf(s)
  BY <1>1, <1>2 DEF ElementsOf
<1> QED BY <1>1, <1>2, <1>4, <1>5

LEMMA EntryAt ==
    ASSUME NEW s \in Seq(Entry), NEW i \in 1..Len(s)
    PROVE  s[i] \in Entry /\ s[i].seq \in Nat /\ s[i].report \in Report
<1>1. s[i] \in Entry
  BY ElementOfSeq
<1> QED BY <1>1 DEF Entry

(* A number of the records is the number of one of them.                   *)
LEMMA SeqsInIndex ==
    ASSUME NEW s, NEW n, n \in SeqsIn(s)
    PROVE  \E k \in 1..Len(s) : s[k].seq = n
BY DEF SeqsIn, ElementsOf

(* If the front entry's number is recorded, the entry itself is.           *)
LEMMA RecordedFront ==
    ASSUME NEW l \in Seq(Entry), NEW p \in Seq(Entry), p # << >>,
           Before(l, p), Head(p).seq \in SeqsIn(l)
    PROVE  Head(p) \in ElementsOf(l)
<1>1. PICK k \in 1..Len(l) : l[k].seq = Head(p).seq
  BY SeqsInIndex
<1>2. Head(p) = p[1] /\ 1 \in 1..Len(p) /\ p[1] \in Entry
  BY ElementsOfTail, EmptySeq, LenProperties, ElementOfSeq
<1>3. l[k] = p[1]
  BY <1>1, <1>2 DEF Before, Entry
<1> QED BY <1>2, <1>3 DEF ElementsOf

-----------------------------------------------------------------------------
(* The steps of one entry                                                  *)

(* What the MES does with a POST of the front entry keeps its records in   *)
(* order and before what is pending.                                       *)
LEMMA RecordingKeeps ==
    ASSUME NEW p \in Seq(Entry), p # << >>, NEW n \in Nat,
           log \in Seq(Entry), RecordedInOrder,
           Increasing(p), AtMost(p, n), AtMost(log, n), Before(log, p),
           log' = Recorded(Head(p))
    PROVE  /\ log' \in Seq(Entry) /\ RecordedInOrder'
           /\ AtMost(log', n) /\ Before(log', p)
           /\ ElementsOf(log) \subseteq ElementsOf(log')
           /\ Head(p).seq \in SeqsIn(log')
<1> DEFINE e == Head(p)
<1>1. e = p[1] /\ e \in Entry /\ 1 \in 1..Len(p)
  BY ElementsOfTail, EmptySeq, LenProperties
<1>2. CASE e.seq \in SeqsIn(log)
  <2>1. log' = log
    BY <1>2 DEF Recorded
  <2> QED BY <1>2, <2>1 DEF RecordedInOrder
<1>3. CASE e.seq \notin SeqsIn(log)
  <2>1. log' = Append(log, e)
    BY <1>3 DEF Recorded
  <2>2. /\ ElementsOf(log') = ElementsOf(log) \cup {e}
        /\ log' \in Seq(Entry) /\ Len(log') = Len(log) + 1
        /\ \A i \in 1..Len(log) : log'[i] = log[i]
        /\ log'[Len(log) + 1] = e
        /\ Len(log) \in Nat
    <3> HIDE DEF e
    <3>1. /\ ElementsOf(Append(log, e)) = ElementsOf(log) \cup {e}
          /\ Append(log, e) \in Seq(Entry) /\ Len(Append(log, e)) = Len(log) + 1
          /\ \A i \in 1..Len(log) : Append(log, e)[i] = log[i]
          /\ Append(log, e)[Len(log) + 1] = e
      BY <1>1, ElementsOfAppend
    <3>2. Len(log) \in Nat
      BY LenProperties
    <3> QED BY <2>1, <3>1, <3>2
  <2>3. \A k \in 1..Len(log) : log[k] \in Entry /\ log[k].seq < e.seq
    <3>1. SUFFICES ASSUME NEW k \in 1..Len(log) PROVE log[k] \in Entry /\ log[k].seq < e.seq
      OBVIOUS
    <3>2. log[k].seq \in SeqsIn(log)
      BY DEF SeqsIn, ElementsOf
    <3> QED BY <1>1, <1>3, <3>2, EntryAt DEF Before
  <2>4. RecordedInOrder'
    BY <2>2, <2>3 DEF RecordedInOrder
  <2>5. AtMost(log', n)
    BY <1>1, <2>2 DEF AtMost
  <2>6. Before(log', p)
    BY <1>1, <2>2 DEF Before, Increasing
  <2> QED BY <2>2, <2>4, <2>5, <2>6 DEF SeqsIn
<1> QED BY <1>2, <1>3

(* Erasing the front entry keeps the snapshot consistent.                  *)
LEMMA ErasingKeeps ==
    ASSUME NEW l \in Seq(Entry), NEW p \in Seq(Entry), p # << >>, NEW n \in Nat,
           Increasing(p), AtMost(p, n), Before(l, p)
    PROVE  Increasing(Tail(p)) /\ AtMost(Tail(p), n) /\ Before(l, Tail(p))
<1>1. /\ Tail(p) \in Seq(Entry)
      /\ Len(Tail(p)) \in Nat
      /\ \A i \in 1..Len(Tail(p)) : i + 1 \in 1..Len(p) /\ Tail(p)[i] = p[i + 1]
  BY ElementsOfTail, LenProperties
<1>2. Increasing(Tail(p))
  BY <1>1 DEF Increasing
<1>3. AtMost(Tail(p), n)
  BY <1>1 DEF AtMost
<1>4. Before(l, Tail(p))
  <2>1. SUFFICES ASSUME NEW k \in 1..Len(l), NEW i \in 1..Len(Tail(p))
                 PROVE  l[k].seq < Tail(p)[i].seq
    BY DEF Before
  <2>2. i + 1 # 1
    BY <1>1
  <2> QED BY <1>1, <2>2 DEF Before
<1> QED BY <1>2, <1>3, <1>4

(* So does the next entry, numbered above everything.                      *)
LEMMA StagingKeeps ==
    ASSUME NEW l \in Seq(Entry), NEW p \in Seq(Entry), NEW n \in Nat, NEW r \in Report,
           Increasing(p), AtMost(p, n), AtMost(l, n), Before(l, p)
    PROVE  LET q == Append(p, [seq |-> n + 1, report |-> r])
           IN  /\ q \in Seq(Entry)
               /\ Increasing(q) /\ AtMost(q, n + 1) /\ AtMost(l, n + 1) /\ Before(l, q)
<1> DEFINE e == [seq |-> n + 1, report |-> r]
           q == Append(p, e)
<1>1. e \in Entry /\ e.seq = n + 1
  BY DEF Entry
<1> HIDE DEF e
<1>2. /\ q \in Seq(Entry) /\ Len(q) = Len(p) + 1 /\ Len(p) \in Nat
      /\ \A i \in 1..Len(p) : q[i] = p[i]
      /\ q[Len(p) + 1] = e
  BY <1>1, ElementsOfAppend, LenProperties
<1>3. /\ \A i \in 1..Len(p) : p[i].seq \in Nat
      /\ \A k \in 1..Len(l) : l[k].seq \in Nat
  BY EntryAt
<1> HIDE DEF q
<1>4. Increasing(q)
  BY <1>1, <1>2, <1>3 DEF Increasing, AtMost
<1>5. AtMost(q, n + 1)
  BY <1>1, <1>2, <1>3 DEF AtMost
<1>6. AtMost(l, n + 1)
  BY <1>3 DEF AtMost
<1>7. Before(l, q)
  <2>1. SUFFICES ASSUME NEW k \in 1..Len(l), NEW i \in 1..Len(q)
                 PROVE  l[k].seq < q[i].seq \/ (i = 1 /\ l[k] = q[1])
    BY DEF Before
  <2>2. CASE i \in 1..Len(p)
    BY <1>2, <2>2 DEF Before
  <2>3. CASE i = Len(p) + 1
    BY <1>1, <1>2, <1>3, <2>3 DEF AtMost
  <2> QED BY <1>2, <2>2, <2>3
<1> QED BY <1>2, <1>4, <1>5, <1>6, <1>7 DEF q, e

-----------------------------------------------------------------------------
(* The inductive invariant                                                 *)

Durable == StoreSurvivesCrash /\ ~CheckpointMayFail

LEMMA InitEstablishes == Init => IInv
<1> SUFFICES ASSUME Init PROVE IInv
  OBVIOUS
<1>1. << >> \in Seq(Entry) /\ << >> \in Seq(Report) /\ Len(<< >>) = 0
  BY EmptySeq
<1>2. EmptyState \in OutboxState
  BY <1>1 DEF EmptyState, OutboxState
<1>3. TypeOK
  BY <1>1, <1>2 DEF Init, TypeOK
<1>4. store.pending = << >> /\ store.next_seq = 0
  BY DEF Init, EmptyState
<1>5. RecordedInOrder /\ StoreConsistent /\ NeverDropped
  BY <1>1, <1>4 DEF Init, RecordedInOrder, StoreConsistent, NeverDropped, Increasing, AtMost, Before
<1>6. MemoryFollows /\ AnswerConsistent
  BY DEF Init, MemoryFollows, AnswerConsistent
<1> QED BY <1>3, <1>5, <1>6 DEF IInv

(* Steps that leave the snapshot, the records and the histories alone only *)
(* have memory and the handler's place to account for.                     *)
LEMMA Untouched ==
    ASSUME IInv, UNCHANGED <<store, log, accepted, refused>>
    PROVE  RecordedInOrder' /\ StoreConsistent' /\ NeverDropped'
BY DEF IInv, RecordedInOrder, StoreConsistent, NeverDropped

LEMMA StageReportKeeps ==
    ASSUME IInv, NEW r \in Report, StageReport(r)
    PROVE  IInv'
<1>1. RecordedInOrder' /\ StoreConsistent' /\ NeverDropped'
  BY Untouched DEF StageReport
<1>2. mem = store /\ store \in OutboxState
  BY DEF IInv, TypeOK, MemoryFollows, StageReport
<1>3. OneAhead(r)'
  BY <1>2 DEF StageReport, OneAhead
<1>4. MemoryFollows' /\ AnswerConsistent'
  BY <1>3 DEF StageReport, MemoryFollows, AnswerConsistent
<1>5. mem' \in OutboxState
  <2> DEFINE e == [seq |-> store.next_seq + 1, report |-> r]
  <2>1. e \in Entry /\ store.pending \in Seq(Entry) /\ store.next_seq + 1 \in Nat
    BY <1>2 DEF Entry, OutboxState
  <2>2. Append(store.pending, e) \in Seq(Entry)
    BY <2>1, ElementsOfAppend
  <2>3. mem' = [next_seq |-> store.next_seq + 1, pending |-> Append(store.pending, e)]
    BY <1>2 DEF StageReport
  <2> QED BY <2>1, <2>2, <2>3 DEF OutboxState
<1>6. TypeOK'
  BY <1>5 DEF IInv, TypeOK, StageReport
<1> QED BY <1>1, <1>4, <1>6 DEF IInv

LEMMA StageCheckpointKeeps ==
    ASSUME Durable, IInv, StageCheckpoint
    PROVE  IInv'
<1>1. PICK r \in Report : OneAhead(r)
  BY DEF IInv, MemoryFollows, StageCheckpoint
<1> DEFINE p == store.pending
           n == store.next_seq
           e == [seq |-> n + 1, report |-> r]
           q == Append(p, e)
<1>2. /\ p \in Seq(Entry) /\ n \in Nat /\ e \in Entry /\ e.report = r
      /\ log \in Seq(Entry)
  BY DEF IInv, TypeOK, OutboxState, Entry
<1>3. mem = [next_seq |-> n + 1, pending |-> q] /\ store' = mem /\ mem' = mem
  BY <1>1 DEF OneAhead, StageCheckpoint, Checkpoint, Durable
<1>4. store'.pending = q /\ store'.next_seq = n + 1
  BY <1>3
<1>5. ElementsOf(q) = ElementsOf(p) \cup {e} /\ q[Len(q)] = e
  BY <1>2, ElementsOfAppend
<1>6. /\ q \in Seq(Entry)
      /\ Increasing(q) /\ AtMost(q, n + 1) /\ AtMost(log, n + 1) /\ Before(log, q)
  BY <1>2, StagingKeeps DEF IInv, StoreConsistent
<1> HIDE DEF q, e
<1>7. StoreConsistent' /\ RecordedInOrder'
  BY <1>4, <1>6 DEF IInv, StoreConsistent, RecordedInOrder, StageCheckpoint
<1>8. MemoryFollows' /\ AnswerConsistent'
  BY <1>3 DEF MemoryFollows, AnswerConsistent, StageCheckpoint
<1>9. accepted' = Append(accepted, r) /\ accepted \in Seq(Report)
  BY <1>2, <1>3, <1>5 DEF StageCheckpoint, IInv, TypeOK
<1>10. TypeOK'
  <2>1. accepted' \in Seq(Report)
    BY <1>9, AppendProperties
  <2> QED BY <1>3, <2>1 DEF IInv, TypeOK, StageCheckpoint
<1>11. NeverDropped'
  <2>1. /\ Len(accepted') = Len(accepted) + 1 /\ Len(accepted) \in Nat
        /\ \A i \in 1..Len(accepted) : accepted'[i] = accepted[i]
        /\ accepted'[Len(accepted) + 1] = r
    <3>1. /\ Len(Append(accepted, r)) = Len(accepted) + 1
          /\ \A i \in 1..Len(accepted) : Append(accepted, r)[i] = accepted[i]
          /\ Append(accepted, r)[Len(accepted) + 1] = r
      BY <1>9, ElementsOfAppend
    <3> QED BY <1>9, <3>1, LenProperties
  <2>2. ReportsIn(q) = ReportsIn(p) \cup {r}
    BY <1>2, <1>5 DEF ReportsIn
  <2>3. log' = log /\ refused' = refused
    BY DEF StageCheckpoint
  <2> QED BY <1>4, <2>1, <2>2, <2>3 DEF IInv, NeverDropped
<1> QED BY <1>7, <1>8, <1>10, <1>11 DEF IInv

(* A POST of the front entry, answered or not.                             *)
LEMMA PostKeeps ==
    ASSUME IInv, pc = "drain", mem.pending # << >>,
           log' \in {log, Recorded(Head(mem.pending))},
           UNCHANGED <<mem, store, submitted, up, accepted, refused, crashes, outages>>,
           \/ pc' = "delivered" /\ log' = Recorded(Head(mem.pending))
           \/ pc' \in {"rejected", "idle"}
    PROVE  IInv'
<1> DEFINE p == store.pending
<1>1. mem = store /\ p # << >> /\ p \in Seq(Entry) /\ store.next_seq \in Nat
  BY DEF IInv, MemoryFollows, TypeOK, OutboxState
<1>2. CASE log' = Recorded(Head(p))
  <2>1. /\ log' \in Seq(Entry) /\ RecordedInOrder'
        /\ AtMost(log', store.next_seq) /\ Before(log', p)
        /\ ElementsOf(log) \subseteq ElementsOf(log')
        /\ Head(p).seq \in SeqsIn(log')
    BY <1>1, <1>2, RecordingKeeps DEF IInv, TypeOK, StoreConsistent
  <2>2. TypeOK'
    BY <2>1 DEF IInv, TypeOK
  <2>3. StoreConsistent'
    BY <2>1 DEF IInv, StoreConsistent
  <2>4. MemoryFollows' /\ AnswerConsistent'
    BY <1>1, <2>1 DEF MemoryFollows, AnswerConsistent
  <2>5. NeverDropped'
    BY <2>1 DEF IInv, NeverDropped, ReportsIn
  <2> QED BY <2>1, <2>2, <2>3, <2>4, <2>5 DEF IInv
<1>3. CASE log' = log /\ log' # Recorded(Head(p))
  <2>1. RecordedInOrder' /\ StoreConsistent' /\ NeverDropped'
    BY <1>3, Untouched
  <2>2. TypeOK'
    BY <1>1, <1>3 DEF IInv, TypeOK
  <2>3. MemoryFollows' /\ AnswerConsistent'
    BY <1>1, <1>3 DEF MemoryFollows, AnswerConsistent
  <2> QED BY <2>1, <2>2, <2>3 DEF IInv
<1> QED BY <1>1, <1>2, <1>3

LEMMA EraseCheckpointKeeps ==
    ASSUME Durable, IInv, EraseCheckpoint
    PROVE  IInv'
<1> DEFINE p == store.pending
           n == store.next_seq
<1>1. /\ mem = store /\ p # << >> /\ p \in Seq(Entry) /\ n \in Nat
      /\ store \in OutboxState /\ log \in Seq(Entry) /\ Before(log, p)
  BY DEF IInv, MemoryFollows, AnswerConsistent, TypeOK, OutboxState, StoreConsistent, EraseCheckpoint
<1>2. store' = [store EXCEPT !.pending = Tail(@)] /\ mem' = store'
  BY <1>1 DEF EraseCheckpoint, Checkpoint, Durable
<1>3. /\ Tail(p) \in Seq(Entry)
      /\ ElementsOf(p) = ElementsOf(Tail(p)) \cup {Head(p)}
      /\ Head(p) \in Entry
  BY <1>1, ElementsOfTail
<1>4. store'.pending = Tail(p) /\ store'.next_seq = n /\ store' \in OutboxState
  BY <1>1, <1>2, <1>3 DEF OutboxState
<1>5. Increasing(Tail(p)) /\ AtMost(Tail(p), n) /\ Before(log, Tail(p))
  BY <1>1, ErasingKeeps DEF IInv, StoreConsistent
<1>6. StoreConsistent' /\ RecordedInOrder'
  BY <1>4, <1>5 DEF IInv, StoreConsistent, RecordedInOrder, EraseCheckpoint
<1>7. MemoryFollows' /\ AnswerConsistent'
  BY <1>2 DEF MemoryFollows, AnswerConsistent, EraseCheckpoint
<1>8. refused \subseteq refused' /\ refused' \in SUBSET Report
  BY <1>1, <1>3 DEF IInv, TypeOK, EraseCheckpoint, Entry
<1>9. TypeOK'
  BY <1>2, <1>4, <1>8 DEF IInv, TypeOK, EraseCheckpoint
<1>10. Head(p).report \in ReportsIn(log) \cup refused'
  <2>1. CASE Head(p).seq \in SeqsIn(log)
    BY <1>1, <2>1, RecordedFront DEF ReportsIn
  <2>2. CASE Head(p).seq \notin SeqsIn(log)
    BY <1>1, <2>2 DEF EraseCheckpoint, IInv, AnswerConsistent
  <2> QED BY <2>1, <2>2
<1>11. ReportsIn(p) = ReportsIn(Tail(p)) \cup {Head(p).report}
  BY <1>3 DEF ReportsIn
<1>12. NeverDropped'
  <2>1. log' = log /\ accepted' = accepted
    BY DEF EraseCheckpoint
  <2> QED BY <1>4, <1>8, <1>10, <1>11, <2>1 DEF IInv, NeverDropped
<1> QED BY <1>6, <1>7, <1>9, <1>12 DEF IInv

(* Steps of the handler, the node and the MES that change neither the      *)
(* snapshot nor the records.                                               *)
LEMMA OthersKeep ==
    ASSUME Durable, IInv,
           DrainOutbox \/ DrainEmpty \/ Recover \/ Crash \/ MesDown \/ MesUp \/ UNCHANGED vars
    PROVE  IInv'
<1>1. UNCHANGED <<store, log, accepted, refused, submitted>>
  BY DEF DrainOutbox, DrainEmpty, Recover, Crash, MesDown, MesUp, vars, Durable
<1>2. RecordedInOrder' /\ StoreConsistent' /\ NeverDropped'
  BY <1>1, Untouched
<1>3. EmptyState \in OutboxState
  BY EmptySeq DEF EmptyState, OutboxState
<1>4. TypeOK'
  <2>1. CASE Crash
    BY <1>1, <1>3, <2>1 DEF IInv, TypeOK, Crash
  <2>2. CASE Recover
    BY <1>1, <2>2 DEF IInv, TypeOK, Recover
  <2>3. CASE DrainOutbox \/ DrainEmpty
    BY <1>1, <2>3 DEF IInv, TypeOK, DrainOutbox, DrainEmpty
  <2>4. CASE MesDown \/ MesUp \/ UNCHANGED vars
    <3>1. UNCHANGED <<pc, mem, crashes>>
      BY <2>4 DEF MesDown, MesUp, vars
    <3>2. up' \in BOOLEAN
      BY <2>4, Zenon DEF IInv, TypeOK, MesDown, MesUp, vars
    <3>3. outages' \in Nat
      BY <2>4 DEF IInv, TypeOK, MesDown, MesUp, vars
    <3> QED BY <1>1, <3>1, <3>2, <3>3 DEF IInv, TypeOK
  <2> QED BY <2>1, <2>2, <2>3, <2>4
<1>5. MemoryFollows' /\ AnswerConsistent'
  <2>1. CASE Crash
    BY <2>1 DEF MemoryFollows, AnswerConsistent, Crash
  <2>2. CASE Recover
    BY <1>1, <2>2 DEF MemoryFollows, AnswerConsistent, Recover
  <2>3. CASE DrainOutbox \/ DrainEmpty
    BY <1>1, <2>3 DEF IInv, MemoryFollows, AnswerConsistent, DrainOutbox, DrainEmpty
  <2>4. CASE MesDown \/ MesUp \/ UNCHANGED vars
    <3>1. UNCHANGED <<pc, mem>>
      BY <2>4 DEF MesDown, MesUp, vars
    <3> QED BY <1>1, <3>1 DEF IInv, MemoryFollows, AnswerConsistent, OneAhead
  <2> QED BY <2>1, <2>2, <2>3, <2>4
<1> QED BY <1>2, <1>4, <1>5 DEF IInv

LEMMA NextKeeps ==
    ASSUME Durable, IInv, [Next]_vars
    PROVE  IInv'
<1>1. CASE \E r \in Report : StageReport(r)
  BY <1>1, StageReportKeeps
<1>2. CASE StageCheckpoint
  BY <1>2, StageCheckpointKeeps
<1>3. CASE ReportDelivered
  BY <1>3, PostKeeps DEF ReportDelivered
<1>4. CASE ReportRejected
  BY <1>4, PostKeeps DEF ReportRejected
<1>5. CASE ReportRetry
  BY <1>5, PostKeeps DEF ReportRetry
<1>6. CASE EraseCheckpoint
  BY <1>6, EraseCheckpointKeeps
<1>7. CASE DrainOutbox \/ DrainEmpty \/ Recover \/ Crash \/ MesDown \/ MesUp \/ UNCHANGED vars
  BY <1>7, OthersKeep
<1> QED BY <1>1, <1>2, <1>3, <1>4, <1>5, <1>6, <1>7 DEF Next, Gateway

(* The invariant holds throughout, over a durable store.                   *)
THEOREM Invariance ==
    ASSUME Durable
    PROVE  Spec => []IInv
BY InitEstablishes, NextKeeps, PTL DEF Spec

(* M3, never dropped: over a durable store a report that stage() accepted  *)
(* is in the snapshot, with the MES, or refused by it, however often the   *)
(* node crashes and the MES goes away.                                     *)
THEOREM ReportsNeverDropped ==
    ASSUME Durable
    PROVE  Spec => []NeverDropped
<1>1. IInv => NeverDropped
  BY DEF IInv
<1> QED BY <1>1, Invariance, PTL

(* M3, in order and once: the records of the MES carry strictly increasing *)
(* numbers, so drain() never lets a report overtake or repeat another.     *)
THEOREM ReportsInOrder ==
    ASSUME Durable
    PROVE  Spec => []RecordedInOrder
<1>1. IInv => RecordedInOrder
  BY DEF IInv
<1> QED BY <1>1, Invariance, PTL

(* No idempotency key names two reports: next_seq is part of the snapshot, *)
(* so a restarted gateway never reuses a number the MES has seen.          *)
THEOREM KeysNameOneReport ==
    ASSUME Durable
    PROVE  Spec => []KeyNamesOneReport
<1>1. ASSUME IInv PROVE KeyNamesOneReport
  <2>1. /\ store.pending \in Seq(Entry) /\ log \in Seq(Entry) /\ store.next_seq \in Nat
    BY <1>1 DEF IInv, TypeOK, OutboxState
  <2>2. \A e \in ElementsOf(store.pending), f \in ElementsOf(log) :
            e.seq = f.seq => e.report = f.report
    BY <1>1, <2>1, EntryAt DEF IInv, StoreConsistent, Before, ElementsOf
  <2>3. \A e \in ElementsOf(mem.pending), f \in ElementsOf(log) :
            e.seq = f.seq => e.report = f.report
    <3>1. CASE pc \in {"idle", "drain", "delivered", "rejected"}
      BY <1>1, <2>2, <3>1 DEF IInv, MemoryFollows
    <3>2. CASE pc = "down"
      BY <1>1, <3>2, EmptySeq DEF IInv, MemoryFollows, EmptyState, ElementsOf
    <3>3. CASE pc = "staged"
      <4>1. PICK r \in Report : OneAhead(r)
        BY <1>1, <3>3 DEF IInv, MemoryFollows
      <4> DEFINE e == [seq |-> store.next_seq + 1, report |-> r]
      <4>2. e \in Entry
        BY <2>1 DEF Entry
      <4>3. ElementsOf(mem.pending) = ElementsOf(store.pending) \cup {e}
        BY <2>1, <4>1, <4>2, ElementsOfAppend DEF OneAhead
      <4>4. \A f \in ElementsOf(log) : f.seq # store.next_seq + 1
        BY <1>1, <2>1, EntryAt DEF IInv, StoreConsistent, AtMost, ElementsOf
      <4> QED BY <2>2, <4>3, <4>4
    <3> QED BY <1>1, <3>1, <3>2, <3>3 DEF IInv, TypeOK
  <2> QED BY <2>2, <2>3 DEF KeyNamesOneReport
<1> QED BY <1>1, Invariance, PTL

-----------------------------------------------------------------------------
(* Refinement of ReportingService                                          *)

LEMMA ReportsOfIsSeq ==
    ASSUME NEW s \in Seq(Entry)
    PROVE  ReportsOf(s) \in Seq(Report) /\ Len(ReportsOf(s)) = Len(s)
BY EntryAt, IsASeq, LenProperties DEF ReportsOf

LEMMA ReportsOfAppend ==
    ASSUME NEW s \in Seq(Entry), NEW e \in Entry
    PROVE  ReportsOf(Append(s, e)) = Append(ReportsOf(s), e.report)
<1>1. /\ Len(Append(s, e)) = Len(s) + 1 /\ Len(s) \in Nat
      /\ \A i \in 1..Len(s) : Append(s, e)[i] = s[i]
      /\ Append(s, e)[Len(s) + 1] = e
  BY ElementsOfAppend, LenProperties
<1>2. ReportsOf(s) \in Seq(Report) /\ Len(ReportsOf(s)) = Len(s)
  BY <1>1, ReportsOfIsSeq
<1>3. /\ Append(ReportsOf(s), e.report) \in Seq(Report)
      /\ Len(Append(ReportsOf(s), e.report)) = Len(s) + 1
      /\ \A i \in 1..Len(s) : Append(ReportsOf(s), e.report)[i] = s[i].report
      /\ Append(ReportsOf(s), e.report)[Len(s) + 1] = e.report
  BY <1>2, ElementsOfAppend DEF Entry, ReportsOf
<1>4. ReportsOf(Append(s, e)) \in Seq(Report) /\ Len(ReportsOf(Append(s, e))) = Len(s) + 1
  <2>1. Append(s, e) \in Seq(Entry)
    BY ElementsOfAppend
  <2> QED BY <1>1, <2>1, ReportsOfIsSeq
<1>5. \A i \in 1..(Len(s) + 1) :
          ReportsOf(Append(s, e))[i] = Append(ReportsOf(s), e.report)[i]
  BY <1>1, <1>3 DEF ReportsOf
<1> QED BY <1>3, <1>4, <1>5, SeqEqual

LEMMA ReportsOfTail ==
    ASSUME NEW s \in Seq(Entry), s # << >>
    PROVE  /\ ReportsOf(s) # << >>
           /\ ReportsOf(Tail(s)) = Tail(ReportsOf(s))
           /\ Head(s).report = Head(ReportsOf(s))
<1> DEFINE t == ReportsOf(s)
<1>1. /\ Tail(s) \in Seq(Entry) /\ Len(Tail(s)) = Len(s) - 1
      /\ Len(s) \in Nat /\ Len(s) > 0 /\ Head(s) = s[1]
      /\ \A i \in 1..Len(Tail(s)) : i + 1 \in 1..Len(s) /\ Tail(s)[i] = s[i + 1]
  BY ElementsOfTail, LenProperties, EmptySeq
<1>2. t \in Seq(Report) /\ Len(t) = Len(s)
  BY <1>1, ReportsOfIsSeq
<1>3. t # << >>
  BY <1>1, <1>2, EmptySeq
<1>4. /\ Tail(t) \in Seq(Report) /\ Len(Tail(t)) = Len(s) - 1 /\ Head(t) = t[1]
      /\ \A i \in 1..Len(Tail(t)) : Tail(t)[i] = t[i + 1]
  BY <1>2, <1>3, ElementsOfTail
<1>5. ReportsOf(Tail(s)) \in Seq(Report) /\ Len(ReportsOf(Tail(s))) = Len(s) - 1
  BY <1>1, ReportsOfIsSeq
<1>6. \A i \in 1..(Len(s) - 1) : ReportsOf(Tail(s))[i] = Tail(t)[i]
  BY <1>1, <1>4 DEF ReportsOf
<1>7. Head(s).report = Head(t)
  BY <1>1, <1>4 DEF ReportsOf
<1> QED BY <1>3, <1>4, <1>5, <1>6, <1>7, SeqEqual

(* A step that changes neither snapshot nor records nor refusals is        *)
(* invisible to a flow: crashes, restarts, outages and failed POSTs.       *)
LEMMA InvisibleStep ==
    ASSUME UNCHANGED <<store, log, refused>>
    PROVE  UNCHANGED <<ReportsOf(Owed), ReportsOf(log), refused>>
BY DEF Owed, ReportsOf

(* A POST the MES takes for the first time records the oldest report; a    *)
(* repeated one changes nothing.                                           *)
LEMMA PostRefines ==
    ASSUME IInv, pc = "drain", mem.pending # << >>,
           log' = Recorded(Head(mem.pending)), UNCHANGED <<store, refused>>
    PROVE  Promise!Record \/ UNCHANGED <<ReportsOf(Owed), ReportsOf(log), refused>>
<1> DEFINE p == store.pending
           e == Head(p)
<1>1. /\ mem = store /\ p # << >> /\ p \in Seq(Entry) /\ log \in Seq(Entry)
      /\ e \in Entry
  BY ElementsOfTail DEF IInv, MemoryFollows, TypeOK, OutboxState
<1>2. CASE e.seq \in SeqsIn(log)
  BY <1>1, <1>2, InvisibleStep DEF Recorded
<1>3. CASE e.seq \notin SeqsIn(log)
  <2>1. log' = Append(log, e)
    BY <1>1, <1>3 DEF Recorded
  <2>2. Owed = p
    BY <1>3 DEF Owed
  <2>3. e.seq \in SeqsIn(log')
    <3> HIDE DEF e
    <3>1. e \in ElementsOf(Append(log, e))
      BY <1>1, ElementsOfAppend
    <3> QED BY <2>1, <3>1 DEF SeqsIn
  <2>4. Owed' = Tail(p)
    BY <1>1, <2>3 DEF Owed
  <2>5. ReportsOf(log)' = Append(ReportsOf(log), e.report)
    <3>1. ReportsOf(log)' = ReportsOf(Append(log, e))
      BY <2>1 DEF ReportsOf
    <3> QED BY <1>1, <3>1, ReportsOfAppend
  <2>6. ReportsOf(Owed)' = ReportsOf(Tail(p))
    BY <2>4 DEF ReportsOf
  <2> QED BY <1>1, <2>2, <2>5, <2>6, ReportsOfTail DEF Promise!Record
<1> QED BY <1>2, <1>3

(* Erasing a recorded entry is invisible, erasing one that was answered    *)
(* 4xx and never recorded is a refusal.                                    *)
LEMMA EraseRefines ==
    ASSUME Durable, IInv, EraseCheckpoint
    PROVE  Promise!Refuse \/ UNCHANGED <<ReportsOf(Owed), ReportsOf(log), refused>>
<1> DEFINE p == store.pending
           e == Head(p)
<1>1. /\ mem = store /\ p # << >> /\ p \in Seq(Entry)
      /\ store \in OutboxState /\ log \in Seq(Entry) /\ Before(log, p)
  BY DEF IInv, MemoryFollows, AnswerConsistent, TypeOK, OutboxState, StoreConsistent, EraseCheckpoint
<1>2. store' = [store EXCEPT !.pending = Tail(@)]
  BY <1>1 DEF EraseCheckpoint, Checkpoint, Durable
<1>3. store'.pending = Tail(p) /\ log' = log
  BY <1>1, <1>2 DEF OutboxState, EraseCheckpoint
<1>4. Owed' = Tail(p)
  <2>1. SUFFICES ASSUME Tail(p) # << >> PROVE Head(Tail(p)).seq \notin SeqsIn(log)
    BY <1>3 DEF Owed
  <2>2. /\ Tail(p) \in Seq(Entry) /\ Head(Tail(p)) = Tail(p)[1] /\ 1 \in 1..Len(Tail(p))
        /\ Tail(p)[1] = p[2] /\ 2 \in 1..Len(p)
    <3>1. /\ Tail(p) \in Seq(Entry)
          /\ \A i \in 1..Len(Tail(p)) : i + 1 \in 1..Len(p) /\ Tail(p)[i] = p[i + 1]
      BY <1>1, ElementsOfTail
    <3>2. Head(Tail(p)) = Tail(p)[1] /\ 1 \in 1..Len(Tail(p))
      BY <2>1, <3>1, ElementsOfTail, EmptySeq, LenProperties
    <3> QED BY <3>1, <3>2
  <2>3. \A k \in 1..Len(log) : log[k].seq < p[2].seq /\ log[k].seq \in Nat /\ p[2].seq \in Nat
    BY <1>1, <2>2, EntryAt DEF Before
  <2> QED BY <2>2, <2>3 DEF SeqsIn, ElementsOf
<1>5. CASE e.seq \in SeqsIn(log)
  <2>1. Owed = Tail(p) /\ refused' = refused
    BY <1>1, <1>5 DEF Owed, EraseCheckpoint
  <2> QED BY <1>3, <1>4, <2>1 DEF ReportsOf
<1>6. CASE e.seq \notin SeqsIn(log)
  <2>1. Owed = p /\ refused' = refused \cup {e.report}
    BY <1>1, <1>6 DEF Owed, EraseCheckpoint, IInv, AnswerConsistent
  <2>2. ReportsOf(Owed)' = ReportsOf(Tail(p)) /\ ReportsOf(log)' = ReportsOf(log)
    BY <1>3, <1>4 DEF ReportsOf
  <2> QED BY <1>1, <2>1, <2>2, ReportsOfTail DEF Promise!Refuse
<1> QED BY <1>5, <1>6

(* The checkpoint of stage() is the moment of acceptance.                  *)
LEMMA StageRefines ==
    ASSUME Durable, IInv, StageCheckpoint
    PROVE  \E r \in Report : Promise!Accept(r)
<1>1. PICK r \in Report : OneAhead(r)
  BY DEF IInv, MemoryFollows, StageCheckpoint
<1> DEFINE p == store.pending
           n == store.next_seq
           e == [seq |-> n + 1, report |-> r]
<1>2. /\ p \in Seq(Entry) /\ n \in Nat /\ e \in Entry /\ e.report = r
      /\ log \in Seq(Entry) /\ AtMost(log, n)
  BY DEF IInv, TypeOK, OutboxState, Entry, StoreConsistent
<1>3. store'.pending = Append(p, e) /\ log' = log /\ refused' = refused
  BY <1>1 DEF OneAhead, StageCheckpoint, Checkpoint, Durable
<1>4. e.seq \notin SeqsIn(log)
  BY <1>2, EntryAt DEF SeqsIn, ElementsOf, AtMost
<1> HIDE DEF e
<1>5. Append(p, e) # << >> /\ Head(Append(p, e)) = IF p = << >> THEN e ELSE Head(p)
  <2>1. Append(p, e) # << >>
    BY <1>2, AppendProperties
  <2> QED BY <1>2, <2>1, HeadTailAppend
<1>6. Tail(Append(p, e)) = IF p = << >> THEN << >> ELSE Append(Tail(p), e)
  BY <1>2, HeadTailAppend
<1>7. Owed' = Append(Owed, e) /\ Owed \in Seq(Entry)
  <2>1. CASE p = << >>
    BY <1>2, <1>3, <1>4, <1>5, <2>1 DEF Owed
  <2>2. CASE p # << >>
    BY <1>2, <1>3, <1>5, <1>6, <2>2, ElementsOfTail DEF Owed
  <2> QED BY <2>1, <2>2
<1>8. ReportsOf(Owed)' = Append(ReportsOf(Owed), r)
  <2>1. ReportsOf(Owed)' = ReportsOf(Append(Owed, e))
    BY <1>7 DEF ReportsOf
  <2> QED BY <1>2, <1>7, <2>1, ReportsOfAppend
<1>9. ReportsOf(log)' = ReportsOf(log)
  BY <1>3 DEF ReportsOf
<1> QED BY <1>3, <1>8, <1>9 DEF Promise!Accept

(* Over a durable store the outbox implements the reporting service: the   *)
(* MES sees every accepted report once and in order, and neither crashes   *)
(* nor outages can be told from their absence.                             *)
THEOREM OutboxImplementsPromise ==
    ASSUME Durable
    PROVE  Spec => ImplementsPromise
<1>1. Init => Promise!Init
  <2>1. SUFFICES ASSUME Init PROVE Promise!Init
    OBVIOUS
  <2>2. Owed = << >> /\ log = << >> /\ refused = {}
    BY <2>1 DEF Init, Owed, EmptyState
  <2>3. ReportsOf(<< >>) = << >>
    BY EmptySeq, SMT DEF ReportsOf
  <2> QED BY <2>2, <2>3 DEF Promise!Init
<1>2. ASSUME IInv, [Next]_vars
      PROVE  [Promise!Next]_<<ReportsOf(Owed), ReportsOf(log), refused>>
  <2>1. CASE StageCheckpoint
    BY <1>2, <2>1, StageRefines DEF Promise!Next
  <2>2. CASE ReportDelivered
    BY <1>2, <2>2, PostRefines DEF ReportDelivered, Promise!Next
  <2>3. CASE ReportRetry
    <3>1. CASE log' = log
      BY <2>3, <3>1, InvisibleStep DEF ReportRetry
    <3>2. CASE log' = Recorded(Head(mem.pending))
      BY <1>2, <2>3, <3>2, PostRefines DEF ReportRetry, Promise!Next
    <3> QED BY <2>3, <3>1, <3>2 DEF ReportRetry
  <2>4. CASE EraseCheckpoint
    BY <1>2, <2>4, EraseRefines DEF Promise!Next
  <2>5. CASE \/ (\E r \in Report : StageReport(r)) \/ DrainOutbox \/ DrainEmpty
             \/ ReportRejected \/ Recover \/ Crash \/ MesDown \/ MesUp \/ UNCHANGED vars
    <3>1. UNCHANGED <<store, log, refused>>
      BY <2>5 DEF StageReport, DrainOutbox, DrainEmpty, ReportRejected, Recover, Crash,
                  MesDown, MesUp, vars, Durable
    <3> QED BY <3>1, InvisibleStep
  <2> QED BY <1>2, <2>1, <2>2, <2>3, <2>4, <2>5 DEF Next, Gateway
<1> QED BY <1>1, <1>2, Invariance, PTL DEF Spec, ImplementsPromise, Promise!Spec

=============================================================================
