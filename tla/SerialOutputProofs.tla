------------------------- MODULE SerialOutputProofs -------------------------
(***************************************************************************)
(* The safety of SerialOutput for any number of writers, any size of the   *)
(* ring and any lengths of messages: the queue with its transmitter        *)
(* implements AbstractStream, bytes are never left behind with the         *)
(* interrupt off, no writer misses its wake-up, and messages stay whole.   *)
(***************************************************************************)
EXTENDS SerialOutput, FiniteSetTheorems, SequenceTheorems, TLAPS

\* The pointers are as far apart as the counter says.
Distance == wrptr = Slot(rdptr + (Size - counter))

\* The slots between them hold bytes.
Held == \A j \in 0 .. Size - counter - 1 : buffer[Slot(rdptr + j)] \in Bytes

\* The handler fills TDR only after it was seen empty; nobody else fills it.
SeenEmpty == isr.at = "tx" /\ isr.txe => tdr = None

\* A call that goes on has characters left.
Unfinished ==
    \A t \in Thread :
        /\ i[t] >= 1
        /\ pc[t] \in {"write", "wait", "woken"} => i[t] <= Length(kind[t])

\* The queue of waiting writers holds each of them once.
Queued ==
    /\ \A j \in 1 .. Len(waiting) : pc[waiting[j]] = "wait"
    /\ \A j, k \in 1 .. Len(waiting) : waiting[j] = waiting[k] => j = k

\* The inductive invariant.
IInv ==
    /\ TypeOK /\ Distance /\ Held /\ SeenEmpty /\ Unfinished /\ Queued
    /\ NeverStalls /\ NoLostWakeup

-----------------------------------------------------------------------------
(* Arithmetic of the indices *)

\* An index that runs past the end goes on at the beginning.
LEMMA SlotIs ==
    ASSUME NEW p \in Slots, NEW n \in 0 .. Size
    PROVE  Slot(p + n) = IF p + n < Size THEN p + n ELSE p + n - Size
BY OutputAssumption DEF Slots, Slot

LEMMA SlotType ==
    ASSUME NEW p \in Slots, NEW n \in 0 .. Size
    PROVE  Slot(p + n) \in Slots
<1>1. Slot(p + n) = IF p + n < Size THEN p + n ELSE p + n - Size
  BY SlotIs
<1> QED BY <1>1, OutputAssumption DEF Slots

LEMMA SlotAdd ==
    ASSUME NEW p \in Slots, NEW m \in 0 .. Size, NEW n \in 0 .. Size, m + n <= Size
    PROVE  Slot(Slot(p + m) + n) = Slot(p + (m + n))
<1> DEFINE q == Slot(p + m)
<1>1. q \in Slots
  BY SlotType
<1>2. m + n \in 0 .. Size
  BY OutputAssumption
<1>3. q = IF p + m < Size THEN p + m ELSE p + m - Size
  BY SlotIs
<1>4. Slot(p + (m + n)) = IF p + (m + n) < Size THEN p + (m + n) ELSE p + (m + n) - Size
  BY <1>2, SlotIs
<1> HIDE DEF q
<1>5. Slot(q + n) = IF q + n < Size THEN q + n ELSE q + n - Size
  BY <1>1, SlotIs
<1>6. Slot(q + n) = Slot(p + (m + n))
  BY <1>1, <1>3, <1>4, <1>5, OutputAssumption DEF Slots
<1> QED BY <1>6 DEF q

LEMMA SlotInjective ==
    ASSUME NEW p \in Slots, NEW m \in 0 .. Size - 1, NEW n \in 0 .. Size - 1,
           Slot(p + m) = Slot(p + n)
    PROVE  m = n
<1>1. m \in 0 .. Size /\ n \in 0 .. Size
  BY OutputAssumption
<1>2. Slot(p + m) = IF p + m < Size THEN p + m ELSE p + m - Size
  BY <1>1, SlotIs
<1>3. Slot(p + n) = IF p + n < Size THEN p + n ELSE p + n - Size
  BY <1>1, SlotIs
<1> QED BY <1>2, <1>3, OutputAssumption DEF Slots

\* The test of oqIsEmptyI means what it says.
LEMMA EmptyIs == ASSUME TypeOK, Distance PROVE IsEmpty <=> counter = Size
<1>1. rdptr \in Slots /\ Size - counter \in 0 .. Size /\ counter \in 0 .. Size
  BY OutputAssumption DEF TypeOK
<1>2. wrptr = IF rdptr + (Size - counter) < Size THEN rdptr + (Size - counter)
              ELSE rdptr + (Size - counter) - Size
  BY <1>1, SlotIs DEF Distance
<1> QED BY <1>1, <1>2, OutputAssumption DEF IsEmpty, Slots

\* The writers that were woken, as any set of threads, are finitely many.
Woken == {t \in Thread : pc[t] = "woken"}

LEMMA ThreadsFinite ==
    ASSUME NEW S \in SUBSET Thread PROVE IsFiniteSet(S) /\ Cardinality(S) \in Nat
<1>1. IsFiniteSet(Thread)
  BY OutputAssumption, FS_Union, FS_Singleton DEF Thread
<1> QED BY <1>1, FS_Subset, FS_CardinalityType

-----------------------------------------------------------------------------
(* Steps that leave the ring alone *)

LEMMA IInvInit == ASSUME Init PROVE IInv
<1>1. Slot(0 + 0) = 0
  BY SlotIs, OutputAssumption DEF Slots
<1>2. TypeOK
  <2>1. /\ buffer \in [Slots -> Bytes \cup {None}]
        /\ {wrptr, rdptr} \subseteq Slots /\ counter \in 0 .. Size
    BY OutputAssumption DEF Init, Slots
  <2>2. waiting \in Seq(Thread)
    BY DEF Init
  <2>3. isr \in [at : {"none", "tx", "read", "tc"}, txeie : BOOLEAN, tcie : BOOLEAN,
                 txe : BOOLEAN, tc : BOOLEAN]
    BY DEF Init, NoIsr
  <2> QED BY <2>1, <2>2, <2>3 DEF Init, TypeOK, Kinds
<1>3. Distance
  BY <1>1, OutputAssumption DEF Init, Distance
<1>4. Held /\ SeenEmpty /\ Unfinished /\ Queued /\ NeverStalls /\ NoLostWakeup
  BY OutputAssumption DEF Init, Held, SeenEmpty, NoIsr, Unfinished, Queued, NeverStalls, NoLostWakeup
<1> QED BY <1>2, <1>3, <1>4 DEF IInv

\* A call begins, with all its characters to go.
LEMMA IInvBegin ==
    ASSUME IInv, NEW t \in Thread, SerialPrint(t) \/ Chprintf(t) PROVE IInv'
<1>1. PICK w \in Kinds : /\ pc[t] = "idle" /\ pc' = [pc EXCEPT ![t] = "write"]
                         /\ kind' = [kind EXCEPT ![t] = w] /\ i' = [i EXCEPT ![t] = 1]
  BY DEF SerialPrint, Chprintf, Runs, Kinds
<1>2. UNCHANGED <<ring, waiting, txeie, tcie, uart, isr>> /\ qmtx' \in Thread \cup {None}
  BY DEF SerialPrint, Chprintf, IInv, TypeOK
<1>3. Woken' = Woken
  BY <1>1 DEF Woken, IInv, TypeOK
<1>4. TypeOK'
  BY <1>1, <1>2 DEF IInv, TypeOK, ring, uart
<1>5. Distance' /\ Held' /\ SeenEmpty' /\ NeverStalls'
  BY <1>2 DEF IInv, Distance, Held, SeenEmpty, NeverStalls, ring, uart, Slot
<1>6. Length(w) >= 1
  BY <1>1, OutputAssumption DEF Length
<1>7. Unfinished'
  BY <1>1, <1>6 DEF IInv, TypeOK, Unfinished
<1>8. Queued'
  BY <1>1, <1>2 DEF IInv, TypeOK, Queued
<1>9. NoLostWakeup'
  BY <1>2, <1>3 DEF IInv, NoLostWakeup, Woken, ring
<1> QED BY <1>4, <1>5, <1>7, <1>8, <1>9 DEF IInv

\* The mutex is given back.
LEMMA IInvFinish == ASSUME IInv, NEW t \in Thread, Finish(t) PROVE IInv'
<1>1. /\ pc[t] = "end" /\ pc' = [pc EXCEPT ![t] = "idle"]
      /\ UNCHANGED <<ring, waiting, kind, i, txeie, tcie, uart, isr>>
      /\ qmtx' \in Thread \cup {None}
  BY DEF Finish, Runs, IInv, TypeOK
<1>2. Woken' = Woken
  BY <1>1 DEF Woken, IInv, TypeOK
<1>3. TypeOK'
  BY <1>1 DEF IInv, TypeOK, ring, uart
<1>4. Distance' /\ Held' /\ SeenEmpty' /\ NeverStalls'
  BY <1>1 DEF IInv, Distance, Held, SeenEmpty, NeverStalls, ring, uart, Slot
<1>5. Unfinished' /\ Queued'
  BY <1>1 DEF IInv, TypeOK, Unfinished, Queued
<1>6. NoLostWakeup'
  BY <1>1, <1>2 DEF IInv, NoLostWakeup, Woken, ring
<1> QED BY <1>3, <1>4, <1>5, <1>6 DEF IInv

\* A writer that finds the ring full queues up; there is no slot to miss.
LEMMA IInvWait == ASSUME IInv, NEW t \in Thread, Wait(t) PROVE IInv'
<1>1. /\ pc[t] \in {"write", "woken"} /\ pc' = [pc EXCEPT ![t] = "wait"]
      /\ waiting' = Append(waiting, t) /\ counter = 0
      /\ UNCHANGED <<ring, qmtx, kind, i, txeie, tcie, uart, isr>>
  BY DEF Wait, Runs, IsFull
<1>2. TypeOK'
  BY <1>1 DEF IInv, TypeOK, ring, uart
<1>3. Distance' /\ Held' /\ SeenEmpty' /\ NeverStalls'
  BY <1>1 DEF IInv, Distance, Held, SeenEmpty, NeverStalls, ring, uart, Slot
<1>4. Unfinished'
  BY <1>1 DEF IInv, TypeOK, Unfinished
<1>5. Queued'
  <2>1. /\ Len(waiting') = Len(waiting) + 1 /\ Len(waiting) \in Nat
        /\ waiting'[Len(waiting) + 1] = t
        /\ \A j \in 1 .. Len(waiting) : waiting'[j] = waiting[j] /\ waiting[j] \in Thread
    BY <1>1 DEF IInv, TypeOK
  <2>2. \A j \in 1 .. Len(waiting) : waiting[j] # t
    BY <1>1 DEF IInv, Queued
  <2>3. \A j \in 1 .. Len(waiting') : j \in 1 .. Len(waiting) \/ j = Len(waiting) + 1
    BY <2>1
  <2>4. pc'[t] = "wait" /\ \A u \in Thread \ {t} : pc'[u] = pc[u]
    BY <1>1 DEF IInv, TypeOK
  <2> QED BY <2>1, <2>2, <2>3, <2>4 DEF IInv, Queued
<1>6. NoLostWakeup'
  <2>1. Cardinality(Woken') \in Nat
    <3>1. Woken' \in SUBSET Thread
      BY DEF Woken
    <3> QED BY <3>1, ThreadsFinite
  <2>2. counter' = 0
    BY <1>1 DEF ring
  <2> QED BY <2>1, <2>2 DEF NoLostWakeup, Woken
<1> QED BY <1>2, <1>3, <1>4, <1>5, <1>6 DEF IInv

-----------------------------------------------------------------------------
(* The handler and the transmitter, the ring apart *)

\* What speaks of the ring and the writers only.
LEMMA RestKept ==
    ASSUME IInv, UNCHANGED <<ring, waiting, qmtx, calls>>
    PROVE  Distance' /\ Held' /\ Unfinished' /\ Queued' /\ NoLostWakeup'
BY DEF IInv, Distance, Held, Unfinished, Queued, NoLostWakeup, ring, calls, Slot

\* CR1 and ISR are read: TXE says whether TDR is empty.
LEMMA IInvIsrReads == ASSUME IInv, IsrEnter \/ IsrRead PROVE IInv'
<1>1. UNCHANGED <<ring, waiting, qmtx, calls, txeie, tcie, tdr, shift>> /\ tc' \in BOOLEAN
  BY DEF IsrEnter, IsrRead, uart, IInv, TypeOK
<1>2. /\ isr' \in [at : {"none", "tx", "read", "tc"}, txeie : BOOLEAN, tcie : BOOLEAN,
                   txe : BOOLEAN, tc : BOOLEAN]
      /\ isr'.txe = (tdr = None)
  <2> DEFINE f == (tdr = None)
  <2>1. f \in BOOLEAN
    OBVIOUS
  <2> HIDE DEF f
  <2>2. CASE IsrEnter
    <3>1. isr' = [at |-> "tx", txeie |-> txeie, tcie |-> tcie, txe |-> f, tc |-> tc]
      BY <2>2 DEF IsrEnter, f
    <3>2. txeie \in BOOLEAN /\ tcie \in BOOLEAN /\ tc \in BOOLEAN
      BY DEF IInv, TypeOK
    <3> QED BY <2>1, <3>1, <3>2 DEF f
  <2>3. CASE IsrRead
    <3>1. isr' = [isr EXCEPT !.at = "tx", !.txe = f, !.tc = tc]
      BY <2>3 DEF IsrRead, f
    <3>2. tc \in BOOLEAN
      BY DEF IInv, TypeOK
    <3> QED BY <2>1, <3>1, <3>2 DEF f, IInv, TypeOK
  <2> QED BY <2>2, <2>3
<1>3. TypeOK'
  BY <1>1, <1>2 DEF IInv, TypeOK, ring, calls
<1>4. SeenEmpty' /\ NeverStalls'
  BY <1>1, <1>2 DEF IInv, SeenEmpty, NeverStalls, ring
<1> QED BY <1>1, <1>3, <1>4, RestKept DEF IInv

\* TXEIE is disabled, and later written back as it was read, when the queue
\* is empty: no byte is left behind.  No thread runs in between.
LEMMA IInvIsrWrites == ASSUME IInv, IsrEmpty \/ IsrLeave PROVE IInv'
<1>1. UNCHANGED <<ring, waiting, qmtx, calls, uart>>
  BY DEF IsrEmpty, IsrLeave
<1>2. /\ isr' \in [at : {"none", "tx", "read", "tc"}, txeie : BOOLEAN, tcie : BOOLEAN,
                   txe : BOOLEAN, tc : BOOLEAN]
      /\ isr'.at # "tx"
  <2>1. CASE IsrEmpty
    BY <2>1 DEF IsrEmpty, IInv, TypeOK
  <2>2. CASE IsrLeave
    BY <2>2 DEF IsrLeave, NoIsr
  <2> QED BY <2>1, <2>2
<1>3. {txeie', tcie'} \subseteq BOOLEAN
  BY DEF IsrEmpty, IsrLeave, IInv, TypeOK
<1>4. TypeOK'
  BY <1>1, <1>2, <1>3 DEF IInv, TypeOK, ring, calls, uart
<1>5. NeverStalls'
  <2>1. IsEmpty => counter = Size
    BY EmptyIs DEF IInv
  <2>2. counter' = Size \/ txeie' = txeie
    BY <1>1, <2>1 DEF IsrEmpty, IsrLeave, AtEnd, ring
  <2>3. CASE counter' = Size
    <3>1. ~(counter' < Size)
      BY <2>3, OutputAssumption
    <3> QED BY <3>1 DEF NeverStalls
  <2>4. CASE txeie' = txeie
    BY <1>1, <2>4 DEF IInv, NeverStalls, ring
  <2> QED BY <2>2, <2>3, <2>4
<1>6. SeenEmpty'
  BY <1>2 DEF SeenEmpty
<1> QED BY <1>1, <1>4, <1>5, <1>6, RestKept DEF IInv

\* The transmitter only ever empties TDR.
LEMMA IInvHardware == ASSUME IInv, Hardware PROVE IInv'
<1>1. /\ UNCHANGED <<ring, waiting, qmtx, calls, txeie, tcie, isr>>
      /\ tdr' \in {tdr, None} /\ shift' \in {tdr, None} /\ tc' \in BOOLEAN
  BY DEF Hardware, HwLoad, HwSent, IInv, TypeOK
<1>2. TypeOK'
  BY <1>1 DEF IInv, TypeOK, ring, calls
<1>3. SeenEmpty' /\ NeverStalls'
  BY <1>1 DEF IInv, SeenEmpty, NeverStalls, ring
<1> QED BY <1>1, <1>2, <1>3, RestKept DEF IInv

-----------------------------------------------------------------------------
(* A byte leaves the ring *)

\* The oldest byte goes to TDR, which is empty; its slot is for the first of
\* the writers that wait.
LEMMA IInvIsrByte == ASSUME IInv, IsrByte PROVE IInv'
<1>1. /\ isr.at = "tx" /\ tdr = None /\ ~IsEmpty
      /\ tdr' = buffer[rdptr] /\ rdptr' = Slot(rdptr + 1) /\ counter' = counter + 1
      /\ isr' = [isr EXCEPT !.at = "read"] /\ tc' = FALSE
      /\ UNCHANGED <<buffer, wrptr, qmtx, kind, i, txeie, tcie, shift, wire>>
  BY DEF IsrByte, Fills, IInv, SeenEmpty
<1>2. counter \in 0 .. Size - 1 /\ rdptr \in Slots
  <2>1. counter # Size
    BY <1>1, EmptyIs DEF IInv
  <2> QED BY <2>1, OutputAssumption DEF IInv, TypeOK
<1>3. \A n \in 0 .. Size - 1 : Slot(rdptr' + n) = Slot(rdptr + (1 + n)) /\ rdptr' \in Slots
  BY <1>1, <1>2, SlotAdd, SlotType, OutputAssumption
<1>4. Distance'
  BY <1>1, <1>2, <1>3, OutputAssumption DEF IInv, Distance
<1>5. Held'
  BY <1>1, <1>2, <1>3, OutputAssumption DEF IInv, Held
<1>6. tdr' \in Bytes
  <2>1. 0 \in 0 .. Size
    BY OutputAssumption
  <2>2. Slot(rdptr + 0) = IF rdptr + 0 < Size THEN rdptr + 0 ELSE rdptr + 0 - Size
    BY <1>2, <2>1, SlotIs
  <2>3. Slot(rdptr + 0) = rdptr
    BY <1>2, <2>2, OutputAssumption DEF Slots
  <2> QED BY <1>1, <1>2, <2>3, OutputAssumption DEF IInv, Held
<1>7. SeenEmpty' /\ NeverStalls'
  <2>1. isr'.at = "read"
    BY <1>1 DEF IInv, TypeOK
  <2>2. counter < Size
    BY <1>2, OutputAssumption
  <2>3. txeie'
    BY <1>1, <2>2 DEF IInv, NeverStalls
  <2> QED BY <2>1, <2>3 DEF SeenEmpty, NeverStalls
<1>8. /\ isr' \in [at : {"none", "tx", "read", "tc"}, txeie : BOOLEAN, tcie : BOOLEAN,
                    txe : BOOLEAN, tc : BOOLEAN]
       /\ {txeie', tcie', tc'} \subseteq BOOLEAN
       /\ counter' \in 0 .. Size
  <2>1. isr' \in [at : {"none", "tx", "read", "tc"}, txeie : BOOLEAN, tcie : BOOLEAN,
                 txe : BOOLEAN, tc : BOOLEAN]
    BY <1>1 DEF IInv, TypeOK
  <2>2. {txeie', tcie', tc'} \subseteq BOOLEAN
    BY <1>1 DEF IInv, TypeOK
  <2> QED BY <1>1, <1>2, <2>1, <2>2, OutputAssumption
<1>9. /\ buffer' \in [Slots -> Bytes \cup {None}] /\ {wrptr', rdptr'} \subseteq Slots
       /\ qmtx' \in Thread \cup {None} /\ kind' \in [Thread -> Kinds]
       /\ i' \in [Thread -> Nat] /\ {tdr', shift'} \subseteq Bytes \cup {None}
  <2>1. rdptr' \in Slots
    BY <1>3, OutputAssumption
  <2> QED BY <1>1, <1>6, <2>1 DEF IInv, TypeOK
<1>10. CASE waiting = <<>>
  <2>1. UNCHANGED <<waiting, pc>>
    BY <1>10 DEF IsrByte, Wakes
  <2>2. TypeOK'
    BY <1>8, <1>9, <2>1 DEF IInv, TypeOK
  <2>3. Unfinished' /\ Queued' /\ NoLostWakeup'
    BY <1>1, <1>10, <2>1 DEF IInv, Unfinished, Queued, NoLostWakeup
  <2> QED BY <1>4, <1>5, <1>7, <2>2, <2>3 DEF IInv
<1>11. CASE waiting # <<>>
  <2> DEFINE h == Head(waiting)
  <2>1. waiting' = Tail(waiting) /\ pc' = [pc EXCEPT ![h] = "woken"]
    BY <1>11 DEF IsrByte, Wakes
  <2>2. /\ h = waiting[1] /\ Len(waiting) \in Nat \ {0} /\ h \in Thread
        /\ Len(waiting') = Len(waiting) - 1 /\ waiting' \in Seq(Thread)
        /\ \A j \in 1 .. Len(waiting) - 1 : waiting'[j] = waiting[j + 1]
    BY <1>11, <2>1 DEF IInv, TypeOK
  <2> HIDE DEF h
  <2>3. pc[h] = "wait" /\ pc'[h] = "woken" /\ \A t \in Thread \ {h} : pc'[t] = pc[t]
    BY <2>1, <2>2 DEF IInv, TypeOK, Queued
  <2>4. TypeOK'
    BY <1>8, <1>9, <2>1, <2>2 DEF IInv, TypeOK
  <2>5. Unfinished'
    BY <1>1, <2>3 DEF IInv, Unfinished
  <2>6. Queued'
    <3>1. \A j \in 1 .. Len(waiting') :
            j + 1 \in 1 .. Len(waiting) /\ waiting'[j] = waiting[j + 1] /\ waiting[j + 1] # h
                /\ waiting[j + 1] \in Thread
      <4>1. \A j, k \in 1 .. Len(waiting) : waiting[j] = waiting[k] => j = k
        BY DEF IInv, Queued
      <4>2. \A j \in 1 .. Len(waiting') : /\ j + 1 \in 1 .. Len(waiting) /\ j + 1 # 1
                                          /\ waiting'[j] = waiting[j + 1]
        BY <2>2
      <4>3. \A j \in 1 .. Len(waiting) : waiting[j] \in Thread
        BY DEF IInv, TypeOK
      <4>4. 1 \in 1 .. Len(waiting)
        BY <2>2
      <4> QED BY <2>2, <4>1, <4>2, <4>3, <4>4
    <3>2. \A j \in 1 .. Len(waiting') : pc'[waiting'[j]] = "wait"
      BY <2>3, <3>1 DEF IInv, Queued
    <3>3. \A j, k \in 1 .. Len(waiting') : waiting'[j] = waiting'[k] => j + 1 = k + 1
      BY <3>1 DEF IInv, Queued
    <3> QED BY <2>2, <3>2, <3>3 DEF Queued
  <2>7. NoLostWakeup'
    <3>1. Woken' = Woken \cup {h} /\ h \notin Woken
      BY <2>2, <2>3 DEF Woken
    <3>2. IsFiniteSet(Woken) /\ Cardinality(Woken) \in Nat
      <4>1. Woken \in SUBSET Thread
        BY DEF Woken
      <4> QED BY <4>1, ThreadsFinite
    <3>3. Cardinality(Woken') = Cardinality(Woken) + 1
      BY <3>1, <3>2, FS_AddElement
    <3>4. counter <= Cardinality(Woken)
      BY <1>11 DEF IInv, NoLostWakeup, Woken
    <3> QED BY <1>1, <1>2, <3>2, <3>3, <3>4 DEF NoLostWakeup, Woken
  <2> QED BY <1>4, <1>5, <1>7, <2>4, <2>5, <2>6, <2>7 DEF IInv
<1> QED BY <1>10, <1>11

-----------------------------------------------------------------------------
(* Bytes enter the ring *)

\* oq_write puts at least one byte and no more than there is space for or
\* than the message has left.
LEMMA ChunkIs ==
    ASSUME IInv, NEW t \in Thread, Put(t)
    PROVE  /\ Chunk(t) \in 1 .. counter /\ Chunk(t) <= Left(t) /\ counter \in 1 .. Size
           /\ Left(t) \in Nat /\ i[t] \in Nat \ {0}
           /\ i[t] + Left(t) = Length(kind[t]) + 1 /\ Length(kind[t]) \in 1 .. PrintLen + FormatLen
<1>1. pc[t] \in {"write", "woken"} /\ counter # 0
  BY DEF Put, Runs, IsFull
<1>2. counter \in 1 .. Size /\ i[t] \in Nat /\ i[t] >= 1 /\ i[t] <= Length(kind[t])
  BY <1>1, OutputAssumption DEF IInv, TypeOK, Unfinished
<1>3. Length(kind[t]) \in 1 .. PrintLen + FormatLen
  BY OutputAssumption DEF Length
<1> QED BY <1>2, <1>3, OutputAssumption DEF Chunk, Left

\* What a put stores, slot by slot.
LEMMA PutWrites ==
    ASSUME NEW t \in Thread, Put(t)
    PROVE  /\ buffer' = [s \in Slots |->
                IF \E j \in 0 .. Chunk(t) - 1 : Slot(wrptr + j) = s
                THEN Byte(kind[t], t,
                          i[t] + CHOOSE j \in 0 .. Chunk(t) - 1 : Slot(wrptr + j) = s)
                ELSE buffer[s]]
           /\ wrptr' = Slot(wrptr + Chunk(t)) /\ counter' = counter - Chunk(t)
           /\ rdptr' = rdptr
<1> DEFINE d == Chunk(t)
           into == [j \in 0 .. d - 1 |-> Slot(wrptr + j)]
<1>1. \A j \in 0 .. d - 1 : into[j] = Slot(wrptr + j)
  OBVIOUS
<1>2. \A s : {j \in 0 .. d - 1 : into[j] = s} = {j \in 0 .. d - 1 : Slot(wrptr + j) = s}
  BY <1>1
<1>3. \A s : (CHOOSE j \in 0 .. d - 1 : into[j] = s)
                 = CHOOSE j \in 0 .. d - 1 : Slot(wrptr + j) = s
  BY <1>1
<1> QED BY <1>1, <1>3 DEF Put

\* The bytes in the ring stay where they are, those put follow them.
LEMMA PutRing ==
    ASSUME IInv, NEW t \in Thread, Put(t)
    PROVE  /\ counter' \in 0 .. counter - 1 /\ counter \in 1 .. Size /\ rdptr' = rdptr
           /\ wrptr' \in Slots /\ Distance' /\ Held'
           /\ buffer' \in [Slots -> Bytes \cup {None}]
           /\ \A m \in 0 .. Size - counter - 1 :
                buffer'[Slot(rdptr + m)] = buffer[Slot(rdptr + m)]
<1> DEFINE d == Chunk(t)
           n == Size - counter
<1>1. /\ d \in 1 .. counter /\ d <= Left(t) /\ counter \in 1 .. Size /\ n \in 0 .. Size - 1
      /\ n + d <= Size /\ d \in 0 .. Size /\ n \in 0 .. Size /\ rdptr \in Slots
  BY ChunkIs, OutputAssumption DEF IInv, TypeOK
<1>2. /\ buffer' = [s \in Slots |->
            IF \E j \in 0 .. d - 1 : Slot(wrptr + j) = s
            THEN Byte(kind[t], t, i[t] + CHOOSE j \in 0 .. d - 1 : Slot(wrptr + j) = s)
            ELSE buffer[s]]
      /\ wrptr' = Slot(wrptr + d) /\ counter' = counter - d /\ rdptr' = rdptr
  BY PutWrites
<1> HIDE DEF d, n
<1>3. ASSUME NEW j \in 0 .. Size, n + j <= Size
      PROVE  Slot(wrptr + j) = Slot(rdptr + (n + j))
  BY <1>1, <1>3, SlotAdd DEF IInv, Distance, n
<1>4. counter' \in 0 .. counter - 1 /\ Size - counter' = n + d
  BY <1>1, <1>2, OutputAssumption DEF n
<1>5. Distance' /\ wrptr' \in Slots
  <2>1. wrptr' = Slot(rdptr + (n + d)) /\ n + d \in 0 .. Size
    BY <1>1, <1>2, <1>3
  <2> QED BY <1>1, <1>2, <1>4, <2>1, SlotType DEF Distance
<1>6. ASSUME NEW m \in 0 .. n - 1
      PROVE  buffer'[Slot(rdptr + m)] = buffer[Slot(rdptr + m)]
  <2>1. m \in 0 .. Size - 1 /\ m \in 0 .. Size /\ Slot(rdptr + m) \in Slots
    BY <1>1, SlotType, OutputAssumption
  <2>2. ASSUME NEW j \in 0 .. d - 1 PROVE Slot(wrptr + j) # Slot(rdptr + m)
    <3>1. j \in 0 .. Size /\ n + j <= Size /\ n + j \in 0 .. Size - 1 /\ n + j # m
      BY <1>1, OutputAssumption
    <3>2. Slot(rdptr + (n + j)) # Slot(rdptr + m)
      BY <1>1, <2>1, <3>1, SlotInjective
    <3> QED BY <1>3, <3>1, <3>2
  <2> QED BY <1>2, <2>1, <2>2
<1>7. ASSUME NEW s \in Slots, \E j \in 0 .. d - 1 : Slot(wrptr + j) = s
      PROVE  buffer'[s] \in Bytes
  <2> DEFINE c == CHOOSE j \in 0 .. d - 1 : Slot(wrptr + j) = s
  <2>1. c \in 0 .. d - 1
    BY <1>7
  <2>2. buffer'[s] = Byte(kind[t], t, i[t] + c)
    BY <1>2, <1>7
  <2> HIDE DEF c
  <2>3. i[t] + c \in 1 .. PrintLen + FormatLen
    BY <1>1, <2>1, ChunkIs, OutputAssumption
  <2>4. kind[t] \in Kinds
    BY DEF IInv, TypeOK
  <2> QED BY <2>2, <2>3, <2>4 DEF Bytes
<1>8. buffer' \in [Slots -> Bytes \cup {None}]
  <2>1. \A s \in Slots : buffer'[s] \in Bytes \cup {None}
    BY <1>2, <1>7 DEF IInv, TypeOK
  <2> QED BY <1>2, <2>1
<1>9. Held'
  <2>1. 0 .. Size - counter' - 1 = 0 .. (n + d) - 1
    BY <1>4
  <2> SUFFICES ASSUME NEW m \in 0 .. (n + d) - 1 PROVE buffer'[Slot(rdptr + m)] \in Bytes
    BY <1>2, <2>1 DEF Held
  <2>2. CASE m < n
    BY <1>1, <1>6, <2>2 DEF IInv, Held, n
  <2>3. CASE m >= n
    <3>1. PICK j \in 0 .. d - 1 : m = n + j
      BY <1>1, <2>3
    <3>2. j \in 0 .. Size /\ n + j <= Size /\ m \in 0 .. Size
      BY <1>1, <3>1, OutputAssumption
    <3>3. Slot(wrptr + j) = Slot(rdptr + m) /\ Slot(rdptr + m) \in Slots
      BY <1>1, <1>3, <3>1, <3>2, SlotType
    <3> QED BY <1>7, <3>3
  <2> QED BY <1>1, <2>2, <2>3
<1> QED BY <1>1, <1>2, <1>4, <1>5, <1>6, <1>8, <1>9 DEF n

\* A woken writer uses the slot it was woken for, and one that was not woken
\* takes at least the slot it leaves less.
LEMMA IInvPut == ASSUME IInv, NEW t \in Thread, Put(t) PROVE IInv'
<1>1. /\ pc[t] \in {"write", "woken"} /\ i' = [i EXCEPT ![t] = @ + Chunk(t)]
      /\ pc' = [pc EXCEPT ![t] = IF Left(t) = Chunk(t) THEN "end" ELSE "write"]
      /\ txeie' = TRUE /\ tcie' = TRUE
      /\ UNCHANGED <<rdptr, waiting, qmtx, kind, uart, isr>>
  BY DEF Put, Runs, Notify
<1>2. TypeOK'
  <2>1. i' \in [Thread -> Nat]
    <3>1. i[t] + Chunk(t) \in Nat
      BY ChunkIs, OutputAssumption
    <3> QED BY <1>1, <3>1 DEF IInv, TypeOK
  <2>2. counter' \in 0 .. Size
    BY PutRing, OutputAssumption
  <2> QED BY <1>1, <2>1, <2>2, PutRing DEF IInv, TypeOK, uart
<1>3. SeenEmpty' /\ NeverStalls'
  BY <1>1 DEF IInv, SeenEmpty, NeverStalls, uart
<1>4. Unfinished'
  <2>1. i[t] + Chunk(t) >= 1 /\ (Left(t) # Chunk(t) => i[t] + Chunk(t) <= Length(kind[t]))
    BY ChunkIs, OutputAssumption
  <2>2. i'[t] = i[t] + Chunk(t) /\ pc'[t] = IF Left(t) = Chunk(t) THEN "end" ELSE "write"
    BY <1>1 DEF IInv, TypeOK
  <2>3. \A u \in Thread \ {t} : i'[u] = i[u] /\ pc'[u] = pc[u]
    BY <1>1 DEF IInv, TypeOK
  <2> QED BY <1>1, <2>1, <2>2, <2>3 DEF IInv, Unfinished, Length
<1>5. Queued'
  <2>1. \A j \in 1 .. Len(waiting) : waiting[j] # t /\ waiting[j] \in Thread
    BY <1>1 DEF IInv, TypeOK, Queued
  <2> QED BY <1>1, <2>1 DEF IInv, TypeOK, Queued
<1>6. NoLostWakeup'
  <2>1. Woken' = Woken \ {t}
    BY <1>1 DEF Woken, IInv, TypeOK
  <2>2. IsFiniteSet(Woken) /\ Cardinality(Woken) \in Nat
    <3>1. Woken \in SUBSET Thread
      BY DEF Woken
    <3> QED BY <3>1, ThreadsFinite
  <2>3. Cardinality(Woken') >= Cardinality(Woken) - 1 /\ Cardinality(Woken') \in Nat
    BY <2>1, <2>2, FS_RemoveElement, FS_CardinalityType
  <2>4. waiting # <<>> => counter <= Cardinality(Woken)
    BY DEF IInv, NoLostWakeup, Woken
  <2>5. counter' <= counter - 1 /\ counter' \in Nat /\ counter \in Nat
    BY PutRing, OutputAssumption
  <2>6. waiting # <<>> => counter' <= Cardinality(Woken')
    BY <2>2, <2>3, <2>4, <2>5
  <2> QED BY <1>1, <2>6 DEF NoLostWakeup, Woken
<1> QED BY <1>2, <1>3, <1>4, <1>5, <1>6, PutRing DEF IInv

LEMMA IInvNext == ASSUME IInv, [Next]_vars PROVE IInv'
<1>1. CASE Isr
  BY <1>1, IInvIsrReads, IInvIsrWrites, IInvIsrByte DEF Isr
<1>2. CASE Hardware
  BY <1>2, IInvHardware
<1>3. ASSUME NEW t \in Thread, SerialPrint(t) \/ Chprintf(t) \/ Writes(t) PROVE IInv'
  BY <1>3, IInvBegin, IInvPut, IInvWait, IInvFinish DEF Writes
<1>4. CASE UNCHANGED vars
  <2>1. UNCHANGED <<ring, waiting, qmtx, calls>> /\ UNCHANGED <<txeie, tcie, uart, isr>>
    BY <1>4 DEF vars
  <2>2. TypeOK'
    BY <2>1 DEF IInv, TypeOK, ring, calls, uart
  <2>3. SeenEmpty' /\ NeverStalls'
    BY <2>1 DEF IInv, SeenEmpty, NeverStalls, ring, uart
  <2> QED BY <2>1, <2>2, <2>3, RestKept DEF IInv
<1> QED BY <1>1, <1>2, <1>3, <1>4 DEF Next

\* IInv holds in every state, for any number of writers, any size of the ring
\* and any lengths of messages.
THEOREM Invariant == Spec => []IInv
<1>1. Init => IInv
  BY IInvInit
<1>2. IInv /\ [Next]_vars => IInv'
  BY IInvNext
<1> QED BY <1>1, <1>2, PTL DEF Spec

\* Indices stay inside the ring, and only the bytes of messages go through it.
THEOREM TypeCorrect == Spec => []TypeOK
<1>1. IInv => TypeOK
  BY DEF IInv
<1> QED BY <1>1, Invariant, PTL

\* The handler writes CR1 as it read it when it began: the interrupt that
\* sends is on all the same while there are bytes in the queue.
THEOREM NothingLeftBehind == Spec => []NeverStalls
<1>1. IInv => NeverStalls
  BY DEF IInv
<1> QED BY <1>1, Invariant, PTL

\* A free slot always has a writer that was woken for it while others wait,
\* although oqGetI wakes one for each byte and a writer takes several slots.
THEOREM WakeupForEverySlot == Spec => []NoLostWakeup
<1>1. IInv => NoLostWakeup
  BY DEF IInv
<1> QED BY <1>1, Invariant, PTL

-----------------------------------------------------------------------------
(* The queue with its transmitter is a stream *)

\* Facts on sequences: the same bytes on the way, put together otherwise.
LEMMA ConcatLengthens ==
    ASSUME NEW S, NEW p \in Seq(S), NEW c \in Seq(S), NEW d \in Seq(S),
           Len(c) < Len(d), \A j \in 1 .. Len(c) : d[j] = c[j]
    PROVE  /\ p \o d \in Seq(S)
           /\ Len(p \o c) = Len(p) + Len(c) /\ Len(p \o d) = Len(p) + Len(d)
           /\ SubSeq(p \o d, 1, Len(p \o c)) = p \o c
<1>1. p \o d \in Seq(S) /\ p \o c \in Seq(S)
  OBVIOUS
<1>2. Len(p \o c) = Len(p) + Len(c) /\ Len(p \o d) = Len(p) + Len(d)
  OBVIOUS
<1>3. \A j \in 1 .. Len(p) + Len(c) : (p \o d)[j] = (p \o c)[j]
  OBVIOUS
<1>4. SubSeq(p \o d, 1, Len(p \o c)) \in Seq(S)
      /\ Len(SubSeq(p \o d, 1, Len(p \o c))) = Len(p \o c)
      /\ \A j \in 1 .. Len(p \o c) : SubSeq(p \o d, 1, Len(p \o c))[j] = (p \o d)[j]
  BY <1>1, <1>2
<1> QED BY <1>1, <1>2, <1>3, <1>4, SeqEqual

LEMMA HeadMoves ==
    ASSUME NEW S, NEW p \in Seq(S), NEW c \in Seq(S), NEW d \in Seq(S), NEW b \in S,
           Len(c) = Len(d) + 1, c[1] = b, \A j \in 1 .. Len(d) : d[j] = c[j + 1]
    PROVE  (p \o <<>>) \o c = (p \o <<b>>) \o d
<1> DEFINE q == p \o <<b>>
<1>1. p \o <<>> = p
  BY ConcatEmptySeq
<1>2. p \o c \in Seq(S) /\ Len(p \o c) = Len(p) + Len(c)
      /\ \A j \in 1 .. Len(p) + Len(c) : (p \o c)[j] = IF j <= Len(p) THEN p[j] ELSE c[j - Len(p)]
  BY ConcatProperties
<1>3. /\ q \in Seq(S) /\ Len(q) = Len(p) + 1 /\ q[Len(p) + 1] = b
      /\ \A j \in 1 .. Len(p) : q[j] = p[j]
  OBVIOUS
<1> HIDE DEF q
<1>4. q \o d \in Seq(S) /\ Len(q \o d) = Len(q) + Len(d)
      /\ \A j \in 1 .. Len(q) + Len(d) : (q \o d)[j] = IF j <= Len(q) THEN q[j] ELSE d[j - Len(q)]
  BY <1>3, ConcatProperties
<1>5. Len(q) + Len(d) = Len(p) + Len(c) /\ Len(p) \in Nat /\ Len(c) \in Nat /\ Len(d) \in Nat
  BY <1>3
<1>6. ASSUME NEW j \in 1 .. Len(p) + Len(c) PROVE (p \o c)[j] = (q \o d)[j]
  <2>1. (q \o d)[j] = IF j <= Len(p) + 1 THEN q[j] ELSE d[j - (Len(p) + 1)]
    BY <1>3, <1>4, <1>5
  <2>2. CASE j <= Len(p)
    BY <1>2, <1>3, <1>5, <2>1, <2>2
  <2>3. CASE j = Len(p) + 1
    BY <1>2, <1>3, <1>5, <2>1, <2>3
  <2>4. CASE j > Len(p) + 1
    <3>1. /\ j - (Len(p) + 1) \in 1 .. Len(d)
          /\ (j - (Len(p) + 1)) + 1 = j - Len(p)
      BY <1>5, <2>4
    <3>2. d[j - (Len(p) + 1)] = c[j - Len(p)]
      BY <3>1
    <3> QED BY <1>2, <1>5, <2>1, <2>4, <3>2
  <2>5. j <= Len(p) \/ j = Len(p) + 1 \/ j > Len(p) + 1
    <3>1. Len(p) \in Nat /\ Len(p) + Len(c) \in Nat
      BY <1>5
    <3>2. j \in Int
      BY <3>1
    <3> QED BY <3>1, <3>2
  <2> QED BY <2>2, <2>3, <2>4, <2>5
<1>7. p \o c = q \o d
  BY <1>2, <1>4, <1>5, <1>6, SeqEqual
<1> QED BY <1>1, <1>7 DEF q

\* The ring b read from slot r on, with space for c bytes left.
FromRing(b, r, c) == [j \in 1 .. Size - c |-> b[(r + j - 1) % Size]]

LEMMA FromRingIs ==
    ASSUME NEW b, NEW r, NEW c \in 0 .. Size,
           \A j \in 0 .. Size - c - 1 : b[Slot(r + j)] \in Bytes
    PROVE  /\ FromRing(b, r, c) \in Seq(Bytes) /\ Len(FromRing(b, r, c)) = Size - c
           /\ \A j \in 1 .. Size - c : FromRing(b, r, c)[j] = b[Slot(r + (j - 1))]
<1>1. Size - c \in 0 .. Size
  BY OutputAssumption
<1>2. \A j \in 1 .. Size - c : FromRing(b, r, c)[j] = b[Slot(r + (j - 1))]
  BY DEF FromRing, Slot
<1>3. \A j \in 1 .. Size - c : FromRing(b, r, c)[j] \in Bytes
  <2> SUFFICES ASSUME NEW j \in 1 .. Size - c PROVE FromRing(b, r, c)[j] \in Bytes
    OBVIOUS
  <2>1. j - 1 \in 0 .. Size - c - 1
    BY <1>1
  <2> QED BY <1>2, <2>1
<1>4. FromRing(b, r, c) \in [1 .. Size - c -> Bytes]
  BY <1>3 DEF FromRing
<1> QED BY <1>1, <1>2, <1>4

LEMMA ContentsIs ==
    ASSUME IInv
    PROVE  /\ Contents \in Seq(Bytes) /\ Len(Contents) = Size - counter
           /\ \A j \in 1 .. Size - counter : Contents[j] = buffer[Slot(rdptr + (j - 1))]
<1>1. Contents = FromRing(buffer, rdptr, counter)
  BY DEF Contents, FromRing
<1>2. counter \in 0 .. Size /\ \A j \in 0 .. Size - counter - 1 : buffer[Slot(rdptr + j)] \in Bytes
  BY DEF IInv, TypeOK, Held
<1> QED BY <1>1, <1>2, FromRingIs

LEMMA ContentsNext ==
    ASSUME IInv'
    PROVE  /\ Contents' \in Seq(Bytes) /\ Len(Contents') = Size - counter'
           /\ \A j \in 1 .. Size - counter' : Contents'[j] = buffer'[Slot(rdptr' + (j - 1))]
<1>1. Contents' = FromRing(buffer', rdptr', counter')
  BY DEF Contents, FromRing
<1>2. /\ counter' \in 0 .. Size
      /\ \A j \in 0 .. Size - counter' - 1 : buffer'[Slot(rdptr' + j)] \in Bytes
  BY DEF IInv, TypeOK, Held
<1> QED BY <1>1, <1>2, FromRingIs

LEMMA RegistersAre ==
    ASSUME IInv
    PROVE  /\ InRegister(shift) \in Seq(Bytes) /\ Len(InRegister(shift)) <= 1
           /\ InRegister(tdr) \in Seq(Bytes) /\ Len(InRegister(tdr)) <= 1
BY DEF IInv, TypeOK, InRegister

\* Arithmetic of lengths: s slots, c and d of them free or taken.
LEMMA LessSpace ==
    ASSUME NEW s \in Nat, NEW c \in 1 .. s, NEW d \in 0 .. c - 1, NEW j \in 1 .. s - c
    PROVE  j \in 1 .. s - d
OBVIOUS

LEMMA LongerByPut ==
    ASSUME NEW s \in Nat, NEW p \in 0 .. 2, NEW c \in Nat, NEW d \in Nat, c < d, d <= s
    PROVE  p + d \in (p + c) + 1 .. s + 2
OBVIOUS

\* Putting bytes lengthens the stream at its end.
LEMMA PutIsPut == ASSUME IInv, IInv', NEW t \in Thread, Put(t) PROVE Stream!Put
<1> DEFINE p == InRegister(shift) \o InRegister(tdr)
<1>1. p \in Seq(Bytes) /\ Len(p) \in 0 .. 2
  BY RegistersAre
<1>2. UNCHANGED <<shift, tdr, wire>>
  BY DEF Put, uart
<1>3. /\ Contents \in Seq(Bytes) /\ Contents' \in Seq(Bytes)
      /\ Len(Contents) < Len(Contents') /\ Len(Contents') <= Size
  BY ContentsIs, ContentsNext, PutRing, OutputAssumption
<1>4. ASSUME NEW j \in 1 .. Len(Contents) PROVE Contents'[j] = Contents[j]
  <2>1. /\ Len(Contents) = Size - counter /\ Len(Contents') = Size - counter'
        /\ counter \in 1 .. Size /\ counter' \in 0 .. counter - 1 /\ rdptr' = rdptr
    BY ContentsIs, ContentsNext, PutRing
  <2>2. j \in 1 .. Size - counter /\ j \in 1 .. Size - counter' /\ j - 1 \in 0 .. Size - counter - 1
    <3>1. j \in 1 .. Size - counter
      BY <2>1
    <3>2. Size \in Nat /\ counter \in 1 .. Size /\ counter' \in 0 .. counter - 1
      BY <2>1, OutputAssumption
    <3>3. j \in 1 .. Size - counter'
      BY <3>1, <3>2, LessSpace
    <3>4. j - 1 \in 0 .. Size - counter - 1
      BY <3>1, <3>2
    <3> QED BY <3>1, <3>3, <3>4
  <2>3. Contents[j] = buffer[Slot(rdptr + (j - 1))]
    BY <2>2, ContentsIs
  <2>4. Contents'[j] = buffer'[Slot(rdptr + (j - 1))]
    BY <2>1, <2>2, ContentsNext
  <2>5. buffer'[Slot(rdptr + (j - 1))] = buffer[Slot(rdptr + (j - 1))]
    BY <2>2, PutRing
  <2> QED BY <2>3, <2>4, <2>5
<1>5. OnWay = p \o Contents /\ OnWay' = p \o Contents'
  BY <1>2 DEF OnWay, InRegister
<1> HIDE DEF p
<1>6. /\ OnWay' \in Seq(Bytes) /\ Len(OnWay) = Len(p) + Len(Contents)
      /\ Len(OnWay') = Len(p) + Len(Contents')
      /\ SubSeq(OnWay', 1, Len(OnWay)) = OnWay
  <2>1. /\ p \o Contents' \in Seq(Bytes) /\ Len(p \o Contents) = Len(p) + Len(Contents)
        /\ Len(p \o Contents') = Len(p) + Len(Contents')
        /\ SubSeq(p \o Contents', 1, Len(p \o Contents)) = p \o Contents
    <3>1. \A j \in 1 .. Len(Contents) : Contents'[j] = Contents[j]
      BY <1>4
    <3>2. p \in Seq(Bytes) /\ Contents \in Seq(Bytes) /\ Contents' \in Seq(Bytes)
      BY <1>1, <1>3
    <3>3. Len(Contents) < Len(Contents')
      BY <1>3
    <3>4. PICK b, e : b = Contents /\ e = Contents'
      OBVIOUS
    <3>5. /\ p \in Seq(Bytes) /\ b \in Seq(Bytes) /\ e \in Seq(Bytes)
          /\ Len(b) < Len(e) /\ \A j \in 1 .. Len(b) : e[j] = b[j]
      BY <3>1, <3>2, <3>3, <3>4
    <3>6. /\ p \o e \in Seq(Bytes) /\ Len(p \o b) = Len(p) + Len(b)
          /\ Len(p \o e) = Len(p) + Len(e)
          /\ SubSeq(p \o e, 1, Len(p \o b)) = p \o b
      BY <3>5, ConcatLengthens
    <3> QED BY <3>4, <3>6
  <2> QED BY <1>5, <2>1
<1>7. Len(OnWay') \in Len(OnWay) + 1 .. Size + 2
  <2>1. Len(Contents) \in Nat /\ Len(Contents') \in Nat /\ Len(p) \in 0 .. 2 /\ Size \in Nat
        /\ Len(Contents) < Len(Contents') /\ Len(Contents') <= Size
    BY <1>1, <1>3, OutputAssumption
  <2>2. Len(p) + Len(Contents') \in (Len(p) + Len(Contents)) + 1 .. Size + 2
    BY <2>1, LongerByPut
  <2> QED BY <1>6, <2>2
<1> QED BY <1>2, <1>6, <1>7 DEF Stream!Put

\* Inside the queue and the transmitter bytes move and none is lost.
LEMMA MoveIsStutter ==
    ASSUME IInv, IInv', IsrByte \/ HwLoad
    PROVE  UNCHANGED <<OnWay, wire.last>>
<1> DEFINE p == InRegister(shift)
<1>1. CASE IsrByte
  <2>1. /\ UNCHANGED <<shift, wire, buffer>> /\ tdr = None /\ tdr' = buffer[rdptr]
        /\ counter' = counter + 1 /\ rdptr' = Slot(rdptr + 1)
    BY <1>1 DEF IsrByte, Fills, IInv, SeenEmpty
  <2>2. counter \in 0 .. Size - 1 /\ rdptr \in Slots
    <3>1. counter # Size
      BY <1>1, EmptyIs DEF IsrByte, IInv
    <3> QED BY <3>1, OutputAssumption DEF IInv, TypeOK
  <2>3. /\ p \in Seq(Bytes) /\ Contents \in Seq(Bytes) /\ Contents' \in Seq(Bytes)
        /\ Len(Contents) = Len(Contents') + 1 /\ Len(Contents') = Size - counter'
    BY <2>1, <2>2, RegistersAre, ContentsIs, ContentsNext, OutputAssumption
  <2>4. Contents[1] = tdr' /\ tdr' \in Bytes
    <3>1. 1 \in 1 .. Size - counter /\ 1 - 1 = 0 /\ 0 \in 0 .. Size /\ rdptr + 0 = rdptr
      BY <2>2, OutputAssumption DEF Slots
    <3>2. Slot(rdptr + 0) = rdptr
      <4>1. Slot(rdptr + 0) = IF rdptr + 0 < Size THEN rdptr + 0 ELSE rdptr + 0 - Size
        BY <2>2, <3>1, SlotIs
      <4> QED BY <2>2, <4>1, OutputAssumption DEF Slots
    <3>3. Contents[1] = buffer[Slot(rdptr + (1 - 1))]
      BY <3>1, ContentsIs
    <3>4. Contents[1] \in Bytes
      BY <2>3, <3>1, ContentsIs
    <3> QED BY <2>1, <3>1, <3>2, <3>3, <3>4
  <2>5. ASSUME NEW j \in 1 .. Len(Contents') PROVE Contents'[j] = Contents[j + 1]
    <3>1. /\ j \in 1 .. Size - counter' /\ j + 1 \in 1 .. Size - counter
          /\ j - 1 \in 0 .. Size /\ 1 + (j - 1) = j /\ (j + 1) - 1 = j /\ 1 \in 0 .. Size
          /\ 1 + (j - 1) <= Size
      BY <2>1, <2>2, <2>3, OutputAssumption
    <3>2. Contents'[j] = buffer[Slot(Slot(rdptr + 1) + (j - 1))]
      BY <2>1, <3>1, ContentsNext
    <3>3. Slot(Slot(rdptr + 1) + (j - 1)) = Slot(rdptr + (1 + (j - 1)))
      BY <2>2, <3>1, SlotAdd
    <3>4. Contents[j + 1] = buffer[Slot(rdptr + ((j + 1) - 1))]
      BY <3>1, ContentsIs
    <3> QED BY <3>1, <3>2, <3>3, <3>4
  <2>6. /\ OnWay = (p \o <<>>) \o Contents
        /\ OnWay' = (p \o <<tdr'>>) \o Contents'
    BY <2>1, <2>4, BytesAssumption DEF OnWay, InRegister
  <2> HIDE DEF p
  <2>7. (p \o <<>>) \o Contents = (p \o <<tdr'>>) \o Contents'
    BY <2>3, <2>4, <2>5, HeadMoves
  <2> QED BY <2>1, <2>6, <2>7
<1>2. CASE HwLoad
  <2>1. /\ shift = None /\ tdr # None /\ shift' = tdr /\ tdr' = None
        /\ wire' = wire /\ Contents' = Contents
    BY <1>2 DEF HwLoad, ring, Contents
  <2>2. OnWay = (<<>> \o <<tdr>>) \o Contents /\ OnWay' = (<<tdr>> \o <<>>) \o Contents
    BY <2>1 DEF OnWay, InRegister
  <2>3. <<>> \o <<tdr>> = <<tdr>> \o <<>>
    OBVIOUS
  <2> QED BY <2>1, <2>2, <2>3
<1> QED BY <1>1, <1>2

\* What the line carries is bytes, each kept under its kind.
WireOK == wire \in [last : Bytes \cup {None}, print : Bytes \cup {None},
                    format : Bytes \cup {None}]

LEMMA WireKept == ASSUME IInv, WireOK, [Next]_vars PROVE WireOK'
<1>1. CASE UNCHANGED wire
  BY <1>1 DEF WireOK
<1>2. CASE HwSent
  <2>1. shift \in Bytes
    BY <1>2 DEF HwSent, IInv, TypeOK
  <2>2. shift.kind \in {"print", "format"}
    BY <2>1 DEF Bytes, Byte, Kinds
  <2> QED BY <1>2, <2>1, <2>2 DEF HwSent, WireOK
<1>3. [Next]_vars => UNCHANGED wire \/ HwSent
  BY DEF Next, Isr, IsrEnter, IsrByte, IsrRead, IsrEmpty, IsrLeave, Hardware, HwLoad,
         SerialPrint, Chprintf, Writes, Put, Wait, Finish, vars
<1> QED BY <1>1, <1>2, <1>3

\* The byte in the shift register is the oldest.
LEMMA SentIsSend == ASSUME IInv, WireOK, HwSent PROVE Stream!Send
<1>1. /\ shift # None /\ shift' = None /\ wire'.last = shift
      /\ tdr' = tdr /\ Contents' = Contents
  <2>1. wire'.last = shift
    BY DEF HwSent, WireOK
  <2> QED BY <2>1 DEF HwSent, ring, Contents
<1> DEFINE r == InRegister(tdr)
<1>2. r \in Seq(Bytes) /\ Contents \in Seq(Bytes) /\ shift \in Bytes
  BY <1>1, RegistersAre, ContentsIs DEF IInv, TypeOK
<1>3. OnWay = (<<shift>> \o r) \o Contents /\ OnWay' = (<<>> \o r) \o Contents
  BY <1>1 DEF OnWay, InRegister
<1> HIDE DEF r
<1>4. (<<shift>> \o r) \o Contents = <<shift>> \o (r \o Contents) /\ <<>> \o r = r
  BY <1>2, ConcatAssociative, ConcatEmptySeq
<1>5. r \o Contents \in Seq(Bytes)
  BY <1>2
<1>6. OnWay # <<>> /\ shift = Head(OnWay) /\ OnWay' = Tail(OnWay)
  BY <1>2, <1>3, <1>4, <1>5
<1> QED BY <1>1, <1>6 DEF Stream!Send

LEMMA StepIsStep ==
    ASSUME IInv, IInv', WireOK, [Next]_vars PROVE [Stream!SNext]_(Stream!svars)
<1>1. CASE UNCHANGED <<ring, tdr, shift, wire>>
  BY <1>1 DEF Stream!svars, OnWay, Contents, ring
<1>2. ASSUME NEW t \in Thread, Put(t) PROVE Stream!SNext
  BY <1>2, PutIsPut DEF Stream!SNext
<1>3. CASE IsrByte \/ HwLoad
  BY <1>3, MoveIsStutter DEF Stream!svars
<1>4. CASE HwSent
  BY <1>4, SentIsSend DEF Stream!SNext
<1>5. CASE IsrEnter \/ IsrRead \/ IsrEmpty \/ IsrLeave
  BY <1>1, <1>5 DEF IsrEnter, IsrRead, IsrEmpty, IsrLeave, uart
<1>6. ASSUME NEW t \in Thread, SerialPrint(t) \/ Chprintf(t) \/ Wait(t) \/ Finish(t)
      PROVE  [Stream!SNext]_(Stream!svars)
  BY <1>1, <1>6 DEF SerialPrint, Chprintf, Wait, Finish, uart
<1>7. CASE UNCHANGED vars
  BY <1>1, <1>7 DEF vars, uart
<1> QED
  BY <1>2, <1>3, <1>4, <1>5, <1>6, <1>7 DEF Next, Isr, Hardware, Writes

\* The output queue with the interrupt and the transmitter sends the bytes
\* put into it once each and in their order, for any number of writers, any
\* size of the ring and any lengths of messages.
THEOREM ImplementsStream == Spec => IsStream
<1>1. Init => Stream!SInit
  BY BytesAssumption, OutputAssumption DEF Init, Stream!SInit, OnWay, InRegister, Contents
<1>2. IInv /\ IInv' /\ WireOK /\ [Next]_vars => [Stream!SNext]_(Stream!svars)
  BY StepIsStep
<1>3. Init => WireOK
  BY DEF Init, WireOK
<1>4. IInv /\ WireOK /\ [Next]_vars => WireOK'
  BY WireKept
<1> QED BY <1>1, <1>2, <1>3, <1>4, Invariant, PTL DEF Spec, IsStream, Stream!SSpec

-----------------------------------------------------------------------------
(* Messages stay whole *)

\* The bytes of a put go to the slots behind those that hold bytes.
LEMMA PutBytes ==
    ASSUME IInv, NEW t \in Thread, Put(t), NEW j \in 0 .. Chunk(t) - 1
    PROVE  buffer'[Slot(rdptr + ((Size - counter) + j))] = Byte(kind[t], t, i[t] + j)
<1> DEFINE d == Chunk(t)
           n == Size - counter
<1>1. /\ d \in 1 .. counter /\ counter \in 1 .. Size /\ n \in 0 .. Size
      /\ j \in 0 .. Size - 1 /\ j \in 0 .. Size /\ n + j <= Size
      /\ rdptr \in Slots /\ wrptr \in Slots
  BY ChunkIs, OutputAssumption DEF IInv, TypeOK
<1>2. Slot(wrptr + j) = Slot(rdptr + (n + j))
  BY <1>1, SlotAdd DEF IInv, Distance, n
<1>3. Slot(wrptr + j) \in Slots
  BY <1>1, SlotType
<1> DEFINE c == CHOOSE c \in 0 .. d - 1 : Slot(wrptr + c) = Slot(wrptr + j)
<1>4. c \in 0 .. d - 1 /\ Slot(wrptr + c) = Slot(wrptr + j)
  OBVIOUS
<1>5. buffer'[Slot(wrptr + j)] = Byte(kind[t], t, i[t] + c)
  BY <1>3, PutWrites
<1> HIDE DEF c
<1>6. c = j
  <2>1. c \in 0 .. Size - 1
    BY <1>1, <1>4, OutputAssumption
  <2> QED BY <1>1, <1>4, <2>1, SlotInjective
<1> QED BY <1>2, <1>5, <1>6

\* A put appends the next characters of the message.
LEMMA PutAppends ==
    ASSUME IInv, IInv', NEW t \in Thread, Put(t)
    PROVE  /\ OnWay \in Seq(Bytes) /\ OnWay' \in Seq(Bytes)
           /\ Len(OnWay') = Len(OnWay) + Chunk(t)
           /\ \A x \in 1 .. Len(OnWay) : OnWay'[x] = OnWay[x]
           /\ \A j \in 0 .. Chunk(t) - 1 :
                OnWay'[Len(OnWay) + (1 + j)] = Byte(kind[t], t, i[t] + j)
<1> DEFINE p == InRegister(shift) \o InRegister(tdr)
           d == Chunk(t)
<1>1. p \in Seq(Bytes)
  BY RegistersAre
<1>2. OnWay = p \o Contents /\ OnWay' = p \o Contents'
  BY DEF Put, uart, OnWay, InRegister
<1>3. /\ d \in 1 .. counter /\ counter \in 1 .. Size /\ Size \in Nat
      /\ counter' = counter - d /\ rdptr' = rdptr
  BY ChunkIs, PutWrites, OutputAssumption
<1> HIDE DEF p, d
<1>4. /\ Contents \in Seq(Bytes) /\ Contents' \in Seq(Bytes)
      /\ Len(Contents) = Size - counter /\ Len(Contents') = (Size - counter) + d
  <2>1. Len(Contents') = Size - counter' /\ Contents' \in Seq(Bytes)
    BY ContentsNext
  <2>2. Size - counter' = (Size - counter) + d
    BY <1>3
  <2> QED BY <2>1, <2>2, ContentsIs
<1>5. ASSUME NEW x \in 1 .. Size - counter PROVE Contents'[x] = Contents[x]
  <2>1. x \in 1 .. Size - counter' /\ x - 1 \in 0 .. Size - counter - 1
    BY <1>3
  <2>2. Contents[x] = buffer[Slot(rdptr + (x - 1))]
    BY ContentsIs
  <2>3. Contents'[x] = buffer'[Slot(rdptr + (x - 1))]
    BY <1>3, <2>1, ContentsNext
  <2> QED BY <2>1, <2>2, <2>3, PutRing
<1>6. ASSUME NEW j \in 0 .. d - 1
      PROVE  Contents'[(Size - counter) + (1 + j)] = Byte(kind[t], t, i[t] + j)
  <2> DEFINE x == (Size - counter) + (1 + j)
  <2>1. x \in 1 .. Size - counter' /\ x - 1 = (Size - counter) + j
    BY <1>3
  <2>2. Contents'[x] = buffer'[Slot(rdptr + (x - 1))]
    BY <1>3, <2>1, ContentsNext
  <2> HIDE DEF x
  <2>3. Contents'[x] = Byte(kind[t], t, i[t] + j)
    BY <2>1, <2>2, PutBytes DEF d
  <2> QED BY <2>3 DEF x
<1>7. /\ OnWay \in Seq(Bytes) /\ OnWay' \in Seq(Bytes)
      /\ Len(OnWay) = Len(p) + Len(Contents) /\ Len(OnWay') = Len(p) + Len(Contents')
      /\ \A x \in 1 .. Len(p) + Len(Contents) :
            OnWay[x] = IF x <= Len(p) THEN p[x] ELSE Contents[x - Len(p)]
      /\ \A x \in 1 .. Len(p) + Len(Contents') :
            OnWay'[x] = IF x <= Len(p) THEN p[x] ELSE Contents'[x - Len(p)]
  BY <1>1, <1>2, <1>4, ConcatProperties
<1>8. Len(p) \in Nat /\ Len(OnWay') = Len(OnWay) + d
  BY <1>1, <1>3, <1>4, <1>7
<1>9. ASSUME NEW x \in 1 .. Len(OnWay) PROVE OnWay'[x] = OnWay[x]
  <2>1. x \in 1 .. Len(p) + Len(Contents) /\ x \in 1 .. Len(p) + Len(Contents')
    BY <1>3, <1>4, <1>7, <1>8
  <2>2. CASE x <= Len(p)
    BY <1>7, <2>1, <2>2
  <2>3. CASE x > Len(p)
    <3>1. Len(p) \in Nat /\ Len(Contents) \in Nat /\ x \in Nat /\ x <= Len(p) + Len(Contents)
      BY <1>3, <1>4, <1>8, <2>1
    <3>2. x - Len(p) \in 1 .. Len(Contents) /\ ~(x <= Len(p))
      BY <2>3, <3>1
    <3>3. Contents'[x - Len(p)] = Contents[x - Len(p)]
      BY <1>4, <1>5, <3>2
    <3> QED BY <1>7, <2>1, <3>2, <3>3
  <2>4. x \in Int /\ Len(p) \in Int
    BY <1>8, <2>1
  <2> QED BY <2>2, <2>3, <2>4
<1>10. ASSUME NEW j \in 0 .. d - 1
       PROVE  OnWay'[Len(OnWay) + (1 + j)] = Byte(kind[t], t, i[t] + j)
  <2> DEFINE x == Len(OnWay) + (1 + j)
  <2>1. /\ x \in 1 .. Len(p) + Len(Contents') /\ ~(x <= Len(p))
        /\ x - Len(p) = (Size - counter) + (1 + j)
    BY <1>3, <1>4, <1>7, <1>8
  <2> HIDE DEF x
  <2>2. OnWay'[x] = Byte(kind[t], t, i[t] + j)
    BY <1>6, <1>7, <2>1
  <2> QED BY <2>2 DEF x
<1> QED BY <1>7, <1>8, <1>9, <1>10 DEF d

\* The byte at place x of what is on the way, the place 0 being the byte of
\* the kind that was sent last.
Before(k, x) == IF x = 0 THEN wire[k] ELSE OnWay[x]
Of(k, x)     == x = 0 \/ OnWay[x].kind = k

\* No byte of the kind is between the places x and z.
Between(k, x, z) == \E y \in x + 1 .. z - 1 : OnWay[y].kind = k

\* A message may begin behind a, and b is the byte behind a.
Over(k, a) == a = None \/ a.i = Length(k)
Follows(k, a, b) ==
    IF b.i = 1 THEN Over(k, a) ELSE a # None /\ b = [a EXCEPT !.i = @ + 1]

\* The bytes of each kind follow one another up to the transmitter.
Lined ==
    \A k \in Kinds : \A x, z \in 0 .. Len(OnWay) :
        x < z /\ Of(k, x) /\ Of(k, z) /\ ~Between(k, x, z) =>
            Follows(k, Before(k, x), OnWay[z])

Writing(t, k) == pc[t] # "idle" /\ kind[t] = k

\* The newest byte of the kind is the one before the next the writer puts.
Ready(k, a) ==
    /\ \A t \in Thread : Writing(t, k) =>
          IF i[t] = 1 THEN Over(k, a) ELSE a = Byte(k, t, i[t] - 1)
    /\ (\A t \in Thread : ~Writing(t, k)) => Over(k, a)

Tip ==
    \A k \in Kinds : \A x \in 0 .. Len(OnWay) :
        Of(k, x) /\ ~Between(k, x, Len(OnWay) + 1) => Ready(k, Before(k, x))

\* Each kind has one writer at a time, done when it has put its last byte.
OneWriter ==
    \A t \in Thread :
        /\ Writing(t, "print") => qmtx = t
        /\ Writing(t, "format") => t = Formatter
        /\ pc[t] = "end" => i[t] = Length(kind[t]) + 1

\* The inductive strengthening of MessagesWhole.
Whole == Lined /\ Tip /\ OneWriter

LEMMA OnWayIs ==
    ASSUME IInv PROVE OnWay \in Seq(Bytes) /\ Len(OnWay) \in Nat
<1>1. InRegister(shift) \in Seq(Bytes) /\ InRegister(tdr) \in Seq(Bytes) /\ Contents \in Seq(Bytes)
  BY RegistersAre, ContentsIs
<1>2. OnWay \in Seq(Bytes)
  BY <1>1 DEF OnWay
<1> QED BY <1>2

LEMMA WholeInit == ASSUME Init PROVE Whole
<1>1. OnWay = <<>>
  BY OutputAssumption DEF Init, OnWay, InRegister, Contents
<1>2. Lined
  BY <1>1 DEF Lined
<1>3. \A t \in Thread : pc[t] = "idle"
  BY DEF Init
<1>4. \A k \in Kinds : wire[k] = None
  BY DEF Init, Kinds
<1>5. Tip
  BY <1>1, <1>3, <1>4 DEF Tip, Ready, Before, Writing, Over
<1>6. OneWriter
  BY <1>3 DEF OneWriter, Writing
<1> QED BY <1>2, <1>5, <1>6 DEF Whole

\* Only the writers and the line matter to Whole.
LEMMA WholeKept ==
    ASSUME IInv, Whole, UNCHANGED <<OnWay, wire, kind, i, qmtx>>,
           \A t \in Thread : /\ pc'[t] # "idle" <=> pc[t] # "idle"
                             /\ pc'[t] = "end" => pc[t] = "end"
    PROVE  Whole'
<1>1. \A k, x : Before(k, x)' = Before(k, x) /\ (Of(k, x)' <=> Of(k, x))
  BY DEF Before, Of
<1>2. \A k, x, z : Between(k, x, z)' <=> Between(k, x, z)
  BY DEF Between
<1>3. \A t \in Thread : \A k : Writing(t, k)' <=> Writing(t, k)
  BY DEF Writing
<1>4. Lined'
  BY <1>1, <1>2 DEF Whole, Lined
<1>5. ASSUME NEW k, NEW a, Ready(k, a)
      PROVE  (Ready(k, a))'
  BY <1>3, <1>5 DEF Ready
<1>6. Tip'
  <2> SUFFICES ASSUME NEW k \in Kinds, NEW x \in 0 .. Len(OnWay),
                      Of(k, x), ~Between(k, x, Len(OnWay) + 1)
               PROVE  Ready(k, Before(k, x))'
    BY <1>1, <1>2 DEF Tip
  <2>1. Ready(k, Before(k, x))
    BY DEF Whole, Tip
  <2> QED BY <1>1, <1>3, <2>1 DEF Ready
<1>7. OneWriter'
  BY <1>3 DEF Whole, OneWriter
<1> QED BY <1>4, <1>6, <1>7 DEF Whole

\* A message begins behind a whole one.
LEMMA WholeBegin ==
    ASSUME IInv, Whole, NEW t \in Thread, SerialPrint(t) \/ Chprintf(t)
    PROVE  Whole'
<1>1. PICK w \in Kinds :
         /\ pc[t] = "idle" /\ pc' = [pc EXCEPT ![t] = "write"]
         /\ kind' = [kind EXCEPT ![t] = w] /\ i' = [i EXCEPT ![t] = 1]
         /\ w = "print" => qmtx = None /\ qmtx' = t
         /\ w = "format" => t = Formatter /\ qmtx' = qmtx
  BY DEF SerialPrint, PrintFree, Chprintf, Runs, Kinds
<1>2. UNCHANGED <<OnWay, wire>>
  BY DEF SerialPrint, Chprintf, ring, uart, OnWay, Contents
<1>3. \A k, x : Before(k, x)' = Before(k, x) /\ (Of(k, x)' <=> Of(k, x))
  BY <1>2 DEF Before, Of
<1>4. \A k, x, z : Between(k, x, z)' <=> Between(k, x, z)
  BY <1>2 DEF Between
<1>5. \A u \in Thread : u # t =>
         pc'[u] = pc[u] /\ kind'[u] = kind[u] /\ i'[u] = i[u]
  BY <1>1 DEF IInv, TypeOK
<1>6. pc'[t] = "write" /\ kind'[t] = w /\ i'[t] = 1
  BY <1>1 DEF IInv, TypeOK
<1>7. None \notin Thread
  BY OutputAssumption DEF Thread
<1>8. \A u \in Thread : ~Writing(u, w)
  <2> SUFFICES ASSUME NEW u \in Thread, Writing(u, w) PROVE FALSE
    OBVIOUS
  <2>1. CASE w = "print"
    BY <1>1, <1>7, <2>1 DEF Whole, OneWriter
  <2>2. CASE w = "format"
    BY <1>1, <2>2 DEF Whole, OneWriter, Writing
  <2> QED BY <2>1, <2>2 DEF Kinds
<1>9. \A u \in Thread, k \in Kinds : Writing(u, k)' <=> Writing(u, k) \/ (u = t /\ k = w)
  BY <1>1, <1>5, <1>6 DEF Writing
<1>10. Lined'
  BY <1>2, <1>3, <1>4 DEF Whole, Lined
<1>11. Tip'
  <2> SUFFICES ASSUME NEW k \in Kinds, NEW x \in 0 .. Len(OnWay),
                      Of(k, x), ~Between(k, x, Len(OnWay) + 1)
               PROVE  Ready(k, Before(k, x))'
    BY <1>2, <1>3, <1>4 DEF Tip
  <2>1. PICK a : a = Before(k, x)
    OBVIOUS
  <2>2. Ready(k, a)
    BY <2>1 DEF Whole, Tip
  <2>3. CASE k = w
    <3>1. Over(k, a)
      BY <1>8, <2>2, <2>3 DEF Ready
    <3>2. \A u \in Thread : Writing(u, k)' => i'[u] = 1
      BY <1>6, <1>8, <1>9, <2>3
    <3> QED BY <1>3, <2>1, <3>1, <3>2 DEF Ready, Over, Length
  <2>4. CASE k # w
    <3>1. \A u \in Thread : /\ Writing(u, k)' <=> Writing(u, k)
                            /\ Writing(u, k) => i'[u] = i[u]
      BY <1>1, <1>5, <1>9, <2>4 DEF Writing
    <3> QED BY <1>3, <2>1, <2>2, <3>1 DEF Ready, Over, Length, Byte
  <2> QED BY <2>3, <2>4
<1>12. OneWriter'
  <2> SUFFICES ASSUME NEW u \in Thread
               PROVE  /\ Writing(u, "print")' => qmtx' = u
                      /\ Writing(u, "format")' => u = Formatter
                      /\ pc'[u] = "end" => i'[u] = Length(kind'[u]) + 1
    BY DEF OneWriter, Length
  <2>1. CASE u = t
    BY <1>1, <1>6, <2>1 DEF Writing
  <2>2. CASE u # t
    <3>1. Writing(u, "print")' => qmtx' = u
      BY <1>1, <1>5, <1>7, <2>2 DEF Whole, OneWriter, Writing, Kinds
    <3>2. Writing(u, "format")' => u = Formatter
      BY <1>5, <2>2 DEF Whole, OneWriter, Writing
    <3>3. pc'[u] = "end" => i'[u] = Length(kind'[u]) + 1
      BY <1>5, <2>2 DEF Whole, OneWriter
    <3> QED BY <3>1, <3>2, <3>3
  <2> QED BY <2>1, <2>2
<1> QED BY <1>10, <1>11, <1>12 DEF Whole

\* A message ends with its last byte in the queue.
LEMMA WholeFinish ==
    ASSUME IInv, Whole, NEW t \in Thread, Finish(t) PROVE Whole'
<1>1. /\ pc[t] = "end" /\ pc' = [pc EXCEPT ![t] = "idle"] /\ UNCHANGED <<kind, i, wire>>
      /\ qmtx' = IF kind[t] = "print" THEN None ELSE qmtx
  BY DEF Finish, Runs
<1>2. UNCHANGED OnWay
  BY DEF Finish, ring, uart, OnWay, Contents
<1>3. \A k, x : Before(k, x)' = Before(k, x) /\ (Of(k, x)' <=> Of(k, x))
  BY <1>1, <1>2 DEF Before, Of
<1>4. \A k, x, z : Between(k, x, z)' <=> Between(k, x, z)
  BY <1>2 DEF Between
<1>5. \A u \in Thread : pc'[u] = IF u = t THEN "idle" ELSE pc[u]
  BY <1>1 DEF IInv, TypeOK
<1>6. kind[t] \in Kinds /\ Writing(t, kind[t]) /\ i[t] = Length(kind[t]) + 1
  BY <1>1 DEF IInv, TypeOK, Whole, OneWriter, Writing
<1>7. Length(kind[t]) \in Nat \ {0}
  BY OutputAssumption DEF Length
<1>8. \A u \in Thread, k \in Kinds : Writing(u, k)' <=> Writing(u, k) /\ u # t
  BY <1>1, <1>5 DEF Writing
<1>9. \A u \in Thread : Writing(u, kind[t]) => u = t
  BY <1>6 DEF Whole, OneWriter, Kinds
<1>10. Lined'
  BY <1>2, <1>3, <1>4 DEF Whole, Lined
<1>11. Tip'
  <2> SUFFICES ASSUME NEW k \in Kinds, NEW x \in 0 .. Len(OnWay),
                      Of(k, x), ~Between(k, x, Len(OnWay) + 1)
               PROVE  Ready(k, Before(k, x))'
    BY <1>2, <1>3, <1>4 DEF Tip
  <2>1. PICK a : a = Before(k, x)
    OBVIOUS
  <2>2. Ready(k, a)
    BY <2>1 DEF Whole, Tip
  <2>3. CASE k = kind[t]
    <3>1. a = Byte(k, t, i[t] - 1)
      BY <1>6, <1>7, <2>2, <2>3 DEF Ready
    <3>2. Over(k, a)
      BY <1>6, <1>7, <2>3, <3>1 DEF Over, Byte
    <3>3. \A u \in Thread : ~Writing(u, k)'
      BY <1>8, <1>9, <2>3
    <3> QED BY <1>3, <2>1, <3>2, <3>3 DEF Ready, Over, Length
  <2>4. CASE k # kind[t]
    <3>1. \A u \in Thread : Writing(u, k)' <=> Writing(u, k)
      BY <1>8, <2>4 DEF Writing
    <3> QED BY <1>1, <1>3, <2>1, <2>2, <3>1 DEF Ready, Over, Length, Byte
  <2> QED BY <2>3, <2>4
<1>12. OneWriter'
  <2> SUFFICES ASSUME NEW u \in Thread
               PROVE  /\ Writing(u, "print")' => qmtx' = u
                      /\ Writing(u, "format")' => u = Formatter
                      /\ pc'[u] = "end" => i'[u] = Length(kind'[u]) + 1
    BY DEF OneWriter, Length
  <2>1. Writing(u, "print")' => qmtx' = u
    BY <1>1, <1>6, <1>8, <1>9 DEF Whole, OneWriter, Kinds
  <2>2. Writing(u, "format")' => u = Formatter
    BY <1>8 DEF Whole, OneWriter, Kinds
  <2>3. pc'[u] = "end" => i'[u] = Length(kind'[u]) + 1
    BY <1>1, <1>5 DEF Whole, OneWriter
  <2> QED BY <2>1, <2>2, <2>3
<1> QED BY <1>10, <1>11, <1>12 DEF Whole

\* The characters that are put go on where the newest byte of their kind ends.
LEMMA WholePut ==
    ASSUME IInv, IInv', Whole, NEW t \in Thread, Put(t) PROVE Whole'
<1> DEFINE w == kind[t]
<1>0. PICK d, L : d = Chunk(t) /\ L = Len(OnWay)
  OBVIOUS
<1>1. /\ d \in Nat \ {0} /\ i[t] \in Nat \ {0} /\ Left(t) \in Nat
      /\ i[t] + Left(t) = Length(w) + 1 /\ d <= Left(t)
      /\ Length(w) \in 1 .. PrintLen + FormatLen
  BY <1>0, ChunkIs, OutputAssumption
<1>2. /\ OnWay \in Seq(Bytes) /\ OnWay' \in Seq(Bytes) /\ L \in Nat /\ Len(OnWay') = L + d
      /\ \A x \in 1 .. L : OnWay'[x] = OnWay[x]
      /\ \A j \in 0 .. d - 1 : OnWay'[L + (1 + j)] = Byte(w, t, i[t] + j)
  BY <1>0, PutAppends, OnWayIs
<1>3. /\ pc[t] \in {"write", "woken"} /\ UNCHANGED <<kind, qmtx, wire>>
      /\ \A u \in Thread : /\ pc'[u] = IF u = t THEN (IF Left(t) = d THEN "end" ELSE "write")
                                       ELSE pc[u]
                           /\ i'[u] = IF u = t THEN i[t] + d ELSE i[u]
  BY <1>0 DEF Put, Runs, IInv, TypeOK
<1>4. w \in Kinds /\ Writing(t, w)
  BY <1>3 DEF IInv, TypeOK, Writing
<1>5. \A u \in Thread, k \in Kinds : Writing(u, k)' <=> Writing(u, k)
  BY <1>3 DEF Writing
<1>6. \A u \in Thread : Writing(u, w) => u = t
  BY <1>4 DEF Whole, OneWriter, Kinds
<1> HIDE DEF w
<1>7. ASSUME NEW x \in L + 1 .. L + d
      PROVE  /\ x - (L + 1) \in 0 .. d - 1
             /\ OnWay'[x] = Byte(w, t, i[t] + (x - (L + 1))) /\ OnWay'[x].kind = w
             /\ OnWay'[x] \in Bytes
  <2>0. L \in Nat /\ d \in Nat
    BY <1>1, <1>2
  <2>1. x - (L + 1) \in 0 .. d - 1 /\ L + (1 + (x - (L + 1))) = x /\ x \in 1 .. L + d
    BY <2>0
  <2>2. OnWay'[x] = Byte(w, t, i[t] + (x - (L + 1)))
    BY <1>2, <2>1
  <2> QED BY <1>2, <2>1, <2>2 DEF Byte
<1>8. ASSUME NEW k \in Kinds, NEW x \in 0 .. L
      PROVE  Before(k, x)' = Before(k, x) /\ (Of(k, x)' <=> Of(k, x))
  BY <1>2, <1>3 DEF Before, Of
<1>9. ASSUME NEW k \in Kinds, NEW x \in 0 .. L, NEW z \in 0 .. L + 1,
             Between(k, x, z) PROVE Between(k, x, z)'
  <2>1. PICK y \in x + 1 .. z - 1 : OnWay[y].kind = k
    BY <1>9 DEF Between
  <2>2. y \in 1 .. L
    BY <1>2
  <2> QED BY <1>2, <2>1, <2>2 DEF Between
<1>10. Lined'
  <2> SUFFICES ASSUME NEW k \in Kinds, NEW x \in 0 .. L + d, NEW z \in 0 .. L + d,
                      x < z, Of(k, x)', Of(k, z)', ~Between(k, x, z)'
               PROVE  Follows(k, Before(k, x)', OnWay'[z])
    BY <1>2 DEF Lined, Follows, Over, Length
  <2>1. CASE z <= L
    <3>1. x \in 0 .. L /\ z \in 0 .. L /\ z \in 1 .. L /\ z \in 0 .. L + 1
      BY <1>1, <1>2, <2>1
    <3>2. Of(k, x) /\ Of(k, z) /\ ~Between(k, x, z)
      BY <1>8, <1>9, <3>1
    <3>3. Follows(k, Before(k, x), OnWay[z])
      BY <1>0, <3>1, <3>2 DEF Whole, Lined
    <3> QED BY <1>2, <1>8, <3>1, <3>3
  <2>2. CASE z = L + 1
    <3>1. x \in 0 .. L /\ z \in L + 1 .. L + d /\ z \in 0 .. L + 1 /\ z - (L + 1) = 0
      BY <1>1, <1>2, <2>2
    <3>2. OnWay'[z] = Byte(w, t, i[t]) /\ k = w
      BY <1>1, <1>7, <3>1 DEF Of
    <3>3. Of(k, x) /\ ~Between(k, x, L + 1)
      BY <1>8, <1>9, <2>2, <3>1
    <3>4. PICK a : a = Before(k, x)
      OBVIOUS
    <3>5. Ready(k, a)
      BY <1>0, <3>1, <3>3, <3>4 DEF Whole, Tip
    <3>6. IF i[t] = 1 THEN Over(k, a) ELSE a = Byte(k, t, i[t] - 1)
      BY <1>4, <3>2, <3>5 DEF Ready
    <3>7. CASE i[t] = 1
      BY <3>2, <3>6, <3>7, <3>4, <1>8, <3>1 DEF Follows, Byte
    <3>8. CASE i[t] # 1
      <4>1. i[t] - 1 \in 1 .. PrintLen + FormatLen /\ (i[t] - 1) + 1 = i[t]
        BY <1>1, <3>8, OutputAssumption
      <4>2. a \in Bytes /\ a # None
        BY <3>6, <3>8, <4>1, BytesAssumption DEF Bytes
      <4>3. OnWay'[z] = [a EXCEPT !.i = @ + 1] /\ OnWay'[z].i # 1
        BY <1>1, <3>2, <3>6, <3>8, <4>1 DEF Byte
      <4> QED BY <1>8, <3>1, <3>4, <4>2, <4>3 DEF Follows
    <3> QED BY <3>7, <3>8
  <2>3. CASE z > L + 1
    <3>1. z \in L + 1 .. L + d /\ z - 1 \in L + 1 .. L + d
      BY <1>1, <1>2, <2>3
    <3>2. k = w
      <4>1. OnWay'[z].kind = w
        BY <1>7, <3>1
      <4>2. z # 0 /\ Of(k, z)'
        BY <1>2, <3>1
      <4> QED BY <4>1, <4>2 DEF Of
    <3>3. x = z - 1
      <4>1. x < z - 1 => z - 1 \in x + 1 .. z - 1
        BY <1>1, <1>2, <3>1
      <4>2. OnWay'[z - 1].kind = k
        BY <1>7, <3>1, <3>2
      <4>3. ~(x < z - 1)
        BY <4>1, <4>2 DEF Between
      <4> QED BY <1>1, <1>2, <4>3
    <3>4. /\ OnWay'[z] = Byte(w, t, i[t] + (z - (L + 1)))
          /\ OnWay'[x] = Byte(w, t, i[t] + (x - (L + 1))) /\ OnWay'[x] \in Bytes
      BY <1>7, <3>1, <3>3
    <3>5. /\ i[t] + (z - (L + 1)) = (i[t] + (x - (L + 1))) + 1
          /\ i[t] + (z - (L + 1)) # 1
      <4>1. L \in Nat /\ d \in Nat /\ i[t] \in Nat \ {0} /\ z \in Nat /\ z > L + 1
        BY <1>1, <1>2, <2>3
      <4> QED BY <3>3, <4>1
    <3>6. OnWay'[z] = [OnWay'[x] EXCEPT !.i = @ + 1] /\ OnWay'[z].i # 1
      BY <3>4, <3>5 DEF Byte
    <3>7. Before(k, x)' = OnWay'[x]
      BY <1>2, <3>1, <3>3 DEF Before
    <3> QED BY <3>4, <3>6, <3>7, BytesAssumption DEF Follows
  <2> QED BY <1>1, <1>2, <2>1, <2>2, <2>3
<1>11. Tip'
  <2> SUFFICES ASSUME NEW k \in Kinds, NEW x \in 0 .. L + d,
                      Of(k, x)', ~Between(k, x, (L + d) + 1)'
               PROVE  Ready(k, Before(k, x))'
    BY <1>2 DEF Tip
  <2>1. CASE k = w
    <3>1. L + d \in L + 1 .. L + d /\ (L + d) - (L + 1) = d - 1
      BY <1>1, <1>2
    <3>2. x = L + d
      <4>1. x < L + d => L + d \in x + 1 .. ((L + d) + 1) - 1
        BY <1>1, <1>2
      <4>2. OnWay'[L + d].kind = k
        BY <1>7, <2>1, <3>1
      <4>3. ~(x < L + d)
        BY <4>1, <4>2 DEF Between
      <4> QED BY <1>1, <1>2, <4>3
    <3>3. Before(k, x)' = Byte(k, t, i[t] + (d - 1))
      BY <1>1, <1>2, <1>7, <2>1, <3>1, <3>2 DEF Before
    <3>4. i'[t] - 1 = i[t] + (d - 1) /\ i'[t] # 1
      BY <1>1, <1>3
    <3>5. \A u \in Thread : Writing(u, k)' <=> u = t
      BY <1>4, <1>5, <1>6, <2>1
    <3> QED BY <3>3, <3>4, <3>5 DEF Ready, Byte
  <2>2. CASE k # w
    <3>1. x \in 0 .. L
      BY <1>1, <1>2, <1>7, <2>2 DEF Of
    <3>2. Of(k, x)
      BY <1>8, <3>1
    <3>3. ~Between(k, x, L + 1)
      <4> SUFFICES ASSUME Between(k, x, L + 1) PROVE Between(k, x, (L + d) + 1)'
        OBVIOUS
      <4>1. PICK y \in x + 1 .. (L + 1) - 1 : OnWay[y].kind = k
        BY DEF Between
      <4>2. y \in 1 .. L /\ y \in x + 1 .. ((L + d) + 1) - 1
        BY <1>1, <1>2, <3>1, <4>1
      <4> QED BY <1>2, <4>1, <4>2 DEF Between
    <3>4. PICK a : a = Before(k, x)
      OBVIOUS
    <3>5. Ready(k, a)
      BY <1>0, <3>1, <3>2, <3>3, <3>4 DEF Whole, Tip
    <3>6. \A u \in Thread : /\ Writing(u, k)' <=> Writing(u, k)
                            /\ Writing(u, k) => i'[u] = i[u]
      BY <1>3, <1>4, <1>5, <2>2 DEF Writing, w
    <3> QED BY <1>8, <3>1, <3>4, <3>5, <3>6 DEF Ready, Over, Length, Byte
  <2> QED BY <2>1, <2>2
<1>12. OneWriter'
  <2> SUFFICES ASSUME NEW u \in Thread
               PROVE  /\ Writing(u, "print")' => qmtx' = u
                      /\ Writing(u, "format")' => u = Formatter
                      /\ pc'[u] = "end" => i'[u] = Length(kind'[u]) + 1
    BY DEF OneWriter, Length
  <2>1. Writing(u, "print")' => qmtx' = u
    BY <1>3, <1>5 DEF Whole, OneWriter, Kinds
  <2>2. Writing(u, "format")' => u = Formatter
    BY <1>5 DEF Whole, OneWriter, Kinds
  <2>3. pc'[u] = "end" => i'[u] = Length(kind'[u]) + 1
    <3>1. CASE u = t
      BY <1>1, <1>3, <3>1 DEF w
    <3>2. CASE u # t
      BY <1>3, <3>2 DEF Whole, OneWriter
    <3> QED BY <3>1, <3>2
  <2> QED BY <2>1, <2>2, <2>3
<1> QED BY <1>10, <1>11, <1>12 DEF Whole

\* What HwSent takes from the line, place by place.
LEMMA SentShifts ==
    ASSUME IInv, IInv', WireOK, HwSent
    PROVE  /\ shift \in Bytes /\ shift.kind \in Kinds /\ Len(OnWay) \in Nat \ {0}
           /\ shift = OnWay[1] /\ Len(OnWay') = Len(OnWay) - 1
           /\ \A x \in 1 .. Len(OnWay) - 1 : OnWay'[x] = OnWay[x + 1]
           /\ \A k \in Kinds : wire'[k] = IF k = shift.kind THEN shift ELSE wire[k]
<1>1. OnWay # <<>> /\ wire'.last = Head(OnWay) /\ OnWay' = Tail(OnWay)
  BY SentIsSend DEF Stream!Send
<1>2. shift \in Bytes
  BY DEF HwSent, IInv, TypeOK
<1>3. shift.kind \in {"print", "format"}
  BY <1>2 DEF Bytes, Byte, Kinds
<1>4. /\ wire'.last = shift
      /\ \A k \in Kinds : wire'[k] = IF k = shift.kind THEN shift ELSE wire[k]
  BY <1>3 DEF HwSent, WireOK, Kinds
<1> QED BY <1>1, <1>2, <1>3, <1>4, OnWayIs DEF Kinds

\* The oldest byte follows what was sent of its kind, and takes its place.
LEMMA WholeSent ==
    ASSUME IInv, IInv', WireOK, Whole, HwSent
    PROVE  Whole' /\ \A k \in Kinds : wire'[k] # wire[k] => Follows(k, wire[k], wire'[k])
<1> DEFINE v == shift.kind
           m(k, x) == IF x = 0 /\ k # v THEN 0 ELSE x + 1
<1>0. PICK L : L = Len(OnWay)
  OBVIOUS
<1>1. /\ shift \in Bytes /\ v \in Kinds /\ L \in Nat \ {0}
      /\ shift = OnWay[1] /\ Len(OnWay') = L - 1
      /\ \A x \in 1 .. L - 1 : OnWay'[x] = OnWay[x + 1]
      /\ \A k \in Kinds : wire'[k] = IF k = v THEN shift ELSE wire[k]
  BY <1>0, SentShifts
<1>2. UNCHANGED <<pc, kind, i, qmtx>>
  BY DEF HwSent, calls
<1>3. ASSUME NEW k \in Kinds, NEW x \in 0 .. L - 1
      PROVE  /\ m(k, x) \in 0 .. L
             /\ Before(k, x)' = Before(k, m(k, x)) /\ (Of(k, x)' <=> Of(k, m(k, x)))
  <2>1. CASE x = 0
    BY <1>1, <2>1 DEF Before, Of
  <2>2. CASE x # 0
    <3>1. x \in 1 .. L - 1 /\ x + 1 # 0
      BY <1>1, <2>2
    <3> QED BY <1>1, <2>2, <3>1 DEF Before, Of
  <2> QED BY <2>1, <2>2
<1>4. ASSUME NEW k \in Kinds, NEW x \in 0 .. L - 1, NEW z \in 1 .. L,
             Between(k, m(k, x), z + 1)
      PROVE  Between(k, x, z)'
  <2>1. PICK y \in m(k, x) + 1 .. (z + 1) - 1 : OnWay[y].kind = k
    BY <1>4 DEF Between
  <2>2. y # 1
    BY <1>1, <2>1
  <2>3. y - 1 \in x + 1 .. z - 1 /\ y - 1 \in 1 .. L - 1 /\ (y - 1) + 1 = y
    BY <1>1, <2>1, <2>2
  <2>4. OnWay'[y - 1].kind = k
    BY <1>1, <2>1, <2>3
  <2> QED BY <2>3, <2>4 DEF Between
<1> HIDE DEF v
<1>5. Lined'
  <2> SUFFICES ASSUME NEW k \in Kinds, NEW x \in 0 .. L - 1, NEW z \in 0 .. L - 1,
                      x < z, Of(k, x)', Of(k, z)', ~Between(k, x, z)'
               PROVE  Follows(k, Before(k, x)', OnWay'[z])
    BY <1>1 DEF Lined, Follows, Over, Length
  <2>1. z \in 1 .. L /\ z \in 1 .. L - 1 /\ m(k, z) = z + 1 /\ m(k, x) < z + 1
    BY <1>1
  <2>2. /\ Of(k, m(k, x)) /\ Of(k, z + 1) /\ ~Between(k, m(k, x), z + 1)
        /\ m(k, x) \in 0 .. L /\ z + 1 \in 0 .. L
    BY <1>3, <1>4, <2>1
  <2>3. Follows(k, Before(k, m(k, x)), OnWay[z + 1])
    BY <1>0, <2>1, <2>2 DEF Whole, Lined
  <2> QED BY <1>1, <1>3, <2>1, <2>3
<1>6. Tip'
  <2> SUFFICES ASSUME NEW k \in Kinds, NEW x \in 0 .. L - 1,
                      Of(k, x)', ~Between(k, x, (L - 1) + 1)'
               PROVE  Ready(k, Before(k, x))'
    BY <1>1 DEF Tip
  <2>1. L \in 1 .. L /\ (L - 1) + 1 = L
    BY <1>1
  <2>2. Of(k, m(k, x)) /\ ~Between(k, m(k, x), L + 1) /\ m(k, x) \in 0 .. L
    BY <1>3, <1>4, <2>1
  <2>3. PICK a : a = Before(k, m(k, x))
    OBVIOUS
  <2>4. Ready(k, a)
    BY <1>0, <2>2, <2>3 DEF Whole, Tip
  <2>5. \A u \in Thread : Writing(u, k)' <=> Writing(u, k)
    BY <1>2 DEF Writing
  <2> QED BY <1>2, <1>3, <2>3, <2>4, <2>5 DEF Ready, Over, Length, Byte
<1>7. OneWriter'
  BY <1>2 DEF Whole, OneWriter, Writing, Length
<1>8. Follows(v, wire[v], shift)
  <2>1. /\ 0 \in 0 .. L /\ 1 \in 0 .. L /\ 0 < 1 /\ Of(v, 0) /\ Of(v, 1)
        /\ ~Between(v, 0, 1) /\ Before(v, 0) = wire[v]
    BY <1>1 DEF Of, Between, Before, v
  <2>2. Follows(v, Before(v, 0), OnWay[1])
    BY <1>0, <1>1, <2>1 DEF Whole, Lined
  <2> QED BY <1>1, <2>1, <2>2
<1> QED BY <1>1, <1>5, <1>6, <1>7, <1>8 DEF Whole

\* What one step does to Whole and to the wire.
LEMMA WholeNext ==
    ASSUME IInv, IInv', WireOK, Whole, [Next]_vars
    PROVE  Whole' /\ \A k \in Kinds : wire'[k] # wire[k] => Follows(k, wire[k], wire'[k])
<1>1. CASE HwSent
  BY <1>1, WholeSent
<1>2. CASE ~HwSent
  <2>1. UNCHANGED wire
    BY <1>2
    DEF Next, Isr, IsrEnter, IsrByte, IsrRead, IsrEmpty, IsrLeave, Hardware, HwLoad,
        SerialPrint, Chprintf, Writes, Put, Wait, Finish, vars
  <2>2. CASE UNCHANGED <<OnWay, kind, i, qmtx, pc>>
    BY <2>1, <2>2, WholeKept
  <2>3. CASE IsrByte \/ HwLoad
    <3>1. UNCHANGED OnWay /\ UNCHANGED <<kind, i, qmtx>>
      BY <2>3, MoveIsStutter DEF IsrByte, HwLoad, calls
    <3>2. CASE UNCHANGED pc
      BY <2>2, <3>1, <3>2
    <3>3. CASE IsrByte /\ Wakes
      <4>1. pc' = [pc EXCEPT ![Head(waiting)] = "woken"] /\ waiting # <<>>
        BY <3>3 DEF IsrByte, Wakes
      <4>2. Head(waiting) \in Thread /\ pc[Head(waiting)] = "wait"
        BY <4>1 DEF IInv, TypeOK, Queued
      <4>3. \A t \in Thread : /\ pc'[t] # "idle" <=> pc[t] # "idle"
                              /\ pc'[t] = "end" => pc[t] = "end"
        BY <4>1, <4>2 DEF IInv, TypeOK
      <4> QED BY <2>1, <3>1, <4>3, WholeKept
    <3> QED BY <2>3, <3>2, <3>3 DEF IsrByte, HwLoad, calls
  <2>4. CASE IsrEnter \/ IsrRead \/ IsrEmpty \/ IsrLeave \/ UNCHANGED vars
    BY <2>2, <2>4
    DEF IsrEnter, IsrRead, IsrEmpty, IsrLeave, vars, ring, uart, calls, OnWay, Contents
  <2>5. ASSUME NEW t \in Thread, SerialPrint(t) \/ Chprintf(t) \/ Put(t) \/ Finish(t)
        PROVE  Whole'
    BY <2>5, WholeBegin, WholePut, WholeFinish
  <2>6. ASSUME NEW t \in Thread, Wait(t) PROVE Whole'
    <3>1. UNCHANGED <<OnWay, kind, i, qmtx>>
      BY <2>6 DEF Wait, ring, uart, OnWay, Contents
    <3>2. \A u \in Thread : /\ pc'[u] # "idle" <=> pc[u] # "idle"
                            /\ pc'[u] = "end" => pc[u] = "end"
      BY <2>6 DEF Wait, Runs, IInv, TypeOK
    <3> QED BY <2>1, <3>1, <3>2, WholeKept
  <2>7. Whole'
    BY <1>2, <2>3, <2>4, <2>5, <2>6 DEF Next, Isr, Hardware, Writes
  <2> QED BY <2>1, <2>7
<1> QED BY <1>1, <1>2

\* No message of serial_print is cut by another, and the characters of
\* chprintf stay in order, whatever the two do to each other: on the wire each
\* byte follows the one before it of its kind.
THEOREM MessagesStayWhole == Spec => MessagesWhole
<1>1. Init => Whole /\ WireOK
  <2>1. Init => WireOK
    BY DEF Init, WireOK
  <2> QED BY <2>1, WholeInit
<1>2. IInv /\ WireOK /\ [Next]_vars => WireOK'
  BY WireKept
<1>3. IInv /\ IInv' /\ WireOK /\ Whole /\ [Next]_vars => Whole'
  BY WholeNext
<1>4. IInv /\ IInv' /\ WireOK /\ Whole /\ [Next]_vars =>
        [\A k \in Kinds :
            wire'[k] # wire[k] =>
                IF wire'[k].i = 1 THEN wire[k] = None \/ wire[k].i = Length(k)
                ELSE wire[k] # None /\ wire'[k] = [wire[k] EXCEPT !.i = @ + 1]]_wire
  BY WholeNext DEF Follows, Over
<1> QED BY <1>1, <1>2, <1>3, <1>4, Invariant, PTL DEF Spec, MessagesWhole
=============================================================================
