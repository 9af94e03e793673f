------------------------- MODULE SerialInputProofs -------------------------
(***************************************************************************)
(* Theorems of SerialInput, for every size of the queue and of a command   *)
(* and every number of bytes.  Type correctness needs nothing of the order *)
(* in which iqResetI stores; that no byte is read twice, and that none is  *)
(* missing in a command, needs the order of the source.                    *)
(***************************************************************************)
EXTENDS SerialInput, TLAPS

\* Arithmetic of the indices.
LEMMA SlotType ==
    ASSUME NEW p \in Slots, NEW i \in 0 .. Size
    PROVE  Slot(p, i) \in Slots
BY SizeAssumption DEF Slots, Slot

LEMMA SlotInjective ==
    ASSUME NEW p \in Slots, NEW i \in 0 .. Size - 1, NEW j \in 0 .. Size - 1,
           Slot(p, i) = Slot(p, j)
    PROVE  i = j
BY SizeAssumption DEF Slots, Slot

LEMMA SlotAdd ==
    ASSUME NEW p \in Slots, NEW i \in 0 .. Size, NEW j \in 0 .. Size,
           i + j \in 0 .. Size
    PROVE  Slot(Slot(p, i), j) = Slot(p, i + j)
BY SizeAssumption DEF Slots, Slot

\* The variables stay in their types: the indices inside the buffer, the
\* counter never negative, whatever the order of the stores of iqResetI.
THEOREM TypeCorrect == Spec => []TypeOK
<1>1. Init => TypeOK
  BY SizeAssumption, ReqAssumption, SentAssumption
  DEF Init, TypeOK, Slots, Fields
<1>2. TypeOK /\ [Next]_vars => TypeOK'
  <2> SUFFICES ASSUME TypeOK, [Next]_vars PROVE TypeOK'
    OBVIOUS
  <2> USE SizeAssumption, ReqAssumption, SentAssumption
  <2>1. CASE Receive
    <3>1. sent' \in 0 .. MaxSent /\ sent + 1 \in 0 .. MaxSent
      BY <2>1 DEF Receive, TypeOK
    <3>2. CASE Put(sent + 1)
      <4>1. wrptr' \in Slots
        BY <3>2, SlotType DEF Put, TypeOK
      <4>2. buffer' \in [Slots -> 0 .. MaxSent]
        BY <3>1, <3>2 DEF Put, TypeOK
      <4> QED
        BY <2>1, <3>1, <3>2, <4>1, <4>2 DEF Receive, Put, TypeOK
    <3>3. CASE Overrun
      BY <2>1, <3>1, <3>3 DEF Receive, Overrun, queue, TypeOK
    <3> QED
      BY <2>1, <3>2, <3>3 DEF Receive
  <2>2. CASE ReadChunk
    <3> DEFINE m == IF n > counter THEN counter ELSE n
    <3>1. m \in 1 .. Size /\ m <= n /\ m <= counter /\ m - 1 \in 0 .. Size
      BY <2>2 DEF ReadChunk, TypeOK
    <3>2. /\ rdptr' = Slot(rdptr, m) /\ counter' = counter - m /\ n' = n - m
          /\ last' = buffer[Slot(rdptr, m - 1)]
          /\ strbuf' = [i \in 0 .. ReqSize - 1 |->
                         IF Count <= i /\ i < Count + m
                         THEN buffer[Slot(rdptr, i - Count)] ELSE strbuf[i]]
      BY <2>2 DEF ReadChunk
    <3> HIDE DEF m
    <3>3. /\ rdptr' \in Slots /\ last' \in 0 .. MaxSent
          /\ counter' \in Nat /\ n' \in 0 .. ReqSize
      <4>1. m \in 0 .. Size
        BY <3>1
      <4>2. Slot(rdptr, m) \in Slots /\ Slot(rdptr, m - 1) \in Slots
        BY <3>1, <4>1, SlotType DEF TypeOK
      <4> QED
        BY <3>1, <3>2, <4>2 DEF TypeOK
    <3>4. ASSUME NEW i \in 0 .. ReqSize - 1, Count <= i, i < Count + m
          PROVE  buffer[Slot(rdptr, i - Count)] \in 0 .. MaxSent
      <4>1. i - Count \in 0 .. Size
        BY <3>1, <3>4 DEF Count, TypeOK
      <4> QED
        BY <4>1, SlotType DEF TypeOK
    <3>5. strbuf' \in [0 .. ReqSize - 1 -> 0 .. MaxSent]
      BY <3>2, <3>4 DEF TypeOK
    <3> QED
      BY <2>2, <3>2, <3>3, <3>5 DEF ReadChunk, TypeOK
  <2>3. CASE ReadSleep \/ ReadTimeout \/ ReadComplete \/ CommandCheck
    BY <2>3 DEF ReadSleep, ReadTimeout, ReadComplete, CommandCheck, queue,
                TypeOK
  <2>4. CASE FlushBegin \/ NextRound
    BY <2>4 DEF FlushBegin, NextRound, queue, TypeOK
  <2>5. ASSUME NEW f \in Fields, FlushStore(f) PROVE TypeOK'
    BY <2>5 DEF FlushStore, TypeOK, Slots
  <2>6. CASE UNCHANGED vars
    BY <2>6 DEF vars, TypeOK
  <2> QED
    BY <2>1, <2>2, <2>3, <2>4, <2>5, <2>6 DEF Next, Thread
<1> QED
  BY <1>1, <1>2, PTL DEF Spec
-----------------------------------------------------------------------------
\* What Pending is, and how a put and a read change it.
LEMMA PendingSlot ==
    ASSUME TypeOK
    PROVE  /\ Pending \in 0 .. Size
           /\ ~IsFull => Pending < Size /\ Slot(rdptr, Pending) = wrptr
BY SizeAssumption DEF TypeOK, Slots, Slot, Pending, IsFull

LEMMA PendingPut ==
    ASSUME TypeOK, NEW b, Put(b)
    PROVE  Pending' = Pending + 1
BY SizeAssumption DEF TypeOK, Slots, Slot, Pending, IsFull, Put

LEMMA PendingRead ==
    ASSUME TypeOK, counter <= Pending, NEW m \in 1 .. counter,
           rdptr' = Slot(rdptr, m), counter' = counter - m, wrptr' = wrptr
    PROVE  Pending' = Pending - m
BY SizeAssumption DEF TypeOK, Slots, Slot, Pending

\* A put behind k fresh bytes makes k + 1 of them.
LEMMA PutFresh ==
    ASSUME TypeOK, NEW k \in 0 .. Size - 1, Slot(rdptr, k) = wrptr, Fresh(k),
           Put(sent + 1), sent' = sent + 1, last' = last, last <= sent
    PROVE  Fresh(k + 1)'
<1> USE SizeAssumption
<1>1. rdptr' = rdptr /\ buffer' = [buffer EXCEPT ![wrptr] = sent + 1]
  BY DEF Put
<1>2. buffer'[Slot(rdptr, k)] = sent + 1
  BY <1>1 DEF TypeOK
<1>3. ASSUME NEW i \in 0 .. k - 1
      PROVE  /\ buffer'[Slot(rdptr, i)] = buffer[Slot(rdptr, i)]
             /\ buffer[Slot(rdptr, i)] \in last + 1 .. sent
  <2>1. i \in 0 .. Size - 1 /\ i # k /\ i \in 0 .. Size
    OBVIOUS
  <2>2. Slot(rdptr, i) # wrptr /\ Slot(rdptr, i) \in Slots
    BY <2>1, SlotInjective, SlotType DEF TypeOK
  <2> QED
    BY <1>1, <2>2 DEF TypeOK, Fresh
<1>4. \A i \in 0 .. k : buffer'[Slot(rdptr, i)] \in last + 1 .. sent + 1
  <2> TAKE i \in 0 .. k
  <2>1. CASE i = k
    BY <1>2, <2>1 DEF TypeOK
  <2>2. CASE i \in 0 .. k - 1
    BY <1>3, <2>2 DEF TypeOK
  <2> QED
    BY <2>1, <2>2
<1>5. ASSUME NEW i \in 0 .. k, NEW j \in 0 .. k, i < j
      PROVE  buffer'[Slot(rdptr, i)] < buffer'[Slot(rdptr, j)]
  <2>1. i \in 0 .. k - 1
    BY <1>5
  <2>2. CASE j = k
    BY <1>2, <1>3, <2>1, <2>2 DEF TypeOK
  <2>3. CASE j \in 0 .. k - 1
    BY <1>3, <1>5, <2>1, <2>3 DEF Fresh
  <2> QED
    BY <2>2, <2>3
<1>6. Slot(rdptr, 0)' = Slot(rdptr', 0) /\ k + 1 - 1 = k
  BY DEF Slot
<1> QED
  BY <1>1, <1>4, <1>5, <1>6 DEF Fresh, Slot

\* A read of the first m of k fresh bytes leaves k - m of them.
LEMMA ReadFresh ==
    ASSUME TypeOK, NEW k \in 0 .. Size, NEW m \in 1 .. k, Fresh(k),
           rdptr' = Slot(rdptr, m), buffer' = buffer, sent' = sent,
           last' = buffer[Slot(rdptr, m - 1)]
    PROVE  Fresh(k - m)'
<1> USE SizeAssumption
<1>1. ASSUME NEW i \in 0 .. k - m - 1
      PROVE  Slot(rdptr', i) = Slot(rdptr, m + i) /\ m + i \in 0 .. k - 1
  BY SlotAdd DEF TypeOK
<1>2. \A i \in 0 .. k - 1 : buffer[Slot(rdptr, i)] \in last + 1 .. sent
  BY DEF Fresh
<1>3. ASSUME NEW i \in 0 .. k - m - 1
      PROVE  buffer[Slot(rdptr', i)] \in last' + 1 .. sent
  <2>1. m - 1 \in 0 .. k - 1 /\ m - 1 < m + i
    OBVIOUS
  <2>2. buffer[Slot(rdptr, m - 1)] < buffer[Slot(rdptr, m + i)]
    BY <1>1, <2>1 DEF Fresh
  <2> QED
    BY <1>1, <1>2, <2>1, <2>2 DEF TypeOK
<1>4. ASSUME NEW i \in 0 .. k - m - 1, NEW j \in 0 .. k - m - 1, i < j
      PROVE  buffer[Slot(rdptr', i)] < buffer[Slot(rdptr', j)]
  BY <1>1, <1>4 DEF Fresh
<1> QED
  BY <1>3, <1>4 DEF Fresh, Slot
-----------------------------------------------------------------------------
(* From here on the stores of iqResetI keep the order of the source.       *)

LEMMA IInvInit == Init => IInv
BY SizeAssumption, ReqAssumption, SentAssumption
   DEF Init, IInv, TypeOK, Slots, Fields, Count, ReadInOrder, Fresh, Pending

\* Actions that leave the queue, strbuf and the count alone, or reset the
\* count.
LEMMA IInvLocal ==
    ASSUME IInv,
           \/ ReadSleep \/ ReadTimeout \/ ReadComplete \/ CommandCheck
           \/ FlushBegin \/ NextRound \/ UNCHANGED vars,
           TypeOK'
    PROVE  IInv'
<1>1. UNCHANGED <<queue, strbuf, sent, last>>
  BY DEF ReadSleep, ReadTimeout, ReadComplete, CommandCheck, FlushBegin,
         NextRound, vars, queue
<1>2. Pending' = Pending /\ \A k : Fresh(k)' = Fresh(k)
  BY <1>1 DEF Pending, Fresh, Slot, queue
<1>3. n' = n \/ Count' = 0
  BY ReqAssumption, SizeAssumption
  DEF ReadSleep, ReadTimeout, ReadComplete, CommandCheck, FlushBegin,
      NextRound, vars, Count
<1>4. ReadInOrder' /\ \A i \in 0 .. Count' - 1 : strbuf'[i] <= last'
  BY <1>1, <1>3 DEF IInv, ReadInOrder, Count
<1>5. /\ \/ todo' = todo
         \/ todo' = Fields /\ todo = {}
      /\ IF pc' = "flush"
         THEN todo' \in {Fields, {"wrptr", "counter"}, {"counter"}}
         ELSE todo' = {}
  BY DEF IInv, ReadSleep, ReadTimeout, ReadComplete, CommandCheck, FlushBegin,
         NextRound, vars
<1>6. Fields # {} /\ Fields # {"counter"}
  BY DEF Fields
<1> QED
  BY <1>1, <1>2, <1>4, <1>5, <1>6 DEF IInv, queue

LEMMA IInvReceive ==
    ASSUME IInv, Receive, TypeOK'
    PROVE  IInv'
<1> USE SizeAssumption
<1>1. /\ sent' = sent + 1 /\ last' = last /\ todo' = todo
      /\ strbuf' = strbuf /\ n' = n /\ TypeOK
      /\ sent \in Nat /\ last \in Nat /\ last <= sent
  BY SentAssumption DEF Receive, IInv, TypeOK
<1>2. ReadInOrder' /\ \A i \in 0 .. Count' - 1 : strbuf'[i] <= last'
  BY <1>1 DEF IInv, ReadInOrder, Count
<1>3. CASE Put(sent + 1)
  <2>1. rdptr' = rdptr /\ counter' = counter + 1 /\ ~IsFull
    BY <1>3 DEF Put
  <2>2. ASSUME todo \in {{}, Fields}
        PROVE  counter' <= Pending' /\ Fresh(Pending)'
    <3>1. /\ Pending \in 0 .. Size - 1 /\ Slot(rdptr, Pending) = wrptr
          /\ counter <= Pending /\ Fresh(Pending)
      BY <1>1, <2>1, <2>2, PendingSlot DEF IInv
    <3>2. PICK k \in 0 .. Size - 1 : k = Pending
      BY <3>1
    <3>3. Pending' = k + 1
      BY <1>1, <1>3, <3>2, PendingPut
    <3>4. Fresh(k + 1)'
      BY <1>1, <1>3, <3>1, <3>2, PutFresh
    <3>5. Fresh(Pending)'
      BY <3>3, <3>4 DEF Fresh
    <3> QED
      BY <1>1, <2>1, <3>1, <3>2, <3>3, <3>5 DEF TypeOK
  <2>3. ASSUME todo = {"counter"}
        PROVE  Fresh(wrptr)'
    <3>1. rdptr = 0 /\ Fresh(wrptr)
      BY <2>3 DEF IInv, Fields
    <3>2. PICK k \in 0 .. Size - 1 : k = wrptr
      BY <1>1 DEF TypeOK, Slots
    <3>3. Slot(rdptr, k) = wrptr /\ Fresh(k)
      BY <3>1, <3>2 DEF Slot
    <3>4. Fresh(k + 1)'
      BY <1>1, <1>3, <3>2, <3>3, PutFresh
    <3>5. wrptr' = k + 1 \/ wrptr' = 0
      BY <1>3, <3>2 DEF Put, Slot
    <3> QED
      BY <3>4, <3>5 DEF Fresh
  <2>4. IF pc' = "flush"
        THEN todo' \in {Fields, {"wrptr", "counter"}, {"counter"}}
        ELSE todo' = {}
    BY <1>1, <1>3 DEF IInv, Put
  <2> QED
    BY <1>1, <1>2, <2>1, <2>2, <2>3, <2>4 DEF IInv
<1>4. CASE Overrun
  <2>1. UNCHANGED <<queue, pc>>
    BY <1>4 DEF Overrun
  <2>2. Pending' = Pending
    BY <2>1 DEF Pending, queue
  <2>3. ASSUME NEW k, Fresh(k) PROVE Fresh(k)'
    BY <1>1, <2>1, <2>3 DEF Fresh, Slot, queue
  <2> QED
    BY <1>1, <1>2, <2>1, <2>2, <2>3 DEF IInv, queue
<1> QED
  BY <1>3, <1>4 DEF Receive

LEMMA IInvReadChunk ==
    ASSUME IInv, ReadChunk, TypeOK'
    PROVE  IInv'
<1> USE SizeAssumption, ReqAssumption
<1> DEFINE m0 == IF n > counter THEN counter ELSE n
<1>1. /\ m0 \in 1 .. counter /\ m0 <= n /\ todo = {} /\ TypeOK
      /\ n \in 0 .. ReqSize /\ counter \in Nat
      /\ sent \in Nat /\ last \in Nat /\ last <= sent
      /\ counter <= Pending /\ Fresh(Pending)
  BY SentAssumption DEF ReadChunk, IInv, TypeOK
<1>2. /\ rdptr' = Slot(rdptr, m0) /\ counter' = counter - m0 /\ n' = n - m0
      /\ last' = buffer[Slot(rdptr, m0 - 1)]
      /\ strbuf' = [i \in 0 .. ReqSize - 1 |->
                     IF Count <= i /\ i < Count + m0
                     THEN buffer[Slot(rdptr, i - Count)] ELSE strbuf[i]]
      /\ UNCHANGED <<wrptr, buffer, pc, todo, sent>>
  BY DEF ReadChunk
<1>3. PICK k \in 0 .. Size : k = Pending
  BY <1>1, PendingSlot
<1>4. PICK m \in 1 .. counter : m = m0
  BY <1>1
<1>5. Pending' = k - m
  BY <1>1, <1>2, <1>3, <1>4, PendingRead
<1>6. m \in 1 .. k /\ counter' <= Pending'
  BY <1>1, <1>2, <1>3, <1>4, <1>5
<1>7. Fresh(k - m)'
  BY <1>1, <1>2, <1>3, <1>4, <1>6, ReadFresh
<1>8. Fresh(Pending)'
  BY <1>5, <1>7 DEF Fresh
<1>9. /\ \A i \in 0 .. m - 1 : buffer[Slot(rdptr, i)] \in last + 1 .. sent
      /\ \A i, j \in 0 .. m - 1 :
            i < j => buffer[Slot(rdptr, i)] < buffer[Slot(rdptr, j)]
  BY <1>1, <1>3, <1>6 DEF Fresh
<1>10. \A i \in 0 .. m - 1 : buffer[Slot(rdptr, i)] <= last'
  <2> TAKE i \in 0 .. m - 1
  <2>1. buffer[Slot(rdptr, i)] \in Int /\ buffer[Slot(rdptr, m - 1)] \in Int
    BY <1>9
  <2>2. CASE i = m - 1
    BY <1>2, <1>4, <2>1, <2>2
  <2>3. CASE i < m - 1
    BY <1>2, <1>4, <1>9, <2>1, <2>3
  <2> QED
    BY <2>2, <2>3
<1> HIDE DEF m0
<1>11. last' \in last + 1 .. sent
  BY <1>2, <1>4, <1>9
<1>12. Count \in 0 .. ReqSize /\ Count' = Count + m /\ Count' <= ReqSize
  BY <1>1, <1>2, <1>4 DEF Count
<1>13. \A i \in 0 .. Count - 1 :
          strbuf'[i] = strbuf[i] /\ strbuf[i] <= last /\ strbuf[i] \in Nat
  BY <1>2, <1>12 DEF IInv, TypeOK
<1>14. \A i \in Count .. Count + m - 1 :
          /\ i - Count \in 0 .. m - 1
          /\ strbuf'[i] = buffer[Slot(rdptr, i - Count)]
  BY <1>2, <1>4, <1>12
<1>15. ReadInOrder'
  <2> SUFFICES ASSUME NEW i \in 0 .. Count + m - 1,
                      NEW j \in 0 .. Count + m - 1, i < j
               PROVE  strbuf'[i] < strbuf'[j]
    BY <1>12 DEF ReadInOrder
  <2>1. CASE j < Count
    BY <1>12, <1>13, <2>1 DEF IInv, ReadInOrder
  <2>2. CASE i < Count /\ Count <= j
    BY <1>1, <1>9, <1>12, <1>13, <1>14, <2>2
  <2>3. CASE Count <= i
    BY <1>9, <1>12, <1>14, <2>3
  <2> QED
    BY <1>12, <2>1, <2>2, <2>3
<1>16. \A i \in 0 .. Count' - 1 : strbuf'[i] <= last'
  <2> SUFFICES ASSUME NEW i \in 0 .. Count + m - 1
               PROVE  strbuf'[i] <= last'
    BY <1>12
  <2>1. CASE i < Count
    BY <1>1, <1>11, <1>12, <1>13, <2>1
  <2>2. CASE Count <= i
    BY <1>10, <1>12, <1>14, <2>2
  <2> QED
    BY <1>12, <2>1, <2>2
<1>17. last' <= sent'
  BY <1>1, <1>2, <1>11
<1> QED
  BY <1>1, <1>2, <1>6, <1>8, <1>15, <1>16, <1>17 DEF IInv

LEMMA IInvFlushStore ==
    ASSUME StoreOrder = ProgramOrder, IInv, NEW f \in Fields, FlushStore(f),
           TypeOK'
    PROVE  IInv'
<1> USE SizeAssumption
<1>1. /\ UNCHANGED <<buffer, n, strbuf, sent, last>> /\ TypeOK
      /\ todo' = todo \ {f} /\ f \in todo /\ pc = "flush"
      /\ pc' = IF todo = {f} THEN "output" ELSE "flush"
      /\ todo \in {Fields, {"wrptr", "counter"}, {"counter"}}
  BY DEF FlushStore, IInv
<1>2. ReadInOrder' /\ last' <= sent'
      /\ \A i \in 0 .. Count' - 1 : strbuf'[i] <= last'
  BY <1>1 DEF IInv, ReadInOrder, Count
<1>3. CASE todo = Fields
  <2>1. f = "rdptr" /\ rdptr' = 0 /\ todo' = {"wrptr", "counter"}
    BY <1>1, <1>3 DEF FlushStore, Fields, ProgramOrder
  <2> QED
    BY <1>1, <1>2, <1>3, <2>1 DEF IInv, Fields
<1>4. CASE todo = {"wrptr", "counter"}
  <2>1. f = "wrptr" /\ wrptr' = 0 /\ rdptr' = rdptr /\ todo' = {"counter"}
    BY <1>1, <1>4 DEF FlushStore, ProgramOrder
  <2>2. rdptr = 0
    BY <1>4 DEF IInv, Fields
  <2>3. Fresh(wrptr)'
    BY <2>1 DEF Fresh
  <2> QED
    BY <1>1, <1>2, <1>4, <2>1, <2>2, <2>3 DEF IInv, Fields
<1>5. CASE todo = {"counter"}
  <2>1. /\ f = "counter" /\ counter' = 0 /\ rdptr' = rdptr
        /\ wrptr' = wrptr /\ todo' = {} /\ pc' = "output"
    BY <1>1, <1>5 DEF FlushStore
  <2>2. rdptr = 0 /\ Fresh(wrptr)
    BY <1>5 DEF IInv, Fields
  <2>3. Pending' = wrptr /\ wrptr \in Nat
    BY <1>1, <2>1, <2>2 DEF Pending, TypeOK, Slots
  <2>4. Fresh(Pending)'
    BY <1>1, <2>1, <2>2, <2>3 DEF Fresh, Slot
  <2> QED
    BY <1>1, <1>2, <2>1, <2>3, <2>4 DEF IInv
<1> QED
  BY <1>1, <1>3, <1>4, <1>5

\* The invariant of the three results below.
THEOREM Invariant ==
    ASSUME StoreOrder = ProgramOrder
    PROVE  Spec => []IInv
<1>1. Init => IInv
  BY IInvInit
<1>2. IInv /\ [Next]_vars /\ TypeOK' => IInv'
  BY IInvReceive, IInvReadChunk, IInvLocal, IInvFlushStore
  DEF Next, Thread
<1>3. Spec => []TypeOK
  BY TypeCorrect
<1> QED
  BY <1>1, <1>2, <1>3, PTL DEF Spec

\* q_counter never promises a byte the indices do not hold.
THEOREM RingAgrees ==
    ASSUME StoreOrder = ProgramOrder
    PROVE  Spec => []RingConsistent
<1>1. IInv => RingConsistent
  BY DEF IInv, RingConsistent
<1> QED
  BY <1>1, Invariant, PTL

\* No byte is read twice or out of order, whatever interrupts the flush.
THEOREM NothingReadTwice ==
    ASSUME StoreOrder = ProgramOrder
    PROVE  Spec => []ReadableFresh
<1>1. IInv => ReadableFresh
  BY DEF IInv, ReadableFresh
<1> QED
  BY <1>1, Invariant, PTL

\* A command is put together in the order of the wire.
THEOREM CommandInOrder ==
    ASSUME StoreOrder = ProgramOrder
    PROVE  Spec => []ReadInOrder
<1>1. IInv => ReadInOrder
  BY DEF IInv
<1> QED
  BY <1>1, Invariant, PTL
-----------------------------------------------------------------------------
(* Nothing is missing inside a command                                     *)

Reading == pc \in {"read", "wait"}

\* The i-th byte from q_rdptr on.
Byte(i) == buffer[Slot(rdptr, i)]

\* The first g bytes follow one another on the wire.
Unbroken(g) == \A i \in 1 .. g - 1 : Byte(i) = Byte(i - 1) + 1

\* Bytes the round under way, or the next one, has still to read.
Need == IF Reading THEN n ELSE ReqSize

\* A read that has begun goes on behind the last byte it took.
Begun == Reading /\ Count > 0

\* The newest byte in the queue is the newest on the wire.
UpToDate ==
    IF Pending > 0 THEN Byte(Pending - 1) = sent ELSE Begun => last = sent

\* The first g bytes do for the command, or nothing was lost behind them.
Stretch(g) ==
    /\ g <= Pending /\ Unbroken(g)
    /\ Begun /\ g > 0 => Byte(0) = last + 1
    /\ Need <= g \/ (g = Pending /\ UpToDate)

\* The inductive strengthening of CommandContiguous: what a read takes comes
\* from a stretch with no byte missing.  Between the last two stores of
\* iqResetI such a stretch starts at the first slot.
Gapless ==
    /\ Reading \/ pc = "output" => \E g \in 0 .. Size : Stretch(g)
    /\ todo = {"counter"} /\ wrptr > 0 =>
          Unbroken(wrptr) /\ Byte(wrptr - 1) = sent
    /\ Count > 0 => strbuf[Count - 1] = last
    /\ CommandContiguous

\* The last store to do is neither all of them nor none.
LEMMA OneStore == {"counter"} \notin {{}, Fields}
<1>1. "rdptr" \in Fields /\ "rdptr" \notin {"counter"}
  BY DEF Fields
<1> QED BY <1>1

LEMMA GaplessInit == Init => Gapless
<1> SUFFICES ASSUME Init PROVE Gapless
  OBVIOUS
<1>1. Pending = 0 /\ Count = 0 /\ 0 \in 0 .. Size /\ todo # {"counter"}
  BY SizeAssumption, ReqAssumption DEF Init, Pending, Count
<1>2. Stretch(0)
  BY <1>1 DEF Stretch, Unbroken, Begun, UpToDate
<1> QED BY <1>1, <1>2 DEF Gapless, CommandContiguous

\* A put leaves the bytes that are there and comes behind them.
LEMMA PutByte ==
    ASSUME TypeOK, NEW k \in 0 .. Size - 1, Slot(rdptr, k) = wrptr, Put(sent + 1)
    PROVE  /\ Byte(k)' = sent + 1
           /\ \A i \in 0 .. k - 1 : Byte(i)' = Byte(i)
<1> USE SizeAssumption
<1>1. rdptr' = rdptr /\ buffer' = [buffer EXCEPT ![wrptr] = sent + 1]
  BY DEF Put
<1>2. Byte(k)' = sent + 1
  BY <1>1 DEF TypeOK, Byte, Slot
<1>3. ASSUME NEW i \in 0 .. k - 1 PROVE Byte(i)' = Byte(i)
  <2>1. i \in 0 .. Size - 1 /\ i # k /\ i \in 0 .. Size
    OBVIOUS
  <2>2. Slot(rdptr, i) # wrptr /\ Slot(rdptr, i) \in Slots
    BY <2>1, SlotInjective, SlotType DEF TypeOK
  <2>3. Byte(i)' = buffer'[Slot(rdptr, i)]
    BY <1>1 DEF Byte, Slot
  <2> QED
    BY <1>1, <2>2, <2>3 DEF TypeOK, Byte
<1> QED BY <1>2, <1>3

\* A byte that comes in extends the stretch, or is the first one lost.
LEMMA GaplessReceive ==
    ASSUME IInv, IInv', Gapless, Receive PROVE Gapless'
<1> USE SizeAssumption, ReqAssumption
<1>1. /\ UNCHANGED <<n, strbuf, todo, last>> /\ TypeOK /\ sent' = sent + 1
      /\ Count' = Count /\ Reading' = Reading /\ (pc' = "output" <=> pc = "output")
      /\ Begun' = Begun /\ Need' = Need
  BY DEF Receive, Put, Overrun, queue, IInv, Count, Reading, Begun, Need
<1>2. Count' > 0 => strbuf'[Count' - 1] = last'
  BY <1>1 DEF Gapless
<1>3. CommandContiguous'
  BY <1>1 DEF Gapless, CommandContiguous
<1>4. CASE Put(sent + 1)
  <2>1. ASSUME Reading \/ pc = "output"
        PROVE  \E g \in 0 .. Size : Stretch(g)'
    <3>1. todo = {} /\ Pending \in 0 .. Size - 1 /\ Slot(rdptr, Pending) = wrptr
      BY <1>1, <1>4, <2>1, PendingSlot DEF IInv, Put, Reading
    <3>2. PICK k \in 0 .. Size - 1 : k = Pending
      BY <3>1
    <3>3. Pending' = k + 1
      BY <1>1, <1>4, <3>2, PendingPut
    <3>4. Byte(k)' = sent + 1 /\ \A i \in 0 .. k - 1 : Byte(i)' = Byte(i)
      BY <1>1, <1>4, <3>1, <3>2, PutByte
    <3>5. PICK g \in 0 .. Size : Stretch(g)
      BY <2>1 DEF Gapless
    <3>6. g <= k
      BY <3>2, <3>5 DEF Stretch
    <3>7. CASE Need <= g
      <4>1. Unbroken(g)'
        BY <3>4, <3>5, <3>6 DEF Stretch, Unbroken
      <4>2. Begun' /\ g > 0 => Byte(0)' = last' + 1
        BY <1>1, <3>4, <3>5, <3>6 DEF Stretch
      <4> QED BY <1>1, <3>3, <3>6, <3>7, <4>1, <4>2 DEF Stretch
    <3>8. CASE g = k /\ UpToDate
      <4>1. k > 0 => Byte(k - 1) = sent
        BY <3>2, <3>8 DEF UpToDate
      <4>2. Unbroken(k + 1)'
        <5>1. ASSUME NEW i \in 1 .. k PROVE Byte(i)' = Byte(i - 1)' + 1
          <6>1. CASE i = k
            BY <3>4, <4>1, <6>1
          <6>2. CASE i < k
            BY <3>4, <3>5, <3>8, <6>2 DEF Stretch, Unbroken
          <6> QED BY <6>1, <6>2
        <5> QED BY <5>1 DEF Unbroken
      <4>3. Begun' => Byte(0)' = last' + 1
        BY <1>1, <3>2, <3>4, <3>5, <3>8 DEF Stretch, UpToDate
      <4>4. UpToDate'
        BY <1>1, <3>3, <3>4 DEF UpToDate
      <4>5. k + 1 \in 0 .. Size /\ Stretch(k + 1)'
        BY <3>3, <4>2, <4>3, <4>4 DEF Stretch
      <4> QED BY <4>5
    <3> QED BY <3>2, <3>5, <3>7, <3>8 DEF Stretch
  <2>2. ASSUME todo = {"counter"}, wrptr' > 0
        PROVE  Unbroken(wrptr)' /\ Byte(wrptr - 1)' = sent'
    <3>0. rdptr = 0
      BY <2>2, OneStore DEF IInv
    <3>1. rdptr = 0 /\ wrptr \in 0 .. Size - 1 /\ wrptr' = wrptr + 1
      BY <1>1, <1>4, <2>2, <3>0 DEF TypeOK, Slots, Put, Slot
    <3>2. PICK k \in 0 .. Size - 1 : k = wrptr
      BY <3>1
    <3>3. Slot(rdptr, k) = wrptr
      BY <3>1, <3>2 DEF Slot
    <3>4. Byte(k)' = sent + 1 /\ \A i \in 0 .. k - 1 : Byte(i)' = Byte(i)
      BY <1>1, <1>4, <3>2, <3>3, PutByte
    <3>5. k > 0 => Unbroken(k) /\ Byte(k - 1) = sent
      BY <2>2, <3>2 DEF Gapless
    <3>6. ASSUME NEW i \in 1 .. k PROVE Byte(i)' = Byte(i - 1)' + 1
      <4>1. CASE i = k
        BY <3>4, <3>5, <4>1
      <4>2. CASE i < k
        BY <3>4, <3>5, <4>2 DEF Unbroken
      <4> QED BY <4>1, <4>2
    <3>7. Unbroken(k + 1)'
      BY <3>6 DEF Unbroken
    <3>8. wrptr' = k + 1 /\ wrptr' - 1 = k
      BY <3>1, <3>2
    <3>9. Byte(wrptr - 1)' = Byte(k)'
      BY <3>8 DEF Byte
    <3>10. Unbroken(wrptr)'
      BY <3>7, <3>8 DEF Unbroken
    <3> QED BY <1>1, <3>4, <3>9, <3>10
  <2> QED BY <1>1, <1>2, <1>3, <2>1, <2>2 DEF Gapless
<1>5. CASE Overrun
  <2>1. UNCHANGED <<rdptr, wrptr, counter, buffer, pc>> /\ Pending' = Pending
    BY <1>5 DEF Overrun, queue, Pending
  <2>2. \A i : Byte(i)' = Byte(i)
    BY <2>1 DEF Byte, Slot
  <2>3. ASSUME Reading \/ pc = "output"
        PROVE  \E g \in 0 .. Size : Stretch(g)'
    <3>1. PICK g \in 0 .. Size : Stretch(g)
      BY <2>3 DEF Gapless
    <3>2. Pending = Size
      BY <1>1, <1>5 DEF Overrun, IsFull, Pending, TypeOK, Slots
    <3>3. Need <= g
      BY <1>1, <3>1, <3>2 DEF Stretch, Need, TypeOK
    <3>4. Unbroken(g)' /\ (Begun' /\ g > 0 => Byte(0)' = last' + 1)
      BY <1>1, <2>2, <3>1 DEF Stretch, Unbroken
    <3> QED BY <1>1, <2>1, <3>1, <3>3, <3>4 DEF Stretch
  <2>4. ~(todo = {"counter"} /\ wrptr > 0)
    BY <1>1, <1>5, OneStore DEF Overrun, IsFull, IInv
  <2> QED BY <1>1, <1>2, <1>3, <2>1, <2>3, <2>4 DEF Gapless
<1> QED BY <1>4, <1>5 DEF Receive

\* A chunk is taken off the front of the stretch.
LEMMA GaplessReadChunk ==
    ASSUME IInv, IInv', Gapless, ReadChunk PROVE Gapless'
<1> USE SizeAssumption, ReqAssumption
<1> DEFINE m0 == IF n > counter THEN counter ELSE n
<1>1. /\ m0 \in 1 .. counter /\ m0 <= n /\ todo = {} /\ TypeOK /\ pc = "read"
      /\ n \in 0 .. ReqSize /\ counter \in Nat /\ counter <= Pending
  BY DEF ReadChunk, IInv, TypeOK
<1>2. /\ rdptr' = Slot(rdptr, m0) /\ counter' = counter - m0 /\ n' = n - m0
      /\ last' = Byte(m0 - 1)
      /\ strbuf' = [i \in 0 .. ReqSize - 1 |->
                     IF Count <= i /\ i < Count + m0
                     THEN Byte(i - Count) ELSE strbuf[i]]
      /\ UNCHANGED <<wrptr, buffer, pc, todo, sent>>
  BY DEF ReadChunk, Byte
<1>3. PICK k \in 0 .. Size : k = Pending
  BY <1>1, PendingSlot
<1>4. PICK m \in 1 .. counter : m = m0
  BY <1>1
<1>5. Pending' = k - m /\ m <= k
  BY <1>1, <1>2, <1>3, <1>4, PendingRead
<1>6. PICK g \in 0 .. Size : Stretch(g)
  BY <1>1 DEF Gapless, Reading
<1>7. /\ Reading /\ Reading' /\ Need = n /\ Need' = n - m
      /\ Begun = (Count > 0) /\ Begun' = (Count' > 0)
  BY <1>1, <1>2, <1>4 DEF Reading, Need, Begun
<1>8. m <= g /\ g <= k
  BY <1>1, <1>3, <1>4, <1>5, <1>6, <1>7 DEF Stretch
<1>9. ASSUME NEW i \in 0 .. k - m - 1
      PROVE  Byte(i)' = Byte(m + i)
  <2>1. rdptr' = Slot(rdptr, m) /\ rdptr \in Slots
    BY <1>1, <1>2, <1>4 DEF TypeOK
  <2>2. m \in 0 .. Size /\ i \in 0 .. Size /\ m + i \in 0 .. Size
    BY <1>3, <1>4, <1>5
  <2>3. Slot(rdptr', i) = Slot(rdptr, m + i)
    BY <2>1, <2>2, SlotAdd
  <2>4. Byte(i)' = buffer[Slot(rdptr', i)]
    BY <1>2 DEF Byte, Slot
  <2> QED BY <2>3, <2>4 DEF Byte
<1>10. \A i \in 1 .. g - 1 : Byte(i) = Byte(i - 1) + 1
  BY <1>6 DEF Stretch, Unbroken
<1> HIDE DEF m0
<1>11. last' = Byte(m - 1) /\ n' = n - m /\ n' \in Nat
  BY <1>1, <1>2, <1>4
<1>12. Stretch(g - m)'
  <2>1. Unbroken(g - m)'
    <3>1. ASSUME NEW i \in 1 .. g - m - 1 PROVE Byte(i)' = Byte(i - 1)' + 1
      <4>1. Byte(i)' = Byte(m + i) /\ Byte(i - 1)' = Byte(m + (i - 1))
        BY <1>8, <1>9
      <4>2. m + i \in 1 .. g - 1 /\ (m + i) - 1 = m + (i - 1)
        OBVIOUS
      <4> QED BY <1>10, <4>1, <4>2
    <3> QED BY <3>1 DEF Unbroken
  <2>2. g - m > 0 => Byte(0)' = last' + 1
    <3> SUFFICES ASSUME g - m > 0 PROVE Byte(0)' = last' + 1
      OBVIOUS
    <3>1. Byte(0)' = Byte(m)
      BY <1>8, <1>9
    <3>2. m \in 1 .. g - 1
      OBVIOUS
    <3> QED BY <1>10, <1>11, <3>1, <3>2
  <2>3. CASE Need <= g
    BY <1>5, <1>7, <1>8, <2>1, <2>2, <2>3, <1>1 DEF Stretch
  <2>4. CASE g = k /\ UpToDate
    <3>1. k > 0 /\ Byte(k - 1) = sent
      BY <1>3, <1>8, <2>4 DEF UpToDate
    <3>2. CASE m = k
      BY <1>2, <1>5, <1>11, <3>1, <3>2, <2>1, <2>2, <2>4 DEF Stretch, UpToDate
    <3>3. CASE m < k
      <4>1. k - m - 1 \in 0 .. k - m - 1 /\ m + (k - m - 1) = k - 1
        BY <3>3
      <4>2. Byte(k - m - 1)' = Byte(k - 1)
        BY <1>9, <4>1
      <4>3. Byte(Pending - 1)' = Byte(k - m - 1)'
        BY <1>5 DEF Byte
      <4>4. UpToDate'
        BY <1>2, <1>5, <3>1, <3>3, <4>2, <4>3 DEF UpToDate
      <4> QED BY <1>5, <2>1, <2>2, <2>4, <4>4 DEF Stretch
    <3> QED BY <1>8, <2>4, <3>2, <3>3
  <2> QED BY <1>3, <1>6, <2>3, <2>4 DEF Stretch
<1>13. Count \in 0 .. ReqSize /\ Count' = Count + m /\ Count' <= ReqSize
  BY <1>1, <1>11 DEF Count
<1>14. \A i \in 0 .. Count - 1 : strbuf'[i] = strbuf[i]
  BY <1>2, <1>13
<1>15. \A i \in Count .. Count + m - 1 : strbuf'[i] = Byte(i - Count)
  BY <1>2, <1>4, <1>13
<1>16. strbuf'[Count' - 1] = last'
  <2>1. Count' - 1 \in Count .. Count + m - 1 /\ (Count' - 1) - Count = m - 1
    BY <1>13
  <2> QED BY <1>11, <1>15, <2>1
<1>17. CommandContiguous'
  <2> SUFFICES ASSUME NEW i \in 1 .. Count + m - 1
               PROVE  strbuf'[i] = strbuf'[i - 1] + 1
    BY <1>13 DEF CommandContiguous
  <2>1. CASE i < Count
    BY <1>13, <1>14, <2>1 DEF Gapless, CommandContiguous
  <2>2. CASE i = Count
    <3>1. strbuf'[i] = Byte(0) /\ strbuf'[i - 1] = strbuf[Count - 1]
      BY <1>13, <1>14, <1>15, <2>2
    <3>2. strbuf[Count - 1] = last /\ Byte(0) = last + 1
      <4>1. Count > 0 /\ Begun /\ g > 0
        BY <1>4, <1>7, <1>8, <1>13, <2>2 DEF Begun
      <4> QED BY <1>6, <4>1 DEF Gapless, Stretch
    <3> QED BY <3>1, <3>2
  <2>3. CASE i > Count
    <3>1. i - Count \in 1 .. g - 1 /\ (i - 1) - Count = (i - Count) - 1
      BY <1>8, <1>13, <2>3
    <3>2. strbuf'[i] = Byte(i - Count) /\ strbuf'[i - 1] = Byte((i - Count) - 1)
      BY <1>13, <1>15, <2>3, <3>1
    <3> QED BY <1>10, <3>1, <3>2
  <2> QED BY <1>13, <2>1, <2>2, <2>3
<1>18. g - m \in 0 .. Size /\ todo' # {"counter"}
  BY <1>1, <1>2, <1>8
<1> QED BY <1>12, <1>16, <1>17, <1>18 DEF Gapless

\* Nothing moves in the queue; a round starts with no byte read.
LEMMA GaplessLocal ==
    ASSUME IInv, Gapless,
           \/ ReadSleep \/ ReadTimeout \/ ReadComplete \/ CommandCheck
           \/ FlushBegin \/ NextRound \/ UNCHANGED vars
    PROVE  Gapless'
<1> USE SizeAssumption, ReqAssumption
<1>1. UNCHANGED <<queue, strbuf, sent, last>>
  BY DEF ReadSleep, ReadTimeout, ReadComplete, CommandCheck, FlushBegin,
         NextRound, vars, queue
<1>2. Pending' = Pending /\ \A i : Byte(i)' = Byte(i)
  BY <1>1 DEF Pending, Byte, Slot, queue
<1>3. Count' = Count \/ Count' = 0
  BY DEF ReadSleep, ReadTimeout, ReadComplete, CommandCheck, FlushBegin,
         NextRound, vars, Count
<1>4. Count' > 0 => strbuf'[Count' - 1] = last'
  BY <1>1, <1>3 DEF Gapless
<1>5. CommandContiguous'
  BY <1>1, <1>3 DEF Gapless, CommandContiguous
<1>6. todo' = {"counter"} /\ wrptr' > 0 =>
          Unbroken(wrptr)' /\ Byte(wrptr - 1)' = sent'
  <2>1. todo' = {"counter"} => todo = {"counter"}
    BY DEF ReadSleep, ReadTimeout, ReadComplete, CommandCheck, FlushBegin,
           NextRound, vars, Fields
  <2> QED BY <1>1, <1>2, <2>1 DEF Gapless, Unbroken, queue, Byte, Slot
<1>7. ASSUME Reading' \/ pc' = "output"
      PROVE  \E g \in 0 .. Size : Stretch(g)'
  <2>1. /\ Reading \/ pc = "output"
        /\ Need' = Need /\ (Begun' => Begun)
    BY <1>7 DEF ReadSleep, ReadTimeout, ReadComplete, CommandCheck, FlushBegin,
                NextRound, vars, Reading, Need, Begun, Count
  <2>2. PICK g \in 0 .. Size : Stretch(g)
    BY <2>1 DEF Gapless
  <2>3. Unbroken(g)' /\ (Begun' /\ g > 0 => Byte(0)' = last' + 1)
    BY <1>1, <1>2, <2>1, <2>2 DEF Stretch, Unbroken
  <2>4. UpToDate => UpToDate'
    BY <1>1, <1>2, <2>1 DEF UpToDate, Byte, Slot, queue
  <2> QED BY <1>2, <2>1, <2>2, <2>3, <2>4 DEF Stretch
<1> QED BY <1>4, <1>5, <1>6, <1>7 DEF Gapless

\* The flush ends with a stretch from the first slot on, all that came since
\* q_wrptr was reset.
LEMMA GaplessFlushStore ==
    ASSUME StoreOrder = ProgramOrder, IInv, Gapless, NEW f \in Fields, FlushStore(f)
    PROVE  Gapless'
<1> USE SizeAssumption, ReqAssumption
<1>1. /\ UNCHANGED <<buffer, n, strbuf, sent, last>> /\ TypeOK
      /\ todo' = todo \ {f} /\ f \in todo /\ pc = "flush"
      /\ pc' = IF todo = {f} THEN "output" ELSE "flush"
      /\ todo \in {Fields, {"wrptr", "counter"}, {"counter"}}
  BY DEF FlushStore, IInv
<1>2. Count' = Count /\ (Count' > 0 => strbuf'[Count' - 1] = last') /\ CommandContiguous'
  BY <1>1 DEF Gapless, Count, CommandContiguous
<1>3. CASE todo = Fields
  <2>1. todo' = {"wrptr", "counter"} /\ pc' = "flush"
    BY <1>1, <1>3 DEF FlushStore, Fields, ProgramOrder
  <2> QED BY <1>2, <2>1 DEF Gapless, Reading
<1>4. CASE todo = {"wrptr", "counter"}
  <2>1. f = "wrptr" /\ wrptr' = 0 /\ pc' = "flush"
    BY <1>1, <1>4 DEF FlushStore, ProgramOrder
  <2> QED BY <1>2, <2>1 DEF Gapless, Reading
<1>5. CASE todo = {"counter"}
  <2>1. /\ f = "counter" /\ counter' = 0 /\ rdptr' = rdptr
        /\ wrptr' = wrptr /\ todo' = {} /\ pc' = "output"
    BY <1>1, <1>5 DEF FlushStore
  <2>2. rdptr = 0 /\ wrptr \in 0 .. Size - 1
    BY <1>1, <1>5, OneStore DEF IInv, TypeOK, Slots
  <2>3. Pending' = wrptr /\ ~Reading' /\ ~Begun'
    BY <2>1, <2>2 DEF Pending, Reading, Begun
  <2>4. \A i : Byte(i)' = Byte(i)
    BY <1>1, <2>1 DEF Byte, Slot
  <2>5. wrptr > 0 => Unbroken(wrptr)' /\ Byte(wrptr - 1)' = sent'
    BY <1>1, <1>5, <2>1, <2>4 DEF Gapless, Unbroken, Byte, Slot
  <2>6. UpToDate'
    BY <1>1, <2>1, <2>3, <2>5 DEF UpToDate, Byte, Slot
  <2>7. Unbroken(wrptr)'
    BY <2>1, <2>2, <2>5 DEF Unbroken
  <2>8. PICK g \in 0 .. Size : g = wrptr
    BY <2>2
  <2>9. Stretch(g)'
    BY <2>1, <2>3, <2>6, <2>7, <2>8 DEF Stretch, Unbroken, Byte, Slot
  <2> QED BY <1>2, <2>1, <2>9 DEF Gapless
<1> QED BY <1>1, <1>3, <1>4, <1>5

\* A command is a piece of the wire with no byte missing, although the
\* interrupt drops bytes when the queue is full.
THEOREM CommandWhole ==
    ASSUME StoreOrder = ProgramOrder
    PROVE  Spec => []CommandContiguous
<1>1. Init => Gapless
  BY GaplessInit
<1>2. IInv /\ IInv' /\ Gapless /\ [Next]_vars => Gapless'
  BY GaplessReceive, GaplessReadChunk, GaplessLocal, GaplessFlushStore
  DEF Next, Thread
<1>3. Gapless => CommandContiguous
  BY DEF Gapless
<1> QED
  BY <1>1, <1>2, <1>3, Invariant, PTL DEF Spec
=============================================================================
