---------------------------- MODULE SerialInput ----------------------------
(***************************************************************************)
(* The receive path of the serial port: the USART interrupt that puts one  *)
(* byte at a time into the input queue of SD2, the serial thread that      *)
(* takes them out again through serial_read, and the flush of the queue at *)
(* the end of every round of that thread.                                  *)
(*                                                                         *)
(* The interrupt and the locked sections of the thread exclude each other, *)
(* so each is one action.  The flush (iqResetI) is called with no lock: it *)
(* is three stores with the interrupt free to come between any two, in an  *)
(* order the source fixes and an optimising compiler need not keep.        *)
(*                                                                         *)
(* A byte is its serial number on the wire, so that "stale", "again" and   *)
(* "out of order" are comparisons of numbers.                              *)
(***************************************************************************)
EXTENDS Integers, FiniteSets

CONSTANTS
    Size,        \* SERIAL_BUFFERS_SIZE, the slots of the queue (16)
    ReqSize,     \* SERIAL_BUFFER_SIZE, the bytes of one command (6)
    MaxSent,     \* bound of the model: bytes the desktop sends
    StoreOrder   \* <<f, g>> : the build stores field f before field g

Fields == {"rdptr", "wrptr", "counter"}

\* The order of the three stores in the source of iqResetI.
ProgramOrder ==
    {<<"rdptr", "wrptr">>, <<"rdptr", "counter">>, <<"wrptr", "counter">>}

ASSUME SizeAssumption  == Size \in Nat \ {0}
ASSUME ReqAssumption   == ReqSize \in 1 .. Size
ASSUME SentAssumption  == MaxSent \in Nat
ASSUME OrderAssumption == StoreOrder \subseteq ProgramOrder

VARIABLES
    rdptr, wrptr,  \* offsets of q_rdptr and q_wrptr from q_buffer
    counter,       \* q_counter
    buffer,        \* the bytes of the queue, 0 where none was written yet
    pc,            \* where the serial thread is
    n,             \* bytes iqReadTimeout has still to read
    strbuf,        \* the command buffer, kept from round to round
    todo,          \* the stores of iqResetI still to do
    sent,          \* bytes on the wire so far
    last           \* history: the last byte a read delivered

queue == <<rdptr, wrptr, counter, buffer>>
vars  == <<rdptr, wrptr, counter, buffer, pc, n, strbuf, todo, sent, last>>

Slots == 0 .. Size - 1
Slot(p, i) == IF p + i >= Size THEN p + i - Size ELSE p + i

\* Variant: the full test on the counter alone.
IsFull_ByCounter == counter >= Size

\* iqIsFullI: the indices meet and the queue is not empty.
IsFull == wrptr = rdptr /\ counter # 0

\* The slots from rdptr up to wrptr, as the indices alone tell them.
Pending == IF wrptr > rdptr THEN wrptr - rdptr
           ELSE IF wrptr < rdptr THEN wrptr + Size - rdptr
           ELSE IF counter = 0 THEN 0 ELSE Size

\* What serial_read returns: bytes read, although its type is msg_t.
Count == ReqSize - n

Init ==
    /\ rdptr = 0 /\ wrptr = 0 /\ counter = 0
    /\ buffer = [i \in Slots |-> 0]
    /\ pc = "read" /\ n = ReqSize
    /\ strbuf = [i \in 0 .. ReqSize - 1 |-> 0]
    /\ todo = {}
    /\ sent = 0 /\ last = 0
-----------------------------------------------------------------------------
(* The interrupt *)

\* iqPutI, with the wake-up of the reader when one waits.
Put(b) ==
    /\ ~IsFull
    /\ counter' = counter + 1
    /\ buffer' = [buffer EXCEPT ![wrptr] = b]
    /\ wrptr' = Slot(wrptr, 1)
    /\ pc' = IF pc = "wait" THEN "read" ELSE pc
    /\ UNCHANGED rdptr

\* A full queue refuses the byte, which is lost (SD_QUEUE_FULL_ERROR is
\* raised and nothing listens to it).
Overrun == IsFull /\ UNCHANGED <<queue, pc>>

Receive ==
    /\ sent < MaxSent
    /\ sent' = sent + 1
    /\ Put(sent + 1) \/ Overrun
    /\ UNCHANGED <<n, strbuf, todo, last>>
-----------------------------------------------------------------------------
(* serial_read *)

\* Variant: the chunk is written at the start of strbuf (bp not advanced).
ReadChunk_NoAdvance ==
    /\ pc = "read" /\ n > 0 /\ counter > 0
    /\ LET m == IF n > counter THEN counter ELSE n
       IN  /\ strbuf' = [i \in 0 .. ReqSize - 1 |->
                IF i < m THEN buffer[Slot(rdptr, i)] ELSE strbuf[i]]
           /\ rdptr' = Slot(rdptr, m)
           /\ counter' = counter - m
           /\ n' = n - m
           /\ last' = buffer[Slot(rdptr, m - 1)]
    /\ UNCHANGED <<wrptr, buffer, pc, todo, sent>>

\* Variant: all the bytes asked for are taken, however many there are.
ReadChunk_Greedy ==
    /\ pc = "read" /\ n > 0 /\ counter > 0
    /\ rdptr' = (rdptr + n) % Size /\ counter' = counter - n /\ n' = 0
    /\ UNCHANGED <<wrptr, buffer, pc, strbuf, todo, sent, last>>

\* One pass of the loop of iqReadTimeout that finds bytes: iq_read.
ReadChunk ==
    /\ pc = "read" /\ n > 0 /\ counter > 0
    /\ LET m == IF n > counter THEN counter ELSE n
       IN  /\ strbuf' = [i \in 0 .. ReqSize - 1 |->
                IF Count <= i /\ i < Count + m
                THEN buffer[Slot(rdptr, i - Count)] ELSE strbuf[i]]
           /\ rdptr' = Slot(rdptr, m)
           /\ counter' = counter - m
           /\ n' = n - m
           /\ last' = buffer[Slot(rdptr, m - 1)]
    /\ UNCHANGED <<wrptr, buffer, pc, todo, sent>>

\* One pass that finds none: the thread sleeps on the queue for 50 ms.
ReadSleep ==
    /\ pc = "read" /\ n > 0 /\ counter = 0
    /\ pc' = "wait"
    /\ UNCHANGED <<queue, n, strbuf, todo, sent, last>>

\* Variant: the loop goes on behind a timeout.
ReadTimeout_Loop ==
    /\ pc = "wait"
    /\ pc' = "read"
    /\ UNCHANGED <<queue, n, strbuf, todo, sent, last>>

ReadTimeout ==
    /\ pc = "wait"
    /\ pc' = "done"
    /\ UNCHANGED <<queue, n, strbuf, todo, sent, last>>

ReadComplete ==
    /\ pc = "read" /\ n = 0
    /\ pc' = "done"
    /\ UNCHANGED <<queue, n, strbuf, todo, sent, last>>
-----------------------------------------------------------------------------
(* The rest of a round of serialcomm_thread *)

\* if (sdt != MSG_OK) commad_check(strbuf), MSG_OK being 0.
CommandCheck ==
    /\ pc = "done" /\ Count # 0
    /\ pc' = "check"
    /\ UNCHANGED <<queue, n, strbuf, todo, sent, last>>

\* Variant: the queue is not flushed.
FlushBegin_Never ==
    /\ \/ pc = "check"
       \/ pc = "done" /\ Count = 0
    /\ pc' = "output"
    /\ UNCHANGED <<queue, n, strbuf, todo, sent, last>>

FlushBegin ==
    /\ \/ pc = "check"
       \/ pc = "done" /\ Count = 0
    /\ pc' = "flush" /\ todo' = Fields
    /\ UNCHANGED <<queue, n, strbuf, sent, last>>

\* Variant: the stores in any order.
FlushStore_AnyOrder(f) ==
    /\ pc = "flush" /\ f \in todo
    /\ rdptr'   = IF f = "rdptr"   THEN 0 ELSE rdptr
    /\ wrptr'   = IF f = "wrptr"   THEN 0 ELSE wrptr
    /\ counter' = IF f = "counter" THEN 0 ELSE counter
    /\ todo' = todo \ {f}
    /\ pc' = IF todo = {f} THEN "output" ELSE "flush"
    /\ UNCHANGED <<buffer, n, strbuf, sent, last>>

\* One store of iqResetI.
FlushStore(f) ==
    /\ pc = "flush" /\ f \in todo
    /\ \A g \in todo : <<g, f>> \notin StoreOrder
    /\ rdptr'   = IF f = "rdptr"   THEN 0 ELSE rdptr
    /\ wrptr'   = IF f = "wrptr"   THEN 0 ELSE wrptr
    /\ counter' = IF f = "counter" THEN 0 ELSE counter
    /\ todo' = todo \ {f}
    /\ pc' = IF todo = {f} THEN "output" ELSE "flush"
    /\ UNCHANGED <<buffer, n, strbuf, sent, last>>

\* The output section and the sleep of 100 ms, which leave the queue alone.
NextRound ==
    /\ pc = "output"
    /\ pc' = "read" /\ n' = ReqSize
    /\ UNCHANGED <<queue, strbuf, todo, sent, last>>

Thread == \/ ReadChunk \/ ReadSleep \/ ReadComplete \/ CommandCheck
          \/ FlushBegin \/ NextRound
          \/ \E f \in Fields : FlushStore(f)

Next == Receive \/ ReadTimeout \/ Thread

(* The thread runs when it is ready and the timer of the wait fires; the   *)
(* desktop owes nobody a byte.                                             *)
Spec == Init /\ [][Next]_vars /\ WF_vars(Thread) /\ WF_vars(ReadTimeout)
-----------------------------------------------------------------------------
(* Properties *)

\* The indices stay inside the buffer and no count goes negative.
TypeOK ==
    /\ rdptr \in Slots /\ wrptr \in Slots /\ counter \in Nat
    /\ buffer \in [Slots -> 0 .. MaxSent]
    /\ pc \in {"read", "wait", "done", "check", "flush", "output"}
    /\ n \in 0 .. ReqSize
    /\ strbuf \in [0 .. ReqSize - 1 -> 0 .. MaxSent]
    /\ todo \in SUBSET Fields
    /\ sent \in 0 .. MaxSent /\ last \in 0 .. MaxSent

\* The first k bytes from q_rdptr on are newer than all that was delivered,
\* and in the order of the wire.
Fresh(k) ==
    /\ \A i \in 0 .. k - 1 : buffer[Slot(rdptr, i)] \in last + 1 .. sent
    /\ \A i, j \in 0 .. k - 1 :
          i < j => buffer[Slot(rdptr, i)] < buffer[Slot(rdptr, j)]

\* Outside the flush the counter never promises a byte the indices do not
\* hold: iq_read takes `counter' bytes on trust and would run past q_wrptr.
RingConsistent == pc # "flush" => counter <= Pending

\* The bytes between q_rdptr and q_wrptr are in the order they came in and
\* newer than all that was delivered: no byte is read twice, whatever
\* interrupts the flush.
ReadableFresh == pc # "flush" => Fresh(Pending)

\* What one serial_read has put into strbuf is in the order of the wire.
ReadInOrder ==
    \A i, j \in 0 .. Count - 1 : i < j => strbuf[i] < strbuf[j]

\* The inductive strengthening of the three, when the stores of iqResetI keep
\* their order.  Once q_rdptr is reset the indices say nothing of the bytes;
\* once q_wrptr is, the slots below it hold only bytes that came since.
IInv ==
    /\ TypeOK
    /\ IF pc = "flush"
       THEN todo \in {Fields, {"wrptr", "counter"}, {"counter"}}
       ELSE todo = {}
    /\ todo \in {{}, Fields} => counter <= Pending /\ Fresh(Pending)
    /\ todo \notin {{}, Fields} => rdptr = 0
    /\ todo = {"counter"} => Fresh(wrptr)
    /\ last <= sent
    /\ \A i \in 0 .. Count - 1 : strbuf[i] <= last
    /\ ReadInOrder

\* serial_read comes back, with a command or without: iqReadTimeout restarts
\* its timeout at every chunk, and the count of bytes missing bounds that.
ReadReturns == pc = "read" ~> pc = "done"

\* No byte is missing inside what one serial_read delivers, although a full
\* queue loses bytes: the queue is longer than a command and every round
\* empties it, so that what is lost comes behind the bytes the read takes.
CommandContiguous ==
    \A i \in 1 .. Count - 1 : strbuf[i] = strbuf[i - 1] + 1

\* serialcomm.c: "only check command if read finished without error".  What is
\* checked came from one read, nothing of it from a round before.
ChecksOneRead ==
    pc = "check" =>
        \A i, j \in 0 .. ReqSize - 1 : i < j => strbuf[i] < strbuf[j]
=============================================================================
