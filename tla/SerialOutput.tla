---------------------------- MODULE SerialOutput ----------------------------
(***************************************************************************)
(* The sending side of SD2: the output queue (hal_queues.c), the transmit  *)
(* half of the USART interrupt (hal_serial_lld.c) and the two ways the     *)
(* application writes: serial_print, a message at a time under the mutex   *)
(* of mtprint.c, and chprintf, a character at a time under another mutex.  *)
(* A byte stands for its place in its message.                             *)
(***************************************************************************)
EXTENDS Integers, Sequences, FiniteSets

CONSTANTS
    Printer,    \* threads that use serial_print
    Formatter,  \* the thread that uses chprintf; it may print too
    Size,       \* SERIAL_BUFFERS_SIZE
    PrintLen,   \* characters of a printed message
    FormatLen,  \* characters chprintf puts
    None

ASSUME OutputAssumption ==
    /\ Size \in Nat \ {0} /\ PrintLen \in Nat \ {0} /\ FormatLen \in Nat \ {0}
    /\ None \notin Printer \cup {Formatter} /\ IsFiniteSet(Printer)

Thread == Printer \cup {Formatter}
Kinds  == {"print", "format"}
Length(kind) == IF kind = "print" THEN PrintLen ELSE FormatLen

\* The byte at place i of a message of the thread.
Byte(kind, t, i) == [kind |-> kind, by |-> t, i |-> i]
Bytes == {Byte(kind, t, i) : kind \in Kinds, t \in Thread, i \in 1 .. PrintLen + FormatLen}

ASSUME BytesAssumption == None \notin Bytes

VARIABLES
    buffer, wrptr, rdptr, counter,  \* the ring and the space that is left
    waiting,      \* q_waiting
    qmtx,         \* the owner of the mutex of mtprint.c
    pc, kind, i,  \* per thread: its state, how it writes, its next character
    txeie, tcie,  \* the interrupts enabled in CR1
    tdr, shift,   \* the data and the shift register
    tc,           \* the flag of the transmission's end
    isr,          \* the handler: where it is, CR1 and ISR as it read them
    wire          \* history: the byte sent last, and the last of each kind

ring  == <<buffer, wrptr, rdptr, counter>>
calls == <<pc, kind, i>>
uart  == <<tdr, shift, tc>>
vars  == <<ring, waiting, qmtx, calls, txeie, tcie, uart, isr, wire>>

Slots == 0 .. Size - 1

\* Variant: the index is put back a slot late.
Slot_Late(p) == p % (Size + 1)

Slot(p) == p % Size

\* Variant: the empty test on the pointers alone.
IsEmpty_ByPointers == wrptr = rdptr

\* oqIsEmptyI and oqIsFullI.
IsEmpty == wrptr = rdptr /\ counter # 0
IsFull  == counter = 0

NoIsr == [at |-> "none", txeie |-> FALSE, tcie |-> FALSE, txe |-> FALSE, tc |-> FALSE]

Init ==
    /\ buffer = [s \in Slots |-> None] /\ wrptr = 0 /\ rdptr = 0 /\ counter = Size
    /\ waiting = <<>> /\ qmtx = None
    /\ pc = [t \in Thread |-> "idle"] /\ kind = [t \in Thread |-> "print"]
    /\ i = [t \in Thread |-> 1]
    /\ txeie = FALSE /\ tcie = FALSE
    /\ tdr = None /\ shift = None /\ tc = TRUE
    /\ isr = NoIsr
    /\ wire = [last |-> None, print |-> None, format |-> None]

----------------------------------------------------------------------------
(* The writers *)

\* An enabled interrupt goes before every thread.
Irq == (txeie /\ tdr = None) \/ (tcie /\ tc)
Runs(t, p) == pc[t] \in p /\ isr.at = "none" /\ ~Irq

\* Variant: serial_print takes no mutex.
PrintFree_Always == TRUE

PrintFree == qmtx = None

\* serial_print locks the mutex and calls sdWrite.
SerialPrint(t) ==
    /\ Runs(t, {"idle"}) /\ PrintFree
    /\ qmtx' = t /\ pc' = [pc EXCEPT ![t] = "write"]
    /\ kind' = [kind EXCEPT ![t] = "print"] /\ i' = [i EXCEPT ![t] = 1]
    /\ UNCHANGED <<ring, waiting, txeie, tcie, uart, isr, wire>>

\* chprintf hands its characters to oqPutTimeout.
Chprintf(t) ==
    /\ t = Formatter /\ Runs(t, {"idle"})
    /\ pc' = [pc EXCEPT ![t] = "write"]
    /\ kind' = [kind EXCEPT ![t] = "format"] /\ i' = [i EXCEPT ![t] = 1]
    /\ UNCHANGED <<ring, waiting, qmtx, txeie, tcie, uart, isr, wire>>

\* notify2.
Notify == txeie' = TRUE /\ tcie' = TRUE

Left(t) == Length(kind[t]) - i[t] + 1

\* Variant: oq_write does not look at the space.
Chunk_Blind(t) == IF kind[t] = "format" THEN 1 ELSE Left(t)

\* Bytes that go in at once: oq_write takes all it has space for.
Chunk(t) == IF kind[t] = "format" THEN 1 ELSE IF Left(t) < counter THEN Left(t) ELSE counter

\* oq_write or the end of oqPutTimeout, and the notification.
Put(t) ==
    LET done == Chunk(t)
        into == [j \in 0 .. done - 1 |-> Slot(wrptr + j)]
    IN  /\ Runs(t, {"write", "woken"}) /\ ~IsFull
        /\ buffer' = [s \in Slots |->
              IF \E j \in 0 .. done - 1 : into[j] = s
              THEN Byte(kind[t], t, i[t] + CHOOSE j \in 0 .. done - 1 : into[j] = s)
              ELSE buffer[s]]
        /\ wrptr' = Slot(wrptr + done) /\ counter' = counter - done
        /\ i' = [i EXCEPT ![t] = @ + done]
        /\ pc' = [pc EXCEPT ![t] = IF Left(t) = done THEN "end" ELSE "write"]
        /\ Notify
        /\ UNCHANGED <<rdptr, waiting, qmtx, kind, uart, isr, wire>>

\* osalThreadEnqueueTimeoutS with no timeout.
Wait(t) ==
    /\ Runs(t, {"write", "woken"}) /\ IsFull
    /\ waiting' = Append(waiting, t) /\ pc' = [pc EXCEPT ![t] = "wait"]
    /\ UNCHANGED <<ring, qmtx, kind, i, txeie, tcie, uart, isr, wire>>

Finish(t) ==
    /\ Runs(t, {"end"}) /\ pc' = [pc EXCEPT ![t] = "idle"]
    /\ qmtx' = IF kind[t] = "print" THEN None ELSE qmtx
    /\ UNCHANGED <<ring, waiting, kind, i, txeie, tcie, uart, isr, wire>>

----------------------------------------------------------------------------
(* The interrupt handler, as far as it sends *)

\* CR1 and ISR are read, the flags read are cleared.
IsrEnter ==
    /\ isr.at = "none" /\ Irq
    /\ isr' = [at |-> "tx", txeie |-> txeie, tcie |-> tcie, txe |-> tdr = None, tc |-> tc]
    /\ tc' = FALSE
    /\ UNCHANGED <<ring, waiting, qmtx, calls, txeie, tcie, tdr, shift, wire>>

Fills == isr.at = "tx" /\ isr.txeie /\ isr.txe

\* Variant: a writer is woken when the queue stops being full, as if there
\* could be one only.
Wakes_IfFull == waiting # <<>> /\ counter = 0

Wakes == waiting # <<>>

\* oqGetI: the byte goes to TDR and the first writer is woken.
IsrByte ==
    /\ Fills /\ ~IsEmpty
    /\ tdr' = buffer[rdptr] /\ tc' = FALSE
    /\ rdptr' = Slot(rdptr + 1) /\ counter' = counter + 1
    /\ \/ Wakes /\ waiting' = Tail(waiting) /\ pc' = [pc EXCEPT ![Head(waiting)] = "woken"]
       \/ ~Wakes /\ UNCHANGED <<waiting, pc>>
    /\ isr' = [isr EXCEPT !.at = "read"]
    /\ UNCHANGED <<buffer, wrptr, qmtx, kind, i, txeie, tcie, shift, wire>>

\* ISR is read again before the next byte.
IsrRead ==
    /\ isr.at = "read"
    /\ isr' = [isr EXCEPT !.at = "tx", !.txe = (tdr = None), !.tc = tc]
    /\ UNCHANGED <<ring, waiting, qmtx, calls, txeie, tcie, uart, wire>>

\* The queue is empty: CR1 as it was read, without TXEIE.
IsrEmpty ==
    /\ Fills /\ IsEmpty
    /\ txeie' = FALSE /\ tcie' = isr.tcie
    /\ isr' = [isr EXCEPT !.at = "tc"]
    /\ UNCHANGED <<ring, waiting, qmtx, calls, uart, wire>>

\* The transmitter is done and there is no more to send.
AtEnd == isr.tcie /\ isr.tc /\ IsEmpty

\* At the end CR1 is written as it was read, without TCIE: a TXEIE disabled
\* by IsrEmpty is enabled again.
IsrLeave ==
    /\ isr.at = "tc" \/ (isr.at = "tx" /\ ~Fills)
    /\ \/ AtEnd /\ tcie' = FALSE /\ txeie' = isr.txeie
       \/ ~AtEnd /\ UNCHANGED <<txeie, tcie>>
    /\ isr' = NoIsr
    /\ UNCHANGED <<ring, waiting, qmtx, calls, uart, wire>>

Isr == IsrEnter \/ IsrByte \/ IsrRead \/ IsrEmpty \/ IsrLeave

----------------------------------------------------------------------------
(* The transmitter *)

HwLoad ==
    /\ shift = None /\ tdr # None
    /\ shift' = tdr /\ tdr' = None
    /\ UNCHANGED <<ring, waiting, qmtx, calls, txeie, tcie, tc, isr, wire>>

HwSent ==
    /\ shift # None /\ shift' = None
    /\ tc' = (tc \/ tdr = None)
    /\ wire' = [wire EXCEPT !.last = shift, ![shift.kind] = shift]
    /\ UNCHANGED <<ring, waiting, qmtx, calls, txeie, tcie, tdr, isr>>

Hardware == HwLoad \/ HwSent

----------------------------------------------------------------------------
Writes(t) == Put(t) \/ Wait(t) \/ Finish(t)

Next == Isr \/ Hardware \/ \E t \in Thread : SerialPrint(t) \/ Chprintf(t) \/ Writes(t)

\* The transmitter sends and the interrupts are served.
Spec == Init /\ [][Next]_vars /\ WF_vars(Isr) /\ WF_vars(Hardware)

----------------------------------------------------------------------------
\* The indices stay inside the ring and the space inside its size.
TypeOK ==
    /\ buffer \in [Slots -> Bytes \cup {None}]
    /\ {wrptr, rdptr} \subseteq Slots /\ counter \in 0 .. Size
    /\ waiting \in Seq(Thread) /\ qmtx \in Thread \cup {None}
    /\ pc \in [Thread -> {"idle", "write", "wait", "woken", "end"}]
    /\ kind \in [Thread -> Kinds] /\ i \in [Thread -> Nat]
    /\ {txeie, tcie, tc} \subseteq BOOLEAN
    /\ {tdr, shift} \subseteq Bytes \cup {None}
    /\ isr \in [at : {"none", "tx", "read", "tc"}, txeie : BOOLEAN, tcie : BOOLEAN,
               txe : BOOLEAN, tc : BOOLEAN]

\* Bytes do not stay behind in the queue: while there are any, the interrupt
\* that sends them is enabled, although the handler writes CR1 as it read it
\* when it began.
NeverStalls == counter < Size => txeie

\* A writer waits only as long as every free slot has a writer that was woken
\* for it.
NoLostWakeup ==
    waiting # <<>> => counter <= Cardinality({t \in Thread : pc[t] = "woken"})

\* A message of serial_print is not cut by another one, and the characters of
\* chprintf stay in order, whatever the two do to each other.
MessagesWhole ==
    [][\A k \in Kinds :
        wire'[k] # wire[k] =>
            IF wire'[k].i = 1 THEN wire[k] = None \/ wire[k].i = Length(k)
            ELSE wire[k] # None /\ wire'[k] = [wire[k] EXCEPT !.i = @ + 1]]_wire

\* The bytes in the ring, the oldest first.
Contents == [j \in 1 .. Size - counter |-> buffer[(rdptr + j - 1) % Size]]
InRegister(r) == IF r = None THEN <<>> ELSE <<r>>

\* What was put and is not sent: the registers go before the ring.
OnWay == InRegister(shift) \o InRegister(tdr) \o Contents

Stream == INSTANCE AbstractStream WITH
    Capacity <- Size + 2,
    onWay <- OnWay,
    sent <- wire.last

\* Every byte put into the queue is sent once and in order.
IsStream == Stream!SSpec

\* A writer that waits for space gets some.
WritersWoken == \A t \in Thread : pc[t] = "wait" ~> pc[t] # "wait"
=============================================================================
