----------------------------- MODULE I2CDriver -----------------------------
(***************************************************************************)
(* The I2C driver under i2c1_transmit: i2cMasterTransmitTimeout, the       *)
(* low level transfer and the interrupt handler (I2Cv2/hal_i2c_lld.c), the *)
(* suspended thread and its timeout, with the controller, its DMA streams  *)
(* and the device on the wire as they are used by that code.  An interrupt *)
(* preempts every thread; the timer preempts the I2C handler, which holds  *)
(* no lock but around its wake-up, the last thing it does.                 *)
(***************************************************************************)
EXTENDS Integers

CONSTANTS
    Thread,   \* the threads that use the bus
    TxBytes,  \* bytes a transfer sends
    RxSizes,  \* bytes a transfer may ask for, 0 for a plain write
    None

ASSUME I2CAssumption ==
    TxBytes \in Nat \ {0} /\ RxSizes \subseteq Nat /\ None \notin Thread

VARIABLES
    bus,      \* who holds the bus mutex
    pc,       \* per thread, where its call is
    want,     \* per thread, the rxbytes of its call
    msg,      \* per thread, the message it is woken with
    state,    \* I2CDriver.state
    thread,   \* I2CDriver.thread, the reference of the suspended thread
    tcie,     \* the transfer complete interrupt is enabled
    dmatx,    \* the sending stream: enabled, and the bytes left
    dmarx,    \* the receiving stream: the same, and whose buffer it fills
    phase,    \* what the controller does on the wire
    nbytes,   \* bytes left of the phase
    rxdr,     \* the receive register: "empty", or a byte, "new" or "old"
    nack, err,  \* flags of the controller
    who,      \* history: whose transfer is on the wire
    got,      \* history: per thread, new bytes its buffer got
    failed,   \* history: per thread, its transfer was refused or failed
    due       \* history: a call timed out, a restart of the driver is due

calls == <<bus, pc, want, msg>>
drv   == <<state, thread, tcie>>
dma   == <<dmatx, dmarx>>
ctrl  == <<phase, nbytes, rxdr, nack, err>>
hist  == <<who, got, failed, due>>
vars  == <<calls, drv, dma, ctrl, hist>>

Busy == phase # "idle"

\* The interrupt of the controller is requested.
Irq == nack \/ err \/ (phase = "hold" /\ tcie)

Init ==
    /\ bus = None /\ pc = [t \in Thread |-> "idle"]
    /\ want = [t \in Thread |-> 0] /\ msg = [t \in Thread |-> "MSG_OK"]
    /\ state = "READY" /\ thread = None /\ tcie = FALSE
    /\ dmatx = [on |-> FALSE, left |-> 0]
    /\ dmarx = [on |-> FALSE, left |-> 0, buf |-> None]
    /\ phase = "idle" /\ nbytes = 0 /\ rxdr = "empty"
    /\ nack = FALSE /\ err = FALSE
    /\ who = None /\ got = [t \in Thread |-> 0]
    /\ failed = [t \in Thread |-> FALSE] /\ due = FALSE

----------------------------------------------------------------------------
(* The calling thread *)

At(t, p) == pc[t] = p /\ ~Irq
Goto(t, p) == pc' = [pc EXCEPT ![t] = p]

\* i2cAcquireBus on a free bus and the first lines of i2cMasterTransmitTimeout.
Enter(t, n) ==
    /\ At(t, "idle") /\ bus = None
    /\ bus' = t /\ want' = [want EXCEPT ![t] = n] /\ Goto(t, "setup")
    /\ state' = "ACTIVE_TX"
    /\ got' = [got EXCEPT ![t] = 0] /\ failed' = [failed EXCEPT ![t] = FALSE]
    /\ UNCHANGED <<msg, thread, tcie, dma, ctrl, who, due>>

\* The streams are set up outside the lock; setting the mode disables them.
Setup(t) ==
    /\ At(t, "setup") /\ Goto(t, "busy")
    /\ dmatx' = [on |-> FALSE, left |-> TxBytes]
    /\ dmarx' = [on |-> FALSE, left |-> want[t], buf |-> t]
    /\ UNCHANGED <<bus, want, msg, drv, ctrl, hist>>

\* Variant: the time spent in the loop is not looked at.
WaitedLong_Never(t) == FALSE

\* The bus stayed busy for STM32_I2C_BUSY_TIMEOUT.
WaitedLong(t) == At(t, "busy") /\ Busy

BusyTimeout(t) ==
    /\ WaitedLong(t)
    /\ msg' = [msg EXCEPT ![t] = "MSG_TIMEOUT"] /\ Goto(t, "return")
    /\ state' = "LOCKED" /\ due' = TRUE
    /\ UNCHANGED <<bus, want, thread, tcie, dma, ctrl, who, got, failed>>

\* The loop is left with the bus free and the lock held, the transfer started
\* and the thread suspended under that lock.
Start(t) ==
    /\ At(t, "busy") /\ ~Busy /\ Goto(t, "wait")
    /\ dmatx' = [dmatx EXCEPT !.on = TRUE] /\ tcie' = TRUE /\ thread' = t
    /\ phase' = "tx" /\ nbytes' = dmatx.left /\ who' = t
    /\ rxdr' = IF rxdr = "new" THEN "old" ELSE rxdr
    /\ UNCHANGED <<bus, want, msg, state, dmarx, nack, err, got, failed, due>>

\* The STOP bit ends the transfer behind the current byte.
Stopped(p) == CASE p = "tx" -> "forced_tx" [] p = "rx" -> "forced_rx"
                [] p = "hold" -> "stopping" [] OTHER -> p

DmaOff == /\ dmatx' = [dmatx EXCEPT !.on = FALSE]
          /\ dmarx' = [dmarx EXCEPT !.on = FALSE]

\* Variant: a timeout leaves the streams enabled.
AbortDma_Never == UNCHANGED dma

AbortDma == DmaOff

\* Variant: a timeout does not send the STOP.
AbortPhase_Keep == phase

AbortPhase == Stopped(phase)

\* Back from osalThreadSuspendTimeoutS, still locked up to the return.
Resume(t) ==
    /\ At(t, "woken") /\ Goto(t, "return")
    /\ \/ /\ msg[t] = "MSG_TIMEOUT"
          /\ phase' = AbortPhase /\ AbortDma /\ state' = "LOCKED" /\ due' = TRUE
       \/ /\ msg[t] # "MSG_TIMEOUT"
          /\ state' = "READY" /\ UNCHANGED <<phase, dma, due>>
    /\ UNCHANGED <<bus, want, msg, thread, tcie, nbytes, rxdr, nack, err, who, got, failed>>

\* i2cReleaseBus.
Return(t) ==
    /\ At(t, "return") /\ Goto(t, "idle") /\ bus' = None
    /\ UNCHANGED <<want, msg, drv, dma, ctrl, hist>>

\* Variant: the reference is kept when the timeout wakes the thread.
RefAtTimeout_Kept == thread

\* __sch_wakeup takes the reference back.
RefAtTimeout == None

\* The timer of chThdSuspendTimeoutS goes off.
Timeout(t) ==
    /\ pc[t] = "wait"
    /\ thread' = RefAtTimeout
    /\ msg' = [msg EXCEPT ![t] = "MSG_TIMEOUT"] /\ Goto(t, "woken")
    /\ UNCHANGED <<bus, want, state, tcie, dma, ctrl, hist>>

----------------------------------------------------------------------------
(* The interrupt handler *)

\* chThdResumeI: nobody is woken when the reference is gone.
ResumeI(m) ==
    /\ thread' = None
    /\ IF thread = None THEN UNCHANGED <<pc, msg>>
       ELSE Goto(thread, "woken") /\ msg' = [msg EXCEPT ![thread] = m]
    /\ UNCHANGED <<bus, want>>

\* Every flag read is cleared; an error goes first.
ServeError ==
    /\ err /\ err' = FALSE /\ nack' = FALSE
    /\ DmaOff /\ ResumeI("MSG_RESET")
    /\ UNCHANGED <<state, tcie, phase, nbytes, rxdr, hist>>

ServeNack ==
    /\ nack /\ ~err /\ nack' = FALSE
    /\ DmaOff /\ tcie' = FALSE /\ phase' = Stopped(phase) /\ ResumeI("MSG_RESET")
    /\ UNCHANGED <<state, nbytes, rxdr, err, hist>>

TransferComplete == phase = "hold" /\ tcie /\ ~nack /\ ~err

\* Variant: the end of the sending phase is taken for the end.
ReceivePhase_Never == FALSE

\* Variant: every transfer gets a receiving phase.
ReceivePhase_Always == state = "ACTIVE_TX"

ReceivePhase == state = "ACTIVE_TX" /\ dmarx.left > 0

\* Variant: the byte the restart sends is counted as one received.
RxCount_OffByOne == dmarx.left - 1

\* i2c_lld_setup_rx_transfer: NBYTES.
RxCount == dmarx.left

\* The receiving phase is set up and started.  The stream takes a byte that is
\* left in the register at once.
ServeSent ==
    /\ TransferComplete /\ ReceivePhase
    /\ state' = "ACTIVE_RX" /\ phase' = "rx" /\ nbytes' = RxCount
    /\ dmatx' = [dmatx EXCEPT !.on = FALSE]
    /\ dmarx' = [dmarx EXCEPT !.on = TRUE, !.left = IF rxdr = "empty" THEN @ ELSE @ - 1]
    /\ rxdr' = "empty"
    /\ UNCHANGED <<calls, thread, tcie, nack, err, hist>>

\* The transfer is over: the stream of its last phase is disabled.
ServeEnd ==
    /\ TransferComplete /\ ~ReceivePhase
    /\ IF state = "ACTIVE_TX"
       THEN dmatx' = [dmatx EXCEPT !.on = FALSE] /\ UNCHANGED dmarx
       ELSE dmarx' = [dmarx EXCEPT !.on = FALSE] /\ UNCHANGED dmatx
    /\ phase' = "stopping" /\ tcie' = FALSE /\ ResumeI("MSG_OK")
    /\ UNCHANGED <<state, nbytes, rxdr, nack, err, hist>>

Serve == ServeError \/ ServeNack \/ ServeSent \/ ServeEnd

----------------------------------------------------------------------------
(* The controller, its streams and the device *)

\* A byte goes out; behind the last one the clock is held for the software.
HwSend ==
    /\ phase = "tx" /\ dmatx.on /\ nbytes > 0
    /\ nbytes' = nbytes - 1 /\ dmatx' = [dmatx EXCEPT !.left = @ - 1]
    /\ phase' = IF nbytes = 1 THEN "hold" ELSE "tx"
    /\ UNCHANGED <<calls, drv, dmarx, rxdr, nack, err, hist>>

\* A byte comes in and goes to the buffer, or stays in the register.
HwReceive ==
    /\ nbytes > 0 /\ rxdr = "empty"
    /\ nbytes' = nbytes - 1
    /\ \/ phase = "forced_rx" /\ phase' = "stopping"
       \/ phase = "rx" /\ phase' = IF nbytes = 1 THEN "hold" ELSE "rx"
    /\ IF dmarx.on /\ dmarx.left > 0
       THEN /\ dmarx' = [dmarx EXCEPT !.left = @ - 1] /\ UNCHANGED rxdr
            /\ got' = IF dmarx.buf = who THEN [got EXCEPT ![who] = @ + 1] ELSE got
       ELSE rxdr' = "new" /\ UNCHANGED <<dmarx, got>>
    /\ UNCHANGED <<calls, drv, dmatx, nack, err, who, failed, due>>

\* The device refuses a byte or its address: the controller sends the STOP.
HwNack ==
    /\ phase = "tx" \/ (phase = "rx" /\ nbytes = want[who])
    /\ nack' = TRUE /\ phase' = "stopping"
    /\ failed' = [failed EXCEPT ![who] = TRUE]
    /\ UNCHANGED <<calls, drv, dma, nbytes, rxdr, err, who, got, due>>

\* The same behind a STOP that was forced.
HwLateNack ==
    /\ phase \in {"forced_tx", "forced_rx"} /\ ~nack
    /\ nack' = TRUE /\ phase' = "stopping"
    /\ UNCHANGED <<calls, drv, dma, nbytes, rxdr, err, hist>>

\* A bus error or a lost arbitration ends the transfer.
HwError ==
    /\ phase \in {"tx", "rx"}
    /\ err' = TRUE /\ phase' = "stopping"
    /\ failed' = [failed EXCEPT ![who] = TRUE]
    /\ UNCHANGED <<calls, drv, dma, nbytes, rxdr, nack, who, got, due>>

\* The STOP is on the wire and the bus is free.
HwStop ==
    /\ phase \in {"forced_tx", "forced_rx", "stopping"}
    /\ phase' = "idle"
    /\ UNCHANGED <<calls, drv, dma, nbytes, rxdr, nack, err, hist>>

Hardware ==
    HwSend \/ HwReceive \/ HwNack \/ HwLateNack \/ HwError \/ HwStop

----------------------------------------------------------------------------
Step(t) ==
    Setup(t) \/ BusyTimeout(t) \/ Start(t) \/ Timeout(t) \/ Resume(t) \/ Return(t)

Next ==
    \/ Serve \/ Hardware
    \/ \E t \in Thread : Step(t) \/ \E n \in RxSizes : Enter(t, n)

\* Threads get on and timers go off; nothing is asked of the device.
Spec == Init /\ [][Next]_vars /\ WF_vars(Serve) /\ \A t \in Thread : WF_vars(Step(t))

----------------------------------------------------------------------------
TxStream == [on : BOOLEAN, left : Nat]
RxStream == [on : BOOLEAN, left : Nat, buf : Thread \cup {None}]

\* Counts of bytes never go below zero, and states are those of the driver.
TypeOK ==
    /\ {bus, thread, who} \subseteq Thread \cup {None}
    /\ pc \in [Thread -> {"idle", "setup", "busy", "wait", "woken", "return"}]
    /\ want \in [Thread -> RxSizes \cup {0}]
    /\ msg \in [Thread -> {"MSG_OK", "MSG_RESET", "MSG_TIMEOUT"}]
    /\ state \in {"READY", "ACTIVE_TX", "ACTIVE_RX", "LOCKED"}
    /\ tcie \in BOOLEAN /\ nack \in BOOLEAN /\ err \in BOOLEAN /\ due \in BOOLEAN
    /\ dmatx \in TxStream /\ dmarx \in RxStream
    /\ nbytes \in Nat
    /\ phase \in {"idle", "tx", "rx", "hold", "forced_tx", "forced_rx", "stopping"}
    /\ rxdr \in {"empty", "new", "old"}
    /\ got \in [Thread -> Nat] /\ failed \in [Thread -> BOOLEAN]

\* The reference names the suspended thread and nobody else, whoever of the
\* timer and the interrupt comes first: chThdResumeI never readies a thread
\* twice or one that has gone on to its next call.
RefValid == \A t \in Thread : thread = t <=> pc[t] = "wait"

\* A call gets the result of its own transfer: MSG_OK when both phases are
\* through, MSG_RESET when the device or the bus failed it, whatever interrupt
\* an earlier call that timed out left behind.
OwnResult ==
    \A t \in Thread : pc[t] = "return" =>
        /\ msg[t] = "MSG_OK" => dmatx.left = 0 /\ dmarx.left = 0 /\ ~failed[t]
        /\ msg[t] = "MSG_RESET" => failed[t]

\* The buffer of a call that succeeded holds the bytes of its own transfer, as
\* long as no timeout makes the restart due that the driver asks for.
OwnBytes ==
    \A t \in Thread :
        pc[t] = "return" /\ msg[t] = "MSG_OK" /\ ~due => got[t] = want[t]

\* A stream is enabled only while the call whose buffer it uses has not come
\* back: txbuf and rxbuf are not the caller's any more after that.
DmaInOwnCall ==
    /\ dmarx.on => pc[dmarx.buf] \in {"wait", "woken"}
    /\ dmatx.on => \E t \in Thread : pc[t] \in {"wait", "woken"}

\* No call leaves a transfer of its own running or the clock held.
BusLeftFree ==
    phase \in {"tx", "rx", "hold"} => pc[who] \in {"wait", "woken"}

\* One call is under way, that of the owner of the bus.
OneCall == \A t \in Thread : pc[t] # "idle" => bus = t

\* The streams are those of the call, one at a time, as the state of the
\* driver has it.
Streams ==
    /\ \A t \in Thread : pc[t] \in {"busy", "wait", "woken"} => dmarx.buf = t
    /\ dmatx.on => state = "ACTIVE_TX"
    /\ dmarx.on => state = "ACTIVE_RX" /\ dmarx.buf \in Thread

\* What the controller does is known to the driver, and an interrupt of a
\* failure that is pending belongs to a transfer that has ended.
Wire ==
    /\ phase # "idle" => who \in Thread
    /\ nack \/ err => phase \in {"stopping", "idle"}
    /\ phase = "tx" => state = "ACTIVE_TX" /\ nbytes = dmatx.left
    /\ phase = "rx" => state = "ACTIVE_RX" /\ dmarx.on /\ dmatx.left = 0
                       /\ dmarx.left \in {nbytes, nbytes - 1}
    /\ phase = "hold" => dmatx.left = 0
                         /\ (state = "ACTIVE_TX" \/ dmarx.left = 0)
    /\ phase \in {"tx", "rx", "hold"} => ~failed[who]

\* The transfer on the wire is that of the thread that waits.  One that was
\* answered finds the streams and the wire at rest, and what it was told true.
Told ==
    \A t \in Thread :
        /\ pc[t] \in {"setup", "busy"} => ~failed[t] /\ state = "ACTIVE_TX"
        /\ pc[t] = "wait" =>
              /\ who = t /\ phase \notin {"forced_tx", "forced_rx"}
              /\ nack \/ err => failed[t]
        /\ pc[t] = "woken" /\ msg[t] # "MSG_TIMEOUT" =>
              ~dmatx.on /\ ~dmarx.on /\ phase \notin {"tx", "rx", "hold"}
        /\ pc[t] \in {"woken", "return"} =>
              /\ msg[t] = "MSG_OK" =>
                    dmatx.left = 0 /\ dmarx.left = 0 /\ ~failed[t]
              /\ msg[t] = "MSG_RESET" => failed[t]

\* The inductive strengthening of RefValid, DmaInOwnCall, BusLeftFree and
\* OwnResult.
IInv ==
    /\ TypeOK /\ RefValid /\ DmaInOwnCall /\ BusLeftFree
    /\ OneCall /\ Streams /\ Wire /\ Told

\* i2c1_transmit returns, whatever the device does.
CallReturns == \A t \in Thread : pc[t] # "idle" ~> pc[t] = "idle"
=============================================================================
