--------------------------- MODULE I2CDriverProofs ---------------------------
(***************************************************************************)
(* The safety of I2CDriver for any number of threads and any sizes of      *)
(* transfers: IInv is inductive and gives RefValid, OwnResult,             *)
(* DmaInOwnCall and BusLeftFree, and Counts over it OwnBytes.  There is a  *)
(* lemma per action.  The steps with a thread woken from the handler, and  *)
(* those that touch both the streams and the wire, are split by the parts. *)
(***************************************************************************)
EXTENDS I2CDriver, TLAPS

\* A stream stays one when it is enabled, disabled or counted down.
LEMMA StreamSet ==
    /\ \A s \in TxStream, b \in BOOLEAN : [s EXCEPT !.on = b] \in TxStream
    /\ \A s \in RxStream, b \in BOOLEAN : [s EXCEPT !.on = b] \in RxStream
    /\ \A s \in RxStream, n \in Nat :
         [s EXCEPT !.left = n] \in RxStream /\ [s EXCEPT !.on = TRUE, !.left = n] \in RxStream
  BY DEF TxStream, RxStream

\* The driver as i2cStart leaves it.
LEMMA IInvInit == ASSUME Init PROVE IInv
<1>1. TypeOK
  <2>1. dmatx \in TxStream /\ dmarx \in RxStream
    BY DEF Init, TxStream, RxStream
  <2> QED BY <2>1 DEF Init, TypeOK
<1>2. RefValid
  BY I2CAssumption DEF Init, RefValid
<1>3. DmaInOwnCall /\ BusLeftFree /\ OneCall /\ Streams /\ Wire /\ Told
  BY DEF Init, DmaInOwnCall, BusLeftFree, OneCall, Streams, Wire, Told
<1> QED BY <1>1, <1>2, <1>3 DEF IInv

-----------------------------------------------------------------------------
(* The calling thread *)

\* i2cAcquireBus: no call was under way, so that streams and wire are at rest.
LEMMA IInvEnter ==
    ASSUME IInv, NEW t \in Thread, NEW n \in RxSizes, Enter(t, n) PROVE IInv'
  BY I2CAssumption, SMTT(30)
  DEF Enter, At, Goto, IInv, TypeOK, RefValid, DmaInOwnCall, BusLeftFree,
      OneCall, Streams, Wire, Told, TxStream, RxStream, dma, ctrl

\* The streams are set up for the caller, disabled.
LEMMA IInvSetup == ASSUME IInv, NEW t \in Thread, Setup(t) PROVE IInv'
<1>1. want[t] \in Nat
  <2>1. want[t] \in RxSizes \cup {0}
    BY DEF IInv, TypeOK
  <2>2. \A n \in RxSizes \cup {0} : n \in Nat
    BY I2CAssumption
  <2> QED BY <2>1, <2>2
<1>2. /\ dmatx' \in TxStream /\ dmarx' \in RxStream
      /\ ~dmatx'.on /\ ~dmarx'.on /\ dmarx'.buf = t
  BY <1>1, I2CAssumption DEF Setup, TxStream, RxStream
<1>3. phase \notin {"tx", "rx", "hold"}
  BY DEF Setup, At, IInv, OneCall, BusLeftFree, Wire
<1>4. TypeOK'
  BY <1>2 DEF Setup, Goto, IInv, TypeOK, drv, ctrl, hist
<1> QED
  BY <1>2, <1>3, <1>4
  DEF Setup, At, Goto, IInv, TypeOK, RefValid, DmaInOwnCall, BusLeftFree,
      OneCall, Streams, Wire, Told, drv, ctrl, hist

\* The busy loop gives up: nothing was started.
LEMMA IInvBusyTimeout == ASSUME IInv, NEW t \in Thread, BusyTimeout(t) PROVE IInv'
  BY SMTT(30)
  DEF BusyTimeout, WaitedLong, At, Goto, IInv, TypeOK, RefValid, DmaInOwnCall,
      BusLeftFree, OneCall, Streams, Wire, Told, TxStream, RxStream, dma, ctrl

\* The bus is given back.
LEMMA IInvReturn == ASSUME IInv, NEW t \in Thread, Return(t) PROVE IInv'
  BY SMTT(30)
  DEF Return, At, Goto, IInv, TypeOK, RefValid, DmaInOwnCall, BusLeftFree,
      OneCall, Streams, Wire, Told, TxStream, RxStream, drv, dma, ctrl, hist

\* The timer takes the reference back as it wakes the thread.
LEMMA IInvTimeout == ASSUME IInv, NEW t \in Thread, Timeout(t) PROVE IInv'
  BY I2CAssumption, SMTT(30)
  DEF Timeout, RefAtTimeout, Goto, IInv, TypeOK, RefValid, DmaInOwnCall,
      BusLeftFree, OneCall, Streams, Wire, Told, TxStream, RxStream, dma, ctrl, hist

\* The transfer starts on a free bus, with no interrupt left over.
LEMMA IInvStart == ASSUME IInv, NEW t \in Thread, Start(t) PROVE IInv'
<1> USE DEF Start, At, Goto, IInv
<1>1. TypeOK'
  <2>1. dmatx' \in TxStream /\ dmarx' \in RxStream
    BY StreamSet DEF TypeOK
  <2>2. tcie' \in BOOLEAN /\ nack' \in BOOLEAN /\ err' \in BOOLEAN /\ due' \in BOOLEAN
    BY Zenon DEF TypeOK
  <2>3. nbytes' \in Nat
    BY DEF TypeOK, TxStream
  <2> QED BY <2>1, <2>2, <2>3, SMTT(20) DEF TypeOK
<1>2. RefValid' /\ OneCall'
  BY I2CAssumption DEF TypeOK, RefValid, OneCall
<1>3. DmaInOwnCall' /\ BusLeftFree'
  BY SMTT(20) DEF TypeOK, DmaInOwnCall, BusLeftFree, OneCall, Streams, Wire, TxStream
<1>4. Streams'
  BY SMTT(20) DEF TypeOK, Streams, DmaInOwnCall, OneCall, Told, TxStream
<1>5. Wire'
  BY SMTT(20) DEF Busy, Irq, TypeOK, Wire, Told, TxStream
<1>6. Told'
  BY SMTT(20) DEF Irq, TypeOK, Told, OneCall
<1> QED BY <1>1, <1>2, <1>3, <1>4, <1>5, <1>6

\* After a timeout the streams are disabled and the STOP is forced; otherwise
\* Told has them at rest already.
LEMMA IInvResume == ASSUME IInv, NEW t \in Thread, Resume(t) PROVE IInv'
<1> USE DEF Resume, At, Goto, IInv, AbortDma, AbortPhase, DmaOff, dma
<1>1. TypeOK'
  <2>1. dmatx' \in TxStream /\ dmarx' \in RxStream
    BY StreamSet DEF TypeOK
  <2>2. tcie' \in BOOLEAN /\ nack' \in BOOLEAN /\ err' \in BOOLEAN /\ due' \in BOOLEAN
    BY Zenon DEF TypeOK
  <2> QED BY <2>1, <2>2, SMTT(20) DEF TypeOK, Stopped
<1>2. RefValid' /\ OneCall'
  BY DEF TypeOK, RefValid, OneCall
<1>3. DmaInOwnCall' /\ BusLeftFree'
  BY SMTT(20)
  DEF Stopped, TypeOK, DmaInOwnCall, BusLeftFree, OneCall, Streams, Wire, Told,
      TxStream, RxStream
<1>4. Streams'
  BY SMTT(20) DEF TypeOK, Streams, OneCall, Told, TxStream, RxStream
<1>5. Wire'
  BY SMTT(20) DEF Stopped, TypeOK, Wire, Told, TxStream, RxStream
<1>6. Told'
  BY SMTT(20) DEF Stopped, TypeOK, Told, OneCall, TxStream, RxStream
<1> QED BY <1>1, <1>2, <1>3, <1>4, <1>5, <1>6

(* The interrupt handler *)

\* What a wake-up from the handler does to the calls: the thread that waits, if
\* any still does, is woken with m, and nobody else.
LEMMA ResumeSteps ==
    ASSUME IInv, NEW m \in {"MSG_OK", "MSG_RESET"}, ResumeI(m)
    PROVE  /\ thread' = None /\ bus' = bus /\ want' = want
           /\ pc' = [t \in Thread |-> IF pc[t] = "wait" THEN "woken" ELSE pc[t]]
           /\ msg' = [t \in Thread |-> IF pc[t] = "wait" THEN m ELSE msg[t]]
<1>1. thread' = None /\ bus' = bus /\ want' = want
  BY DEF ResumeI
<1>2. CASE thread = None
  <2>1. \A t \in Thread : pc[t] # "wait"
    BY <1>2, I2CAssumption DEF IInv, RefValid
  <2> QED BY <1>1, <1>2, <2>1 DEF ResumeI, IInv, TypeOK
<1>3. CASE thread # None
  <2>1. thread \in Thread /\ \A t \in Thread : thread = t <=> pc[t] = "wait"
    BY <1>3 DEF IInv, TypeOK, RefValid
  <2> QED BY <1>1, <1>3, <2>1 DEF ResumeI, Goto, IInv, TypeOK
<1> QED BY <1>2, <1>3

\* The types of what ResumeSteps names.
LEMMA ResumeTypes ==
    ASSUME IInv, NEW m \in {"MSG_OK", "MSG_RESET"}, ResumeI(m)
    PROVE  /\ {bus, thread}' \subseteq Thread \cup {None}
           /\ pc' \in [Thread -> {"idle", "setup", "busy", "wait", "woken", "return"}]
           /\ want' \in [Thread -> RxSizes \cup {0}]
           /\ msg' \in [Thread -> {"MSG_OK", "MSG_RESET", "MSG_TIMEOUT"}]
  BY ResumeSteps DEF IInv, TypeOK

\* DmaOff disables both streams and leaves their counts and buffer alone.
LEMMA DmaOffSteps ==
    ASSUME TypeOK, DmaOff
    PROVE  /\ dmatx' \in TxStream /\ dmarx' \in RxStream
           /\ ~dmatx'.on /\ ~dmarx'.on /\ dmarx'.buf = dmarx.buf
           /\ dmatx'.left = dmatx.left /\ dmarx'.left = dmarx.left
  BY DEF DmaOff, TypeOK, TxStream, RxStream

\* A bus error: the transfer has ended, and the thread that waits is told.
LEMMA IInvServeError == ASSUME IInv, ServeError PROVE IInv'
<1>1. DmaOff /\ ResumeI("MSG_RESET")
  BY DEF ServeError
<1>2. TypeOK'
  BY <1>1, DmaOffSteps, ResumeTypes, ZenonT(30) DEF ServeError, IInv, TypeOK, hist
<1>3. RefValid' /\ OneCall'
  BY <1>1, ResumeSteps, I2CAssumption DEF IInv, RefValid, OneCall
<1>4. DmaInOwnCall' /\ BusLeftFree' /\ Streams' /\ Wire'
  BY <1>1, DmaOffSteps, ResumeSteps
  DEF ServeError, IInv, DmaInOwnCall, BusLeftFree, Streams, Wire, hist
<1>5. Told'
  BY <1>1, DmaOffSteps, ResumeSteps
  DEF ServeError, IInv, Told, Wire, hist
<1> QED BY <1>2, <1>3, <1>4, <1>5 DEF IInv

\* A refusal: the same, with a STOP that changes nothing.
LEMMA IInvServeNack == ASSUME IInv, ServeNack PROVE IInv'
<1>1. DmaOff /\ ResumeI("MSG_RESET")
  BY DEF ServeNack
<1>2. phase \in {"stopping", "idle"} /\ phase' = phase
  BY DEF ServeNack, Stopped, IInv, Wire
<1>3. TypeOK'
  BY <1>1, <1>2, DmaOffSteps, ResumeTypes DEF ServeNack, IInv, TypeOK, hist
<1>4. RefValid' /\ OneCall'
  BY <1>1, ResumeSteps, I2CAssumption DEF IInv, RefValid, OneCall
<1>5. DmaInOwnCall' /\ BusLeftFree' /\ Streams' /\ Wire'
  BY <1>1, <1>2, DmaOffSteps, ResumeSteps
  DEF ServeNack, IInv, DmaInOwnCall, BusLeftFree, Streams, Wire, hist
<1>6. Told'
  BY <1>1, <1>2, DmaOffSteps, ResumeSteps DEF ServeNack, IInv, Told, Wire, hist
<1> QED BY <1>3, <1>4, <1>5, <1>6 DEF IInv

\* The sending phase is over, the receiving one starts.
LEMMA IInvServeSent == ASSUME IInv, ServeSent PROVE IInv'
<1> DEFINE m == IF rxdr = "empty" THEN dmarx.left ELSE dmarx.left - 1
<1>1. dmarx.left \in Nat \ {0} /\ m \in Nat /\ m \in {dmarx.left, dmarx.left - 1}
  BY DEF ServeSent, ReceivePhase, IInv, TypeOK, RxStream
<1>2. /\ dmarx' = [dmarx EXCEPT !.on = TRUE, !.left = m] /\ dmarx' \in RxStream
      /\ dmarx'.on /\ dmarx'.left = m /\ dmarx'.buf = dmarx.buf
  BY <1>1 DEF ServeSent, IInv, TypeOK, RxStream
<1>3. /\ dmatx' = [dmatx EXCEPT !.on = FALSE] /\ dmatx' \in TxStream
      /\ ~dmatx'.on /\ dmatx'.left = dmatx.left
  BY DEF ServeSent, IInv, TypeOK, TxStream
<1>4. /\ phase = "hold" /\ phase' = "rx" /\ state' = "ACTIVE_RX"
      /\ nbytes' = dmarx.left /\ rxdr' = "empty"
      /\ UNCHANGED <<bus, pc, want, msg, thread, tcie, nack, err, who, got, failed, due>>
  BY DEF ServeSent, TransferComplete, RxCount, calls, hist
<1>5. who \in Thread /\ pc[who] \in {"wait", "woken"} /\ dmarx.buf = who
  BY <1>4 DEF IInv, Wire, BusLeftFree, Streams
<1>6. TypeOK'
  BY <1>1, <1>2, <1>3, <1>4 DEF IInv, TypeOK
<1>7. RefValid' /\ OneCall' /\ DmaInOwnCall' /\ BusLeftFree' /\ Streams'
  BY <1>2, <1>3, <1>4, <1>5
  DEF IInv, RefValid, OneCall, DmaInOwnCall, BusLeftFree, Streams
<1>8. Wire'
  BY <1>1, <1>2, <1>3, <1>4, <1>5 DEF IInv, Wire
<1>9. Told'
  BY <1>4, <1>5 DEF IInv, Told, OneCall
<1> QED BY <1>6, <1>7, <1>8, <1>9 DEF IInv

\* The last phase is over: both streams are off, nothing is left to move and
\* the transfer had not failed.
LEMMA IInvServeEnd == ASSUME IInv, ServeEnd PROVE IInv'
<1>1. ResumeI("MSG_OK") /\ phase = "hold" /\ ~nack /\ ~err
  BY DEF ServeEnd, TransferComplete
<1>2. /\ dmatx' \in TxStream /\ dmarx' \in RxStream
      /\ ~dmatx'.on /\ ~dmarx'.on /\ dmarx'.buf = dmarx.buf
      /\ dmatx'.left = dmatx.left /\ dmarx'.left = dmarx.left
  BY DEF ServeEnd, IInv, TypeOK, Streams, TxStream, RxStream
<1>3. dmatx.left = 0 /\ dmarx.left = 0
  BY <1>1 DEF ServeEnd, ReceivePhase, IInv, TypeOK, Wire, RxStream
<1>4. who \in Thread /\ ~failed[who]
  BY <1>1 DEF IInv, Wire
<1>5. TypeOK'
  BY <1>1, <1>2, ResumeTypes DEF ServeEnd, IInv, TypeOK, hist
<1>6. RefValid' /\ OneCall'
  BY <1>1, ResumeSteps, I2CAssumption DEF IInv, RefValid, OneCall
<1>7. DmaInOwnCall' /\ BusLeftFree' /\ Streams' /\ Wire'
  BY <1>1, <1>2, ResumeSteps
  DEF ServeEnd, IInv, DmaInOwnCall, BusLeftFree, Streams, Wire, hist
<1>8. Told'
  BY <1>1, <1>2, <1>3, <1>4, ResumeSteps DEF ServeEnd, IInv, Told, OneCall, hist
<1> QED BY <1>5, <1>6, <1>7, <1>8 DEF IInv

-----------------------------------------------------------------------------
(* The controller, its streams and the device *)

\* The last byte sent leaves the stream empty.
LEMMA IInvHwSend == ASSUME IInv, HwSend PROVE IInv'
  BY SMTT(30)
  DEF HwSend, IInv, TypeOK, RefValid, DmaInOwnCall, BusLeftFree, OneCall, Streams,
      Wire, Told, TxStream, RxStream, calls, drv, hist

\* Failures end the transfer, and are noted for the thread it belongs to.
LEMMA IInvHwFails ==
    ASSUME IInv, HwNack \/ HwLateNack \/ HwError \/ HwStop PROVE IInv'
<1>1. CASE HwNack
  BY <1>1, SMTT(30)
  DEF HwNack, IInv, TypeOK, RefValid, DmaInOwnCall, BusLeftFree, OneCall, Streams,
      Wire, Told, calls, drv, dma
<1>2. CASE HwLateNack
  BY <1>2, SMTT(30)
  DEF HwLateNack, IInv, TypeOK, RefValid, DmaInOwnCall, BusLeftFree, OneCall, Streams,
      Wire, Told, calls, drv, dma, hist
<1>3. CASE HwError
  BY <1>3, SMTT(30)
  DEF HwError, IInv, TypeOK, RefValid, DmaInOwnCall, BusLeftFree, OneCall, Streams,
      Wire, Told, calls, drv, dma
<1>4. CASE HwStop
  BY <1>4, SMTT(30)
  DEF HwStop, IInv, TypeOK, RefValid, DmaInOwnCall, BusLeftFree, OneCall, Streams,
      Wire, Told, calls, drv, dma, hist
<1> QED BY <1>1, <1>2, <1>3, <1>4

\* A byte goes to the buffer, or stays behind in the register; the stream
\* counts down with the controller, or is one ahead of it.
LEMMA IInvHwReceive == ASSUME IInv, HwReceive PROVE IInv'
<1>1. \/ phase = "forced_rx" /\ phase' = "stopping"
      \/ phase = "rx" /\ nbytes = 1 /\ phase' = "hold"
      \/ phase = "rx" /\ nbytes # 1 /\ phase' = "rx"
  BY DEF HwReceive
<1>2. /\ nbytes' = nbytes - 1 /\ nbytes \in Nat /\ nbytes > 0 /\ dmarx.left \in Nat
      /\ UNCHANGED <<calls, drv, dmatx, nack, err, who, failed, due>>
  BY DEF HwReceive, IInv, TypeOK, RxStream
<1>3. CASE dmarx.on /\ dmarx.left > 0
  <2>1. /\ dmarx' = [dmarx EXCEPT !.left = dmarx.left - 1] /\ dmarx' \in RxStream
        /\ dmarx'.on /\ dmarx'.buf = dmarx.buf /\ dmarx'.left = dmarx.left - 1
    BY <1>3 DEF HwReceive, IInv, TypeOK, RxStream
  <2>2. dmarx.buf \in Thread /\ pc[dmarx.buf] \in {"wait", "woken"}
    BY <1>3 DEF IInv, Streams, DmaInOwnCall
  <2>3. TypeOK'
    BY <1>3, <2>1, SMTT(20) DEF HwReceive, IInv, TypeOK, calls, drv
  <2>4. Wire' /\ BusLeftFree'
    BY <1>1, <1>2, <1>3, <2>1 DEF IInv, Wire, BusLeftFree, calls, drv
  <2>5. Told'
    BY <1>1, <1>2, <1>3, <2>1, <2>2 DEF IInv, Told, OneCall, calls, drv
  <2>6. Streams' /\ DmaInOwnCall' /\ OneCall' /\ RefValid'
    BY <1>2, <1>3, <2>1 DEF IInv, Streams, DmaInOwnCall, OneCall, RefValid, calls, drv
  <2> QED BY <2>3, <2>4, <2>5, <2>6 DEF IInv
<1>4. CASE ~(dmarx.on /\ dmarx.left > 0)
  <2>1. rxdr' = "new" /\ UNCHANGED <<dmarx, got>>
    BY <1>4 DEF HwReceive
  <2>2. TypeOK'
    BY <1>1, <1>2, <2>1 DEF IInv, TypeOK, calls, drv
  <2>3. Wire' /\ BusLeftFree'
    BY <1>1, <1>2, <1>4, <2>1 DEF IInv, Wire, BusLeftFree, calls, drv
  <2>4. Told' /\ Streams' /\ DmaInOwnCall' /\ OneCall' /\ RefValid'
    BY <1>1, <1>2, <2>1
    DEF IInv, Told, Streams, DmaInOwnCall, OneCall, RefValid, calls, drv
  <2> QED BY <2>2, <2>3, <2>4 DEF IInv
<1> QED BY <1>3, <1>4

-----------------------------------------------------------------------------
(* The theorems *)

\* IInv holds in every state of the driver, for any threads and sizes.
THEOREM Invariant == Spec => []IInv
<1>1. Init => IInv
  BY IInvInit
<1>2. IInv /\ [Next]_vars => IInv'
  <2> SUFFICES ASSUME IInv, [Next]_vars PROVE IInv'
    OBVIOUS
  <2>1. ASSUME NEW t \in Thread, Step(t) PROVE IInv'
    BY <2>1, IInvSetup, IInvBusyTimeout, IInvStart, IInvTimeout, IInvResume, IInvReturn
    DEF Step
  <2>2. ASSUME NEW t \in Thread, NEW n \in RxSizes, Enter(t, n) PROVE IInv'
    BY <2>2, IInvEnter
  <2>3. CASE Serve
    BY <2>3, IInvServeError, IInvServeNack, IInvServeSent, IInvServeEnd DEF Serve
  <2>4. CASE Hardware
    BY <2>4, IInvHwSend, IInvHwReceive, IInvHwFails DEF Hardware
  <2>5. CASE UNCHANGED vars
    BY <2>5
    DEF vars, calls, drv, dma, ctrl, hist, IInv, TypeOK, RefValid, DmaInOwnCall,
        BusLeftFree, OneCall, Streams, Wire, Told
  <2> QED BY <2>1, <2>2, <2>3, <2>4, <2>5 DEF Next
<1> QED BY <1>1, <1>2, PTL DEF Spec

\* Whoever of the timer and the interrupt comes first, the reference of the
\* driver names the thread that waits or nobody.
THEOREM ReferenceValid == Spec => []RefValid
<1>1. IInv => RefValid
  BY DEF IInv
<1> QED BY <1>1, Invariant, PTL

\* A call is told what became of its own transfer.
THEOREM ResultIsOwn == Spec => []OwnResult
<1>1. IInv => OwnResult
  BY DEF IInv, Told, OwnResult
<1> QED BY <1>1, Invariant, PTL

\* The DMA uses the buffers of a call only while the call lasts.
THEOREM DmaStaysInCall == Spec => []DmaInOwnCall
<1>1. IInv => DmaInOwnCall
  BY DEF IInv
<1> QED BY <1>1, Invariant, PTL

\* A call that came back has left nothing running on the bus.
THEOREM BusIsLeftFree == Spec => []BusLeftFree
<1>1. IInv => BusLeftFree
  BY DEF IInv
<1> QED BY <1>1, Invariant, PTL

\* The variables keep their types.
THEOREM TypeCorrect == Spec => []TypeOK
<1>1. IInv => TypeOK
  BY DEF IInv
<1> QED BY <1>1, Invariant, PTL

-----------------------------------------------------------------------------
(* The bytes *)

\* Every byte asked for is in the buffer of the call or still awaited by the
\* stream, and none is left in the register, as long as no call timed out.
Counts ==
    ~due =>
        /\ rxdr = "empty" /\ phase \notin {"forced_tx", "forced_rx"}
        /\ phase = "rx" => nbytes = dmarx.left
        /\ \A t \in Thread :
              /\ pc[t] = "setup" => got[t] = 0
              /\ pc[t] \in {"busy", "wait", "woken", "return"} =>
                    got[t] + dmarx.left = want[t]

\* What the calling threads do to the counts: only the set up writes one.
LEMMA CountsCalls ==
    ASSUME IInv, Counts, NEW t \in Thread,
           Step(t) \/ \E n \in RxSizes : Enter(t, n)
    PROVE  Counts'
<1> USE DEF At, Goto, IInv, TypeOK, Counts
<1>1. CASE \E n \in RxSizes : Enter(t, n)
  BY <1>1, I2CAssumption DEF Enter, OneCall, dma, ctrl
<1>2. CASE Setup(t)
  <2>1. want[t] \in Nat
    <3>1. want[t] \in RxSizes \cup {0} /\ \A n \in RxSizes \cup {0} : n \in Nat
      BY I2CAssumption
    <3> QED BY <3>1
  <2>2. /\ dmarx'.left = want[t] /\ pc[t] = "setup" /\ pc' = [pc EXCEPT ![t] = "busy"]
        /\ UNCHANGED <<want, phase, nbytes, rxdr, got, due>>
    BY <1>2 DEF Setup, ctrl, hist
  <2>3. phase # "rx" /\ \A u \in Thread : u # t => pc[u] = "idle"
    BY <1>2, <2>2 DEF OneCall, BusLeftFree, Wire
  <2> QED BY <2>1, <2>2, <2>3
<1>3. CASE BusyTimeout(t)
  BY <1>3 DEF BusyTimeout
<1>4. CASE Start(t)
  BY <1>4 DEF Start
<1>5. CASE Timeout(t)
  BY <1>5 DEF Timeout, dma, ctrl, hist
<1>6. CASE Resume(t)
  BY <1>6 DEF Resume, dma
<1>7. CASE Return(t)
  BY <1>7 DEF Return, dma, ctrl, hist
<1> QED BY <1>1, <1>2, <1>3, <1>4, <1>5, <1>6, <1>7 DEF Step

\* A wake-up from the handler starts no call and ends none.
LEMMA ResumeCounts ==
    ASSUME IInv, Counts, NEW m \in {"MSG_OK", "MSG_RESET"}, ResumeI(m),
           UNCHANGED <<rxdr, got, due>>, dmarx'.left = dmarx.left,
           phase' \in {phase, "stopping", "idle"}, phase' = "rx" => nbytes' = nbytes
    PROVE  Counts'
  BY ResumeSteps DEF IInv, TypeOK, Counts

\* The handler: the controller is told to get what the stream still awaits.
LEMMA CountsServe == ASSUME IInv, Counts, Serve PROVE Counts'
<1>1. CASE ServeError
  <2>1. ResumeI("MSG_RESET") /\ dmarx'.left = dmarx.left
    BY <1>1, DmaOffSteps DEF ServeError, IInv
  <2> QED BY <1>1, <2>1, ResumeCounts DEF ServeError, hist
<1>2. CASE ServeNack
  <2>1. ResumeI("MSG_RESET") /\ dmarx'.left = dmarx.left
    BY <1>2, DmaOffSteps DEF ServeNack, IInv
  <2>2. phase' = phase
    BY <1>2 DEF ServeNack, Stopped, IInv, Wire
  <2> QED BY <1>2, <2>1, <2>2, ResumeCounts DEF ServeNack, hist
<1>3. CASE ServeSent
  <2>1. ~due => dmarx'.left = dmarx.left
    BY <1>3 DEF ServeSent, Counts, IInv, TypeOK, RxStream
  <2> QED
    BY <1>3, <2>1 DEF ServeSent, RxCount, Counts, IInv, TypeOK, calls, hist
<1>4. CASE ServeEnd
  <2>1. ResumeI("MSG_OK") /\ dmarx'.left = dmarx.left /\ phase' = "stopping"
    BY <1>4 DEF ServeEnd, IInv, TypeOK, RxStream
  <2> QED BY <1>4, <2>1, ResumeCounts DEF ServeEnd, hist
<1> QED BY <1>1, <1>2, <1>3, <1>4 DEF Serve

\* A byte that comes in goes from the stream's count to the call's.
LEMMA CountsHardware == ASSUME IInv, Counts, Hardware PROVE Counts'
<1>1. CASE HwReceive
  <2>1. CASE phase = "rx" /\ ~due
    <3>1. who \in Thread /\ pc[who] \in {"wait", "woken"} /\ dmarx.buf = who
      BY <2>1 DEF IInv, Wire, BusLeftFree, Streams
    <3>2. dmarx.on /\ dmarx.left = nbytes /\ nbytes \in Nat /\ nbytes > 0
      BY <1>1, <2>1 DEF HwReceive, IInv, TypeOK, Wire, Counts
    <3>3. /\ dmarx'.left = dmarx.left - 1 /\ nbytes' = nbytes - 1
          /\ got' = [got EXCEPT ![who] = got[who] + 1]
          /\ phase' \in {"rx", "hold"}
          /\ UNCHANGED <<calls, rxdr, due>>
      BY <1>1, <2>1, <3>1, <3>2 DEF HwReceive, IInv, TypeOK, RxStream
    <3>4. \A t \in Thread : t # who => pc[t] = "idle"
      BY <3>1 DEF IInv, OneCall
    <3>5. got \in [Thread -> Nat] /\ UNCHANGED <<pc, want>>
      BY <3>3 DEF IInv, TypeOK, calls
    <3> QED BY <2>1, <3>1, <3>2, <3>3, <3>4, <3>5 DEF Counts
  <2>2. CASE due
    BY <1>1, <2>2 DEF HwReceive, Counts
  <2> QED BY <1>1, <2>1, <2>2 DEF HwReceive, Counts
<1>2. CASE HwSend \/ HwNack \/ HwLateNack \/ HwError \/ HwStop
  BY <1>2
  DEF HwSend, HwNack, HwLateNack, HwError, HwStop, Counts, IInv, Wire, calls, dma, drv, hist
<1> QED BY <1>1, <1>2 DEF Hardware

\* The buffer of a call that succeeded holds every byte it asked for, all of
\* its own transfer, unless a timeout made the restart due that the driver
\* asks for.
THEOREM BytesAreOwn == Spec => []OwnBytes
<1>1. Init => Counts
  BY DEF Init, Counts
<1>2. IInv /\ Counts /\ [Next]_vars => Counts'
  <2> SUFFICES ASSUME IInv, Counts, [Next]_vars PROVE Counts'
    OBVIOUS
  <2>1. CASE UNCHANGED vars
    BY <2>1 DEF vars, calls, dma, ctrl, hist, Counts
  <2> QED BY <2>1, CountsCalls, CountsServe, CountsHardware DEF Next
<1>3. IInv /\ Counts => OwnBytes
  <2> SUFFICES ASSUME IInv, Counts, ~due, NEW t \in Thread,
                      pc[t] = "return", msg[t] = "MSG_OK"
               PROVE  got[t] = want[t]
    BY DEF OwnBytes
  <2>1. dmarx.left = 0 /\ got[t] + dmarx.left = want[t] /\ got[t] \in Nat
    BY DEF IInv, TypeOK, Told, Counts
  <2> QED BY <2>1
<1> QED BY <1>1, <1>2, <1>3, Invariant, PTL DEF Spec
=============================================================================
