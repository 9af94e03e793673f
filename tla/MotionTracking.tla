--------------------------- MODULE MotionTracking ---------------------------
(***************************************************************************)
(* The whole program: main, which sets up the sensor and creates the       *)
(* threads, the serial thread, which takes commands and prints, and the    *)
(* MPU thread, which samples the sensor; the three mutexes of the program  *)
(* and the one of the I2C driver, on the kernel of ChKernel; the I2C       *)
(* controller, whose DMA reads the shared buffer while the calling thread  *)
(* sleeps; and the timers and interrupts that wake the threads.            *)
(*                                                                         *)
(* The two threads have the same priority and the kernel has no time       *)
(* slices, so that a switch between them takes a call that blocks: this is *)
(* in the kernel, not assumed.  A step is the code of the running thread   *)
(* from one access to shared state to the next.                            *)
(***************************************************************************)
EXTENDS ChKernel, FiniteSets

CONSTANTS
    Commands,      \* the commands the desktop sends in this instance
    CounterLimit,  \* SERIAL_COUNTER_LIMIT (5), rounds between two outputs
    MaxFaults,     \* bound of the model: transfers that go wrong
    Updates        \* bound of the model: updates are numbered modulo this

\* The threads and mutexes of this program.
ASSUME ThreadsAssumption == Thread = {"main", "serial", "mpu", "idle"}
ASSUME MutexesAssumption == Mutex = {"print", "ser", "acc", "bus"}

NoCommand == "none"

\* IDLEPRIO, NORMALPRIO, NORMALPRIO + 1 and HIGHPRIO - 3.
IdlePrio   == 0
NormalPrio == 1
CreatePrio == 2
HighPrio   == 3

MSG_OK      == 0
MSG_TIMEOUT == -1
MSG_RESET   == -2

\* Registers of the sensor (mpu.h).
ACCEL_CONFIG   == 28
ACCEL_CONFIG_2 == 29
PWR_MGMT_1     == 107
PWR_MGMT_2     == 108
WHO_AM_I       == 117
ACC_AXIS == <<59, 61, 63>>

Ranges == {0, 8, 16, 24}
RangeOf == [r02 |-> 0, r04 |-> 8, r08 |-> 16, r16 |-> 24]
AllCommands == DOMAIN RangeOf \cup {"str", "stp", "red", "reg", "other"}

ASSUME CommandsAssumption == Commands \subseteq AllCommands
ASSUME LimitAssumption    == CounterLimit \in Nat
ASSUME FaultsAssumption   == MaxFaults \in Nat
ASSUME UpdatesAssumption  == Updates \in Nat \ {0}

VARIABLES
    k,       \* the kernel
    pc,      \* per thread, where it is and where its callers go on
    res,     \* per thread, what i2c1_transmit returned
    i2c,     \* I2CD1 and the controller
    txbuf,   \* the buffer of mpu.c, shared by all its functions
    sensor,  \* the registers of the sensor that can be written
    mpu,     \* the other statics of mpu.c and the locals of its thread
    ser,     \* the statics of serialcomm.c and the locals of its thread
    faults   \* transfers that went wrong so far

vars == <<k, pc, res, i2c, txbuf, sensor, mpu, ser, faults>>
bus  == <<res, i2c, sensor, faults>>
data == <<bus, txbuf, mpu, ser>>

Init ==
    /\ k = [cur   |-> "main",
            ready |-> <<"idle">>,
            st    |-> [main |-> "CURRENT", idle |-> "READY",
                       serial |-> "WTSTART", mpu |-> "WTSTART"],
            prio  |-> [main |-> NormalPrio, idle |-> IdlePrio,
                       serial |-> CreatePrio, mpu |-> CreatePrio],
            real  |-> [main |-> NormalPrio, idle |-> IdlePrio,
                       serial |-> CreatePrio, mpu |-> CreatePrio],
            held  |-> [t \in Thread |-> <<>>],
            own   |-> [m \in Mutex |-> NoThread],
            wq    |-> [m \in Mutex |-> <<>>]]
    /\ pc = [main   |-> <<"p_lock", "p_lock", "p_lock", "b_init">>,
             serial |-> <<"s_start">>, mpu |-> <<"m_start">>, idle |-> <<"idle">>]
    /\ res = [t \in Thread |-> MSG_OK]
    /\ i2c = [state |-> "STOP", thread |-> NoThread, wire |-> <<>>]
    /\ txbuf = <<0, 0>>
    /\ sensor = (ACCEL_CONFIG :> 0) @@ (ACCEL_CONFIG_2 :> 0)
    /\ mpu = [enable |-> TRUE, scale |-> 0, axis |-> 1,
              got |-> [i \in 1 .. 3 |-> MSG_OK],
              gen |-> 1 % Updates, row |-> [i \in 1 .. 3 |-> 0],
              x |-> <<0, 0>>, y |-> <<0, 0>>, z |-> <<0, 0>>]
    /\ ser = [enable |-> TRUE, option |-> 0, count |-> 0, cmd |-> NoCommand,
              shown |-> <<>>]
    /\ faults = 0
-----------------------------------------------------------------------------
(* Steps and calls.  The head of pc[t] is where t is; the rest is where it *)
(* returns to.                                                             *)

At(t, l) == Head(pc[t]) = l
Runs(t, l) == k.cur = t /\ At(t, l)

Goto(t, ls) == pc' = [pc EXCEPT ![t] = ls \o Tail(@)]
Return(t)   == Goto(t, <<>>)

LockAt(t, l, m, next) ==
    /\ Runs(t, l) /\ k' = Lock(k, m) /\ Goto(t, next)
    /\ UNCHANGED data
UnlockAt(t, l, m, next) ==
    /\ Runs(t, l) /\ k' = Unlock(k, m) /\ Goto(t, next)
    /\ UNCHANGED data
SleepAt(t, l, next) ==
    /\ Runs(t, l) /\ k' = GoSleepS(k, "SLEEPING") /\ Goto(t, next)
-----------------------------------------------------------------------------
(* mtprint.c: serial_print, and chprintf, which writes without the mutex   *)

PrintLock(t)   == LockAt(t, "p_lock", "print", <<"p_write">>)
PrintUnlock(t) == UnlockAt(t, "p_unlock", "print", <<>>)

\* The bytes fit in the output queue, or the thread sleeps on it.
Write(t) ==
    /\ \/ Runs(t, "p_write") /\ Goto(t, <<"p_unlock">>)
       \/ Runs(t, "f_write") /\ Return(t)
    /\ \/ UNCHANGED k
       \/ k' = GoSleepS(k, "QUEUED")
    /\ UNCHANGED data
-----------------------------------------------------------------------------
(* mti2c1.c: i2c1_transmit, and i2cMasterTransmitTimeout under it          *)

\* The bytes i2c1_transmit is asked to send, known from where it returns to:
\* a register to read from, or one to write with its value.
SendSize(t) == IF pc[t][2] \in {"a_low", "a_value", "b_whoami"} THEN 1 ELSE 2

AcquireBus(t) == LockAt(t, "x_acquire", "bus", <<"x_start">>)

\* The transfer is set up and the thread sleeps until it is over.
StartTransfer(t) ==
    /\ Runs(t, "x_start")
    /\ i2c' = [state |-> "ACTIVE", thread |-> t, wire |-> <<>>]
    /\ k' = GoSleepS(k, "SUSPENDED")
    /\ Goto(t, <<"x_done">>)
    /\ UNCHANGED <<res, sensor, faults, txbuf, mpu, ser>>

\* The bus stays busy for 50 ms: the thread gives up, having spun.
BusyTimeout(t) ==
    /\ Runs(t, "x_start") /\ faults < MaxFaults
    /\ faults' = faults + 1
    /\ i2c' = [i2c EXCEPT !.state = "ACTIVE"]
    /\ res' = [res EXCEPT ![t] = MSG_TIMEOUT]
    /\ Goto(t, <<"x_done">>)
    /\ UNCHANGED <<k, sensor, txbuf, mpu, ser>>

EndTransfer(t) ==
    /\ Runs(t, "x_done")
    /\ i2c' = [i2c EXCEPT !.state =
                  IF res[t] = MSG_TIMEOUT THEN "LOCKED" ELSE "READY"]
    /\ Goto(t, <<"x_release">>)
    /\ UNCHANGED <<k, res, sensor, faults, txbuf, mpu, ser>>

ReleaseBus(t) == UnlockAt(t, "x_release", "bus", <<>>)
-----------------------------------------------------------------------------
(* The controller: the DMA and the interrupts of a transfer                *)

\* The DMA takes the next byte of the caller's buffer, as it is now.
DmaFetch ==
    /\ i2c.thread # NoThread
    /\ Len(i2c.wire) < SendSize(i2c.thread)
    /\ i2c' = [i2c EXCEPT !.wire = Append(@, txbuf[Len(@) + 1])]
    /\ UNCHANGED <<k, pc, res, sensor, faults, txbuf, mpu, ser>>

\* The transfer of the sleeping thread ends with r, and wakes it.
WakeTransfer(r) ==
    /\ k' = WakeupS(k, i2c.thread)
    /\ res' = [res EXCEPT ![i2c.thread] = r]
    /\ i2c' = [i2c EXCEPT !.thread = NoThread, !.wire = <<>>]
    /\ UNCHANGED <<pc, txbuf, mpu, ser>>

\* The sensor has all the bytes: it stores the second in the register the
\* first names, or answers from that register on.
SensorActs ==
    LET wire == i2c.wire
    IN  /\ Len(wire) = SendSize(i2c.thread)
        /\ sensor' = [r \in DOMAIN sensor |->
              IF Len(wire) = 2 /\ wire[1] = r THEN wire[2] ELSE sensor[r]]

TransferComplete ==
    /\ i2c.thread # NoThread
    /\ SensorActs /\ WakeTransfer(MSG_OK)
    /\ UNCHANGED faults

\* A NACK or a bus error, or 100 ticks without the end of the transfer, whether
\* the sensor has acted or not.
TransferFails(r) ==
    /\ i2c.thread # NoThread /\ faults < MaxFaults
    /\ faults' = faults + 1
    /\ SensorActs \/ UNCHANGED sensor
    /\ WakeTransfer(r)

\* Variant: the driver keeps the reference to the thread it has woken.
TransferError_KeepThread ==
    /\ i2c.thread # NoThread /\ faults < MaxFaults
    /\ faults' = faults + 1
    /\ k' = WakeupS(k, i2c.thread)
    /\ res' = [res EXCEPT ![i2c.thread] = MSG_RESET]
    /\ UNCHANGED <<i2c, sensor, pc, txbuf, mpu, ser>>

TransferError   == TransferFails(MSG_RESET)
TransferTimeout == TransferFails(MSG_TIMEOUT)
-----------------------------------------------------------------------------
(* mpu.c: mpu_acc_range                                                    *)

\* The range it is called with.
RangeArg(t) == IF t = "main" THEN 24 ELSE RangeOf[ser.cmd]

\* The shared buffer is written before the mutex is taken.
RangeFill(t) ==
    /\ Runs(t, "r_txbuf")
    /\ txbuf' = <<ACCEL_CONFIG, RangeArg(t)>>
    /\ Goto(t, <<"r_lock">>)
    /\ UNCHANGED <<k, bus, mpu, ser>>

RangeLock(t) == LockAt(t, "r_lock", "acc", <<"r_scale">>)

RangeScale(t) ==
    /\ Runs(t, "r_scale")
    /\ mpu' = [mpu EXCEPT !.scale = RangeArg(t)]
    /\ Goto(t, <<"x_acquire", "r_check">>)
    /\ UNCHANGED <<k, bus, txbuf, ser>>

\* On failure it returns with the mutex in hand.
RangeCheck(t) ==
    /\ Runs(t, "r_check")
    /\ IF res[t] # MSG_OK THEN Return(t) ELSE Goto(t, <<"r_unlock">>)
    /\ UNCHANGED <<k, data>>

RangeUnlock(t) == UnlockAt(t, "r_unlock", "acc", <<>>)

\* The calls of the procedures above, whoever makes them.
Procedures(t) ==
    \/ PrintLock(t) \/ PrintUnlock(t) \/ Write(t)
    \/ AcquireBus(t) \/ StartTransfer(t) \/ BusyTimeout(t)
    \/ EndTransfer(t) \/ ReleaseBus(t)
    \/ RangeFill(t) \/ RangeLock(t) \/ RangeScale(t) \/ RangeCheck(t)
    \/ RangeUnlock(t)
-----------------------------------------------------------------------------
(* main.c, with mti2c_init and mpu_init                                    *)

InitBus ==
    /\ Runs("main", "b_init")
    /\ i2c' = [i2c EXCEPT !.state = "READY"]
    /\ Goto("main", <<"b_reset">>)
    /\ UNCHANGED <<k, res, sensor, faults, txbuf, mpu, ser>>

\* One register of the sensor is set up: reset, power, then bandwidth.
Configure(l, r, v, next) ==
    /\ Runs("main", l)
    /\ txbuf' = <<r, v>>
    /\ Goto("main", <<"x_acquire">> \o next)
    /\ UNCHANGED <<k, bus, mpu, ser>>

Reset     == Configure("b_reset", PWR_MGMT_1, 160, <<"b_power">>)
Power     == Configure("b_power", PWR_MGMT_2, 0, <<"p_lock", "b_width">>)
Bandwidth == Configure("b_width", ACCEL_CONFIG_2, 10, <<"p_lock", "b_range">>)

BootRange ==
    /\ Runs("main", "b_range")
    /\ Goto("main", <<"r_txbuf", "p_lock", "b_who">>)
    /\ UNCHANGED <<k, bus, txbuf, mpu, ser>>

WhoAmI ==
    /\ Runs("main", "b_who")
    /\ txbuf' = [txbuf EXCEPT ![1] = WHO_AM_I]
    /\ Goto("main", <<"x_acquire", "b_whoami">>)
    /\ UNCHANGED <<k, bus, mpu, ser>>

WhoAmIPrint ==
    /\ Runs("main", "b_whoami")
    /\ Goto("main", <<IF res["main"] = MSG_OK THEN "f_write" ELSE "p_lock",
                      "b_serial">>)
    /\ UNCHANGED <<k, data>>

\* chThdCreateStatic: the new thread has the higher priority and runs at once.
Create(l, t, next) ==
    /\ Runs("main", l)
    /\ k' = WakeupS(k, t)
    /\ Goto("main", <<"p_lock", next>>)
    /\ UNCHANGED data

MainSleep == SleepAt("main", "b_loop", <<"b_loop">>) /\ UNCHANGED data

Main == \/ InitBus \/ Reset \/ Power \/ Bandwidth \/ BootRange
        \/ WhoAmI \/ WhoAmIPrint
        \/ Create("b_serial", "serial", "b_mpu")
        \/ Create("b_mpu", "mpu", "b_loop")
        \/ MainSleep
-----------------------------------------------------------------------------
(* mpu.c: mpum_thread, with mpu_acc_update and mpu_read_acc_axis           *)

\* Variant: the thread keeps the priority it was created with.
MpuStart_Base ==
    Runs("mpu", "m_start") /\ Goto("mpu", <<"m_lock">>) /\ UNCHANGED <<k, data>>

MpuStart ==
    /\ Runs("mpu", "m_start")
    /\ k' = SetPriority(k, HighPrio)
    /\ Goto("mpu", <<"m_lock">>)
    /\ UNCHANGED data

MpuLock == LockAt("mpu", "m_lock", "acc", <<"m_test">>)

MpuTest ==
    /\ Runs("mpu", "m_test")
    /\ Goto("mpu", <<IF mpu.enable THEN "a_high" ELSE "m_unlock">>)
    /\ UNCHANGED <<k, data>>

ReadHigh ==
    /\ Runs("mpu", "a_high")
    /\ txbuf' = [txbuf EXCEPT ![1] = ACC_AXIS[mpu.axis]]
    /\ Goto("mpu", <<"x_acquire", "a_low">>)
    /\ UNCHANGED <<k, bus, mpu, ser>>

ReadLow ==
    /\ Runs("mpu", "a_low") /\ res["mpu"] = MSG_OK
    /\ txbuf' = [txbuf EXCEPT ![1] = @ + 1]
    /\ Goto("mpu", <<"x_acquire", "a_value">>)
    /\ UNCHANGED <<k, bus, mpu, ser>>

\* Variant: the axis does not start over.
AxisDone_NoReset ==
    /\ \/ Runs("mpu", "a_low") /\ res["mpu"] # MSG_OK
       \/ Runs("mpu", "a_value")
    /\ mpu' = [mpu EXCEPT !.got[mpu.axis] = res["mpu"],
                          !.row[mpu.axis] = IF res["mpu"] = MSG_OK THEN mpu.gen
                                            ELSE mpu.row[mpu.axis],
                          !.axis = @ + 1]
    /\ Goto("mpu", <<IF mpu.axis < 3 THEN "a_high" ELSE "m_check">>)
    /\ UNCHANGED <<k, bus, txbuf, ser>>

\* An axis is done: its row value is of this update with both bytes, and stays
\* that of an older one with a failed transfer.  On to the next, or to the
\* check.
AxisDone ==
    /\ \/ Runs("mpu", "a_low") /\ res["mpu"] # MSG_OK
       \/ Runs("mpu", "a_value")
    /\ mpu' = [mpu EXCEPT !.got[mpu.axis] = res["mpu"],
                          !.row[mpu.axis] = IF res["mpu"] = MSG_OK THEN mpu.gen
                                            ELSE mpu.row[mpu.axis],
                          !.axis = IF @ < 3 THEN @ + 1 ELSE 1]
    /\ Goto("mpu", <<IF mpu.axis < 3 THEN "a_high" ELSE "m_check">>)
    /\ UNCHANGED <<k, bus, txbuf, ser>>

\* (res[0] & res[1] & res[2]) != MSG_OK: the AND of the messages is zero as
\* soon as one of them is, -1 and -2 having a bit in common.
AllFailed == \A i \in 1 .. 3 : mpu.got[i] # MSG_OK

\* Variant: an axis that failed is left out, the others are converted.
UpdateCheck_Partial ==
    /\ Runs("mpu", "m_check")
    /\ Goto("mpu", <<IF AllFailed THEN "m_unlock"
                     ELSE IF mpu.got[1] # MSG_OK THEN "m_y" ELSE "m_x">>)
    /\ mpu' = [mpu EXCEPT !.got = [i \in 1 .. 3 |-> MSG_OK]]
    /\ UNCHANGED <<k, bus, txbuf, ser>>

UpdateCheck ==
    /\ Runs("mpu", "m_check")
    /\ Goto("mpu", <<IF AllFailed THEN "m_unlock" ELSE "m_x">>)
    /\ mpu' = [mpu EXCEPT !.got = [i \in 1 .. 3 |-> MSG_OK]]
    /\ UNCHANGED <<k, bus, txbuf, ser>>

\* Conversion, one axis at a time; z is in two steps, as ACC_Z_CENTER comes
\* off later.  A value is the number of the update that converts it and that of
\* the update its row value was read in.
Convert(l, next) ==
    /\ Runs("mpu", l) /\ Goto("mpu", <<next>>)
    /\ UNCHANGED <<k, bus, txbuf, ser>>

Uncentred == -1

ConvertX == Convert("m_x", "m_y") /\ mpu' = [mpu EXCEPT !.x = <<mpu.gen, mpu.row[1]>>]
ConvertY == Convert("m_y", "m_z") /\ mpu' = [mpu EXCEPT !.y = <<mpu.gen, mpu.row[2]>>]
ConvertZ == Convert("m_z", "m_center")
            /\ mpu' = [mpu EXCEPT !.z = <<Uncentred, mpu.row[3]>>]
Center   == Convert("m_center", "m_unlock")
            /\ mpu' = [mpu EXCEPT !.z = <<mpu.gen, mpu.row[3]>>,
                                  !.gen = (@ + 1) % Updates]

\* Variant: the thread goes to sleep with the mutex.
MpuUnlock_Dropped ==
    Runs("mpu", "m_unlock") /\ Goto("mpu", <<"m_sleep">>) /\ UNCHANGED <<k, data>>

MpuUnlock == UnlockAt("mpu", "m_unlock", "acc", <<"m_sleep">>)
MpuSleep  == SleepAt("mpu", "m_sleep", <<"m_lock">>) /\ UNCHANGED data

Mpu == \/ MpuStart \/ MpuLock \/ MpuTest \/ ReadHigh \/ ReadLow \/ AxisDone
       \/ UpdateCheck \/ ConvertX \/ ConvertY \/ ConvertZ
       \/ Center \/ MpuUnlock \/ MpuSleep
-----------------------------------------------------------------------------
(* serialcomm.c: serialcomm_thread, with serial_read of mtprint.c and the  *)
(* functions of mpu.c it calls                                             *)

SerialStart ==
    /\ Runs("serial", "s_start") /\ Goto("serial", <<"s_read">>)
    /\ k' = GoSleepS(SetPriority([k EXCEPT !.own["ser"] = NoThread,
                                           !.wq["ser"] = <<>>], HighPrio),
                     "SLEEPING")
    /\ UNCHANGED data

ReadLock == LockAt("serial", "s_read", "print", <<"s_take">>)

\* The bytes of a command are there, or the thread sleeps on the queue.
ReadTake ==
    /\ Runs("serial", "s_take") /\ Goto("serial", <<"s_got">>)
    /\ \/ /\ UNCHANGED k
          /\ \E c \in Commands : ser' = [ser EXCEPT !.cmd = c]
       \/ /\ k' = GoSleepS(k, "QUEUED")
          /\ ser' = [ser EXCEPT !.cmd = NoCommand]
    /\ UNCHANGED <<bus, txbuf, mpu>>

ReadUnlock == UnlockAt("serial", "s_got", "print", <<"s_check">>)

\* commad_check: prints first where it prints, then the rest of the command.
CommandCheck ==
    /\ Runs("serial", "s_check")
    /\ Goto("serial",
         CASE ser.cmd = NoCommand        -> <<"s_out">>
           [] ser.cmd \in {"str", "stp"} -> <<"p_lock", "c_set">>
           [] ser.cmd \in {"red", "reg"} -> <<"c_option">>
           [] ser.cmd \in DOMAIN RangeOf -> <<"c_range">>
           [] OTHER -> <<"p_lock", "p_lock", "p_lock", "s_out">>)
    /\ UNCHANGED <<k, data>>

\* Variant: the flag is set without the mutex.
ControlLock_Bare ==
    /\ Runs("serial", "c_set") /\ Goto("serial", <<"c_own">>)
    /\ mpu' = [mpu EXCEPT !.enable = (ser.cmd = "str")]
    /\ UNCHANGED <<k, bus, txbuf, ser>>

\* serial_set_control, under the mutex of mpu.c.
ControlLock == LockAt("serial", "c_set", "acc", <<"c_enable">>)
ControlSet ==
    /\ Runs("serial", "c_enable") /\ Goto("serial", <<"c_unset">>)
    /\ mpu' = [mpu EXCEPT !.enable = (ser.cmd = "str")]
    /\ UNCHANGED <<k, bus, txbuf, ser>>
\* Variant: serial_set_control returns with the mutex.
ControlUnlock_Dropped ==
    Runs("serial", "c_unset") /\ Goto("serial", <<"c_own">>) /\ UNCHANGED <<k, data>>

ControlUnlock == UnlockAt("serial", "c_unset", "acc", <<"c_own">>)

\* What commad_check does to its own statics, under the mutex of the file.
OwnLock ==
    \/ LockAt("serial", "c_own", "ser", <<"c_flag">>)
    \/ LockAt("serial", "c_option", "ser", <<"c_format">>)
    \/ LockAt("serial", "c_range", "ser", <<"c_call">>)
\* Variant: both commands clear the flag.
OwnEnable_Clear ==
    /\ Runs("serial", "c_flag") /\ Goto("serial", <<"c_unlock">>)
    /\ ser' = [ser EXCEPT !.enable = FALSE]
    /\ UNCHANGED <<k, bus, txbuf, mpu>>
OwnEnable ==
    /\ Runs("serial", "c_flag") /\ Goto("serial", <<"c_unlock">>)
    /\ ser' = [ser EXCEPT !.enable = (ser.cmd = "str")]
    /\ UNCHANGED <<k, bus, txbuf, mpu>>
OwnOption ==
    /\ Runs("serial", "c_format") /\ Goto("serial", <<"c_unlock">>)
    /\ ser' = [ser EXCEPT !.option = IF ser.cmd = "red" THEN 1 ELSE 0]
    /\ UNCHANGED <<k, bus, txbuf, mpu>>
OwnRange ==
    /\ Runs("serial", "c_call") /\ Goto("serial", <<"r_txbuf", "c_unlock">>)
    /\ UNCHANGED <<k, bus, txbuf, mpu, ser>>
OwnUnlock == UnlockAt("serial", "c_unlock", "ser", <<"s_out">>)

\* The output section: in degrees through serial_read_accaxis_d, which takes
\* the mutex of mpu.c, or in g's through serial_read_accaxis_g, which takes
\* none.
OutputLock == LockAt("serial", "s_out", "ser", <<"s_test">>)
OutputTest ==
    /\ Runs("serial", "s_test")
    /\ Goto("serial", <<IF ~(ser.enable /\ ser.count > CounterLimit)
                        THEN "s_unlock"
                        ELSE IF ser.option = 1 THEN "d_lock" ELSE "g_read">>)
    /\ UNCHANGED <<k, data>>

DegreesLock == LockAt("serial", "d_lock", "acc", <<"d_read">>)

\* One axis is copied, the one after those copied already.
CopyAxis(l, n, next) ==
    /\ Runs("serial", l)
    /\ ser' = [ser EXCEPT !.shown = Append(@, <<mpu.x, mpu.y, mpu.z>>[Len(@) + 1])]
    /\ Goto("serial", IF Len(ser.shown) + 1 < n THEN <<l>> ELSE next)
    /\ UNCHANGED <<k, bus, txbuf, mpu>>

DegreesRead   == CopyAxis("d_read", 2, <<"d_unlock">>)
DegreesUnlock == UnlockAt("serial", "d_unlock", "acc",
                          <<"f_write", "f_write", "s_count">>)
GsRead == CopyAxis("g_read", 3, <<"f_write", "f_write", "f_write", "s_count">>)

CountReset ==
    /\ Runs("serial", "s_count") /\ Goto("serial", <<"s_unlock">>)
    /\ ser' = [ser EXCEPT !.count = 0, !.shown = <<>>]
    /\ UNCHANGED <<k, bus, txbuf, mpu>>

OutputUnlock == UnlockAt("serial", "s_unlock", "ser", <<"s_sleep">>)

\* rd_count only matters up to the limit: the model keeps it there.
SerialSleep ==
    /\ SleepAt("serial", "s_sleep", <<"s_read">>)
    /\ ser' = [ser EXCEPT !.count = IF @ > CounterLimit THEN @ ELSE @ + 1,
                          !.cmd = NoCommand]
    /\ UNCHANGED <<bus, txbuf, mpu>>

Serial == \/ SerialStart \/ ReadLock \/ ReadTake \/ ReadUnlock \/ CommandCheck
          \/ ControlLock \/ ControlSet \/ ControlUnlock
          \/ OwnLock \/ OwnEnable \/ OwnOption \/ OwnRange \/ OwnUnlock
          \/ OutputLock \/ OutputTest \/ DegreesLock \/ DegreesRead
          \/ DegreesUnlock \/ GsRead \/ CountReset \/ OutputUnlock \/ SerialSleep
-----------------------------------------------------------------------------
(* Timers and the serial interrupt                                         *)

TimerWake(t) ==
    /\ k.st[t] = "SLEEPING"
    /\ k' = WakeupS(k, t)
    /\ UNCHANGED <<pc, data>>

\* A command comes in for the reader that sleeps on the input queue.
InputArrives ==
    /\ k.st["serial"] = "QUEUED" /\ At("serial", "s_got")
    /\ \E c \in Commands : ser' = [ser EXCEPT !.cmd = c]
    /\ k' = WakeupS(k, "serial")
    /\ UNCHANGED <<pc, bus, txbuf, mpu>>

\* 50 ms pass without one.
InputTimeout ==
    /\ k.st["serial"] = "QUEUED" /\ At("serial", "s_got")
    /\ k' = WakeupS(k, "serial")
    /\ UNCHANGED <<pc, data>>

\* The transmitter has made room for a writer that sleeps.
OutputDrains(t) ==
    /\ k.st[t] = "QUEUED" /\ ~At(t, "s_got")
    /\ k' = WakeupS(k, t)
    /\ UNCHANGED <<pc, data>>

\* The code of a thread.
Run(t) == \/ Procedures(t)
          \/ t = "main" /\ Main
          \/ t = "serial" /\ Serial
          \/ t = "mpu" /\ Mpu

Interrupt ==
    \/ DmaFetch \/ TransferComplete \/ TransferError \/ TransferTimeout
    \/ InputArrives \/ InputTimeout
    \/ \E t \in Thread : TimerWake(t) \/ OutputDrains(t)

Next == Interrupt \/ \E t \in Thread : Run(t)

\* Timers fire, the transmitter sends, the controller finishes what it has
\* started, and the processor runs whoever is current.  The code between two
\* sleeps of a thread is short against the 100 ms or more it sleeps in every
\* round, so that the threads of lower priority get their turn in the meantime.
Fairness ==
    /\ \A t \in Thread : SF_vars(Run(t)) /\ WF_vars(TimerWake(t))
                         /\ WF_vars(OutputDrains(t))
    /\ WF_vars(DmaFetch) /\ WF_vars(TransferComplete)
    /\ WF_vars(InputTimeout)

Spec == Init /\ [][Next]_vars /\ Fairness
-----------------------------------------------------------------------------
(* Properties *)

\* The kernel, the driver and the statics of the program hold what the code
\* can put there; no thread runs off its stack of labels.
TypeOK ==
    /\ k \in KernelType(IdlePrio .. HighPrio)
    /\ \A t \in Thread : pc[t] # <<>>
    /\ res \in [Thread -> {MSG_OK, MSG_TIMEOUT, MSG_RESET}]
    /\ i2c.state \in {"STOP", "READY", "ACTIVE", "LOCKED"}
    /\ i2c.thread \in Thread \cup {NoThread} /\ Len(i2c.wire) <= 2
    /\ mpu.scale \in Ranges /\ mpu.axis \in 1 .. 3
    /\ ser.cmd \in Commands \cup {NoCommand} /\ ser.count \in 0 .. CounterLimit + 1
    /\ faults \in 0 .. MaxFaults

\* As long as no transfer has failed what is printed is of one update: read in
\* it, and converted by it.  serial_read_accaxis_g takes no mutex and depends
\* on how the two threads are scheduled for this.
SnapshotNotTorn ==
    faults = 0 /\ (At("serial", "f_write") \/ At("serial", "s_count")) =>
        \A i, j \in 1 .. Len(ser.shown) : ser.shown[i] = ser.shown[j]

\* Whatever transfers fail, what is printed comes out of one conversion: after
\* a failed read some row values may be old, but no axis is left out of the
\* conversion and none is printed in the middle of it.
ConvertedTogether ==
    (At("serial", "f_write") \/ At("serial", "s_count")) =>
        \A i, j \in 1 .. Len(ser.shown) : ser.shown[i][1] = ser.shown[j][1]

\* After a stop no value changes until the next start: an update under way
\* ends before serial_set_control gets the mutex.
StopMeansStop ==
    [][<<mpu.x, mpu.y, mpu.z>>' # <<mpu.x, mpu.y, mpu.z>> => mpu.enable]_vars

\* One transfer at a time, its caller being the owner of the bus, and no
\* thread runs the driver while another sleeps in it.
InTransfer(t) == \E l \in {"x_start", "x_done", "x_release"} : At(t, l)
BusExclusive ==
    /\ \A t \in Thread : InTransfer(t) => k.own["bus"] = t \/ k.st[t] = "WTMTX"
    /\ i2c.thread # NoThread => i2c.thread = k.own["bus"] /\ At(i2c.thread, "x_done")

\* As long as no transfer has failed, in any set of threads that wait for mutexes
\* of each other there is one whose mutex can be given back: mpu_acc_range
\* leaves its mutex locked when a transfer fails (ReadsWhileEnabled).
WaitsFor(t, u) == \E m \in Mutex : t \in ToSet(k.wq[m]) /\ k.own[m] = u
NoDeadlock == faults = 0 =>
    \A S \in (SUBSET Thread) \ {{}} :
        \E t \in S : \A u \in S : ~WaitsFor(t, u)

\* The two copies of read_enable agree whenever the serial thread has done
\* with a command.
FlagsAgree == At("serial", "s_out") => mpu.enable = ser.enable

\* The serial thread goes on reading commands, the MPU thread goes on
\* sampling, and a command to start is obeyed.
ThreadsLoop ==
    /\ []<>At("serial", "s_read") /\ []<>At("serial", "s_sleep")
    /\ []<>At("mpu", "m_test") /\ []<>At("mpu", "m_sleep")
StartObeyed == (At("serial", "s_check") /\ ser.cmd = "str")
                   ~> (mpu.enable /\ ser.enable)

\* What the comments of the sources say, and the code does not do.

\* A range that mpu_acc_range says it has set is the one in the sensor, the
\* one acc_scale_ref is for.
RangeApplied ==
    \A t \in Thread : At(t, "r_unlock") => sensor[ACCEL_CONFIG] = RangeArg(t)

\* mpu_acc_update converts only if all row values were received: when it starts
\* to, the three are of this update.
AllRowsReceived == At("mpu", "m_x") => \A i \in 1 .. 3 : mpu.row[i] = mpu.gen

\* While reading is enabled the MPU thread reads the sensor again and again.
ReadsWhileEnabled == []<>(~mpu.enable \/ At("mpu", "a_high"))
=============================================================================
