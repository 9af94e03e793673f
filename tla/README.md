# MotionTracking: TLA+ models, checks and proofs

MotionTracking is firmware for an STM32F072 Nucleo board: it samples the
accelerometer of an MPU9250 over I2C and prints the values on a serial port,
under the control of six-letter commands a desktop program sends. It runs on
ChibiOS/RT 21.11.1. This directory holds its models, the TLC configurations that
check them and the proofs TLAPS checks. Paths below are relative to the
repository (`src/`).

## 1. Inventory

The application is five C files; the rest of the repository is ChibiOS, of which
the program uses a small part.

| part | source | state | operations |
|---|---|---|---|
| start-up | `mt-nucleo/main.c` | the call stack of `main` | print, set up bus and sensor, create two threads, sleep for ever |
| serial thread | `mt-core/serialcomm/serialcomm.c` | `qmtx`, `read_enable`, `readOption`, `strbuf`, `rd_count`, the axis copies | a round every 150 ms: read a command, run it, flush the input queue, print every sixth round |
| printing | `mt-core/mtprint/mtprint.c` | `qmtx` | `serial_print`, `serial_read`, both under the mutex |
| MPU thread and sensor access | `mt-core/mpu9250/mpu.c` | `qmtx`, `txbuf`, `rxbuf`, `read_enable`, `acc_scale_ref`, row and converted axis values | every 500 ms read six bytes and convert; set the range; enable and disable; hand out values |
| I2C access | `mt-core/mti2c/mti2c1.c` | none of its own | `mti2c_init`, `i2c1_transmit` (acquire, transmit, release) |
| I2C driver | ChibiOS `hal_i2c.c`, `I2Cv2/hal_i2c_lld.c` | driver state, the sleeping thread, the mutex of the bus | start, transmit with timeout, the interrupts |
| input and output queues | ChibiOS `hal_queues.c`, `hal_serial.c`, USART driver | ring buffer, counter, waiting threads, the interrupt enables of the port | put and get from the interrupt, read and write from threads, notify, reset |
| virtual timers | ChibiOS `chvt.c`, `SYSTICKv1/hal_st_lld` | the delta list, `lasttime`, the alarm of the hardware timer | set, reset, tick; under every sleep and timeout |
| kernel | ChibiOS `chschd.c`, `chthreads.c`, `chmtx.c`, `chlists.h` | ready list, threads' states and priorities, mutex queues and owned lists | sleep, wake, reschedule, lock and unlock with priority inheritance |

**Interactions.** `main` (normal priority) calls everything once and sleeps. The
serial and the MPU thread have the same priority, above main's, and the kernel is
built without time slices: a switch between the two happens only where one blocks
(mutex, sleep, queue, I2C transfer). The serial thread calls into `mpu.c` under
its own mutex, `mpu.c` calls the driver under its own: the order of the mutexes is
serialcomm, mpu, bus; the print mutex is never held with another. The I2C
controller's DMA reads `txbuf` while the caller sleeps; the USART interrupt fills
the input queue and empties the output queue at any moment. Every sleep and
every timeout arms a virtual timer in the stack frame of the call; the interrupt
of the hardware timer (priority 2) preempts those of I2C and USART (3).

**What is hard.** The unlocked flush of the input queue; buffers and values shared
between threads with a mutex on one side only; transfers that fail with a mutex
held; a timeout that races the interrupt of the transfer and leaves the driver locked;
two copies of `read_enable`; priority inheritance through chains of owners; an alarm
that the counter passes while it is written; registers written back as they were
read some time before. `PROJECT.json` lists each hazard at its line.

**What makes each part correct.**

* input queue: the counter and the indices agree, no byte is read twice or out of
  order, what a read delivers has no gap, a read always returns;
* output queue: a stream: every byte once and in order, never stalled, no writer
  forgotten, messages whole;
* virtual timers: no wake-up lost, early or out of order; no timer outlives its call;
* kernel mutexes: one owner, handed over to the first waiter, threads in exactly
  one queue, queues in order, priorities inherited and given back, no inversion;
* bus: one transfer at a time, by the owner of the bus; a call gets its own result
  and its own bytes, wakes nobody twice and leaves neither DMA nor transfer behind;
* sensor access: what is sent is what was asked for, values come from complete
  updates, a stop is a stop;
* the whole: no deadlock, both threads go round for ever, printed values belong to
  one sample, commands are obeyed.

## 2. Modules

| module | models | state and actions |
|---|---|---|
| `SerialInput` | `hal_queues.c` input side, the receive interrupt, the serial thread as reader | offsets of `q_rdptr`, `q_wrptr`, `q_counter`, the buffer, `strbuf`, where the thread is. One action per interrupt and per locked section; the flush is three stores with interrupts between them, in the order `StoreOrder` asks for |
| `SerialInputProofs` | theorems of `SerialInput` | |
| `I2CDriver` | `i2cMasterTransmitTimeout`, the LLD with its interrupt handlers, suspend and resume of the caller, the mutex of the bus | the driver's state, thread reference and interrupt enable; both DMA streams; the phase, counter, receive register and flags of the controller. One action per stretch of the call between locks, per branch of the handler, and per event of controller and device |
| `I2CDriverProofs` | theorems of `I2CDriver` | |
| `SerialOutput` | `oqWriteTimeout`, `oqPutTimeout`, `oqGetI`, the transmit half of the interrupt, `serial_print` and `chprintf` as writers | the ring, the waiting writers, TXEIE and TCIE, the two registers of the transmitter, CR1 and ISR as the handler read them |
| `SerialOutputProofs` | theorems of `SerialOutput` | |
| `AbstractStream` | what the output side promises: each byte once, in order, no more than the capacity on the way | put, send |
| `VirtualTimers` | `chvt.c`, the alarm of `hal_st_lld`, `chSchGoSleepTimeoutS` and `__sch_wakeup` | the counter, compare register and flag; the delta list; where the critical section under way is, and the alarm it is writing; per thread, the calls with a timeout since its last sleep ended. Time advances inside the sections |
| `MCVirtualTimers` | for TLC: the symmetry of the threads, and states without the hour of the clock | |
| `VirtualTimersProofs` | theorems of `VirtualTimers` | |
| `ListProofs` | facts on lists without repetition, on least numbers and on sums along a list, for the kernel and the timers | |
| `AbstractTimers` | what the timers promise: a timer goes off at its deadline or later, in order of deadline, and not once it is reset | pass, set, reset, expire |
| `ChKernel` | scheduler, ready list, mutexes | no variables: each operator maps a kernel state (a record `k`) to the one a system call leaves |
| `ChKernelProofs` | what each of these operators returns, for the two modules that use it | |
| `ChMutex` | threads that use mutexes as `chmtx.c` documents | `k`; lock, unlock, sleep, wake |
| `AbstractMutex` | what a mutex promises | owners and sets of waiters; take, wait, release, hand over |
| `ChMutexProofs` | theorems of `ChMutex` | |
| `MCChMutex` | model values for `ChMutex` | |
| `MotionTracking` | the whole program on `ChKernel` | the kernel `k`; `pc`, a stack of labels per thread; the driver; the shared buffers; the sensor's range registers; the statics of `mpu.c` and `serialcomm.c` |
| `MotionTrackingProofs` | theorems of `MotionTracking` | |

In `MotionTracking` a step is the code of the running thread from one access to
shared state or one blocking call to the next. The head of `pc[t]` is where thread
t is and the rest is where its callers go on: labels `p_` are `serial_print`, `f_`
`chprintf`, `x_` `i2c1_transmit` and the driver, `r_` `mpu_acc_range`, `b_`
`main` and `mpu_init`, `m_` and `a_` the MPU thread, `s_`, `c_`, `d_` and `g_` the
serial thread, its commands and its two outputs. Only the thread `k.cur` steps;
interrupts (timers, serial port, I2C) come between any two steps and may switch.
The module extends `ChKernel`, whose `Thread` and `Mutex` it takes as its own:
`ThreadsAssumption` and `MutexesAssumption` say which threads and mutexes there are.
A row value is the number of the update it was read in, modulo `Updates`, and stays that
of an older one when a transfer of its axis fails (`AxisDone`). A converted value is the
number of the update that converts it with that of its row.

`MotionTracking` ends a transfer in one step, a sleep at any moment and a write after
one sleep: what `I2CDriver`, `VirtualTimers` and `SerialOutput` show of these is what
justifies it. They stand to each other as a component to its service, not by
INSTANCE: the composition of all would be out of reach.

What is external in `I2CDriver` follows the use the LLD makes of the controller: an
error or a refusal ends the transfer with a STOP, the end of a phase holds the clock
until the handler goes on, a STOP written on an idle bus has no effect. In
`VirtualTimers` the compare flag is set when the counter meets the compare.

## 3. Runs

| run | question |
|---|---|
| `serial_input` | Does an interrupt in the unlocked flush break the queue? With the stores in source order: the queue stays consistent (`RingConsistent`), no byte is read twice (`ReadableFresh`), out of order (`ReadInOrder`) or with a gap before it (`CommandContiguous`, although the queue may overflow), reads return (`ReadReturns`). |
| `serial_input_stale` | `serialcomm.c:68` "only check command if read finished without error": **violated**, the check tests the number of bytes read against `MSG_OK` (0), so that a read cut short is checked over the tail of an older command |
| `ch_mutex` | Do the mutexes keep places, ownership (`TypeOK`), order and inherited priorities under chains of owners (`PriorityOrder`, `Inherited`, `NoInversion`), and implement `AbstractMutex` (`IsMutex`)? Does the thread of the highest priority get what it waits for (`TopGetsMutex`)? |
| `i2c_driver` | A timeout races the interrupts, a device refuses at once, late or never answers, and the driver is used on without a restart: is the thread reference right (`RefValid`), is the result of a call its own (`OwnResult`), are its bytes (`OwnBytes`, until a restart is due), do DMA and transfer end with the call (`DmaInOwnCall`, `BusLeftFree`), does it return (`CallReturns`)? |
| `serial_output` | Does the output side implement `AbstractStream` (`IsStream`), with the enables written back stale (`NeverStalls`) and several writers waiting (`NoLostWakeup`, `WritersWoken`)? Messages of one kind are whole (`MessagesWhole`) |
| `virtual_timers` | Do the timers implement `AbstractTimers` (`IsTimers`) although time goes on while the alarm is written and an interrupt may wake any thread early: no wake-up lost or late (`FiresOnTime`), no timer left behind by a call (`NoDangling`), no answer overridden (`AnswerKept`)? |
| `virtual_timers_live` | Does every sleep and every wait with a timeout end (`SleepEnds`), also on a clock so narrow that delays are cut at `chvt.c:219`? |
| `motion_tracking` | With at most one failed transfer, at any place, at boot or later: until it, printed values were read in one update and converted by it (`SnapshotNotTorn`), and nobody waits in a circle (`NoDeadlock`); after it, too, they come out of one conversion and the bus has one user (`ConvertedTogether`, `BusExclusive`) |
| `motion_tracking_rows` | `mpu.c:101` "If all row axis were reacived": **violated**, the results are combined with `&` at `mpu.c:102`, which is `MSG_OK` as soon as one of them is, and a value is converted from the row of an older update |
| `motion_tracking_live` | Starts and stops, with no failed transfer: the copies of `read_enable` agree (`FlagsAgree`), a stop is obeyed once it is given (`StopMeansStop`), a start in the end (`StartObeyed`), and both threads go round for ever (`ThreadsLoop`) |
| `motion_tracking_stuck` | **violated**: after one failed transfer in `mpu_acc_range` (`mpu.c:269` returns with the mutex locked) the MPU thread never reads again |
| `motion_tracking_range` | **violated**: `mpu_acc_range` fills the shared `txbuf` before it takes the mutex, and the range can go to a register of the MPU thread's transfer |

`serial_read_accaxis_g` takes no mutex, yet `SnapshotNotTorn` holds: the two threads
have equal priority and there are no time slices. A different priority of the MPU
thread breaks it, which is the mutant of that property.
`SnapshotNotTorn` and `NoDeadlock` are stated for `faults = 0`, until the first failed
transfer: what comes after it is the question of `motion_tracking_rows` and
`motion_tracking_stuck`.

Messages of `serial_print` and lines of `chprintf` may be mixed on the wire: the first
are written under the mutex of `mtprint.c`, the second under that of
`serialcomm.c`. `MessagesWhole` is about each kind alone.

Met while modelling and not the subject of a run of their own:

* `mpu.c:221` takes the low byte of an axis from `rxbuf[1]`: the transfer starts at the
  register behind the top byte (`mpu.c:216` "Read lower byte") and brings two bytes, so
  that this is the top byte of the next axis.
* `hal_i2c_lld.c:1071-1073` asks for a restart of the driver after a timeout,
  `i2c1_transmit` does none. Results and references stay right (`i2c_driver`), but a
  byte that is left in the receive register is the first of the next answer, and
  every answer is late by one from then on: `OwnBytes` without its last condition is
  false. The condition is in the theorem `BytesAreOwn` as in the property.
* `iqResetI` (`hal_queues.c:192` "All the data in the input queue is erased and lost")
  is called with no lock: a byte that comes between the stores of `q_wrptr` and
  `q_counter` stays in the queue, in front of the next command.
* The retry loop of `vt_insert_first` (`chvt.c:157-175`) keeps its base and delay. Once
  the delay has passed it never finds an alarm that is not skipped, until the counter
  wraps. A section would have to last 50 ms.
* `chvt.c:219` cuts a delta that overflows to the delay, and the timer then goes off too
  early. `lasttime` is not brought up to date when a timer is taken back, so that threads
  that are always answered in time and overlap would age it for ever. In this
  program every thread sleeps between a few calls, and nothing cuts a sleep short:
  section 4 says why that is enough.
* Each retry of `vt_set_alarm` asks for a tick more (`chvt.c:101-105`), and the section in
  which it is retried goes on meanwhile. Both count: an alarm may be late by four
  sections and the safe delta, not by three, which holds for sections of one tick and
  fails for longer ones. `FiresOnTime` has the bound that the proof found, which TLC
  confirms for sections of 6 ticks as well.
* `cmdred`, "read degrees", prints g's (`serial_read_accaxis_d` copies `axis_x`, not
  `axis_ang_x`).

### Bounds

* `SerialInput`: queue of 4 (16 in the build), command of 3 (6), 9 bytes: twice
  round the queue with a command that does not divide it, a full queue, several
  flushes. The theorems hold for every size.
* `I2CDriver`: two threads, two bytes to send (one that is not the last), and 0, 1 or 2
  to receive. No bound on the number of calls, failures or timeouts. The theorems
  hold for any threads and sizes.
* `SerialOutput`: a ring of 3 and messages of 5 and 2: a message that does not fit and
  wraps around, two writers waiting for one slot. No bound on the number of messages.
* `VirtualTimers`: three threads, as the program has, delays of 3 and 4 ticks, the safe
  delta of the build (2) and sections that last up to 2 ticks: small numbers in the
  proportions that make an alarm be raised to the safe delta, skipped and retried. The
  delays are longer than a section, as they are in the program (50 ms against
  microseconds), and four sections and the safe delta fit half the width, which is what
  the comparison of two times on the circle needs (`TimersAssumption`). Delays are
  below half the width for the same reason: in the program at most 1 s, 10,000 of 2^32 ticks.
  `MaxCalls` is the number of calls with a timeout that a thread makes before it
  sleeps: 1 in the runs. In the program it is finite: the MPU thread makes six
  transfers in a round, the serial thread a few reads and at most one transfer, main
  five transfers at boot. The counter has 92 values: one more than section 4 asks for
  three threads, so that the run is an instance of `OnTime` and `TimersKept`. The one
  of liveness has two threads and 20 values, with which the cut of `chvt.c:219` happens.
  Both runs look at states without the hour of the clock (`Clockless`): no action
  and no property tells one hour from another, as times are only compared by the ticks
  between them. With it the run of liveness has 159,553 states, without it exactly
  20 times as many and the same result.
* `ChMutex`: four threads besides idle, two of equal priority, and three nested
  mutexes: chains of three owners. No bound on the behaviour itself: the state space is
  finite.
* `MotionTracking`: the threads of the program. `CounterLimit` is 1 or 0 instead of
  5: output on some rounds and not on others is what matters. `Commands` has one
  of the four range commands, as they differ in a number only, and each run the commands
  its question is about: with a failed transfer those that print values or transfer,
  against the stop; starts, stops and another output for liveness. `MaxFaults` is 0 or 1: one failed
  transfer at any place. A write sleeps on a full output queue at most
  once: several sleeps in a row give the others no more than one that lasts.
  `rd_count` saturates above its limit.

### Fairness

* `SerialInput`: the thread runs when ready, the 50 ms timer fires. Nothing is
  assumed of the desktop.
* `I2CDriver`: requested interrupts are served and threads get on, their timeouts among
  it. Nothing is assumed of controller and device.
* `SerialOutput`: the transmitter sends, interrupts are served.
* `VirtualTimers`: time advances, code goes on.
* `ChMutex`: sleeps end, and a mutex that its owner can give back again and again is
  given back: what callers owe each other. Threads may otherwise run for ever.
* `MotionTracking`: weak fairness of timers, transmitter and controller; strong
  fairness of each thread's code. The latter stands for time: a thread computes for
  microseconds between sleeps of 100 ms or more, so a lower thread gets its turn.
  No fairness of input, failures or completion by timeout.

Deadlock is checked in every run.

## 4. Theorems

`SerialInputProofs`, for every queue size, command size and number of bytes:

* `TypeCorrect`: indices stay inside the buffer and the counter natural, in any
  order of the flush's stores;
* `RingAgrees`, `NothingReadTwice`, `CommandInOrder`, `CommandWhole`: the safety
  properties of `serial_input`, under `StoreOrder = ProgramOrder`.

The order is an assumption on the build: the fields are not volatile and the build
is `-O2` with link-time optimisation. With the stores in any order the result is
false (the mutant of `ReadableFresh`): `q_counter` first and `q_wrptr` last makes
a queue with equal pointers and a counter that is not zero, and old bytes are read
again.

The argument. None of the first three is inductive: while the flush is under way the
indices describe no bytes. `IInv` says what holds at each point of it: before any
store, the bytes from `q_rdptr` on are fresh (newer than all delivered, in wire
order); once `q_rdptr` is 0, nothing; once `q_wrptr` is 0 as well, the slots below it
hold bytes that came since, which are newer than all delivered; in the end the
counter is at most what the indices hold. It adds that `strbuf` is not newer than
the last delivery. `PutFresh` and `ReadFresh` are the two facts about rings it rests
on: a put extends a fresh range, a read takes a prefix of it. One lemma per action,
then `Invariant`, then the three results. For `CommandWhole` the queue may have gaps,
where a full queue dropped bytes; `Gapless` says where not: what is readable begins
with a stretch of consecutive bytes that is long enough for the rest of the command, or
is all there is and ends with the newest byte on the wire. The queue being longer than a
command, a byte is dropped only when the stretch is long enough already. After the flush,
the last two stores of which can have bytes between them, such a stretch starts at slot 0.

The assumptions on constants are those named in `SerialInput`: a queue of at least
one slot, a command no longer than the queue, `StoreOrder` part of the source order.

`I2CDriverProofs`, for any number of threads, any number of bytes to send and any sizes
to receive:

* `ReferenceValid`, `ResultIsOwn`, `DmaStaysInCall`, `BusIsLeftFree`, `BytesAreOwn`: the
  safety properties of `i2c_driver`; `TypeCorrect`.

The argument. `OwnResult` says nothing of a thread that still waits, and an interrupt
may be pending from a call that is over: the invariant `IInv` connects the call, the
state of the driver, the streams and the wire. `OneCall`: the call under way is that
of the owner of the bus. `Streams`: which stream is on follows from the state of the
driver, and the receiving one fills the buffer of that call. `Wire`: in each phase
the counter of the controller and that of the stream agree (the latter may be one
ahead, by the byte it found in the register), and a failure that is pending belongs to
a transfer that has ended, so that no transfer starts before it is served. `Told`:
the transfer on the wire is that of the thread that waits, and once the thread was
answered the streams are off and the wire at rest, so that what it was told stays
true. One lemma per action; `ResumeSteps` and `DmaOffSteps` say what the wake-up and the
disabling of the streams do, for the three branches of the handler that use them.
`BytesAreOwn` has a second invariant over it, `Counts`: until a restart is due, the
bytes a call has and those its stream still awaits are the bytes it asked for, the counter
of the controller is that of the stream, and no byte is left in the register between calls.
`I2CAssumption` (no thread is called `None`, sizes are natural numbers) is all that is
assumed of the constants.

`SerialOutputProofs`, for any number of writers, any size of the ring and any lengths of
messages:

* `ImplementsStream`: every step of the queue, the interrupt and the transmitter is a
  step of `AbstractStream` or leaves it alone;
* `NothingLeftBehind`, `WakeupForEverySlot`, `MessagesStayWhole`: the invariants
  `NeverStalls`, `NoLostWakeup` and `MessagesWhole`; `TypeCorrect`.

The argument. `IInv` adds to the invariants of the run that the pointers are as far apart
as the counter says (`Distance`), that what lies between them is bytes (`Held`), that TXE
as the handler read it is still true when it fills TDR (`SeenEmpty`), that a call that
goes on has characters left, and that the waiting writers are queued once each.
`Distance` makes the test of `oqIsEmptyI` exact, so that CR1 is written back only when
nothing is left to send; `Queued` makes the writer woken a new one, so that the woken
writers grow with the free slots, and each `Put` takes at least the slot that its writer
leaves. For the refinement, what is on the way is the shift register, TDR and the ring in
this order: a put lengthens it at the end (`PutIsPut`), a byte that goes from ring to TDR
or from TDR to the shift register leaves it as it is (`MoveIsStutter`), and a byte sent
was its head (`SentIsSend`). `MessagesStayWhole` uses the same view: `Lined` says that each
byte on the way follows the one before it of its kind, however many of the other kind are
between, `Tip` that the next byte a writer puts follows the last of its kind, and
`OneWriter` that a kind has one writer at a time: the owner of the mutex of `mtprint.c`, or the
serial thread. Assumed of the constants: sizes and lengths of at least one, finitely many
writers, `None` neither a writer nor a byte.

`VirtualTimersProofs`, for any number of threads and any width of `systime_t`:

* `TimersOfCalls` (`NoDangling`), `AnswersAreKept` (`AnswerKept`) and `TypeCorrect` (`TypeOK`);
* `OnTimeYoung` (`FiresOnTime`) and `IsTimersYoung` (`IsTimers`): no timer is passed by more
  than its alarm may be late, and every step is a step of `AbstractTimers` or leaves it alone,
  as long as no delay is cut (`Young`: the ticks since `lasttime` and a delay do not
  overflow, the test of `chvt.c:219`);
* `NeverCut`, and so `OnTime` and `TimersKept`: the same two with nothing assumed of the
  behaviour, for threads any of which may be woken early, where the width is above
  `Cardinality(Thread) * (MaxCalls + 1) + 1` times the longest delay and the lateness of a
  timer. The program is far inside: three threads of at most seven calls and delays of
  1 s need less than a minute, the width of `systime_t` is 5 days.

The argument. `NoDangling` with the types of the list and of the states is inductive:
`InsertAtIs` and `RemoveAtIs` say that a list without repetition stays one, and
`PartOfList` that the place found for a new timer is inside it.

`TypeOK` is not: that a delta handed on by `chVTDoResetI` stays inside the width is known
only because the sum of the deltas up to each timer does. `TInv` says so of every
armed timer (`Lists`). The sum is a fold, and what a fold returns would take
induction; `ListProofs` does without: of the numbers of places at which a sum along
the list could go wrong there would be a least one (`NatMin`), and the place before it
makes it right (`AlongIs`). `DueInsert`, `DueRemove` and `DueFire` then say what an
insertion, a removal and a timer that goes off do to the deadlines of the others:
nothing, nothing, and moving them as much as `lasttime`.

`Timely` is about the alarm, for `FiresOnTime`. In each state one of these is so: the counter
has yet to meet the compare register, which is at the deadline of the first timer or at
most `Slack` behind it (`Coming`); or it has met it, and the interrupt is requested or
under way (`Waits`, `Scans`); or the section under way is setting the alarm, has lasted long
enough for each of its retries, and will look at the time again (`Sets`). `AlarmOn` says that the
compare interrupt is enabled for a list that is not empty, `Ages` that every deadline is
in the half of the circle ahead, so that arithmetic modulo the width is that of
numbers (`PastIs`). Each part was checked by TLC for several widths and lengths of a section
before it was proved. For `IsTimers` the mapping is `Deadline`: `After(lasttime, Due(t))` of
the timers of the list. A cut delay breaks it, which is why the two theorems have
`[]Young` as a hypothesis and not as a conclusion.

`NeverCut` removes it. A timer that goes off moves `lasttime` to its deadline; one that is taken
back does not, so that two threads that are answered in turn keep a timer armed and age
`lasttime` by a delay with each call. What ends that is that every thread sleeps after
at most `MaxCalls` other calls. `Used` counts the calls made since the last sleep of each
thread ended, and there are no more than `Cardinality(Thread) * (MaxCalls + 1)` (`UsedFinite`).
`Soon` says that no deadline is further from `lasttime` than as many times a delay and a lateness:
a new call adds one to the count and to the distance (`UsedGrows`, `AgedSleep`), a timer taken
back lowers neither, and one that goes off, which may lower the count, leaves no
deadline further away than one of these, and each timer still armed counts at least for
itself (`AgedFire`, `Counted`). Assumed of the constants: `TimersAssumption`.

`ChMutexProofs`, for any number of threads, any nested mutexes and any priorities above
that of idle:

* `LinksAgree` (`TypeOK`), `QueuesOrdered` (`PriorityOrder`), `InheritsRightly` (`Inherited`),
  `NobodyWaitsForLess` (`NoInversion`): the invariants of `ch_mutex`;
* `ImplementsMutex` (`IsMutex`): every step of the kernel is a step of `AbstractMutex` or leaves
  it alone.

The argument. `IInv` has three layers. `Links` is about places: each thread is in the
one list its state says (`Settled`), owners and lists of owned mutexes agree, those lists fall in
the order of the mutexes (`Descending`, which is why `chMtxUnlock` may take its argument for
the head of the list), and a thread waits only for what comes after all it owns (`Nested`).
`Ordered` and `Highest` are about the order of ready list and queues. `AtLeast` and `NoMore` say
that a thread has its own priority or that of a waiter, and no waiter has more.
The hard step is the inheritance loop: a chain of owners does not fork (`ChainIsLinear`) and,
with what `Nested` says, ranks rise along it, so that it ends; at most one thread of it is in
any one queue, so that moving that one restores the order (`RequeueAnyIs`); and being the least
such set, it holds no thread that does not get a waiter of the new priority (`NoMore` again).
The end of inheritance is `UnlockHandIs` with `NewPrioIs`: the maximum over the mutexes
still owned is what `AtLeast` and `NoMore` ask of the thread. `ChKernelProofs` has one such
fact per operator of `ChKernel`, about any kernel state that is settled, so that
`MotionTrackingProofs` uses them too. Assumed: idle is a thread and of the lowest
priority, and the mutexes, finitely many, have ranks of their own in the order they are nested.

`MotionTrackingProofs`, for any set of commands, any limit of the round counter and any
number of failed transfers, over the program's threads and mutexes:

* `BusIsExclusive`, `FlagsStayTogether`, `ShownTogether`: `BusExclusive`, `FlagsAgree`,
  `ConvertedTogether`, with failed transfers too;
* `SnapshotIsWhole`: `SnapshotNotTorn`, until the first failed transfer and so always if there
  is none; after one its claim is false, by `mpu.c:102`;
* `StopStops`: the action property `StopMeansStop`;
* `NeverDeadlocks`: `NoDeadlock`, until the first failed transfer and so always if there is
  none; `TypeCorrect`.

The argument. A stack of labels says which mutexes a thread needs: those that protect the
code it is in, and the code its callers are in (`Needs`). `Locking` connects that to the kernel:
stacks are well formed (`Stacked`), a thread owns what it needs but for one mutex it may
be waiting for (`Asked`, `Owned`), its list falls in the order serialcomm, mpu, bus, print
(`Listed`), and it has nothing else in it but the mutex that `mpu_acc_range` leaves locked
when its transfer fails, which main keeps for ever and the serial thread until it
unlocks its own (`Spare`, `Leaks`). From it follows that whoever changes a flag or a value does
so as its only owner, and, with no failure (`Sound`), that the rank of what a thread waits for
is above the ranks of all it owns, so that waiting has no circle (`NoCircle`).
`Driven`, `Booting` and `Raised` are about who can run: the thread the controller works for sleeps
at the end of its transfer, threads not created yet wait, and a started one has the
highest priority there is. As a thread made ready takes the processor only with a higher
priority than the running one's, the last means that no interrupt takes it from either of
the two threads (`RunsHighest`, `InterruptGoes`), which is what `Whole` (a conversion under
way is not interrupted) and `Copied` (nor are the copies of `serial_read_accaxis_g`, made with
no mutex) rest on. `Fresh` is about the rows, with no failure: those of the axes that are done
are of the update under way, so that each value is of the update its row was read in.
`Enabled` and `Agreed` say what the two
copies of `read_enable` are at each point of a command. Each part was checked by TLC, for
no failure and for one, before it was proved. There is a lemma per step of the program
that says which labels and which mutexes it leaves, which `RunGoes` puts together, and one
per part of the invariant.
Assumed: the names of the threads and of the mutexes, commands among those of
`serialcomm.h`, natural limits.

Model-checked only:

* `NoDeadlock` after a failed transfer is not claimed: a thread can wait for the mutex it has
  left locked itself;
* all liveness (`ReadReturns`, `CallReturns`, `WritersWoken`, `SleepEnds`, `TopGetsMutex`,
  `ThreadsLoop`, `StartObeyed`), which is out of the prover's reach, as `ENABLED` is.

## 5. Not modelled

* Formatting (`chprintf`), the rest of ChibiOS, HAL ports, start-up code and board
  files: third-party code the program does not reach, runs before `main`, or that has
  no state. Kernel options enter as stated in the modules.
* The numerics of `mpu_acc_update` and the bytes of the sensor: unsigned axes, truncated
  squares and a division by zero are there to be seen in `mpu.c:107-137`, but there is
  no statement of what the result should be, and nothing prints the angles.
* The contents of `strbuf` as text, and `strcmp` going on behind six bytes with no
  terminator.
* What the sensor does between two transfers: no comment promises that the axes are
  of one sample.
* Operations of modelled components that the program does not call: see
  `PROJECT.json`.

## 6. Plan

Done: all modules, with proofs of every safety property the passing runs check, and of the
refinements to `AbstractStream`, `AbstractMutex` and `AbstractTimers`.

What could follow: the sensor's axes as readings of a device that changes between two
transfers.
