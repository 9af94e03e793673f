--------------------------- MODULE VirtualTimers ---------------------------
(***************************************************************************)
(* The tick-less virtual timers of the kernel (rt/src/chvt.c) over the     *)
(* alarm of a free running timer (SYSTICKv1/hal_st_lld), and the threads   *)
(* that sleep with a timeout (chSchGoSleepTimeoutS, __sch_wakeup).  A      *)
(* timer belongs to the call of its thread, so it is named by the thread.  *)
(* Time goes on while interrupts are masked: between reading the time,     *)
(* writing the alarm and reading the time again.                           *)
(***************************************************************************)
EXTENDS Integers, FiniteSets, SequencesExt

CONSTANTS
    Thread,     \* threads that sleep with a timeout
    MaxCalls,   \* calls with a timeout a thread makes between two sleeps
    Modulus,    \* the width of systime_t
    Delays,     \* timeouts the threads ask for, in ticks
    TimeDelta,  \* CH_CFG_ST_TIMEDELTA
    MaxLate,    \* ticks a critical section may last
    NotArmed, None

ASSUME TimersAssumption ==
    /\ IsFiniteSet(Thread) /\ Thread \cap {None, "isr"} = {} /\ None # "isr"
    /\ MaxCalls \in Nat
    /\ Modulus \in Nat \ {0} /\ TimeDelta \in Nat \ {0} /\ MaxLate \in Nat
    /\ \A d \in Delays : d \in TimeDelta .. Modulus \div 2 - 1 /\ d > MaxLate
    /\ 4 * MaxLate + TimeDelta <= Modulus \div 2
    /\ NotArmed \notin 0 .. Modulus - 1

VARIABLES
    time,      \* the counter of the hardware timer
    ccr, on,   \* its compare register and the interrupt enable of the compare
    hit,       \* its compare flag
    lasttime,  \* the time the first delta counts from
    vtlist,    \* the armed timers, in the order they are due
    delta,     \* ticks from one timer to the next
    st,        \* the thread runs, is blocked or was woken, and by whom
    calls,     \* calls a thread made since the timer of its last sleep went off
    owner,     \* who is in the critical section: a thread, "isr" or None
    stage,     \* where in it
    al,        \* the alarm being set up
    late       \* ticks since the critical section began

hw    == <<ccr, on, hit>>
list  == <<lasttime, vtlist, delta>>
sect  == <<owner, stage, al, late>>
vars  == <<time, hw, list, st, calls, sect>>

\* chTimeDiffX.
Elapsed(from, to) == (to - from) % Modulus

\* Variant: a time that does not wrap around.
After_Wide(t, d) == t + d

\* chTimeAddX.
After(t, d) == (t + d) % Modulus

\* The interrupt of the alarm is requested.
Pending == on /\ hit

\* A thread in chThdSleep, which only its timer ends, or in a call that an
\* interrupt may end before (chThdSuspendTimeoutS, chThdEnqueueTimeoutS).
Blocked(t) == st[t] \in {"asleep", "suspended"}

Armed      == ToSet(vtlist)
IsFirst(t) == vtlist # <<>> /\ Head(vtlist) = t
Place(t)   == CHOOSE i \in DOMAIN vtlist : vtlist[i] = t

\* Ticks from lasttime to the timer: the deltas up to it.
Due(t) == FoldFunctionOnSet(+, 0, delta, {vtlist[i] : i \in 1 .. Place(t)})

NoAlarm == [base |-> 0, target |-> 0, delay |-> 0, cur |-> 0, first |-> FALSE]

\* vt_set_alarm and vt_insert_first never ask for less than the safe delta.
Safe(d) == IF d < TimeDelta THEN TimeDelta ELSE d

AlarmIn(d, first) == [base |-> time, target |-> Safe(d), delay |-> Safe(d),
                      cur |-> TimeDelta, first |-> first]

Init ==
    /\ time = 0 /\ ccr = 0 /\ on = FALSE /\ hit = FALSE
    /\ lasttime = 0 /\ vtlist = <<>> /\ delta = [t \in Thread |-> 0]
    /\ st = [t \in Thread |-> "run"] /\ calls = [t \in Thread |-> 0]
    /\ owner = None /\ stage = "free" /\ al = NoAlarm /\ late = 0

\* The hardware counts; the flag is set when the counter meets the compare.
\* An interrupt that is not masked is served at once.
Advance ==
    /\ \/ owner = None /\ ~Pending /\ UNCHANGED late
       \/ owner # None /\ late < MaxLate /\ late' = late + 1
    /\ time' = After(time, 1)
    /\ hit' = (hit \/ time' = ccr)
    /\ UNCHANGED <<ccr, on, list, st, calls, owner, stage, al>>

\* An interrupt is served before a thread gets on, unless it is masked.
Lock(t) ==
    /\ owner = None /\ ~Pending /\ ~Blocked(t)
    /\ owner' = t /\ stage' = "enter"
    /\ UNCHANGED <<time, hw, list, st, calls, al, late>>

Leave == owner' = None /\ stage' = "free" /\ al' = NoAlarm /\ late' = 0
Stay  == UNCHANGED <<owner, late>>

\* ch_dlist_insert: before the first timer that is not due sooner.
DlistInsert(t, d) ==
    LET ahead == {u \in Armed : Due(u) < d}
        k     == Cardinality(ahead)
        own   == IF k = 0 THEN d ELSE d - Due(vtlist[k])
    IN  /\ vtlist' = InsertAt(vtlist, k + 1, t)
        /\ delta' = [u \in Thread |->
              IF u = t THEN own
              ELSE IF k < Len(vtlist) /\ u = vtlist[k + 1] THEN delta[u] - own
              ELSE delta[u]]

\* ch_dlist_dequeue, the delta going to the next timer.
DlistRemove(t) ==
    /\ vtlist' = RemoveAt(vtlist, Place(t))
    /\ delta' = [u \in Thread |->
          IF u = t THEN 0
          ELSE IF Place(t) < Len(vtlist) /\ u = vtlist[Place(t) + 1]
               THEN delta[u] + delta[t]
          ELSE delta[u]]

\* Variant: the delay taken as the delta, as if lasttime were now.
FromLast_Raw(d) == d

\* The delay as a delta from lasttime; one that overflows is cut short.
FromLast(d) ==
    LET sum == After(Elapsed(lasttime, time), d)
    IN  IF sum < Elapsed(lasttime, time) THEN d ELSE sum

\* The new timer would be the first: the alarm must come earlier.
Sooner(d) == FromLast(d) < delta[Head(vtlist)]

\* vt_insert_first: the list starts from the present.
InsertFirst(t, d) ==
    /\ vtlist = <<>>
    /\ lasttime' = time /\ vtlist' = <<t>> /\ delta' = [delta EXCEPT ![t] = d]
    /\ stage' = "write" /\ al' = AlarmIn(d, TRUE) /\ Stay

\* vt_enqueue in a list that has timers.
Enqueue(t, d) ==
    /\ vtlist # <<>>
    /\ DlistInsert(t, FromLast(d)) /\ UNCHANGED lasttime
    /\ \/ Sooner(d) /\ stage' = "write" /\ al' = AlarmIn(d, FALSE) /\ Stay
       \/ ~Sooner(d) /\ Leave

\* chSchGoSleepTimeoutS: chVTDoSetI, then chSchGoSleepS.  Every thread of the
\* program sleeps (chThdSleep) after a bounded number of other calls.
SleepTimeout(t, newstate, d) ==
    /\ owner = t /\ stage = "enter" /\ st[t] = "run"
    /\ newstate = "suspended" => calls[t] < MaxCalls
    /\ st' = [st EXCEPT ![t] = newstate] /\ calls' = [calls EXCEPT ![t] = @ + 1]
    /\ InsertFirst(t, d) \/ Enqueue(t, d)
    /\ UNCHANGED <<time, hw>>

\* Variant: a woken thread leaves its timer armed.
ResetsTimer_Never(t) == FALSE

\* A thread woken before its timer went off takes it back.
ResetsTimer(t) == t \in Armed

\* Variant: an off-by-one in the test for the last timer.
StaysOn_OffByOne == on /\ Len(vtlist) > 2

\* port_timer_stop_alarm as the last timer leaves the list.
StaysOn == on /\ Len(vtlist) > 1

\* The timer taken back was the first, another follows and is not due yet:
\* the alarm moves to that one.
AlarmMoves(t) ==
    /\ IsFirst(t) /\ Len(vtlist) > 1
    /\ Elapsed(lasttime, time) < Due(vtlist[2])

\* Back in chSchGoSleepTimeoutS: chVTDoResetI if the timer is still armed.
\* An alarm whose timer is gone but whose successor is due is left pending.
Resume(t) ==
    /\ owner = t /\ stage = "enter" /\ st[t] \in {"answered", "timedout"}
    /\ st' = [st EXCEPT ![t] = "run"]
    /\ \/ ~ResetsTimer(t) /\ Leave /\ UNCHANGED <<list, hw>>
       \/ /\ ResetsTimer(t) /\ DlistRemove(t) /\ UNCHANGED <<lasttime, ccr, hit>>
          /\ on' = StaysOn
          /\ \/ /\ AlarmMoves(t) /\ stage' = "write" /\ Stay
                /\ al' = AlarmIn(Due(vtlist[2]) - Elapsed(lasttime, time), FALSE)
             \/ ~AlarmMoves(t) /\ Leave
    /\ UNCHANGED <<time, calls>>

\* port_timer_set_alarm, or port_timer_start_alarm the first time.
StartsAlarm == al.first /\ al.cur = TimeDelta

WriteAlarm ==
    /\ stage = "write" /\ stage' = "check"
    /\ ccr' = After(al.base, al.target)
    /\ on' = (on \/ StartsAlarm)
    /\ hit' = (hit /\ ~StartsAlarm)
    /\ UNCHANGED <<time, list, st, calls, owner, al, late>>

\* Variant: the alarm is set and not looked at again.
Skipped_Never == FALSE

\* The time reached the alarm before or while it was written.
Skipped == Elapsed(al.base, time) >= al.delay

\* vt_set_alarm tries again from the present, vt_insert_first moves the alarm
\* but keeps its base and the delay it tests; each asks for a tick more.
Relaxed ==
    LET more == [al EXCEPT !.cur = @ + 1, !.target = al.cur + 1]
    IN  IF al.first THEN more ELSE [more EXCEPT !.base = time, !.delay = al.cur + 1]

\* The deadline skip detection.
CheckAlarm ==
    /\ stage = "check"
    /\ \/ ~Skipped /\ Leave
       \/ Skipped /\ stage' = "write" /\ al' = Relaxed /\ Stay
    /\ UNCHANGED <<time, hw, list, st, calls>>

\* st_lld_serve_interrupt clears the flag it saw and calls chVTDoTickI.
AlarmInterrupt ==
    /\ owner = None /\ Pending
    /\ hit' = FALSE /\ owner' = "isr" /\ stage' = "scan"
    /\ UNCHANGED <<time, ccr, on, list, st, calls, al, late>>

\* Variant: the state of the thread is not looked at.
Wakened_Any(t) == [st EXCEPT ![t] = "timedout"]

\* __sch_wakeup: a thread made ready before is left alone.
Wakened(t) == IF Blocked(t) THEN [st EXCEPT ![t] = "timedout"] ELSE st

FirstIsDue == vtlist # <<>> /\ Elapsed(lasttime, time) >= delta[Head(vtlist)]

\* One round of the loop of chVTDoTickI: the first timer is due.
TickFire ==
    /\ stage = "scan" /\ FirstIsDue
    /\ LET t == Head(vtlist)
       IN  /\ lasttime' = After(lasttime, delta[t])
           /\ vtlist' = Tail(vtlist) /\ delta' = [delta EXCEPT ![t] = 0]
           /\ st' = Wakened(t)
           /\ calls' = IF st[t] = "asleep" THEN [calls EXCEPT ![t] = 0] ELSE calls
    /\ on' = StaysOn
    /\ UNCHANGED <<time, ccr, hit, sect>>

\* The scan ends at a timer that is not due: the alarm is set for it.
TickEnd ==
    /\ stage = "scan" /\ ~FirstIsDue
    /\ \/ vtlist = <<>> /\ Leave
       \/ /\ vtlist # <<>> /\ stage' = "write" /\ Stay
          /\ al' = AlarmIn(delta[Head(vtlist)] - Elapsed(lasttime, time), FALSE)
    /\ UNCHANGED <<time, hw, list, st, calls>>

\* An interrupt handler answers a suspended thread (chThdResumeI).
Answer(t) ==
    /\ owner = None /\ st[t] = "suspended"
    /\ st' = [st EXCEPT ![t] = "answered"]
    /\ UNCHANGED <<time, hw, list, calls, sect>>

Code ==
    \/ WriteAlarm \/ CheckAlarm \/ AlarmInterrupt \/ TickFire \/ TickEnd
    \/ \E t \in Thread :
          \/ Resume(t)
          \/ \E newstate \in {"asleep", "suspended"}, d \in Delays :
                SleepTimeout(t, newstate, d)

Next == Advance \/ Code \/ \E t \in Thread : Lock(t) \/ Answer(t)

Spec == Init /\ [][Next]_vars

\* A section that was entered is left, the interrupt is served, time goes on.
LiveSpec == Spec /\ WF_vars(Advance) /\ WF_vars(Code)
----------------------------------------------------------------------------
\* Times stay inside the width of systime_t, and the list names threads.
TypeOK ==
    /\ {time, ccr, lasttime} \subseteq 0 .. Modulus - 1
    /\ {on, hit} \subseteq BOOLEAN
    /\ vtlist \in Seq(Thread) /\ delta \in [Thread -> 0 .. Modulus - 1]
    /\ st \in [Thread -> {"run", "asleep", "suspended", "answered", "timedout"}]
    /\ calls \in [Thread -> 0 .. MaxCalls + 1]
    /\ owner \in Thread \cup {"isr", None}
    /\ stage \in {"free", "enter", "scan", "write", "check"}
    /\ al.base \in 0 .. Modulus - 1 /\ {al.target, al.delay, al.cur} \subseteq Nat
    /\ late \in 0 .. MaxLate

\* No wake-up of a sleeping thread is lost: an armed timer is never passed by
\* more than account for it: the section that set its alarm and the ticks it asked
\* for in addition, one per retry; the section in which the alarm went off; the
\* interrupt; and the safe delta.
FiresOnTime ==
    \A t \in Armed :
        LET past == Elapsed(After(lasttime, Due(t)), time)
        IN  past < Modulus \div 2 => past <= 4 * MaxLate + TimeDelta - 1

\* A timer lives in the stack frame of the call that armed it: none is armed
\* once its thread has left chSchGoSleepTimeoutS, and none is armed twice.
NoDangling ==
    /\ \A t \in Armed : st[t] # "run"
    /\ \A t \in Thread : Blocked(t) => t \in Armed
    /\ IsInjective(vtlist)

\* A thread that was answered does not find a timeout instead because its
\* timer went off before it ran.
AnswerKept == [][\A t \in Thread : st[t] = "answered" => st'[t] # "timedout"]_st

Timers == INSTANCE AbstractTimers WITH
    deadline <- [t \in Thread |->
        IF t \in Armed THEN After(lasttime, Due(t)) ELSE NotArmed]

\* The delta list is a set of timers with deadlines of their own: none goes
\* off early or before one that was due sooner, and taking one back or adding
\* one leaves the deadlines of the others alone.
IsTimers == Timers!TSpec

\* A thread that waits with a timeout is woken, by its timer if by nothing else.
SleepEnds == \A t \in Thread : Blocked(t) ~> ~Blocked(t)
=============================================================================
