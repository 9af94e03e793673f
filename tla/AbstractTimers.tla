--------------------------- MODULE AbstractTimers ---------------------------
(***************************************************************************)
(* What the virtual timers promise a thread that sleeps with a timeout:    *)
(* its timer goes off at its deadline or later, never earlier and never    *)
(* before a timer that was due sooner, and not at all once it is reset.    *)
(***************************************************************************)
EXTENDS Integers

CONSTANTS Thread, Modulus, Delays, NotArmed

VARIABLES
    time,     \* the system time, which wraps around
    deadline  \* when the timer of each thread is due, or NotArmed

tvars == <<time, deadline>>

\* Ticks from one time to another, the way unsigned subtraction has it.
Elapsed(from, to) == (to - from) % Modulus

\* A deadline in the half of the circle behind the system time has passed.
Past(d) == Elapsed(d, time) < Modulus \div 2

Armed == {t \in Thread : deadline[t] # NotArmed}

TInit == time = 0 /\ deadline = [t \in Thread |-> NotArmed]

Pass == time' = (time + 1) % Modulus /\ UNCHANGED deadline

Set(t, d) ==
    /\ t \notin Armed
    /\ deadline' = [deadline EXCEPT ![t] = (time + d) % Modulus]
    /\ UNCHANGED time

Reset(t) ==
    /\ t \in Armed
    /\ deadline' = [deadline EXCEPT ![t] = NotArmed]
    /\ UNCHANGED time

\* The timer that has been due for longest goes off.
Expire(t) ==
    /\ t \in Armed /\ Past(deadline[t])
    /\ \A u \in Armed : Past(deadline[u]) =>
           Elapsed(deadline[t], time) >= Elapsed(deadline[u], time)
    /\ deadline' = [deadline EXCEPT ![t] = NotArmed]
    /\ UNCHANGED time

TNext == Pass \/ \E t \in Thread : Reset(t) \/ Expire(t) \/ \E d \in Delays : Set(t, d)

TSpec == TInit /\ [][TNext]_tvars
=============================================================================
