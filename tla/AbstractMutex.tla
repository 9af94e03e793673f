--------------------------- MODULE AbstractMutex ---------------------------
(***************************************************************************)
(* What a mutex promises the threads that use it, with no word of          *)
(* priorities, queues or scheduling: one owner at a time, taken only when  *)
(* free or handed over by the owner to a thread that waits, and never left *)
(* free while a thread waits.                                              *)
(***************************************************************************)
CONSTANTS Thread, Mutex, NoThread

VARIABLES
    owner,   \* the thread that owns each mutex, or NoThread
    waiting  \* the threads that wait for each mutex

avars == <<owner, waiting>>

AInit == /\ owner = [m \in Mutex |-> NoThread]
         /\ waiting = [m \in Mutex |-> {}]

\* A thread that waits does nothing else.
Active(t) == \A m \in Mutex : t \notin waiting[m]

Take(t, m) ==
    /\ Active(t) /\ owner[m] = NoThread
    /\ owner' = [owner EXCEPT ![m] = t]
    /\ UNCHANGED waiting

Wait(t, m) ==
    /\ Active(t) /\ owner[m] \notin {NoThread, t}
    /\ waiting' = [waiting EXCEPT ![m] = @ \cup {t}]
    /\ UNCHANGED owner

Release(t, m) ==
    /\ Active(t) /\ owner[m] = t /\ waiting[m] = {}
    /\ owner' = [owner EXCEPT ![m] = NoThread]
    /\ UNCHANGED waiting

HandOver(t, m, u) ==
    /\ Active(t) /\ owner[m] = t /\ u \in waiting[m]
    /\ owner' = [owner EXCEPT ![m] = u]
    /\ waiting' = [waiting EXCEPT ![m] = @ \ {u}]

ANext == \E t \in Thread, m \in Mutex :
            \/ Take(t, m) \/ Wait(t, m) \/ Release(t, m)
            \/ \E u \in Thread : HandOver(t, m, u)

ASpec == AInit /\ [][ANext]_avars
=============================================================================
