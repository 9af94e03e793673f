------------------------------ MODULE ChMutex ------------------------------
(***************************************************************************)
(* The mutexes of ChKernel used as its documentation asks: every thread    *)
(* takes them in one global order and gives them back in the reverse       *)
(* order, and sleeps and wakes whenever it likes, mutexes in hand or not.  *)
(* The interrupts that end a sleep come between any two calls.             *)
(***************************************************************************)
EXTENDS ChKernel

CONSTANTS
    Idle,      \* the idle thread, which calls nothing
    BasePrio,  \* the priority each thread is created with
    Rank       \* the order in which threads take mutexes

VARIABLE k     \* the kernel

Worker == Thread \ {Idle}

ASSUME IdleAssumption ==
    /\ Idle \in Thread
    /\ BasePrio \in [Thread -> Nat]
    /\ \A t \in Worker : BasePrio[t] > BasePrio[Idle]
ASSUME RankAssumption ==
    /\ Rank \in [Mutex -> Nat]
    /\ \A m, x \in Mutex : Rank[m] = Rank[x] => m = x
    /\ IsFiniteSet(Mutex)

\* The idle thread runs, the others sleep with no mutex.
Init ==
    k = [cur   |-> Idle,
         ready |-> <<>>,
         st    |-> [t \in Thread |-> IF t = Idle THEN "CURRENT" ELSE "SLEEPING"],
         prio  |-> BasePrio,
         real  |-> BasePrio,
         held  |-> [t \in Thread |-> <<>>],
         own   |-> [m \in Mutex |-> NoThread],
         wq    |-> [m \in Mutex |-> <<>>]]

LockM(t, m) ==
    /\ t = k.cur /\ t # Idle
    /\ k.held[t] # <<>> => Rank[m] > Rank[Head(k.held[t])]
    /\ k' = Lock(k, m)

UnlockM(t, m) ==
    /\ t = k.cur
    /\ k.held[t] # <<>> /\ m = Head(k.held[t])
    /\ k' = Unlock(k, m)

Sleep(t) ==
    /\ t = k.cur /\ t # Idle
    /\ k' = GoSleepS(k, "SLEEPING")

\* The timer interrupt of the sleep.
Wake(t) ==
    /\ k.st[t] = "SLEEPING"
    /\ k' = WakeupS(k, t)

Next == \E t \in Thread :
            \/ Sleep(t) \/ Wake(t)
            \/ \E m \in Mutex : LockM(t, m) \/ UnlockM(t, m)

\* Sleeps end, and a mutex that its owner could give back again and again is
\* given back in the end: what the callers of a mutex owe each other.
Spec == /\ Init /\ [][Next]_k
        /\ \A t \in Worker : WF_k(Wake(t))
        /\ \A m \in Mutex : SF_k(\E t \in Worker : UnlockM(t, m))
-----------------------------------------------------------------------------
(* Properties *)

Prios == {BasePrio[t] : t \in Thread}

\* Each thread is in the place its state says and in no other, and mutexes,
\* their owners and the lists of the owners agree: the links of one thread
\* serve the ready list and the queues of mutexes in turn.
Placed ==
    /\ \A t \in Thread :
         /\ k.st[t] = "CURRENT" <=> t = k.cur
         /\ k.st[t] = "READY" <=> t \in ToSet(k.ready)
         /\ k.st[t] = "WTMTX" <=> \E m \in Mutex : t \in ToSet(k.wq[m])
         /\ \A m, x \in Mutex :
               t \in ToSet(k.wq[m]) \cap ToSet(k.wq[x]) => m = x
    /\ \A m \in Mutex, t \in Thread : k.own[m] = t <=> m \in ToSet(k.held[t])
    /\ \A m \in Mutex : k.wq[m] # <<>> => k.own[m] # NoThread

\* The kernel state is well formed, links included; threads of this module
\* only wait in the ways it lets them.
TypeOK ==
    /\ k \in KernelType(Prios)
    /\ \A t \in Thread : k.st[t] \in {"CURRENT", "READY", "SLEEPING", "WTMTX"}
    /\ Placed

Sorted(q) == \A i, j \in 1 .. Len(q) :
                i < j => k.prio[q[i]] >= k.prio[q[j]] /\ q[i] # q[j]

\* Priorities that change while a thread is queued leave every queue in order,
\* and nobody ready has a higher priority than the thread that runs, although
\* locking raises priorities and unlocking lowers the caller's.
PriorityOrder ==
    /\ Sorted(k.ready) /\ \A m \in Mutex : Sorted(k.wq[m])
    /\ \A t \in ToSet(k.ready) : k.prio[t] <= k.prio[k.cur]

Waiters(t) == UNION {ToSet(k.wq[m]) : m \in ToSet(k.held[t])}

\* A thread has the highest of its own priority and those of the threads that
\* wait for it, no less (inversion) and no more (a boost that outlives the
\* mutex it was for), over nested mutexes and chains of owners.
Inherited == \A t \in Thread :
    k.prio[t] = Max({k.real[t]} \cup {k.prio[u] : u \in Waiters(t)})

\* u cannot go on before t does.
Blocks(t, u) == t \in Chain(k, u, Thread)

\* No inversion: while a thread waits for a mutex, the processor runs a thread
\* of at least its priority, unless the one it waits for in the end sleeps of
\* its own accord.
NoInversion == \A u \in Thread :
    k.st[u] = "WTMTX" =>
        \/ k.prio[k.cur] >= k.prio[u]
        \/ \E t \in Thread : Blocks(t, u) /\ k.st[t] = "SLEEPING"

\* The thread of the highest priority gets the mutex it waits for, whatever
\* the others do with theirs.
TopGetsMutex ==
    \A t \in Worker : (\A u \in Thread \ {t} : BasePrio[t] > BasePrio[u]) =>
        (k.st[t] = "WTMTX" ~> k.st[t] # "WTMTX")

\* The service of AbstractMutex.
Service == INSTANCE AbstractMutex
    WITH owner <- k.own, waiting <- [m \in Mutex |-> ToSet(k.wq[m])]

IsMutex == Service!ASpec
=============================================================================
