----------------------------- MODULE ChKernel -----------------------------
(***************************************************************************)
(* The part of the ChibiOS/RT kernel the program stands on: the ready      *)
(* list, the switch from one thread to the next, and mutexes with priority *)
(* inheritance.  Every operator maps a state of the kernel to the state a  *)
(* system call made by the running thread (or an interrupt) leaves, all of *)
(* it inside one critical section.                                         *)
(*                                                                         *)
(* A kernel state is a record k with                                       *)
(*   k.cur      the running thread (rlist.current)                         *)
(*   k.ready    the ready list, highest priority first                     *)
(*   k.st[t]    the state of a thread (state)                              *)
(*   k.prio[t]  its priority, inheritance included (hdr.pqueue.prio)       *)
(*   k.real[t]  its own priority (realprio)                                *)
(*   k.held[t]  the mutexes it owns, the last taken first (mtxlist)        *)
(*   k.own[m]   the owner of a mutex, or NoThread (owner)                  *)
(*   k.wq[m]    the threads waiting for it, in order (queue)               *)
(*                                                                         *)
(* The build has one core, no time slices (CH_CFG_TIME_QUANTUM = 0), no    *)
(* recursive mutexes and no assertions.                                    *)
(***************************************************************************)
EXTENDS Integers, Sequences, SequencesExt

CONSTANTS Thread, Mutex, NoThread

ASSUME NoThreadAssumption == NoThread \notin Thread

States == {"CURRENT", "READY", "WTSTART", "SUSPENDED", "QUEUED", "WTMTX",
           "SLEEPING"}

KernelType(prios) ==
    [cur   : Thread,
     ready : Seq(Thread),
     st    : [Thread -> States],
     prio  : [Thread -> prios],
     real  : [Thread -> prios],
     held  : [Thread -> Seq(Mutex)],
     own   : [Mutex -> Thread \cup {NoThread}],
     wq    : [Mutex -> Seq(Thread)]]
-----------------------------------------------------------------------------
(* Queues ordered by priority *)

\* The place ahead of the first thread of q that is in After, or the end.
Place(q, After) ==
    CHOOSE i \in 1 .. Len(q) + 1 :
        /\ i <= Len(q) => q[i] \in After
        /\ \A j \in 1 .. i - 1 : q[j] \notin After

\* Behind the threads of the same priority, and ahead of them.
InsertBehind(q, t, prio) ==
    InsertAt(q, Place(q, {u \in Thread : prio[u] < prio[t]}), t)
InsertAhead(q, t, prio) ==
    InsertAt(q, Place(q, {u \in Thread : prio[u] <= prio[t]}), t)
-----------------------------------------------------------------------------
(* Scheduler *)

\* chSchReadyI: t becomes ready, behind its peers.
ReadyI(k, t) ==
    [k EXCEPT !.st[t] = "READY", !.ready = InsertBehind(@, t, k.prio)]

\* The first ready thread runs; the running one is left in state s.
SwitchTo(k, s) ==
    [k EXCEPT !.st[k.cur] = s, !.st[Head(k.ready)] = "CURRENT",
              !.cur = Head(k.ready), !.ready = Tail(@)]

\* chSchGoSleepS.
GoSleepS(k, s) == SwitchTo(k, s)

\* chSchRescheduleS, and chSchPreemption at the end of an interrupt: only a
\* thread of higher priority takes over, the running one stays first among
\* its peers.
RescheduleS(k) ==
    IF k.ready # <<>> /\ k.prio[Head(k.ready)] > k.prio[k.cur]
    THEN [SwitchTo(k, "READY") EXCEPT !.ready = InsertAhead(@, k.cur, k.prio)]
    ELSE k

\* chSchWakeupS, and __sch_wakeup followed by the end of the interrupt.
WakeupS(k, t) == RescheduleS(ReadyI(k, t))

\* chThdSetPriority by the running thread.
SetPriority(k, p) ==
    RescheduleS([k EXCEPT
        !.prio[k.cur] = IF @ = k.real[k.cur] \/ p > @ THEN p ELSE @,
        !.real[k.cur] = p])
-----------------------------------------------------------------------------
(* Mutexes *)

\* The mutex a thread sleeps on (u.wtmtxp).
WaitsOn(k, t) == CHOOSE m \in Mutex : t \in ToSet(k.wq[m])

\* Variant: only the owner of the mutex inherits, not those it waits for.
Boosted_OwnerOnly(k, m, p) ==
    {t \in Thread : t = k.own[m] /\ k.prio[t] < p}

\* Variant: nobody inherits.
Boosted_None(k, m, p) == {}

\* The threads of Among on the way from t to whom it waits for: t, the owner
\* of the mutex t waits for, and so on up to the first that does not wait or
\* is not in Among (the least such set).
Chain(k, t, Among) ==
    LET Closed(S) ==
            /\ t \in Among => t \in S
            /\ \A u \in S : LET o == k.own[WaitsOn(k, u)]
                           IN  k.st[u] = "WTMTX" /\ o \in Among => o \in S
    IN  {u \in Among : \A S \in SUBSET Among : Closed(S) => u \in S}

\* The owner of m and those it waits for, up to the first that does not wait
\* or has priority p already.
Boosted(k, m, p) == Chain(k, k.own[m], {t \in Thread : k.prio[t] < p})

\* Variant: the thread keeps its place.
Requeue_InPlace(q, t, prio) == q

\* t is taken out of q and put back where its new priority belongs.
Requeue(q, t, prio) ==
    InsertBehind(RemoveAt(q, CHOOSE i \in 1 .. Len(q) : q[i] = t), t, prio)

\* The thread of B that is in q is put back, if there is one.
RequeueAny(q, B, prio) ==
    IF B \cap ToSet(q) = {} THEN q
    ELSE Requeue(q, CHOOSE t \in B : t \in ToSet(q), prio)

\* The inheritance loop of chMtxLockS, for the running thread to wait for m.
Inherit(k, m) ==
    LET p    == k.prio[k.cur]
        B    == Boosted(k, m, p)
        prio == [t \in Thread |-> IF t \in B THEN p ELSE k.prio[t]]
    IN  [k EXCEPT !.prio  = prio,
                  !.ready = RequeueAny(@, B, prio),
                  !.wq    = [x \in Mutex |-> RequeueAny(k.wq[x], B, prio)]]

\* chMtxLock by the running thread: it owns m, or sleeps in its queue.
Lock(k, m) ==
    IF k.own[m] = NoThread
    THEN [k EXCEPT !.own[m] = k.cur, !.held[k.cur] = <<m>> \o @]
    ELSE LET b == Inherit(k, m)
         IN  GoSleepS([b EXCEPT !.wq[m] = InsertBehind(@, k.cur, b.prio)],
                      "WTMTX")

\* What mtxlist holds behind m: the mutexes taken before it.
HeldBefore(s, m) ==
    SubSeq(s, 1 + CHOOSE i \in 1 .. Len(s) : s[i] = m, Len(s))

\* Variant: the priority goes back to the thread's own at once.
NewPrio_Real(k, t, ms) == k.real[t]

\* The priority of t while it owns the mutexes ms and no other.
NewPrio(k, t, ms) ==
    Max({k.real[t]} \cup {k.prio[Head(k.wq[m])] : m \in {x \in ms : k.wq[x] # <<>>}})

\* Variant: the waiter is woken but not made the owner.
Unlock_NoOwner(k, m) ==
    LET rest == HeldBefore(k.held[k.cur], m)
        k1   == [k EXCEPT !.held[k.cur] = rest, !.own[m] = NoThread]
    IN  IF k.wq[m] = <<>> THEN k1
        ELSE RescheduleS(ReadyI([k1 EXCEPT !.wq[m] = Tail(@),
                 !.prio[k.cur] = NewPrio(k, k.cur, ToSet(rest))],
                 Head(k.wq[m])))

\* Variant: the new owner's list does not hold the mutex.
Unlock_NotListed(k, m) ==
    LET rest == HeldBefore(k.held[k.cur], m)
        k1   == [k EXCEPT !.held[k.cur] = rest]
    IN  IF k.wq[m] = <<>> THEN [k1 EXCEPT !.own[m] = NoThread]
        ELSE RescheduleS(ReadyI([k1 EXCEPT !.wq[m] = Tail(@),
                 !.own[m] = Head(k.wq[m]),
                 !.prio[k.cur] = NewPrio(k, k.cur, ToSet(rest))],
                 Head(k.wq[m])))

\* chMtxUnlock by the running thread.  Whatever was taken after m leaves
\* mtxlist with it: the code relies on m being the last taken.
Unlock(k, m) ==
    LET t    == k.cur
        rest == HeldBefore(k.held[t], m)
        k1   == [k EXCEPT !.held[t] = rest]
    IN  IF k.wq[m] = <<>>
        THEN [k1 EXCEPT !.own[m] = NoThread]
        ELSE LET u  == Head(k.wq[m])
                 k2 == [k1 EXCEPT !.prio[t] = NewPrio(k, t, ToSet(rest)),
                                  !.wq[m] = Tail(@), !.own[m] = u,
                                  !.held[u] = <<m>> \o @]
             IN  RescheduleS(ReadyI(k2, u))
=============================================================================
