--------------------------- MODULE ChKernelProofs ---------------------------
(***************************************************************************)
(* What each system call of ChKernel does to the kernel it is made in, for *)
(* any threads, mutexes and priorities: every thread stays in the one      *)
(* place its state says, queues keep their order.                          *)
(***************************************************************************)
EXTENDS ChKernel, ListProofs

-----------------------------------------------------------------------------
(* Queues ordered by priority *)

\* The threads of q come in the order of their priorities, highest first.
OrderedBy(q, prio) ==
    \A i, j \in 1 .. Len(q) : i < j => prio[q[i]] >= prio[q[j]]

\* There is a place to insert at, and all ahead of it stay ahead.
LEMMA PlaceIs ==
    ASSUME NEW S, NEW q \in Seq(S), NEW A
    PROVE  /\ Place(q, A) \in 1 .. Len(q) + 1
           /\ Place(q, A) <= Len(q) => q[Place(q, A)] \in A
           /\ \A j \in 1 .. Place(q, A) - 1 : q[j] \notin A
<1> DEFINE T == {i \in 1 .. Len(q) + 1 : i <= Len(q) => q[i] \in A}
<1>1. T \in SUBSET Nat /\ T # {}
  <2>1. Len(q) + 1 \in T
    OBVIOUS
  <2> QED BY <2>1
<1>2. PICK i \in T : \A j \in T : i <= j
  BY <1>1, NatMin
<1>3. ASSUME NEW j \in 1 .. i - 1 PROVE q[j] \notin A
  <2>1. j \in 1 .. Len(q) /\ ~(i <= j)
    OBVIOUS
  <2> QED BY <1>2, <2>1
<1>4. \E n \in 1 .. Len(q) + 1 : /\ n <= Len(q) => q[n] \in A
                                 /\ \A j \in 1 .. n - 1 : q[j] \notin A
  BY <1>3
<1> QED BY <1>4 DEF Place

\* The first of a list and the rest.
LEMMA HeadTail ==
    ASSUME NEW S, NEW s \in Seq(S), s # <<>>, IsInjective(s)
    PROVE  /\ Head(s) \in S /\ Tail(s) \in Seq(S) /\ IsInjective(Tail(s))
           /\ ToSet(s) = ToSet(Tail(s)) \cup {Head(s)} /\ Head(s) \notin ToSet(Tail(s))
           /\ Len(s) \in Nat /\ Len(Tail(s)) = Len(s) - 1
           /\ \A j \in 1 .. Len(s) - 1 : Tail(s)[j] = s[j + 1]
<1>1. /\ Len(s) \in Nat /\ Len(s) > 0 /\ Head(s) = s[1] /\ Head(s) \in S
      /\ Tail(s) \in Seq(S) /\ Len(Tail(s)) = Len(s) - 1
      /\ \A j \in 1 .. Len(s) - 1 : Tail(s)[j] = s[j + 1]
  OBVIOUS
<1>2. DOMAIN s = 1 .. Len(s) /\ DOMAIN Tail(s) = 1 .. Len(s) - 1
  BY <1>1
<1>3. \A a, b \in 1 .. Len(s) : s[a] = s[b] => a = b
  BY <1>2 DEF IsInjective
<1>4. ToSet(s) = {s[i] : i \in 1 .. Len(s)}
  BY <1>2 DEF ToSet
<1>5. ToSet(Tail(s)) = {s[j + 1] : j \in 1 .. Len(s) - 1}
  BY <1>1, <1>2 DEF ToSet
<1>6. ASSUME NEW i \in 1 .. Len(s) PROVE i = 1 \/ (i - 1 \in 1 .. Len(s) - 1 /\ (i - 1) + 1 = i)
  BY <1>1
<1>7. ToSet(s) = ToSet(Tail(s)) \cup {Head(s)}
  <2>1. ASSUME NEW x \in ToSet(s) PROVE x \in ToSet(Tail(s)) \cup {Head(s)}
    <3>1. PICK i \in 1 .. Len(s) : x = s[i]
      BY <1>4
    <3> QED BY <1>1, <1>5, <1>6, <3>1
  <2>2. ASSUME NEW x \in ToSet(Tail(s)) \cup {Head(s)} PROVE x \in ToSet(s)
    BY <1>1, <1>4, <1>5
  <2> QED BY <2>1, <2>2
<1>8. Head(s) \notin ToSet(Tail(s))
  BY <1>1, <1>3, <1>5
<1>9. IsInjective(Tail(s))
  BY <1>1, <1>2, <1>3 DEF IsInjective
<1> QED BY <1>1, <1>7, <1>8, <1>9

\* Both insertions keep a list without repetition and in order.
LEMMA InsertIs ==
    ASSUME NEW q \in Seq(Thread), IsInjective(q), NEW t \in Thread, t \notin ToSet(q),
           NEW prio \in [Thread -> Int],
           NEW r \in {InsertBehind(q, t, prio), InsertAhead(q, t, prio)}
    PROVE  /\ r \in Seq(Thread) /\ IsInjective(r) /\ ToSet(r) = ToSet(q) \cup {t}
           /\ OrderedBy(q, prio) => OrderedBy(r, prio)
<1>1. PICK A : /\ A = {u \in Thread : prio[u] < prio[t]} \/ A = {u \in Thread : prio[u] <= prio[t]}
               /\ r = InsertAt(q, Place(q, A), t)
  BY DEF InsertBehind, InsertAhead
<1> DEFINE p == Place(q, A)
<1>2. /\ p \in 1 .. Len(q) + 1 /\ (p <= Len(q) => q[p] \in A)
      /\ \A j \in 1 .. p - 1 : q[j] \notin A
  BY PlaceIs
<1>0. r = InsertAt(q, p, t)
  BY <1>1
<1> HIDE DEF p
<1>3. r \in Seq(Thread) /\ IsInjective(r) /\ ToSet(r) = ToSet(q) \cup {t}
  BY <1>0, <1>2, InsertAtIs
<1>4. /\ Len(r) = Len(q) + 1
      /\ \A j \in 1 .. Len(q) + 1 :
           r[j] = IF j < p THEN q[j] ELSE IF j = p THEN t ELSE q[j - 1]
  <2>1. /\ Len(InsertAt(q, p, t)) = Len(q) + 1
        /\ \A j \in 1 .. Len(q) + 1 :
             InsertAt(q, p, t)[j] = IF j < p THEN q[j] ELSE IF j = p THEN t ELSE q[j - 1]
    BY <1>2, InsertAtElements
  <2> QED BY <1>0, <2>1, Zenon
<1>5. ASSUME OrderedBy(q, prio) PROVE OrderedBy(r, prio)
  <2>1. \A j \in 1 .. Len(q) : q[j] \in Thread
    OBVIOUS
  <2>2. ASSUME NEW j \in 1 .. Len(q), j < p PROVE prio[q[j]] >= prio[t]
    BY <1>1, <1>2, <2>1, <2>2
  <2>3. ASSUME NEW j \in 1 .. Len(q), j >= p PROVE prio[q[j]] <= prio[t]
    <3>1. prio[q[p]] <= prio[t] /\ p \in 1 .. Len(q)
      BY <1>1, <1>2, <2>1, <2>3
    <3>2. prio[q[j]] <= prio[q[p]]
      BY <1>5, <2>1, <2>3, <3>1 DEF OrderedBy
    <3> QED BY <2>1, <3>1, <3>2
  <2>4. SUFFICES ASSUME NEW i \in 1 .. Len(q) + 1, NEW j \in 1 .. Len(q) + 1, i < j
                 PROVE  prio[r[i]] >= prio[r[j]]
    BY <1>4 DEF OrderedBy
  <2>5. CASE j < p
    <3>1. i \in 1 .. Len(q) /\ j \in 1 .. Len(q) /\ r[i] = q[i] /\ r[j] = q[j]
      BY <1>2, <1>4, <2>4, <2>5
    <3> QED BY <1>5, <2>4, <3>1 DEF OrderedBy
  <2>6. CASE j = p
    BY <1>4, <2>2, <2>4, <2>6
  <2>7. CASE j > p
    <3>1. j - 1 \in 1 .. Len(q) /\ r[j] = q[j - 1] /\ j - 1 >= p
      BY <1>2, <1>4, <2>7
    <3>2. CASE i = p
      BY <1>4, <2>3, <3>1, <3>2
    <3>3. CASE i < p
      <4>1. i \in 1 .. Len(q) /\ i < j - 1 /\ r[i] = q[i]
        BY <1>2, <1>4, <2>7, <3>3
      <4> QED BY <1>5, <3>1, <4>1 DEF OrderedBy
    <3>4. CASE i > p
      <4>1. i - 1 \in 1 .. Len(q) /\ i - 1 < j - 1 /\ r[i] = q[i - 1]
        BY <1>2, <1>4, <2>4, <3>4
      <4> QED BY <1>5, <3>1, <4>1 DEF OrderedBy
    <3> QED BY <1>2, <3>2, <3>3, <3>4
  <2> QED BY <1>2, <2>5, <2>6, <2>7
<1> QED BY <1>3, <1>5

\* r has the threads of q, in the order of prio if only t has changed since q was.
Requeued(q, t, prio, old, r) ==
    /\ r \in Seq(Thread) /\ IsInjective(r) /\ ToSet(r) = ToSet(q)
    /\ (\A u \in ToSet(q) : u # t => prio[u] = old[u])
           => (OrderedBy(q, old) => OrderedBy(r, prio))

\* A thread whose priority has changed goes to its new place, and no other moves.
LEMMA RequeueIs ==
    ASSUME NEW q \in Seq(Thread), IsInjective(q), NEW t \in ToSet(q),
           NEW prio \in [Thread -> Int], NEW old
    PROVE  Requeued(q, t, prio, old, Requeue(q, t, prio))
<1> DEFINE p == CHOOSE i \in 1 .. Len(q) : q[i] = t
           r == RemoveAt(q, p)
<1>1. p \in 1 .. Len(q) /\ q[p] = t /\ t \in Thread
  <2>1. DOMAIN q = 1 .. Len(q)
    OBVIOUS
  <2> QED BY <2>1 DEF ToSet
<1>2. Requeue(q, t, prio) = InsertBehind(r, t, prio)
  BY DEF Requeue
<1> HIDE DEF p
<1>3. r \in Seq(Thread) /\ IsInjective(r) /\ ToSet(r) = ToSet(q) \ {t}
  BY <1>1, RemoveAtIs
<1>4. /\ Len(r) = Len(q) - 1
      /\ \A j \in 1 .. Len(q) - 1 : r[j] = IF j < p THEN q[j] ELSE q[j + 1]
  BY <1>1, RemoveAtElements
<1> HIDE DEF r
<1>5. ASSUME OrderedBy(q, old), \A u \in ToSet(q) : u # t => prio[u] = old[u]
      PROVE  OrderedBy(r, prio)
  <2> SUFFICES ASSUME NEW i \in 1 .. Len(q) - 1, NEW j \in 1 .. Len(q) - 1, i < j
               PROVE  prio[r[i]] >= prio[r[j]]
    BY <1>4 DEF OrderedBy
  <2>1. old[r[i]] >= old[r[j]]
    <3> DEFINE At(n) == IF n < p THEN n ELSE n + 1
    <3>1. \A n \in 1 .. Len(q) - 1 : At(n) \in 1 .. Len(q) /\ r[n] = q[At(n)]
      BY <1>4
    <3>2. At(i) < At(j)
      BY <1>1
    <3> HIDE DEF At
    <3> QED BY <1>5, <3>1, <3>2 DEF OrderedBy
  <2>2. r[i] \in ToSet(r) /\ r[j] \in ToSet(r)
    <3>1. DOMAIN r = 1 .. Len(q) - 1
      BY <1>3, <1>4
    <3> QED BY <3>1 DEF ToSet
  <2> QED BY <1>3, <1>5, <2>1, <2>2
<1>6. t \notin ToSet(r) /\ ToSet(q) = ToSet(r) \cup {t}
  BY <1>3
<1>7. InsertBehind(r, t, prio) \in {InsertBehind(r, t, prio), InsertAhead(r, t, prio)}
  OBVIOUS
<1> DEFINE w == InsertBehind(r, t, prio)
<1>8. /\ w \in Seq(Thread) /\ IsInjective(w) /\ ToSet(w) = ToSet(r) \cup {t}
      /\ OrderedBy(r, prio) => OrderedBy(w, prio)
  BY <1>1, <1>3, <1>6, <1>7, InsertIs
<1> HIDE DEF w
<1>9. Requeued(q, t, prio, old, w)
  BY <1>5, <1>6, <1>8 DEF Requeued
<1> QED BY <1>2, <1>9 DEF w
-----------------------------------------------------------------------------
(* Scheduler *)

\* A thread is where its state says.
InPlace(k, t) ==
    /\ k.st[t] = "CURRENT" <=> t = k.cur
    /\ k.st[t] = "READY" <=> t \in ToSet(k.ready)
    /\ k.st[t] = "WTMTX" <=> \E m \in Mutex : t \in ToSet(k.wq[m])

\* No thread is in a queue twice or in the queues of two mutexes, and each
\* but those of X is where its state says.
Settled(k, X) ==
    /\ IsInjective(k.ready) /\ \A m \in Mutex : IsInjective(k.wq[m])
    /\ \A m, x \in Mutex : ToSet(k.wq[m]) \cap ToSet(k.wq[x]) # {} => m = x
    /\ \A t \in Thread \ X : InPlace(k, t)

\* Every queue is in the order of the priorities.
Ordered(k) ==
    OrderedBy(k.ready, k.prio) /\ \A m \in Mutex : OrderedBy(k.wq[m], k.prio)

\* No ready thread has a higher priority than the running one.
Highest(k) == \A t \in ToSet(k.ready) : k.prio[t] <= k.prio[k.cur]

\* What a system call leaves alone besides.
SameMutexes(k, r) ==
    r.prio = k.prio /\ r.real = k.real /\ r.held = k.held /\ r.own = k.own
    /\ r.wq = k.wq

Able(k, t) == k.st[t] \in {"CURRENT", "READY"}

LEMMA KernelFields ==
    ASSUME NEW P, NEW k \in KernelType(P)
    PROVE  /\ k.cur \in Thread /\ k.ready \in Seq(Thread) /\ k.st \in [Thread -> States]
           /\ k.prio \in [Thread -> P] /\ k.real \in [Thread -> P]
           /\ k.held \in [Thread -> Seq(Mutex)]
           /\ k.own \in [Mutex -> Thread \cup {NoThread}]
           /\ k.wq \in [Mutex -> Seq(Thread)]
  BY DEF KernelType

\* A record of the right fields is a kernel.
LEMMA KernelRecord ==
    ASSUME NEW P, NEW cur \in Thread, NEW ready \in Seq(Thread), NEW st \in [Thread -> States],
           NEW prio \in [Thread -> P], NEW real \in [Thread -> P],
           NEW held \in [Thread -> Seq(Mutex)],
           NEW own \in [Mutex -> Thread \cup {NoThread}], NEW wq \in [Mutex -> Seq(Thread)]
    PROVE  [cur |-> cur, ready |-> ready, st |-> st, prio |-> prio, real |-> real,
            held |-> held, own |-> own, wq |-> wq] \in KernelType(P)
  BY DEF KernelType

\* r is k with t ready, in its place.
Readied(P, k, t, r) ==
    /\ r \in KernelType(P) /\ Settled(r, {}) /\ SameMutexes(k, r)
    /\ r.cur = k.cur /\ r.st = [k.st EXCEPT ![t] = "READY"]
    /\ ToSet(r.ready) = ToSet(k.ready) \cup {t}
    /\ Ordered(k) => Ordered(r)

\* The thread that becomes ready is put in its place, behind its peers.
LEMMA ReadyIIs ==
    ASSUME NEW P \in SUBSET Int, NEW k \in KernelType(P), NEW t \in Thread,
           t # k.cur, t \notin ToSet(k.ready), \A m \in Mutex : t \notin ToSet(k.wq[m]),
           Settled(k, {t}), NEW r, r = ReadyI(k, t)
    PROVE  Readied(P, k, t, r)
<1>0. /\ k.cur \in Thread /\ k.ready \in Seq(Thread) /\ k.st \in [Thread -> States]
      /\ k.prio \in [Thread -> P] /\ k.real \in [Thread -> P]
      /\ k.held \in [Thread -> Seq(Mutex)]
      /\ k.own \in [Mutex -> Thread \cup {NoThread}] /\ k.wq \in [Mutex -> Seq(Thread)]
  BY KernelFields
<1>1. /\ r.cur = k.cur /\ r.st = [k.st EXCEPT ![t] = "READY"] /\ SameMutexes(k, r)
      /\ r.ready = InsertBehind(k.ready, t, k.prio)
      /\ r = [cur |-> k.cur, ready |-> r.ready, st |-> r.st, prio |-> k.prio,
              real |-> k.real, held |-> k.held, own |-> k.own, wq |-> k.wq]
  BY DEF ReadyI, KernelType, SameMutexes
<1>2. k.prio \in [Thread -> Int] /\ IsInjective(k.ready)
  BY <1>0 DEF Settled
<1>3. /\ r.ready \in Seq(Thread) /\ IsInjective(r.ready)
      /\ ToSet(r.ready) = ToSet(k.ready) \cup {t}
      /\ OrderedBy(k.ready, k.prio) => OrderedBy(r.ready, k.prio)
  BY <1>0, <1>1, <1>2, InsertIs
<1>4. r \in KernelType(P)
  <2>1. r.st \in [Thread -> States]
    BY <1>0, <1>1 DEF States
  <2> DEFINE s == r.st
             q == r.ready
  <2>2. [cur |-> k.cur, ready |-> q, st |-> s, prio |-> k.prio, real |-> k.real,
         held |-> k.held, own |-> k.own, wq |-> k.wq] \in KernelType(P)
    BY <1>0, <1>3, <2>1, KernelRecord
  <2> QED BY <1>1, <2>2
<1>5. Settled(r, {})
  <2>1. ASSUME NEW u \in Thread PROVE InPlace(r, u)
    <3>1. CASE u = t
      BY <1>0, <1>1, <1>3, <3>1 DEF InPlace, SameMutexes
    <3>2. CASE u # t
      BY <1>0, <1>1, <1>3, <3>2 DEF InPlace, Settled, SameMutexes
    <3> QED BY <3>1, <3>2
  <2> QED BY <1>0, <1>1, <1>3, <2>1 DEF Settled, SameMutexes
<1>6. Ordered(k) => Ordered(r)
  BY <1>1, <1>3 DEF Ordered, SameMutexes
<1> QED BY <1>0, <1>1, <1>3, <1>4, <1>5, <1>6 DEF Readied

\* The first ready thread takes over; where the one that ran goes is open.
LEMMA SwitchIs ==
    ASSUME NEW P \in SUBSET Int, NEW k \in KernelType(P), k.ready # <<>>,
           k.cur \notin ToSet(k.ready), Settled(k, {k.cur}),
           NEW s \in States, NEW r, r = SwitchTo(k, s)
    PROVE  /\ r \in KernelType(P) /\ SameMutexes(k, r)
           /\ r.cur \in ToSet(k.ready) /\ r.cur # k.cur /\ k.cur \notin ToSet(r.ready)
           /\ ToSet(k.ready) = ToSet(r.ready) \cup {r.cur}
           /\ r.st[k.cur] = s /\ r.st[r.cur] = "CURRENT"
           /\ \A t \in Thread \ {k.cur, r.cur} : r.st[t] = k.st[t]
           /\ Settled(r, {k.cur})
           /\ Ordered(k) => Ordered(r) /\ Highest(r)
<1>0. /\ k.cur \in Thread /\ k.ready \in Seq(Thread) /\ k.st \in [Thread -> States]
      /\ k.prio \in [Thread -> P] /\ k.real \in [Thread -> P]
      /\ k.held \in [Thread -> Seq(Mutex)]
      /\ k.own \in [Mutex -> Thread \cup {NoThread}] /\ k.wq \in [Mutex -> Seq(Thread)]
  BY KernelFields
<1> DEFINE h == Head(k.ready)
           q == Tail(k.ready)
           st == [t \in Thread |-> IF t = k.cur THEN s
                                   ELSE IF t = h THEN "CURRENT" ELSE k.st[t]]
<1>1. /\ h \in Thread /\ q \in Seq(Thread) /\ IsInjective(q)
      /\ ToSet(k.ready) = ToSet(q) \cup {h} /\ h \notin ToSet(q)
      /\ Len(k.ready) \in Nat /\ Len(q) = Len(k.ready) - 1
      /\ \A j \in 1 .. Len(k.ready) - 1 : q[j] = k.ready[j + 1]
  BY <1>0, HeadTail DEF Settled
<1>2. h # k.cur
  BY <1>1
<1>3. r = [cur |-> h, ready |-> q, st |-> st, prio |-> k.prio, real |-> k.real,
           held |-> k.held, own |-> k.own, wq |-> k.wq]
  <2>1. [[k.st EXCEPT ![k.cur] = s] EXCEPT ![h] = "CURRENT"] = st
    BY <1>0, <1>1, <1>2
  <2>2. r = [k EXCEPT !.st = [[k.st EXCEPT ![k.cur] = s] EXCEPT ![h] = "CURRENT"],
                      !.cur = h, !.ready = q]
    BY DEF SwitchTo
  <2> HIDE DEF st, h, q
  <2> QED BY <2>1, <2>2 DEF KernelType
<1>4. st \in [Thread -> States]
  BY <1>0 DEF States
<1> HIDE DEF st, q
<1>5. r \in KernelType(P)
  <2>1. [cur |-> h, ready |-> q, st |-> st, prio |-> k.prio, real |-> k.real,
         held |-> k.held, own |-> k.own, wq |-> k.wq] \in KernelType(P)
    BY <1>0, <1>1, <1>4, KernelRecord
  <2> QED BY <1>3, <2>1
<1>6. /\ r.cur = h /\ r.ready = q /\ r.st = st /\ SameMutexes(k, r)
  BY <1>3 DEF SameMutexes
<1>7. Settled(r, {k.cur})
  <2>1. ASSUME NEW u \in Thread \ {k.cur} PROVE InPlace(r, u)
    <3>1. InPlace(k, u)
      BY <2>1 DEF Settled
    <3>2. CASE u = h
      <4>1. k.st[u] = "READY"
        BY <1>1, <3>1, <3>2 DEF InPlace
      <4> QED BY <1>1, <1>2, <1>6, <3>1, <3>2, <4>1 DEF InPlace, SameMutexes, st
    <3>3. CASE u # h
      BY <1>1, <1>6, <2>1, <3>1, <3>3 DEF InPlace, SameMutexes, st
    <3> QED BY <3>2, <3>3
  <2> QED BY <1>1, <1>6, <2>1 DEF Settled, SameMutexes
<1>8. ASSUME Ordered(k) PROVE Ordered(r) /\ Highest(r)
  <2>1. OrderedBy(k.ready, k.prio)
    BY <1>8 DEF Ordered
  <2>2. OrderedBy(q, k.prio)
    <3> SUFFICES ASSUME NEW i \in 1 .. Len(q), NEW j \in 1 .. Len(q), i < j
                 PROVE  k.prio[q[i]] >= k.prio[q[j]]
      BY DEF OrderedBy
    <3>1. /\ i + 1 \in 1 .. Len(k.ready) /\ j + 1 \in 1 .. Len(k.ready) /\ i + 1 < j + 1
          /\ q[i] = k.ready[i + 1] /\ q[j] = k.ready[j + 1]
      BY <1>1
    <3> QED BY <2>1, <3>1 DEF OrderedBy
  <2>3. ASSUME NEW t \in ToSet(q) PROVE k.prio[t] <= k.prio[h]
    <3>1. PICK j \in 1 .. Len(q) : t = q[j]
      <4>1. DOMAIN q = 1 .. Len(q)
        BY <1>1
      <4> QED BY <4>1 DEF ToSet
    <3>2. /\ 1 \in 1 .. Len(k.ready) /\ j + 1 \in 1 .. Len(k.ready) /\ 1 < j + 1
          /\ t = k.ready[j + 1] /\ h = k.ready[1]
      BY <1>0, <1>1, <3>1
    <3>3. k.prio[h] >= k.prio[t]
      BY <2>1, <3>2 DEF OrderedBy
    <3>4. k.prio[h] \in Int /\ k.prio[t] \in Int
      <4>1. t \in Thread
        BY <1>1, <3>1
      <4> QED BY <1>0, <1>1, <4>1
    <3> QED BY <3>3, <3>4
  <2> QED BY <1>6, <1>8, <2>2, <2>3 DEF Ordered, Highest, SameMutexes
<1>9. /\ r.st[k.cur] = s /\ r.st[r.cur] = "CURRENT"
      /\ \A t \in Thread \ {k.cur, r.cur} : r.st[t] = k.st[t]
  BY <1>0, <1>1, <1>2, <1>6 DEF st
<1> QED BY <1>1, <1>2, <1>5, <1>6, <1>7, <1>8, <1>9

\* A thread of higher priority takes over, the running one stays ready.
LEMMA RescheduleIs ==
    ASSUME NEW P \in SUBSET Int, NEW k \in KernelType(P), Settled(k, {}),
           NEW r, r = RescheduleS(k)
    PROVE  /\ r \in KernelType(P) /\ Settled(r, {}) /\ SameMutexes(k, r)
           /\ \A t \in Thread : Able(r, t) <=> Able(k, t)
           /\ \A t \in Thread : ~Able(k, t) => r.st[t] = k.st[t]
           /\ Ordered(k) => Ordered(r) /\ Highest(r)
<1>0. /\ k.cur \in Thread /\ k.ready \in Seq(Thread) /\ k.st \in [Thread -> States]
      /\ k.prio \in [Thread -> P] /\ k.real \in [Thread -> P]
      /\ k.held \in [Thread -> Seq(Mutex)]
      /\ k.own \in [Mutex -> Thread \cup {NoThread}] /\ k.wq \in [Mutex -> Seq(Thread)]
  BY KernelFields
<1>1. k.st[k.cur] = "CURRENT" /\ k.cur \notin ToSet(k.ready)
  BY <1>0 DEF Settled, InPlace
<1>2. CASE k.ready # <<>> /\ k.prio[Head(k.ready)] > k.prio[k.cur]
  <2> DEFINE w == SwitchTo(k, "READY")
             q == InsertAhead(w.ready, k.cur, k.prio)
  <2>1. r = [w EXCEPT !.ready = q]
    BY <1>2 DEF RescheduleS
  <2>2. Settled(k, {k.cur}) /\ "READY" \in States
    BY DEF Settled, States
  <2>3. /\ w \in KernelType(P) /\ SameMutexes(k, w)
        /\ w.cur \in ToSet(k.ready) /\ w.cur # k.cur /\ k.cur \notin ToSet(w.ready)
        /\ ToSet(k.ready) = ToSet(w.ready) \cup {w.cur}
        /\ w.st[k.cur] = "READY" /\ w.st[w.cur] = "CURRENT"
        /\ \A t \in Thread \ {k.cur, w.cur} : w.st[t] = k.st[t]
        /\ Settled(w, {k.cur})
        /\ Ordered(k) => Ordered(w) /\ Highest(w)
    BY <1>1, <1>2, <2>2, SwitchIs
  <2>10. w.cur = Head(k.ready)
    BY DEF SwitchTo, KernelType
  <2> HIDE DEF w
  <2>4. /\ w.cur \in Thread /\ w.ready \in Seq(Thread) /\ w.st \in [Thread -> States]
        /\ w.prio \in [Thread -> P] /\ w.real \in [Thread -> P]
        /\ w.held \in [Thread -> Seq(Mutex)]
        /\ w.own \in [Mutex -> Thread \cup {NoThread}] /\ w.wq \in [Mutex -> Seq(Thread)]
    BY <2>3, KernelFields
  <2>5. IsInjective(w.ready) /\ k.prio \in [Thread -> Int]
    BY <1>0, <2>3 DEF Settled
  <2>6. /\ q \in Seq(Thread) /\ IsInjective(q) /\ ToSet(q) = ToSet(w.ready) \cup {k.cur}
        /\ OrderedBy(w.ready, k.prio) => OrderedBy(q, k.prio)
    BY <1>0, <2>3, <2>4, <2>5, InsertIs
  <2> HIDE DEF q
  <2>7. /\ r.cur = w.cur /\ r.ready = q /\ r.st = w.st /\ SameMutexes(k, r)
        /\ r = [cur |-> w.cur, ready |-> q, st |-> w.st, prio |-> w.prio, real |-> w.real,
                held |-> w.held, own |-> w.own, wq |-> w.wq]
    BY <2>1, <2>3 DEF KernelType, SameMutexes
  <2>8. r \in KernelType(P)
    <3>1. [cur |-> w.cur, ready |-> q, st |-> w.st, prio |-> w.prio, real |-> w.real,
           held |-> w.held, own |-> w.own, wq |-> w.wq] \in KernelType(P)
      BY <2>4, <2>6, KernelRecord
    <3> QED BY <2>7, <3>1
  <2>9. Settled(r, {})
    <3>1. ASSUME NEW t \in Thread PROVE InPlace(r, t)
      <4>1. CASE t = k.cur
        <5>1. ~ \E m \in Mutex : t \in ToSet(k.wq[m])
          BY <1>1, <4>1 DEF Settled, InPlace
        <5> QED BY <1>0, <2>3, <2>6, <2>7, <4>1, <5>1 DEF InPlace, SameMutexes
      <4>2. CASE t # k.cur
        BY <2>3, <2>6, <2>7, <4>2 DEF InPlace, SameMutexes, Settled
      <4> QED BY <4>1, <4>2
    <3> QED BY <2>3, <2>6, <2>7, <3>1 DEF Settled, SameMutexes
  <2>11. ASSUME Ordered(k) PROVE Ordered(r) /\ Highest(r)
    <3>1. Ordered(r)
      BY <2>3, <2>6, <2>7, <2>11 DEF Ordered, SameMutexes
    <3>2. ASSUME NEW t \in ToSet(r.ready) PROVE k.prio[t] <= k.prio[w.cur]
      <4>1. CASE t = k.cur
        BY <1>0, <1>2, <2>4, <2>5, <2>10, <4>1
      <4>2. CASE t # k.cur
        BY <2>3, <2>6, <2>7, <2>11, <3>2, <4>2 DEF Highest, SameMutexes
      <4> QED BY <4>1, <4>2
    <3> QED BY <2>7, <3>1, <3>2 DEF Highest, SameMutexes
  <2>12. ASSUME NEW t \in Thread
         PROVE (Able(r, t) <=> Able(k, t)) /\ (~Able(k, t) => r.st[t] = k.st[t])
    <3>1. k.st[w.cur] = "READY"
      BY <2>3, <2>4 DEF Settled, InPlace
    <3> QED BY <1>1, <2>3, <2>7, <3>1 DEF Able
  <2> QED BY <2>7, <2>8, <2>9, <2>11, <2>12
<1>3. CASE ~(k.ready # <<>> /\ k.prio[Head(k.ready)] > k.prio[k.cur])
  <2>1. r = k
    BY <1>3 DEF RescheduleS
  <2>2. ASSUME Ordered(k), NEW t \in ToSet(k.ready) PROVE k.prio[t] <= k.prio[k.cur]
    <3>1. PICK j \in 1 .. Len(k.ready) : t = k.ready[j]
      <4>1. DOMAIN k.ready = 1 .. Len(k.ready)
        BY <1>0
      <4> QED BY <2>2, <4>1 DEF ToSet
    <3>2. /\ k.ready # <<>> /\ Head(k.ready) = k.ready[1] /\ Head(k.ready) \in Thread
          /\ 1 \in 1 .. Len(k.ready) /\ t \in Thread
      BY <1>0, <3>1
    <3>3. k.prio[Head(k.ready)] \in Int /\ k.prio[t] \in Int /\ k.prio[k.cur] \in Int
      BY <1>0, <3>2
    <3>4. k.prio[Head(k.ready)] <= k.prio[k.cur]
      BY <1>3, <3>2, <3>3
    <3>5. k.prio[Head(k.ready)] >= k.prio[t]
      <4>1. CASE j = 1
        BY <3>1, <3>2, <3>3, <4>1
      <4>2. CASE j # 1
        BY <2>2, <3>1, <3>2, <4>2 DEF Ordered, OrderedBy
      <4> QED BY <4>1, <4>2
    <3> QED BY <3>3, <3>4, <3>5
  <2> QED BY <2>1, <2>2 DEF Highest, SameMutexes
<1> QED BY <1>2, <1>3

\* The running thread goes to sleep, not in a queue, and the first takes over.
LEMMA GoSleepIs ==
    ASSUME NEW P \in SUBSET Int, NEW k \in KernelType(P), Settled(k, {}), k.ready # <<>>,
           NEW s \in {"SUSPENDED", "QUEUED", "SLEEPING"}, NEW r, r = GoSleepS(k, s)
    PROVE  /\ r \in KernelType(P) /\ Settled(r, {}) /\ SameMutexes(k, r)
           /\ r.st[k.cur] = s
           /\ \A t \in Thread \ {k.cur} : Able(r, t) <=> Able(k, t)
           /\ \A t \in Thread \ {k.cur} : ~Able(k, t) => r.st[t] = k.st[t]
           /\ Ordered(k) => Ordered(r) /\ Highest(r)
<1>0. k.cur \in Thread
  BY KernelFields
<1>1. k.st[k.cur] = "CURRENT" /\ k.cur \notin ToSet(k.ready)
  BY <1>0 DEF Settled, InPlace
<1>2. Settled(k, {k.cur}) /\ s \in States /\ r = SwitchTo(k, s)
  BY DEF Settled, States, GoSleepS
<1>3. /\ r \in KernelType(P) /\ SameMutexes(k, r)
      /\ r.cur \in ToSet(k.ready) /\ r.cur # k.cur /\ k.cur \notin ToSet(r.ready)
      /\ r.st[k.cur] = s /\ r.st[r.cur] = "CURRENT"
      /\ \A t \in Thread \ {k.cur, r.cur} : r.st[t] = k.st[t]
      /\ Settled(r, {k.cur})
      /\ Ordered(k) => Ordered(r) /\ Highest(r)
  <2> DEFINE w == SwitchTo(k, s)
  <2>1. /\ w \in KernelType(P) /\ SameMutexes(k, w)
        /\ w.cur \in ToSet(k.ready) /\ w.cur # k.cur /\ k.cur \notin ToSet(w.ready)
        /\ ToSet(k.ready) = ToSet(w.ready) \cup {w.cur}
        /\ w.st[k.cur] = s /\ w.st[w.cur] = "CURRENT"
        /\ \A t \in Thread \ {k.cur, w.cur} : w.st[t] = k.st[t]
        /\ Settled(w, {k.cur})
        /\ Ordered(k) => Ordered(w) /\ Highest(w)
    BY <1>1, <1>2, SwitchIs
  <2> QED BY <1>2, <2>1
<1>4. InPlace(r, k.cur)
  <2>1. ~ \E m \in Mutex : k.cur \in ToSet(k.wq[m])
    BY <1>0, <1>1 DEF Settled, InPlace
  <2> QED BY <1>0, <1>3, <2>1 DEF InPlace, SameMutexes
<1>5. k.st[r.cur] = "READY"
  <2>1. r.cur \in Thread
    BY <1>3, KernelFields
  <2> QED BY <1>3, <2>1 DEF Settled, InPlace
<1>6. Settled(r, {})
  BY <1>3, <1>4 DEF Settled
<1> QED BY <1>0, <1>3, <1>5, <1>6 DEF Able

\* A thread that sleeps in no queue becomes able to run, whoever runs then.
LEMMA WakeupIs ==
    ASSUME NEW P \in SUBSET Int, NEW k \in KernelType(P), Settled(k, {}),
           NEW t \in Thread, k.st[t] \notin {"CURRENT", "READY", "WTMTX"},
           NEW r, r = WakeupS(k, t)
    PROVE  /\ r \in KernelType(P) /\ Settled(r, {}) /\ SameMutexes(k, r)
           /\ Able(r, t)
           /\ \A u \in Thread \ {t} : Able(r, u) <=> Able(k, u)
           /\ \A u \in Thread \ {t} : ~Able(k, u) => r.st[u] = k.st[u]
           /\ Ordered(k) => Ordered(r) /\ Highest(r)
<1>0. k.cur \in Thread /\ k.st \in [Thread -> States]
  BY KernelFields
<1>1. t # k.cur /\ t \notin ToSet(k.ready) /\ \A m \in Mutex : t \notin ToSet(k.wq[m])
  BY DEF Settled, InPlace
<1>2. Settled(k, {t})
  BY DEF Settled
<1> DEFINE w == ReadyI(k, t)
<1>3. /\ w \in KernelType(P) /\ Settled(w, {}) /\ SameMutexes(k, w)
      /\ w.st = [k.st EXCEPT ![t] = "READY"]
      /\ Ordered(k) => Ordered(w)
  <2>1. Readied(P, k, t, w)
    BY <1>1, <1>2, ReadyIIs
  <2> QED BY <2>1 DEF Readied
<1>4. r = RescheduleS(w)
  BY DEF WakeupS
<1> HIDE DEF w
<1>5. /\ r \in KernelType(P) /\ Settled(r, {}) /\ SameMutexes(w, r)
      /\ \A u \in Thread : Able(r, u) <=> Able(w, u)
      /\ \A u \in Thread : ~Able(w, u) => r.st[u] = w.st[u]
      /\ Ordered(w) => Ordered(r) /\ Highest(r)
  BY <1>3, <1>4, RescheduleIs
<1>6. SameMutexes(k, r)
  BY <1>3, <1>5 DEF SameMutexes
<1>7. Able(w, t) /\ \A u \in Thread \ {t} : w.st[u] = k.st[u]
  BY <1>0, <1>3 DEF Able
<1> QED BY <1>3, <1>5, <1>6, <1>7 DEF Able
-----------------------------------------------------------------------------
(* Mutexes: who waits for whom *)

\* A thread that waits does so for one mutex.
LEMMA WaitsOnIs ==
    ASSUME NEW k, Settled(k, {}), NEW t \in Thread, k.st[t] = "WTMTX"
    PROVE  /\ WaitsOn(k, t) \in Mutex /\ t \in ToSet(k.wq[WaitsOn(k, t)])
           /\ \A m \in Mutex : t \in ToSet(k.wq[m]) => m = WaitsOn(k, t)
<1>1. \E m \in Mutex : t \in ToSet(k.wq[m])
  BY DEF Settled, InPlace
<1>2. WaitsOn(k, t) \in Mutex /\ t \in ToSet(k.wq[WaitsOn(k, t)])
  BY <1>1 DEF WaitsOn
<1>3. ASSUME NEW m \in Mutex, t \in ToSet(k.wq[m]) PROVE m = WaitsOn(k, t)
  BY <1>2, <1>3 DEF Settled
<1> QED BY <1>2, <1>3

\* S holds t and with a thread that waits the one it waits for, within A.
ClosedFrom(k, t, A, S) ==
    /\ t \in A => t \in S
    /\ \A u \in S : k.st[u] = "WTMTX" /\ k.own[WaitsOn(k, u)] \in A
                        => k.own[WaitsOn(k, u)] \in S

\* The chain is the least set that is closed in this sense.
LEMMA ChainIs ==
    ASSUME NEW k, NEW t, NEW A
    PROVE  /\ Chain(k, t, A) \subseteq A /\ ClosedFrom(k, t, A, Chain(k, t, A))
           /\ \A S \in SUBSET A : ClosedFrom(k, t, A, S) => Chain(k, t, A) \subseteq S
<1>1. Chain(k, t, A) = {u \in A : \A S \in SUBSET A : ClosedFrom(k, t, A, S) => u \in S}
  BY DEF Chain, ClosedFrom
<1>2. ASSUME NEW S \in SUBSET A, ClosedFrom(k, t, A, S) PROVE Chain(k, t, A) \subseteq S
  BY <1>1, <1>2
<1>3. t \in A => t \in Chain(k, t, A)
  BY <1>1 DEF ClosedFrom
<1>4. ASSUME NEW u \in Chain(k, t, A), k.st[u] = "WTMTX", k.own[WaitsOn(k, u)] \in A
      PROVE  k.own[WaitsOn(k, u)] \in Chain(k, t, A)
  <2>1. ASSUME NEW S \in SUBSET A, ClosedFrom(k, t, A, S) PROVE k.own[WaitsOn(k, u)] \in S
    BY <1>1, <1>4, <2>1 DEF ClosedFrom
  <2> QED BY <1>1, <1>4, <2>1
<1>5. ClosedFrom(k, t, A, Chain(k, t, A))
  BY <1>3, <1>4 DEF ClosedFrom
<1> QED BY <1>1, <1>2, <1>5

\* After its first thread a chain is the chain of the one it waits for.
LEMMA ChainNext ==
    ASSUME NEW k, NEW t, NEW A
    PROVE  /\ t \notin A => Chain(k, t, A) = {}
           /\ k.st[t] # "WTMTX" => Chain(k, t, A) \subseteq {t}
           /\ Chain(k, t, A) \subseteq {t} \cup Chain(k, k.own[WaitsOn(k, t)], A)
<1> DEFINE o == k.own[WaitsOn(k, t)]
           C == Chain(k, t, A)
           D == Chain(k, o, A)
<1>1. C \subseteq A /\ ClosedFrom(k, t, A, C)
      /\ \A S \in SUBSET A : ClosedFrom(k, t, A, S) => C \subseteq S
  BY ChainIs
<1>2. D \subseteq A /\ ClosedFrom(k, o, A, D)
  BY ChainIs
<1> HIDE DEF C, D
<1>3. ASSUME t \notin A PROVE C = {}
  <2>1. ClosedFrom(k, t, A, {})
    BY <1>3 DEF ClosedFrom
  <2> QED BY <1>1, <2>1
<1>4. ASSUME k.st[t] # "WTMTX" PROVE C \subseteq {t}
  <2>1. ClosedFrom(k, t, A, {t} \cap A)
    BY <1>4 DEF ClosedFrom
  <2> QED BY <1>1, <2>1
<1>5. C \subseteq {t} \cup D
  <2>1. ClosedFrom(k, t, A, ({t} \cap A) \cup D)
    BY <1>2 DEF ClosedFrom
  <2>2. ({t} \cap A) \cup D \in SUBSET A
    BY <1>2
  <2>3. C \subseteq ({t} \cap A) \cup D
    BY <1>1, <2>1, <2>2
  <2> QED BY <2>3
<1> QED BY <1>3, <1>4, <1>5 DEF C, D

\* A chain does not fork: of two threads in it one comes after the other.
LEMMA ChainIsLinear ==
    ASSUME NEW k, NEW t, NEW A, NEW b \in Chain(k, t, A), NEW c \in Chain(k, t, A)
    PROVE  c \in Chain(k, b, A) \/ b \in Chain(k, c, A)
<1> DEFINE C == Chain(k, t, A)
           D(v) == Chain(k, v, A)
           S == {v \in C : \A w \in C : w \in D(v) \/ v \in D(w)}
<1>1. C \subseteq A /\ ClosedFrom(k, t, A, C)
      /\ \A R \in SUBSET A : ClosedFrom(k, t, A, R) => C \subseteq R
  BY ChainIs
<1>2. \A v : D(v) \subseteq A /\ ClosedFrom(k, v, A, D(v))
  BY ChainIs
<1>3. \A v : D(v) \subseteq {v} \cup D(k.own[WaitsOn(k, v)])
  BY ChainNext
<1>4. C = D(t)
  OBVIOUS
<1> HIDE DEF C, D
<1>5. t \in A => t \in S
  BY <1>1, <1>4 DEF ClosedFrom
<1>6. ASSUME NEW v \in S, k.st[v] = "WTMTX", k.own[WaitsOn(k, v)] \in A
      PROVE  k.own[WaitsOn(k, v)] \in S
  <2> DEFINE o == k.own[WaitsOn(k, v)]
  <2>1. o \in C /\ v \in C
    BY <1>1, <1>6 DEF ClosedFrom
  <2>2. ASSUME NEW w \in C PROVE w \in D(o) \/ o \in D(w)
    <3>1. CASE v \in D(w)
      BY <1>2, <1>6, <3>1 DEF ClosedFrom
    <3>2. CASE w \in D(v)
      <4>1. CASE w = v
        <5>1. v \in D(v)
          BY <1>1, <1>2, <2>1 DEF ClosedFrom
        <5> QED BY <1>2, <1>6, <4>1, <5>1 DEF ClosedFrom
      <4>2. CASE w # v
        BY <1>3, <3>2, <4>2
      <4> QED BY <4>1, <4>2
    <3> QED BY <1>6, <2>2, <3>1, <3>2
  <2> QED BY <2>1, <2>2
<1>7. ClosedFrom(k, t, A, S)
  BY <1>5, <1>6 DEF ClosedFrom
<1>8. S \in SUBSET A
  BY <1>1
<1>9. b \in S
  <2>1. b \in C
    BY DEF C
  <2> HIDE DEF S
  <2> QED BY <1>1, <1>7, <1>8, <2>1
<1> QED BY <1>9 DEF C, D

\* The queue of a thread whose priority is raised, and every other.
LEMMA RequeueAnyIs ==
    ASSUME NEW q \in Seq(Thread), IsInjective(q), NEW B, NEW prio \in [Thread -> Int], NEW old,
           \A u \in ToSet(q) \ B : prio[u] = old[u]
    PROVE  /\ RequeueAny(q, B, prio) \in Seq(Thread) /\ IsInjective(RequeueAny(q, B, prio))
           /\ ToSet(RequeueAny(q, B, prio)) = ToSet(q)
           /\ (\A t, u \in B : t \in ToSet(q) /\ u \in ToSet(q) => t = u) =>
                  (OrderedBy(q, old) => OrderedBy(RequeueAny(q, B, prio), prio))
<1> DEFINE a == RequeueAny(q, B, prio)
<1>1. CASE B \cap ToSet(q) = {}
  <2>1. \A i \in 1 .. Len(q) : q[i] \in ToSet(q)
    <3>1. DOMAIN q = 1 .. Len(q)
      OBVIOUS
    <3> QED BY <3>1 DEF ToSet
  <2>2. \A i \in 1 .. Len(q) : prio[q[i]] = old[q[i]]
    BY <1>1, <2>1
  <2>3. a = q
    BY <1>1 DEF RequeueAny
  <2> HIDE DEF a
  <2>4. OrderedBy(q, old) => OrderedBy(q, prio)
    BY <2>2 DEF OrderedBy
  <2> QED BY <2>3, <2>4 DEF a
<1>2. CASE B \cap ToSet(q) # {}
  <2> DEFINE t == CHOOSE t \in B : t \in ToSet(q)
             c == Requeue(q, t, prio)
  <2>1. t \in B /\ t \in ToSet(q)
    BY <1>2
  <2>2. a = c
    BY <1>2 DEF RequeueAny
  <2> HIDE DEF t
  <2>3. /\ c \in Seq(Thread) /\ IsInjective(c) /\ ToSet(c) = ToSet(q)
        /\ (\A u \in ToSet(q) : u # t => prio[u] = old[u])
               => (OrderedBy(q, old) => OrderedBy(c, prio))
    <3>1. Requeued(q, t, prio, old, c)
      BY <2>1, RequeueIs
    <3> QED BY <3>1 DEF Requeued
  <2> HIDE DEF a, c
  <2> QED BY <2>1, <2>2, <2>3 DEF a
<1> QED BY <1>1, <1>2

\* Priorities rise along the chain of owners, and whoever is in a queue stays in it.
LEMMA InheritIs ==
    ASSUME NEW P \in SUBSET Int, NEW k \in KernelType(P), Settled(k, {}), NEW m \in Mutex,
           NEW b, b = Inherit(k, m), NEW B, B = Boosted(k, m, k.prio[k.cur])
    PROVE  /\ b \in KernelType(P) /\ Settled(b, {})
           /\ b.cur = k.cur /\ b.st = k.st /\ b.real = k.real /\ b.held = k.held
           /\ b.own = k.own /\ ToSet(b.ready) = ToSet(k.ready)
           /\ \A x \in Mutex : ToSet(b.wq[x]) = ToSet(k.wq[x])
           /\ b.prio = [t \in Thread |-> IF t \in B THEN k.prio[k.cur] ELSE k.prio[t]]
           /\ /\ Ordered(k)
              /\ \A t, u \in B : t \in ToSet(k.ready) /\ u \in ToSet(k.ready) => t = u
              /\ \A t, u \in B, x \in Mutex :
                    t \in ToSet(k.wq[x]) /\ u \in ToSet(k.wq[x]) => t = u
              => Ordered(b)
<1>0. /\ k.cur \in Thread /\ k.ready \in Seq(Thread) /\ k.st \in [Thread -> States]
      /\ k.prio \in [Thread -> P] /\ k.real \in [Thread -> P]
      /\ k.held \in [Thread -> Seq(Mutex)]
      /\ k.own \in [Mutex -> Thread \cup {NoThread}] /\ k.wq \in [Mutex -> Seq(Thread)]
  BY KernelFields
<1> DEFINE prio == [t \in Thread |-> IF t \in B THEN k.prio[k.cur] ELSE k.prio[t]]
           Again(q) == RequeueAny(q, B, prio)
           ready == Again(k.ready)
           wq == [x \in Mutex |-> Again(k.wq[x])]
<1>1. b = [k EXCEPT !.prio = prio, !.ready = ready, !.wq = wq]
  BY DEF Inherit
<1>2. prio \in [Thread -> P] /\ prio \in [Thread -> Int]
  BY <1>0
<1>3. ASSUME NEW q \in Seq(Thread), IsInjective(q)
      PROVE  /\ Again(q) \in Seq(Thread) /\ IsInjective(Again(q)) /\ ToSet(Again(q)) = ToSet(q)
             /\ (\A t, u \in B : t \in ToSet(q) /\ u \in ToSet(q) => t = u) =>
                    (OrderedBy(q, k.prio) => OrderedBy(Again(q), prio))
  <2>1. ToSet(q) \subseteq Thread
    BY DEF ToSet
  <2>2. \A u \in ToSet(q) \ B : prio[u] = k.prio[u]
    BY <2>1
  <2> HIDE DEF prio
  <2> QED BY <1>2, <1>3, <2>2, RequeueAnyIs
<1>4. \A x \in Mutex : k.wq[x] \in Seq(Thread) /\ IsInjective(k.wq[x])
  BY <1>0 DEF Settled
<1>5. IsInjective(k.ready)
  BY DEF Settled
<1> HIDE DEF Again
<1>6. wq \in [Mutex -> Seq(Thread)] /\ ready \in Seq(Thread) /\ ToSet(ready) = ToSet(k.ready)
  BY <1>0, <1>3, <1>4, <1>5
<1>7. \A x \in Mutex : IsInjective(wq[x]) /\ ToSet(wq[x]) = ToSet(k.wq[x])
  BY <1>3, <1>4
<1>8. /\ Ordered(k)
      /\ \A t, u \in B : t \in ToSet(k.ready) /\ u \in ToSet(k.ready) => t = u
      /\ \A t, u \in B, x \in Mutex :
            t \in ToSet(k.wq[x]) /\ u \in ToSet(k.wq[x]) => t = u
      => OrderedBy(ready, prio) /\ \A x \in Mutex : OrderedBy(wq[x], prio)
  <2> HIDE DEF prio
  <2> QED BY <1>0, <1>3, <1>4, <1>5 DEF Ordered
<1>9. IsInjective(ready)
  BY <1>0, <1>3, <1>5
<1> HIDE DEF prio, ready, wq
<1>10. /\ b = [cur |-> k.cur, ready |-> ready, st |-> k.st, prio |-> prio, real |-> k.real,
               held |-> k.held, own |-> k.own, wq |-> wq]
  BY <1>1 DEF KernelType
<1>11. [cur |-> k.cur, ready |-> ready, st |-> k.st, prio |-> prio, real |-> k.real,
               held |-> k.held, own |-> k.own, wq |-> wq] \in KernelType(P)
  BY <1>0, <1>2, <1>6, KernelRecord
<1>12. /\ b.cur = k.cur /\ b.ready = ready /\ b.st = k.st /\ b.prio = prio /\ b.real = k.real
       /\ b.held = k.held /\ b.own = k.own /\ b.wq = wq
  BY <1>10
<1>13. Settled(b, {})
  <2>1. ASSUME NEW t \in Thread PROVE InPlace(b, t)
    BY <1>6, <1>7, <1>12 DEF Settled, InPlace
  <2> QED BY <1>7, <1>9, <1>12, <2>1 DEF Settled
<1> QED BY <1>6, <1>7, <1>8, <1>10, <1>11, <1>12, <1>13 DEF Ordered, prio
-----------------------------------------------------------------------------
(* Mutexes: locking *)

\* A free mutex is taken, and nothing else changes.
LEMMA LockFreeIs ==
    ASSUME NEW P \in SUBSET Int, NEW k \in KernelType(P), Settled(k, {}), NEW m \in Mutex,
           k.own[m] = NoThread, NEW r, r = Lock(k, m)
    PROVE  /\ r \in KernelType(P) /\ Settled(r, {})
           /\ r.cur = k.cur /\ r.ready = k.ready /\ r.st = k.st /\ r.prio = k.prio
           /\ r.real = k.real /\ r.wq = k.wq
           /\ r.own = [k.own EXCEPT ![m] = k.cur]
           /\ r.held = [k.held EXCEPT ![k.cur] = <<m>> \o @]
<1>0. /\ k.cur \in Thread /\ k.ready \in Seq(Thread) /\ k.st \in [Thread -> States]
      /\ k.prio \in [Thread -> P] /\ k.real \in [Thread -> P]
      /\ k.held \in [Thread -> Seq(Mutex)]
      /\ k.own \in [Mutex -> Thread \cup {NoThread}] /\ k.wq \in [Mutex -> Seq(Thread)]
  BY KernelFields
<1> DEFINE own == [k.own EXCEPT ![m] = k.cur]
           held == [k.held EXCEPT ![k.cur] = <<m>> \o @]
<1>1. r = [k EXCEPT !.own = own, !.held = held]
  BY DEF Lock
<1>2. own \in [Mutex -> Thread \cup {NoThread}] /\ held \in [Thread -> Seq(Mutex)]
  <2>1. <<m>> \o k.held[k.cur] \in Seq(Mutex)
    BY <1>0, ConcatProperties
  <2> QED BY <1>0, <2>1
<1> HIDE DEF own, held
<1>3. r = [cur |-> k.cur, ready |-> k.ready, st |-> k.st, prio |-> k.prio, real |-> k.real,
           held |-> held, own |-> own, wq |-> k.wq]
  BY <1>1 DEF KernelType
<1>4. [cur |-> k.cur, ready |-> k.ready, st |-> k.st, prio |-> k.prio, real |-> k.real,
       held |-> held, own |-> own, wq |-> k.wq] \in KernelType(P)
  BY <1>0, <1>2, KernelRecord
<1>5. /\ r.cur = k.cur /\ r.ready = k.ready /\ r.st = k.st /\ r.prio = k.prio
      /\ r.real = k.real /\ r.wq = k.wq /\ r.own = own /\ r.held = held
  BY <1>3
<1>6. Settled(r, {})
  BY <1>5 DEF Settled, InPlace
<1> QED BY <1>3, <1>4, <1>5, <1>6 DEF own, held

\* r is k with the running thread in the queue of m and its priority with those of B.
GoneToWait(P, k, m, B, r) ==
    /\ r \in KernelType(P) /\ Settled(r, {})
    /\ r.real = k.real /\ r.held = k.held /\ r.own = k.own
    /\ r.st[k.cur] = "WTMTX"
    /\ \A t \in Thread \ {k.cur} : Able(r, t) <=> Able(k, t)
    /\ \A t \in Thread \ {k.cur} : ~Able(k, t) => r.st[t] = k.st[t]
    /\ \A x \in Mutex :
         ToSet(r.wq[x]) = IF x = m THEN ToSet(k.wq[x]) \cup {k.cur} ELSE ToSet(k.wq[x])
    /\ r.prio = [t \in Thread |-> IF t \in B THEN k.prio[k.cur] ELSE k.prio[t]]
    /\ /\ Ordered(k)
       /\ \A t, u \in B : t \in ToSet(k.ready) /\ u \in ToSet(k.ready) => t = u
       /\ \A t, u \in B, x \in Mutex :
             t \in ToSet(k.wq[x]) /\ u \in ToSet(k.wq[x]) => t = u
       => Ordered(r) /\ Highest(r)

\* A mutex that has an owner: the priority of the caller goes up the chain of
\* owners, and the caller sleeps in the queue.
LEMMA LockWaitIs ==
    ASSUME NEW P \in SUBSET Int, NEW k \in KernelType(P), Settled(k, {}), NEW m \in Mutex,
           k.own[m] # NoThread, k.ready # <<>>,
           NEW r, r = Lock(k, m), NEW B, B = Boosted(k, m, k.prio[k.cur])
    PROVE  GoneToWait(P, k, m, B, r)
<1> DEFINE b == Inherit(k, m)
           q == InsertBehind(b.wq[m], k.cur, b.prio)
           c == [b EXCEPT !.wq = [b.wq EXCEPT ![m] = q]]
           One == /\ \A t, u \in B : t \in ToSet(k.ready) /\ u \in ToSet(k.ready) => t = u
                  /\ \A t, u \in B, x \in Mutex :
                        t \in ToSet(k.wq[x]) /\ u \in ToSet(k.wq[x]) => t = u
<1>1. k.cur \in Thread /\ k.st[k.cur] = "CURRENT" /\ k.ready \in Seq(Thread)
  BY KernelFields DEF Settled, InPlace
<1>2. k.cur \notin ToSet(k.ready) /\ \A x \in Mutex : k.cur \notin ToSet(k.wq[x])
  BY <1>1 DEF Settled, InPlace
<1>3. /\ b \in KernelType(P) /\ Settled(b, {})
      /\ b.cur = k.cur /\ b.st = k.st /\ b.real = k.real /\ b.held = k.held
      /\ b.own = k.own /\ ToSet(b.ready) = ToSet(k.ready)
      /\ \A x \in Mutex : ToSet(b.wq[x]) = ToSet(k.wq[x])
      /\ b.prio = [t \in Thread |-> IF t \in B THEN k.prio[k.cur] ELSE k.prio[t]]
      /\ Ordered(k) /\ One => Ordered(b)
  BY InheritIs
<1>4. r = SwitchTo(c, "WTMTX")
  BY <1>3 DEF Lock, GoSleepS
<1> HIDE DEF b
<1>5. /\ b.cur \in Thread /\ b.ready \in Seq(Thread) /\ b.st \in [Thread -> States]
      /\ b.prio \in [Thread -> P] /\ b.real \in [Thread -> P]
      /\ b.held \in [Thread -> Seq(Mutex)]
      /\ b.own \in [Mutex -> Thread \cup {NoThread}] /\ b.wq \in [Mutex -> Seq(Thread)]
  BY <1>3, KernelFields
<1>6. b.wq[m] \in Seq(Thread) /\ IsInjective(b.wq[m]) /\ b.prio \in [Thread -> Int]
  BY <1>3, <1>5 DEF Settled
<1>7. /\ q \in Seq(Thread) /\ IsInjective(q) /\ ToSet(q) = ToSet(k.wq[m]) \cup {k.cur}
      /\ OrderedBy(b.wq[m], b.prio) => OrderedBy(q, b.prio)
  <2>1. k.cur \notin ToSet(b.wq[m])
    BY <1>2, <1>3
  <2>2. /\ q \in Seq(Thread) /\ IsInjective(q) /\ ToSet(q) = ToSet(b.wq[m]) \cup {k.cur}
        /\ OrderedBy(b.wq[m], b.prio) => OrderedBy(q, b.prio)
    BY <1>1, <1>6, <2>1, InsertIs
  <2> QED BY <1>3, <2>2
<1> HIDE DEF q
<1> DEFINE wq == [b.wq EXCEPT ![m] = q]
<1>8. /\ wq \in [Mutex -> Seq(Thread)] /\ wq[m] = q
      /\ \A x \in Mutex : x # m => wq[x] = b.wq[x]
  BY <1>5, <1>7
<1>9. \A x \in Mutex :
        ToSet(wq[x]) = IF x = m THEN ToSet(k.wq[x]) \cup {k.cur} ELSE ToSet(k.wq[x])
  BY <1>3, <1>7, <1>8
<1> HIDE DEF wq
<1>10. c = [cur |-> b.cur, ready |-> b.ready, st |-> b.st, prio |-> b.prio, real |-> b.real,
            held |-> b.held, own |-> b.own, wq |-> wq]
  <2>1. c = [b EXCEPT !.wq = wq]
    BY DEF wq
  <2> HIDE DEF c
  <2> QED BY <1>3, <2>1 DEF KernelType
<1>11. [cur |-> b.cur, ready |-> b.ready, st |-> b.st, prio |-> b.prio, real |-> b.real,
            held |-> b.held, own |-> b.own, wq |-> wq] \in KernelType(P)
  BY <1>5, <1>8, KernelRecord
<1>12. /\ c.cur = k.cur /\ c.ready = b.ready /\ c.st = k.st /\ c.prio = b.prio /\ c.real = k.real
       /\ c.held = k.held /\ c.own = k.own /\ c.wq = wq /\ c \in KernelType(P)
  BY <1>3, <1>10, <1>11
<1> HIDE DEF c
<1>13. Settled(c, {c.cur})
  <2>1. ASSUME NEW t \in Thread \ {k.cur} PROVE InPlace(c, t)
    <3>1. InPlace(b, t)
      BY <1>3, <2>1 DEF Settled
    <3> QED BY <1>3, <1>9, <1>12, <2>1, <3>1 DEF InPlace
  <2>2. \A x \in Mutex : IsInjective(wq[x])
    BY <1>3, <1>7, <1>8 DEF Settled
  <2>3. ASSUME NEW x \in Mutex, NEW y \in Mutex, ToSet(wq[x]) \cap ToSet(wq[y]) # {} PROVE x = y
    <3>1. PICK v : v \in ToSet(wq[x]) /\ v \in ToSet(wq[y])
      BY <2>3
    <3>2. CASE v = k.cur
      BY <1>2, <1>9, <3>1, <3>2
    <3>3. CASE v # k.cur
      <4>1. v \in ToSet(k.wq[x]) /\ v \in ToSet(k.wq[y])
        BY <1>9, <3>1, <3>3
      <4> QED BY <4>1 DEF Settled
    <3> QED BY <3>2, <3>3
  <2>4. IsInjective(c.ready)
    BY <1>3, <1>12 DEF Settled
  <2> QED BY <1>12, <2>1, <2>2, <2>3, <2>4 DEF Settled
<1>14. c.ready # <<>> /\ c.cur \notin ToSet(c.ready)
  <2>1. Head(k.ready) \in ToSet(k.ready)
    BY <1>1, HeadTail DEF Settled
  <2>2. ToSet(<<>>) = {}
    BY DEF ToSet
  <2> QED BY <1>2, <1>3, <1>12, <2>1, <2>2
<1> DEFINE w == SwitchTo(c, "WTMTX")
<1>15. /\ w \in KernelType(P) /\ SameMutexes(c, w)
       /\ w.cur \in ToSet(c.ready) /\ w.cur # c.cur /\ c.cur \notin ToSet(w.ready)
       /\ ToSet(c.ready) = ToSet(w.ready) \cup {w.cur}
       /\ w.st[c.cur] = "WTMTX" /\ w.st[w.cur] = "CURRENT"
       /\ \A t \in Thread \ {c.cur, w.cur} : w.st[t] = c.st[t]
       /\ Settled(w, {c.cur})
       /\ Ordered(c) => Ordered(w) /\ Highest(w)
  <2>1. "WTMTX" \in States
    BY DEF States
  <2>2. c \in KernelType(P)
    BY <1>12
  <2> QED BY <1>13, <1>14, <2>1, <2>2, SwitchIs
<1>16. r = w
  BY <1>4
<1> HIDE DEF w
<1>17. InPlace(w, k.cur)
  BY <1>1, <1>9, <1>12, <1>15 DEF InPlace, SameMutexes
<1>18. Settled(w, {})
  BY <1>12, <1>15, <1>17 DEF Settled
<1>19. k.st[w.cur] = "READY"
  <2>1. w.cur \in Thread
    BY <1>15, KernelFields
  <2> QED BY <1>3, <1>12, <1>15, <2>1 DEF Settled, InPlace
<1>20. Ordered(b) => Ordered(c)
  BY <1>7, <1>8, <1>12 DEF Ordered
<1>21. /\ w.st[k.cur] = "WTMTX"
       /\ \A t \in Thread \ {k.cur} : Able(w, t) <=> Able(k, t)
       /\ \A t \in Thread \ {k.cur} : ~Able(k, t) => w.st[t] = k.st[t]
  BY <1>1, <1>12, <1>15, <1>19 DEF Able
<1>22. /\ w.real = k.real /\ w.held = k.held /\ w.own = k.own /\ w.wq = wq /\ w.prio = b.prio
  BY <1>12, <1>15 DEF SameMutexes
<1>23. Ordered(k) /\ One => Ordered(w) /\ Highest(w)
  BY <1>3, <1>15, <1>20
<1> QED BY <1>3, <1>9, <1>15, <1>16, <1>18, <1>21, <1>22, <1>23 DEF GoneToWait
-----------------------------------------------------------------------------
(* Mutexes: unlocking *)

\* What was taken before m is a part of the list.
LEMMA HeldBeforeIs ==
    ASSUME NEW s \in Seq(Mutex), NEW m \in ToSet(s)
    PROVE  /\ HeldBefore(s, m) \in Seq(Mutex) /\ ToSet(HeldBefore(s, m)) \subseteq ToSet(s)
           /\ (m = Head(s) /\ IsInjective(s)) => HeldBefore(s, m) = Tail(s)
<1> DEFINE i == CHOOSE i \in 1 .. Len(s) : s[i] = m
<1>0. DOMAIN s = 1 .. Len(s) /\ Len(s) \in Nat
  OBVIOUS
<1>1. i \in 1 .. Len(s) /\ s[i] = m
  BY <1>0 DEF ToSet
<1> DEFINE r == SubSeq(s, i + 1, Len(s))
<1>2. HeldBefore(s, m) = r
  <2>1. HeldBefore(s, m) = SubSeq(s, 1 + i, Len(s))
    BY DEF HeldBefore
  <2> HIDE DEF i
  <2>2. 1 + i = i + 1
    BY <1>1
  <2> QED BY <2>1, <2>2
<1> HIDE DEF i
<1>3. /\ r \in Seq(Mutex) /\ Len(r) = Len(s) - i
      /\ \A j \in 1 .. Len(s) - i : r[j] = s[j + i]
  <2>1. i \in 1 .. Len(s)
    BY <1>1
  <2> QED BY <2>1
<1>6. DOMAIN r = 1 .. Len(s) - i
  <2> HIDE DEF r
  <2>1. DOMAIN r = 1 .. Len(r)
    BY <1>3
  <2> QED BY <1>3, <2>1
<1>4. ToSet(r) \subseteq ToSet(s)
  <2>1. \A j \in 1 .. Len(s) - i : j + i \in 1 .. Len(s)
    BY <1>0, <1>1
  <2> HIDE DEF r
  <2> QED BY <1>0, <1>3, <1>6, <2>1 DEF ToSet
<1>5. ASSUME m = Head(s), IsInjective(s) PROVE r = Tail(s)
  <2>1. i = 1
    <3>1. 1 \in 1 .. Len(s) /\ Head(s) = s[1]
      BY <1>0, <1>1
    <3> QED BY <1>0, <1>1, <1>5, <3>1 DEF IsInjective
  <2>2. s # <<>>
    BY <1>1
  <2>3. Tail(s) \in Seq(Mutex) /\ Len(Tail(s)) = Len(s) - 1
        /\ \A j \in 1 .. Len(s) - 1 : Tail(s)[j] = s[j + 1]
    BY <2>2
  <2>4. Len(r) = Len(Tail(s)) /\ \A j \in 1 .. Len(r) : r[j] = Tail(s)[j]
    BY <1>0, <1>3, <2>1, <2>3
  <2> QED BY <1>3, <2>3, <2>4, SeqEqual
<1> QED BY <1>2, <1>3, <1>4, <1>5

\* A set of natural numbers with a bound has a greatest element.
LEMMA MaxIs ==
    ASSUME NEW S \in SUBSET Nat, S # {}, NEW n \in Nat, \A x \in S : x <= n
    PROVE  Max(S) \in S /\ \A x \in S : x <= Max(S)
<1> DEFINE T == {n - x : x \in S}
<1>1. T \in SUBSET Nat /\ T # {}
  <2>1. ASSUME NEW x \in S PROVE n - x \in Nat
    <3>1. x \in Nat /\ x <= n
      OBVIOUS
    <3> QED BY <3>1
  <2> QED BY <2>1
<1>2. PICK d \in T : \A e \in T : d <= e
  BY <1>1, NatMin
<1>3. PICK y \in S : d = n - y
  BY <1>2
<1>4. \A x \in S : y >= x
  <2> TAKE x \in S
  <2>1. n - y <= n - x
    BY <1>2, <1>3
  <2>2. x \in Int /\ y \in Int /\ n \in Int
    OBVIOUS
  <2> QED BY <2>1, <2>2
<1>5. Max(S) \in S /\ \A x \in S : Max(S) >= x
  BY <1>4 DEF Max
<1>6. \A x \in S : Max(S) >= x => x <= Max(S)
  BY <1>5
<1> QED BY <1>5, <1>6

\* Nobody waits: the mutex is free.
LEMMA UnlockFreeIs ==
    ASSUME NEW P \in SUBSET Int, NEW k \in KernelType(P), Settled(k, {}), NEW m \in Mutex,
           m \in ToSet(k.held[k.cur]), k.wq[m] = <<>>, NEW r, r = Unlock(k, m)
    PROVE  /\ r \in KernelType(P) /\ Settled(r, {})
           /\ r.cur = k.cur /\ r.ready = k.ready /\ r.st = k.st /\ r.prio = k.prio
           /\ r.real = k.real /\ r.wq = k.wq
           /\ r.own = [k.own EXCEPT ![m] = NoThread]
           /\ r.held = [k.held EXCEPT ![k.cur] = HeldBefore(@, m)]
<1>0. /\ k.cur \in Thread /\ k.ready \in Seq(Thread) /\ k.st \in [Thread -> States]
      /\ k.prio \in [Thread -> P] /\ k.real \in [Thread -> P]
      /\ k.held \in [Thread -> Seq(Mutex)]
      /\ k.own \in [Mutex -> Thread \cup {NoThread}] /\ k.wq \in [Mutex -> Seq(Thread)]
  BY KernelFields
<1> DEFINE own == [k.own EXCEPT ![m] = NoThread]
           held == [k.held EXCEPT ![k.cur] = HeldBefore(@, m)]
<1>1. r = [k EXCEPT !.held = held, !.own = own]
  BY DEF Unlock
<1>2. own \in [Mutex -> Thread \cup {NoThread}] /\ held \in [Thread -> Seq(Mutex)]
  <2>1. HeldBefore(k.held[k.cur], m) \in Seq(Mutex)
    BY <1>0, HeldBeforeIs
  <2> QED BY <1>0, <2>1
<1> HIDE DEF own, held
<1>3. r = [cur |-> k.cur, ready |-> k.ready, st |-> k.st, prio |-> k.prio, real |-> k.real,
           held |-> held, own |-> own, wq |-> k.wq]
  BY <1>1 DEF KernelType
<1>4. [cur |-> k.cur, ready |-> k.ready, st |-> k.st, prio |-> k.prio, real |-> k.real,
       held |-> held, own |-> own, wq |-> k.wq] \in KernelType(P)
  BY <1>0, <1>2, KernelRecord
<1>5. /\ r.cur = k.cur /\ r.ready = k.ready /\ r.st = k.st /\ r.prio = k.prio
      /\ r.real = k.real /\ r.wq = k.wq /\ r.own = own /\ r.held = held
  BY <1>3
<1> HIDE DEF own, held
<1>6. Settled(r, {})
  <2>1. \A t \in Thread : InPlace(r, t)
    BY <1>5 DEF Settled, InPlace
  <2> QED BY <1>5, <2>1 DEF Settled
<1> QED BY <1>3, <1>4, <1>5, <1>6 DEF own, held

\* The highest of the thread's own priority and those of the first waiters.
LEMMA NewPrioIs ==
    ASSUME NEW P \in SUBSET Nat, NEW k \in KernelType(P), NEW t \in Thread,
           NEW ms \in SUBSET Mutex, NEW n \in Nat, k.real[t] <= n,
           \A m \in ms : k.wq[m] # <<>> => k.prio[Head(k.wq[m])] <= n
    PROVE  /\ NewPrio(k, t, ms) \in P /\ k.real[t] <= NewPrio(k, t, ms)
           /\ \A m \in ms : k.wq[m] # <<>> => k.prio[Head(k.wq[m])] <= NewPrio(k, t, ms)
           /\ \/ NewPrio(k, t, ms) = k.real[t]
              \/ \E m \in ms : k.wq[m] # <<>> /\ NewPrio(k, t, ms) = k.prio[Head(k.wq[m])]
<1> DEFINE F == {m \in ms : k.wq[m] # <<>>}
           S == {k.real[t]} \cup {k.prio[Head(k.wq[m])] : m \in F}
<1>0. k.prio \in [Thread -> P] /\ k.real \in [Thread -> P] /\ k.wq \in [Mutex -> Seq(Thread)]
  BY KernelFields DEF KernelType
<1>1. \A m \in F : Head(k.wq[m]) \in Thread
  BY <1>0
<1>2. S \in SUBSET P /\ S \in SUBSET Nat /\ S # {} /\ \A x \in S : x <= n
  BY <1>0, <1>1
<1>3. NewPrio(k, t, ms) = Max(S)
  BY DEF NewPrio
<1> HIDE DEF S
<1>4. Max(S) \in S /\ \A x \in S : x <= Max(S)
  BY <1>2, MaxIs
<1> QED BY <1>2, <1>3, <1>4 DEF S

\* The order of a list is the order of its tail.
LEMMA TailOrdered ==
    ASSUME NEW q \in Seq(Thread), q # <<>>, NEW prio, OrderedBy(q, prio)
    PROVE  OrderedBy(Tail(q), prio)
<1>1. /\ Tail(q) \in Seq(Thread) /\ Len(q) \in Nat /\ Len(Tail(q)) = Len(q) - 1
      /\ \A j \in 1 .. Len(q) - 1 : Tail(q)[j] = q[j + 1]
  OBVIOUS
<1> SUFFICES ASSUME NEW i \in 1 .. Len(Tail(q)), NEW j \in 1 .. Len(Tail(q)), i < j
             PROVE  prio[Tail(q)[i]] >= prio[Tail(q)[j]]
  BY DEF OrderedBy
<1>2. /\ i + 1 \in 1 .. Len(q) /\ j + 1 \in 1 .. Len(q) /\ i + 1 < j + 1
      /\ Tail(q)[i] = q[i + 1] /\ Tail(q)[j] = q[j + 1]
  BY <1>1
<1> QED BY <1>2 DEF OrderedBy

\* r is k with m given by the running thread, which is left with priority p, to u.
HandedOver(P, k, m, u, p, r) ==
    /\ r \in KernelType(P) /\ Settled(r, {}) /\ u \in Thread /\ u # k.cur
    /\ r.real = k.real
    /\ r.own = [k.own EXCEPT ![m] = u]
    /\ r.held = [k.held EXCEPT ![k.cur] = HeldBefore(@, m), ![u] = <<m>> \o @]
    /\ r.wq = [k.wq EXCEPT ![m] = Tail(@)]
    /\ r.prio = [k.prio EXCEPT ![k.cur] = p]
    /\ k.st[u] = "WTMTX" /\ Able(r, u)
    /\ \A t \in Thread \ {u} : Able(r, t) <=> Able(k, t)
    /\ \A t \in Thread \ {u} : ~Able(k, t) => r.st[t] = k.st[t]
    /\ Ordered(k) => Ordered(r) /\ Highest(r)

\* The first waiter becomes the owner and is ready; the caller goes back to
\* the priority it has without the mutex.
LEMMA UnlockHandIs ==
    ASSUME NEW P \in SUBSET Nat, NEW k \in KernelType(P), Settled(k, {}), NEW m \in Mutex,
           m \in ToSet(k.held[k.cur]), k.wq[m] # <<>>, NEW r, r = Unlock(k, m),
           NEW u, u = Head(k.wq[m]), NEW p, p \in P,
           p = NewPrio(k, k.cur, ToSet(HeldBefore(k.held[k.cur], m)))
    PROVE  HandedOver(P, k, m, u, p, r)
<1>0. /\ k.cur \in Thread /\ k.ready \in Seq(Thread) /\ k.st \in [Thread -> States]
      /\ k.prio \in [Thread -> P] /\ k.real \in [Thread -> P]
      /\ k.held \in [Thread -> Seq(Mutex)]
      /\ k.own \in [Mutex -> Thread \cup {NoThread}] /\ k.wq \in [Mutex -> Seq(Thread)]
  BY KernelFields DEF KernelType
<1>1. P \in SUBSET Int
  OBVIOUS
<1>2. k.st[k.cur] = "CURRENT" /\ k.cur \notin ToSet(k.ready)
      /\ \A x \in Mutex : k.cur \notin ToSet(k.wq[x])
  BY <1>0 DEF Settled, InPlace
<1>3. /\ u \in Thread /\ Tail(k.wq[m]) \in Seq(Thread) /\ IsInjective(Tail(k.wq[m]))
      /\ ToSet(k.wq[m]) = ToSet(Tail(k.wq[m])) \cup {u} /\ u \notin ToSet(Tail(k.wq[m]))
  <2>1. k.wq[m] \in Seq(Thread) /\ IsInjective(k.wq[m])
    BY <1>0 DEF Settled
  <2> QED BY <2>1, HeadTail
<1>4. k.st[u] = "WTMTX" /\ u # k.cur /\ u \notin ToSet(k.ready)
      /\ \A x \in Mutex : u \in ToSet(k.wq[x]) => x = m
  <2>1. k.st[u] = "WTMTX"
    BY <1>3 DEF Settled, InPlace
  <2>2. u \notin ToSet(k.ready) /\ u # k.cur
    BY <1>2, <1>3, <2>1 DEF Settled, InPlace
  <2>3. \A x \in Mutex : u \in ToSet(k.wq[x]) => x = m
    BY <1>3 DEF Settled
  <2> QED BY <2>1, <2>2, <2>3
<1> DEFINE prio == [k.prio EXCEPT ![k.cur] = p]
           wq == [k.wq EXCEPT ![m] = Tail(@)]
           own == [k.own EXCEPT ![m] = u]
           held == [k.held EXCEPT ![k.cur] = HeldBefore(@, m), ![u] = <<m>> \o @]
           c == [k EXCEPT !.held = held, !.prio = prio, !.wq = wq, !.own = own]
<1>5. r = RescheduleS(ReadyI(c, u))
  <2> DEFINE rest == HeldBefore(k.held[k.cur], m)
  <2>1. [[k.held EXCEPT ![k.cur] = rest] EXCEPT ![u] = <<m>> \o @] = held
    <3>1. [k.held EXCEPT ![k.cur] = rest][u] = k.held[u]
      BY <1>0, <1>3, <1>4
    <3> QED BY <1>0, <1>3, <1>4, <3>1
  <2> DEFINE k1 == [k EXCEPT !.held[k.cur] = rest]
             k2 == [k1 EXCEPT !.prio[k.cur] = p, !.wq[m] = Tail(@), !.own[m] = u,
                              !.held[u] = <<m>> \o @]
  <2>2. r = RescheduleS(ReadyI(k2, u))
    BY DEF Unlock
  <2>3. k2 = [k EXCEPT !.held = [[k.held EXCEPT ![k.cur] = rest] EXCEPT ![u] = <<m>> \o @],
                       !.prio = prio, !.wq = wq, !.own = own]
    <3> DEFINE h1 == [k.held EXCEPT ![k.cur] = rest]
               h2 == [h1 EXCEPT ![u] = <<m>> \o @]
    <3>1. k1 = [k EXCEPT !.held = h1]
      OBVIOUS
    <3>2. k2 = [k1 EXCEPT !.prio = [k1.prio EXCEPT ![k.cur] = p],
                          !.wq = [k1.wq EXCEPT ![m] = Tail(@)],
                          !.own = [k1.own EXCEPT ![m] = u],
                          !.held = [k1.held EXCEPT ![u] = <<m>> \o @]]
      OBVIOUS
    <3> HIDE DEF k1, k2, h1
    <3>3. k1.held = h1 /\ k1.prio = k.prio /\ k1.wq = k.wq /\ k1.own = k.own
      BY <3>1 DEF KernelType
    <3>4. k2 = [k1 EXCEPT !.held = h2, !.prio = prio, !.wq = wq, !.own = own]
      BY <3>2, <3>3
    <3> HIDE DEF h2, prio, wq, own
    <3>5. k2 = [k EXCEPT !.held = h2, !.prio = prio, !.wq = wq, !.own = own]
      BY <3>1, <3>4 DEF KernelType
    <3> QED BY <3>5 DEF h1, h2
  <2> QED BY <2>1, <2>2, <2>3
<1>6. /\ prio \in [Thread -> P] /\ wq \in [Mutex -> Seq(Thread)]
      /\ own \in [Mutex -> Thread \cup {NoThread}] /\ held \in [Thread -> Seq(Mutex)]
  <2>1. HeldBefore(k.held[k.cur], m) \in Seq(Mutex)
    BY <1>0, HeldBeforeIs
  <2>2. <<m>> \o k.held[u] \in Seq(Mutex)
    BY <1>0, <1>3, ConcatProperties
  <2>3. held \in [Thread -> Seq(Mutex)]
    BY <1>0, <1>3, <1>4, <2>1, <2>2
  <2> QED BY <1>0, <1>3, <2>3
<1>7. /\ wq[m] = Tail(k.wq[m]) /\ \A x \in Mutex : x # m => wq[x] = k.wq[x]
      /\ \A t \in Thread : t # k.cur => prio[t] = k.prio[t]
  BY <1>0
<1> HIDE DEF prio, wq, own, held
<1>8. c = [cur |-> k.cur, ready |-> k.ready, st |-> k.st, prio |-> prio, real |-> k.real,
           held |-> held, own |-> own, wq |-> wq]
  <2>1. c = [k EXCEPT !.held = held, !.prio = prio, !.wq = wq, !.own = own]
    OBVIOUS
  <2> HIDE DEF c
  <2> QED BY <2>1 DEF KernelType
<1>9. [cur |-> k.cur, ready |-> k.ready, st |-> k.st, prio |-> prio, real |-> k.real,
       held |-> held, own |-> own, wq |-> wq] \in KernelType(P)
  BY <1>0, <1>6, KernelRecord
<1>10. /\ c.cur = k.cur /\ c.ready = k.ready /\ c.st = k.st /\ c.prio = prio
       /\ c.real = k.real /\ c.wq = wq /\ c.own = own /\ c.held = held /\ c \in KernelType(P)
  BY <1>8, <1>9
<1> HIDE DEF c
<1>11. \A x \in Mutex : IsInjective(wq[x]) /\ ToSet(wq[x]) = ToSet(k.wq[x]) \ {u}
  <2> TAKE x \in Mutex
  <2>1. CASE x = m
    BY <1>3, <1>7, <2>1
  <2>2. CASE x # m
    BY <1>4, <1>7, <2>2 DEF Settled
  <2> QED BY <2>1, <2>2
<1>12. Settled(c, {u})
  <2>1. ASSUME NEW t \in Thread \ {u} PROVE InPlace(c, t)
    <3>1. InPlace(k, t)
      BY DEF Settled
    <3> QED BY <1>10, <1>11, <2>1, <3>1 DEF InPlace
  <2>2. IsInjective(c.ready)
    BY <1>10 DEF Settled
  <2>3. ASSUME NEW x \in Mutex, NEW y \in Mutex, ToSet(c.wq[x]) \cap ToSet(c.wq[y]) # {}
        PROVE  x = y
    <3>1. ToSet(k.wq[x]) \cap ToSet(k.wq[y]) # {}
      BY <1>10, <1>11, <2>3
    <3> QED BY <3>1 DEF Settled
  <2> QED BY <1>10, <1>11, <2>1, <2>2, <2>3 DEF Settled
<1>13. ASSUME Ordered(k) PROVE Ordered(c)
  <2>1. ASSUME NEW q \in Seq(Thread), k.cur \notin ToSet(q), OrderedBy(q, k.prio)
        PROVE  OrderedBy(q, prio)
    <3>1. ASSUME NEW i \in 1 .. Len(q) PROVE prio[q[i]] = k.prio[q[i]]
      <4>1. DOMAIN q = 1 .. Len(q)
        OBVIOUS
      <4>2. q[i] \in ToSet(q) /\ q[i] \in Thread
        BY <4>1 DEF ToSet
      <4> QED BY <1>7, <2>1, <4>2
    <3> QED BY <2>1, <3>1 DEF OrderedBy
  <2>2. OrderedBy(k.ready, prio)
    BY <1>0, <1>2, <1>13, <2>1 DEF Ordered
  <2>3. ASSUME NEW x \in Mutex PROVE OrderedBy(wq[x], prio)
    <3>1. OrderedBy(k.wq[x], k.prio) /\ k.wq[x] \in Seq(Thread)
      BY <1>0, <1>13 DEF Ordered
    <3>2. OrderedBy(wq[x], k.prio)
      <4>1. CASE x = m
        BY <1>7, <3>1, <4>1, TailOrdered
      <4>2. CASE x # m
        BY <1>7, <3>1, <4>2
      <4> QED BY <4>1, <4>2
    <3>3. wq[x] \in Seq(Thread) /\ k.cur \notin ToSet(wq[x])
      BY <1>2, <1>6, <1>11
    <3> QED BY <2>1, <3>2, <3>3
  <2> QED BY <1>10, <2>2, <2>3 DEF Ordered
<1> DEFINE w == ReadyI(c, u)
<1>14. /\ w \in KernelType(P) /\ Settled(w, {}) /\ SameMutexes(c, w)
       /\ w.cur = c.cur /\ w.st = [c.st EXCEPT ![u] = "READY"]
       /\ ToSet(w.ready) = ToSet(c.ready) \cup {u}
       /\ Ordered(c) => Ordered(w)
  <2>1. u # c.cur
    BY <1>4, <1>10, <1>11
  <2>4. u \notin ToSet(c.ready)
    BY <1>4, <1>10, <1>11
  <2>5. \A x \in Mutex : u \notin ToSet(c.wq[x])
    BY <1>4, <1>10, <1>11
  <2>2. c \in KernelType(P)
    BY <1>10
  <2>3. u \in Thread
    BY <1>3
  <2>6. Readied(P, c, u, w)
    BY <1>1, <2>3, <1>12, <2>1, <2>2, <2>4, <2>5, ReadyIIs
  <2> QED BY <2>6 DEF Readied
<1>15. r = RescheduleS(w)
  BY <1>5
<1> HIDE DEF w
<1>16. /\ r \in KernelType(P) /\ Settled(r, {}) /\ SameMutexes(w, r)
       /\ \A t \in Thread : Able(r, t) <=> Able(w, t)
       /\ \A t \in Thread : ~Able(w, t) => r.st[t] = w.st[t]
       /\ Ordered(w) => Ordered(r) /\ Highest(r)
  BY <1>1, <1>14, <1>15, RescheduleIs
<1>17. Able(w, u) /\ \A t \in Thread \ {u} : w.st[t] = k.st[t]
  <2>1. w.st = [k.st EXCEPT ![u] = "READY"]
    BY <1>10, <1>14
  <2> QED BY <1>0, <1>3, <2>1 DEF Able
<1>18. /\ Able(r, u) /\ \A t \in Thread \ {u} : Able(r, t) <=> Able(k, t)
       /\ \A t \in Thread \ {u} : ~Able(k, t) => r.st[t] = k.st[t]
  <2>1. \A t \in Thread \ {u} : Able(w, t) <=> Able(k, t)
    BY <1>17 DEF Able
  <2> QED BY <1>3, <1>16, <1>17, <2>1
<1>19. r.prio = prio /\ r.real = k.real /\ r.held = held /\ r.own = own /\ r.wq = wq
  BY <1>10, <1>14, <1>16 DEF SameMutexes
<1> QED BY <1>3, <1>4, <1>13, <1>14, <1>16, <1>18, <1>19 DEF HandedOver, prio, wq, own, held
-----------------------------------------------------------------------------
(* The priority of the running thread *)

\* A thread that sets the highest priority there is goes on running.
LEMMA SetHighestIs ==
    ASSUME NEW P \in SUBSET Int, NEW k \in KernelType(P), Settled(k, {}),
           NEW p \in P, \A x \in P : x <= p, NEW r, r = SetPriority(k, p)
    PROVE  /\ r \in KernelType(P) /\ Settled(r, {})
           /\ r.cur = k.cur /\ r.ready = k.ready /\ r.st = k.st
           /\ r.held = k.held /\ r.own = k.own /\ r.wq = k.wq
           /\ r.real = [k.real EXCEPT ![k.cur] = p]
           /\ r.prio = [k.prio EXCEPT ![k.cur] = p]
<1>0. /\ k.cur \in Thread /\ k.ready \in Seq(Thread) /\ k.st \in [Thread -> States]
      /\ k.prio \in [Thread -> P] /\ k.real \in [Thread -> P]
      /\ k.held \in [Thread -> Seq(Mutex)]
      /\ k.own \in [Mutex -> Thread \cup {NoThread}] /\ k.wq \in [Mutex -> Seq(Thread)]
  BY KernelFields
<1>1. PICK prio : prio = [k.prio EXCEPT ![k.cur] = p]
  OBVIOUS
<1>2. PICK real : real = [k.real EXCEPT ![k.cur] = p]
  OBVIOUS
<1>3. prio \in [Thread -> P] /\ real \in [Thread -> P] /\ prio[k.cur] = p
  BY <1>0, <1>1, <1>2
<1>4. PICK j : j = [cur |-> k.cur, ready |-> k.ready, st |-> k.st, prio |-> prio,
                    real |-> real, held |-> k.held, own |-> k.own, wq |-> k.wq]
  OBVIOUS
<1>5. /\ j \in KernelType(P)
      /\ j.cur = k.cur /\ j.ready = k.ready /\ j.st = k.st /\ j.prio = prio
      /\ j.real = real /\ j.held = k.held /\ j.own = k.own /\ j.wq = k.wq
  BY <1>0, <1>3, <1>4, KernelRecord
<1>6. Settled(j, {})
  BY <1>5 DEF Settled, InPlace
<1>7. r = RescheduleS(j)
  <2>1. k.prio[k.cur] \in Int /\ p \in Int /\ k.prio[k.cur] <= p
    BY <1>0
  <2>2. (IF k.prio[k.cur] = k.real[k.cur] \/ p > k.prio[k.cur] THEN p ELSE k.prio[k.cur]) = p
    BY <2>1
  <2>3. [k EXCEPT !.prio[k.cur] = IF @ = k.real[k.cur] \/ p > @ THEN p ELSE @,
                  !.real[k.cur] = p] = [k EXCEPT !.prio = prio, !.real = real]
    BY <1>0, <1>1, <1>2, <2>2
  <2>4. [k EXCEPT !.prio = prio, !.real = real] = j
    <3>1. k = [cur |-> k.cur, ready |-> k.ready, st |-> k.st, prio |-> k.prio,
               real |-> k.real, held |-> k.held, own |-> k.own, wq |-> k.wq]
      BY DEF KernelType
    <3>2. PICK e : e = [k EXCEPT !.prio = prio, !.real = real]
      OBVIOUS
    <3>3. e = [cur |-> k.cur, ready |-> k.ready, st |-> k.st, prio |-> prio,
               real |-> real, held |-> k.held, own |-> k.own, wq |-> k.wq]
      BY <3>1, <3>2
    <3> QED BY <1>4, <3>2, <3>3
  <2> QED BY <2>3, <2>4 DEF SetPriority
<1>8. ~(j.ready # <<>> /\ j.prio[Head(j.ready)] > j.prio[j.cur])
  <2>1. ASSUME j.ready # <<>> PROVE j.prio[Head(j.ready)] <= p
    <3>1. Head(j.ready) \in Thread
      BY <1>0, <1>5, <2>1
    <3> QED BY <1>3, <1>5, <3>1
  <2>2. \A x \in P : ~(x > p)
    OBVIOUS
  <2>3. j.ready # <<>> => j.prio[Head(j.ready)] \in P
    BY <1>0, <1>3, <1>5
  <2> QED BY <1>3, <1>5, <2>2, <2>3
<1>9. r = j
  BY <1>7, <1>8 DEF RescheduleS
<1> QED BY <1>1, <1>2, <1>5, <1>6, <1>9
=============================================================================
