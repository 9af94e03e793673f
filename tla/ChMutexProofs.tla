--------------------------- MODULE ChMutexProofs ---------------------------
(***************************************************************************)
(* Priority inheritance in ChMutex is correct, for any number of threads   *)
(* and mutexes and any priorities: the links of the kernel agree, queues   *)
(* are in order, every thread has exactly the priority it should inherit,  *)
(* nobody waits for a thread that waits its turn, and mutexes keep the     *)
(* promise of AbstractMutex.                                               *)
(***************************************************************************)
EXTENDS ChMutex, ChKernelProofs

(* The inductive invariant, in parts *)

Typed == k \in KernelType(Prios)

Kinds == \A t \in Thread : k.st[t] \in {"CURRENT", "READY", "SLEEPING", "WTMTX"}

\* The owner of a mutex has it in its list.
Agree == \A m \in Mutex, t \in Thread : k.own[m] = t <=> m \in ToSet(k.held[t])

\* The last taken is the first in the list and the highest in the order.
Falling(s) == \A i, j \in 1 .. Len(s) : i < j => Rank[s[i]] > Rank[s[j]]
Descending == \A t \in Thread : Falling(k.held[t])

\* A thread waits for a mutex that has an owner and comes after all it owns.
Nested == \A m \in Mutex : \A t \in ToSet(k.wq[m]) :
              k.own[m] # NoThread /\ \A x \in ToSet(k.held[t]) : Rank[x] < Rank[m]

IdleFree == Able(k, Idle) /\ k.held[Idle] = <<>>

\* A thread has its own priority at least, and that of all who wait for it.
AtLeast == \A t \in Thread :
    /\ k.real[t] <= k.prio[t]
    /\ \A m \in Mutex : k.own[m] = t => \A u \in ToSet(k.wq[m]) : k.prio[u] <= k.prio[t]

\* If it has more than its own, one that waits for it has as much.
NoMore == \A t \in Thread :
    \/ k.prio[t] = k.real[t]
    \/ \E m \in Mutex : k.own[m] = t /\ \E u \in ToSet(k.wq[m]) : k.prio[u] = k.prio[t]

Links == Typed /\ Kinds /\ Settled(k, {}) /\ Agree /\ Descending /\ Nested /\ IdleFree

IInv == Links /\ Ordered(k) /\ Highest(k) /\ AtLeast /\ NoMore
-----------------------------------------------------------------------------
(* Consequences of the links *)

LEMMA PriosAre == Prios \in SUBSET Nat /\ Prios \in SUBSET Int
BY IdleAssumption DEF Prios

LEMMA Fields ==
    ASSUME Links
    PROVE  /\ k.cur \in Thread /\ k.ready \in Seq(Thread) /\ k.st \in [Thread -> States]
           /\ k.prio \in [Thread -> Prios] /\ k.real \in [Thread -> Prios]
           /\ k.held \in [Thread -> Seq(Mutex)]
           /\ k.own \in [Mutex -> Thread \cup {NoThread}] /\ k.wq \in [Mutex -> Seq(Thread)]
           /\ k.prio \in [Thread -> Nat] /\ k.real \in [Thread -> Nat]
<1>1. k \in KernelType(Prios)
  BY DEF Links, Typed
<1> QED BY <1>1, PriosAre DEF KernelType

\* The members of the lists are threads and mutexes.
LEMMA Members ==
    ASSUME Links
    PROVE  /\ ToSet(k.ready) \subseteq Thread
           /\ \A m \in Mutex : ToSet(k.wq[m]) \subseteq Thread
           /\ \A t \in Thread : ToSet(k.held[t]) \subseteq Mutex
<1>1. \A S : \A q \in Seq(S) : ToSet(q) \subseteq S
  BY DEF ToSet
<1> QED BY <1>1, Fields

\* Unless idle runs, it is ready.
LEMMA SomeoneReady ==
    ASSUME Links, k.cur # Idle
    PROVE  k.ready # <<>>
<1>1. Idle \in ToSet(k.ready)
  BY IdleAssumption DEF Links, IdleFree, Able, Settled, InPlace
<1>2. ToSet(<<>>) = {}
  BY DEF ToSet
<1> QED BY <1>1, <1>2

\* The running thread waits for nothing.
LEMMA CurIs ==
    ASSUME Links
    PROVE  /\ k.cur \in Thread /\ k.st[k.cur] = "CURRENT" /\ k.cur \notin ToSet(k.ready)
           /\ \A m \in Mutex : k.cur \notin ToSet(k.wq[m])
BY Fields DEF Links, Settled, InPlace

\* A thread that waits does so for the mutex of another.
LEMMA WaiterIs ==
    ASSUME Links, NEW t \in Thread, k.st[t] = "WTMTX"
    PROVE  /\ WaitsOn(k, t) \in Mutex /\ t \in ToSet(k.wq[WaitsOn(k, t)])
           /\ k.own[WaitsOn(k, t)] \in Thread
<1>1. WaitsOn(k, t) \in Mutex /\ t \in ToSet(k.wq[WaitsOn(k, t)])
  BY WaitsOnIs DEF Links
<1> QED BY <1>1, Fields DEF Links, Nested

\* The mutexes that the threads of a chain wait for come ever later.
LEMMA RanksRise ==
    ASSUME Links, NEW A \in SUBSET Thread, NEW x \in Mutex,
           NEW v \in Chain(k, k.own[x], A), k.st[v] = "WTMTX"
    PROVE  Rank[x] < Rank[WaitsOn(k, v)]
<1> DEFINE C == Chain(k, k.own[x], A)
           S == {u \in A : k.st[u] = "WTMTX" => Rank[x] < Rank[WaitsOn(k, u)]}
<1>1. \A R \in SUBSET A : ClosedFrom(k, k.own[x], A, R) => C \subseteq R
  BY ChainIs
<1>2. ASSUME NEW y \in Mutex, Rank[x] <= Rank[y], NEW u \in Thread, u = k.own[y],
             k.st[u] = "WTMTX"
      PROVE  Rank[x] < Rank[WaitsOn(k, u)]
  <2>1. WaitsOn(k, u) \in Mutex /\ u \in ToSet(k.wq[WaitsOn(k, u)])
    BY <1>2, WaiterIs
  <2>2. y \in ToSet(k.held[u])
    BY <1>2 DEF Links, Agree
  <2>3. Rank[y] < Rank[WaitsOn(k, u)]
    BY <2>1, <2>2 DEF Links, Nested
  <2> QED BY <1>2, <2>1, <2>3, RankAssumption
<1>3. ClosedFrom(k, k.own[x], A, S)
  <2>1. k.own[x] \in A => k.own[x] \in S
    BY <1>2, RankAssumption
  <2>2. ASSUME NEW u \in S, k.st[u] = "WTMTX", k.own[WaitsOn(k, u)] \in A
        PROVE  k.own[WaitsOn(k, u)] \in S
    <3>1. WaitsOn(k, u) \in Mutex
      BY <2>2, WaiterIs
    <3>2. Rank[x] <= Rank[WaitsOn(k, u)]
      BY <2>2, <3>1, RankAssumption
    <3> QED BY <1>2, <2>2, <3>1, <3>2
  <2> QED BY <2>1, <2>2 DEF ClosedFrom
<1>4. v \in S
  <2> HIDE DEF S
  <2>1. S \in SUBSET A
    BY DEF S
  <2> QED BY <1>1, <1>3, <2>1
<1> QED BY <1>4

\* Of the threads of a chain one at most is in the ready list or in the queue
\* of any one mutex.
LEMMA OneOfChain ==
    ASSUME Links, NEW A \in SUBSET Thread, NEW m \in Mutex,
           NEW b \in Chain(k, k.own[m], A), NEW c \in Chain(k, k.own[m], A)
    PROVE  /\ b \in ToSet(k.ready) /\ c \in ToSet(k.ready) => b = c
           /\ \A x \in Mutex : b \in ToSet(k.wq[x]) /\ c \in ToSet(k.wq[x]) => b = c
<1>1. b \in Thread /\ c \in Thread
  BY ChainIs
<1>2. c \in Chain(k, b, A) \/ b \in Chain(k, c, A)
  BY ChainIsLinear
<1>3. ASSUME b \in ToSet(k.ready), c \in ToSet(k.ready) PROVE b = c
  <2>1. k.st[b] = "READY" /\ k.st[c] = "READY"
    BY <1>1, <1>3 DEF Links, Settled, InPlace
  <2>2. Chain(k, b, A) \subseteq {b} /\ Chain(k, c, A) \subseteq {c}
    BY <2>1, ChainNext
  <2> QED BY <1>2, <2>2
<1>4. ASSUME NEW x \in Mutex, NEW d \in Thread, NEW e \in Chain(k, d, A),
             d \in ToSet(k.wq[x]), e \in ToSet(k.wq[x])
      PROVE  d = e
  <2>1. e \in Thread
    BY ChainIs
  <2>2. k.st[d] = "WTMTX" /\ k.st[e] = "WTMTX"
    BY <1>4, <2>1 DEF Links, Settled, InPlace
  <2>3. WaitsOn(k, d) = x /\ WaitsOn(k, e) = x
    BY <1>4, <2>1, <2>2, WaitsOnIs DEF Links
  <2>4. Chain(k, d, A) \subseteq {d} \cup Chain(k, k.own[x], A)
    BY <2>3, ChainNext
  <2>5. e \in Chain(k, k.own[x], A) => Rank[x] < Rank[x]
    BY <2>2, <2>3, RanksRise
  <2> QED BY <2>4, <2>5, RankAssumption
<1> QED BY <1>1, <1>2, <1>3, <1>4
-----------------------------------------------------------------------------
(* Every call keeps the invariant *)

\* What depends on the mutexes alone stays when they do.
LEMMA MutexesSame ==
    ASSUME IInv, SameMutexes(k, k'), k' \in KernelType(Prios), Settled(k', {}), Kinds',
           Able(k', Idle), Ordered(k') /\ Highest(k')
    PROVE  IInv'
<1>1. Typed' /\ Settled(k, {})' /\ Ordered(k)' /\ Highest(k)' /\ Able(k, Idle)'
  BY DEF Typed, Prios
<1>2. Agree' /\ Descending' /\ Nested' /\ IdleFree'
  BY <1>1 DEF IInv, Links, SameMutexes, Agree, Descending, Nested, IdleFree
<1>3. AtLeast' /\ NoMore'
  BY DEF IInv, SameMutexes, AtLeast, NoMore
<1> QED BY <1>1, <1>2, <1>3 DEF IInv, Links

\* The states of threads other than t stay among those of this module.
LEMMA KindsKept ==
    ASSUME Kinds, NEW t \in Thread,
           Able(k', t) \/ k'.st[t] \in {"SLEEPING", "WTMTX"},
           \A u \in Thread \ {t} : Able(k', u) <=> Able(k, u),
           \A u \in Thread \ {t} : ~Able(k, u) => k'.st[u] = k.st[u]
    PROVE  Kinds'
BY DEF Kinds, Able

LEMMA SleepKept ==
    ASSUME IInv, NEW t \in Thread, Sleep(t)
    PROVE  IInv'
<1>1. t = k.cur /\ t # Idle /\ k' = GoSleepS(k, "SLEEPING")
  BY DEF Sleep
<1>2. k.ready # <<>> /\ k \in KernelType(Prios) /\ Settled(k, {})
  BY <1>1, SomeoneReady DEF IInv, Links, Typed
<1>3. /\ k' \in KernelType(Prios) /\ Settled(k', {}) /\ SameMutexes(k, k')
      /\ k'.st[k.cur] = "SLEEPING"
      /\ \A u \in Thread \ {k.cur} : Able(k', u) <=> Able(k, u)
      /\ \A u \in Thread \ {k.cur} : ~Able(k, u) => k'.st[u] = k.st[u]
      /\ Ordered(k) => Ordered(k') /\ Highest(k')
  BY <1>1, <1>2, PriosAre, GoSleepIs
<1>4. Kinds'
  BY <1>1, <1>3, KindsKept DEF IInv, Links
<1>5. Able(k', Idle)
  BY <1>1, <1>3, IdleAssumption DEF IInv, Links, IdleFree
<1> QED BY <1>3, <1>4, <1>5, MutexesSame DEF IInv

LEMMA WakeKept ==
    ASSUME IInv, NEW t \in Thread, Wake(t)
    PROVE  IInv'
<1>1. k.st[t] = "SLEEPING" /\ k' = WakeupS(k, t)
  BY DEF Wake
<1>2. k \in KernelType(Prios) /\ Settled(k, {}) /\ k.st[t] \notin {"CURRENT", "READY", "WTMTX"}
  BY <1>1 DEF IInv, Links, Typed
<1>3. /\ k' \in KernelType(Prios) /\ Settled(k', {}) /\ SameMutexes(k, k')
      /\ Able(k', t)
      /\ \A u \in Thread \ {t} : Able(k', u) <=> Able(k, u)
      /\ \A u \in Thread \ {t} : ~Able(k, u) => k'.st[u] = k.st[u]
      /\ Ordered(k) => Ordered(k') /\ Highest(k')
  BY <1>1, <1>2, PriosAre, WakeupIs
<1>4. Kinds'
  BY <1>3, KindsKept DEF IInv, Links
<1>5. Able(k', Idle)
  BY <1>3, IdleAssumption DEF IInv, Links, IdleFree
<1> QED BY <1>3, <1>4, <1>5, MutexesSame DEF IInv

\* Taking a mutex that comes after those in the list.
LEMMA FallingCons ==
    ASSUME NEW s \in Seq(Mutex), Falling(s), NEW m \in Mutex, \A x \in ToSet(s) : Rank[x] < Rank[m]
    PROVE  Falling(<<m>> \o s)
<1> DEFINE r == <<m>> \o s
<1>1. /\ Len(r) = Len(s) + 1 /\ Len(s) \in Nat
      /\ \A j \in 1 .. Len(s) + 1 : r[j] = IF j = 1 THEN m ELSE s[j - 1]
  BY ConsIs
<1> HIDE DEF r
<1>2. \A j \in 1 .. Len(s) : s[j] \in ToSet(s) /\ s[j] \in Mutex
  <2>1. DOMAIN s = 1 .. Len(s)
    OBVIOUS
  <2> QED BY <2>1 DEF ToSet
<1>3. SUFFICES ASSUME NEW i \in 1 .. Len(s) + 1, NEW j \in 1 .. Len(s) + 1, i < j
               PROVE  Rank[r[i]] > Rank[r[j]]
  BY <1>1 DEF Falling, r
<1>4. j - 1 \in 1 .. Len(s) /\ r[j] = s[j - 1]
  BY <1>1, <1>3
<1>5. CASE i = 1
  <2>1. r[i] = m /\ Rank[s[j - 1]] < Rank[m] /\ s[j - 1] \in Mutex
    BY <1>1, <1>2, <1>4, <1>5
  <2> QED BY <1>4, <2>1, RankAssumption
<1>6. CASE i # 1
  <2>1. i - 1 \in 1 .. Len(s) /\ r[i] = s[i - 1] /\ i - 1 < j - 1
    BY <1>1, <1>3, <1>6
  <2> QED BY <1>4, <2>1 DEF Falling
<1> QED BY <1>5, <1>6

\* The first of the list is the highest; giving it back leaves the others.
LEMMA FallingTail ==
    ASSUME NEW s \in Seq(Mutex), s # <<>>, Falling(s)
    PROVE  /\ IsInjective(s) /\ Falling(Tail(s))
           /\ \A x \in ToSet(s) : Rank[x] <= Rank[Head(s)]
<1>1. DOMAIN s = 1 .. Len(s) /\ \A j \in 1 .. Len(s) : s[j] \in Mutex /\ Rank[s[j]] \in Nat
  BY RankAssumption
<1>2. IsInjective(s)
  <2> SUFFICES ASSUME NEW i \in 1 .. Len(s), NEW j \in 1 .. Len(s), s[i] = s[j], i # j
               PROVE  FALSE
    BY <1>1 DEF IsInjective
  <2>1. i < j \/ j < i
    OBVIOUS
  <2>2. Rank[s[i]] > Rank[s[j]] \/ Rank[s[j]] > Rank[s[i]]
    BY <2>1 DEF Falling
  <2> QED BY <1>1, <2>2
<1>3. /\ Len(s) \in Nat /\ Len(Tail(s)) = Len(s) - 1 /\ Len(s) > 0 /\ Head(s) = s[1]
      /\ \A j \in 1 .. Len(s) - 1 : Tail(s)[j] = s[j + 1]
  OBVIOUS
<1>4. Falling(Tail(s))
  <2> SUFFICES ASSUME NEW i \in 1 .. Len(s) - 1, NEW j \in 1 .. Len(s) - 1, i < j
               PROVE  Rank[Tail(s)[i]] > Rank[Tail(s)[j]]
    BY <1>3 DEF Falling
  <2>1. /\ i + 1 \in 1 .. Len(s) /\ j + 1 \in 1 .. Len(s) /\ i + 1 < j + 1
        /\ Tail(s)[i] = s[i + 1] /\ Tail(s)[j] = s[j + 1]
    BY <1>3
  <2> QED BY <2>1 DEF Falling
<1>5. ASSUME NEW x \in ToSet(s) PROVE Rank[x] <= Rank[Head(s)]
  <2>1. PICK j \in 1 .. Len(s) : x = s[j]
    BY <1>1 DEF ToSet
  <2>2. CASE j = 1
    BY <1>1, <1>3, <2>1, <2>2
  <2>3. CASE j # 1
    <3>1. 1 \in 1 .. Len(s) /\ 1 < j
      BY <2>3
    <3>2. Rank[s[1]] > Rank[s[j]]
      BY <3>1 DEF Falling
    <3> QED BY <1>1, <1>3, <2>1, <3>1, <3>2
  <2> QED BY <2>2, <2>3
<1> QED BY <1>2, <1>4, <1>5

\* A mutex that may be locked comes after all the caller has.
LEMMA Allowed ==
    ASSUME Links, NEW m \in Mutex,
           k.held[k.cur] # <<>> => Rank[m] > Rank[Head(k.held[k.cur])]
    PROVE  /\ \A x \in ToSet(k.held[k.cur]) : Rank[x] < Rank[m]
           /\ m \notin ToSet(k.held[k.cur]) /\ k.own[m] # k.cur
<1> DEFINE s == k.held[k.cur]
<1>1. s \in Seq(Mutex) /\ Falling(s) /\ k.cur \in Thread
  BY Fields DEF Links, Descending
<1>2. \A x \in ToSet(s) : Rank[x] < Rank[m]
  <2>1. CASE s = <<>>
    BY <2>1 DEF ToSet
  <2>2. CASE s # <<>>
    <3>1. /\ \A x \in ToSet(s) : Rank[x] <= Rank[Head(s)] /\ x \in Mutex
          /\ Head(s) \in Mutex
      BY <1>1, <2>2, FallingTail, Members
    <3> QED BY <2>2, <3>1, RankAssumption
  <2> QED BY <2>1, <2>2
<1>3. m \notin ToSet(s)
  BY <1>2, RankAssumption
<1> QED BY <1>1, <1>2, <1>3 DEF Links, Agree

LEMMA LockFreeKept ==
    ASSUME IInv, NEW m \in Mutex, LockM(k.cur, m), k.own[m] = NoThread
    PROVE  IInv'
<1>1. /\ k' = Lock(k, m) /\ k \in KernelType(Prios) /\ Settled(k, {}) /\ k.cur # Idle
      /\ Links /\ (k.held[k.cur] # <<>> => Rank[m] > Rank[Head(k.held[k.cur])])
  BY DEF LockM, IInv, Links, Typed
<1>2. /\ k' \in KernelType(Prios) /\ Settled(k', {})
      /\ k'.cur = k.cur /\ k'.ready = k.ready /\ k'.st = k.st /\ k'.prio = k.prio
      /\ k'.real = k.real /\ k'.wq = k.wq
      /\ k'.own = [k.own EXCEPT ![m] = k.cur]
      /\ k'.held = [k.held EXCEPT ![k.cur] = <<m>> \o @]
  BY <1>1, PriosAre, LockFreeIs
<1>3. \A x \in ToSet(k.held[k.cur]) : Rank[x] < Rank[m]
  BY <1>1, Allowed
<1>4. /\ k.cur \in Thread /\ k.held[k.cur] \in Seq(Mutex) /\ k.own \in [Mutex -> Thread \cup {NoThread}]
      /\ k.held \in [Thread -> Seq(Mutex)] /\ \A x \in Mutex : k.cur \notin ToSet(k.wq[x])
      /\ \A x \in Mutex : ToSet(k.wq[x]) \subseteq Thread
  BY <1>1, Fields, CurIs, Members
<1> DEFINE s == <<m>> \o k.held[k.cur]
<1>5. ToSet(s) = ToSet(k.held[k.cur]) \cup {m} /\ Falling(s)
  BY <1>1, <1>3, <1>4, ConsIs, FallingCons DEF Links, Descending
<1>6. /\ k'.held[k.cur] = s /\ \A t \in Thread \ {k.cur} : k'.held[t] = k.held[t]
      /\ k'.own[m] = k.cur /\ \A x \in Mutex \ {m} : k'.own[x] = k.own[x]
  BY <1>2, <1>4
<1> HIDE DEF s
<1>7. ToSet(k.wq[m]) = {}
  BY <1>1 DEF Links, Nested
<1>8. Agree'
  <2> SUFFICES ASSUME NEW x \in Mutex, NEW t \in Thread
               PROVE  k'.own[x] = t <=> x \in ToSet(k'.held[t])
    BY DEF Agree
  <2>1. k.own[x] = t <=> x \in ToSet(k.held[t])
    BY <1>1 DEF Links, Agree
  <2> QED BY <1>4, <1>5, <1>6, <2>1, NoThreadAssumption
<1>9. Descending'
  BY <1>1, <1>5, <1>6 DEF Links, Descending, Falling
<1>10. Nested'
  <2> SUFFICES ASSUME NEW x \in Mutex, NEW t \in ToSet(k.wq[x])
               PROVE  k'.own[x] # NoThread /\ \A y \in ToSet(k'.held[t]) : Rank[y] < Rank[x]
    BY <1>2 DEF Nested
  <2>1. x # m /\ t # k.cur /\ t \in Thread
    BY <1>4, <1>7
  <2> QED BY <1>1, <1>6, <2>1 DEF Links, Nested
<1>11. Typed' /\ Kinds' /\ Settled(k, {})' /\ IdleFree'
  <2>1. Able(k', Idle) /\ k'.held[Idle] = <<>>
    BY <1>1, <1>2, <1>6, IdleAssumption DEF Links, IdleFree, Able
  <2> QED BY <1>1, <1>2, <2>1 DEF Links, Typed, Prios, Kinds, IdleFree
<1>12. Ordered(k)' /\ Highest(k)'
  <2>1. Ordered(k') /\ Highest(k')
    BY <1>2 DEF IInv, Ordered, Highest
  <2> QED BY <2>1
<1>13. AtLeast' /\ NoMore'
  <2>1. AtLeast'
    BY <1>2, <1>6, <1>7 DEF IInv, AtLeast
  <2>2. NoMore'
    <3> SUFFICES ASSUME NEW t \in Thread, k.prio[t] # k.real[t]
                 PROVE  \E x \in Mutex : k'.own[x] = t /\ \E u \in ToSet(k.wq[x]) : k.prio[u] = k.prio[t]
      BY <1>2 DEF NoMore
    <3>1. PICK x \in Mutex : k.own[x] = t /\ \E u \in ToSet(k.wq[x]) : k.prio[u] = k.prio[t]
      BY DEF IInv, NoMore
    <3> QED BY <1>6, <1>7, <3>1
  <2> QED BY <2>1, <2>2
<1> QED BY <1>8, <1>9, <1>10, <1>11, <1>12, <1>13 DEF IInv, Links

\* Those on the way from the owner of m that have less than p are raised to p:
\* whoever of them a thread below waits for, or the caller, has that much.
LEMMA BoostedAre ==
    ASSUME Links, NEW m \in Mutex, NEW p, NEW B, B = Boosted(k, m, p)
    PROVE  /\ B \subseteq Thread /\ \A t \in B : k.prio[t] < p
           /\ k.own[m] \in Thread /\ k.prio[k.own[m]] < p => k.own[m] \in B
           /\ \A u \in B, x \in Mutex :
                 u \in ToSet(k.wq[x]) /\ k.prio[k.own[x]] < p => k.own[x] \in B
           /\ \A t \in B : t = k.own[m] \/
                 \E u \in B, x \in Mutex : u \in ToSet(k.wq[x]) /\ t = k.own[x]
<1> DEFINE A == {t \in Thread : k.prio[t] < p}
           S == {t \in B : t = k.own[m] \/
                   \E u \in B, x \in Mutex : u \in ToSet(k.wq[x]) /\ t = k.own[x]}
<1>0. B = Chain(k, k.own[m], A)
  BY DEF Boosted
<1>1. B \subseteq A /\ ClosedFrom(k, k.own[m], A, B)
      /\ \A R \in SUBSET A : ClosedFrom(k, k.own[m], A, R) => B \subseteq R
  <2> DEFINE C == Chain(k, k.own[m], A)
  <2>1. C \subseteq A /\ ClosedFrom(k, k.own[m], A, C)
        /\ \A R \in SUBSET A : ClosedFrom(k, k.own[m], A, R) => C \subseteq R
    BY ChainIs
  <2> HIDE DEF C
  <2> QED BY <1>0, <2>1 DEF C
<1>2. ASSUME NEW u \in B, NEW x \in Mutex, u \in ToSet(k.wq[x]), k.prio[k.own[x]] < p
      PROVE  k.own[x] \in B
  <2>1. u \in Thread /\ k.st[u] = "WTMTX" /\ WaitsOn(k, u) = x
    <3>1. u \in Thread /\ k.st[u] = "WTMTX"
      BY <1>1, <1>2 DEF Links, Settled, InPlace
    <3> QED BY <1>2, <3>1, WaitsOnIs DEF Links
  <2>2. k.own[x] \in Thread
    BY <2>1, WaiterIs
  <2> QED BY <1>1, <1>2, <2>1, <2>2 DEF ClosedFrom
<1>3. ClosedFrom(k, k.own[m], A, S)
  <2>1. k.own[m] \in A => k.own[m] \in S
    BY <1>1 DEF ClosedFrom
  <2>2. ASSUME NEW u \in S, k.st[u] = "WTMTX", k.own[WaitsOn(k, u)] \in A
        PROVE  k.own[WaitsOn(k, u)] \in S
    <3>1. WaitsOn(k, u) \in Mutex /\ u \in ToSet(k.wq[WaitsOn(k, u)])
      BY <1>1, <2>2, WaiterIs
    <3>2. k.own[WaitsOn(k, u)] \in B
      BY <1>1, <2>2 DEF ClosedFrom
    <3> QED BY <3>1, <3>2
  <2> QED BY <2>1, <2>2 DEF ClosedFrom
<1>4. B \subseteq S
  <2>1. S \in SUBSET A
    BY <1>1
  <2> HIDE DEF S
  <2> QED BY <1>1, <1>3, <2>1
<1>5. k.own[m] \in Thread /\ k.prio[k.own[m]] < p => k.own[m] \in B
  BY <1>1 DEF ClosedFrom
<1> QED BY <1>1, <1>2, <1>4, <1>5

\* Whoever has to wait hands its priority down the chain of owners.
LEMMA LockWaitKept ==
    ASSUME IInv, NEW m \in Mutex, LockM(k.cur, m), k.own[m] # NoThread
    PROVE  IInv'
<1> DEFINE p == k.prio[k.cur]
           B == Boosted(k, m, p)
           o == k.own[m]
<1>1. /\ k' = Lock(k, m) /\ k \in KernelType(Prios) /\ Settled(k, {}) /\ k.cur # Idle
      /\ Links /\ (k.held[k.cur] # <<>> => Rank[m] > Rank[Head(k.held[k.cur])])
      /\ k.ready # <<>>
  BY SomeoneReady DEF LockM, IInv, Links, Typed
<1>2. /\ k' \in KernelType(Prios) /\ Settled(k', {})
      /\ k'.real = k.real /\ k'.held = k.held /\ k'.own = k.own
      /\ k'.st[k.cur] = "WTMTX"
      /\ \A t \in Thread \ {k.cur} : Able(k', t) <=> Able(k, t)
      /\ \A t \in Thread \ {k.cur} : ~Able(k, t) => k'.st[t] = k.st[t]
      /\ \A x \in Mutex :
           ToSet(k'.wq[x]) = IF x = m THEN ToSet(k.wq[x]) \cup {k.cur} ELSE ToSet(k.wq[x])
      /\ k'.prio = [t \in Thread |-> IF t \in B THEN k.prio[k.cur] ELSE k.prio[t]]
      /\ /\ Ordered(k)
         /\ \A t, u \in B : t \in ToSet(k.ready) /\ u \in ToSet(k.ready) => t = u
         /\ \A t, u \in B, x \in Mutex :
               t \in ToSet(k.wq[x]) /\ u \in ToSet(k.wq[x]) => t = u
         => Ordered(k') /\ Highest(k')
  <2>1. GoneToWait(Prios, k, m, B, k')
    BY <1>1, PriosAre, LockWaitIs
  <2> HIDE DEF B
  <2> QED BY <2>1 DEF GoneToWait
<1>3. /\ k.cur \in Thread /\ \A x \in Mutex : k.cur \notin ToSet(k.wq[x])
      /\ \A x \in Mutex : ToSet(k.wq[x]) \subseteq Thread
      /\ k.prio \in [Thread -> Nat] /\ k.real \in [Thread -> Nat] /\ k.own \in [Mutex -> Thread \cup {NoThread}]
      /\ p \in Nat /\ o \in Thread
  BY <1>1, Fields, CurIs, Members
<1>4. (\A x \in ToSet(k.held[k.cur]) : Rank[x] < Rank[m]) /\ o # k.cur
  BY <1>1, Allowed
<1>5. /\ B \subseteq Thread /\ \A t \in B : k.prio[t] < p
      /\ k.own[m] \in Thread /\ k.prio[k.own[m]] < p => k.own[m] \in B
      /\ \A u \in B, x \in Mutex :
            u \in ToSet(k.wq[x]) /\ k.prio[k.own[x]] < p => k.own[x] \in B
      /\ \A t \in B : t = k.own[m] \/
            \E u \in B, x \in Mutex : u \in ToSet(k.wq[x]) /\ t = k.own[x]
  BY <1>1, BoostedAre
<1>6. Ordered(k') /\ Highest(k')
  <2> DEFINE A == {t \in Thread : k.prio[t] < p}
  <2>1. B = Chain(k, k.own[m], A)
    BY DEF Boosted
  <2>0. A \in SUBSET Thread
    OBVIOUS
  <2> HIDE DEF A, B
  <2>2. ASSUME NEW t \in B, NEW u \in B
        PROVE  /\ t \in ToSet(k.ready) /\ u \in ToSet(k.ready) => t = u
               /\ \A x \in Mutex : t \in ToSet(k.wq[x]) /\ u \in ToSet(k.wq[x]) => t = u
    <3>1. t \in Chain(k, k.own[m], A) /\ u \in Chain(k, k.own[m], A)
      BY <2>1
    <3> QED BY <1>1, <2>0, <3>1, OneOfChain
  <2> QED BY <1>2, <2>2 DEF IInv
<1> HIDE DEF B
<1>7. /\ \A t \in B : k'.prio[t] = p
      /\ \A t \in Thread : k.prio[t] <= k'.prio[t]
      /\ \A t \in Thread \ B : k'.prio[t] = k.prio[t]
      /\ k'.prio[k.cur] = p
  BY <1>2, <1>3, <1>5
<1>8. Agree' /\ Descending'
  BY <1>1, <1>2 DEF Links, Agree, Descending
<1>9. Nested'
  <2> SUFFICES ASSUME NEW x \in Mutex, NEW t \in ToSet(k'.wq[x])
               PROVE  k.own[x] # NoThread /\ \A y \in ToSet(k.held[t]) : Rank[y] < Rank[x]
    BY <1>2 DEF Nested
  <2>1. CASE t \in ToSet(k.wq[x])
    BY <1>1, <2>1 DEF Links, Nested
  <2>2. CASE t = k.cur /\ x = m
    BY <1>4, <2>2
  <2> QED BY <1>2, <2>1, <2>2
<1>10. Typed' /\ Kinds' /\ Settled(k, {})' /\ IdleFree'
  <2>1. Able(k', Idle) /\ k'.held[Idle] = <<>>
    BY <1>1, <1>2, IdleAssumption DEF Links, IdleFree
  <2>2. Kinds'
    BY <1>1, <1>2, <1>3, KindsKept DEF Links
  <2> QED BY <1>2, <2>1, <2>2 DEF Typed, Prios, IdleFree
<1>11. AtLeast'
  <2> SUFFICES ASSUME NEW t \in Thread
               PROVE  /\ k.real[t] <= k'.prio[t]
                      /\ \A x \in Mutex : k.own[x] = t =>
                            \A u \in ToSet(k'.wq[x]) : k'.prio[u] <= k'.prio[t]
    BY <1>2 DEF AtLeast
  <2>0. k.prio[t] \in Nat /\ k'.prio[t] \in Nat /\ k.real[t] \in Nat
    BY <1>2, <1>3
  <2>1. k.real[t] <= k'.prio[t]
    <3>1. k.real[t] <= k.prio[t]
      BY DEF IInv, AtLeast
    <3> QED BY <1>7, <2>0, <3>1
  <2>2. ASSUME NEW x \in Mutex, k.own[x] = t, NEW u \in ToSet(k'.wq[x])
        PROVE  k'.prio[u] <= k'.prio[t]
    <3>1. CASE u = k.cur /\ x = m
      <4>1. k.prio[t] < p => k'.prio[t] = p
        BY <1>5, <1>7, <2>2, <3>1
      <4> QED BY <1>3, <1>7, <2>0, <3>1, <4>1
    <3>2. CASE u \in ToSet(k.wq[x])
      <4>1. k.prio[u] <= k.prio[t] /\ u \in Thread
        BY <1>3, <2>2, <3>2 DEF IInv, AtLeast
      <4>2. CASE u \in B
        <5>1. k.prio[t] < p => k'.prio[t] = p
          BY <1>5, <1>7, <2>2, <3>2, <4>2
        <5> QED BY <1>3, <1>7, <2>0, <4>2, <5>1
      <4>3. CASE u \notin B
        BY <1>3, <1>7, <2>0, <4>1, <4>3
      <4> QED BY <4>2, <4>3
    <3> QED BY <1>2, <2>2, <3>1, <3>2
  <2> QED BY <2>1, <2>2
<1>12. NoMore'
  <2> SUFFICES ASSUME NEW t \in Thread
               PROVE  \/ k'.prio[t] = k.real[t]
                      \/ \E x \in Mutex : k.own[x] = t /\
                            \E u \in ToSet(k'.wq[x]) : k'.prio[u] = k'.prio[t]
    BY <1>2 DEF NoMore
  <2>1. CASE t \in B
    <3>1. CASE t = k.own[m]
      <4>1. k.cur \in ToSet(k'.wq[m]) /\ k'.prio[k.cur] = k'.prio[t]
        BY <1>2, <1>7, <2>1
      <4> QED BY <3>1, <4>1
    <3>2. ASSUME NEW u \in B, NEW x \in Mutex, u \in ToSet(k.wq[x]), t = k.own[x]
          PROVE  \E y \in Mutex : k.own[y] = t /\
                            \E v \in ToSet(k'.wq[y]) : k'.prio[v] = k'.prio[t]
      <4>1. u \in ToSet(k'.wq[x]) /\ k'.prio[u] = k'.prio[t]
        BY <1>2, <1>7, <2>1, <3>2
      <4> QED BY <3>2, <4>1
    <3> QED BY <1>5, <2>1, <3>1, <3>2
  <2>2. CASE t \notin B
    <3>1. k'.prio[t] = k.prio[t]
      BY <1>7, <2>2
    <3>2. CASE k.prio[t] = k.real[t]
      BY <3>1, <3>2
    <3>3. ASSUME NEW x \in Mutex, k.own[x] = t, NEW u \in ToSet(k.wq[x]), k.prio[u] = k.prio[t]
          PROVE  u \in ToSet(k'.wq[x]) /\ k'.prio[u] = k'.prio[t]
      <4>1. u \notin B
        BY <1>5, <2>2, <3>3
      <4> QED BY <1>2, <1>3, <1>7, <3>1, <3>3, <4>1
    <3> QED BY <3>2, <3>3 DEF IInv, NoMore
  <2> QED BY <2>1, <2>2
<1> QED BY <1>6, <1>8, <1>9, <1>10, <1>11, <1>12 DEF IInv, Links

\* What the caller of unlock has, and has left.
LEMMA LastTaken ==
    ASSUME Links, NEW m \in Mutex, UnlockM(k.cur, m)
    PROVE  /\ m \in ToSet(k.held[k.cur]) /\ k.own[m] = k.cur
           /\ HeldBefore(k.held[k.cur], m) = Tail(k.held[k.cur])
           /\ Tail(k.held[k.cur]) \in Seq(Mutex) /\ Falling(Tail(k.held[k.cur]))
           /\ ToSet(Tail(k.held[k.cur])) = ToSet(k.held[k.cur]) \ {m}
           /\ k.cur # Idle
<1> DEFINE s == k.held[k.cur]
<1>1. s # <<>> /\ m = Head(s) /\ s \in Seq(Mutex) /\ Falling(s) /\ k.cur \in Thread
  BY Fields DEF UnlockM, Links, Descending
<1>2. IsInjective(s) /\ Falling(Tail(s))
  BY <1>1, FallingTail
<1>3. Tail(s) \in Seq(Mutex) /\ ToSet(s) = ToSet(Tail(s)) \cup {m} /\ m \notin ToSet(Tail(s))
  BY <1>1, <1>2, HeadTail
<1>4. HeldBefore(s, m) = Tail(s)
  BY <1>1, <1>2, <1>3, HeldBeforeIs
<1>5. k.own[m] = k.cur /\ k.cur # Idle
  BY <1>1, <1>3 DEF Links, Agree, IdleFree
<1> QED BY <1>1, <1>2, <1>3, <1>4, <1>5

LEMMA UnlockFreeKept ==
    ASSUME IInv, NEW m \in Mutex, UnlockM(k.cur, m), k.wq[m] = <<>>
    PROVE  IInv'
<1> DEFINE s == Tail(k.held[k.cur])
<1>1. /\ k' = Unlock(k, m) /\ k \in KernelType(Prios) /\ Settled(k, {}) /\ Links
  BY DEF UnlockM, IInv, Links, Typed
<1>2. /\ m \in ToSet(k.held[k.cur]) /\ k.own[m] = k.cur /\ HeldBefore(k.held[k.cur], m) = s
      /\ Falling(s) /\ ToSet(s) = ToSet(k.held[k.cur]) \ {m} /\ k.cur # Idle
  BY <1>1, LastTaken
<1>3. /\ k' \in KernelType(Prios) /\ Settled(k', {})
      /\ k'.cur = k.cur /\ k'.ready = k.ready /\ k'.st = k.st /\ k'.prio = k.prio
      /\ k'.real = k.real /\ k'.wq = k.wq
      /\ k'.own = [k.own EXCEPT ![m] = NoThread]
      /\ k'.held = [k.held EXCEPT ![k.cur] = HeldBefore(@, m)]
  BY <1>1, <1>2, PriosAre, UnlockFreeIs
<1>4. /\ k.cur \in Thread /\ k.own \in [Mutex -> Thread \cup {NoThread}]
      /\ k.held \in [Thread -> Seq(Mutex)] /\ \A x \in Mutex : k.cur \notin ToSet(k.wq[x])
      /\ \A x \in Mutex : ToSet(k.wq[x]) \subseteq Thread
  BY <1>1, Fields, CurIs, Members
<1>5. /\ k'.held[k.cur] = s /\ \A t \in Thread \ {k.cur} : k'.held[t] = k.held[t]
      /\ k'.own[m] = NoThread /\ \A x \in Mutex \ {m} : k'.own[x] = k.own[x]
  BY <1>2, <1>3, <1>4
<1> HIDE DEF s
<1>6. ToSet(k.wq[m]) = {}
  BY DEF ToSet
<1>7. Agree'
  <2> SUFFICES ASSUME NEW x \in Mutex, NEW t \in Thread
               PROVE  k'.own[x] = t <=> x \in ToSet(k'.held[t])
    BY DEF Agree
  <2>1. k.own[x] = t <=> x \in ToSet(k.held[t])
    BY <1>1 DEF Links, Agree
  <2>2. CASE t = k.cur
    BY <1>2, <1>4, <1>5, <2>1, <2>2, NoThreadAssumption
  <2>3. CASE t # k.cur
    BY <1>2, <1>5, <2>1, <2>3, NoThreadAssumption
  <2> QED BY <2>2, <2>3
<1>8. Descending'
  BY <1>1, <1>2, <1>5 DEF Links, Descending, Falling
<1>9. Nested'
  <2> SUFFICES ASSUME NEW x \in Mutex, NEW t \in ToSet(k.wq[x])
               PROVE  k'.own[x] # NoThread /\ \A y \in ToSet(k'.held[t]) : Rank[y] < Rank[x]
    BY <1>3 DEF Nested
  <2>1. x # m /\ t # k.cur /\ t \in Thread
    BY <1>4, <1>6
  <2> QED BY <1>1, <1>5, <2>1 DEF Links, Nested
<1>10. Typed' /\ Kinds' /\ Settled(k, {})' /\ IdleFree'
  <2>1. Able(k', Idle) /\ k'.held[Idle] = <<>>
    BY <1>1, <1>2, <1>3, <1>5, IdleAssumption DEF Links, IdleFree, Able
  <2> QED BY <1>1, <1>3, <2>1 DEF Links, Typed, Prios, Kinds, IdleFree
<1>11. Ordered(k)' /\ Highest(k)'
  <2>1. Ordered(k') /\ Highest(k')
    BY <1>3 DEF IInv, Ordered, Highest
  <2> QED BY <2>1
<1>12. AtLeast' /\ NoMore'
  <2>1. AtLeast'
    BY <1>3, <1>5, <1>6 DEF IInv, AtLeast
  <2>2. NoMore'
    <3> SUFFICES ASSUME NEW t \in Thread, k.prio[t] # k.real[t]
                 PROVE  \E x \in Mutex : k'.own[x] = t /\ \E u \in ToSet(k.wq[x]) : k.prio[u] = k.prio[t]
      BY <1>3 DEF NoMore
    <3>1. PICK x \in Mutex : k.own[x] = t /\ \E u \in ToSet(k.wq[x]) : k.prio[u] = k.prio[t]
      BY DEF IInv, NoMore
    <3> QED BY <1>5, <1>6, <3>1
  <2> QED BY <2>1, <2>2
<1> QED BY <1>7, <1>8, <1>9, <1>10, <1>11, <1>12 DEF IInv, Links

\* The first of a queue in order has the highest priority in it.
LEMMA FirstIsHighest ==
    ASSUME NEW q \in Seq(Thread), q # <<>>, NEW prio \in [Thread -> Nat], OrderedBy(q, prio),
           NEW t \in ToSet(q)
    PROVE  prio[t] <= prio[Head(q)]
<1>1. DOMAIN q = 1 .. Len(q) /\ Head(q) = q[1] /\ \A j \in 1 .. Len(q) : q[j] \in Thread
  OBVIOUS
<1>2. PICK j \in 1 .. Len(q) : t = q[j]
  BY <1>1 DEF ToSet
<1>3. CASE j = 1
  BY <1>1, <1>2, <1>3
<1>4. CASE j # 1
  <2>1. 1 \in 1 .. Len(q) /\ 1 < j
    BY <1>4
  <2>2. prio[q[1]] >= prio[q[j]]
    BY <2>1 DEF OrderedBy
  <2> QED BY <1>1, <1>2, <2>1, <2>2
<1> QED BY <1>3, <1>4

\* The priority the caller of unlock goes back to is what the others ask of it.
LEMMA NewPrioBounds ==
    ASSUME IInv, NEW m \in Mutex, UnlockM(k.cur, m),
           NEW p, p = NewPrio(k, k.cur, ToSet(HeldBefore(k.held[k.cur], m)))
    PROVE  /\ p \in Prios /\ k.real[k.cur] <= p
           /\ \A x \in Mutex \ {m} : k.own[x] = k.cur =>
                 \A u \in ToSet(k.wq[x]) : k.prio[u] <= p
           /\ \/ p = k.real[k.cur]
              \/ \E x \in Mutex \ {m} : k.own[x] = k.cur /\
                    \E u \in ToSet(k.wq[x]) : k.prio[u] = p
<1> DEFINE ms == ToSet(k.held[k.cur]) \ {m}
           n == k.prio[k.cur]
<1>1. Links /\ k \in KernelType(Prios) /\ Ordered(k)
  BY DEF IInv, Links, Typed
<1>2. /\ k.cur \in Thread /\ k.prio \in [Thread -> Nat] /\ k.wq \in [Mutex -> Seq(Thread)]
      /\ n \in Nat /\ ms \in SUBSET Mutex /\ k.prio \in [Thread -> Prios]
  BY <1>1, Fields, Members
<1>3. p = NewPrio(k, k.cur, ms)
  BY <1>1, LastTaken
<1>4. \A x \in ms : x # m /\ k.own[x] = k.cur
  BY <1>1, <1>2 DEF Links, Agree
<1>5. \A x \in Mutex \ {m} : k.own[x] = k.cur => x \in ms
  BY <1>1, <1>2 DEF Links, Agree
<1> HIDE DEF ms
<1>6. \A x \in Mutex : k.wq[x] # <<>> => Head(k.wq[x]) \in ToSet(k.wq[x])
  <2>1. ASSUME NEW x \in Mutex, k.wq[x] # <<>> PROVE Head(k.wq[x]) \in ToSet(k.wq[x])
    <3>1. k.wq[x] \in Seq(Thread) /\ IsInjective(k.wq[x])
      BY <1>1, <1>2 DEF Links, Settled
    <3> QED BY <2>1, <3>1, HeadTail
  <2> QED BY <2>1
<1>7. k.real[k.cur] <= n /\ \A x \in ms : k.wq[x] # <<>> => k.prio[Head(k.wq[x])] <= n
  BY <1>2, <1>4, <1>6 DEF IInv, AtLeast
<1>8. /\ p \in Prios /\ k.real[k.cur] <= p
      /\ \A x \in ms : k.wq[x] # <<>> => k.prio[Head(k.wq[x])] <= p
      /\ p = k.real[k.cur] \/ \E x \in ms : k.wq[x] # <<>> /\ p = k.prio[Head(k.wq[x])]
  <2> HIDE DEF n
  <2> DEFINE r == NewPrio(k, k.cur, ms)
  <2>1. ms \in SUBSET Mutex /\ n \in Nat /\ Prios \in SUBSET Nat
    BY <1>2, PriosAre
  <2>2. /\ r \in Prios /\ k.real[k.cur] <= r
        /\ \A x \in ms : k.wq[x] # <<>> => k.prio[Head(k.wq[x])] <= r
        /\ \/ r = k.real[k.cur]
           \/ \E x \in ms : k.wq[x] # <<>> /\ r = k.prio[Head(k.wq[x])]
    BY <1>1, <1>2, <1>7, <2>1, NewPrioIs
  <2> HIDE DEF r
  <2> QED BY <1>3, <2>2 DEF r
<1>9. ASSUME NEW x \in Mutex \ {m}, k.own[x] = k.cur, NEW u \in ToSet(k.wq[x])
      PROVE  k.prio[u] <= p
  <2>1. k.wq[x] # <<>>
    BY <1>9 DEF ToSet
  <2>2. k.prio[u] <= k.prio[Head(k.wq[x])]
    BY <1>1, <1>2, <2>1, FirstIsHighest DEF Ordered
  <2>3. k.prio[Head(k.wq[x])] <= p
    BY <1>5, <1>8, <1>9, <2>1
  <2>4. k.prio[u] \in Int /\ k.prio[Head(k.wq[x])] \in Int /\ p \in Int
    <3>1. u \in Thread /\ Head(k.wq[x]) \in Thread
      BY <1>1, <1>6, <2>1, Members
    <3> QED BY <1>2, <1>8, <3>1, PriosAre
  <2> QED BY <2>2, <2>3, <2>4
<1> QED BY <1>2, <1>4, <1>6, <1>8, <1>9

\* The first waiter gets the mutex; the caller loses what it had inherited for it.
LEMMA UnlockHandKept ==
    ASSUME IInv, NEW m \in Mutex, UnlockM(k.cur, m), k.wq[m] # <<>>
    PROVE  IInv'
<1> DEFINE s == Tail(k.held[k.cur])
           u == Head(k.wq[m])
           p == NewPrio(k, k.cur, ToSet(HeldBefore(k.held[k.cur], m)))
           q == Tail(k.wq[m])
<1>1. /\ k' = Unlock(k, m) /\ k \in KernelType(Prios) /\ Settled(k, {}) /\ Links /\ Ordered(k)
  BY DEF UnlockM, IInv, Links, Typed
<1>2. /\ m \in ToSet(k.held[k.cur]) /\ k.own[m] = k.cur /\ HeldBefore(k.held[k.cur], m) = s
      /\ Falling(s) /\ ToSet(s) = ToSet(k.held[k.cur]) \ {m} /\ k.cur # Idle
  BY <1>1, LastTaken
<1>3. /\ p \in Prios /\ k.real[k.cur] <= p
      /\ \A x \in Mutex \ {m} : k.own[x] = k.cur => \A v \in ToSet(k.wq[x]) : k.prio[v] <= p
      /\ \/ p = k.real[k.cur]
         \/ \E x \in Mutex \ {m} : k.own[x] = k.cur /\ \E v \in ToSet(k.wq[x]) : k.prio[v] = p
  BY NewPrioBounds
<1> HIDE DEF p
<1>4. /\ k' \in KernelType(Prios) /\ Settled(k', {}) /\ u \in Thread /\ u # k.cur
      /\ k'.real = k.real
      /\ k'.own = [k.own EXCEPT ![m] = u]
      /\ k'.held = [k.held EXCEPT ![k.cur] = HeldBefore(@, m), ![u] = <<m>> \o @]
      /\ k'.wq = [k.wq EXCEPT ![m] = Tail(@)]
      /\ k'.prio = [k.prio EXCEPT ![k.cur] = p]
      /\ k.st[u] = "WTMTX" /\ Able(k', u)
      /\ \A t \in Thread \ {u} : Able(k', t) <=> Able(k, t)
      /\ \A t \in Thread \ {u} : ~Able(k, t) => k'.st[t] = k.st[t]
      /\ Ordered(k) => Ordered(k') /\ Highest(k')
  <2>1. p = NewPrio(k, k.cur, ToSet(HeldBefore(k.held[k.cur], m)))
    BY DEF p
  <2>2. p \in Prios /\ Prios \in SUBSET Nat
    BY <1>3, PriosAre
  <2>3. HandedOver(Prios, k, m, u, p, k')
    BY <1>1, <1>2, <2>1, <2>2, UnlockHandIs
  <2> QED BY <2>3 DEF HandedOver
<1>5. /\ k.cur \in Thread /\ k.own \in [Mutex -> Thread \cup {NoThread}]
      /\ k.held \in [Thread -> Seq(Mutex)] /\ k.wq \in [Mutex -> Seq(Thread)]
      /\ k.prio \in [Thread -> Nat] /\ k.real \in [Thread -> Nat]
      /\ \A x \in Mutex : k.cur \notin ToSet(k.wq[x])
      /\ \A x \in Mutex : ToSet(k.wq[x]) \subseteq Thread
  BY <1>1, Fields, CurIs, Members
<1>6. /\ IsInjective(k.wq[m]) /\ ToSet(k.wq[m]) = ToSet(q) \cup {u} /\ u \notin ToSet(q)
      /\ \A x \in Mutex : u \in ToSet(k.wq[x]) => x = m
  <2>1. IsInjective(k.wq[m]) /\ k.wq[m] \in Seq(Thread)
    BY <1>1, <1>5 DEF Settled
  <2>2. ToSet(k.wq[m]) = ToSet(q) \cup {u} /\ u \notin ToSet(q)
    BY <2>1, HeadTail
  <2>3. \A x \in Mutex : u \in ToSet(k.wq[x]) => x = m
    BY <1>1, <2>2 DEF Settled
  <2> QED BY <2>1, <2>2, <2>3
<1>7. \A v \in ToSet(k.wq[m]) : k.prio[v] <= k.prio[u]
  BY <1>1, <1>5, FirstIsHighest DEF Ordered
<1>8. \A x \in ToSet(k.held[u]) : Rank[x] < Rank[m]
  BY <1>1, <1>6 DEF Links, Nested
<1> DEFINE h == <<m>> \o k.held[u]
<1>9. ToSet(h) = ToSet(k.held[u]) \cup {m} /\ Falling(h)
  <2>1. k.held[u] \in Seq(Mutex) /\ Falling(k.held[u])
    BY <1>1, <1>4, <1>5 DEF Links, Descending
  <2> QED BY <1>8, <2>1, ConsIs, FallingCons
<1> HIDE DEF u, s, q, h
<1>10. /\ k'.held[k.cur] = s /\ k'.held[u] = h
       /\ \A t \in Thread \ {k.cur, u} : k'.held[t] = k.held[t]
       /\ k'.own[m] = u /\ \A x \in Mutex \ {m} : k'.own[x] = k.own[x]
       /\ k'.wq[m] = q /\ \A x \in Mutex \ {m} : k'.wq[x] = k.wq[x]
       /\ k'.prio[k.cur] = p /\ \A t \in Thread \ {k.cur} : k'.prio[t] = k.prio[t]
  <2>1. k'.held[k.cur] = s
    BY <1>2, <1>4, <1>5
  <2>2. k'.held[u] = h
    BY <1>4, <1>5 DEF h
  <2>3. k'.wq[m] = q
    BY <1>4, <1>5 DEF q
  <2> QED BY <1>4, <1>5, <2>1, <2>2, <2>3
<1>11. \A x \in Mutex : ToSet(k'.wq[x]) = ToSet(k.wq[x]) \ {u}
  BY <1>6, <1>10
<1>12. Agree'
  <2> SUFFICES ASSUME NEW x \in Mutex, NEW t \in Thread
               PROVE  k'.own[x] = t <=> x \in ToSet(k'.held[t])
    BY DEF Agree
  <2>1. k.own[x] = t <=> x \in ToSet(k.held[t])
    BY <1>1 DEF Links, Agree
  <2>2. CASE t = k.cur
    BY <1>2, <1>4, <1>10, <2>1, <2>2
  <2>3. CASE t = u
    BY <1>9, <1>10, <2>1, <2>3
  <2>4. CASE t # k.cur /\ t # u
    BY <1>2, <1>10, <2>1, <2>4
  <2> QED BY <2>2, <2>3, <2>4
<1>13. Descending'
  BY <1>1, <1>2, <1>9, <1>10 DEF Links, Descending, Falling
<1>14. Nested'
  <2> SUFFICES ASSUME NEW x \in Mutex, NEW t \in ToSet(k'.wq[x])
               PROVE  k'.own[x] # NoThread /\ \A y \in ToSet(k'.held[t]) : Rank[y] < Rank[x]
    BY DEF Nested
  <2>1. t \in ToSet(k.wq[x]) /\ t # u /\ t # k.cur /\ t \in Thread
    BY <1>5, <1>11
  <2>2. k'.held[t] = k.held[t]
    BY <1>10, <2>1
  <2>3. k'.own[x] # NoThread
    <3>1. k.own[x] # NoThread
      BY <1>1, <2>1 DEF Links, Nested
    <3> QED BY <1>4, <1>10, <3>1, NoThreadAssumption
  <2> QED BY <1>1, <2>1, <2>2, <2>3 DEF Links, Nested
<1>15. Typed' /\ Kinds' /\ Settled(k, {})' /\ IdleFree'
  <2>1. Kinds'
    BY <1>1, <1>4, KindsKept DEF Links
  <2>2. Idle # u
    BY <1>1, <1>4 DEF Links, IdleFree, Able
  <2>3. Able(k', Idle) /\ k'.held[Idle] = <<>>
    BY <1>1, <1>2, <1>4, <1>10, <2>2, IdleAssumption DEF Links, IdleFree
  <2> QED BY <1>4, <2>1, <2>3 DEF Typed, Prios, IdleFree
<1>16. Ordered(k)' /\ Highest(k)'
  <2>1. Ordered(k') /\ Highest(k')
    BY <1>1, <1>4
  <2> QED BY <2>1
<1>17. AtLeast'
  <2> SUFFICES ASSUME NEW t \in Thread
               PROVE  /\ k.real[t] <= k'.prio[t]
                      /\ \A x \in Mutex : k'.own[x] = t =>
                            \A v \in ToSet(k'.wq[x]) : k'.prio[v] <= k'.prio[t]
    BY <1>4 DEF AtLeast
  <2>1. k.real[t] <= k'.prio[t]
    BY <1>3, <1>10 DEF IInv, AtLeast
  <2>2. ASSUME NEW x \in Mutex, k'.own[x] = t, NEW v \in ToSet(k'.wq[x])
        PROVE  k'.prio[v] <= k'.prio[t]
    <3>1. v \in ToSet(k.wq[x]) /\ v # k.cur /\ v \in Thread /\ k'.prio[v] = k.prio[v]
      <4>1. v \in ToSet(k'.wq[x])
        OBVIOUS
      <4>2. v \in ToSet(k.wq[x])
        BY <1>11, <4>1
      <4>3. v # k.cur /\ v \in Thread
        BY <1>5, <4>2
      <4> QED BY <1>10, <4>2, <4>3
    <3>2. CASE x = m
      BY <1>4, <1>7, <1>10, <2>2, <3>1, <3>2
    <3>3. CASE x # m
      <4>1. k.own[x] = t
        BY <1>10, <2>2, <3>3
      <4>2. CASE t = k.cur
        BY <1>3, <1>10, <3>1, <3>3, <4>1, <4>2
      <4>3. CASE t # k.cur
        BY <1>10, <3>1, <4>1, <4>3 DEF IInv, AtLeast
      <4> QED BY <4>2, <4>3
    <3> QED BY <3>2, <3>3
  <2> QED BY <2>1, <2>2
<1>18. NoMore'
  <2> SUFFICES ASSUME NEW t \in Thread
               PROVE  \/ k'.prio[t] = k.real[t]
                      \/ \E x \in Mutex : k'.own[x] = t /\
                            \E v \in ToSet(k'.wq[x]) : k'.prio[v] = k'.prio[t]
    BY <1>4 DEF NoMore
  <2>1. ASSUME NEW x \in Mutex \ {m}, k.own[x] = t, NEW v \in ToSet(k.wq[x]),
               k.prio[v] = k'.prio[t]
        PROVE  k'.own[x] = t /\ v \in ToSet(k'.wq[x]) /\ k'.prio[v] = k'.prio[t]
    <3>1. v \in Thread /\ v # k.cur /\ v # u
      BY <1>5, <1>6, <2>1
    <3> QED BY <1>10, <1>11, <2>1, <3>1
  <2>2. CASE t = k.cur
    BY <1>3, <1>10, <2>1, <2>2
  <2>3. CASE t # k.cur
    <3>1. k'.prio[t] = k.prio[t]
      BY <1>10, <2>3
    <3>2. \/ k.prio[t] = k.real[t]
          \/ \E x \in Mutex : k.own[x] = t /\ \E v \in ToSet(k.wq[x]) : k.prio[v] = k.prio[t]
      BY DEF IInv, NoMore
    <3>3. k.own[m] # t
      BY <1>2, <2>3
    <3> QED BY <2>1, <3>1, <3>2, <3>3
  <2> QED BY <2>2, <2>3
<1> QED BY <1>12, <1>13, <1>14, <1>15, <1>16, <1>17, <1>18 DEF IInv, Links

LEMMA StartsRight == Init => IInv
<1> SUFFICES ASSUME Init PROVE IInv
  OBVIOUS
<1>1. Init
  OBVIOUS
<1>2. /\ k.cur = Idle /\ k.ready = <<>> /\ k.prio = BasePrio /\ k.real = BasePrio
      /\ k.st = [t \in Thread |-> IF t = Idle THEN "CURRENT" ELSE "SLEEPING"]
      /\ k.held = [t \in Thread |-> <<>>] /\ k.own = [m \in Mutex |-> NoThread]
      /\ k.wq = [m \in Mutex |-> <<>>]
      /\ k = [cur |-> k.cur, ready |-> k.ready, st |-> k.st, prio |-> k.prio, real |-> k.real,
              held |-> k.held, own |-> k.own, wq |-> k.wq]
  BY <1>1 DEF Init
<1>3. BasePrio \in [Thread -> Prios] /\ BasePrio \in [Thread -> Nat] /\ Idle \in Thread
  BY IdleAssumption DEF Prios
<1>4. \A S : <<>> \in Seq(S)
  OBVIOUS
<1>5. ToSet(<<>>) = {} /\ IsInjective(<<>>) /\ Len(<<>>) = 0
  BY DEF ToSet, IsInjective
<1>6. Typed
  <2>1. /\ k.st \in [Thread -> States] /\ k.held \in [Thread -> Seq(Mutex)]
        /\ k.own \in [Mutex -> Thread \cup {NoThread}] /\ k.wq \in [Mutex -> Seq(Thread)]
        /\ k.cur \in Thread /\ k.ready \in Seq(Thread) /\ k.prio \in [Thread -> Prios]
        /\ k.real \in [Thread -> Prios]
    BY <1>2, <1>3, <1>4 DEF States
  <2> QED BY <1>2, <2>1 DEF Typed, KernelType
<1>7. Kinds /\ IdleFree /\ Agree /\ Nested
  BY <1>2, <1>3, <1>5, NoThreadAssumption DEF Kinds, IdleFree, Able, Agree, Nested
<1>8. Settled(k, {})
  BY <1>2, <1>3, <1>5 DEF Settled, InPlace
<1>9. Descending /\ Ordered(k) /\ Highest(k)
  BY <1>2, <1>5 DEF Descending, Falling, Ordered, OrderedBy, Highest
<1>10. AtLeast /\ NoMore
  BY <1>2, <1>3, <1>5 DEF AtLeast, NoMore
<1> QED BY <1>6, <1>7, <1>8, <1>9, <1>10 DEF IInv, Links

LEMMA StepKeeps == IInv /\ [Next]_k => IInv'
<1>1. CASE UNCHANGED k
  BY <1>1 DEF IInv, Links, Typed, Prios, Kinds, Agree, Descending, Nested, IdleFree, AtLeast, NoMore
<1>2. ASSUME IInv, NEW t \in Thread, Sleep(t) \/ Wake(t) PROVE IInv'
  BY <1>2, SleepKept, WakeKept
<1>3. ASSUME IInv, NEW t \in Thread, NEW m \in Mutex, LockM(t, m) PROVE IInv'
  <2>1. LockM(k.cur, m)
    BY <1>3 DEF LockM
  <2> QED BY <1>3, <2>1, LockFreeKept, LockWaitKept
<1>4. ASSUME IInv, NEW t \in Thread, NEW m \in Mutex, UnlockM(t, m) PROVE IInv'
  <2>1. UnlockM(k.cur, m)
    BY <1>4 DEF UnlockM
  <2> QED BY <1>4, <2>1, UnlockFreeKept, UnlockHandKept
<1> QED BY <1>1, <1>2, <1>3, <1>4 DEF Next

\* What every reachable kernel satisfies.
THEOREM Invariant == Spec => []IInv
BY StartsRight, StepKeeps, PTL DEF Spec
-----------------------------------------------------------------------------
(* What the runs check *)

\* Every thread is in the one place its state says, and mutexes, owners and
\* the owners' lists agree, after any sequence of lock, unlock, sleep and wake.
THEOREM LinksAgree == Spec => []TypeOK
<1>1. IInv => TypeOK
  <2> SUFFICES ASSUME IInv PROVE TypeOK
    OBVIOUS
  <2>0. Links
    BY DEF IInv
  <2>1. k \in KernelType(Prios) /\ \A t \in Thread : k.st[t] \in {"CURRENT", "READY", "SLEEPING", "WTMTX"}
    BY <2>0 DEF Links, Typed, Kinds
  <2>2. ASSUME NEW t \in Thread
        PROVE  /\ k.st[t] = "CURRENT" <=> t = k.cur
               /\ k.st[t] = "READY" <=> t \in ToSet(k.ready)
               /\ k.st[t] = "WTMTX" <=> \E m \in Mutex : t \in ToSet(k.wq[m])
               /\ \A m, x \in Mutex : t \in ToSet(k.wq[m]) \cap ToSet(k.wq[x]) => m = x
    BY <2>0 DEF Links, Settled, InPlace
  <2>3. ASSUME NEW m \in Mutex, k.wq[m] # <<>> PROVE k.own[m] # NoThread
    <3>1. k.wq[m] \in Seq(Thread) /\ IsInjective(k.wq[m])
      BY <2>0, Fields DEF Links, Settled
    <3>2. Head(k.wq[m]) \in ToSet(k.wq[m])
      BY <2>3, <3>1, HeadTail
    <3> QED BY <2>0, <3>2 DEF Links, Nested
  <2>4. Placed
    BY <2>0, <2>2, <2>3 DEF Placed, Links, Agree
  <2> QED BY <2>1, <2>4 DEF TypeOK
<1> QED BY <1>1, Invariant, PTL

\* The ready list and every queue of a mutex stay in the order of priorities,
\* whatever is inherited and given back, and no ready thread has a higher
\* priority than the one that runs.
THEOREM QueuesOrdered == Spec => []PriorityOrder
<1>1. ASSUME NEW q \in Seq(Thread), IsInjective(q), OrderedBy(q, k.prio) PROVE Sorted(q)
  <2> SUFFICES ASSUME NEW i \in 1 .. Len(q), NEW j \in 1 .. Len(q), i < j
               PROVE  k.prio[q[i]] >= k.prio[q[j]] /\ q[i] # q[j]
    BY DEF Sorted
  <2>1. DOMAIN q = 1 .. Len(q)
    OBVIOUS
  <2> QED BY <1>1, <2>1 DEF OrderedBy, IsInjective
<1>2. IInv => PriorityOrder
  <2> SUFFICES ASSUME IInv PROVE PriorityOrder
    OBVIOUS
  <2>0. Links
    BY DEF IInv
  <2>1. k.ready \in Seq(Thread) /\ IsInjective(k.ready) /\ OrderedBy(k.ready, k.prio)
    BY <2>0, Fields DEF IInv, Links, Settled, Ordered
  <2>2. \A m \in Mutex : k.wq[m] \in Seq(Thread) /\ IsInjective(k.wq[m]) /\ OrderedBy(k.wq[m], k.prio)
    BY <2>0, Fields DEF IInv, Links, Settled, Ordered
  <2> QED BY <1>1, <2>1, <2>2 DEF PriorityOrder, IInv, Highest
<1> QED BY <1>2, Invariant, PTL

\* The priority of a thread is the highest of its own and those of the threads
\* that wait for it, at all times.
THEOREM InheritsRightly == Spec => []Inherited
<1>1. IInv => Inherited
  <2> SUFFICES ASSUME IInv, NEW t \in Thread
               PROVE  k.prio[t] = Max({k.real[t]} \cup {k.prio[u] : u \in Waiters(t)})
    BY DEF Inherited
  <2> DEFINE S == {k.real[t]} \cup {k.prio[u] : u \in Waiters(t)}
  <2>0. Links
    BY DEF IInv
  <2>1. \A u : u \in Waiters(t) <=> \E m \in Mutex : k.own[m] = t /\ u \in ToSet(k.wq[m])
    BY <2>0, Members DEF Waiters, Links, Agree
  <2>2. k.prio[t] \in S
    BY <2>1 DEF IInv, NoMore
  <2>3. \A x \in S : k.prio[t] >= x
    <3>1. \A u \in Waiters(t) : k.prio[u] <= k.prio[t] /\ u \in Thread
      BY <2>0, <2>1, Members DEF IInv, AtLeast
    <3>2. k.real[t] <= k.prio[t]
      BY DEF IInv, AtLeast
    <3>3. k.prio \in [Thread -> Nat] /\ k.real \in [Thread -> Nat]
      BY <2>0, Fields
    <3> QED BY <3>1, <3>2, <3>3
  <2>4. \A x \in S : x \in Nat
    BY <2>0, <2>1, Fields, Members
  <2> HIDE DEF S
  <2>5. Max(S) \in S /\ \A x \in S : Max(S) >= x
    BY <2>2, <2>3 DEF Max
  <2>6. k.prio[t] = Max(S)
    BY <2>2, <2>3, <2>4, <2>5
  <2> QED BY <2>6 DEF S
<1> QED BY <1>1, Invariant, PTL

\* Somebody in the chain of owners does not wait: the mutexes on the way come
\* ever later, and there are finitely many.
LEMMA ChainEnds ==
    ASSUME Links, NEW u \in Thread
    PROVE  \E v \in Chain(k, u, Thread) : k.st[v] # "WTMTX"
<1> DEFINE C == Chain(k, u, Thread)
           Later(v) == {m \in Mutex : Rank[WaitsOn(k, v)] < Rank[m]}
           U == {Later(v) : v \in C}
           R == StrictSubsetOrdering(Mutex)
           F == FiniteSubsetsOf(Mutex)
<1> SUFFICES ASSUME \A v \in C : k.st[v] = "WTMTX" PROVE FALSE
  OBVIOUS
<1>1. C \subseteq Thread /\ ClosedFrom(k, u, Thread, C)
  BY ChainIs
<1>2. IsWellFoundedOn(R, F)
  BY FS_StrictSubsetOrderingWellFounded
<1>3. u \in C
  BY <1>1 DEF ClosedFrom
<1> HIDE DEF C
<1>4. U \subseteq F /\ U # {}
  <2> SUFFICES ASSUME NEW v \in C PROVE Later(v) \in F
    BY <1>3
  <2>1. Later(v) \in SUBSET Mutex
    OBVIOUS
  <2>2. IsFiniteSet(Later(v))
    BY <2>1, RankAssumption, FS_Subset
  <2> QED BY <2>1, <2>2 DEF FiniteSubsetsOf
<1>5. PICK b \in U : \A c \in U : ~ (<<c, b>> \in R)
  <2> HIDE DEF R, F, U
  <2> QED BY <1>2, <1>4, WFMin
<1>6. PICK v \in C : b = Later(v)
  OBVIOUS
<1> DEFINE x == WaitsOn(k, v)
           o == k.own[x]
<1>7. x \in Mutex /\ v \in ToSet(k.wq[x]) /\ o \in Thread
  BY <1>1, WaiterIs
<1>8. o \in C
  BY <1>1, <1>7 DEF ClosedFrom
<1> DEFINE y == WaitsOn(k, o)
<1>9. y \in Mutex /\ o \in ToSet(k.wq[y])
  BY <1>1, <1>8, WaiterIs
<1>10. Rank[x] < Rank[y]
  <2>1. x \in ToSet(k.held[o])
    BY <1>7 DEF Links, Agree
  <2> QED BY <1>9, <2>1 DEF Links, Nested
<1>11. Later(o) \subseteq Later(v) /\ Later(o) # Later(v)
  <2>1. y \in Later(v) /\ y \notin Later(o)
    BY <1>9, <1>10, RankAssumption
  <2>2. \A m \in Mutex : Rank[y] < Rank[m] => Rank[x] < Rank[m]
    BY <1>7, <1>9, <1>10, RankAssumption
  <2> QED BY <2>1, <2>2
<1>12. <<Later(o), Later(v)>> \in R
  <2>1. Later(o) \in SUBSET Mutex /\ Later(v) \in SUBSET Mutex
    OBVIOUS
  <2> HIDE DEF Later
  <2> QED BY <1>11, <2>1 DEF StrictSubsetOrdering
<1> QED BY <1>5, <1>6, <1>8, <1>12

\* While a thread waits for a mutex, one of its priority or more runs, unless
\* somebody it waits for sleeps of its own accord: with any number of threads
\* and mutexes there is no unbounded inversion.
THEOREM NobodyWaitsForLess == Spec => []NoInversion
<1>1. IInv => NoInversion
  <2> SUFFICES ASSUME IInv, NEW u \in Thread, \A t \in Thread : Blocks(t, u) => k.st[t] # "SLEEPING"
               PROVE  k.prio[k.cur] >= k.prio[u]
    BY DEF NoInversion
  <2> DEFINE C == Chain(k, u, Thread)
             S == {v \in Thread : k.prio[v] >= k.prio[u]}
  <2>0. Links /\ k.prio \in [Thread -> Nat]
    BY Fields DEF IInv
  <2>1. C \subseteq Thread /\ \A R \in SUBSET Thread : ClosedFrom(k, u, Thread, R) => C \subseteq R
    BY ChainIs
  <2>2. ClosedFrom(k, u, Thread, S)
    <3>1. u \in S
      BY <2>0
    <3>2. ASSUME NEW v \in S, k.st[v] = "WTMTX" PROVE k.own[WaitsOn(k, v)] \in S
      <4>1. /\ WaitsOn(k, v) \in Mutex /\ v \in ToSet(k.wq[WaitsOn(k, v)])
            /\ k.own[WaitsOn(k, v)] \in Thread
        BY <2>0, <3>2, WaiterIs
      <4>2. k.prio[v] <= k.prio[k.own[WaitsOn(k, v)]]
        BY <4>1 DEF IInv, AtLeast
      <4> QED BY <2>0, <3>2, <4>1, <4>2
    <3> QED BY <3>1, <3>2 DEF ClosedFrom
  <2>3. C \subseteq S
    <3> HIDE DEF S
    <3>1. S \in SUBSET Thread
      BY DEF S
    <3> QED BY <2>1, <2>2, <3>1
  <2>4. PICK v \in C : k.st[v] # "WTMTX"
    BY <2>0, ChainEnds
  <2>5. v \in Thread /\ k.prio[v] >= k.prio[u] /\ k.st[v] # "SLEEPING"
    BY <2>1, <2>3 DEF Blocks
  <2>6. v = k.cur \/ v \in ToSet(k.ready)
    BY <2>0, <2>4, <2>5 DEF Links, Kinds, Settled, InPlace
  <2>7. k.prio[v] <= k.prio[k.cur] /\ k.cur \in Thread
    <3>1. k.cur \in Thread
      BY <2>0, Fields
    <3> QED BY <2>0, <2>6, <3>1 DEF IInv, Highest
  <2> QED BY <2>0, <2>5, <2>7
<1> QED BY <1>1, Invariant, PTL
-----------------------------------------------------------------------------
(* The promise of AbstractMutex *)

\* Sleeping and waking leave the mutexes alone.
LEMMA OthersAreStutter ==
    ASSUME IInv, NEW t \in Thread, Sleep(t) \/ Wake(t)
    PROVE  k'.own = k.own /\ k'.wq = k.wq
<1>1. /\ k \in KernelType(Prios) /\ Settled(k, {}) /\ Links
      /\ Prios \in SUBSET Int /\ k.cur \in Thread
  BY PriosAre, Fields DEF IInv, Links, Typed
<1>2. CASE Sleep(t)
  <2>1. k' = GoSleepS(k, "SLEEPING") /\ k.ready # <<>>
    BY <1>1, <1>2, SomeoneReady DEF Sleep
  <2>2. SameMutexes(k, k')
    BY <1>1, <2>1, GoSleepIs
  <2> QED BY <2>2 DEF SameMutexes
<1>3. CASE Wake(t)
  <2>1. k' = WakeupS(k, t) /\ k.st[t] \notin {"CURRENT", "READY", "WTMTX"}
    BY <1>3 DEF Wake
  <2>2. SameMutexes(k, k')
    BY <1>1, <2>1, WakeupIs
  <2> QED BY <2>2 DEF SameMutexes
<1> QED BY <1>2, <1>3

\* A lock takes a free mutex or joins those that wait for it.
LEMMA LockIsTakeOrWait ==
    ASSUME IInv, NEW m \in Mutex, LockM(k.cur, m)
    PROVE  Service!ANext
<1>1. /\ k' = Lock(k, m) /\ k \in KernelType(Prios) /\ Settled(k, {}) /\ k.cur # Idle
      /\ Links /\ (k.held[k.cur] # <<>> => Rank[m] > Rank[Head(k.held[k.cur])])
      /\ Prios \in SUBSET Int /\ k.ready # <<>>
  BY SomeoneReady, PriosAre DEF LockM, IInv, Links, Typed
<1>2. k.own[m] # k.cur /\ k.cur \in Thread
  BY <1>1, Allowed, CurIs
<1>3. Service!Active(k.cur)
  BY <1>1, CurIs DEF Service!Active
<1>4. CASE k.own[m] = NoThread
  <2>1. k'.own = [k.own EXCEPT ![m] = k.cur] /\ k'.wq = k.wq
    BY <1>1, <1>4 DEF Lock, KernelType
  <2>2. Service!Take(k.cur, m)
    BY <1>3, <1>4, <2>1 DEF Service!Take
  <2> QED BY <1>2, <2>2 DEF Service!ANext
<1>5. CASE k.own[m] # NoThread
  <2>1. k'.own = k.own /\ \A x \in Mutex :
           ToSet(k'.wq[x]) = IF x = m THEN ToSet(k.wq[x]) \cup {k.cur} ELSE ToSet(k.wq[x])
    <3> DEFINE B == Boosted(k, m, k.prio[k.cur])
    <3>1. GoneToWait(Prios, k, m, B, k')
      BY <1>1, <1>5, LockWaitIs
    <3> QED BY <3>1 DEF GoneToWait
  <2>2. [x \in Mutex |-> ToSet(k'.wq[x])] =
            [[x \in Mutex |-> ToSet(k.wq[x])] EXCEPT ![m] = @ \cup {k.cur}]
    BY <2>1
  <2>3. Service!Wait(k.cur, m)
    BY <1>2, <1>3, <1>5, <2>1, <2>2 DEF Service!Wait
  <2> QED BY <1>2, <2>3 DEF Service!ANext
<1> QED BY <1>4, <1>5

\* An unlock frees a mutex nobody waits for, or hands it to one who does.
LEMMA UnlockIsReleaseOrHandOver ==
    ASSUME IInv, NEW m \in Mutex, UnlockM(k.cur, m)
    PROVE  Service!ANext
<1>1. /\ k' = Unlock(k, m) /\ k \in KernelType(Prios) /\ Settled(k, {}) /\ Links
      /\ Prios \in SUBSET Int /\ Prios \in SUBSET Nat
  BY PriosAre DEF UnlockM, IInv, Links, Typed
<1>2. /\ m \in ToSet(k.held[k.cur]) /\ k.own[m] = k.cur /\ k.cur \in Thread
      /\ k.wq \in [Mutex -> Seq(Thread)]
  BY <1>1, LastTaken, Fields
<1>3. Service!Active(k.cur)
  BY <1>1, CurIs DEF Service!Active
<1>4. CASE k.wq[m] = <<>>
  <2>1. k'.own = [k.own EXCEPT ![m] = NoThread] /\ k'.wq = k.wq
    BY <1>1, <1>4 DEF Unlock, KernelType
  <2>2. ToSet(k.wq[m]) = {}
    BY <1>4 DEF ToSet
  <2>3. Service!Release(k.cur, m)
    BY <1>2, <1>3, <2>1, <2>2 DEF Service!Release
  <2> QED BY <1>2, <2>3 DEF Service!ANext
<1>5. CASE k.wq[m] # <<>>
  <2> DEFINE u == Head(k.wq[m])
             p == NewPrio(k, k.cur, ToSet(HeldBefore(k.held[k.cur], m)))
  <2>1. p \in Prios
    BY NewPrioBounds
  <2>2. HandedOver(Prios, k, m, u, p, k')
    <3> HIDE DEF p
    <3>1. p = NewPrio(k, k.cur, ToSet(HeldBefore(k.held[k.cur], m)))
      BY DEF p
    <3> QED BY <1>1, <1>2, <1>5, <2>1, <3>1, UnlockHandIs
  <2>3. /\ u \in Thread /\ k'.own = [k.own EXCEPT ![m] = u]
        /\ k'.wq = [k.wq EXCEPT ![m] = Tail(@)]
    BY <2>2 DEF HandedOver
  <2>4. ToSet(k.wq[m]) = ToSet(Tail(k.wq[m])) \cup {u} /\ u \notin ToSet(Tail(k.wq[m]))
    <3>1. k.wq[m] \in Seq(Thread) /\ IsInjective(k.wq[m])
      BY <1>1, <1>2 DEF Settled
    <3> QED BY <1>5, <3>1, HeadTail
  <2> HIDE DEF u, p
  <2>5. k'.wq[m] = Tail(k.wq[m]) /\ \A x \in Mutex \ {m} : k'.wq[x] = k.wq[x]
    BY <1>2, <2>3
  <2>6. ToSet(k'.wq[m]) = ToSet(k.wq[m]) \ {u}
    BY <2>4, <2>5
  <2>7. [x \in Mutex |-> ToSet(k'.wq[x])] =
            [[x \in Mutex |-> ToSet(k.wq[x])] EXCEPT ![m] = @ \ {u}]
    BY <2>5, <2>6
  <2>8. Service!HandOver(k.cur, m, u)
    BY <1>2, <1>3, <2>3, <2>4, <2>7 DEF Service!HandOver
  <2> QED BY <1>2, <2>3, <2>8 DEF Service!ANext
<1> QED BY <1>4, <1>5

\* Mutexes with priority inheritance keep the promise of AbstractMutex: one
\* owner at a time, handed over to a waiter and never free while one waits.
THEOREM ImplementsMutex == Spec => IsMutex
<1>1. Init => Service!AInit
  BY DEF Init, Service!AInit, ToSet
<1>2. IInv /\ [Next]_k => [Service!ANext]_(Service!avars)
  <2>1. CASE UNCHANGED k
    BY <2>1 DEF Service!avars
  <2>2. ASSUME IInv, NEW t \in Thread, Sleep(t) \/ Wake(t) PROVE UNCHANGED Service!avars
    BY <2>2, OthersAreStutter DEF Service!avars
  <2>3. ASSUME IInv, NEW t \in Thread, NEW m \in Mutex, LockM(t, m) PROVE Service!ANext
    <3>1. LockM(k.cur, m)
      BY <2>3 DEF LockM
    <3> QED BY <2>3, <3>1, LockIsTakeOrWait
  <2>4. ASSUME IInv, NEW t \in Thread, NEW m \in Mutex, UnlockM(t, m) PROVE Service!ANext
    <3>1. UnlockM(k.cur, m)
      BY <2>4 DEF UnlockM
    <3> QED BY <2>4, <3>1, UnlockIsReleaseOrHandOver
  <2> QED BY <2>1, <2>2, <2>3, <2>4 DEF Next
<1> QED BY <1>1, <1>2, Invariant, PTL DEF Spec, IsMutex, Service!ASpec
=============================================================================
