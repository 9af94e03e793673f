------------------------ MODULE VirtualTimersProofs ------------------------
(***************************************************************************)
(* For any number of threads and any width of systime_t: the list holds    *)
(* the timer of a thread exactly as long as its call needs it, and a       *)
(* thread that was answered is not told of a timeout; the deltas are the   *)
(* ticks between deadlines inside the width; and as long as no delay is    *)
(* cut, no timer is passed by more than its alarm may be late, and the     *)
(* list is a set of timers with deadlines of their own.  No delay is cut   *)
(* where the width has room for the calls threads make between two sleeps. *)
(***************************************************************************)
EXTENDS VirtualTimers, ListProofs

Blocking == {"asleep", "suspended"}
States   == Blocking \cup {"run", "answered", "timedout"}

\* A thread that is not in chThdSleep can still make that call.
CallsFit ==
    /\ calls \in [Thread -> 0 .. MaxCalls + 1]
    /\ \A t \in Thread : st[t] # "asleep" => calls[t] <= MaxCalls

\* The inductive invariant: the types it takes, and NoDangling.
IInv == vtlist \in Seq(Thread) /\ st \in [Thread -> States] /\ CallsFit /\ NoDangling

-----------------------------------------------------------------------------
(* The steps that change the list *)

\* chSchGoSleepTimeoutS: the caller has no timer in the list yet.
LEMMA IInvSleep ==
    ASSUME IInv, NEW t \in Thread, NEW s \in Blocking, NEW d \in Delays, SleepTimeout(t, s, d)
    PROVE  IInv'
<1>1. st[t] = "run" /\ st' = [st EXCEPT ![t] = s] /\ t \notin Armed
  BY DEF SleepTimeout, IInv, NoDangling
<1>2. PICK k \in 0 .. Len(vtlist) : vtlist' = InsertAt(vtlist, k + 1, t)
  <2>1. CASE InsertFirst(t, d)
    <3>1. vtlist = <<>> /\ vtlist' = <<t>>
      BY <2>1 DEF InsertFirst
    <3>2. InsertAt(<<>>, 1, t) = <<t>>
      <4>1. Len(<<>>) = 0 /\ 1 - 1 = 0 /\ SubSeq(<<>>, 1, 0) = <<>>
        OBVIOUS
      <4>2. InsertAt(<<>>, 1, t) = (<<>> \o <<t>>) \o <<>>
        BY <4>1 DEF InsertAt
      <4> QED BY <4>2
    <3>3. 0 \in 0 .. Len(vtlist) /\ 0 + 1 = 1
      BY <3>1
    <3>4. vtlist' = InsertAt(vtlist, 0 + 1, t)
      BY <3>1, <3>2, <3>3
    <3> QED BY <3>3, <3>4
  <2>2. CASE Enqueue(t, d)
    <3> DEFINE ahead == {u \in Armed : Due(u) < FromLast(d)}
    <3>1. vtlist' = InsertAt(vtlist, Cardinality(ahead) + 1, t)
      BY <2>2 DEF Enqueue, DlistInsert
    <3>2. Cardinality(ahead) \in 0 .. Len(vtlist)
      BY PartOfList DEF IInv, Armed
    <3> QED BY <3>1, <3>2
  <2> QED BY <2>1, <2>2 DEF SleepTimeout
<1>3. k + 1 \in 1 .. Len(vtlist) + 1
  BY <1>2 DEF IInv
<1>4. vtlist' \in Seq(Thread) /\ IsInjective(vtlist') /\ Armed' = Armed \cup {t}
  BY <1>1, <1>2, <1>3, InsertAtIs DEF IInv, NoDangling, Armed
<1>5. st' \in [Thread -> States]
  BY <1>1 DEF IInv, States
<1>6. CallsFit'
  <2>1. /\ calls' = [calls EXCEPT ![t] = @ + 1] /\ calls[t] \in 0 .. MaxCalls
        /\ s = "suspended" => calls[t] < MaxCalls
    BY <1>1 DEF SleepTimeout, IInv, CallsFit
  <2>2. MaxCalls \in Nat
    BY TimersAssumption
  <2>3. calls' \in [Thread -> 0 .. MaxCalls + 1]
    BY <2>1, <2>2 DEF IInv, CallsFit
  <2>4. ASSUME NEW u \in Thread, st'[u] # "asleep" PROVE calls'[u] <= MaxCalls
    BY <1>1, <2>1, <2>2, <2>4 DEF IInv, CallsFit, Blocking
  <2> QED BY <2>3, <2>4 DEF CallsFit
<1> QED BY <1>1, <1>4, <1>5, <1>6 DEF IInv, NoDangling, States, Blocking, Blocked

\* chVTDoResetI as the call ends: its timer is not in the list any more.
LEMMA IInvResume == ASSUME IInv, NEW t \in Thread, Resume(t) PROVE IInv'
<1>1. /\ st[t] \in {"answered", "timedout"} /\ st' = [st EXCEPT ![t] = "run"]
      /\ st' \in [Thread -> States]
  BY DEF Resume, IInv, States
<1>2. vtlist' \in Seq(Thread) /\ IsInjective(vtlist') /\ Armed' = Armed \ {t}
  <2>1. CASE t \notin Armed
    BY <2>1 DEF Resume, ResetsTimer, list, IInv, NoDangling, Armed
  <2>2. CASE t \in Armed
    <3>1. vtlist' = RemoveAt(vtlist, Place(t))
      BY <2>2 DEF Resume, ResetsTimer, DlistRemove
    <3>2. Place(t) \in 1 .. Len(vtlist) /\ vtlist[Place(t)] = t
      BY <2>2 DEF Place, Armed, ToSet, IInv
    <3> QED BY <3>1, <3>2, RemoveAtIs DEF IInv, NoDangling, Armed
  <2> QED BY <2>1, <2>2
<1>3. CallsFit'
  BY <1>1 DEF Resume, IInv, CallsFit
<1> QED BY <1>1, <1>2, <1>3 DEF IInv, NoDangling, States, Blocked

\* chVTDoTickI takes the first timer out and wakes its thread.
LEMMA IInvFire == ASSUME IInv, TickFire PROVE IInv'
<1> DEFINE t == Head(vtlist)
<1>1. vtlist # <<>> /\ vtlist' = Tail(vtlist) /\ st' = Wakened(t)
  BY DEF TickFire, FirstIsDue
<1>2. 1 \in 1 .. Len(vtlist) /\ t = vtlist[1] /\ t \in Thread /\ Tail(vtlist) = RemoveAt(vtlist, 1)
  BY <1>1 DEF IInv, RemoveAt
<1> HIDE DEF t
<1>3. /\ vtlist' \in Seq(Thread) /\ IsInjective(vtlist') /\ Armed' = Armed \ {t}
      /\ Armed \subseteq Thread
  <2>1. vtlist \in Seq(Thread) /\ IsInjective(vtlist) /\ Armed = ToSet(vtlist)
    BY DEF IInv, NoDangling, Armed
  <2>2. /\ RemoveAt(vtlist, 1) \in Seq(Thread) /\ IsInjective(RemoveAt(vtlist, 1))
        /\ ToSet(RemoveAt(vtlist, 1)) = ToSet(vtlist) \ {vtlist[1]}
    BY <1>2, <2>1, RemoveAtIs
  <2>3. vtlist' = RemoveAt(vtlist, 1) /\ Armed' = ToSet(vtlist')
    BY <1>1, <1>2 DEF Armed
  <2>4. ToSet(vtlist) \subseteq Thread
    BY <2>1 DEF ToSet
  <2> QED BY <1>2, <2>1, <2>2, <2>3, <2>4
<1>4. /\ st' \in [Thread -> States] /\ st'[t] \in {st[t], "timedout"} /\ st'[t] \notin Blocking
      /\ \A u \in Thread \ {t} : st'[u] = st[u]
  BY <1>1, <1>2 DEF Wakened, IInv, States, Blocked, Blocking
<1>5. CallsFit'
  <2>1. calls' = IF st[t] = "asleep" THEN [calls EXCEPT ![t] = 0] ELSE calls
    BY DEF TickFire, t
  <2>2. MaxCalls \in Nat
    BY TimersAssumption
  <2>3. calls' \in [Thread -> 0 .. MaxCalls + 1]
    BY <1>2, <2>1, <2>2 DEF IInv, CallsFit
  <2>4. ASSUME NEW u \in Thread, st'[u] # "asleep" PROVE calls'[u] <= MaxCalls
    BY <1>2, <1>4, <2>1, <2>2, <2>4 DEF IInv, CallsFit
  <2> QED BY <2>3, <2>4 DEF CallsFit
<1> QED BY <1>3, <1>4, <1>5 DEF IInv, NoDangling, Blocked, Blocking

\* Every step keeps it.
LEMMA IInvNext == ASSUME IInv, [Next]_vars PROVE IInv'
<1>1. CASE UNCHANGED <<vtlist, st, calls>>
  BY <1>1 DEF IInv, NoDangling, Armed, Blocked, CallsFit
<1>2. ASSUME NEW t \in Thread, Answer(t) PROVE IInv'
  <2>1. /\ vtlist' = vtlist /\ st[t] = "suspended" /\ st' = [st EXCEPT ![t] = "answered"]
        /\ calls' = calls
    BY <1>2 DEF Answer, list
  <2>2. Armed' = Armed
    BY <2>1 DEF Armed
  <2>3. CallsFit'
    BY <2>1 DEF IInv, CallsFit
  <2> QED BY <2>1, <2>2, <2>3 DEF IInv, NoDangling, States, Blocked
<1>3. CASE Advance \/ WriteAlarm \/ CheckAlarm \/ AlarmInterrupt \/ TickEnd
  BY <1>1, <1>3 DEF Advance, WriteAlarm, CheckAlarm, AlarmInterrupt, TickEnd, list
<1>4. ASSUME NEW t \in Thread, Lock(t) PROVE IInv'
  BY <1>1, <1>4 DEF Lock, list
<1>5. CASE UNCHANGED vars
  BY <1>1, <1>5 DEF vars, list
<1> QED
  BY <1>2, <1>3, <1>4, <1>5, IInvSleep, IInvResume, IInvFire DEF Next, Code, Blocking

\* IInv holds in every state.
THEOREM Invariant == Spec => []IInv
<1>1. Init => IInv
  BY TimersAssumption
  DEF Init, IInv, NoDangling, Armed, ToSet, IsInjective, States, CallsFit, Blocked
<1>2. IInv /\ [Next]_vars => IInv'
  BY IInvNext
<1> QED BY <1>1, <1>2, PTL DEF Spec

\* No timer of a call that is over is left in the list, a sleeping thread has
\* its timer there, and none is there twice, whatever woke the thread.
THEOREM TimersOfCalls == Spec => []NoDangling
<1>1. IInv => NoDangling
  BY DEF IInv
<1> QED BY <1>1, Invariant, PTL

\* __sch_wakeup leaves alone a thread that was made ready before it.
THEOREM AnswersAreKept == Spec => AnswerKept
<1>1. ASSUME IInv, [Next]_vars, NEW t \in Thread, st[t] = "answered"
      PROVE  st'[t] # "timedout"
  <2>1. CASE UNCHANGED st
    BY <1>1, <2>1
  <2>2. ASSUME NEW u \in Thread, Answer(u) PROVE st'[t] # "timedout"
    BY <1>1, <2>2 DEF Answer, IInv
  <2>3. ASSUME NEW u \in Thread, Resume(u) PROVE st'[t] # "timedout"
    BY <1>1, <2>3 DEF Resume, IInv
  <2>4. ASSUME NEW u \in Thread, NEW s \in Blocking, NEW d \in Delays, SleepTimeout(u, s, d)
        PROVE  st'[t] # "timedout"
    BY <1>1, <2>4 DEF SleepTimeout, IInv, Blocking
  <2>5. CASE TickFire
    BY <1>1, <2>5 DEF TickFire, Wakened, IInv, Blocked
  <2>6. CASE Advance \/ WriteAlarm \/ CheckAlarm \/ AlarmInterrupt \/ TickEnd \/ UNCHANGED vars
    BY <2>1, <2>6 DEF Advance, WriteAlarm, CheckAlarm, AlarmInterrupt, TickEnd, vars
  <2>7. ASSUME NEW u \in Thread, Lock(u) PROVE st'[t] # "timedout"
    BY <2>1, <2>7 DEF Lock
  <2> QED BY <1>1, <2>2, <2>3, <2>4, <2>5, <2>6, <2>7 DEF Next, Code, Blocking
<1>2. IInv /\ [Next]_vars => [\A t \in Thread : st[t] = "answered" => st'[t] # "timedout"]_st
  BY <1>1
<1> QED BY <1>2, Invariant, PTL DEF Spec, AnswerKept

-----------------------------------------------------------------------------
(* Times that wrap around *)

\* Elapsed and After, as times of the circle.
LEMMA ElapsedIs ==
    ASSUME NEW a \in 0 .. Modulus - 1, NEW b \in 0 .. Modulus - 1
    PROVE  /\ Elapsed(a, b) = IF b >= a THEN b - a ELSE b - a + Modulus
           /\ Elapsed(a, b) \in 0 .. Modulus - 1
<1>1. Modulus \in Nat \ {0}
  BY TimersAssumption
<1>2. CASE b >= a
  <2>1. b - a \in 0 .. Modulus - 1
    BY <1>1, <1>2
  <2>2. (b - a) % Modulus = b - a
    BY <1>1, <2>1
  <2> QED BY <1>2, <2>1, <2>2 DEF Elapsed
<1>3. CASE ~(b >= a)
  <2>1. b - a + Modulus \in 0 .. Modulus - 1
    BY <1>1, <1>3
  <2>2. (b - a) % Modulus = b - a + Modulus
    BY <1>1, <2>1
  <2> QED BY <1>3, <2>1, <2>2 DEF Elapsed
<1> QED BY <1>2, <1>3

\* A time after another wraps around at most once.
LEMMA AfterIs ==
    ASSUME NEW a \in 0 .. Modulus - 1, NEW d \in 0 .. Modulus - 1
    PROVE  /\ After(a, d) = IF a + d < Modulus THEN a + d ELSE a + d - Modulus
           /\ After(a, d) \in 0 .. Modulus - 1
<1>1. Modulus \in Nat \ {0}
  BY TimersAssumption
<1>2. CASE a + d < Modulus
  <2>1. (a + d) % Modulus = a + d
    BY <1>1, <1>2
  <2> QED BY <1>1, <1>2, <2>1 DEF After
<1>3. CASE ~(a + d < Modulus)
  <2>1. a + d - Modulus \in 0 .. Modulus - 1
    BY <1>1, <1>3
  <2>2. (a + d) % Modulus = a + d - Modulus
    BY <1>1, <2>1
  <2> QED BY <1>3, <2>1, <2>2 DEF After
<1> QED BY <1>2, <1>3

\* A time after a stays in the circle, for any delay.
LEMMA AfterType == ASSUME NEW a \in Int, NEW d \in Int PROVE After(a, d) \in 0 .. Modulus - 1
BY TimersAssumption DEF After

\* And so does the time between two.
LEMMA ElapsedType == ASSUME NEW a \in Int, NEW d \in Int PROVE Elapsed(a, d) \in 0 .. Modulus - 1
BY TimersAssumption DEF Elapsed

\* The clock counts on: what elapsed is one more, what is left one less.
LEMMA Ticks ==
    ASSUME NEW a \in 0 .. Modulus - 1, NEW b \in 0 .. Modulus - 1
    PROVE  /\ After(b, 1) \in 0 .. Modulus - 1
           /\ Elapsed(a, b) + 1 < Modulus => Elapsed(a, After(b, 1)) = Elapsed(a, b) + 1
           /\ Elapsed(b, a) >= 1 => Elapsed(After(b, 1), a) = Elapsed(b, a) - 1
           /\ Elapsed(b, a) = 1 => After(b, 1) = a
<1>1. Modulus \in Nat \ {0}
  BY TimersAssumption
<1>2. CASE Modulus = 1
  <2>1. a = 0 /\ b = 0
    BY <1>2
  <2>2. After(b, 1) \in 0 .. Modulus - 1
    BY AfterType
  <2>3. Elapsed(a, b) = 0 /\ Elapsed(b, a) = 0
    BY <2>1, ElapsedIs
  <2> QED BY <1>2, <2>2, <2>3
<1>3. CASE Modulus > 1
  <2>1. /\ After(b, 1) = IF b + 1 < Modulus THEN b + 1 ELSE b + 1 - Modulus
        /\ After(b, 1) \in 0 .. Modulus - 1
    BY <1>1, <1>3, AfterIs
  <2>2. /\ Elapsed(a, b) = IF b >= a THEN b - a ELSE b - a + Modulus
        /\ Elapsed(b, a) = IF a >= b THEN a - b ELSE a - b + Modulus
    BY ElapsedIs
  <2>3. PICK c \in 0 .. Modulus - 1 : c = After(b, 1)
    BY <2>1
  <2>4. /\ Elapsed(a, c) = IF c >= a THEN c - a ELSE c - a + Modulus
        /\ Elapsed(c, a) = IF a >= c THEN a - c ELSE a - c + Modulus
    BY ElapsedIs
  <2> QED BY <1>1, <1>3, <2>1, <2>2, <2>3, <2>4
<1> QED BY <1>1, <1>2, <1>3

\* A time d after a, seen from a time e after a.
LEMMA Between ==
    ASSUME NEW a \in 0 .. Modulus - 1, NEW b \in 0 .. Modulus - 1, NEW d \in 0 .. Modulus - 1
    PROVE  /\ After(a, d) \in 0 .. Modulus - 1
           /\ Elapsed(a, After(a, d)) = d
           /\ d <= Elapsed(a, b) => Elapsed(After(a, d), b) = Elapsed(a, b) - d
           /\ d >= Elapsed(a, b) => Elapsed(b, After(a, d)) = d - Elapsed(a, b)
           /\ d > Elapsed(a, b) => Elapsed(After(a, d), b) = Modulus - (d - Elapsed(a, b))
<1>1. Modulus \in Nat \ {0}
  BY TimersAssumption
<1>2. PICK c \in 0 .. Modulus - 1 : c = After(a, d)
  BY AfterIs
<1>3. c = IF a + d < Modulus THEN a + d ELSE a + d - Modulus
  BY <1>2, AfterIs
<1>4. /\ Elapsed(a, b) = IF b >= a THEN b - a ELSE b - a + Modulus
      /\ Elapsed(a, c) = IF c >= a THEN c - a ELSE c - a + Modulus
      /\ Elapsed(b, c) = IF c >= b THEN c - b ELSE c - b + Modulus
      /\ Elapsed(c, b) = IF b >= c THEN b - c ELSE b - c + Modulus
  BY ElapsedIs
<1> QED BY <1>1, <1>2, <1>3, <1>4

-----------------------------------------------------------------------------
(* The deltas of the list, and when its timers are due *)

\* The times of the circle.
Times == 0 .. Modulus - 1

\* A list of threads, none of them twice, with the deltas and their sums.
Deltas(v, f, P) ==
    /\ v \in Seq(Thread) /\ IsInjective(v) /\ f \in [Thread -> Times]
    /\ Along(v, f, P) /\ \A i \in 0 .. Len(v) : P[i] \in Times

DueIn(v, f, t) == Sum(f, {v[i] : i \in 1 .. (CHOOSE i \in DOMAIN v : v[i] = t)})

\* Due adds the deltas of the list, before a step and after it.
DueSums == \A t \in Thread : Due(t) = Sum(delta, {vtlist[j] : j \in 1 .. Place(t)})

\* The deadline is such a sum.
LEMMA DueSum == DueSums
BY DEF DueSums, Due, Sum

\* The same after a step: DueSums is a name for what holds of every state.
LEMMA DueSumNext == DueSums'
BY DueSum, PTL

\* A timer is due after the deltas up to it.
LEMMA DueInIs ==
    ASSUME NEW v, NEW f, NEW P, Deltas(v, f, P), NEW i \in 1 .. Len(v)
    PROVE  DueIn(v, f, v[i]) = P[i] /\ (CHOOSE j \in DOMAIN v : v[j] = v[i]) = i
<1>1. v \in Seq(Thread) /\ IsInjective(v) /\ f \in [Thread -> Int] /\ Along(v, f, P)
  BY DEF Deltas, Times
<1>2. DOMAIN v = 1 .. Len(v) /\ Len(v) \in Nat
  BY <1>1
<1>3. \A a, b \in 1 .. Len(v) : v[a] = v[b] => a = b
  BY <1>1, <1>2 DEF IsInjective
<1>4. (CHOOSE j \in DOMAIN v : v[j] = v[i]) = i
  BY <1>2, <1>3
<1>5. i \in 0 .. Len(v)
  BY <1>2
<1>6. Sum(f, {v[j] : j \in 1 .. i}) = P[i]
  BY <1>1, <1>5, AlongIs DEF Sum
<1> QED BY <1>4, <1>6 DEF DueIn

\* Such sums of the list of the timers.
Lists ==
    /\ vtlist \in Seq(Thread) /\ IsInjective(vtlist)
    /\ delta \in [Thread -> Times]
    /\ \A u \in Armed : Due(u) \in Times

\* Of a list with its deltas, what its timers are due by is the sums of the deltas.
LEMMA ListsHasSums ==
    ASSUME Lists
    PROVE  \E P : Deltas(vtlist, delta, P) /\ \A i \in 1 .. Len(vtlist) :
               vtlist[i] \in Armed /\ Due(vtlist[i]) = P[i] /\ Place(vtlist[i]) = i
<1>1. /\ vtlist \in Seq(Thread) /\ IsInjective(vtlist) /\ delta \in [Thread -> Int]
      /\ \A i \in 1 .. Len(vtlist) : vtlist[i] \in Armed
      /\ DOMAIN vtlist = 1 .. Len(vtlist) /\ Len(vtlist) \in Nat
  BY DEF Lists, Times, Armed, ToSet
<1>2. PICK P : Along(vtlist, delta, P)
  BY <1>1, AlongIs
<1>3. ASSUME NEW i \in 1 .. Len(vtlist)
      PROVE  Due(vtlist[i]) = P[i] /\ Place(vtlist[i]) = i
  <2>1. \A a, b \in 1 .. Len(vtlist) : vtlist[a] = vtlist[b] => a = b
    BY <1>1 DEF IsInjective
  <2>2. Place(vtlist[i]) = i
    BY <1>1, <2>1 DEF Place
  <2>3. i \in 0 .. Len(vtlist)
    BY <1>1
  <2>4. FoldFunctionOnSet(+, 0, delta, {vtlist[j] : j \in 1 .. i}) = P[i]
    BY <1>1, <1>2, <2>3, AlongIs
  <2> QED BY <2>2, <2>4 DEF Due
<1>4. \A i \in 0 .. Len(vtlist) : P[i] \in Times
  <2>1. P[0] = 0 /\ 0 \in Times
    BY <1>2, TimersAssumption DEF Along, Times
  <2>2. \A i \in 0 .. Len(vtlist) : i = 0 \/ i \in 1 .. Len(vtlist)
    BY <1>1
  <2> QED BY <1>1, <1>3, <2>1, <2>2 DEF Lists
<1>5. Deltas(vtlist, delta, P)
  BY <1>1, <1>2, <1>4 DEF Deltas, Lists
<1> QED BY <1>1, <1>3, <1>5

\* The other way: sums inside the width make the list one of the invariant.
LEMMA SumsMakeLists ==
    ASSUME NEW v, NEW f, NEW P, Deltas(v, f, P), vtlist' = v, delta' = f
    PROVE  Lists' /\ \A i \in 1 .. Len(v) : Due(v[i])' = P[i]
<1>1. ASSUME NEW i \in 1 .. Len(v) PROVE Due(v[i])' = P[i]
  <2>1. DueIn(v, f, v[i]) = P[i]
    BY DueInIs
  <2>2. Place(v[i])' = CHOOSE j \in DOMAIN v : v[j] = v[i]
    BY DEF Place
  <2>3. Due(v[i])' = Sum(delta', {vtlist'[j] : j \in 1 .. Place(v[i])'})
    BY DueSumNext DEF DueSums, Deltas
  <2>4. DueIn(v, f, v[i]) = Sum(f, {v[j] : j \in 1 .. (CHOOSE k \in DOMAIN v : v[k] = v[i])})
    BY DEF DueIn
  <2> QED BY <2>1, <2>2, <2>3, <2>4
<1>2. v \in Seq(Thread) /\ IsInjective(v) /\ f \in [Thread -> Times]
      /\ \A i \in 0 .. Len(v) : P[i] \in Times
  BY DEF Deltas
<1>3. \A u \in ToSet(v) : \E i \in 1 .. Len(v) : u = v[i]
  BY <1>2 DEF ToSet
<1>4. \A i \in 1 .. Len(v) : i \in 0 .. Len(v)
  BY <1>2
<1>5. ASSUME NEW u \in ToSet(v) PROVE Due(u)' \in Times
  <2>1. PICK i \in 1 .. Len(v) : u = v[i]
    BY <1>3
  <2>2. Due(u)' = P[i]
    BY <1>1, <2>1
  <2> QED BY <1>2, <1>4, <2>2
<1> QED BY <1>1, <1>2, <1>5 DEF Lists, Armed, Times

-----------------------------------------------------------------------------
(* How the deadlines change with the list *)

\* When the first timer is due, which is its delta.
FirstDue == Due(Head(vtlist))

FirstIsLeast == Lists /\ vtlist # <<>> =>
    /\ Head(vtlist) \in Armed /\ Head(vtlist) \in Thread
    /\ FirstDue \in Times /\ FirstDue = delta[Head(vtlist)]
    /\ \A u \in Armed : Due(u) \in Times /\ FirstDue <= Due(u)

\* The list is in the order its timers are due.
LEMMA InOrder ==
    ASSUME Lists, NEW P, Deltas(vtlist, delta, P), NEW i \in 0 .. Len(vtlist),
           NEW j \in 0 .. Len(vtlist), i <= j
    PROVE  P[i] <= P[j]
<1>1. vtlist \in Seq(Thread) /\ delta \in [Thread -> Nat] /\ Along(vtlist, delta, P)
  BY DEF Deltas, Times
<1> QED BY <1>1, AlongGrows

\* The timers of a list are due in the order they stand in it.
LEMMA FirstLeast == FirstIsLeast
<1> SUFFICES ASSUME Lists, vtlist # <<>>
             PROVE  /\ Head(vtlist) \in Armed /\ Head(vtlist) \in Thread
                    /\ FirstDue \in Times /\ FirstDue = delta[Head(vtlist)]
                    /\ \A u \in Armed : Due(u) \in Times /\ FirstDue <= Due(u)
  BY DEF FirstIsLeast
<1>1. PICK P : Deltas(vtlist, delta, P) /\ \A i \in 1 .. Len(vtlist) :
               vtlist[i] \in Armed /\ Due(vtlist[i]) = P[i] /\ Place(vtlist[i]) = i
  BY ListsHasSums
<1>2. /\ vtlist \in Seq(Thread) /\ delta \in [Thread -> Int] /\ Along(vtlist, delta, P)
  BY <1>1 DEF Deltas, Times
<1>3. Len(vtlist) \in Nat /\ Len(vtlist) >= 1 /\ 1 \in 1 .. Len(vtlist)
      /\ Head(vtlist) = vtlist[1] /\ vtlist[1] \in Thread
  BY <1>2
<1>4. FirstDue = P[1]
  BY <1>1, <1>3 DEF FirstDue
<1>5. P[1] = delta[vtlist[1]]
  <2>1. P[1] = P[1 - 1] + delta[vtlist[1]] /\ P[0] = 0 /\ delta[vtlist[1]] \in Int
    BY <1>2, <1>3, AlongFacts
  <2>2. 1 - 1 = 0
    OBVIOUS
  <2> QED BY <2>1, <2>2
<1>6. ASSUME NEW u \in Armed PROVE Due(u) \in Times /\ FirstDue <= Due(u)
  <2>1. PICK i \in 1 .. Len(vtlist) : u = vtlist[i]
    BY <1>2 DEF Armed, ToSet
  <2>2. i \in 0 .. Len(vtlist) /\ 1 \in 0 .. Len(vtlist) /\ 1 <= i
    BY <1>3
  <2>3. P[1] <= P[i]
    BY <1>1, <2>2, InOrder
  <2> QED BY <1>1, <1>4, <2>1, <2>3 DEF Lists
<1> QED BY <1>1, <1>3, <1>4, <1>5, <1>6

\* The same after a step.
LEMMA FirstLeastNext == FirstIsLeast'
BY FirstLeast, PTL

\* The second timer is the least of the others.
LEMMA SecondLeast ==
    ASSUME Lists, Len(vtlist) > 1
    PROVE  /\ vtlist[2] \in Armed \ {Head(vtlist)} /\ vtlist # <<>>
           /\ \A u \in Armed \ {Head(vtlist)} : Due(vtlist[2]) <= Due(u)
<1>1. PICK P : Deltas(vtlist, delta, P) /\ \A i \in 1 .. Len(vtlist) :
               vtlist[i] \in Armed /\ Due(vtlist[i]) = P[i] /\ Place(vtlist[i]) = i
  BY ListsHasSums
<1>2. vtlist \in Seq(Thread) /\ DOMAIN vtlist = 1 .. Len(vtlist) /\ IsInjective(vtlist)
  BY DEF Lists
<1>3. Len(vtlist) \in Nat /\ 1 \in 1 .. Len(vtlist) /\ 2 \in 1 .. Len(vtlist)
      /\ Head(vtlist) = vtlist[1] /\ vtlist # <<>>
  BY <1>2
<1>4. vtlist[2] # vtlist[1]
  BY <1>2, <1>3 DEF IsInjective
<1>5. ASSUME NEW u \in Armed \ {Head(vtlist)} PROVE Due(vtlist[2]) <= Due(u)
  <2>1. PICK i \in 1 .. Len(vtlist) : u = vtlist[i]
    BY <1>2 DEF Armed, ToSet
  <2>2. i # 1
    BY <1>3, <1>5, <2>1
  <2>3. i \in 0 .. Len(vtlist) /\ 2 \in 0 .. Len(vtlist) /\ 2 <= i
    BY <1>3, <2>2
  <2>4. P[2] <= P[i]
    BY <1>1, <2>3, InOrder
  <2> QED BY <1>1, <1>3, <2>1, <2>4
<1> QED BY <1>1, <1>3, <1>4, <1>5

\* A timer is put in, due at d: the others are due when they were.
LEMMA DueInsert ==
    ASSUME Lists, NEW t \in Thread, t \notin Armed, NEW d \in Times, DlistInsert(t, d)
    PROVE  /\ Lists' /\ Armed' = Armed \cup {t} /\ vtlist' # <<>>
           /\ Due(t)' = d /\ \A u \in Armed : Due(u)' = Due(u)
<1> DEFINE v == vtlist
           k == Cardinality({u \in Armed : Due(u) < d})
<1>1. PICK P : Deltas(v, delta, P) /\ \A i \in 1 .. Len(v) :
               v[i] \in Armed /\ Due(v[i]) = P[i] /\ Place(v[i]) = i
  BY ListsHasSums
<1>2. /\ v \in Seq(Thread) /\ IsInjective(v) /\ delta \in [Thread -> Nat]
      /\ delta \in [Thread -> Int] /\ Along(v, delta, P) /\ d \in Int
      /\ \A i \in 0 .. Len(v) : P[i] \in Times
      /\ Len(v) \in Nat /\ t \notin ToSet(v)
  BY <1>1 DEF Deltas, Times, Armed
<1>3. {u \in Armed : Due(u) < d} = {v[i] : i \in {n \in 1 .. Len(v) : P[n] < d}}
  <2>1. \A u \in Armed : \E i \in 1 .. Len(v) : u = v[i]
    BY <1>2 DEF Armed, ToSet
  <2> QED BY <1>1, <2>1
<1>4. k \in 0 .. Len(v) /\ \A i \in 1 .. Len(v) : P[i] < d <=> i <= k
  BY <1>2, <1>3, AlongBelow
<1>5. vtlist' = InsertAt(v, k + 1, t) /\ delta' = DeltasWith(Thread, v, delta, k, d - P[k], t)
  <2>1. (IF k = 0 THEN d ELSE d - Due(v[k])) = d - P[k]
    <3>1. CASE k = 0
      <4>1. P[0] = 0
        BY <1>2, AlongFacts
      <4> QED BY <1>2, <3>1, <4>1
    <3>2. CASE k # 0
      <4>1. k \in 1 .. Len(v)
        BY <1>2, <1>4, <3>2
      <4> QED BY <1>1, <3>2, <4>1
    <3> QED BY <3>1, <3>2
  <2> QED BY <2>1 DEF DlistInsert, DeltasWith
<1> HIDE DEF k, v
<1> DEFINE Q == SumsWith(v, P, k, d)
<1>6. Along(vtlist', delta', Q)
  <2>1. Along(InsertAt(v, k + 1, t), DeltasWith(Thread, v, delta, k, d - P[k], t), Q)
    BY <1>2, <1>4, AlongInsert
  <2> QED BY <1>5, <2>1
<1>7. IsWith(Thread, v, k, t, vtlist')
  BY <1>2, <1>4, <1>5, InsertIsWith
<1>8. vtlist' \in Seq(Thread) /\ IsInjective(vtlist') /\ ToSet(vtlist') = ToSet(v) \cup {t}
  <2>1. k + 1 \in 1 .. Len(v) + 1
    BY <1>2, <1>4
  <2> QED BY <1>2, <1>5, <2>1, InsertAtIs
<1>9. P[k] \in Times /\ P[k] <= d /\ d - P[k] \in Times
  <2>1. CASE k = 0
    <3>1. P[0] = 0 /\ 0 \in 0 .. Len(v)
      BY <1>2, AlongFacts
    <3> QED BY <1>2, <2>1, <3>1 DEF Times
  <2>2. CASE k # 0
    <3>1. k \in 1 .. Len(v) /\ k \in 0 .. Len(v) /\ k <= k
      BY <1>2, <1>4, <2>2
    <3>2. P[k] \in Times /\ P[k] < d
      BY <1>2, <1>4, <3>1
    <3> QED BY <3>2, TimersAssumption DEF Times
  <2> QED BY <2>1, <2>2
<1>10. ASSUME k < Len(v) PROVE delta[v[k + 1]] - (d - P[k]) \in Times
  <2>1. k + 1 \in 1 .. Len(v) /\ ~(k + 1 <= k) /\ (k + 1) - 1 = k /\ k + 1 \in 0 .. Len(v)
    BY <1>2, <1>4, <1>10
  <2>2. P[k + 1] = P[k] + delta[v[k + 1]] /\ delta[v[k + 1]] \in Int
    BY <1>2, <2>1, AlongFacts
  <2>3. ~(P[k + 1] < d) /\ P[k + 1] \in Times
    BY <1>2, <1>4, <2>1
  <2>4. PICK a \in Times, b \in Times, c \in Int :
            a = P[k] /\ b = P[k + 1] /\ c = delta[v[k + 1]]
    BY <1>9, <2>2, <2>3
  <2>5. b = a + c /\ ~(b < d)
    BY <2>2, <2>3, <2>4
  <2>6. c - (d - a) \in Times
    BY <2>5, TimersAssumption DEF Times
  <2> QED BY <2>4, <2>6
<1>11. delta' \in [Thread -> Times]
  <2>1. ASSUME NEW u \in Thread
        PROVE  (IF u = t THEN d - P[k]
                ELSE IF k < Len(v) /\ u = v[k + 1] THEN delta[u] - (d - P[k])
                ELSE delta[u]) \in Times
    BY <1>9, <1>10 DEF Lists
  <2> QED BY <1>5, <2>1 DEF DeltasWith
<1>12. \A i \in 0 .. Len(v) + 1 : Q[i] \in Times
  <2>1. ASSUME NEW i \in 0 .. Len(v) + 1
        PROVE  (IF i <= k THEN P[i] ELSE IF i = k + 1 THEN d ELSE P[i - 1]) \in Times
    <3>1. /\ i <= k => i \in 0 .. Len(v)
          /\ ~(i <= k) /\ i # k + 1 => i - 1 \in 0 .. Len(v)
      BY <1>2, <1>4
    <3> QED BY <1>2, <3>1
  <2> QED BY <2>1 DEF SumsWith
<1>13. Len(vtlist') = Len(v) + 1
  BY <1>7 DEF IsWith
<1>14. Deltas(vtlist', delta', Q)
  <2> HIDE DEF Q
  <2> QED BY <1>6, <1>8, <1>11, <1>12, <1>13 DEF Deltas
<1>15. PICK w : w = vtlist'
  OBVIOUS
<1>16. PICK g : g = delta'
  OBVIOUS
<1>17. Lists' /\ \A i \in 1 .. Len(w) : Due(w[i])' = Q[i]
  <2>1. Deltas(w, g, Q) /\ vtlist' = w /\ delta' = g
    BY <1>14, <1>15, <1>16
  <2> HIDE DEF Q
  <2> QED BY <2>1, SumsMakeLists
<1>18. Len(w) = Len(v) + 1 /\ IsWith(Thread, v, k, t, w)
  BY <1>7, <1>13, <1>15
<1>19. Due(t)' = d
  <2>1. /\ k + 1 \in 1 .. Len(w) /\ k + 1 \in 1 .. Len(v) + 1 /\ k + 1 \in 0 .. Len(v) + 1
        /\ ~(k + 1 <= k) /\ ~(k + 1 < k + 1)
    BY <1>2, <1>4, <1>18
  <2>2. w[k + 1] = t
    BY <1>18, <2>1 DEF IsWith
  <2>3. Q[k + 1] = d
    BY <2>1 DEF SumsWith
  <2> HIDE DEF Q
  <2> QED BY <1>17, <2>1, <2>2, <2>3
<1>20. ASSUME NEW u \in Armed PROVE Due(u)' = Due(u)
  <2>1. PICK i \in 1 .. Len(v) : u = v[i]
    BY <1>2 DEF Armed, ToSet, v
  <2>2. PICK j \in 1 .. Len(v) + 1 : j = IF i <= k THEN i ELSE i + 1
    BY <1>2, <1>4
  <2>3. /\ j \in 1 .. Len(w) /\ j \in 0 .. Len(v) + 1 /\ j # k + 1
        /\ i <= k => j = i /\ j < k + 1
        /\ ~(i <= k) => j - 1 = i /\ ~(j <= k) /\ ~(j < k + 1)
    BY <1>2, <1>4, <1>18, <2>2
  <2>4. w[j] = v[i]
    BY <1>18, <2>3 DEF IsWith
  <2>5. Q[j] = P[i]
    BY <1>2, <2>2, <2>3 DEF SumsWith
  <2> HIDE DEF Q
  <2> QED BY <1>1, <1>17, <2>1, <2>3, <2>4, <2>5
<1>21. Armed' = Armed \cup {t} /\ vtlist' # <<>>
  BY <1>2, <1>8, <1>13 DEF Armed, v
<1> QED BY <1>17, <1>19, <1>20, <1>21

\* A timer is taken back: the others are due when they were.
LEMMA DueRemove ==
    ASSUME Lists, NEW t \in Armed, DlistRemove(t)
    PROVE  /\ Lists' /\ Armed' = Armed \ {t} /\ Len(vtlist') = Len(vtlist) - 1
           /\ \A u \in Armed \ {t} : Due(u)' = Due(u)
<1> DEFINE v == vtlist
           p == Place(t)
<1>1. PICK P : Deltas(v, delta, P) /\ \A i \in 1 .. Len(v) :
               v[i] \in Armed /\ Due(v[i]) = P[i] /\ Place(v[i]) = i
  BY ListsHasSums
<1>2. /\ v \in Seq(Thread) /\ IsInjective(v) /\ delta \in [Thread -> Int]
      /\ Along(v, delta, P)
      /\ \A i \in 0 .. Len(v) : P[i] \in Times
      /\ Len(v) \in Nat
  BY <1>1 DEF Deltas, Times
<1>3. p \in 1 .. Len(v) /\ v[p] = t
  <2>1. PICK i \in 1 .. Len(v) : t = v[i]
    BY <1>2 DEF Armed, ToSet
  <2> QED BY <1>1, <2>1
<1>4. vtlist' = RemoveAt(v, p) /\ delta' = DeltasWithout(Thread, v, delta, p)
  BY <1>3 DEF DlistRemove, DeltasWithout
<1> HIDE DEF p, v
<1> DEFINE Q == SumsWithout(v, P, p)
<1>6. Along(vtlist', delta', Q)
  <2>1. Along(RemoveAt(v, p), DeltasWithout(Thread, v, delta, p), Q)
    BY <1>2, <1>3, AlongRemove
  <2> QED BY <1>4, <2>1
<1>7. /\ Len(vtlist') = Len(v) - 1
      /\ \A j \in 1 .. Len(v) - 1 : vtlist'[j] = IF j < p THEN v[j] ELSE v[j + 1]
  BY <1>2, <1>3, <1>4, RemoveAtElements
<1>8. vtlist' \in Seq(Thread) /\ IsInjective(vtlist') /\ ToSet(vtlist') = ToSet(v) \ {t}
  BY <1>2, <1>3, <1>4, RemoveAtIs
<1>10. ASSUME p < Len(v) PROVE delta[v[p + 1]] + delta[v[p]] \in Times
  <2>1. /\ p + 1 \in 1 .. Len(v) /\ (p + 1) - 1 = p /\ p + 1 \in 0 .. Len(v)
        /\ p - 1 \in 0 .. Len(v)
    BY <1>2, <1>3, <1>10
  <2>2. /\ P[p + 1] = P[p] + delta[v[p + 1]] /\ delta[v[p + 1]] \in Int
        /\ P[p] = P[p - 1] + delta[v[p]] /\ delta[v[p]] \in Int
    <3>1. \A i \in 1 .. Len(v) : P[i] = P[i - 1] + delta[v[i]]
      BY <1>2, AlongFacts
    <3>2. \A i \in 1 .. Len(v) : delta[v[i]] \in Int
      BY <1>2, AlongFacts
    <3> QED BY <1>3, <2>1, <3>1, <3>2
  <2>3. P[p + 1] \in Times /\ P[p - 1] \in Times
    BY <1>2, <2>1
  <2>4. delta[v[p + 1]] \in Times /\ delta[v[p]] \in Times
    <3>1. v[p + 1] \in Thread /\ v[p] \in Thread
      BY <1>2, <1>3, <2>1
    <3> QED BY <3>1 DEF Lists
  <2>5. PICK a \in Times, b \in Times, c \in Times, e \in Times :
            a = P[p - 1] /\ b = P[p + 1] /\ c = delta[v[p]] /\ e = delta[v[p + 1]]
    BY <2>3, <2>4
  <2>6. b = (a + c) + e
    BY <2>2, <2>5
  <2>7. e + c \in Times
    BY <2>6, TimersAssumption DEF Times
  <2> QED BY <2>5, <2>7
<1>11. delta' \in [Thread -> Times]
  <2>1. ASSUME NEW u \in Thread
        PROVE  (IF u = v[p] THEN 0
                ELSE IF p < Len(v) /\ u = v[p + 1] THEN delta[u] + delta[v[p]]
                ELSE delta[u]) \in Times
    <3>1. 0 \in Times /\ delta[u] \in Times
      BY TimersAssumption DEF Times, Lists
    <3> QED BY <1>10, <3>1
  <2> QED BY <1>4, <2>1 DEF DeltasWithout
<1>12. \A i \in 0 .. Len(v) - 1 : Q[i] \in Times
  <2>1. ASSUME NEW i \in 0 .. Len(v) - 1
        PROVE  (IF i < p THEN P[i] ELSE P[i + 1]) \in Times
    <3>1. i \in 0 .. Len(v) /\ i + 1 \in 0 .. Len(v)
      BY <1>2
    <3> QED BY <1>2, <3>1
  <2> QED BY <2>1 DEF SumsWithout
<1>14. Deltas(vtlist', delta', Q)
  <2> HIDE DEF Q
  <2> QED BY <1>6, <1>7, <1>8, <1>11, <1>12 DEF Deltas
<1>15. PICK w : w = vtlist'
  OBVIOUS
<1>16. PICK g : g = delta'
  OBVIOUS
<1>17. Lists' /\ \A i \in 1 .. Len(w) : Due(w[i])' = Q[i]
  <2>1. Deltas(w, g, Q) /\ vtlist' = w /\ delta' = g
    BY <1>14, <1>15, <1>16
  <2> HIDE DEF Q
  <2> QED BY <2>1, SumsMakeLists
<1>20. ASSUME NEW u \in Armed \ {t} PROVE Due(u)' = Due(u)
  <2>1. PICK i \in 1 .. Len(v) : u = v[i]
    BY <1>2 DEF Armed, ToSet, v
  <2>2. i # p
    BY <1>3, <1>20, <2>1
  <2>3. PICK j \in 1 .. Len(v) - 1 : j = IF i < p THEN i ELSE i - 1
    BY <1>2, <1>3, <2>2
  <2>4. /\ j \in 1 .. Len(w) /\ j \in 0 .. Len(v) - 1
        /\ i < p => j = i /\ j < p
        /\ ~(i < p) => j + 1 = i /\ ~(j < p)
    BY <1>2, <1>3, <1>7, <1>15, <2>2, <2>3
  <2>5. w[j] = v[i]
    BY <1>7, <1>15, <2>3, <2>4
  <2>6. Q[j] = P[i]
    BY <2>3, <2>4 DEF SumsWithout
  <2> HIDE DEF Q
  <2> QED BY <1>1, <1>17, <2>1, <2>4, <2>5, <2>6
<1>21. Armed' = Armed \ {t} /\ Len(vtlist') = Len(vtlist) - 1
  BY <1>7, <1>8 DEF Armed, v
<1> QED BY <1>17, <1>20, <1>21

\* The first timer goes off: the others are due when they were, counted from it.
LEMMA DueFire ==
    ASSUME Lists, vtlist # <<>>, vtlist' = Tail(vtlist),
           delta' = [delta EXCEPT ![Head(vtlist)] = 0]
    PROVE  /\ Lists' /\ Armed' = Armed \ {Head(vtlist)} /\ Len(vtlist') = Len(vtlist) - 1
           /\ \A u \in Armed \ {Head(vtlist)} : Due(u)' = Due(u) - FirstDue
<1> DEFINE v == vtlist
<1>0. FirstDue \in Times /\ FirstDue = delta[v[1]] /\ Head(v) = v[1]
  BY FirstLeast DEF FirstIsLeast, Lists
<1>1. PICK P : Deltas(v, delta, P) /\ \A i \in 1 .. Len(v) :
               v[i] \in Armed /\ Due(v[i]) = P[i] /\ Place(v[i]) = i
  BY ListsHasSums
<1>2. /\ v \in Seq(Thread) /\ IsInjective(v) /\ delta \in [Thread -> Int]
      /\ Along(v, delta, P) /\ v # <<>>
      /\ \A i \in 0 .. Len(v) : P[i] \in Times
      /\ Len(v) \in Nat /\ Len(v) > 0 /\ 1 \in 1 .. Len(v)
  BY <1>1 DEF Deltas, Times
<1>3. P[1] = FirstDue
  BY <1>0, <1>1, <1>2 DEF FirstDue
<1> DEFINE Q == SumsBehind(v, P, delta[v[1]])
<1>6. Along(vtlist', delta', Q)
  <2>1. Along(Tail(v), [delta EXCEPT ![v[1]] = 0], Q)
    BY <1>2, AlongTail
  <2> QED BY <1>0, <2>1
<1>7. /\ vtlist' \in Seq(Thread) /\ Len(vtlist') = Len(v) - 1
      /\ \A j \in 1 .. Len(v) - 1 : vtlist'[j] = v[j + 1]
  BY <1>2
<1>8. IsInjective(vtlist') /\ ToSet(vtlist') = ToSet(v) \ {v[1]}
  <2>1. Tail(v) = RemoveAt(v, 1)
    BY <1>2 DEF RemoveAt
  <2> QED BY <1>2, <2>1, RemoveAtIs
<1> HIDE DEF v
<1>11. delta' \in [Thread -> Times]
  <2>1. 0 \in Times /\ delta \in [Thread -> Times]
    BY TimersAssumption DEF Times, Lists
  <2> QED BY <2>1
<1>12. \A i \in 0 .. Len(v) - 1 : Q[i] = P[i + 1] - FirstDue /\ Q[i] \in Times
  <2>1. ASSUME NEW i \in 0 .. Len(v) - 1 PROVE P[i + 1] - FirstDue \in Times
    <3>1. i + 1 \in 0 .. Len(v) /\ 1 \in 0 .. Len(v) /\ 1 <= i + 1
      BY <1>2
    <3>2. P[1] <= P[i + 1]
      BY <1>1, <3>1, InOrder DEF v
    <3>3. PICK a \in Times, b \in Times : a = P[1] /\ b = P[i + 1]
      BY <1>2, <3>1
    <3>4. b - a \in Times
      BY <3>2, <3>3, TimersAssumption DEF Times
    <3> QED BY <1>3, <3>3, <3>4
  <2> QED BY <1>0, <2>1 DEF SumsBehind
<1>14. Deltas(vtlist', delta', Q)
  <2> HIDE DEF Q
  <2> QED BY <1>6, <1>7, <1>8, <1>11, <1>12 DEF Deltas
<1>15. PICK w : w = vtlist'
  OBVIOUS
<1>16. PICK g : g = delta'
  OBVIOUS
<1>17. Lists' /\ \A i \in 1 .. Len(w) : Due(w[i])' = Q[i]
  <2>1. Deltas(w, g, Q) /\ vtlist' = w /\ delta' = g
    BY <1>14, <1>15, <1>16
  <2> HIDE DEF Q
  <2> QED BY <2>1, SumsMakeLists
<1>20. ASSUME NEW u \in Armed \ {v[1]} PROVE Due(u)' = Due(u) - FirstDue
  <2>1. PICK i \in 1 .. Len(v) : u = v[i]
    BY <1>2 DEF Armed, ToSet, v
  <2>2. i # 1
    BY <1>20, <2>1
  <2>3. PICK j \in 1 .. Len(v) - 1 : j = i - 1
    BY <1>2, <2>2
  <2>4. j \in 1 .. Len(w) /\ j \in 0 .. Len(v) - 1 /\ j + 1 = i
    BY <1>2, <1>7, <1>15, <2>3
  <2>5. w[j] = v[i] /\ Q[j] = P[i] - FirstDue
    BY <1>7, <1>12, <1>15, <2>4
  <2> HIDE DEF Q
  <2> QED BY <1>1, <1>17, <2>1, <2>4, <2>5
<1>21. Armed' = Armed \ {v[1]} /\ Len(vtlist') = Len(vtlist) - 1
  BY <1>7, <1>8 DEF Armed, v
<1> QED BY <1>0, <1>17, <1>20, <1>21 DEF v

-----------------------------------------------------------------------------
(* The types *)

Alarms == [base : Times, target : Nat, delay : Nat, cur : Nat, first : BOOLEAN]

\* The types, with the deadlines of the timers inside the width.
TInv ==
    /\ time \in Times /\ ccr \in Times /\ lasttime \in Times
    /\ on \in BOOLEAN /\ hit \in BOOLEAN
    /\ Lists
    /\ vtlist # <<>> => Delays # {}
    /\ owner \in Thread \cup {"isr", None}
    /\ stage \in {"free", "enter", "scan", "write", "check"}
    /\ al \in Alarms /\ late \in 0 .. MaxLate

\* What is known of the constants.
LEMMA Sizes ==
    /\ Modulus \in Nat /\ Modulus > 0 /\ TimeDelta \in Nat /\ TimeDelta > 0 /\ MaxLate \in Nat
    /\ Modulus \div 2 \in Nat /\ 2 * (Modulus \div 2) <= Modulus
    /\ 0 \in Times /\ 4 * MaxLate + TimeDelta <= Modulus \div 2
    /\ \A d \in Delays : d \in Times /\ d \in Nat /\ d >= TimeDelta /\ d > MaxLate
                         /\ d <= Modulus \div 2 - 1
<1>1. /\ Modulus \in Nat /\ Modulus > 0 /\ TimeDelta \in Nat /\ TimeDelta > 0 /\ MaxLate \in Nat
      /\ 4 * MaxLate + TimeDelta <= Modulus \div 2
  BY TimersAssumption
<1>2. Modulus \div 2 \in Nat /\ 2 * (Modulus \div 2) <= Modulus
  BY <1>1
<1>3. ASSUME NEW d \in Delays
      PROVE  d \in Times /\ d \in Nat /\ d >= TimeDelta /\ d > MaxLate /\ d <= Modulus \div 2 - 1
  <2>1. PICK h \in Nat : h = Modulus \div 2
    BY <1>2
  <2>2. d \in TimeDelta .. h - 1 /\ d > MaxLate
    BY <2>1, TimersAssumption
  <2> QED BY <1>1, <1>2, <2>1, <2>2 DEF Times
<1> QED BY <1>1, <1>2, <1>3 DEF Times

\* A delay counted from lasttime stays inside the width.
LEMMA FromLastType == ASSUME TInv, NEW d \in Delays PROVE FromLast(d) \in Times
<1>1. Elapsed(lasttime, time) \in Times /\ d \in Times
  <2>1. lasttime \in Int /\ time \in Int
    BY DEF TInv, Times
  <2>2. Elapsed(lasttime, time) \in Times
    BY <2>1, ElapsedType DEF Times
  <2> QED BY <2>2, Sizes
<1>2. After(Elapsed(lasttime, time), d) \in Times
  BY <1>1, AfterType DEF Times
<1> QED BY <1>1, <1>2 DEF FromLast

\* A step that leaves the list alone leaves the deadlines alone.
LEMMA DuesStay ==
    ASSUME Lists, UNCHANGED <<vtlist, delta>>
    PROVE  /\ Lists' /\ Armed' = Armed /\ Armed \subseteq Thread
           /\ \A u \in Armed : Due(u)' = Due(u)
           /\ vtlist # <<>> => FirstDue' = FirstDue
<1>1. Armed' = Armed /\ Armed \subseteq Thread
  BY DEF Armed, Lists, ToSet
<1>2. \A u \in Thread : Place(u)' = Place(u)
  BY DEF Place
<1>3. \A u \in Thread : Due(u)' = Due(u)
  BY <1>2, DueSum, DueSumNext DEF DueSums
<1>4. vtlist # <<>> => FirstDue' = FirstDue
  <2>1. SUFFICES ASSUME vtlist # <<>> PROVE FirstDue' = FirstDue
    OBVIOUS
  <2>2. PICK h \in Thread : h = Head(vtlist)
    BY <2>1 DEF Lists
  <2>3. Head(vtlist)' = h
    BY <2>2
  <2>4. FirstDue' = Due(h)'
    BY <2>3 DEF FirstDue
  <2> QED BY <1>3, <2>2, <2>4 DEF FirstDue
<1> QED BY <1>1, <1>3, <1>4 DEF Lists

\* A thread that goes to sleep puts its timer in.
LEMMA SleepDues ==
    ASSUME TInv, IInv, NEW t \in Thread, NEW s \in Blocking, NEW d \in Delays, SleepTimeout(t, s, d)
    PROVE  /\ Lists' /\ t \notin Armed /\ Armed' = Armed \cup {t} /\ vtlist' # <<>>
           /\ vtlist = <<>> => lasttime' = time /\ Due(t)' = d
           /\ vtlist # <<>> => /\ lasttime' = lasttime /\ Due(t)' = FromLast(d)
                               /\ \A u \in Armed : Due(u)' = Due(u)
<1>1. t \notin Armed
  BY DEF SleepTimeout, IInv, NoDangling
<1>2. CASE InsertFirst(t, d)
  <2>1. /\ vtlist = <<>> /\ vtlist' = <<t>> /\ delta' = [delta EXCEPT ![t] = d]
        /\ lasttime' = time /\ Armed = {}
    BY <1>2 DEF InsertFirst, Armed, ToSet
  <2>2. PICK Q : Q = [i \in 0 .. 1 |-> IF i = 0 THEN 0 ELSE d]
    OBVIOUS
  <2>3. PICK w : w = <<t>>
    OBVIOUS
  <2>4. PICK g : g = [delta EXCEPT ![t] = d]
    OBVIOUS
  <2>5. w \in Seq(Thread) /\ Len(w) = 1 /\ w[1] = t /\ DOMAIN w = 1 .. 1
    BY <2>3
  <2>6. d \in Times /\ 0 \in Times /\ d \in Int
    BY Sizes DEF Times
  <2>7. g \in [Thread -> Times] /\ g[t] = d
    BY <2>4, <2>6 DEF TInv, Lists
  <2>8. Q \in [0 .. 1 -> Int] /\ Q[0] = 0 /\ Q[1] = d /\ \A i \in 0 .. 1 : Q[i] \in Times
    BY <2>2, <2>6
  <2>9. Along(w, g, Q)
    <3>1. ASSUME NEW i \in 1 .. 1 PROVE Q[i] = Q[i - 1] + g[w[i]]
      <4>1. i = 1 /\ i - 1 = 0
        OBVIOUS
      <4> QED BY <2>5, <2>6, <2>7, <2>8, <4>1
    <3> QED BY <2>5, <2>8, <3>1 DEF Along
  <2>10. IsInjective(w)
    BY <2>5 DEF IsInjective
  <2>11. Deltas(w, g, Q)
    BY <2>5, <2>7, <2>8, <2>9, <2>10 DEF Deltas
  <2>12. Lists' /\ \A i \in 1 .. Len(w) : Due(w[i])' = Q[i]
    BY <2>1, <2>3, <2>4, <2>11, SumsMakeLists
  <2>13. Armed' = {t} /\ vtlist' # <<>>
    <3>1. Armed' = ToSet(w)
      BY <2>1, <2>3 DEF Armed
    <3> QED BY <2>1, <2>5, <3>1 DEF ToSet
  <2>14. Due(t)' = d
    <3>1. 1 \in 1 .. Len(w)
      BY <2>5
    <3>2. Due(w[1])' = Q[1]
      BY <2>12, <3>1
    <3> QED BY <2>5, <2>8, <3>2
  <2> QED BY <1>1, <2>1, <2>12, <2>13, <2>14
<1>3. CASE Enqueue(t, d)
  <2>1. vtlist # <<>> /\ DlistInsert(t, FromLast(d)) /\ lasttime' = lasttime
    BY <1>3 DEF Enqueue
  <2>2. FromLast(d) \in Times /\ Lists
    BY FromLastType DEF TInv
  <2>3. PICK e \in Times : e = FromLast(d)
    BY <2>2
  <2>4. /\ Lists' /\ Armed' = Armed \cup {t} /\ vtlist' # <<>>
        /\ Due(t)' = e /\ \A u \in Armed : Due(u)' = Due(u)
    BY <1>1, <2>1, <2>2, <2>3, DueInsert
  <2> QED BY <1>1, <2>1, <2>3, <2>4
<1> QED BY <1>2, <1>3 DEF SleepTimeout

\* A thread that comes back takes a timer that is still there out.
LEMMA ResumeDues ==
    ASSUME TInv, NEW t \in Thread, Resume(t)
    PROVE  /\ Lists' /\ Armed' = Armed \ {t} /\ lasttime' = lasttime
           /\ \A u \in Armed' : Due(u)' = Due(u)
           /\ t \in Armed => Len(vtlist') = Len(vtlist) - 1
<1>1. CASE t \notin Armed
  <2>1. vtlist' = vtlist /\ delta' = delta /\ lasttime' = lasttime
    BY <1>1 DEF Resume, ResetsTimer, list
  <2> QED BY <1>1, <2>1, DuesStay DEF TInv
<1>2. CASE t \in Armed
  <2>1. DlistRemove(t) /\ lasttime' = lasttime
    BY <1>2 DEF Resume, ResetsTimer
  <2> QED BY <1>2, <2>1, DueRemove DEF TInv
<1> QED BY <1>1, <1>2

\* The first timer is due: the list counts from its deadline.
LEMMA FireDues ==
    ASSUME TInv, TickFire
    PROVE  /\ Lists' /\ vtlist # <<>> /\ Armed' = Armed \ {Head(vtlist)}
           /\ Len(vtlist') = Len(vtlist) - 1
           /\ lasttime' = After(lasttime, FirstDue) /\ FirstDue <= Elapsed(lasttime, time)
           /\ \A u \in Armed' : Due(u)' = Due(u) - FirstDue
<1>1. /\ vtlist # <<>> /\ vtlist' = Tail(vtlist) /\ delta' = [delta EXCEPT ![Head(vtlist)] = 0]
      /\ lasttime' = After(lasttime, delta[Head(vtlist)])
      /\ Elapsed(lasttime, time) >= delta[Head(vtlist)]
  BY DEF TickFire, FirstIsDue
<1>2. FirstDue = delta[Head(vtlist)] /\ FirstDue \in Times /\ Lists
  BY <1>1, FirstLeast DEF FirstIsLeast, TInv
<1>3. Elapsed(lasttime, time) \in Times
  BY ElapsedType DEF TInv, Times
<1>4. FirstDue <= Elapsed(lasttime, time)
  BY <1>1, <1>2, <1>3 DEF Times
<1> QED BY <1>1, <1>2, <1>4, DueFire

\* What an alarm is set up with.
LEMMA AlarmInType ==
    ASSUME TInv, NEW d \in Nat, NEW b \in BOOLEAN
    PROVE  AlarmIn(d, b) \in Alarms /\ NoAlarm \in Alarms
BY Sizes DEF AlarmIn, Safe, Alarms, TInv, NoAlarm

\* The parts of the types that concern the section and the hardware.
SectType ==
    /\ on \in BOOLEAN /\ hit \in BOOLEAN /\ ccr \in Times
    /\ owner \in Thread \cup {"isr", None}
    /\ stage \in {"free", "enter", "scan", "write", "check"}
    /\ al \in Alarms /\ late \in 0 .. MaxLate

\* The section is left.
LEMMA LeaveType == ASSUME TInv, Leave PROVE
    /\ owner' \in Thread \cup {"isr", None}
    /\ stage' \in {"free", "enter", "scan", "write", "check"}
    /\ al' \in Alarms /\ late' \in 0 .. MaxLate
<1>1. al' \in Alarms
  BY Sizes DEF Leave, NoAlarm, Alarms
<1> QED BY <1>1, Sizes DEF Leave

\* chSchGoSleepTimeoutS: the delay, cut or not, is inside the width.
LEMMA TInvSleep ==
    ASSUME TInv, IInv, NEW t \in Thread, NEW s \in Blocking, NEW d \in Delays, SleepTimeout(t, s, d)
    PROVE  TInv'
<1>1. Lists' /\ lasttime' \in Times
  BY SleepDues DEF TInv
<1>2. time' = time /\ ccr' = ccr /\ on' = on /\ hit' = hit /\ Delays # {}
  BY DEF SleepTimeout, hw
<1>3. SectType'
  <2>1. d \in Nat
    BY Sizes
  <2>2. CASE stage' = "write" /\ (\E b \in BOOLEAN : al' = AlarmIn(d, b)) /\ Stay
    BY <1>2, <2>1, <2>2, AlarmInType DEF Stay, SectType, TInv
  <2>3. CASE Leave
    BY <1>2, <2>3, LeaveType DEF SectType, TInv
  <2> QED BY <2>2, <2>3 DEF SleepTimeout, InsertFirst, Enqueue
<1> QED BY <1>1, <1>2, <1>3 DEF TInv, SectType

\* chVTDoResetI: the delta that is handed on is, too.
LEMMA TInvResume == ASSUME TInv, NEW t \in Thread, Resume(t) PROVE TInv'
<1>1. Lists' /\ lasttime' = lasttime /\ (vtlist' # <<>> => Delays # {})
  <2>1. Lists' /\ lasttime' = lasttime /\ Armed' \subseteq Armed
    BY ResumeDues
  <2>2. vtlist = <<>> => Armed = {}
    BY DEF Armed, ToSet
  <2>3. vtlist' # <<>> => Armed' # {}
    BY <2>1, FirstLeastNext DEF FirstIsLeast
  <2> QED BY <2>1, <2>2, <2>3 DEF TInv
<1>2. time' = time /\ ccr' = ccr /\ hit' = hit /\ on' \in BOOLEAN
  BY DEF Resume, hw, StaysOn, TInv
<1>3. SectType'
  <2>1. CASE Leave
    BY <1>2, <2>1, LeaveType DEF SectType, TInv
  <2>2. CASE /\ AlarmMoves(t) /\ stage' = "write" /\ Stay
             /\ al' = AlarmIn(Due(vtlist[2]) - Elapsed(lasttime, time), FALSE)
    <3>1. Elapsed(lasttime, time) \in Times
      BY ElapsedType DEF TInv, Times
    <3>2. Due(vtlist[2]) \in Times
      BY <2>2, SecondLeast DEF AlarmMoves, TInv, Lists
    <3>3. Due(vtlist[2]) - Elapsed(lasttime, time) \in Nat
      BY <2>2, <3>1, <3>2, Sizes DEF AlarmMoves, Times
    <3> QED BY <1>2, <2>2, <3>3, AlarmInType DEF Stay, SectType, TInv
  <2> QED BY <2>1, <2>2 DEF Resume
<1> QED BY <1>1, <1>2, <1>3 DEF TInv, SectType

\* A round of chVTDoTickI.
LEMMA TInvFire == ASSUME TInv, TickFire PROVE TInv'
<1>1. Lists' /\ vtlist # <<>> /\ lasttime' = After(lasttime, FirstDue)
  BY FireDues
<1>2. lasttime' \in Times
  <2>1. FirstDue \in Times /\ lasttime \in Times
    BY <1>1, FirstLeast DEF FirstIsLeast, TInv
  <2> QED BY <1>1, <2>1, AfterType DEF Times
<1>3. on' \in BOOLEAN /\ time' = time /\ ccr' = ccr /\ hit' = hit /\ UNCHANGED sect
  BY DEF TickFire, StaysOn, TInv
<1> QED BY <1>1, <1>2, <1>3 DEF TInv, sect

\* The end of chVTDoTickI.
LEMMA TInvScanEnds == ASSUME TInv, TickEnd PROVE TInv'
<1>1. UNCHANGED <<time, ccr, on, hit, lasttime, vtlist, delta>>
  BY DEF TickEnd, hw, list
<1>2. Lists'
  BY <1>1, DuesStay DEF TInv
<1>3. SectType'
  <2>1. CASE Leave
    BY <1>1, <2>1, LeaveType DEF SectType, TInv
  <2>2. CASE /\ vtlist # <<>> /\ stage' = "write" /\ Stay
             /\ al' = AlarmIn(delta[Head(vtlist)] - Elapsed(lasttime, time), FALSE)
    <3>1. Elapsed(lasttime, time) \in Times
      BY ElapsedType DEF TInv, Times
    <3>2. delta[Head(vtlist)] \in Times /\ ~(Elapsed(lasttime, time) >= delta[Head(vtlist)])
      BY <2>2, FirstLeast DEF TickEnd, FirstIsDue, FirstIsLeast, TInv
    <3>3. delta[Head(vtlist)] - Elapsed(lasttime, time) \in Nat
      BY <3>1, <3>2, Sizes DEF Times
    <3> QED BY <1>1, <2>2, <3>3, AlarmInType DEF Stay, SectType, TInv
  <2> QED BY <2>1, <2>2 DEF TickEnd
<1> QED BY <1>1, <1>2, <1>3 DEF TInv, SectType

\* What an alarm is tried again with.
LEMMA RelaxedType == ASSUME TInv PROVE
    /\ Relaxed \in Alarms /\ Relaxed.first = al.first /\ Relaxed.cur = al.cur + 1
    /\ Relaxed.target = al.cur + 1
    /\ ~al.first => Relaxed.base = time /\ Relaxed.delay = al.cur + 1
<1> DEFINE more == [al EXCEPT !.cur = @ + 1, !.target = al.cur + 1]
           again == [more EXCEPT !.base = time, !.delay = al.cur + 1]
<1>1. al \in Alarms /\ time \in Times /\ al.cur + 1 \in Nat
  BY DEF TInv, Alarms
<1>2. /\ more \in Alarms /\ more.first = al.first /\ more.cur = al.cur + 1
      /\ more.target = al.cur + 1
  BY <1>1 DEF Alarms
<1>3. Relaxed = IF al.first THEN more ELSE again
  BY DEF Relaxed
<1> HIDE DEF more
<1>4. /\ again \in Alarms /\ again.first = more.first /\ again.cur = more.cur
      /\ again.target = more.target /\ again.base = time /\ again.delay = al.cur + 1
  BY <1>1, <1>2 DEF Alarms
<1> HIDE DEF again
<1> QED BY <1>2, <1>3, <1>4

\* The steps that leave the list alone.
LEMMA TInvOthers ==
    ASSUME TInv, UNCHANGED <<vtlist, delta>>,
           Advance \/ WriteAlarm \/ CheckAlarm \/ AlarmInterrupt
              \/ UNCHANGED vars \/ \E t \in Thread : Lock(t) \/ Answer(t)
    PROVE  TInv'
<1>1. Lists' /\ UNCHANGED <<vtlist, delta>>
  BY DuesStay DEF TInv
<1>2. CASE Advance
  <2>1. time' = After(time, 1) /\ hit' \in BOOLEAN /\ ccr' = ccr /\ on' = on
        /\ lasttime' = lasttime /\ owner' = owner /\ stage' = stage /\ al' = al
    BY <1>2 DEF Advance, TInv, list
  <2>2. time' \in Times
    BY <2>1, AfterType DEF TInv, Times
  <2>3. late' \in 0 .. MaxLate
    BY <1>2, Sizes DEF Advance, TInv
  <2> QED BY <1>1, <2>1, <2>2, <2>3 DEF TInv
<1>3. CASE WriteAlarm
  <2>1. ccr' \in Times
    BY <1>3, AfterType DEF WriteAlarm, TInv, Times, Alarms
  <2> QED BY <1>1, <1>3, <2>1 DEF WriteAlarm, TInv, list
<1>4. CASE CheckAlarm
  <2>1. UNCHANGED <<time, ccr, on, hit, lasttime>>
    BY <1>4 DEF CheckAlarm, hw, list
  <2>2. CASE Leave
    BY <1>1, <2>1, <2>2, LeaveType DEF TInv
  <2>3. CASE stage' = "write" /\ al' = Relaxed /\ Stay
    BY <1>1, <2>1, <2>3, RelaxedType DEF TInv, Stay
  <2> QED BY <1>4, <2>2, <2>3 DEF CheckAlarm
<1>5. CASE AlarmInterrupt
  BY <1>1, <1>5 DEF AlarmInterrupt, TInv, list
<1>6. CASE UNCHANGED vars
  BY <1>1, <1>6 DEF vars, hw, list, sect, TInv
<1>7. ASSUME NEW t \in Thread, Lock(t) PROVE TInv'
  BY <1>1, <1>7 DEF Lock, hw, list, TInv
<1>8. ASSUME NEW t \in Thread, Answer(t) PROVE TInv'
  BY <1>1, <1>8 DEF Answer, hw, list, sect, TInv
<1> QED BY <1>2, <1>3, <1>4, <1>5, <1>6, <1>7, <1>8

\* Every step keeps the types.
LEMMA TInvNext == ASSUME TInv, IInv, [Next]_vars PROVE TInv'
<1>1. CASE Advance \/ WriteAlarm \/ CheckAlarm \/ AlarmInterrupt
              \/ UNCHANGED vars \/ \E t \in Thread : Lock(t) \/ Answer(t)
  <2>1. UNCHANGED <<vtlist, delta>>
    BY <1>1 DEF Advance, WriteAlarm, CheckAlarm, AlarmInterrupt, vars, Lock, Answer, list
  <2> QED BY <1>1, <2>1, TInvOthers
<1> QED BY <1>1, TInvSleep, TInvResume, TInvFire, TInvScanEnds DEF Next, Code, Blocking

\* And they hold at the start.
LEMMA TInvInit == Init => TInv
<1> SUFFICES ASSUME Init PROVE TInv
  OBVIOUS
<1>1. Lists
  BY Sizes DEF Init, Lists, IsInjective, Armed, ToSet
<1>2. al \in Alarms
  BY Sizes DEF Init, NoAlarm, Alarms
<1>3. time \in Times /\ ccr \in Times /\ lasttime \in Times /\ late \in 0 .. MaxLate
  BY Sizes DEF Init
<1>4. vtlist = <<>> /\ owner = None /\ stage = "free" /\ on \in BOOLEAN /\ hit \in BOOLEAN
  BY DEF Init
<1> QED BY <1>1, <1>2, <1>3, <1>4 DEF TInv

\* Times and delays stay inside the width of systime_t, and the list names
\* threads: the deltas of the list never add up to more than a time can hold.
THEOREM TypeCorrect == Spec => []TypeOK
<1>1. Init => TInv
  BY TInvInit
<1>2. TInv /\ IInv /\ [Next]_vars => TInv'
  BY TInvNext
<1>3. IInv /\ TInv => TypeOK
  BY DEF IInv, TInv, TypeOK, Lists, Times, Alarms, States, CallsFit, Blocking
<1> QED BY <1>1, <1>2, <1>3, Invariant, PTL DEF Spec

-----------------------------------------------------------------------------
(* No timer is passed by more than the sections account for *)

Half  == Modulus \div 2
Gone  == Elapsed(lasttime, time)
Ahead == Elapsed(time, ccr)
Since == Elapsed(al.base, time)

\* What the alarm may come too late: the section that set it, and the ticks its
\* retries asked for in addition.
Slack == 2 * MaxLate + TimeDelta - 1

\* No delay is cut: lasttime is not so old that a delay counted from it overflows.
Young == vtlist # <<>> => \A d \in Delays : Gone + d < Modulus

\* The parts of the invariant.  A deadline is in the half of the circle ahead.
Ages == \A u \in Armed : Due(u) <= Gone + Half - 1

Stages ==
    /\ owner = None <=> stage = "free"
    /\ stage = "free" => late = 0
    /\ stage \in {"write", "check"} => vtlist # <<>>

\* The compare interrupt is enabled, or about to be.
AlarmOn == vtlist # <<>> => on \/ (stage = "write" /\ al.first)

\* The counter has yet to meet the compare register, in time for the first timer;
\* or it has met it and the interrupt is requested.
Coming == Ahead >= 1 /\ Gone + Ahead <= FirstDue + Slack
Waits ==
    vtlist # <<>> /\ stage \in {"free", "enter"} =>
        \/ Coming
        \/ hit /\ Gone <= FirstDue + Slack + (IF stage = "free" THEN MaxLate ELSE late)

Scans == vtlist # <<>> /\ stage = "scan" => Gone <= FirstDue + Slack + MaxLate + late

\* While the alarm is set up: it is tried again as often as the section lasts.
Sets ==
    stage \in {"write", "check"} =>
        /\ al.delay = al.target /\ al.target >= TimeDelta
        /\ al.first => al.target > MaxLate /\ al.cur = TimeDelta
        /\ al.cur >= TimeDelta /\ Since <= late /\ al.cur + Since <= TimeDelta + late
        /\ Gone < FirstDue + late
        /\ Gone - Since + al.target <= FirstDue + Slack
        /\ stage = "check" => ccr = After(al.base, al.target)

Timely == Ages /\ Stages /\ AlarmOn /\ Waits /\ Scans /\ Sets

TimesAreTicks == TInv =>
    Gone \in Times /\ Ahead \in Times /\ Since \in Times
    /\ time \in Times /\ lasttime \in Times /\ ccr \in Times /\ al.base \in Times

\* The times of the state and what is between them are inside the width.
LEMMA TimesTicks == TimesAreTicks
<1> SUFFICES ASSUME TInv PROVE Gone \in Times /\ Ahead \in Times /\ Since \in Times
             /\ time \in Times /\ lasttime \in Times /\ ccr \in Times /\ al.base \in Times
  BY DEF TimesAreTicks
<1>1. /\ time \in Times /\ lasttime \in Times /\ ccr \in Times /\ al.base \in Times
      /\ time \in Int /\ lasttime \in Int /\ ccr \in Int /\ al.base \in Int
  BY DEF TInv, Alarms, Times
<1> QED BY <1>1, ElapsedType DEF Gone, Ahead, Since, Times

\* The same after a step.
LEMMA TimesTicksNext == TimesAreTicks'
BY TimesTicks, PTL

\* The first timer is one of them.
LEMMA FirstIsOne ==
    ASSUME Lists', vtlist' # <<>>
    PROVE  /\ \E h \in Armed' : FirstDue' = Due(h)'
           /\ FirstDue' \in Times /\ \A u \in Armed' : FirstDue' <= Due(u)'
<1>1. PICK h : h = Head(vtlist')
  OBVIOUS
<1>2. h \in Armed' /\ FirstDue' \in Times /\ \A u \in Armed' : FirstDue' <= Due(u)'
  BY <1>1, FirstLeastNext DEF FirstIsLeast
<1>3. FirstDue' = Due(h)'
  BY <1>1 DEF FirstDue
<1> QED BY <1>2, <1>3

\* The section is left with an alarm that comes in time.
LEMMA TimelyFree ==
    ASSUME TInv, Leave, Ages',
           vtlist' # <<>> => /\ on'
                             /\ \/ Coming'
                                \/ hit' /\ Gone' <= FirstDue' + Slack + MaxLate
    PROVE  Timely'
<1>1. owner' = None /\ stage' = "free" /\ late' = 0
  BY DEF Leave
<1>2. Stages' /\ AlarmOn' /\ Scans' /\ Sets'
  BY <1>1 DEF Stages, AlarmOn, Scans, Sets
<1>3. Waits'
  BY <1>1 DEF Waits, Slack
<1> QED BY <1>2, <1>3 DEF Timely

\* An alarm is about to be set x ticks from now.
LEMMA TimelyWrite ==
    ASSUME TInv, Stages, owner # None, NEW x \in Nat, NEW b \in BOOLEAN,
           stage' = "write", Stay, al' = AlarmIn(x, b), time' = time,
           vtlist' # <<>>, Ages', on' \/ b, b => x > MaxLate /\ x >= TimeDelta,
           Gone' \in Times, FirstDue' \in Times,
           Gone' < FirstDue' + late, Gone' + Safe(x) <= FirstDue' + Slack
    PROVE  Timely'
<1>1. owner' = owner /\ late' = late /\ late \in Nat
  BY DEF Stay, TInv
<1>2. Since' = 0
  <2>1. Since' = Elapsed(time, time)
    BY DEF Since, AlarmIn
  <2>2. time \in 0 .. Modulus - 1
    BY DEF TInv, Times
  <2> QED BY <2>1, <2>2, ElapsedIs
<1>3. /\ al'.delay = Safe(x) /\ al'.target = Safe(x) /\ al'.cur = TimeDelta /\ al'.first = b
  BY DEF AlarmIn
<1>4. Safe(x) >= TimeDelta /\ (b => Safe(x) > MaxLate) /\ Safe(x) \in Nat
  BY Sizes DEF Safe
<1>5. Stages' /\ AlarmOn' /\ Scans' /\ Waits'
  BY <1>1, <1>3 DEF Stages, AlarmOn, Scans, Waits
<1>6. Gone' - Since' + al'.target <= FirstDue' + Slack'
  BY <1>2, <1>3, <1>4, Sizes DEF Times, Slack
<1>7. al'.cur >= TimeDelta /\ Since' <= late' /\ al'.cur + Since' <= TimeDelta + late'
  BY <1>1, <1>2, <1>3, Sizes
<1>8. Sets'
  BY <1>1, <1>3, <1>4, <1>6, <1>7 DEF Sets
<1> QED BY <1>5, <1>8 DEF Timely

\* A delay that is not cut counts from lasttime.
LEMMA NotCut ==
    ASSUME TInv, NEW d \in Delays, Gone + d < Modulus
    PROVE  FromLast(d) = Gone + d
<1>1. Gone \in Times /\ d \in Times
  BY Sizes, TimesTicks DEF TimesAreTicks
<1>2. After(Gone, d) = Gone + d
  BY <1>1, AfterIs DEF Times
<1> QED BY <1>1, <1>2, Sizes DEF FromLast, Gone, Times

\* The alarm is set for a timer that becomes the first, and stays for one that does not.
LEMMA TimelySleep ==
    ASSUME TInv, TInv', IInv, Timely, Young, NEW t \in Thread, NEW s \in Blocking,
           NEW d \in Delays, SleepTimeout(t, s, d)
    PROVE  Timely'
<1>1. /\ time' = time /\ ccr' = ccr /\ on' = on /\ hit' = hit
      /\ owner = t /\ stage = "enter" /\ owner # None
  BY DEF SleepTimeout, hw, Timely, Stages
<1>2. /\ Gone \in Times /\ Gone' \in Times /\ Ahead' = Ahead /\ Ahead \in Times
  BY <1>1, TimesTicks, TimesTicksNext DEF TimesAreTicks, Ahead
<1>3. /\ Lists' /\ Armed' = Armed \cup {t} /\ vtlist' # <<>>
      /\ vtlist = <<>> => lasttime' = time /\ Due(t)' = d
      /\ vtlist # <<>> => /\ lasttime' = lasttime /\ Due(t)' = FromLast(d)
                          /\ \A u \in Armed : Due(u)' = Due(u)
  BY SleepDues
<1>4. /\ \E h \in Armed' : FirstDue' = Due(h)'
      /\ FirstDue' \in Times /\ \A u \in Armed' : FirstDue' <= Due(u)'
  BY <1>3, FirstIsOne
<1>5. d \in Nat /\ d >= TimeDelta /\ d > MaxLate /\ d <= Half - 1 /\ Safe(d) = d
  BY Sizes DEF Half, Safe
<1>6. CASE vtlist = <<>>
  <2>1. Armed = {}
    BY <1>6 DEF Armed, ToSet
  <2>2. Gone' = 0
    <3>1. Gone' = Elapsed(time, time) /\ time \in 0 .. Modulus - 1
      BY <1>1, <1>3, <1>6 DEF Gone, TInv, Times
    <3> QED BY <3>1, ElapsedIs
  <2>3. FirstDue' = d
    BY <1>3, <1>4, <1>6, <2>1
  <2>4. Ages'
    <3>1. Armed' = {t} /\ Due(t)' = d
      BY <1>3, <1>6, <2>1
    <3>2. d <= Gone' + Half - 1
      BY <1>5, <2>2, Sizes DEF Half
    <3>3. ASSUME NEW u \in Armed' PROVE Due(u)' <= Gone' + Half - 1
      BY <3>1, <3>2
    <3> QED BY <3>3 DEF Ages, Half
  <2>5. stage' = "write" /\ Stay /\ al' = AlarmIn(d, TRUE)
    BY <1>6 DEF SleepTimeout, InsertFirst, Enqueue
  <2>6. Gone' < FirstDue' + late /\ Gone' + Safe(d) <= FirstDue' + Slack
    BY <1>5, <2>2, <2>3, Sizes DEF Slack, TInv
  <2> QED BY <1>1, <1>2, <1>3, <1>4, <1>5, <2>4, <2>5, <2>6, TimelyWrite DEF Timely
<1>7. CASE vtlist # <<>>
  <2>1. Gone + d < Modulus
    BY <1>7 DEF Young
  <2>2. Gone' = Gone
    BY <1>1, <1>3, <1>7 DEF Gone
  <2>3. Due(t)' = Gone + d /\ FromLast(d) = Gone + d
    BY <1>3, <1>7, <2>1, NotCut
  <2>4. /\ FirstDue \in Times /\ FirstDue = delta[Head(vtlist)] /\ Head(vtlist) \in Armed
        /\ \A u \in Armed : Due(u) \in Times /\ FirstDue <= Due(u)
    BY <1>7, FirstLeast DEF FirstIsLeast, TInv
  <2>5. FirstDue' = IF Gone + d < FirstDue THEN Gone + d ELSE FirstDue
    <3>1. PICK h \in Armed \cup {t} : FirstDue' = Due(h)'
      BY <1>3, <1>4
    <3>2. FirstDue' <= Gone + d
      BY <1>3, <1>4, <2>3
    <3>3. FirstDue' <= FirstDue
      <4>1. PICK g \in Armed : g = Head(vtlist)
        BY <2>4
      <4>2. FirstDue' <= Due(g)' /\ Due(g)' = Due(g) /\ Due(g) = FirstDue
        BY <1>3, <1>4, <1>7, <4>1 DEF FirstDue
      <4> QED BY <4>2
    <3>4. FirstDue' = Gone + d \/ FirstDue' >= FirstDue
      BY <1>3, <1>7, <2>3, <2>4, <3>1
    <3> QED BY <1>2, <1>4, <1>5, <2>4, <3>2, <3>3, <3>4 DEF Times
  <2>6. Ages'
    <3>1. Due(t)' <= Gone' + Half - 1
      BY <1>2, <1>5, <2>2, <2>3, Sizes DEF Half, Times
    <3>2. ASSUME NEW u \in Armed PROVE Due(u)' <= Gone' + Half - 1
      BY <1>3, <1>7, <2>2 DEF Timely, Ages
    <3>3. ASSUME NEW u \in Armed' PROVE Due(u)' <= Gone' + Half - 1
      BY <1>3, <3>1, <3>2
    <3> QED BY <3>3 DEF Ages, Half
  <2>7. on
    BY <1>1, <1>7 DEF Timely, AlarmOn
  <2>8. CASE Sooner(d) /\ stage' = "write" /\ al' = AlarmIn(d, FALSE) /\ Stay
    <3>1. Gone + d < FirstDue
      BY <2>3, <2>4, <2>8 DEF Sooner
    <3>2. Gone' < FirstDue' + late /\ Gone' + Safe(d) <= FirstDue' + Slack
      BY <1>2, <1>5, <2>2, <2>5, <3>1, Sizes DEF Slack, TInv, Times
    <3> QED BY <1>1, <1>2, <1>3, <1>4, <1>5, <2>6, <2>7, <2>8, <3>2, TimelyWrite DEF Timely
  <2>9. CASE ~Sooner(d) /\ Leave
    <3>1. FirstDue' = FirstDue
      BY <2>3, <2>4, <2>5, <2>9 DEF Sooner
    <3>2. Coming \/ (hit /\ Gone <= FirstDue + Slack + late)
      BY <1>1, <1>7 DEF Timely, Waits
    <3>3. Coming => Coming'
      BY <1>2, <2>2, <3>1 DEF Coming, Slack
    <3>4. Gone <= FirstDue + Slack + late => Gone' <= FirstDue' + Slack + MaxLate
      <4>1. late \in Nat /\ late <= MaxLate
        BY Sizes DEF TInv
      <4>2. Gone \in Int /\ FirstDue \in Int /\ Slack \in Int
        BY <1>2, <2>4, Sizes DEF Slack, Times
      <4> QED BY <2>2, <3>1, <4>1, <4>2, Sizes
    <3> QED BY <1>1, <2>6, <2>7, <2>9, <3>2, <3>3, <3>4, TimelyFree
  <2> QED BY <1>7, <2>8, <2>9 DEF SleepTimeout, InsertFirst, Enqueue
<1> QED BY <1>6, <1>7

\* The timer taken back leaves the others with an alarm that is not late: it moves to
\* the next timer, or one that is early, or requested, stays.
LEMMA TimelyResume ==
    ASSUME TInv, TInv', Timely, NEW t \in Thread, Resume(t)
    PROVE  Timely'
<1>1. /\ time' = time /\ ccr' = ccr /\ hit' = hit /\ on' \in {on, StaysOn}
      /\ owner = t /\ stage = "enter" /\ owner # None
      /\ t \notin Armed => on' = on
  BY DEF Resume, hw, Timely, Stages, ResetsTimer
<1>2. /\ Lists' /\ Armed' = Armed \ {t} /\ lasttime' = lasttime
      /\ \A u \in Armed' : Due(u)' = Due(u)
      /\ t \in Armed => Len(vtlist') = Len(vtlist) - 1
  BY ResumeDues
<1>3. /\ Gone \in Times /\ Gone' = Gone /\ Ahead' = Ahead /\ Ahead \in Times
  BY <1>1, <1>2, TimesTicks DEF TimesAreTicks, Ahead, Gone
<1>4. Ages'
  BY <1>2, <1>3 DEF Ages, Timely, Half
<1>5. ASSUME vtlist' # <<>>
      PROVE  /\ vtlist # <<>> /\ on' /\ FirstDue \in Times /\ FirstDue' \in Times
             /\ FirstDue <= FirstDue'
             /\ Coming' \/ (hit' /\ Gone' <= FirstDue' + Slack + MaxLate)
  <2>1. /\ \E h \in Armed' : FirstDue' = Due(h)'
        /\ FirstDue' \in Times /\ \A u \in Armed' : FirstDue' <= Due(u)'
    BY <1>2, <1>5, FirstIsOne
  <2>2. vtlist # <<>>
    BY <1>2, <2>1 DEF Armed, ToSet
  <2>3. FirstDue \in Times /\ \A u \in Armed : Due(u) \in Times /\ FirstDue <= Due(u)
    BY <2>2, FirstLeast DEF FirstIsLeast, TInv
  <2>4. FirstDue <= FirstDue'
    BY <1>2, <2>1, <2>3
  <2>5. on'
    <3>1. on
      BY <1>1, <2>2 DEF Timely, AlarmOn
    <3>2. t \in Armed => Len(vtlist) > 1
      <4>1. Len(vtlist') \in Nat /\ Len(vtlist') > 0 /\ Len(vtlist) \in Nat
        BY <1>2, <1>5 DEF Lists, TInv
      <4> QED BY <1>2, <4>1
    <3> QED BY <1>1, <3>1, <3>2 DEF StaysOn
  <2>6. Coming \/ (hit /\ Gone <= FirstDue + Slack + late)
    BY <1>1, <2>2 DEF Timely, Waits
  <2>7. Coming => Coming'
    BY <1>3, <2>1, <2>3, <2>4, Sizes DEF Coming, Slack, Times
  <2>8. Gone <= FirstDue + Slack + late => Gone' <= FirstDue' + Slack + MaxLate
    BY <1>3, <2>1, <2>3, <2>4, Sizes DEF Slack, TInv, Times
  <2> QED BY <1>1, <2>1, <2>2, <2>3, <2>4, <2>5, <2>6, <2>7, <2>8
<1>6. CASE Leave
  BY <1>4, <1>5, <1>6, TimelyFree
<1>7. CASE /\ AlarmMoves(t) /\ stage' = "write" /\ Stay
           /\ al' = AlarmIn(Due(vtlist[2]) - Elapsed(lasttime, time), FALSE)
  <2>1. /\ vtlist[2] \in Armed \ {Head(vtlist)} /\ vtlist # <<>>
        /\ \A u \in Armed \ {Head(vtlist)} : Due(vtlist[2]) <= Due(u)
    BY <1>7, SecondLeast DEF AlarmMoves, TInv
  <2>2. Head(vtlist) = t /\ Gone < Due(vtlist[2]) /\ t \in Armed
    BY <1>7, <2>1, FirstLeast DEF AlarmMoves, IsFirst, Gone, FirstIsLeast, TInv
  <2>3. PICK s \in Armed : s = vtlist[2]
    BY <2>1
  <2>4. s \in Armed' /\ Due(s)' = Due(s) /\ Due(s) \in Times /\ vtlist' # <<>>
    <3>1. s \in Armed' /\ Due(s)' = Due(s) /\ Due(s) \in Times
      BY <1>2, <2>1, <2>2, <2>3 DEF TInv, Lists
    <3> QED BY <3>1 DEF Armed, ToSet
  <2>5. /\ \E h \in Armed' : FirstDue' = Due(h)'
        /\ FirstDue' \in Times /\ \A u \in Armed' : FirstDue' <= Due(u)'
    BY <1>2, <2>4, FirstIsOne
  <2>6. FirstDue' = Due(s)
    <3>1. PICK h \in Armed \ {t} : FirstDue' = Due(h)'
      BY <1>2, <2>5
    <3>2. Due(h)' = Due(h) /\ Due(s) <= Due(h) /\ FirstDue' <= Due(s)
      BY <1>2, <2>1, <2>2, <2>3, <2>4, <2>5, <3>1
    <3> QED BY <2>4, <2>5, <3>1, <3>2 DEF Times
  <2>7. PICK x \in Nat : x = Due(s) - Gone /\ x > 0
    BY <1>3, <2>2, <2>3, <2>4 DEF Times
  <2>8. al' = AlarmIn(x, FALSE)
    BY <1>7, <2>3, <2>7 DEF Gone
  <2>9. Gone' < FirstDue' + late /\ Gone' + Safe(x) <= FirstDue' + Slack
    BY <1>3, <2>4, <2>6, <2>7, Sizes DEF Slack, TInv, Times, Safe
  <2>10. on'
    BY <1>5, <2>4
  <2> QED BY <1>1, <1>3, <1>4, <1>7, <2>4, <2>5, <2>8, <2>9, <2>10, TimelyWrite DEF Timely
<1> QED BY <1>6, <1>7 DEF Resume

\* The timers behind the one that went off are due as much later as lasttime moves.
LEMMA TimelyFire == ASSUME TInv, TInv', Timely, TickFire PROVE Timely'
<1>1. /\ Lists' /\ vtlist # <<>> /\ Armed' = Armed \ {Head(vtlist)}
      /\ Len(vtlist') = Len(vtlist) - 1
      /\ lasttime' = After(lasttime, FirstDue) /\ FirstDue <= Gone
      /\ \A u \in Armed' : Due(u)' = Due(u) - FirstDue
  BY FireDues DEF Gone
<1>2. /\ time' = time /\ ccr' = ccr /\ hit' = hit /\ on' = StaysOn
      /\ owner' = owner /\ stage' = stage /\ stage = "scan" /\ late' = late
  BY DEF TickFire, sect
<1>3. FirstDue \in Times /\ \A u \in Armed : Due(u) \in Times /\ FirstDue <= Due(u)
  BY <1>1, FirstLeast DEF FirstIsLeast, TInv
<1>4. Gone \in Times /\ Gone' = Gone - FirstDue
  <2>1. Gone \in Times /\ lasttime \in Times /\ time \in Times
    BY TimesTicks DEF TimesAreTicks
  <2>2. Elapsed(After(lasttime, FirstDue), time) = Gone - FirstDue
    BY <1>1, <1>3, <2>1, Between DEF Times, Gone
  <2> QED BY <1>1, <1>2, <2>1, <2>2 DEF Gone
<1>5. Ages'
  BY <1>1, <1>3, <1>4, Sizes DEF Ages, Timely, Half, Times
<1>6. Scans'
  <2>1. SUFFICES ASSUME vtlist' # <<>> PROVE Gone' <= FirstDue' + Slack + MaxLate + late
    BY <1>2 DEF Scans, Slack
  <2>2. PICK h \in Armed' : FirstDue' = Due(h)' /\ FirstDue' \in Times
    BY <1>1, <2>1, FirstIsOne
  <2>3. FirstDue' = Due(h) - FirstDue /\ Due(h) \in Times /\ FirstDue <= Due(h)
    BY <1>1, <1>3, <2>2
  <2>4. Gone <= FirstDue + Slack + MaxLate + late
    BY <1>1, <1>2 DEF Timely, Scans
  <2> QED BY <1>3, <1>4, <2>3, <2>4, Sizes DEF Times, Slack, TInv
<1>7. AlarmOn'
  <2>1. SUFFICES ASSUME vtlist' # <<>> PROVE on'
    BY DEF AlarmOn
  <2>2. on
    BY <1>1, <1>2 DEF Timely, AlarmOn
  <2>3. Len(vtlist') \in Nat /\ Len(vtlist') > 0 /\ Len(vtlist) \in Nat
    BY <1>1, <2>1 DEF Lists, TInv
  <2>4. Len(vtlist) > 1
    BY <1>1, <2>3
  <2> QED BY <1>2, <2>2, <2>4 DEF StaysOn
<1>8. Stages' /\ Waits' /\ Sets'
  BY <1>2 DEF Timely, Stages, Waits, Sets
<1> QED BY <1>5, <1>6, <1>7, <1>8 DEF Timely

\* What a step that leaves the list and the clock alone keeps.
LEMMA SameTimes ==
    ASSUME TInv, UNCHANGED <<time, lasttime, vtlist, delta>>
    PROVE  /\ Gone' = Gone /\ Gone \in Times /\ Half' = Half /\ Slack' = Slack
           /\ vtlist # <<>> => FirstDue' = FirstDue /\ FirstDue \in Times
           /\ Ages => Ages'
<1>1. Gone' = Gone /\ Gone \in Times
  BY TimesTicks DEF TimesAreTicks, Gone
<1>2. /\ Armed' = Armed /\ \A u \in Armed : Due(u)' = Due(u)
      /\ vtlist # <<>> => FirstDue' = FirstDue
  BY DuesStay DEF TInv
<1>3. vtlist # <<>> => FirstDue \in Times
  BY FirstLeast DEF FirstIsLeast, TInv
<1> QED BY <1>1, <1>2, <1>3 DEF Ages, Half, Slack

\* Time goes on, and an alarm it meets is requested.
LEMMA TimelyAdvance == ASSUME TInv, Timely, Young, Advance PROVE Timely'
<1>1. /\ time' = After(time, 1) /\ ccr' = ccr /\ on' = on /\ al' = al /\ owner' = owner
      /\ stage' = stage /\ UNCHANGED <<lasttime, vtlist, delta>>
      /\ hit' = (hit \/ time' = ccr)
  BY DEF Advance, list
<1>2. /\ Gone \in Times /\ Ahead \in Times /\ Since \in Times
      /\ time \in Times /\ lasttime \in Times /\ ccr \in Times /\ al.base \in Times
  BY TimesTicks DEF TimesAreTicks
<1>3. /\ Armed' = Armed /\ \A u \in Armed : Due(u)' = Due(u)
      /\ vtlist # <<>> => FirstDue' = FirstDue /\ FirstDue \in Times
  BY <1>1, DuesStay, FirstLeast DEF FirstIsLeast, TInv
<1>4. /\ late \in Nat /\ late <= MaxLate /\ late' \in Nat /\ late' <= MaxLate
      /\ late' = (IF stage = "free" THEN late ELSE late + 1)
      /\ stage = "free" => late = 0 /\ ~(on /\ hit)
  BY Sizes DEF Advance, Timely, Stages, TInv, Pending
<1>5. vtlist # <<>> => Gone + 1 < Modulus
  <2>1. SUFFICES ASSUME vtlist # <<>> PROVE Gone + 1 < Modulus
    OBVIOUS
  <2>2. PICK d \in Delays : TRUE
    BY <2>1 DEF TInv
  <2>3. Gone + d < Modulus /\ d \in Nat /\ d >= 1
    BY <2>1, Sizes DEF Young
  <2> QED BY <1>2, <2>3, Sizes DEF Times
<1>6. vtlist # <<>> => Gone' = Gone + 1
  BY <1>1, <1>2, <1>5, Ticks DEF Gone, Times
<1>7. Ahead >= 1 => Ahead' = Ahead - 1 /\ (Ahead = 1 => hit')
  BY <1>1, <1>2, Ticks DEF Ahead, Times
<1>8. Since + 1 < Modulus => Since' = Since + 1
  BY <1>1, <1>2, Ticks DEF Since, Times
<1>9. Ages'
  <2>1. ASSUME NEW u \in Armed' PROVE Due(u)' <= Gone' + Half - 1
    <3>1. u \in Armed /\ Due(u)' = Due(u) /\ Due(u) <= Gone + Half - 1 /\ Due(u) \in Times
      BY <1>3, <2>1 DEF Timely, Ages, TInv, Lists
    <3>2. vtlist # <<>>
      BY <3>1 DEF Armed, ToSet
    <3> QED BY <1>2, <1>6, <3>1, <3>2, Sizes DEF Half, Times
  <2> QED BY <2>1 DEF Ages, Half
<1>10. Stages' /\ AlarmOn'
  BY <1>1, <1>4 DEF Timely, Stages, AlarmOn
<1>11. Waits'
  <2>1. SUFFICES ASSUME vtlist # <<>>, stage \in {"free", "enter"}
                 PROVE  \/ Coming'
                        \/ hit' /\ Gone' <= FirstDue' + Slack
                                        + (IF stage = "free" THEN MaxLate ELSE late')
    BY <1>1 DEF Waits, Slack
  <2>2. \/ Coming
        \/ hit /\ Gone <= FirstDue + Slack + (IF stage = "free" THEN MaxLate ELSE late)
    BY <2>1 DEF Timely, Waits
  <2>3. Gone' = Gone + 1 /\ FirstDue' = FirstDue /\ FirstDue \in Times
    BY <1>3, <1>6, <2>1
  <2>4. CASE Coming
    <3>1. Ahead >= 1 /\ Gone + Ahead <= FirstDue + Slack
      BY <2>4 DEF Coming
    <3>2. CASE Ahead = 1
      BY <1>2, <1>4, <1>7, <2>3, <3>1, <3>2, Sizes DEF Slack, Times
    <3>3. CASE Ahead # 1
      <4>1. Ahead' = Ahead - 1 /\ Ahead' >= 1
        BY <1>2, <1>7, <3>1, <3>3 DEF Times
      <4>2. Gone' + Ahead' <= FirstDue' + Slack
        BY <1>2, <2>3, <3>1, <4>1, Sizes DEF Slack, Times
      <4> QED BY <4>1, <4>2 DEF Coming, Slack
    <3> QED BY <3>2, <3>3
  <2>5. CASE hit /\ Gone <= FirstDue + Slack + (IF stage = "free" THEN MaxLate ELSE late)
    <3>1. stage # "free"
      BY <1>4, <2>1, <2>5 DEF Timely, AlarmOn
    <3>2. Gone <= FirstDue + Slack + late /\ hit'
      BY <1>1, <2>5, <3>1
    <3>3. Gone' <= FirstDue' + Slack + late'
      BY <1>2, <1>4, <2>3, <3>1, <3>2, Sizes DEF Slack, Times
    <3> QED BY <3>1, <3>2, <3>3
  <2> QED BY <2>2, <2>4, <2>5
<1>12. Scans'
  <2>1. SUFFICES ASSUME vtlist # <<>>, stage = "scan"
                 PROVE  Gone' <= FirstDue' + Slack + MaxLate + late'
    BY <1>1 DEF Scans, Slack
  <2>2. Gone <= FirstDue + Slack + MaxLate + late
    BY <2>1 DEF Timely, Scans
  <2>3. late' = late + 1 /\ Gone' = Gone + 1 /\ FirstDue' = FirstDue /\ FirstDue \in Times
    BY <1>3, <1>4, <1>6, <2>1
  <2> QED BY <1>2, <1>4, <2>2, <2>3, Sizes DEF Slack, Times
<1>13. Sets'
  <2>1. SUFFICES ASSUME stage \in {"write", "check"} PROVE Sets'
    BY <1>1 DEF Sets
  <2>2. /\ al.delay = al.target /\ al.target >= TimeDelta
        /\ al.first => al.target > MaxLate /\ al.cur = TimeDelta
        /\ al.cur >= TimeDelta /\ Since <= late /\ al.cur + Since <= TimeDelta + late
        /\ Gone < FirstDue + late
        /\ Gone - Since + al.target <= FirstDue + Slack
        /\ stage = "check" => ccr = After(al.base, al.target)
    BY <2>1 DEF Timely, Sets
  <2>3. vtlist # <<>> /\ late' = late + 1
    BY <1>4, <2>1 DEF Timely, Stages
  <2>4. Gone' = Gone + 1 /\ FirstDue' = FirstDue /\ FirstDue \in Times
    BY <1>3, <1>6, <2>3
  <2>5. Since' = Since + 1
    BY <1>2, <1>4, <1>8, <2>2, Sizes DEF Times
  <2>6. al.target \in Nat /\ al.cur \in Nat
    BY DEF TInv, Alarms
  <2>7. /\ Since' <= late' /\ al.cur + Since' <= TimeDelta + late'
        /\ Gone' < FirstDue' + late'
    BY <1>2, <1>4, <2>2, <2>3, <2>4, <2>5, <2>6, Sizes DEF Times
  <2>8. Gone' - Since' + al.target <= FirstDue' + Slack
    BY <1>2, <2>2, <2>4, <2>5, <2>6, Sizes DEF Slack, Times
  <2> QED BY <1>1, <2>2, <2>7, <2>8 DEF Sets, Slack
<1> QED BY <1>9, <1>10, <1>11, <1>12, <1>13 DEF Timely

\* A thread gets on: no interrupt is requested, so the alarm is still to come.
LEMMA TimelyLock == ASSUME TInv, Timely, NEW t \in Thread, Lock(t) PROVE Timely'
<1>1. /\ UNCHANGED <<time, lasttime, vtlist, delta, ccr, on, hit, al, late>>
      /\ owner' = t /\ stage' = "enter" /\ stage = "free" /\ ~(on /\ hit) /\ t # None
  BY TimersAssumption DEF Lock, hw, list, Timely, Stages, Pending
<1>2. /\ Gone' = Gone /\ Slack' = Slack /\ Ages' /\ Ahead' = Ahead
      /\ vtlist # <<>> => FirstDue' = FirstDue
  BY <1>1, SameTimes DEF Timely, Ahead
<1>3. vtlist # <<>> => Coming
  BY <1>1 DEF Timely, Waits, AlarmOn
<1>4. Waits'
  BY <1>1, <1>2, <1>3 DEF Waits, Coming
<1>5. Stages' /\ AlarmOn' /\ Scans' /\ Sets'
  BY <1>1 DEF Timely, Stages, AlarmOn, Scans, Sets
<1> QED BY <1>2, <1>4, <1>5 DEF Timely

\* The interrupt is served at the end of the section that masked it.
LEMMA TimelyInterrupt == ASSUME TInv, Timely, AlarmInterrupt PROVE Timely'
<1>1. /\ UNCHANGED <<time, lasttime, vtlist, delta, ccr, on, al, late>>
      /\ owner' = "isr" /\ stage' = "scan" /\ stage = "free" /\ late = 0 /\ "isr" # None
  BY TimersAssumption DEF AlarmInterrupt, list, Timely, Stages
<1>2. /\ Gone' = Gone /\ Gone \in Times /\ Ages' /\ Ahead \in Times
      /\ vtlist # <<>> => FirstDue' = FirstDue /\ FirstDue \in Times
  BY <1>1, SameTimes, TimesTicks DEF TimesAreTicks, Timely
<1>3. Scans'
  <2>1. SUFFICES ASSUME vtlist # <<>> PROVE Gone' <= FirstDue' + Slack + MaxLate + late
    BY <1>1 DEF Scans, Slack
  <2>2. Coming \/ Gone <= FirstDue + Slack + MaxLate
    BY <1>1, <2>1 DEF Timely, Waits
  <2>3. Coming => Gone <= FirstDue + Slack + MaxLate
    BY <1>2, <2>1, Sizes DEF Coming, Slack, Times
  <2>4. Gone <= FirstDue + Slack + MaxLate
    BY <2>2, <2>3
  <2> QED BY <1>1, <1>2, <2>1, <2>4, Sizes DEF Slack, Times
<1>4. Stages' /\ AlarmOn' /\ Waits' /\ Sets'
  BY <1>1 DEF Timely, Stages, AlarmOn, Waits, Sets
<1> QED BY <1>2, <1>3, <1>4 DEF Timely

\* The alarm is written, and enabled if it was not.
LEMMA TimelyWritten == ASSUME TInv, Timely, WriteAlarm PROVE Timely'
<1>1. /\ UNCHANGED <<time, lasttime, vtlist, delta, owner, al, late>>
      /\ ccr' = After(al.base, al.target) /\ on' = (on \/ StartsAlarm)
      /\ stage = "write" /\ stage' = "check"
  BY DEF WriteAlarm, list
<1>2. /\ Gone' = Gone /\ Slack' = Slack /\ Ages' /\ Since' = Since
      /\ vtlist # <<>> => FirstDue' = FirstDue
  BY <1>1, SameTimes DEF Timely, Since
<1>3. vtlist # <<>>
  BY <1>1 DEF Timely, Stages
<1>4. Sets'
  BY <1>1, <1>2, <1>3 DEF Timely, Sets
<1>5. AlarmOn'
  BY <1>1 DEF Timely, AlarmOn, Sets, StartsAlarm
<1>6. Stages' /\ Waits' /\ Scans'
  BY <1>1 DEF Timely, Stages, Waits, Scans
<1> QED BY <1>2, <1>4, <1>5, <1>6 DEF Timely

\* The deadline skip detection: an alarm that was met is set again, later by a
\* tick for every retry.
LEMMA TimelyChecked == ASSUME TInv, TInv', Timely, CheckAlarm PROVE Timely'
<1>1. /\ UNCHANGED <<time, lasttime, vtlist, delta, ccr, on, hit>>
      /\ stage = "check" /\ vtlist # <<>> /\ owner # None
  BY DEF CheckAlarm, hw, list, Timely, Stages
<1>2. /\ Gone' = Gone /\ Gone \in Times /\ Ages' /\ Slack' = Slack
      /\ FirstDue' = FirstDue /\ FirstDue \in Times
  BY <1>1, SameTimes DEF Timely
<1>3. /\ Since \in Times /\ Ahead \in Times
      /\ time \in Times /\ al.base \in Times
  BY TimesTicks DEF TimesAreTicks
<1>4. /\ al.delay = al.target /\ al.target >= TimeDelta
      /\ al.first => al.target > MaxLate /\ al.cur = TimeDelta
      /\ al.cur >= TimeDelta /\ Since <= late /\ al.cur + Since <= TimeDelta + late
      /\ Gone < FirstDue + late
      /\ Gone - Since + al.target <= FirstDue + Slack
      /\ ccr = After(al.base, al.target)
  BY <1>1 DEF Timely, Sets
<1>5. on
  BY <1>1 DEF Timely, AlarmOn
<1>6. /\ al.target \in Nat /\ al.cur \in Nat /\ late \in Nat /\ late <= MaxLate
      /\ al.first \in BOOLEAN
  BY Sizes DEF TInv, Alarms
<1>7. CASE ~Skipped /\ Leave
  <2>1. Since < al.target
    BY <1>3, <1>4, <1>6, <1>7 DEF Skipped, Since, Times
  <2>2. al.target \in Times
    <3>1. FirstDue <= Gone + Half - 1
      BY <1>1, FirstLeast DEF FirstIsLeast, TInv, Timely, Ages, FirstDue
    <3>2. al.target <= Half - 1 + Slack + MaxLate
      BY <1>2, <1>3, <1>4, <1>6, <3>1, Sizes DEF Half, Slack, Times
    <3>3. Half - 1 + Slack + MaxLate <= Modulus - 1
      BY Sizes DEF Half, Slack
    <3> QED BY <1>6, <3>2, <3>3, Sizes DEF Half, Slack, Times
  <2>3. Ahead = al.target - Since
    <3>1. PICK b \in Times, d \in Times : b = al.base /\ d = al.target
      BY <1>3, <2>2
    <3>2. d >= Elapsed(b, time)
      BY <1>3, <2>1, <3>1 DEF Since, Times
    <3>3. Elapsed(time, After(b, d)) = d - Elapsed(b, time)
      BY <1>3, <3>2, Between DEF Times
    <3> QED BY <1>4, <3>1, <3>3 DEF Since, Ahead
  <2>4. Ahead' = Ahead
    BY <1>1 DEF Ahead
  <2>5. Ahead >= 1 /\ Gone + Ahead <= FirstDue + Slack
    BY <1>2, <1>3, <1>4, <1>6, <2>1, <2>3, Sizes DEF Slack, Times
  <2>6. Coming'
    BY <1>2, <2>4, <2>5 DEF Coming
  <2> QED BY <1>1, <1>2, <1>5, <1>7, <2>6, TimelyFree
<1>8. CASE Skipped /\ stage' = "write" /\ al' = Relaxed /\ Stay
  <2>1. Since >= al.target
    BY <1>4, <1>8 DEF Skipped, Since
  <2>2. ~al.first
    BY <1>3, <1>4, <1>6, <2>1, Sizes DEF Times
  <2>3. /\ al'.first = al.first /\ al'.cur = al.cur + 1 /\ al'.target = al.cur + 1
        /\ al'.base = time /\ al'.delay = al.cur + 1
    BY <1>8, <2>2, RelaxedType
  <2>4. owner' = owner /\ late' = late
    BY <1>8 DEF Stay
  <2>5. Since' = 0
    <3>1. Since' = Elapsed(time, time) /\ time \in 0 .. Modulus - 1
      BY <1>1, <1>3, <2>3 DEF Since, Times
    <3> QED BY <3>1, ElapsedIs
  <2>6. Since >= 1 /\ al.cur + 1 <= TimeDelta + late
    BY <1>3, <1>4, <1>6, <2>1, Sizes DEF Times
  <2>7. al.cur + 1 >= TimeDelta
    BY <1>4, <1>6, <1>8, Sizes
  <2>8. Gone + (al.cur + 1) <= FirstDue + Slack
    BY <1>2, <1>4, <1>6, <2>6, Sizes DEF Slack, Times
  <2>9. Sets'
    <3>1. stage' = "write" /\ ~al'.first
      BY <1>8, <2>2, <2>3
    <3>2. al'.delay = al'.target /\ al'.target >= TimeDelta /\ al'.cur >= TimeDelta
      BY <2>3, <2>7
    <3>3. Since' <= late' /\ al'.cur + Since' <= TimeDelta + late'
      BY <1>6, <2>3, <2>4, <2>5, <2>6, Sizes
    <3>4. Gone' < FirstDue' + late'
      BY <1>2, <1>4, <2>4
    <3>5. Gone' - Since' + al'.target <= FirstDue' + Slack'
      BY <1>2, <1>6, <2>3, <2>5, <2>8, Sizes DEF Slack, Times
    <3> QED BY <3>1, <3>2, <3>3, <3>4, <3>5 DEF Sets
  <2>10. Stages' /\ AlarmOn' /\ Waits' /\ Scans'
    BY <1>1, <1>5, <1>8, <2>4 DEF Timely, Stages, AlarmOn, Waits, Scans
  <2> QED BY <1>2, <2>9, <2>10 DEF Timely
<1> QED BY <1>7, <1>8 DEF CheckAlarm

\* The scan ends at a timer that is not due: the alarm is set for it.
LEMMA TimelyScanEnds == ASSUME TInv, TInv', Timely, TickEnd PROVE Timely'
<1>1. /\ UNCHANGED <<time, lasttime, vtlist, delta, ccr, on, hit>>
      /\ stage = "scan" /\ owner # None
  BY DEF TickEnd, hw, list, Timely, Stages
<1>2. /\ Gone' = Gone /\ Gone \in Times /\ Ages' /\ Slack' = Slack
      /\ vtlist # <<>> => FirstDue' = FirstDue /\ FirstDue \in Times
  BY <1>1, SameTimes DEF Timely
<1>3. CASE vtlist = <<>> /\ Leave
  BY <1>1, <1>2, <1>3, TimelyFree
<1>4. CASE /\ vtlist # <<>> /\ stage' = "write" /\ Stay
           /\ al' = AlarmIn(delta[Head(vtlist)] - Elapsed(lasttime, time), FALSE)
  <2>1. FirstDue = delta[Head(vtlist)] /\ FirstDue \in Times
    BY <1>4, FirstLeast DEF FirstIsLeast, TInv
  <2>2. Gone < FirstDue
    BY <1>2, <1>4, <2>1 DEF TickEnd, FirstIsDue, Gone, Times
  <2>3. PICK x \in Nat : x = FirstDue - Gone /\ x > 0
    BY <1>2, <2>1, <2>2 DEF Times
  <2>4. al' = AlarmIn(x, FALSE)
    BY <1>4, <2>1, <2>3 DEF Gone
  <2>5. Gone' < FirstDue' + late /\ Gone' + Safe(x) <= FirstDue' + Slack
    <3>1. late \in Nat /\ Gone' = Gone /\ FirstDue' = FirstDue
      BY <1>2, <1>4, Sizes DEF TInv
    <3>2. Safe(x) = IF x < TimeDelta THEN TimeDelta ELSE x
      BY DEF Safe
    <3>3. PICK g \in Nat, f \in Nat : g = Gone /\ f = FirstDue
      BY <1>2, <2>1, Sizes DEF Times
    <3>4. g < f + late /\ x = f - g /\ g < f
      BY <2>2, <2>3, <3>1, <3>3
    <3>5. g + Safe(x) <= f + Slack
      BY <3>2, <3>4, Sizes DEF Slack
    <3> QED BY <3>1, <3>3, <3>4, <3>5
  <2>6. on'
    BY <1>1, <1>4 DEF Timely, AlarmOn
  <2> QED BY <1>1, <1>2, <1>4, <2>4, <2>5, <2>6, TimelyWrite DEF Timely
<1> QED BY <1>3, <1>4 DEF TickEnd

\* A step that leaves the clock, the list and the section alone.
LEMMA TimelyStays ==
    ASSUME TInv, Timely,
           UNCHANGED <<time, ccr, on, hit, lasttime, vtlist, delta, owner, stage, al, late>>
    PROVE  Timely'
<1>1. /\ Gone' = Gone /\ Ages' /\ Slack' = Slack
      /\ vtlist # <<>> => FirstDue' = FirstDue
  BY SameTimes DEF Timely
<1>2. Since' = Since /\ Ahead' = Ahead
  BY DEF Since, Ahead
<1>3. Stages' /\ AlarmOn' /\ Scans'
  BY <1>1 DEF Timely, Stages, AlarmOn, Scans
<1>4. Waits'
  BY <1>1, <1>2 DEF Timely, Waits, Coming
<1>5. Sets'
  BY <1>1, <1>2 DEF Timely, Sets, Stages
<1> QED BY <1>1, <1>3, <1>4, <1>5 DEF Timely

\* Every step keeps the parts, where no delay is cut.
LEMMA TimelyNext ==
    ASSUME TInv, TInv', IInv, Timely, Young, [Next]_vars PROVE Timely'
<1>1. ASSUME NEW t \in Thread, Answer(t) PROVE Timely'
  BY <1>1, TimelyStays DEF Answer, hw, list, sect
<1>2. CASE UNCHANGED vars
  BY <1>2, TimelyStays DEF vars, hw, list, sect
<1> QED
  BY <1>1, <1>2, TimelySleep, TimelyResume, TimelyFire, TimelyAdvance, TimelyLock,
     TimelyInterrupt, TimelyWritten, TimelyChecked, TimelyScanEnds DEF Next, Code, Blocking

\* And they hold at the start.
LEMMA TimelyInit == Init => Timely
<1> SUFFICES ASSUME Init PROVE Timely
  OBVIOUS
<1>1. vtlist = <<>> /\ Armed = {} /\ owner = None /\ stage = "free" /\ late = 0
  BY DEF Init, Armed, ToSet
<1> QED BY <1>1 DEF Timely, Ages, Stages, AlarmOn, Waits, Scans, Sets

\* In every state of Timely no timer is passed by more than it may.
LEMMA NotPassed ==
    ASSUME TInv, Timely, NEW u \in Armed
    PROVE  /\ Due(u) \in Times /\ Gone \in Times
           /\ Gone <= Due(u) + 4 * MaxLate + TimeDelta - 1
           /\ Due(u) <= Gone + Half - 1
<1>1. vtlist # <<>>
  BY DEF Armed, ToSet
<1>2. FirstDue \in Times /\ Due(u) \in Times /\ FirstDue <= Due(u)
  BY <1>1, FirstLeast DEF FirstIsLeast, TInv
<1>3. Gone \in Times /\ Ahead \in Times
  BY TimesTicks DEF TimesAreTicks
<1>4. late \in Nat /\ late <= MaxLate
  BY Sizes DEF TInv
<1>5. Gone <= FirstDue + Slack + 2 * MaxLate
  <2>1. CASE stage \in {"free", "enter"}
    <3>1. Coming \/ Gone <= FirstDue + Slack + MaxLate
      <4>1. \/ Coming
            \/ Gone <= FirstDue + Slack + (IF stage = "free" THEN MaxLate ELSE late)
        BY <1>1, <2>1 DEF Timely, Waits
      <4> QED BY <1>2, <1>3, <1>4, <4>1, Sizes DEF Slack, Times
    <3> QED BY <1>2, <1>3, <1>4, <3>1, Sizes DEF Coming, Slack, Times
  <2>2. CASE stage = "scan"
    <3>1. Gone <= FirstDue + Slack + MaxLate + late
      BY <1>1, <2>2 DEF Timely, Scans
    <3> QED BY <1>2, <1>3, <1>4, <3>1, Sizes DEF Slack, Times
  <2>3. CASE stage \in {"write", "check"}
    <3>1. Gone < FirstDue + late
      BY <2>3 DEF Timely, Sets
    <3> QED BY <1>2, <1>3, <1>4, <3>1, Sizes DEF Slack, Times
  <2> QED BY <2>1, <2>2, <2>3 DEF TInv
<1>6. Due(u) <= Gone + Half - 1
  BY DEF Timely, Ages
<1> QED BY <1>2, <1>3, <1>5, <1>6, Sizes DEF Slack, Times

\* What has passed of a deadline, on the circle of the times.
LEMMA PastIs ==
    ASSUME TInv, Timely, NEW u \in Armed
    PROVE  LET past == Elapsed(After(lasttime, Due(u)), time)
           IN  /\ Due(u) <= Gone => past = Gone - Due(u)
               /\ past < Half <=> Due(u) <= Gone
<1>1. /\ Due(u) \in Times /\ Gone \in Times
      /\ Gone <= Due(u) + 4 * MaxLate + TimeDelta - 1
      /\ Due(u) <= Gone + Half - 1
  BY NotPassed
<1>2. time \in Times /\ lasttime \in Times
  BY DEF TInv
<1>3. /\ Due(u) <= Gone => Elapsed(After(lasttime, Due(u)), time) = Gone - Due(u)
      /\ Due(u) > Gone => Elapsed(After(lasttime, Due(u)), time) = Modulus - (Due(u) - Gone)
  <2>1. PICK d \in 0 .. Modulus - 1 : d = Due(u)
    BY <1>1 DEF Times
  <2>2. PICK a \in 0 .. Modulus - 1, b \in 0 .. Modulus - 1 : a = lasttime /\ b = time
    BY <1>2 DEF Times
  <2>3. /\ d <= Elapsed(a, b) => Elapsed(After(a, d), b) = Elapsed(a, b) - d
        /\ d > Elapsed(a, b) => Elapsed(After(a, d), b) = Modulus - (d - Elapsed(a, b))
    BY Between
  <2> QED BY <2>1, <2>2, <2>3 DEF Gone
<1> QED BY <1>1, <1>3, Sizes DEF Half, Times

\* So FiresOnTime follows from them.
LEMMA TimelyIsOnTime == ASSUME TInv, Timely PROVE FiresOnTime
<1>1. ASSUME NEW u \in Armed, Elapsed(After(lasttime, Due(u)), time) < Modulus \div 2
      PROVE  Elapsed(After(lasttime, Due(u)), time) <= 4 * MaxLate + TimeDelta - 1
  <2>1. Elapsed(After(lasttime, Due(u)), time) = Gone - Due(u)
    BY <1>1, PastIs DEF Half
  <2> QED BY <2>1, NotPassed, Sizes DEF Times
<1> QED BY <1>1 DEF FiresOnTime

\* The parts of the invariant hold as long as no delay is cut.
LEMMA InvariantYoung == Spec /\ []Young => [](IInv /\ TInv /\ Timely)
<1>1. Init => TInv /\ Timely
  BY TInvInit, TimelyInit
<1>2. TInv /\ IInv /\ [Next]_vars => TInv'
  BY TInvNext
<1>3. TInv /\ TInv' /\ IInv /\ Timely /\ Young /\ [Next]_vars => Timely'
  BY TimelyNext
<1> QED BY <1>1, <1>2, <1>3, Invariant, PTL DEF Spec

\* As long as no delay is cut (chvt.c:219), no timer is passed by more than the
\* sections, the interrupt and the retries of its alarm account for, whatever the
\* width of systime_t and however many threads sleep.
THEOREM OnTimeYoung == Spec /\ []Young => []FiresOnTime
<1>1. TInv /\ Timely => FiresOnTime
  BY TimelyIsOnTime
<1> QED BY <1>1, InvariantYoung, PTL

-----------------------------------------------------------------------------
(* The list is a set of timers with deadlines of their own *)

\* The refinement mapping.
Deadline == [t \in Thread |-> IF t \in Armed THEN After(lasttime, Due(t)) ELSE NotArmed]

DeadlineNow == Deadline =
    [t \in Thread |-> IF t \in Armed THEN After(lasttime, Due(t)) ELSE NotArmed]

\* The mapping at a thread.
LEMMA DeadlineIs == DeadlineNow
BY DEF DeadlineNow, Deadline

\* The same after a step.
LEMMA DeadlineIsNext == DeadlineNow'
BY DeadlineIs, PTL

\* A deadline is a time, which NotArmed is not.
LEMMA DeadlineOf ==
    ASSUME TInv, NEW u \in Armed
    PROVE  /\ u \in Thread /\ Deadline[u] = After(lasttime, Due(u))
           /\ Deadline[u] \in Times /\ Deadline[u] # NotArmed
<1>1. u \in Thread /\ Due(u) \in Times /\ lasttime \in Times
  BY DEF TInv, Lists, Armed, ToSet
<1>2. After(lasttime, Due(u)) \in Times
  BY <1>1, AfterType DEF Times
<1> QED BY <1>1, <1>2, TimersAssumption DEF Deadline, Times

\* A thread without a timer has no deadline.
LEMMA NoDeadline == ASSUME NEW u \in Thread, u \notin Armed PROVE Deadline[u] = NotArmed
BY DEF Deadline

\* From a later start, the deadline is as much less away.
LEMMA FromLater ==
    ASSUME NEW a \in Times, NEW f \in Times, NEW d \in Times, f <= d
    PROVE  After(After(a, f), d - f) = After(a, d)
<1>1. PICK c \in Times : c = After(a, f)
  BY AfterIs DEF Times
<1>2. c = IF a + f < Modulus THEN a + f ELSE a + f - Modulus
  BY <1>1, AfterIs DEF Times
<1>3. After(a, d) = IF a + d < Modulus THEN a + d ELSE a + d - Modulus
  BY AfterIs DEF Times
<1>4. d - f \in 0 .. Modulus - 1
  BY Sizes DEF Times
<1>5. PICK e \in 0 .. Modulus - 1 : e = d - f
  BY <1>4
<1>6. After(c, e) = IF c + e < Modulus THEN c + e ELSE c + e - Modulus
  BY AfterIs DEF Times
<1> QED BY <1>1, <1>2, <1>3, <1>5, <1>6, Sizes DEF Times

\* The present is what has gone since lasttime after it.
LEMMA FromNow ==
    ASSUME TInv, NEW d \in Nat, Gone + d < Modulus
    PROVE  After(lasttime, Gone + d) = After(time, d)
<1>1. PICK a \in Times, b \in Times, g \in Times : a = lasttime /\ b = time /\ g = Gone
  BY TimesTicks DEF TimesAreTicks
<1>2. g = IF b >= a THEN b - a ELSE b - a + Modulus
  BY <1>1, ElapsedIs DEF Gone, Times
<1>3. PICK e \in Times : e = g + d
  BY <1>1, Sizes DEF Times
<1>4. After(a, e) = IF a + e < Modulus THEN a + e ELSE a + e - Modulus
  BY AfterIs DEF Times
<1>5. d \in Times
  BY <1>1, <1>3, Sizes DEF Times
<1>6. After(b, d) = IF b + d < Modulus THEN b + d ELSE b + d - Modulus
  BY <1>5, AfterIs DEF Times
<1> QED BY <1>1, <1>2, <1>3, <1>4, <1>6, Sizes DEF Times

\* A step that leaves the list alone leaves the deadlines alone.
LEMMA RefineStutter ==
    ASSUME TInv, UNCHANGED <<lasttime, vtlist, delta>>
    PROVE  Deadline' = Deadline
<1>1. Armed' = Armed /\ \A u \in Armed : Due(u)' = Due(u)
  BY DuesStay DEF TInv
<1> QED BY <1>1, DeadlineIs, DeadlineIsNext DEF DeadlineNow

\* The clock is the same clock.
LEMMA RefineAdvance == ASSUME TInv, Advance PROVE Timers!Pass
<1>1. time' = (time + 1) % Modulus /\ Deadline' = Deadline
  BY RefineStutter DEF Advance, list, After
<1> QED BY <1>1 DEF Timers!Pass, Deadline

\* chSchGoSleepTimeoutS sets a timer.
LEMMA RefineSleep ==
    ASSUME TInv, IInv, Young, NEW t \in Thread, NEW s \in Blocking, NEW d \in Delays, SleepTimeout(t, s, d)
    PROVE  Timers!Set(t, d)
<1>1. time' = time /\ d \in Nat
  BY Sizes DEF SleepTimeout
<1>2. /\ t \notin Armed /\ Armed' = Armed \cup {t}
      /\ vtlist = <<>> => lasttime' = time /\ Due(t)' = d
      /\ vtlist # <<>> => /\ lasttime' = lasttime /\ Due(t)' = FromLast(d)
                          /\ \A u \in Armed : Due(u)' = Due(u)
  BY SleepDues
<1>3. After(lasttime', Due(t)') = After(time, d)
  <2>1. CASE vtlist = <<>>
    BY <1>2, <2>1
  <2>2. CASE vtlist # <<>>
    <3>1. Gone + d < Modulus
      BY <2>2 DEF Young
    <3>2. FromLast(d) = Gone + d
      BY <3>1, NotCut
    <3>3. After(lasttime, Gone + d) = After(time, d)
      BY <1>1, <3>1, FromNow
    <3> QED BY <1>2, <2>2, <3>2, <3>3
  <2> QED BY <2>1, <2>2
<1>4. ASSUME NEW u \in Armed PROVE After(lasttime', Due(u)') = After(lasttime, Due(u))
  <2>1. vtlist # <<>>
    BY <1>4 DEF Armed, ToSet
  <2> QED BY <1>2, <1>4, <2>1
<1>5. Deadline' = [Deadline EXCEPT ![t] = (time + d) % Modulus]
  <2>1. ASSUME NEW u \in Thread
        PROVE  Deadline'[u] = IF u = t THEN After(time, d) ELSE Deadline[u]
    <3>1. Deadline'[u] = IF u \in Armed' THEN After(lasttime', Due(u)') ELSE NotArmed
      BY DeadlineIsNext DEF DeadlineNow
    <3>2. Deadline[u] = IF u \in Armed THEN After(lasttime, Due(u)) ELSE NotArmed
      BY DeadlineIs DEF DeadlineNow
    <3> QED BY <1>2, <1>3, <1>4, <3>1, <3>2
  <2>2. DOMAIN Deadline' = Thread /\ DOMAIN Deadline = Thread
    BY DeadlineIs, DeadlineIsNext DEF DeadlineNow
  <2>3. Deadline' = [u \in Thread |-> Deadline'[u]] /\ Deadline = [u \in Thread |-> Deadline[u]]
    BY DeadlineIs, DeadlineIsNext DEF DeadlineNow
  <2> QED BY <2>1, <2>2, <2>3 DEF After
<1>6. Deadline[t] = NotArmed
  BY <1>2, NoDeadline
<1> QED BY <1>1, <1>5, <1>6 DEF Timers!Set, Timers!Armed, Deadline

\* The deadlines change at one thread only.
LEMMA DeadlineGone ==
    ASSUME TInv, NEW t \in Armed, Armed' = Armed \ {t},
           \A u \in Armed \ {t} : After(lasttime', Due(u)') = After(lasttime, Due(u))
    PROVE  Deadline' = [Deadline EXCEPT ![t] = NotArmed]
<1>1. ASSUME NEW u \in Thread
      PROVE  Deadline'[u] = IF u = t THEN NotArmed ELSE Deadline[u]
  <2>1. Deadline'[u] = IF u \in Armed' THEN After(lasttime', Due(u)') ELSE NotArmed
    BY DeadlineIsNext DEF DeadlineNow
  <2>2. Deadline[u] = IF u \in Armed THEN After(lasttime, Due(u)) ELSE NotArmed
    BY DeadlineIs DEF DeadlineNow
  <2> QED BY <2>1, <2>2
<1>2. /\ Deadline' = [u \in Thread |-> Deadline'[u]]
      /\ Deadline = [u \in Thread |-> Deadline[u]]
  BY DeadlineIs, DeadlineIsNext DEF DeadlineNow
<1> QED BY <1>1, <1>2

\* The call that ends resets its timer, or has none.
LEMMA RefineResume ==
    ASSUME TInv, NEW t \in Thread, Resume(t)
    PROVE  Timers!Reset(t) \/ (Deadline' = Deadline /\ time' = time)
<1>1. time' = time
  BY DEF Resume
<1>2. /\ Armed' = Armed \ {t} /\ lasttime' = lasttime
      /\ \A u \in Armed' : Due(u)' = Due(u)
  BY ResumeDues
<1>3. CASE t \in Armed
  <2>1. Deadline' = [Deadline EXCEPT ![t] = NotArmed]
    BY <1>2, <1>3, DeadlineGone
  <2>2. Deadline[t] # NotArmed
    BY <1>3, DeadlineOf
  <2> QED BY <1>1, <2>1, <2>2 DEF Timers!Reset, Timers!Armed, Deadline
<1>4. CASE t \notin Armed
  <2>1. UNCHANGED <<lasttime, vtlist, delta>>
    BY <1>4 DEF Resume, ResetsTimer, list
  <2> QED BY <1>1, <2>1, RefineStutter
<1> QED BY <1>3, <1>4

\* The first timer is due, and has been for longer than the others.
LEMMA RefineFire ==
    ASSUME TInv, Timely, TickFire, NEW h, h = Head(vtlist)
    PROVE  Timers!Expire(h)
<1>1. h = Head(vtlist)
  OBVIOUS
<1>2. /\ vtlist # <<>> /\ Armed' = Armed \ {h}
      /\ lasttime' = After(lasttime, FirstDue) /\ FirstDue <= Gone
      /\ \A u \in Armed' : Due(u)' = Due(u) - FirstDue
  BY <1>1, FireDues DEF Gone
<1>3. /\ h \in Armed /\ FirstDue \in Times /\ FirstDue = Due(h)
      /\ \A u \in Armed : Due(u) \in Times /\ FirstDue <= Due(u)
  BY <1>1, <1>2, FirstLeast DEF FirstIsLeast, FirstDue, TInv
<1>4. time' = time /\ lasttime \in Times /\ Gone \in Times
  BY TimesTicks DEF TickFire, TimesAreTicks
<1>5. ASSUME NEW u \in Armed \ {h} PROVE After(lasttime', Due(u)') = After(lasttime, Due(u))
  <2>1. Due(u)' = Due(u) - FirstDue /\ Due(u) \in Times /\ FirstDue <= Due(u)
    BY <1>2, <1>3
  <2>2. After(After(lasttime, FirstDue), Due(u) - FirstDue) = After(lasttime, Due(u))
    BY <1>3, <1>4, <2>1, FromLater
  <2> QED BY <1>2, <2>1, <2>2
<1>6. Deadline' = [Deadline EXCEPT ![h] = NotArmed]
  BY <1>2, <1>3, <1>5, DeadlineGone
<1>7. Elapsed(Deadline[h], time) = Gone - FirstDue /\ Elapsed(Deadline[h], time) < Half
  BY <1>2, <1>3, PastIs, DeadlineOf
<1>8. ASSUME NEW u \in Thread, Deadline[u] # NotArmed, Elapsed(Deadline[u], time) < Half
      PROVE  Elapsed(Deadline[h], time) >= Elapsed(Deadline[u], time)
  <2>1. u \in Armed
    BY <1>8, NoDeadline
  <2>2. Elapsed(Deadline[u], time) = Gone - Due(u)
    BY <1>8, <2>1, PastIs, DeadlineOf
  <2>3. PICK f \in Times, d \in Times, g \in Times :
               f = FirstDue /\ d = Due(u) /\ g = Gone /\ f <= d
    BY <1>3, <1>4, <2>1
  <2>4. g - f >= g - d
    BY <2>3, Sizes DEF Times
  <2> QED BY <1>7, <2>2, <2>3, <2>4
<1>9. h \in Thread /\ Deadline[h] # NotArmed
  BY <1>3, DeadlineOf
<1> QED
  BY <1>1, <1>4, <1>6, <1>7, <1>8, <1>9
  DEF Timers!Expire, Timers!Armed, Timers!Past, Timers!Elapsed, Elapsed, Half, Deadline

\* Every step maps to a step of the timers, or to none.
LEMMA RefineNext ==
    ASSUME TInv, IInv, Timely, Young, [Next]_vars PROVE [Timers!TNext]_(Timers!tvars)
<1>1. ASSUME Deadline' = Deadline, time' = time PROVE [Timers!TNext]_(Timers!tvars)
  BY <1>1 DEF Timers!tvars, Deadline
<1>2. CASE /\ UNCHANGED <<time, lasttime, vtlist, delta>>
  BY <1>1, <1>2, RefineStutter
<1>3. CASE Advance
  BY <1>3, RefineAdvance DEF Timers!TNext
<1>4. ASSUME NEW t \in Thread, NEW s \in Blocking, NEW d \in Delays, SleepTimeout(t, s, d)
      PROVE  [Timers!TNext]_(Timers!tvars)
  BY <1>4, RefineSleep DEF Timers!TNext
<1>5. ASSUME NEW t \in Thread, Resume(t) PROVE [Timers!TNext]_(Timers!tvars)
  BY <1>1, <1>5, RefineResume DEF Timers!TNext
<1>6. CASE TickFire
  <2>1. PICK h \in Thread : h = Head(vtlist)
    BY <1>6, FireDues, FirstLeast DEF FirstIsLeast, TInv
  <2>2. Timers!Expire(h)
    BY <1>6, <2>1, RefineFire
  <2>3. Timers!TNext
    BY <2>2 DEF Timers!TNext
  <2> QED BY <2>3
<1>7. CASE WriteAlarm \/ CheckAlarm \/ AlarmInterrupt \/ TickEnd \/ UNCHANGED vars
  BY <1>2, <1>7 DEF WriteAlarm, CheckAlarm, AlarmInterrupt, TickEnd, vars, list
<1>8. ASSUME NEW t \in Thread, Lock(t) \/ Answer(t) PROVE [Timers!TNext]_(Timers!tvars)
  BY <1>2, <1>8 DEF Lock, Answer, list
<1> QED BY <1>3, <1>4, <1>5, <1>6, <1>7, <1>8 DEF Next, Code, Blocking

\* The start maps to the start.
LEMMA RefineInit == Init => Timers!TInit
<1> SUFFICES ASSUME Init PROVE Timers!TInit
  OBVIOUS
<1>1. Armed = {} /\ time = 0
  BY DEF Init, Armed, ToSet
<1>2. Deadline = [t \in Thread |-> NotArmed]
  BY <1>1 DEF Deadline
<1> QED BY <1>1, <1>2 DEF Timers!TInit, Deadline

\* As long as no delay is cut, the delta list and its alarm are a set of timers
\* with deadlines of their own: none goes off early, or before one that was due
\* sooner, and the deadlines of the others stay as timers come and go.
THEOREM IsTimersYoung == Spec /\ []Young => IsTimers
<1>1. Init => Timers!TInit
  BY RefineInit
<1>2. TInv /\ IInv /\ Timely /\ Young /\ [Next]_vars => [Timers!TNext]_(Timers!tvars)
  BY RefineNext
<1> QED BY <1>1, <1>2, InvariantYoung, PTL DEF Spec, IsTimers, Timers!TSpec

-----------------------------------------------------------------------------
(* How old lasttime gets: no delay is cut *)

\* What a timer may be passed by.
Latest == 4 * MaxLate + TimeDelta - 1

\* The calls that were made and whose thread has not slept to the end since.
Used == {x \in Thread \X (0 .. MaxCalls) : x[2] < calls[x[1]]}

\* A timer that is armed is one of a call that counts.
Counted == \A u \in Armed : calls[u] >= 1

\* No deadline is further away than the longest delay, m; and every call can
\* have moved the deadlines away from lasttime by a delay and what a timer may be
\* passed by, until one goes off and lasttime follows.
Near(m) == \A u \in Armed : Due(u) <= Gone + m
Soon(m) == \A u \in Armed : Due(u) <= Cardinality(Used) * (m + Latest)
Aged(m) == Near(m) /\ Soon(m)

UsedIsFinite == IInv =>
    /\ IsFiniteSet(Used) /\ Cardinality(Used) \in Nat
    /\ Cardinality(Used) <= Cardinality(Thread) * (MaxCalls + 1)
    /\ Counted /\ Armed # {} => Cardinality(Used) >= 1

\* There are no more calls than threads can make.
LEMMA UsedFinite == UsedIsFinite
<1> SUFFICES ASSUME IInv
             PROVE  /\ IsFiniteSet(Used) /\ Cardinality(Used) \in Nat
                    /\ Cardinality(Used) <= Cardinality(Thread) * (MaxCalls + 1)
                    /\ Counted /\ Armed # {} => Cardinality(Used) >= 1
  BY DEF UsedIsFinite
<1> DEFINE Calls == 0 .. MaxCalls
<1>1. IsFiniteSet(Thread) /\ MaxCalls \in Nat
  BY TimersAssumption
<1>2. IsFiniteSet(Calls) /\ Cardinality(Calls) = MaxCalls + 1
  BY <1>1, FS_Interval
<1> HIDE DEF Calls
<1>3. /\ IsFiniteSet(Thread \X Calls)
      /\ Cardinality(Thread \X Calls) = Cardinality(Thread) * Cardinality(Calls)
  BY <1>1, <1>2, FS_Product
<1>4. Used \subseteq Thread \X Calls
  BY DEF Used, Calls
<1>5. IsFiniteSet(Used) /\ Cardinality(Used) <= Cardinality(Thread \X Calls)
  BY <1>3, <1>4, FS_Subset
<1>6. Cardinality(Used) \in Nat
  BY <1>5, FS_CardinalityType
<1>7. ASSUME Counted, NEW u \in Armed PROVE Cardinality(Used) >= 1
  <2>1. u \in Thread /\ calls[u] >= 1 /\ calls[u] \in Nat
    BY <1>1, <1>7 DEF Counted, IInv, CallsFit, Armed, ToSet
  <2>2. <<u, 0>> \in Used
    BY <1>1, <2>1 DEF Used
  <2>3. Cardinality(Used) # 0
    BY <1>5, <2>2, FS_EmptySet
  <2> QED BY <1>6, <2>3
<1> QED BY <1>2, <1>3, <1>5, <1>6, <1>7

\* The same after a step: UsedIsFinite is a name for what holds of every state.
LEMMA UsedFiniteNext == UsedIsFinite'
BY UsedFinite, PTL

\* A call with a timeout is one more.
LEMMA UsedGrows ==
    ASSUME IInv, NEW t \in Thread, NEW s \in Blocking, NEW d \in Delays, SleepTimeout(t, s, d)
    PROVE  Cardinality(Used') = Cardinality(Used) + 1
<1>1. MaxCalls \in Nat /\ calls[t] \in 0 .. MaxCalls /\ calls' = [calls EXCEPT ![t] = @ + 1]
      /\ calls \in [Thread -> 0 .. MaxCalls + 1]
  BY TimersAssumption DEF SleepTimeout, IInv, CallsFit
<1>2. PICK c \in 0 .. MaxCalls : c = calls[t]
  BY <1>1
<1>3. <<t, c>> \notin Used
  BY <1>1, <1>2 DEF Used
<1>4. Used' = Used \cup {<<t, c>>}
  <2>1. ASSUME NEW u \in Thread, NEW i \in 0 .. MaxCalls
        PROVE  i < calls'[u] <=> i < calls[u] \/ (u = t /\ i = c)
    BY <1>1, <1>2, <2>1
  <2>2. ASSUME NEW x PROVE x \in Used' <=> x \in Used \/ x = <<t, c>>
    <3>1. CASE x \in Thread \X (0 .. MaxCalls)
      <4>1. PICK u \in Thread, i \in 0 .. MaxCalls : x = <<u, i>>
        BY <3>1
      <4>2. x = <<t, c>> <=> u = t /\ i = c
        BY <4>1
      <4>3. x[1] = u /\ x[2] = i
        BY <4>1
      <4> QED BY <2>1, <3>1, <4>2, <4>3 DEF Used
    <3>2. CASE x \notin Thread \X (0 .. MaxCalls)
      BY <1>2, <3>2 DEF Used
    <3> QED BY <3>1, <3>2
  <2> QED BY <2>2
<1>5. IsFiniteSet(Used)
  BY UsedFinite DEF UsedIsFinite
<1> QED BY <1>3, <1>4, <1>5, FS_AddElement

\* What a multiple grows by.
LEMMA Multiples ==
    ASSUME NEW w \in Nat
    PROVE  /\ \A c \in Nat : c * w \in Nat /\ (c + 1) * w = c * w + w
           /\ \A b, c \in Nat : b <= c => b * w <= c * w
           /\ 1 * w = w
OBVIOUS

\* A timer that is armed was not armed before, or its call counted already.
LEMMA CountedNext == ASSUME IInv, TInv, Counted, [Next]_vars PROVE Counted'
<1>1. /\ MaxCalls \in Nat /\ Armed \subseteq Thread /\ IsInjective(vtlist)
      /\ calls \in [Thread -> 0 .. MaxCalls + 1]
  BY TimersAssumption DEF IInv, NoDangling, CallsFit, Armed, ToSet
<1>2. ASSUME NEW t \in Thread, NEW s \in Blocking, NEW d \in Delays, SleepTimeout(t, s, d)
      PROVE  Counted'
  <2>1. Armed' = Armed \cup {t} /\ calls' = [calls EXCEPT ![t] = @ + 1]
    BY <1>2, SleepDues DEF SleepTimeout
  <2> QED BY <1>1, <2>1 DEF Counted
<1>3. ASSUME NEW t \in Thread, Resume(t) PROVE Counted'
  <2>1. Armed' = Armed \ {t} /\ calls' = calls
    BY <1>3, ResumeDues DEF Resume
  <2> QED BY <2>1 DEF Counted
<1>4. CASE TickFire
  <2>1. PICK h : h = Head(vtlist)
    OBVIOUS
  <2>2. /\ Armed' = Armed \ {h} /\ h \in Thread
        /\ calls' = IF st[h] = "asleep" THEN [calls EXCEPT ![h] = 0] ELSE calls
    BY <1>4, <2>1, FireDues, FirstLeast DEF TickFire, FirstIsLeast, TInv
  <2>3. \A u \in Armed' : u \in Armed /\ calls'[u] = calls[u]
    BY <1>1, <2>2
  <2> QED BY <2>3 DEF Counted
<1>5. CASE UNCHANGED <<vtlist, calls>>
  BY <1>5 DEF Counted, Armed
<1> QED
  BY <1>2, <1>3, <1>4, <1>5
  DEF Next, Code, Blocking, Advance, Lock, Answer, WriteAlarm, CheckAlarm, AlarmInterrupt,
      TickEnd, vars, list

\* And it holds at the start.
LEMMA CountedInit == Init => Counted
BY DEF Init, Counted, Armed, ToSet

\* lasttime is never so old that a delay counted from it overflows.
LEMMA AgedIsYoung ==
    ASSUME TInv, IInv, Timely, NEW m \in Nat, Aged(m), \A d \in Delays : d <= m,
           (Cardinality(Thread) * (MaxCalls + 1) + 1) * (m + Latest) < Modulus
    PROVE  Young
<1> SUFFICES ASSUME vtlist # <<>>, NEW d \in Delays PROVE Gone + d < Modulus
  BY DEF Young
<1> DEFINE most == Cardinality(Thread) * (MaxCalls + 1)
           used == Cardinality(Used)
           w    == m + Latest
<1>1. /\ FirstDue \in Nat /\ Gone \in Nat /\ Gone <= FirstDue + Latest
      /\ FirstDue <= used * w
  <2>1. Head(vtlist) \in Armed /\ FirstDue = Due(Head(vtlist))
    BY FirstLeast DEF FirstIsLeast, FirstDue, TInv
  <2>2. FirstDue \in Times /\ Gone \in Times /\ Gone <= FirstDue + 4 * MaxLate + TimeDelta - 1
    BY <2>1, NotPassed
  <2>3. FirstDue \in Nat /\ Gone \in Nat /\ Gone <= FirstDue + Latest
    BY <2>2, Sizes DEF Times, Latest
  <2> QED BY <2>1, <2>3 DEF Aged, Soon
<1>2. used \in Nat /\ used <= most
  BY UsedFinite DEF UsedIsFinite
<1>3. most \in Nat
  <2>1. Cardinality(Thread) \in Nat /\ MaxCalls + 1 \in Nat
    BY TimersAssumption, FS_CardinalityType
  <2> QED BY <2>1
<1>4. w \in Nat /\ Latest \in Nat /\ d \in Nat /\ d <= m /\ Modulus \in Nat
  <2>1. Latest \in Nat
    BY Sizes DEF Latest
  <2> QED BY <2>1, Sizes
<1>5. used * w \in Nat /\ used * w <= most * w /\ (most + 1) * w = most * w + w
      /\ most * w \in Nat
  <2> HIDE DEF used, most, w
  <2> QED BY <1>2, <1>3, <1>4, Multiples
<1>6. (most + 1) * w < Modulus
  OBVIOUS
<1>7. PICK f \in Nat, g \in Nat, l \in Nat, a \in Nat, b \in Nat :
          f = FirstDue /\ g = Gone /\ l = Latest /\ a = used * w /\ b = most * w
  BY <1>1, <1>4, <1>5
<1>8. g <= f + l /\ f <= a /\ a <= b /\ b + (m + l) < Modulus
  BY <1>1, <1>5, <1>6, <1>7
<1>9. g + d < Modulus
  BY <1>4, <1>8
<1> QED BY <1>7, <1>9

\* A step that neither arms a timer nor lets one go off.
LEMMA AgedStays ==
    ASSUME TInv, NEW m \in Nat, Aged(m), Armed' \subseteq Armed, calls' = calls,
           \A u \in Armed' : Due(u)' = Due(u),
           vtlist # <<>> => Gone' >= Gone /\ Gone' \in Nat
    PROVE  Aged(m)'
<1>1. Used' = Used
  BY DEF Used
<1>2. Gone \in Nat /\ \A u \in Armed : Due(u) \in Nat
  BY TimesTicks, Sizes DEF TimesAreTicks, Times, TInv, Lists
<1>3. ASSUME NEW u \in Armed' PROVE Due(u)' <= Gone' + m
  <2>1. u \in Armed /\ vtlist # <<>> /\ Due(u)' = Due(u)
    BY <1>3 DEF Armed, ToSet
  <2>2. Due(u) <= Gone + m
    BY <2>1 DEF Aged, Near
  <2> QED BY <1>2, <2>1, <2>2
<1>4. Soon(m)'
  BY <1>1 DEF Aged, Soon, Latest
<1> QED BY <1>3, <1>4 DEF Aged, Near

\* A delay that is armed is no longer than m.
LEMMA AgedSleep ==
    ASSUME TInv, TInv', IInv, Timely, Young, NEW m \in Nat, Aged(m), \A d \in Delays : d <= m,
           NEW t \in Thread, NEW s \in Blocking, NEW d \in Delays, SleepTimeout(t, s, d)
    PROVE  Aged(m)'
<1>1. /\ Armed' = Armed \cup {t} /\ t \notin Armed
      /\ vtlist = <<>> => lasttime' = time /\ Due(t)' = d
      /\ vtlist # <<>> => /\ lasttime' = lasttime /\ Due(t)' = FromLast(d)
                          /\ \A u \in Armed : Due(u)' = Due(u)
  BY SleepDues
<1>2. /\ time' = time /\ d \in Nat /\ d <= m
      /\ Gone \in Nat /\ Gone' \in Nat /\ Latest \in Nat
  BY Sizes, TimesTicks, TimesTicksNext DEF TimesAreTicks, Times, SleepTimeout, Latest
<1>3. PICK a \in Nat, b \in Nat, l \in Nat : /\ a = Cardinality(Used) * (m + Latest)
          /\ b = Cardinality(Used') * (m + Latest) /\ l = Latest /\ b = a + (m + l)
  <2>1. Cardinality(Used) \in Nat /\ Cardinality(Used') = Cardinality(Used) + 1
    BY UsedFinite, UsedGrows DEF UsedIsFinite
  <2>2. m + Latest \in Nat
    BY <1>2
  <2> QED BY <1>2, <2>1, <2>2, Multiples
<1>4. ASSUME \A u \in Armed' : Due(u)' <= Gone' + m /\ Due(u)' <= b PROVE Aged(m)'
  BY <1>3, <1>4 DEF Aged, Near, Soon, Latest
<1>5. CASE vtlist = <<>>
  <2>1. Armed' = {t} /\ Due(t)' = d
    BY <1>1, <1>5 DEF Armed, ToSet
  <2>2. d <= Gone' + m /\ d <= b
    <3>1. PICK g \in Nat : g = Gone'
      BY <1>2
    <3>2. d <= g + m /\ d <= b
      BY <1>2, <1>3
    <3> QED BY <3>1, <3>2
  <2> QED BY <1>4, <2>1, <2>2
<1>6. CASE vtlist # <<>>
  <2>1. Gone' = Gone /\ FromLast(d) = Gone + d
    <3>1. Gone + d < Modulus
      BY <1>6 DEF Young
    <3> QED BY <1>1, <1>2, <1>6, <3>1, NotCut DEF Gone
  <2>2. \A u \in Armed : Due(u) \in Nat /\ Due(u) <= Gone + m /\ Due(u) <= a
    <3>1. \A u \in Armed : Due(u) <= Gone + m /\ Due(u) <= Cardinality(Used) * (m + Latest)
      BY DEF Aged, Near, Soon
    <3>2. \A u \in Armed : Due(u) \in Nat
      BY Sizes DEF TInv, Lists, Times
    <3> QED BY <1>3, <3>1, <3>2
  <2>3. Gone <= a + l
    <3>1. PICK u \in Armed : TRUE
      BY <1>6, FirstLeast DEF FirstIsLeast, TInv
    <3>2. Gone <= Due(u) + 4 * MaxLate + TimeDelta - 1
      BY NotPassed
    <3> QED BY <1>2, <1>3, <2>2, <3>1, <3>2, Sizes DEF Latest
  <2>4. Due(t)' <= Gone' + m /\ Due(t)' <= b
    BY <1>1, <1>2, <1>3, <1>6, <2>1, <2>3
  <2>5. \A u \in Armed : Due(u)' <= Gone' + m /\ Due(u)' <= b
    BY <1>1, <1>2, <1>3, <1>6, <2>1, <2>2
  <2> QED BY <1>1, <1>4, <2>4, <2>5
<1> QED BY <1>5, <1>6

\* lasttime moves to the deadline of the timer that goes off.
LEMMA AgedFire ==
    ASSUME TInv, IInv', Counted', Timely, NEW m \in Nat, Aged(m), TickFire PROVE Aged(m)'
<1>1. PICK h : h = Head(vtlist)
  OBVIOUS
<1>2. /\ vtlist # <<>> /\ Armed' = Armed \ {h} /\ Lists'
      /\ lasttime' = After(lasttime, FirstDue) /\ FirstDue <= Gone
      /\ \A u \in Armed' : Due(u)' = Due(u) - FirstDue
  BY <1>1, FireDues DEF Gone
<1>3. /\ h \in Armed /\ FirstDue \in Times /\ FirstDue = Due(h)
      /\ \A u \in Armed : Due(u) \in Times
  BY <1>1, <1>2, FirstLeast DEF FirstIsLeast, FirstDue, TInv
<1>4. time' = time /\ lasttime \in Times /\ Gone \in Times /\ time \in Times
  BY TimesTicks DEF TickFire, TimesAreTicks
<1>5. Gone' = Gone - FirstDue
  <2>1. Elapsed(After(lasttime, FirstDue), time) = Gone - FirstDue
    BY <1>2, <1>3, <1>4, Between DEF Times, Gone
  <2> QED BY <1>2, <1>4, <2>1 DEF Gone
<1>6. Gone <= FirstDue + Latest /\ Latest \in Nat
  <2>1. Gone <= Due(h) + 4 * MaxLate + TimeDelta - 1
    BY <1>3, NotPassed
  <2>2. Latest \in Nat /\ FirstDue \in Nat
    BY <1>3, Sizes DEF Latest, Times
  <2> QED BY <1>3, <2>1, <2>2, Sizes DEF Latest
<1>7. ASSUME NEW u \in Armed' PROVE Due(u)' <= Gone' + m /\ Due(u)' <= m + Latest
                                    /\ Due(u)' \in Int
  <2>1. Due(u)' = Due(u) - FirstDue /\ Due(u) \in Times /\ Due(u) <= Gone + m
    BY <1>2, <1>3 DEF Aged, Near
  <2> QED BY <1>3, <1>4, <1>5, <1>6, <2>1, Sizes DEF Times
<1>8. Armed' # {} => m + Latest <= Cardinality(Used') * (m + Latest)
                     /\ Cardinality(Used') * (m + Latest) \in Nat
  <2>1. Armed' # {} => Cardinality(Used') \in Nat /\ Cardinality(Used') >= 1
    BY UsedFiniteNext DEF UsedIsFinite
  <2>2. m + Latest \in Nat
    BY <1>6
  <2>3. \A c \in Nat : 1 <= c => m + Latest <= c * (m + Latest) /\ c * (m + Latest) \in Nat
    BY <2>2, Multiples
  <2> QED BY <2>1, <2>3
<1>9. \A u \in Armed' : Due(u)' <= Cardinality(Used') * (m + Latest)
  <2>1. PICK w \in Nat : w = m + Latest
    BY <1>6
  <2>2. ASSUME NEW u \in Armed' PROVE Due(u)' <= Cardinality(Used') * (m + Latest)
    <3>1. PICK c \in Nat : c = Cardinality(Used') * (m + Latest)
      BY <1>8, <2>2
    <3>2. Due(u)' <= w /\ Due(u)' \in Int /\ w <= c
      BY <1>7, <1>8, <2>1, <2>2, <3>1
    <3> QED BY <3>1, <3>2
  <2> QED BY <2>2
<1> QED BY <1>7, <1>9 DEF Aged, Near, Soon, Latest

\* Every step keeps the age.
LEMMA AgedNext ==
    ASSUME TInv, TInv', IInv, IInv', Counted', Timely, Young, NEW m \in Nat, Aged(m),
           \A d \in Delays : d <= m, [Next]_vars
    PROVE  Aged(m)'
<1>1. CASE UNCHANGED <<time, lasttime, vtlist, delta, calls>>
  <2>1. Gone' = Gone /\ Gone \in Nat
    BY <1>1, TimesTicks, Sizes DEF TimesAreTicks, Gone, Times
  <2>2. Armed' = Armed /\ \A u \in Armed : Due(u)' = Due(u)
    BY <1>1, DuesStay DEF TInv
  <2> QED BY <1>1, <2>1, <2>2, AgedStays
<1>2. CASE Advance
  <2>1. time' = After(time, 1) /\ UNCHANGED <<lasttime, vtlist, delta, calls>>
    BY <1>2 DEF Advance, list
  <2>2. ASSUME vtlist # <<>> PROVE Gone' >= Gone /\ Gone' \in Nat
    <3>1. PICK d \in Delays : TRUE
      BY <2>2 DEF TInv
    <3>2. /\ Gone + d < Modulus /\ d \in Nat /\ d >= 1
          /\ Gone \in Times /\ lasttime \in Times /\ time \in Times
      BY <2>2, TimesTicks, Sizes DEF Young, TimesAreTicks
    <3>3. Gone + 1 < Modulus
      BY <3>2, Sizes DEF Times
    <3>4. Gone' = Gone + 1
      BY <2>1, <3>2, <3>3, Ticks DEF Gone, Times
    <3> QED BY <3>2, <3>4, Sizes DEF Times
  <2>3. Armed' = Armed /\ \A u \in Armed : Due(u)' = Due(u)
    BY <2>1, DuesStay DEF TInv
  <2> QED BY <2>1, <2>2, <2>3, AgedStays
<1>3. ASSUME NEW t \in Thread, NEW s \in Blocking, NEW d \in Delays, SleepTimeout(t, s, d)
      PROVE  Aged(m)'
  BY <1>3, AgedSleep
<1>4. ASSUME NEW t \in Thread, Resume(t) PROVE Aged(m)'
  <2>1. /\ Armed' = Armed \ {t} /\ lasttime' = lasttime /\ calls' = calls /\ time' = time
        /\ \A u \in Armed' : Due(u)' = Due(u)
    BY <1>4, ResumeDues DEF Resume
  <2>2. Gone' = Gone /\ Gone \in Nat
    BY <2>1, TimesTicks, Sizes DEF TimesAreTicks, Gone, Times
  <2> QED BY <2>1, <2>2, AgedStays
<1>5. ASSUME NEW t \in Thread, Lock(t) \/ Answer(t) PROVE Aged(m)'
  BY <1>1, <1>5 DEF Lock, Answer, list
<1>6. CASE WriteAlarm \/ CheckAlarm \/ AlarmInterrupt \/ TickEnd \/ UNCHANGED vars
  BY <1>1, <1>6 DEF WriteAlarm, CheckAlarm, AlarmInterrupt, TickEnd, vars, list
<1> QED BY <1>2, <1>3, <1>4, <1>5, <1>6, AgedFire DEF Next, Code, Blocking

\* And it holds at the start.
LEMMA AgedInit == ASSUME NEW m PROVE Init => Aged(m)
BY DEF Init, Aged, Near, Soon, Armed, ToSet

\* Where the width of systime_t has room for a delay and a timer's lateness for
\* every call the threads can make between two sleeps, and one more, no delay is
\* ever cut: a timer that a thread takes back does not move lasttime, but every
\* thread sleeps in the end, its timer goes off, and lasttime moves with it.
THEOREM NeverCut ==
    ASSUME NEW m \in Nat, \A d \in Delays : d <= m,
           (Cardinality(Thread) * (MaxCalls + 1) + 1) * (m + Latest) < Modulus
    PROVE  Spec => []Young
<1>1. IInv /\ TInv /\ Timely /\ Aged(m) => Young
  BY AgedIsYoung
<1>2. Init => TInv /\ Timely /\ Counted /\ Aged(m)
  BY TInvInit, TimelyInit, CountedInit, AgedInit
<1>3. TInv /\ IInv /\ [Next]_vars => TInv'
  BY TInvNext
<1>4. TInv /\ TInv' /\ IInv /\ Timely /\ Young /\ [Next]_vars => Timely'
  BY TimelyNext
<1>5. IInv /\ TInv /\ Counted /\ [Next]_vars => Counted'
  BY CountedNext
<1>6. /\ TInv /\ TInv' /\ IInv /\ IInv' /\ Counted' /\ Timely /\ Young /\ Aged(m)
      /\ [Next]_vars
      => Aged(m)'
  BY AgedNext
<1> QED BY <1>1, <1>2, <1>3, <1>4, <1>5, <1>6, Invariant, PTL DEF Spec

\* What the run checks, for any number of threads and calls and any time that is
\* wide enough for them: no timer is passed by more than the sections and the
\* retries account for.
THEOREM OnTime ==
    ASSUME NEW m \in Nat, \A d \in Delays : d <= m,
           (Cardinality(Thread) * (MaxCalls + 1) + 1) * (m + Latest) < Modulus
    PROVE  Spec => []FiresOnTime
<1>1. Spec => []Young
  BY NeverCut
<1> QED BY <1>1, OnTimeYoung, PTL

\* And the delta list is a set of timers with deadlines of their own.
THEOREM TimersKept ==
    ASSUME NEW m \in Nat, \A d \in Delays : d <= m,
           (Cardinality(Thread) * (MaxCalls + 1) + 1) * (m + Latest) < Modulus
    PROVE  Spec => IsTimers
<1>1. Spec => []Young
  BY NeverCut
<1> QED BY <1>1, IsTimersYoung, PTL
=============================================================================
