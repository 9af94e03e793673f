----------------------------- MODULE ListProofs -----------------------------
(***************************************************************************)
(* Facts about lists and natural numbers that the proofs about the timers  *)
(* and about the kernel share: the linked lists of ChibiOS hold a thread   *)
(* at most once, and an element is put in or taken out at its place.       *)
(***************************************************************************)
EXTENDS Integers, Sequences, SequencesExt, FiniteSetTheorems, SequenceTheorems,
        TLAPS

(* The least of some natural numbers.  Induction with no operator to       *)
(* instantiate: the initial segments of Nat, ordered by inclusion, are     *)
(* well founded.                                                           *)

\* Every set of natural numbers has a least one.
LEMMA NatMin ==
    ASSUME NEW T \in SUBSET Nat, T # {}
    PROVE  \E x \in T : \A y \in T : x <= y
<1> DEFINE B(n) == 0 .. n - 1
           U == {B(n) : n \in T}
           R == StrictSubsetOrdering(Nat)
           F == FiniteSubsetsOf(Nat)
<1>1. IsWellFoundedOn(R, F)  BY FS_StrictSubsetOrderingWellFounded
<1>2. U \subseteq F /\ U # {}  
  <2> SUFFICES ASSUME NEW n \in T PROVE B(n) \in F
    OBVIOUS
  <2>1. IsFiniteSet(B(n)) BY FS_Interval
  <2>2. B(n) \in SUBSET Nat OBVIOUS
  <2> QED BY <2>1, <2>2 DEF FiniteSubsetsOf
<1>3. PICK b \in U : \A c \in U : ~ (<<c, b>> \in R)
  <2> HIDE DEF R, F, U
  <2> QED BY <1>1, <1>2, WFMin
<1>4. PICK x \in T : b = B(x)
  OBVIOUS
<1>5. ASSUME NEW y \in T, y < x PROVE FALSE
  <2>1. B(y) \subseteq B(x) /\ B(y) # B(x)
    <3>1. y \in B(x) /\ y \notin B(y)
      BY <1>5
    <3> QED BY <1>5, <3>1
  <2>2. B(y) \in SUBSET Nat /\ B(x) \in SUBSET Nat
    OBVIOUS
  <2>3. <<B(y), B(x)>> \in R
    <3> HIDE DEF B
    <3> QED BY <2>1, <2>2 DEF StrictSubsetOrdering
  <2> QED BY <1>3, <1>4, <2>3
<1> QED  BY <1>4, <1>5

-----------------------------------------------------------------------------
(* Lists without repetition *)

\* What is behind the place moves up by one.
LEMMA RemoveAtElements ==
    ASSUME NEW S, NEW s \in Seq(S), NEW p \in 1 .. Len(s)
    PROVE  /\ RemoveAt(s, p) \in Seq(S) /\ Len(RemoveAt(s, p)) = Len(s) - 1
           /\ \A j \in 1 .. Len(s) - 1 :
                RemoveAt(s, p)[j] = IF j < p THEN s[j] ELSE s[j + 1]
<1> DEFINE r == RemoveAt(s, p)
<1> DEFINE a == SubSeq(s, 1, p - 1)
           b == SubSeq(s, p + 1, Len(s))
<1>1. a \in Seq(S) /\ Len(a) = p - 1 /\ \A j \in 1 .. p - 1 : a[j] = s[j]
  BY DEF a
<1>2. b \in Seq(S) /\ Len(b) = Len(s) - p /\ \A j \in 1 .. Len(s) - p : b[j] = s[j + p]
  BY DEF b
<1>3. r = a \o b
  BY DEF RemoveAt
<1> HIDE DEF a, b, r
<1>4. /\ r \in Seq(S) /\ Len(r) = (p - 1) + (Len(s) - p)
      /\ \A j \in 1 .. (p - 1) + (Len(s) - p) :
           r[j] = IF j <= p - 1 THEN a[j] ELSE b[j - (p - 1)]
  <2>1. /\ a \o b \in Seq(S) /\ Len(a \o b) = Len(a) + Len(b)
        /\ \A j \in 1 .. Len(a) + Len(b) :
             (a \o b)[j] = IF j <= Len(a) THEN a[j] ELSE b[j - Len(a)]
    BY <1>1, <1>2, ConcatProperties
  <2> QED BY <1>1, <1>2, <1>3, <2>1, Zenon
<1>5. ASSUME NEW j \in 1 .. Len(s) - 1 PROVE r[j] = IF j < p THEN s[j] ELSE s[j + 1]
  <2> j \in 1 .. (p - 1) + (Len(s) - p)
    OBVIOUS
  <2>1. CASE j < p
    <3>1. j \in 1 .. p - 1 /\ j <= p - 1
      BY <2>1
    <3>2. r[j] = a[j]
      BY <1>4, <3>1
    <3> QED BY <1>1, <2>1, <3>1, <3>2
  <2>2. CASE j >= p
    <3>1. j - (p - 1) \in 1 .. Len(s) - p /\ (j - (p - 1)) + p = j + 1
      BY <2>2
    <3>2. b[j - (p - 1)] = s[j + 1]
      BY <1>2, <3>1
    <3> QED BY <1>4, <2>2, <3>2
  <2> QED BY <2>1, <2>2
<1> QED BY <1>4, <1>5 DEF r

\* Taking out one element leaves the others, once each.
LEMMA RemoveAtIs ==
    ASSUME NEW S, NEW s \in Seq(S), IsInjective(s), NEW p \in 1 .. Len(s)
    PROVE  /\ RemoveAt(s, p) \in Seq(S) /\ IsInjective(RemoveAt(s, p))
           /\ ToSet(RemoveAt(s, p)) = ToSet(s) \ {s[p]}
<1> DEFINE r == RemoveAt(s, p)
<1>1. /\ r \in Seq(S) /\ Len(r) = Len(s) - 1
      /\ \A j \in 1 .. Len(s) - 1 : r[j] = IF j < p THEN s[j] ELSE s[j + 1]
  BY RemoveAtElements
<1> HIDE DEF r
<1>2. DOMAIN r = 1 .. Len(s) - 1 /\ DOMAIN s = 1 .. Len(s)
  BY <1>1
<1>3. \A a, b \in 1 .. Len(s) : s[a] = s[b] => a = b
  BY <1>2 DEF IsInjective
<1>4. \A a, b \in 1 .. Len(s) - 1 : r[a] = r[b] => a = b
  BY <1>1, <1>3
<1>5. \A a \in 1 .. Len(s) - 1 : r[a] # s[p] /\ \E b \in 1 .. Len(s) : r[a] = s[b]
  BY <1>1, <1>3
<1>6. ASSUME NEW b \in 1 .. Len(s), s[b] # s[p]
      PROVE  \E a \in 1 .. Len(s) - 1 : r[a] = s[b]
  <2>1. CASE b < p
    <3>1. b \in 1 .. Len(s) - 1 /\ r[b] = s[b]
      BY <1>1, <2>1
    <3> QED BY <3>1
  <2>2. CASE b > p
    <3>1. b - 1 \in 1 .. Len(s) - 1 /\ r[b - 1] = s[b]
      BY <1>1, <2>2
    <3> QED BY <3>1
  <2> QED BY <1>6, <2>1, <2>2
<1>7. IsInjective(r)
  BY <1>2, <1>4 DEF IsInjective
<1>8. ToSet(r) = ToSet(s) \ {s[p]}
  <2>1. /\ ToSet(r) = {r[a] : a \in 1 .. Len(s) - 1}
        /\ ToSet(s) = {s[b] : b \in 1 .. Len(s)}
    BY <1>2 DEF ToSet
  <2>2. ASSUME NEW x \in ToSet(r) PROVE x \in ToSet(s) \ {s[p]}
    BY <2>1, <2>2, <1>5
  <2>3. ASSUME NEW x \in ToSet(s) \ {s[p]} PROVE x \in ToSet(r)
    <3>1. PICK b \in 1 .. Len(s) : x = s[b]
      BY <2>1
    <3>2. PICK a \in 1 .. Len(s) - 1 : r[a] = s[b]
      BY <1>6, <2>3, <3>1
    <3> QED BY <2>1, <3>1, <3>2
  <2> QED BY <2>2, <2>3
<1> QED BY <1>1, <1>7, <1>8 DEF r

\* What is at the place and behind it moves back by one.
LEMMA InsertAtElements ==
    ASSUME NEW S, NEW s \in Seq(S), NEW p \in 1 .. Len(s) + 1, NEW e \in S
    PROVE  /\ InsertAt(s, p, e) \in Seq(S) /\ Len(InsertAt(s, p, e)) = Len(s) + 1
           /\ \A j \in 1 .. Len(s) + 1 :
                InsertAt(s, p, e)[j] =
                    IF j < p THEN s[j] ELSE IF j = p THEN e ELSE s[j - 1]
<1> DEFINE r == InsertAt(s, p, e)
<1> DEFINE a == SubSeq(s, 1, p - 1)
           b == SubSeq(s, p, Len(s))
           c == a \o <<e>>
<1>1. a \in Seq(S) /\ Len(a) = p - 1 /\ \A j \in 1 .. p - 1 : a[j] = s[j]
  BY DEF a
<1>2. /\ b \in Seq(S) /\ Len(b) = Len(s) - (p - 1)
      /\ \A j \in 1 .. Len(s) - (p - 1) : b[j] = s[j + (p - 1)]
  BY DEF b
<1>3. c \in Seq(S) /\ Len(c) = p /\ c[p] = e /\ \A j \in 1 .. p - 1 : c[j] = s[j]
  BY <1>1
<1>4. r = c \o b
  BY DEF InsertAt
<1> HIDE DEF a, b, c, r
<1>5. /\ r \in Seq(S) /\ Len(r) = p + (Len(s) - (p - 1))
      /\ \A j \in 1 .. p + (Len(s) - (p - 1)) : r[j] = IF j <= p THEN c[j] ELSE b[j - p]
  <2>1. /\ c \o b \in Seq(S) /\ Len(c \o b) = Len(c) + Len(b)
        /\ \A j \in 1 .. Len(c) + Len(b) :
             (c \o b)[j] = IF j <= Len(c) THEN c[j] ELSE b[j - Len(c)]
    BY <1>2, <1>3, ConcatProperties
  <2> QED BY <1>2, <1>3, <1>4, <2>1, Zenon
<1>6. ASSUME NEW j \in 1 .. Len(s) + 1
      PROVE  r[j] = IF j < p THEN s[j] ELSE IF j = p THEN e ELSE s[j - 1]
  <2> j \in 1 .. p + (Len(s) - (p - 1))
    OBVIOUS
  <2>1. CASE j < p
    BY <1>3, <1>5, <2>1
  <2>2. CASE j = p
    BY <1>3, <1>5, <2>2
  <2>3. CASE j > p
    <3>1. j - p \in 1 .. Len(s) - (p - 1) /\ (j - p) + (p - 1) = j - 1
      BY <2>3
    <3>2. b[j - p] = s[j - 1]
      BY <1>2, <3>1
    <3> QED BY <1>5, <2>3, <3>2
  <2> QED BY <2>1, <2>2, <2>3
<1> QED BY <1>5, <1>6 DEF r

\* Putting in an element that was not there.
LEMMA InsertAtIs ==
    ASSUME NEW S, NEW s \in Seq(S), IsInjective(s), NEW p \in 1 .. Len(s) + 1,
           NEW e \in S, e \notin ToSet(s)
    PROVE  /\ InsertAt(s, p, e) \in Seq(S) /\ IsInjective(InsertAt(s, p, e))
           /\ ToSet(InsertAt(s, p, e)) = ToSet(s) \cup {e}
<1> DEFINE r == InsertAt(s, p, e)
<1>1. /\ r \in Seq(S) /\ Len(r) = Len(s) + 1
      /\ \A j \in 1 .. Len(s) + 1 :
           r[j] = IF j < p THEN s[j] ELSE IF j = p THEN e ELSE s[j - 1]
  BY InsertAtElements
<1> HIDE DEF r
<1>2. DOMAIN r = 1 .. Len(s) + 1 /\ DOMAIN s = 1 .. Len(s)
  BY <1>1
<1>3. /\ \A a, b \in 1 .. Len(s) : s[a] = s[b] => a = b
      /\ \A a \in 1 .. Len(s) : s[a] # e
  BY <1>2 DEF IsInjective, ToSet
<1>4. ASSUME NEW a \in 1 .. Len(s) + 1, NEW b \in 1 .. Len(s) + 1, r[a] = r[b]
      PROVE  a = b
  <2> DEFINE Old(j) == IF j < p THEN j ELSE j - 1
  <2>1. \A j \in 1 .. Len(s) + 1 : j # p => Old(j) \in 1 .. Len(s) /\ r[j] = s[Old(j)]
    BY <1>1
  <2>2. CASE a = p \/ b = p
    <3>1. r[p] = e
      BY <1>1
    <3> QED BY <1>3, <1>4, <2>1, <2>2, <3>1
  <2>3. CASE a # p /\ b # p
    <3>1. Old(a) = Old(b)
      BY <1>3, <1>4, <2>1, <2>3
    <3> QED BY <2>3, <3>1
  <2> QED BY <2>2, <2>3
<1>5. \A a \in 1 .. Len(s) + 1 : r[a] = e \/ \E b \in 1 .. Len(s) : r[a] = s[b]
  <2> TAKE a \in 1 .. Len(s) + 1
  <2>1. CASE a = p
    BY <1>1, <2>1
  <2>2. CASE a < p
    BY <1>1, <2>2
  <2>3. CASE a > p
    <3>1. a - 1 \in 1 .. Len(s) /\ r[a] = s[a - 1]
      BY <1>1, <2>3
    <3> QED BY <3>1
  <2> QED BY <2>1, <2>2, <2>3
<1>6. ASSUME NEW b \in 1 .. Len(s)
      PROVE  \E a \in 1 .. Len(s) + 1 : r[a] = s[b]
  <2>1. CASE b < p
    <3>1. b \in 1 .. Len(s) + 1 /\ r[b] = s[b]
      BY <1>1, <2>1
    <3> QED BY <3>1
  <2>2. CASE b >= p
    <3>1. b + 1 \in 1 .. Len(s) + 1 /\ r[b + 1] = s[b]
      BY <1>1, <2>2
    <3> QED BY <3>1
  <2> QED BY <2>1, <2>2
<1>7. r[p] = e
  BY <1>1
<1>8. IsInjective(r)
  BY <1>2, <1>4 DEF IsInjective
<1>9. ToSet(r) = ToSet(s) \cup {e}
  <2>1. /\ ToSet(r) = {r[a] : a \in 1 .. Len(s) + 1}
        /\ ToSet(s) = {s[b] : b \in 1 .. Len(s)}
    BY <1>2 DEF ToSet
  <2> QED BY <2>1, <1>5, <1>6, <1>7
<1> QED BY <1>1, <1>8, <1>9 DEF r

\* An element in front of a list.
LEMMA ConsIs ==
    ASSUME NEW S, NEW s \in Seq(S), NEW e \in S
    PROVE  /\ <<e>> \o s \in Seq(S) /\ Len(<<e>> \o s) = Len(s) + 1
           /\ \A j \in 1 .. Len(s) + 1 : (<<e>> \o s)[j] = IF j = 1 THEN e ELSE s[j - 1]
           /\ ToSet(<<e>> \o s) = ToSet(s) \cup {e}
           /\ Head(<<e>> \o s) = e /\ <<e>> \o s # <<>>
<1> DEFINE r == <<e>> \o s
<1>1. r \in Seq(S) /\ Len(r) = Len(s) + 1 /\ Len(s) \in Nat
  OBVIOUS
<1>2. \A j \in 1 .. Len(s) + 1 : r[j] = IF j = 1 THEN e ELSE s[j - 1]
  OBVIOUS
<1> HIDE DEF r
<1>3. DOMAIN r = 1 .. Len(s) + 1 /\ DOMAIN s = 1 .. Len(s)
  BY <1>1
<1>4. \A j \in 1 .. Len(s) : j + 1 \in 1 .. Len(s) + 1 /\ r[j + 1] = s[j]
  BY <1>1, <1>2
<1>5. \A j \in 1 .. Len(s) + 1 : j = 1 \/ (j - 1 \in 1 .. Len(s) /\ r[j] = s[j - 1])
  BY <1>1, <1>2
<1>6. ToSet(r) = ToSet(s) \cup {e}
  <2>1. 1 \in 1 .. Len(s) + 1 /\ r[1] = e
    BY <1>1, <1>2
  <2>2. ToSet(r) = {r[j] : j \in 1 .. Len(s) + 1} /\ ToSet(s) = {s[j] : j \in 1 .. Len(s)}
    BY <1>3 DEF ToSet
  <2>3. ASSUME NEW x \in ToSet(r) PROVE x \in ToSet(s) \cup {e}
    <3>1. PICK j \in 1 .. Len(s) + 1 : x = r[j]
      BY <2>2
    <3> QED BY <1>5, <2>1, <2>2, <3>1
  <2>4. ASSUME NEW x \in ToSet(s) \cup {e} PROVE x \in ToSet(r)
    BY <1>4, <2>1, <2>2
  <2> QED BY <2>3, <2>4
<1>7. r # <<>> /\ Head(r) = e
  BY <1>1, <1>2
<1> QED BY <1>1, <1>2, <1>6, <1>7 DEF r

\* A part of the elements of a list is no more than its length.
LEMMA PartOfList ==
    ASSUME NEW S, NEW s \in Seq(S), NEW A \in SUBSET ToSet(s)
    PROVE  Cardinality(A) \in 0 .. Len(s)
<1>1. s \in Surjection(1 .. Len(s), ToSet(s))
  BY DEF Surjection, ToSet
<1>2. IsFiniteSet(1 .. Len(s)) /\ Cardinality(1 .. Len(s)) = Len(s) /\ Len(s) \in Nat
  <2>1. Len(s) \in Nat /\ 1 \in Int /\ Len(s) \in Int
    OBVIOUS
  <2>2. /\ IsFiniteSet(1 .. Len(s))
        /\ Cardinality(1 .. Len(s)) = IF 1 > Len(s) THEN 0 ELSE (Len(s) - 1) + 1
    BY <2>1, FS_Interval
  <2> QED BY <2>1, <2>2
<1>3. IsFiniteSet(ToSet(s)) /\ Cardinality(ToSet(s)) <= Len(s)
  BY <1>1, <1>2, FS_Surjection
<1>4. /\ IsFiniteSet(A) /\ Cardinality(A) <= Cardinality(ToSet(s))
      /\ Cardinality(A) \in Nat /\ Cardinality(ToSet(s)) \in Nat
  BY <1>3, FS_Subset, FS_CardinalityType
<1> QED BY <1>2, <1>3, <1>4

-----------------------------------------------------------------------------
(* Sums of integers over finite sets, as the fold of the community modules *)
(* computes them.  Induction on finite sets with no operator to            *)
(* instantiate: a set with a bad subset has a least bad subset.            *)

\* A set of finite sets has one that contains no other.
LEMMA LeastSet ==
    ASSUME NEW T, IsFiniteSet(T), NEW B \in SUBSET (SUBSET T), B # {}
    PROVE  \E s \in B : \A r \in SUBSET s : r # s => r \notin B
<1> DEFINE R == StrictSubsetOrdering(T)
           F == FiniteSubsetsOf(T)
<1>1. IsWellFoundedOn(R, F)
  BY FS_StrictSubsetOrderingWellFounded
<1>2. B \subseteq F
  BY FS_Subset DEF FiniteSubsetsOf
<1>3. PICK s \in B : \A r \in B : ~ (<<r, s>> \in R)
  <2> HIDE DEF R, F
  <2> QED BY <1>1, <1>2, WFMin
<1>4. ASSUME NEW r \in SUBSET s, r # s, r \in B PROVE FALSE
  <2>1. r \in SUBSET T /\ s \in SUBSET T
    BY <1>4
  <2>2. <<r, s>> \in R
    BY <1>4, <2>1 DEF StrictSubsetOrdering
  <2> QED BY <1>3, <1>4, <2>2
<1> QED BY <1>3, <1>4

\* The sum of f over T, the elements taken in the order of CHOOSE.
Sum(f, T) == FoldFunctionOnSet(+, 0, f, T)
Some(T)   == CHOOSE x \in T : TRUE

\* How the sums over the parts of T depend on each other.
Sums(f, T, g) ==
    g = [s \in SUBSET T |-> IF s = {} THEN 0 ELSE f[Some(s)] + g[s \ {Some(s)}]]

\* The fold is the sum at T of the function CHOOSE finds.
LEMMA SumIs == ASSUME NEW f, NEW T PROVE Sum(f, T) = (CHOOSE g : Sums(f, T, g))[T]
BY DEF Sum, FoldFunctionOnSet, MapThenFoldSet, Sums, Some

\* There is one such function at most, whatever set it is about.
LEMMA SumsAgree ==
    ASSUME NEW T, IsFiniteSet(T), NEW f, NEW U \in SUBSET T, NEW g, NEW h,
           Sums(f, T, g), Sums(f, U, h), NEW q \in SUBSET U
    PROVE  g[q] = h[q]
<1>1. SUFFICES ASSUME g[q] # h[q] PROVE FALSE
  OBVIOUS
<1> DEFINE B == {s \in SUBSET U : g[s] # h[s]}
<1>2. PICK s \in B : \A r \in SUBSET s : r # s => r \notin B
  <2>1. B # {} /\ B \in SUBSET (SUBSET T)
    BY <1>1
  <2> HIDE DEF B
  <2> QED BY <2>1, LeastSet
<1>3. s \in SUBSET U /\ s \in SUBSET T /\ g[s] # h[s]
  OBVIOUS
<1>4. /\ g[s] = IF s = {} THEN 0 ELSE f[Some(s)] + g[s \ {Some(s)}]
      /\ h[s] = IF s = {} THEN 0 ELSE f[Some(s)] + h[s \ {Some(s)}]
  BY <1>3 DEF Sums
<1>5. s # {}
  BY <1>3, <1>4
<1>6. s \ {Some(s)} # s /\ s \ {Some(s)} \in SUBSET U
  BY <1>3, <1>5 DEF Some
<1>7. g[s \ {Some(s)}] = h[s \ {Some(s)}]
  BY <1>2, <1>6
<1> QED BY <1>3, <1>4, <1>5, <1>7

\* There is one over every finite set: over the least without one, the sums over
\* its parts would make one.
LEMMA SumsExist ==
    ASSUME NEW T, IsFiniteSet(T), NEW f, NEW q \in SUBSET T
    PROVE  \E g : Sums(f, q, g)
<1>1. SUFFICES ASSUME ~\E g : Sums(f, q, g) PROVE FALSE
  OBVIOUS
<1> DEFINE B == {s \in SUBSET T : ~\E g : Sums(f, s, g)}
<1>2. PICK u \in B : \A r \in SUBSET u : r # u => r \notin B
  <2>1. B # {} /\ B \in SUBSET (SUBSET T)
    BY <1>1
  <2> HIDE DEF B
  <2> QED BY <2>1, LeastSet
<1>3. u \in SUBSET T /\ (~\E g : Sums(f, u, g)) /\ IsFiniteSet(u)
  BY FS_Subset
<1>4. ASSUME NEW s \in SUBSET u, s # u
      PROVE  Sum(f, s) = IF s = {} THEN 0 ELSE f[Some(s)] + Sum(f, s \ {Some(s)})
  <2>1. PICK g : g = CHOOSE x : Sums(f, s, x)
    OBVIOUS
  <2>2. Sums(f, s, g) /\ Sum(f, s) = g[s]
    <3>1. s \in SUBSET T /\ s \notin B
      BY <1>2, <1>3, <1>4
    <3>2. \E x : Sums(f, s, x)
      BY <3>1
    <3> QED BY <2>1, <3>2, SumIs
  <2>3. g[s] = IF s = {} THEN 0 ELSE f[Some(s)] + g[s \ {Some(s)}]
    BY <2>2 DEF Sums
  <2>4. CASE s # {}
    <3> DEFINE r == s \ {Some(s)}
    <3>1. r \in SUBSET s /\ r \in SUBSET u /\ r # u /\ IsFiniteSet(s)
      BY <1>3, <1>4, FS_Subset
    <3>2. PICK h : h = CHOOSE x : Sums(f, r, x)
      OBVIOUS
    <3>3. Sums(f, r, h) /\ Sum(f, r) = h[r]
      <4>1. r \in SUBSET T /\ r \notin B
        BY <1>2, <1>3, <3>1
      <4>2. \E x : Sums(f, r, x)
        BY <4>1
      <4> QED BY <3>2, <4>2, SumIs
    <3> HIDE DEF r
    <3>4. g[r] = h[r]
      BY <2>2, <3>1, <3>3, SumsAgree
    <3> QED BY <2>2, <2>3, <2>4, <3>3, <3>4 DEF r
  <2> QED BY <2>2, <2>3, <2>4
<1>5. PICK g : g = [s \in SUBSET u |-> IF s # u THEN Sum(f, s)
                      ELSE IF s = {} THEN 0 ELSE f[Some(s)] + Sum(f, s \ {Some(s)})]
  OBVIOUS
<1>6. ASSUME NEW s \in SUBSET u
      PROVE  g[s] = IF s = {} THEN 0 ELSE f[Some(s)] + g[s \ {Some(s)}]
  <2>1. g[s] = IF s = {} THEN 0 ELSE f[Some(s)] + Sum(f, s \ {Some(s)})
    BY <1>4, <1>5
  <2>2. s # {} => s \ {Some(s)} \in SUBSET u /\ s \ {Some(s)} # u
    BY DEF Some
  <2>3. s # {} => g[s \ {Some(s)}] = Sum(f, s \ {Some(s)})
    BY <1>5, <2>2
  <2> QED BY <2>1, <2>3
<1>7. g = [s \in SUBSET u |-> IF s = {} THEN 0 ELSE f[Some(s)] + g[s \ {Some(s)}]]
  BY <1>5, <1>6
<1> QED BY <1>3, <1>7 DEF Sums

\* The sum over a finite set is one of its elements and the sum over the others.
LEMMA SumStep ==
    ASSUME NEW T, IsFiniteSet(T), NEW f
    PROVE  Sum(f, T) = IF T = {} THEN 0 ELSE f[Some(T)] + Sum(f, T \ {Some(T)})
<1> DEFINE r == T \ {Some(T)}
<1>1. IsFiniteSet(r) /\ r \in SUBSET T /\ T \in SUBSET T
  BY FS_Subset
<1> HIDE DEF r
<1>2. PICK g : g = CHOOSE x : Sums(f, T, x)
  OBVIOUS
<1>3. PICK h : h = CHOOSE x : Sums(f, r, x)
  OBVIOUS
<1>4. Sums(f, T, g) /\ Sum(f, T) = g[T]
  BY <1>1, <1>2, SumsExist, SumIs
<1>5. Sums(f, r, h) /\ Sum(f, r) = h[r]
  BY <1>1, <1>3, SumsExist, SumIs
<1>6. g[r] = h[r]
  BY <1>1, <1>4, <1>5, SumsAgree
<1>7. g[T] = IF T = {} THEN 0 ELSE f[Some(T)] + g[T \ {Some(T)}]
  BY <1>1, <1>4 DEF Sums
<1> QED BY <1>4, <1>5, <1>6, <1>7 DEF r

\* Sums of integers: any element can be taken first.
LEMMA SumAdd ==
    ASSUME NEW T, IsFiniteSet(T), NEW f, \A x \in T : f[x] \in Int
    PROVE  /\ Sum(f, T) \in Int
           /\ Sum(f, {}) = 0
           /\ \A y \in T : Sum(f, T) = f[y] + Sum(f, T \ {y})
<1>1. ASSUME NEW q \in SUBSET T PROVE Sum(f, q) \in Int
  <2>1. SUFFICES ASSUME Sum(f, q) \notin Int PROVE FALSE
    OBVIOUS
  <2> DEFINE B == {s \in SUBSET T : Sum(f, s) \notin Int}
  <2>2. PICK s \in B : \A r \in SUBSET s : r # s => r \notin B
    <3>1. B # {} /\ B \in SUBSET (SUBSET T)
      BY <2>1
    <3> HIDE DEF B
    <3> QED BY <3>1, LeastSet
  <2>3. s \in SUBSET T /\ Sum(f, s) \notin Int /\ IsFiniteSet(s)
    BY FS_Subset
  <2>4. Sum(f, s) = IF s = {} THEN 0 ELSE f[Some(s)] + Sum(f, s \ {Some(s)})
    BY <2>3, SumStep
  <2>5. s # {}
    BY <2>3, <2>4
  <2>6. Some(s) \in s /\ f[Some(s)] \in Int
    BY <2>3, <2>5 DEF Some
  <2>7. s \ {Some(s)} \in SUBSET s /\ s \ {Some(s)} # s /\ s \ {Some(s)} \in SUBSET T
    BY <2>3, <2>6
  <2>8. Sum(f, s \ {Some(s)}) \in Int
    BY <2>2, <2>7
  <2> QED BY <2>3, <2>4, <2>5, <2>6, <2>8
<1>2. Sum(f, {}) = 0
  BY FS_EmptySet, SumStep
<1>3. ASSUME NEW q \in SUBSET T, NEW z \in q PROVE Sum(f, q) = f[z] + Sum(f, q \ {z})
  <2>1. SUFFICES ASSUME Sum(f, q) # f[z] + Sum(f, q \ {z}) PROVE FALSE
    OBVIOUS
  <2> DEFINE B == {s \in SUBSET T : \E y \in s : Sum(f, s) # f[y] + Sum(f, s \ {y})}
  <2>2. PICK s \in B : \A r \in SUBSET s : r # s => r \notin B
    <3>1. B # {} /\ B \in SUBSET (SUBSET T)
      BY <1>3, <2>1
    <3> HIDE DEF B
    <3> QED BY <3>1, LeastSet
  <2>3. PICK y \in s : Sum(f, s) # f[y] + Sum(f, s \ {y})
    OBVIOUS
  <2>4. s \in SUBSET T /\ IsFiniteSet(s)
    BY FS_Subset
  <2>5. PICK x : x = Some(s)
    OBVIOUS
  <2>6. Sum(f, s) = f[x] + Sum(f, s \ {x}) /\ x \in s
    BY <2>3, <2>4, <2>5, SumStep DEF Some
  <2>7. x # y
    BY <2>3, <2>6
  <2>8. s \ {x} \notin B /\ s \ {x} \in SUBSET T /\ s \ {y} \notin B /\ s \ {y} \in SUBSET T
    BY <2>2, <2>3, <2>4, <2>6
  <2>9. Sum(f, s \ {x}) = f[y] + Sum(f, (s \ {x}) \ {y})
    BY <2>3, <2>7, <2>8
  <2>10. Sum(f, s \ {y}) = f[x] + Sum(f, (s \ {y}) \ {x})
    BY <2>6, <2>7, <2>8
  <2>11. (s \ {y}) \ {x} = (s \ {x}) \ {y} /\ (s \ {x}) \ {y} \in SUBSET T
    BY <2>4
  <2>12. f[x] \in Int /\ f[y] \in Int /\ Sum(f, (s \ {x}) \ {y}) \in Int
    BY <1>1, <2>3, <2>4, <2>6, <2>11
  <2> HIDE DEF B
  <2>13. PICK a \in Int, b \in Int, c \in Int :
             a = f[x] /\ b = f[y] /\ c = Sum(f, (s \ {x}) \ {y})
    BY <2>12
  <2>14. Sum(f, s) = a + (b + c) /\ Sum(f, s \ {y}) = a + c
    BY <2>6, <2>9, <2>10, <2>11, <2>13
  <2>15. a + (b + c) = b + (a + c)
    OBVIOUS
  <2> QED BY <2>3, <2>13, <2>14, <2>15
<1>4. T \in SUBSET T
  OBVIOUS
<1> QED BY <1>1, <1>2, <1>3, <1>4

\* The sums along a list without repetition.
LEMMA SumOfPrefix ==
    ASSUME NEW S, NEW v \in Seq(S), IsInjective(v), NEW f \in [S -> Int],
           NEW i \in 0 .. Len(v)
    PROVE  /\ Sum(f, {v[j] : j \in 1 .. i}) \in Int
           /\ i = 0 => Sum(f, {v[j] : j \in 1 .. i}) = 0
           /\ i > 0 => Sum(f, {v[j] : j \in 1 .. i}) =
                          Sum(f, {v[j] : j \in 1 .. i - 1}) + f[v[i]]
<1> DEFINE T == {v[j] : j \in 1 .. i}
<1>1. IsFiniteSet(T)
  <2>1. i \in Int /\ 1 \in Int
    OBVIOUS
  <2>2. IsFiniteSet(1 .. i)
    BY <2>1, FS_Interval
  <2>3. [j \in 1 .. i |-> v[j]] \in Surjection(1 .. i, T)
    BY DEF Surjection
  <2> QED BY <2>2, <2>3, FS_Surjection
<1>2. \A x \in T : f[x] \in Int
  OBVIOUS
<1>3. i = 0 => T = {}
  OBVIOUS
<1>4. i > 0 => v[i] \in T /\ T \ {v[i]} = {v[j] : j \in 1 .. i - 1} /\ f[v[i]] \in Int
  <2>1. SUFFICES ASSUME i > 0
                 PROVE v[i] \in T /\ T \ {v[i]} = {v[j] : j \in 1 .. i - 1} /\ f[v[i]] \in Int
    OBVIOUS
  <2>2. \A j \in 1 .. i - 1 : v[j] # v[i]
    BY <2>1 DEF IsInjective
  <2>3. \A j \in 1 .. i : j = i \/ j \in 1 .. i - 1
    OBVIOUS
  <2>4. \A j \in 1 .. i - 1 : j \in 1 .. i
    OBVIOUS
  <2>5. v[i] \in T
    BY <2>1
  <2>6. T \ {v[i]} \subseteq {v[j] : j \in 1 .. i - 1}
    <3>1. SUFFICES ASSUME NEW x \in T, x # v[i] PROVE x \in {v[j] : j \in 1 .. i - 1}
      OBVIOUS
    <3>2. PICK j \in 1 .. i : x = v[j]
      OBVIOUS
    <3> QED BY <2>3, <3>1, <3>2
  <2>7. {v[j] : j \in 1 .. i - 1} \subseteq T \ {v[i]}
    BY <2>2, <2>4
  <2> HIDE DEF T
  <2> QED BY <1>2, <2>5, <2>6, <2>7
<1> HIDE DEF T
<1>5. Sum(f, T) \in Int /\ Sum(f, {}) = 0 /\ \A y \in T : Sum(f, T) = f[y] + Sum(f, T \ {y})
  BY <1>1, <1>2, SumAdd
<1>6. i > 0 => Sum(f, T) = Sum(f, {v[j] : j \in 1 .. i - 1}) + f[v[i]]
  <2>1. SUFFICES ASSUME i > 0 PROVE Sum(f, T) = Sum(f, {v[j] : j \in 1 .. i - 1}) + f[v[i]]
    OBVIOUS
  <2>2. Sum(f, T) = f[v[i]] + Sum(f, T \ {v[i]}) /\ T \ {v[i]} = {v[j] : j \in 1 .. i - 1}
    BY <1>4, <1>5, <2>1
  <2>3. Sum(f, T \ {v[i]}) \in Int
    <3>1. IsFiniteSet(T \ {v[i]}) /\ \A x \in T \ {v[i]} : f[x] \in Int
      BY <1>1, <1>2, FS_Subset
    <3> QED BY <3>1, SumAdd
  <2>4. PICK a \in Int, b \in Int : a = f[v[i]] /\ b = Sum(f, T \ {v[i]})
    BY <1>4, <2>1, <2>3
  <2>5. a + b = b + a
    OBVIOUS
  <2> QED BY <2>2, <2>4, <2>5
<1> QED BY <1>3, <1>5, <1>6 DEF T

-----------------------------------------------------------------------------
(* The deltas of a list: P[i] is the sum of those of the first i elements. *)

Along(v, f, P) ==
    /\ P \in [0 .. Len(v) -> Int] /\ P[0] = 0
    /\ \A i \in 1 .. Len(v) : P[i] = P[i - 1] + f[v[i]]

\* There are such sums, and they are those the fold computes.
LEMMA AlongIs ==
    ASSUME NEW S, NEW v \in Seq(S), IsInjective(v), NEW f \in [S -> Int]
    PROVE  /\ \E P : Along(v, f, P)
           /\ \A P : Along(v, f, P) =>
                  \A i \in 0 .. Len(v) : FoldFunctionOnSet(+, 0, f, {v[j] : j \in 1 .. i}) = P[i]
<1> DEFINE D(i) == Sum(f, {v[j] : j \in 1 .. i})
<1>0. Len(v) \in Nat
  OBVIOUS
<1>1. /\ \A i \in 0 .. Len(v) : D(i) \in Int
      /\ D(0) = 0
      /\ \A i \in 1 .. Len(v) : D(i) = D(i - 1) + f[v[i]]
  <2>1. ASSUME NEW i \in 0 .. Len(v)
        PROVE  D(i) \in Int /\ (i = 0 => D(i) = 0) /\ (i > 0 => D(i) = D(i - 1) + f[v[i]])
    BY SumOfPrefix
  <2> HIDE DEF D
  <2>2. 0 \in 0 .. Len(v) /\ \A i \in 1 .. Len(v) : i \in 0 .. Len(v) /\ i > 0
    BY <1>0
  <2> QED BY <2>1, <2>2
<1>2. \E P : Along(v, f, P)
  <2>1. PICK P : P = [i \in 0 .. Len(v) |-> D(i)]
    OBVIOUS
  <2> HIDE DEF D
  <2>2. \A i \in 1 .. Len(v) : P[i] = D(i) /\ P[i - 1] = D(i - 1)
    BY <2>1
  <2>3. P \in [0 .. Len(v) -> Int] /\ P[0] = 0
    BY <1>0, <1>1, <2>1
  <2> QED BY <1>1, <2>2, <2>3 DEF Along
<1>3. ASSUME NEW P, Along(v, f, P), NEW i \in 0 .. Len(v) PROVE D(i) = P[i]
  <2>1. SUFFICES ASSUME D(i) # P[i] PROVE FALSE
    OBVIOUS
  <2> HIDE DEF D
  <2> DEFINE T == {n \in 0 .. Len(v) : D(n) # P[n]}
  <2>2. PICK x \in T : \A y \in T : x <= y
    <3>1. T \in SUBSET Nat /\ T # {}
      BY <1>0, <2>1
    <3> HIDE DEF T
    <3> QED BY <3>1, NatMin
  <2>3. x \in 0 .. Len(v) /\ D(x) # P[x]
    OBVIOUS
  <2>4. x > 0
    BY <1>1, <1>3, <2>3 DEF Along
  <2>5. x \in 1 .. Len(v) /\ x - 1 \in 0 .. Len(v) /\ ~(x <= x - 1)
    BY <1>0, <2>3, <2>4
  <2>6. D(x - 1) = P[x - 1]
    BY <2>2, <2>5
  <2>7. D(x) = D(x - 1) + f[v[x]] /\ P[x] = P[x - 1] + f[v[x]]
    BY <1>1, <1>3, <2>5 DEF Along
  <2> QED BY <2>3, <2>6, <2>7
<1> QED BY <1>2, <1>3 DEF Sum

\* With no negative delta the sums do not fall.
LEMMA AlongGrows ==
    ASSUME NEW S, NEW v \in Seq(S), NEW f \in [S -> Nat], NEW P, Along(v, f, P),
           NEW i \in 0 .. Len(v), NEW j \in 0 .. Len(v), i <= j
    PROVE  0 <= P[i] /\ P[i] <= P[j]
<1>0. Len(v) \in Nat
  OBVIOUS
<1>1. \A a \in 1 .. Len(v) : P[a - 1] <= P[a]
  <2>1. SUFFICES ASSUME NEW a \in 1 .. Len(v) PROVE P[a - 1] <= P[a]
    OBVIOUS
  <2>2. a - 1 \in 0 .. Len(v) /\ v[a] \in S
    OBVIOUS
  <2>3. P[a - 1] \in Int /\ f[v[a]] \in Nat /\ P[a] = P[a - 1] + f[v[a]]
    BY <2>2 DEF Along
  <2> QED BY <2>3
<1>2. ASSUME NEW a \in 0 .. Len(v), NEW b \in 0 .. Len(v), a <= b PROVE P[a] <= P[b]
  <2>1. SUFFICES ASSUME ~(P[a] <= P[b]) PROVE FALSE
    OBVIOUS
  <2> DEFINE T == {n \in a .. Len(v) : ~(P[a] <= P[n])}
  <2>2. PICK x \in T : \A y \in T : x <= y
    <3>1. T \in SUBSET Nat /\ T # {}
      BY <1>0, <1>2, <2>1
    <3> HIDE DEF T
    <3> QED BY <3>1, NatMin
  <2>3. x \in a .. Len(v) /\ ~(P[a] <= P[x]) /\ P[a] \in Int
    BY DEF Along
  <2>4. x # a
    BY <2>3
  <2>5. x \in 1 .. Len(v) /\ x - 1 \in a .. Len(v) /\ ~(x <= x - 1) /\ x - 1 \in 0 .. Len(v)
        /\ x \in 0 .. Len(v)
    BY <1>0, <2>3, <2>4
  <2>6. P[a] <= P[x - 1]
    BY <2>2, <2>5
  <2>7. P[x - 1] <= P[x] /\ P[x - 1] \in Int /\ P[x] \in Int
    BY <1>1, <2>5 DEF Along
  <2> QED BY <2>3, <2>6, <2>7
<1>3. P[0] <= P[i] /\ P[i] <= P[j] /\ P[0] = 0
  BY <1>0, <1>2 DEF Along
<1> QED BY <1>3

\* The elements with a sum below d are the first ones, as many as there are.
LEMMA AlongBelow ==
    ASSUME NEW S, NEW v \in Seq(S), IsInjective(v), NEW f \in [S -> Nat], NEW P,
           Along(v, f, P), NEW d \in Int,
           NEW A, A = {v[i] : i \in {n \in 1 .. Len(v) : P[n] < d}}
    PROVE  /\ Cardinality(A) \in 0 .. Len(v)
           /\ \A i \in 1 .. Len(v) : P[i] < d <=> i <= Cardinality(A)
<1>0. Len(v) \in Nat
  OBVIOUS
<1>1. \E m \in 0 .. Len(v) : \A i \in 1 .. Len(v) : P[i] < d <=> i <= m
  <2> DEFINE T == {n \in 1 .. Len(v) + 1 : n = Len(v) + 1 \/ ~(P[n] < d)}
  <2>1. PICK x \in T : \A y \in T : x <= y
    <3>1. T \in SUBSET Nat /\ Len(v) + 1 \in T
      BY <1>0
    <3> HIDE DEF T
    <3> QED BY <3>1, NatMin
  <2>2. x - 1 \in 0 .. Len(v) /\ x \in 1 .. Len(v) + 1
    BY <1>0
  <2>3. ASSUME NEW i \in 1 .. Len(v) PROVE P[i] < d <=> i <= x - 1
    <3>1. CASE i <= x - 1
      <4>1. i \notin T /\ i \in 1 .. Len(v) + 1 /\ i # Len(v) + 1
        BY <1>0, <2>1, <2>2, <3>1
      <4> QED BY <3>1, <4>1
    <3>2. CASE ~(i <= x - 1)
      <4>1. x \in 0 .. Len(v) /\ x <= i /\ i \in 0 .. Len(v) /\ x # Len(v) + 1
        BY <1>0, <2>2, <3>2
      <4>2. ~(P[x] < d)
        BY <4>1
      <4>3. P[x] <= P[i] /\ P[x] \in Int /\ P[i] \in Int
        BY <4>1, AlongGrows DEF Along
      <4> QED BY <3>2, <4>2, <4>3
    <3> QED BY <3>1, <3>2
  <2> HIDE DEF T
  <2> QED BY <2>2, <2>3
<1>2. PICK m \in 0 .. Len(v) : \A i \in 1 .. Len(v) : P[i] < d <=> i <= m
  BY <1>1
<1>3. {n \in 1 .. Len(v) : P[n] < d} = 1 .. m
  BY <1>0, <1>2
<1>4. A = {v[i] : i \in 1 .. m}
  BY <1>3
<1>5. Cardinality(A) = m
  <2>1. PICK h : h = [i \in 1 .. m |-> v[i]]
    OBVIOUS
  <2>2. h \in Bijection(1 .. m, A)
    <3>1. h \in [1 .. m -> A] /\ \A i \in 1 .. m : h[i] = v[i]
      BY <1>4, <2>1
    <3>2. \A a, b \in 1 .. m : h[a] = h[b] => a = b
      <4>1. DOMAIN v = 1 .. Len(v) /\ \A a \in 1 .. m : a \in 1 .. Len(v)
        BY <1>0
      <4>2. \A a, b \in 1 .. Len(v) : v[a] = v[b] => a = b
        BY <4>1 DEF IsInjective
      <4> QED BY <3>1, <4>1, <4>2
    <3>3. \A x \in A : \E i \in 1 .. m : h[i] = x
      BY <1>4, <3>1
    <3> QED BY <3>1, <3>2, <3>3 DEF Bijection, Injection, Surjection, IsInjective
  <2>3. m \in Nat /\ ExistsBijection(1 .. m, A)
    <3>1. m \in Nat
      BY <1>0
    <3>2. Bijection(1 .. m, A) # {}
      BY <2>2
    <3> QED BY <3>1, <3>2 DEF ExistsBijection
  <2> QED BY <2>3, FS_CountingElements
<1> QED BY <1>2, <1>5

\* The sums are integers, and each adds a delta to the one before.
LEMMA AlongFacts ==
    ASSUME NEW S, NEW v \in Seq(S), NEW f \in [S -> Int], NEW P, Along(v, f, P)
    PROVE  /\ \A i \in 0 .. Len(v) : P[i] \in Int
           /\ P[0] = 0
           /\ \A i \in 1 .. Len(v) : P[i] = P[i - 1] + f[v[i]]
           /\ \A i \in 1 .. Len(v) : f[v[i]] \in Int
<1>1. \A i \in 1 .. Len(v) : v[i] \in S
  OBVIOUS
<1>2. \A i \in 1 .. Len(v) : f[v[i]] \in Int
  BY <1>1
<1>3. \A i \in 0 .. Len(v) : P[i] \in Int
  BY DEF Along
<1>4. P[0] = 0 /\ \A i \in 1 .. Len(v) : P[i] = P[i - 1] + f[v[i]]
  BY DEF Along
<1> QED BY <1>2, <1>3, <1>4

\* r is v with e behind its first n elements.
IsWith(S, v, n, e, r) ==
    /\ r \in Seq(S) /\ Len(r) = Len(v) + 1
    /\ \A j \in 1 .. Len(v) + 1 :
         r[j] = IF j < n + 1 THEN v[j] ELSE IF j = n + 1 THEN e ELSE v[j - 1]

\* InsertAt does that.
LEMMA InsertIsWith ==
    ASSUME NEW S, NEW v \in Seq(S), NEW n \in 0 .. Len(v), NEW e \in S
    PROVE  IsWith(S, v, n, e, InsertAt(v, n + 1, e))
<1>1. n + 1 \in 1 .. Len(v) + 1
  OBVIOUS
<1> QED BY <1>1, InsertAtElements DEF IsWith

\* The deltas with a new element e behind the first n, which takes its own from
\* the one behind it; and the sums along the list with it.
DeltasWith(S, v, f, n, own, e) ==
    [u \in S |-> IF u = e THEN own
                 ELSE IF n < Len(v) /\ u = v[n + 1] THEN f[u] - own ELSE f[u]]

SumsWith(v, P, n, d) ==
    [i \in 0 .. Len(v) + 1 |->
        IF i <= n THEN P[i] ELSE IF i = n + 1 THEN d ELSE P[i - 1]]

\* An element is put in behind the first n, with what it adds to their sum: the
\* other sums are as before.
LEMMA AlongInsert ==
    ASSUME NEW S, NEW v \in Seq(S), IsInjective(v), NEW f \in [S -> Int], NEW P,
           Along(v, f, P), NEW n \in 0 .. Len(v), NEW d \in Int, NEW e \in S,
           e \notin ToSet(v)
    PROVE  Along(InsertAt(v, n + 1, e), DeltasWith(S, v, f, n, d - P[n], e),
                 SumsWith(v, P, n, d))
<1> DEFINE r == InsertAt(v, n + 1, e)
           h == DeltasWith(S, v, f, n, d - P[n], e)
           Q == SumsWith(v, P, n, d)
<1>0. Len(v) \in Nat /\ n \in Nat /\ n <= Len(v) /\ n + 1 \in 1 .. Len(v) + 1
  OBVIOUS
<1>1. /\ r \in Seq(S) /\ Len(r) = Len(v) + 1
      /\ \A j \in 1 .. Len(v) + 1 :
           r[j] = IF j < n + 1 THEN v[j] ELSE IF j = n + 1 THEN e ELSE v[j - 1]
  <2>1. IsWith(S, v, n, e, r)
    BY InsertIsWith
  <2> HIDE DEF r, h, Q
  <2> QED BY <2>1 DEF IsWith
<1> HIDE DEF r, h, Q
<1>2. /\ \A i \in 0 .. Len(v) : P[i] \in Int
      /\ P[0] = 0
      /\ \A i \in 1 .. Len(v) : P[i] = P[i - 1] + f[v[i]]
      /\ \A i \in 1 .. Len(v) : f[v[i]] \in Int
  BY AlongFacts
<1>3. /\ h[e] = d - P[n]
      /\ \A i \in 1 .. Len(v) : i # n + 1 => h[v[i]] = f[v[i]]
      /\ n < Len(v) => h[v[n + 1]] = f[v[n + 1]] - (d - P[n])
  <2>1. \A a, b \in 1 .. Len(v) : v[a] = v[b] => a = b
    <3>1. DOMAIN v = 1 .. Len(v)
      OBVIOUS
    <3> QED BY <3>1 DEF IsInjective
  <2>2. \A a \in 1 .. Len(v) : v[a] # e /\ v[a] \in S
    BY DEF ToSet
  <2>3. h[e] = d - P[n]
    BY DEF h, DeltasWith
  <2>4. ASSUME NEW i \in 1 .. Len(v), i # n + 1 PROVE h[v[i]] = f[v[i]]
    <3>1. ~(n < Len(v) /\ v[i] = v[n + 1])
      <4>1. n < Len(v) => n + 1 \in 1 .. Len(v)
        BY <1>0
      <4> QED BY <2>1, <2>4, <4>1
    <3> QED BY <2>2, <3>1 DEF h, DeltasWith
  <2>5. ASSUME n < Len(v) PROVE h[v[n + 1]] = f[v[n + 1]] - (d - P[n])
    <3>1. n + 1 \in 1 .. Len(v)
      BY <1>0, <2>5
    <3> QED BY <2>2, <2>5, <3>1 DEF h, DeltasWith
  <2> QED BY <2>3, <2>4, <2>5
<1>4. /\ Q \in [0 .. Len(v) + 1 -> Int] /\ Q[0] = 0
      /\ \A i \in 0 .. n : Q[i] = P[i]
      /\ Q[n + 1] = d
      /\ \A i \in n + 2 .. Len(v) + 1 : Q[i] = P[i - 1]
  <2>1. ASSUME NEW i \in 0 .. Len(v) + 1
        PROVE  /\ (IF i <= n THEN P[i] ELSE IF i = n + 1 THEN d ELSE P[i - 1]) \in Int
               /\ Q[i] = IF i <= n THEN P[i] ELSE IF i = n + 1 THEN d ELSE P[i - 1]
    <3>1. /\ i <= n => i \in 0 .. Len(v)
          /\ ~(i <= n) => i - 1 \in 0 .. Len(v)
      BY <1>0
    <3> QED BY <1>2, <3>1 DEF Q, SumsWith
  <2>2. /\ \A i \in 0 .. n : i \in 0 .. Len(v) + 1 /\ i <= n
        /\ n + 1 \in 0 .. Len(v) + 1 /\ ~(n + 1 <= n)
        /\ \A i \in n + 2 .. Len(v) + 1 : i \in 0 .. Len(v) + 1 /\ ~(i <= n) /\ i # n + 1
        /\ 0 \in 0 .. n
    BY <1>0
  <2>3. Q \in [0 .. Len(v) + 1 -> Int]
    BY <2>1 DEF Q, SumsWith
  <2> QED BY <1>2, <2>1, <2>2, <2>3
<1>5. ASSUME NEW i \in 1 .. Len(v) + 1 PROVE Q[i] = Q[i - 1] + h[r[i]]
  <2>1. CASE i <= n
    <3>1. i \in 1 .. Len(v) /\ i \in 0 .. n /\ i - 1 \in 0 .. n /\ i # n + 1 /\ i < n + 1
      BY <1>0, <2>1
    <3>2. r[i] = v[i]
      BY <1>1, <3>1
    <3> QED BY <1>2, <1>3, <1>4, <3>1, <3>2
  <2>2. CASE i = n + 1
    <3>1. n \in 0 .. n /\ n \in 0 .. Len(v) /\ i - 1 = n /\ ~(i < n + 1)
      BY <1>0, <2>2
    <3>2. r[i] = e /\ Q[i] = d /\ Q[i - 1] = P[n] /\ P[n] \in Int
      BY <1>1, <1>2, <1>4, <2>2, <3>1
    <3> QED BY <1>3, <3>2
  <2>3. CASE i = n + 2
    <3>1. /\ n < Len(v) /\ n + 1 \in 1 .. Len(v) /\ i - 1 = n + 1 /\ (n + 1) - 1 = n
          /\ i \in n + 2 .. Len(v) + 1 /\ ~(i < n + 1) /\ i # n + 1 /\ n \in 0 .. Len(v)
      BY <1>0, <2>3
    <3>2. r[i] = v[n + 1] /\ Q[i] = P[n + 1] /\ Q[i - 1] = d
      BY <1>1, <1>4, <3>1
    <3>3. h[v[n + 1]] = f[v[n + 1]] - (d - P[n])
      BY <1>3, <3>1
    <3>4. P[n + 1] = P[n] + f[v[n + 1]] /\ P[n] \in Int /\ f[v[n + 1]] \in Int
      BY <1>2, <3>1
    <3> QED BY <3>2, <3>3, <3>4
  <2>4. CASE i > n + 2
    <3>1. /\ i - 1 \in 1 .. Len(v) /\ i - 1 \in n + 2 .. Len(v) + 1
          /\ i \in n + 2 .. Len(v) + 1 /\ ~(i < n + 1) /\ i # n + 1 /\ i - 1 # n + 1
      BY <1>0, <2>4
    <3>2. r[i] = v[i - 1] /\ Q[i] = P[i - 1] /\ Q[i - 1] = P[(i - 1) - 1]
      BY <1>1, <1>4, <3>1
    <3>3. h[v[i - 1]] = f[v[i - 1]]
      BY <1>3, <3>1
    <3> QED BY <1>2, <3>1, <3>2, <3>3
  <2> QED BY <1>0, <2>1, <2>2, <2>3, <2>4
<1>6. Along(r, h, Q)
  BY <1>1, <1>4, <1>5 DEF Along
<1> QED BY <1>6 DEF r, h, Q

\* The deltas without the element at p, its own going to the one behind it.
DeltasWithout(S, v, f, p) ==
    [u \in S |-> IF u = v[p] THEN 0
                 ELSE IF p < Len(v) /\ u = v[p + 1] THEN f[u] + f[v[p]] ELSE f[u]]

SumsWithout(v, P, p) == [i \in 0 .. Len(v) - 1 |-> IF i < p THEN P[i] ELSE P[i + 1]]

\* An element is taken out: the other sums are as before.
LEMMA AlongRemove ==
    ASSUME NEW S, NEW v \in Seq(S), IsInjective(v), NEW f \in [S -> Int], NEW P,
           Along(v, f, P), NEW p \in 1 .. Len(v)
    PROVE  Along(RemoveAt(v, p), DeltasWithout(S, v, f, p), SumsWithout(v, P, p))
<1> DEFINE r == RemoveAt(v, p)
           h == DeltasWithout(S, v, f, p)
           Q == SumsWithout(v, P, p)
<1>0. Len(v) \in Nat /\ Len(v) > 0 /\ p \in Nat /\ p >= 1 /\ p <= Len(v)
  OBVIOUS
<1>1. /\ r \in Seq(S) /\ Len(r) = Len(v) - 1
      /\ \A j \in 1 .. Len(v) - 1 : r[j] = IF j < p THEN v[j] ELSE v[j + 1]
  BY RemoveAtElements
<1> HIDE DEF r, h, Q
<1>2. /\ \A i \in 0 .. Len(v) : P[i] \in Int
      /\ P[0] = 0
      /\ \A i \in 1 .. Len(v) : P[i] = P[i - 1] + f[v[i]]
      /\ \A i \in 1 .. Len(v) : f[v[i]] \in Int
  BY AlongFacts
<1>3. /\ \A i \in 1 .. Len(v) : i # p /\ i # p + 1 => h[v[i]] = f[v[i]]
      /\ p < Len(v) => h[v[p + 1]] = f[v[p + 1]] + f[v[p]]
  <2>1. \A a, b \in 1 .. Len(v) : v[a] = v[b] => a = b
    <3>1. DOMAIN v = 1 .. Len(v)
      OBVIOUS
    <3> QED BY <3>1 DEF IsInjective
  <2>2. \A a \in 1 .. Len(v) : v[a] \in S
    OBVIOUS
  <2>3. p < Len(v) => p + 1 \in 1 .. Len(v) /\ p + 1 # p
    BY <1>0
  <2>4. ASSUME NEW i \in 1 .. Len(v), i # p, i # p + 1 PROVE h[v[i]] = f[v[i]]
    <3>1. v[i] # v[p] /\ ~(p < Len(v) /\ v[i] = v[p + 1])
      BY <2>1, <2>3, <2>4
    <3> QED BY <2>2, <3>1 DEF h, DeltasWithout
  <2>5. ASSUME p < Len(v) PROVE h[v[p + 1]] = f[v[p + 1]] + f[v[p]]
    <3>1. v[p + 1] # v[p] /\ v[p + 1] \in S
      BY <2>1, <2>2, <2>3, <2>5
    <3> QED BY <2>5, <3>1 DEF h, DeltasWithout
  <2> QED BY <2>4, <2>5
<1>4. /\ Q \in [0 .. Len(v) - 1 -> Int] /\ Q[0] = 0
      /\ \A i \in 0 .. Len(v) - 1 : Q[i] = IF i < p THEN P[i] ELSE P[i + 1]
  <2>1. ASSUME NEW i \in 0 .. Len(v) - 1
        PROVE  /\ (IF i < p THEN P[i] ELSE P[i + 1]) \in Int
               /\ Q[i] = IF i < p THEN P[i] ELSE P[i + 1]
    <3>1. i \in 0 .. Len(v) /\ i + 1 \in 0 .. Len(v)
      BY <1>0
    <3> QED BY <1>2, <3>1 DEF Q, SumsWithout
  <2>2. 0 \in 0 .. Len(v) - 1 /\ 0 < p
    BY <1>0
  <2>3. Q \in [0 .. Len(v) - 1 -> Int]
    BY <2>1 DEF Q, SumsWithout
  <2> QED BY <1>2, <2>1, <2>2, <2>3
<1>5. ASSUME NEW i \in 1 .. Len(v) - 1 PROVE Q[i] = Q[i - 1] + h[r[i]]
  <2>0. /\ i \in 1 .. Len(v) /\ i + 1 \in 1 .. Len(v) /\ (i + 1) - 1 = i /\ (i - 1) + 1 = i
        /\ i \in 0 .. Len(v) - 1 /\ i - 1 \in 0 .. Len(v) - 1 /\ i \in 0 .. Len(v)
        /\ i - 1 \in 0 .. Len(v)
    BY <1>0
  <2>1. CASE i < p
    <3>1. r[i] = v[i] /\ Q[i] = P[i] /\ Q[i - 1] = P[i - 1] /\ i # p /\ i # p + 1
      <4>1. i - 1 < p /\ i # p /\ i # p + 1
        BY <1>0, <2>1
      <4> QED BY <1>1, <1>4, <2>0, <2>1, <4>1
    <3> QED BY <1>2, <1>3, <2>0, <3>1
  <2>2. CASE i = p
    <3>1. p < Len(v) /\ ~(i < p) /\ i - 1 < p
      BY <1>0, <2>2
    <3>2. r[i] = v[i + 1] /\ Q[i] = P[i + 1] /\ Q[i - 1] = P[i - 1]
      BY <1>1, <1>4, <2>0, <3>1
    <3>3. h[v[i + 1]] = f[v[i + 1]] + f[v[i]]
      BY <1>3, <2>2, <3>1
    <3>4. /\ P[i + 1] = P[i] + f[v[i + 1]] /\ P[i] = P[i - 1] + f[v[i]]
          /\ f[v[i + 1]] \in Int /\ f[v[i]] \in Int /\ P[i - 1] \in Int
      BY <1>2, <2>0
    <3> QED BY <3>2, <3>3, <3>4
  <2>3. CASE i > p
    <3>1. ~(i < p) /\ ~(i - 1 < p) /\ i + 1 # p /\ i + 1 # p + 1
      BY <1>0, <2>3
    <3>2. r[i] = v[i + 1] /\ Q[i] = P[i + 1] /\ Q[i - 1] = P[i]
      <4>1. r[i] = v[i + 1] /\ Q[i] = P[i + 1]
        BY <1>1, <1>4, <2>0, <3>1
      <4>2. Q[i - 1] = P[(i - 1) + 1]
        BY <1>4, <2>0, <3>1
      <4> QED BY <2>0, <4>1, <4>2
    <3>3. h[v[i + 1]] = f[v[i + 1]]
      BY <1>3, <2>0, <3>1
    <3>4. P[i + 1] = P[i] + f[v[i + 1]]
      BY <1>2, <2>0
    <3> QED BY <3>2, <3>3, <3>4
  <2> QED BY <1>0, <2>1, <2>2, <2>3
<1>6. Along(r, h, Q)
  BY <1>1, <1>4, <1>5 DEF Along
<1> QED BY <1>6 DEF r, h, Q

\* The sums behind the first element, which adds c.
SumsBehind(v, P, c) == [i \in 0 .. Len(v) - 1 |-> P[i + 1] - c]

\* The first element is taken out, and the sums start behind it.
LEMMA AlongTail ==
    ASSUME NEW S, NEW v \in Seq(S), IsInjective(v), v # <<>>, NEW f \in [S -> Int], NEW P,
           Along(v, f, P)
    PROVE  Along(Tail(v), [f EXCEPT ![v[1]] = 0], SumsBehind(v, P, f[v[1]]))
<1> DEFINE r == Tail(v)
           h == [f EXCEPT ![v[1]] = 0]
           Q == SumsBehind(v, P, f[v[1]])
<1>0. Len(v) \in Nat /\ Len(v) > 0 /\ 1 \in 1 .. Len(v)
  OBVIOUS
<1>1. /\ r \in Seq(S) /\ Len(r) = Len(v) - 1
      /\ \A j \in 1 .. Len(v) - 1 : r[j] = v[j + 1]
  BY <1>0
<1> HIDE DEF r, h, Q
<1>2. /\ \A i \in 0 .. Len(v) : P[i] \in Int
      /\ P[0] = 0
      /\ \A i \in 1 .. Len(v) : P[i] = P[i - 1] + f[v[i]]
      /\ \A i \in 1 .. Len(v) : f[v[i]] \in Int
  BY AlongFacts
<1>3. /\ Q \in [0 .. Len(v) - 1 -> Int] /\ Q[0] = 0
      /\ \A i \in 0 .. Len(v) - 1 : Q[i] = P[i + 1] - f[v[1]]
  <2>1. P[1] = P[1 - 1] + f[v[1]] /\ f[v[1]] \in Int /\ 1 - 1 = 0
    BY <1>0, <1>2
  <2>2. ASSUME NEW i \in 0 .. Len(v) - 1
        PROVE  P[i + 1] - f[v[1]] \in Int /\ Q[i] = P[i + 1] - f[v[1]]
    <3>1. i + 1 \in 0 .. Len(v)
      BY <1>0
    <3>2. P[i + 1] \in Int
      BY <1>2, <3>1
    <3> QED BY <2>1, <3>2 DEF Q, SumsBehind
  <2>3. 0 \in 0 .. Len(v) - 1 /\ 0 + 1 = 1
    BY <1>0
  <2>4. Q[0] = P[1] - f[v[1]]
    BY <2>2, <2>3
  <2>5. Q[0] = 0
    BY <1>2, <2>1, <2>4
  <2>6. Q \in [0 .. Len(v) - 1 -> Int]
    BY <2>2 DEF Q, SumsBehind
  <2> QED BY <2>2, <2>5, <2>6
<1>4. ASSUME NEW i \in 1 .. Len(v) - 1 PROVE Q[i] = Q[i - 1] + h[r[i]]
  <2>1. /\ i + 1 \in 1 .. Len(v) /\ (i + 1) - 1 = i /\ (i - 1) + 1 = i /\ i + 1 # 1
        /\ i \in 0 .. Len(v) - 1 /\ i - 1 \in 0 .. Len(v) - 1 /\ i \in 0 .. Len(v)
    BY <1>0
  <2>2. r[i] = v[i + 1] /\ Q[i] = P[i + 1] - f[v[1]] /\ Q[i - 1] = P[i] - f[v[1]]
    BY <1>1, <1>3, <2>1
  <2>3. v[i + 1] # v[1] /\ v[i + 1] \in S
    <3>1. DOMAIN v = 1 .. Len(v)
      OBVIOUS
    <3> QED BY <1>0, <2>1, <3>1 DEF IsInjective
  <2>4. h[v[i + 1]] = f[v[i + 1]]
    BY <2>3 DEF h
  <2>5. /\ P[i + 1] = P[i] + f[v[i + 1]] /\ P[i] \in Int /\ f[v[i + 1]] \in Int
        /\ f[v[1]] \in Int
    BY <1>0, <1>2, <2>1
  <2> QED BY <2>2, <2>4, <2>5
<1>5. Along(r, h, Q)
  BY <1>1, <1>3, <1>4 DEF Along
<1> QED BY <1>5 DEF r, h, Q
=============================================================================
