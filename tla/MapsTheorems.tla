---------------------------- MODULE MapsTheorems ----------------------------
(***************************************************************************)
(* What Cons and Without do to a list without repetition: the facts the    *)
(* MRU list of the window manager rests on; and the least and the greatest *)
(* element of a set of naturals, which stand in for induction.             *)
(***************************************************************************)
EXTENDS Maps, FiniteSetTheorems, TLAPS

\* A list in front of which an element was inserted (Vec::insert(0, e)).
LEMMA ConsProperties ==
  ASSUME NEW S, NEW s \in Seq(S), NEW e \in S
  PROVE  /\ Cons(e, s) \in Seq(S)
         /\ Len(Cons(e, s)) = Len(s) + 1
         /\ Cons(e, s)[1] = e
         /\ Elems(Cons(e, s)) = Elems(s) \cup {e}
         /\ NoDup(s) /\ e \notin Elems(s) => NoDup(Cons(e, s))
<1> DEFINE t == Cons(e, s)
           n == Len(s)
<1>1. n \in Nat /\ s \in [1 .. n -> S]
  OBVIOUS
<1>2. t \in [1 .. n + 1 -> S] /\ t[1] = e /\ \A i \in 1 .. n : t[i + 1] = s[i]
  BY <1>1 DEF Cons
<1>3. t \in Seq(S) /\ Len(t) = n + 1
  BY <1>1, <1>2
<1>4. \A i \in 2 .. n + 1 : t[i] = s[i - 1]
  BY <1>1, <1>2 DEF Cons
<1>5. Elems(t) = Elems(s) \cup {e}
  <2>1. Elems(t) \subseteq Elems(s) \cup {e}
    BY <1>1, <1>2, <1>3, <1>4 DEF Elems
  <2>2. Elems(s) \subseteq Elems(t)
    <3> SUFFICES ASSUME NEW i \in 1 .. n
                 PROVE  s[i] \in Elems(t)
      BY DEF Elems
    <3>1. i + 1 \in 1 .. Len(t) /\ t[i + 1] = s[i]
      BY <1>1, <1>2, <1>3
    <3> QED
      BY <3>1 DEF Elems
  <2>3. e \in Elems(t)
    <3>1. 1 \in 1 .. Len(t)
      BY <1>1, <1>3
    <3> QED
      BY <3>1, <1>2 DEF Elems
  <2> QED
    BY <2>1, <2>2, <2>3
<1>6. ASSUME NoDup(s), e \notin Elems(s)
      PROVE  NoDup(t)
  <2> SUFFICES ASSUME NEW i \in 1 .. n + 1, NEW j \in 1 .. n + 1, t[i] = t[j]
               PROVE  i = j
    BY <1>3 DEF NoDup
  <2>1. \A k \in 2 .. n + 1 : t[k] # e
    BY <1>1, <1>4, <1>6 DEF Elems
  <2>2. CASE i = 1 \/ j = 1
    BY <1>1, <1>2, <2>1, <2>2
  <2>3. CASE i # 1 /\ j # 1
    <3>1. s[i - 1] = s[j - 1] /\ i - 1 \in 1 .. n /\ j - 1 \in 1 .. n
      BY <1>1, <1>4, <2>3
    <3>2. i - 1 = j - 1
      BY <3>1, <1>6 DEF NoDup
    <3> QED
      BY <3>2, <1>1
  <2> QED
    BY <2>2, <2>3
<1> QED
  BY <1>2, <1>3, <1>5, <1>6

\* The position of an element of a list without repetition.
LEMMA PosProperties ==
  ASSUME NEW S, NEW s \in Seq(S), NoDup(s), NEW e \in Elems(s)
  PROVE  Pos(s, e) \in 1 .. Len(s) /\ s[Pos(s, e)] = e
<1>1. PICK i \in 1 .. Len(s) : s[i] = e
  BY DEF Elems
<1>2. \A j \in 1 .. i - 1 : s[j] # e
  BY <1>1 DEF NoDup
<1>3. \E k \in 1 .. Len(s) : s[k] = e /\ \A j \in 1 .. k - 1 : s[j] # e
  BY <1>1, <1>2
<1> QED
  BY <1>3 DEF Pos

\* A list from which an element was dropped (Vec::retain(|x| x != e)).
LEMMA WithoutProperties ==
  ASSUME NEW S, NEW s \in Seq(S), NoDup(s), NEW e
  PROVE  /\ Without(s, e) \in Seq(S \ {e})
         /\ Elems(Without(s, e)) = Elems(s) \ {e}
         /\ NoDup(Without(s, e))
         /\ Len(s) > 0 /\ s[1] # e => Without(s, e)[1] = s[1]
<1> DEFINE t == Without(s, e)
           n == Len(s)
           p == Pos(s, e)
<1>0. n \in Nat /\ s \in [1 .. n -> S]
  OBVIOUS
<1>1. CASE e \notin Elems(s)
  <2>1. t = s
    BY <1>1 DEF Without
  <2>2. \A i \in 1 .. n : s[i] \in S \ {e}
    BY <1>0, <1>1 DEF Elems
  <2>3. s \in [1 .. n -> S \ {e}]
    BY <1>0, <2>2
  <2>4. s \in Seq(S \ {e})
    BY <1>0, <2>3
  <2> QED
    BY <1>1, <2>1, <2>4
<1>2. CASE e \in Elems(s)
  <2>1. p \in 1 .. n /\ s[p] = e
    BY <1>2, PosProperties
  <2>2. t = [i \in 1 .. n - 1 |-> IF i < p THEN s[i] ELSE s[i + 1]]
    BY <1>2 DEF Without
  <2>3. \A i \in 1 .. n : i # p => s[i] # e
    BY <2>1 DEF NoDup
  <2>4. ASSUME NEW i \in 1 .. n - 1
        PROVE  t[i] \in S \ {e}
    BY <1>0, <2>1, <2>2, <2>3
  <2>5. t \in [1 .. n - 1 -> S \ {e}] /\ n - 1 \in Nat
    BY <1>0, <2>1, <2>2, <2>4
  <2>6. t \in Seq(S \ {e}) /\ Len(t) = n - 1
    BY <2>5
  <2>7. Elems(t) = Elems(s) \ {e}
    <3>1. Elems(t) \subseteq Elems(s) \ {e}
      BY <1>0, <2>1, <2>2, <2>4, <2>6 DEF Elems
    <3>2. ASSUME NEW i \in 1 .. n, s[i] # e
          PROVE  s[i] \in Elems(t)
      <4>1. CASE i < p
        <5>1. i \in 1 .. n - 1 /\ t[i] = s[i]
          BY <1>0, <2>1, <2>2, <4>1
        <5> QED
          BY <5>1, <2>6 DEF Elems
      <4>2. CASE i > p
        <5>1. i - 1 \in 1 .. n - 1 /\ t[i - 1] = s[i]
          BY <1>0, <2>1, <2>2, <4>2
        <5> QED
          BY <5>1, <2>6 DEF Elems
      <4> QED
        BY <1>0, <2>1, <3>2, <4>1, <4>2
    <3> QED
      BY <3>1, <3>2 DEF Elems
  <2>8. NoDup(t)
    <3> SUFFICES ASSUME NEW i \in 1 .. n - 1, NEW j \in 1 .. n - 1, t[i] = t[j]
                 PROVE  i = j
      BY <2>6 DEF NoDup
    <3> DEFINE from(k) == IF k < p THEN k ELSE k + 1
    <3>1. from(i) \in 1 .. n /\ from(j) \in 1 .. n /\ s[from(i)] = s[from(j)]
      BY <1>0, <2>1, <2>2
    <3>2. from(i) = from(j)
      BY <3>1 DEF NoDup
    <3> QED
      BY <3>2, <2>1, <1>0
  <2>9. ASSUME n > 0, s[1] # e
        PROVE  t[1] = s[1]
    <3>1. 1 < p /\ 1 \in 1 .. n - 1
      BY <1>0, <2>1, <2>9
    <3> QED
      BY <3>1, <2>2
  <2> QED
    BY <2>6, <2>7, <2>8, <2>9
<1> QED
  BY <1>1, <1>2

-----------------------------------------------------------------------------
(* Bounded sets of naturals.                                               *)

\* A set of naturals that is not empty has a least element.
LEMMA LeastNatural ==
  ASSUME NEW T \in SUBSET Nat, T # {}
  PROVE  \E x \in T : \A y \in T : x <= y
<1>1. PICK x \in T : \A y \in T : << y, x >> \notin OpToRel(<, Nat)
  BY NatLessThanWellFounded, WFMin
<1>2. \A y \in T : ~ (y < x)
  BY <1>1 DEF OpToRel
<1> QED
  BY <1>2

\* A set of naturals below some number that is not empty has a greatest one.
LEMMA GreatestNatural ==
  ASSUME NEW T \in SUBSET Nat, T # {}, NEW bound \in Nat, \A x \in T : x <= bound
  PROVE  \E x \in T : \A y \in T : y <= x
<1> DEFINE above == {n \in Nat : \A x \in T : x <= n}
<1>1. PICK n \in above : \A m \in above : n <= m
  <2>1. above \in SUBSET Nat /\ bound \in above
    OBVIOUS
  <2> QED
    BY <2>1, LeastNatural
<1>2. n \in T
  <2>1. SUFFICES ASSUME n \notin T PROVE FALSE
    OBVIOUS
  <2>2. PICK x \in T : TRUE
    OBVIOUS
  <2>3. \A y \in T : y <= n - 1
    BY <1>1, <2>1
  <2>4. n - 1 \in above
    BY <1>1, <2>2, <2>3
  <2> QED
    BY <1>1, <2>4
<1> QED
  BY <1>1, <1>2

\* Every rank below the cardinality is the rank of an element.
LEMMA RanksAreTaken ==
  ASSUME NEW S, IsFiniteSet(S), S \subseteq Nat, NEW k \in 1 .. Cardinality(S)
  PROVE  \E i \in S : Cardinality({j \in S : j < i}) = k - 1
<1> DEFINE below(i) == {j \in S : j < i}
<1>1. PICK n \in Nat : n = Cardinality(S)
  BY FS_CardinalityType
<1>2. PICK count : count = [i \in S |-> Cardinality(below(i))]
  OBVIOUS
<1>3. ASSUME NEW i \in S
      PROVE  IsFiniteSet(below(i)) /\ Cardinality(below(i)) \in 0 .. n - 1
  <2>1. IsFiniteSet(S \ {i}) /\ Cardinality(S \ {i}) = n - 1
    BY <1>1, FS_RemoveElement
  <2>2. below(i) \in SUBSET (S \ {i})
    OBVIOUS
  <2>3. IsFiniteSet(below(i)) /\ Cardinality(below(i)) <= n - 1
    BY <2>1, <2>2, FS_Subset
  <2>4. Cardinality(below(i)) \in Nat
    BY <2>3, FS_CardinalityType
  <2> QED
    BY <1>1, <2>3, <2>4
<1>4. count \in [S -> 0 .. n - 1]
  <2>1. \A i \in S : Cardinality(below(i)) \in 0 .. n - 1
    BY <1>3
  <2> HIDE DEF below
  <2> QED
    BY <1>2, <2>1
<1>5. ASSUME NEW i \in S, NEW j \in S, i < j
      PROVE  count[i] < count[j]
  <2>0. i \in Nat /\ j \in Nat /\ \A x \in S : x \in Nat
    OBVIOUS
  <2>1. below(i) \in SUBSET below(j) /\ i \in below(j) /\ i \notin below(i)
    <3>1. \A x \in S : x < i => x < j
      BY <1>5, <2>0
    <3>2. i < j /\ ~ (i < i)
      BY <1>5, <2>0
    <3> QED
      BY <3>1, <3>2
  <2>2. IsFiniteSet(below(j))
    BY <1>3
  <2>3. count[i] = Cardinality(below(i)) /\ count[j] = Cardinality(below(j))
    BY <1>2
  <2> HIDE DEF below
  <2>4. count[i] <= count[j] /\ count[j] # count[i]
    BY <2>1, <2>2, <2>3, FS_Subset
  <2>5. count[i] \in Int /\ count[j] \in Int
    BY <1>4
  <2> QED
    BY <2>4, <2>5
<1> DEFINE rank == [i \in S |-> count[i] + 1]
<1>6. rank \in Injection(S, 1 .. n)
  <2>1. rank \in [S -> 1 .. n]
    BY <1>4
  <2>2. ASSUME NEW i \in S, NEW j \in S, rank[i] = rank[j]
        PROVE  i = j
    <3>1. count[i] \in Int /\ count[j] \in Int
      BY <1>4
    <3>2. count[i] = count[j]
      BY <2>2, <3>1
    <3>3. ~ (i < j) /\ ~ (j < i)
      BY <1>5, <3>1, <3>2
    <3> QED
      BY <3>3
  <2> QED
    BY <2>1, <2>2 DEF Injection, IsInjective
<1>7. rank \in Surjection(S, 1 .. n)
  <2>1. IsFiniteSet(1 .. n) /\ Cardinality(1 .. n) = n
    BY FS_Interval
  <2> HIDE DEF rank
  <2> QED
    BY <1>1, <1>6, <2>1, FS_Injection
<1>8. PICK i \in S : rank[i] = k
  BY <1>1, <1>7 DEF Surjection
<1>9. count[i] = k - 1
  BY <1>4, <1>8
<1> QED
  BY <1>2, <1>9

(***************************************************************************)
(* What is retained of a list are its elements at the given positions, in  *)
(* order and each once: `at` is where they were.                           *)
(***************************************************************************)
Retains(t, s, S) ==
  \E at \in [1 .. Len(t) -> S] :
    /\ \A k \in 1 .. Len(t) : t[k] = s[at[k]]
    /\ \A k, l \in 1 .. Len(t) : at[k] = at[l] => k = l
    /\ \A k, l \in 1 .. Len(t) : k < l => at[k] < at[l]
    /\ \A i \in S : \E k \in 1 .. Len(t) : at[k] = i

LEMMA SublistProperties ==
  ASSUME NEW T, NEW s \in Seq(T), NEW S, S \subseteq 1 .. Len(s)
  PROVE  /\ Sublist(s, S) \in Seq(T) /\ Len(Sublist(s, S)) <= Len(s)
         /\ Retains(Sublist(s, S), s, S)
<1>1. Len(s) \in Nat /\ S \subseteq Nat
  OBVIOUS
<1>2. /\ IsFiniteSet(1 .. Len(s)) /\ Cardinality(1 .. Len(s)) = Len(s)
      /\ S \in SUBSET (1 .. Len(s))
  <2>1. PICK m \in Nat : m = Len(s)
    BY <1>1
  <2>2. IsFiniteSet(1 .. m) /\ Cardinality(1 .. m) = m
    BY FS_Interval
  <2> QED
    BY <2>1, <2>2
<1>3. IsFiniteSet(S) /\ Cardinality(S) <= Len(s)
  BY <1>2, FS_Subset
<1>4. PICK n \in Nat : n = Cardinality(S)
  BY <1>3, FS_CardinalityType
<1> DEFINE rank(i) == Cardinality({j \in S : j < i})
           pick(k) == CHOOSE i \in S : rank(i) = k - 1
<1>5. \A k \in 1 .. n : pick(k) \in S /\ rank(pick(k)) = k - 1
  <2> SUFFICES ASSUME NEW k \in 1 .. n
               PROVE  pick(k) \in S /\ rank(pick(k)) = k - 1
    OBVIOUS
  <2>1. \E i \in S : rank(i) = k - 1
    BY <1>1, <1>3, <1>4, RanksAreTaken
  <2> HIDE DEF rank
  <2> QED
    BY <2>1
<1>6. Sublist(s, S) = [k \in 1 .. n |-> s[pick(k)]]
  BY <1>4 DEF Sublist
<1>0. ASSUME NEW i \in S, NEW j \in S, i <= j PROVE rank(i) <= rank(j) /\ rank(i) \in Nat
  <2>1. PICK below, under : below = {l \in S : l < i} /\ under = {l \in S : l < j}
    OBVIOUS
  <2>2. below \in SUBSET under /\ under \in SUBSET S
    <3>1. i \in Nat /\ j \in Nat
      BY <1>0, <1>1
    <3>2. \A l \in Nat : l < i => l < j
      BY <1>0, <3>1
    <3> QED
      BY <1>1, <2>1, <3>2
  <2>3. IsFiniteSet(under) /\ IsFiniteSet(below)
    BY <1>3, <2>2, FS_Subset
  <2>4. Cardinality(below) <= Cardinality(under) /\ Cardinality(below) \in Nat
    BY <2>2, <2>3, FS_Subset, FS_CardinalityType
  <2> QED
    BY <2>1, <2>4
<1> HIDE DEF pick, rank
<1>7. PICK at : at = [k \in 1 .. n |-> pick(k)]
  OBVIOUS
<1>8. /\ at \in [1 .. n -> S]
      /\ \A k, l \in 1 .. n : at[k] = at[l] => k = l
      /\ \A k, l \in 1 .. n : k < l => at[k] < at[l]
  <2>1. at \in [1 .. n -> S]
    BY <1>5, <1>7
  <2>2. ASSUME NEW k \in 1 .. n, NEW l \in 1 .. n, at[k] = at[l]
        PROVE  k = l
    <3>1. rank(pick(k)) = k - 1 /\ rank(pick(l)) = l - 1 /\ pick(k) = pick(l)
      BY <1>5, <1>7, <2>2
    <3>2. k - 1 = l - 1
      BY <3>1
    <3> QED
      BY <3>2
  <2>3. ASSUME NEW k \in 1 .. n, NEW l \in 1 .. n, k < l
        PROVE  at[k] < at[l]
    <3>1. rank(at[k]) = k - 1 /\ rank(at[l]) = l - 1 /\ at[k] \in S /\ at[l] \in S
      BY <1>5, <1>7
    <3>2. PICK x \in S, y \in S : x = at[k] /\ y = at[l]
      BY <3>1
    <3>3. y <= x => l - 1 <= k - 1
      BY <1>0, <3>1, <3>2
    <3>4. ~ (l - 1 <= k - 1)
      BY <2>3
    <3>5. x \in Nat /\ y \in Nat
      BY <1>1
    <3> QED
      BY <3>2, <3>3, <3>4, <3>5
  <2> QED
    BY <2>1, <2>2, <2>3
<1>9. Sublist(s, S) \in Seq(T) /\ Len(Sublist(s, S)) = n
  <2>0. \A i \in S : s[i] \in T
    OBVIOUS
  <2>1. \A k \in 1 .. n : s[pick(k)] \in T
    BY <1>5, <2>0
  <2>2. Sublist(s, S) \in [1 .. n -> T]
    BY <1>6, <2>1
  <2> QED
    BY <2>2
<1>10. \A k \in 1 .. n : Sublist(s, S)[k] = s[at[k]]
  BY <1>6, <1>7
<1>11. \A i \in S : \E k \in 1 .. n : at[k] = i
  <2>1. at \in Injection(1 .. n, S)
    BY <1>8 DEF Injection, IsInjective
  <2>2. IsFiniteSet(1 .. n) /\ Cardinality(1 .. n) = n
    BY FS_Interval
  <2>3. at \in Surjection(1 .. n, S)
    BY <1>3, <1>4, <2>1, <2>2, FS_Injection
  <2> QED
    BY <2>3 DEF Surjection
<1> QED
  BY <1>3, <1>4, <1>8, <1>9, <1>10, <1>11 DEF Retains
=============================================================================
