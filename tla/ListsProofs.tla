---------------------------- MODULE ListsProofs ----------------------------
(***************************************************************************)
(* What the parts of a list hold, what lists hold that are put one after   *)
(* the other, and that a set of places has a least one: facts the proofs   *)
(* about MergeBB, DuplicateBB and Opt share.                               *)
(***************************************************************************)
EXTENDS Lists, SequencesExt, FiniteSetTheorems, TLAPS

(***************************************************************************)
(* Places in a list, in their order.                                       *)
(***************************************************************************)
Below(S, i) == {j \in S : j < i}

LEMMA BelowFinite ==
  ASSUME NEW n \in Nat, NEW S \in SUBSET (1 .. n), NEW i \in 1 .. n
  PROVE  /\ IsFiniteSet(S) /\ Cardinality(S) \in Nat
         /\ IsFiniteSet(Below(S, i)) /\ Cardinality(Below(S, i)) \in Nat
         /\ Cardinality(Below(S, i)) <= Cardinality(S)
<1>1. IsFiniteSet(1 .. n)
  BY FS_Interval
<1>2. IsFiniteSet(S)
  BY <1>1, FS_Subset
<1>3. Below(S, i) \in SUBSET S
  BY DEF Below
<1> QED
  BY <1>2, <1>3, FS_Subset, FS_CardinalityType

LEMMA RankGrows ==
  ASSUME NEW n \in Nat, NEW S \in SUBSET (1 .. n),
         NEW i \in S, NEW j \in 1 .. n, i < j
  PROVE  Cardinality(Below(S, i)) < Cardinality(Below(S, j))
<1>1. /\ IsFiniteSet(Below(S, i)) /\ Cardinality(Below(S, i)) \in Nat
      /\ IsFiniteSet(Below(S, j)) /\ Cardinality(Below(S, j)) \in Nat
  BY BelowFinite
<1>2. i \notin Below(S, i)
  BY DEF Below
<1>3. Below(S, i) \cup {i} \in SUBSET Below(S, j)
  <2>1. ASSUME NEW x \in Below(S, i) PROVE x \in Below(S, j)
    BY <2>1 DEF Below
  <2>2. i \in Below(S, j)
    BY DEF Below
  <2> QED
    BY <2>1, <2>2
<1>4. Cardinality(Below(S, i) \cup {i}) = Cardinality(Below(S, i)) + 1
  BY <1>1, <1>2, FS_AddElement
<1>5. Cardinality(Below(S, i) \cup {i}) <= Cardinality(Below(S, j))
  BY <1>1, <1>3, FS_Subset
<1> QED
  BY <1>1, <1>4, <1>5

LEMMA RankInside ==
  ASSUME NEW n \in Nat, NEW S \in SUBSET (1 .. n), NEW i \in S
  PROVE  Cardinality(Below(S, i)) \in 0 .. Cardinality(S) - 1
<1>1. IsFiniteSet(S) /\ Cardinality(S) \in Nat /\ Cardinality(Below(S, i)) \in Nat
  BY BelowFinite
<1>2. Below(S, i) \in SUBSET (S \ {i})
  BY DEF Below
<1>3. IsFiniteSet(S \ {i}) /\ Cardinality(S \ {i}) = Cardinality(S) - 1
  BY <1>1, FS_RemoveElement
<1>4. Cardinality(Below(S, i)) <= Cardinality(S \ {i})
  BY <1>2, <1>3, FS_Subset
<1> QED
  BY <1>1, <1>3, <1>4

(* Every rank is taken once.                                               *)
LEMMA RankTaken ==
  ASSUME NEW n \in Nat, NEW S \in SUBSET (1 .. n),
         NEW k \in 0 .. Cardinality(S) - 1
  PROVE  \E i \in S : Cardinality(Below(S, i)) = k
<1> DEFINE T == 0 .. Cardinality(S) - 1
           f == [i \in S |-> Cardinality(Below(S, i))]
<1>1. IsFiniteSet(S) /\ Cardinality(S) \in Nat
  <2>1. IsFiniteSet(1 .. n)
    BY FS_Interval
  <2> QED
    BY <2>1, FS_Subset, FS_CardinalityType
<1>2. IsFiniteSet(T) /\ Cardinality(T) = Cardinality(S)
  BY <1>1, FS_Interval
<1>3. f \in [S -> T]
  BY RankInside
<1>4. ASSUME NEW i \in S, NEW j \in S, f[i] = f[j] PROVE i = j
  <2>1. i \in 1 .. n /\ j \in 1 .. n
    OBVIOUS
  <2>2. ~(i < j) /\ ~(j < i)
    BY <1>4, <1>3, <2>1, RankGrows
  <2> QED
    BY <2>1, <2>2
<1>5. f \in Injection(S, T)
  BY <1>3, <1>4 DEF Injection, IsInjective
<1>6. f \in Surjection(S, T)
  BY <1>2, <1>5, FS_Injection
<1> QED
  BY <1>6 DEF Surjection

LEMMA NthPlace ==
  ASSUME NEW n \in Nat, NEW S \in SUBSET (1 .. n),
         NEW k \in 1 .. Cardinality(S)
  PROVE  Nth(S, k) \in S /\ Cardinality(Below(S, Nth(S, k))) = k - 1
<1>1. Cardinality(S) \in Nat
  <2>1. IsFiniteSet(1 .. n)
    BY FS_Interval
  <2> QED
    BY <2>1, FS_Subset, FS_CardinalityType
<1>2. k - 1 \in 0 .. Cardinality(S) - 1
  BY <1>1
<1>3. \E i \in S : Cardinality({j \in S : j < i}) = k - 1
  BY <1>2, RankTaken DEF Below
<1> QED
  BY <1>3 DEF Nth, Below

LEMMA PlaceNth ==
  ASSUME NEW n \in Nat, NEW S \in SUBSET (1 .. n), NEW i \in S
  PROVE  \E k \in 1 .. Cardinality(S) : Nth(S, k) = i
<1> DEFINE k == Cardinality(Below(S, i)) + 1
<1>1. Cardinality(S) \in Nat /\ Cardinality(Below(S, i)) \in 0 .. Cardinality(S) - 1
  BY RankInside, BelowFinite
<1>2. k \in 1 .. Cardinality(S)
  BY <1>1
<1>3. Nth(S, k) \in S /\ Cardinality(Below(S, Nth(S, k))) = k - 1
  BY <1>2, NthPlace
<1>4. Cardinality(Below(S, Nth(S, k))) = Cardinality(Below(S, i))
  BY <1>1, <1>3
<1>5. Nth(S, k) \in 1 .. n /\ i \in 1 .. n
  BY <1>3
<1>6. ~(Nth(S, k) < i) /\ ~(i < Nth(S, k))
  <2>1. ASSUME Nth(S, k) < i PROVE FALSE
    BY <2>1, <1>1, <1>3, <1>4, <1>5, RankGrows
  <2>2. ASSUME i < Nth(S, k) PROVE FALSE
    BY <2>2, <1>1, <1>3, <1>4, <1>5, RankGrows
  <2> QED
    BY <2>1, <2>2
<1> QED
  BY <1>2, <1>5, <1>6

LEMMA AtMembers ==
  ASSUME NEW X, NEW list \in Seq(X), NEW S \in SUBSET (DOMAIN list)
  PROVE  /\ At(list, S) \in Seq(X)
         /\ Cardinality(S) \in Nat
         /\ DOMAIN At(list, S) = 1 .. Cardinality(S)
         /\ Len(At(list, S)) = Cardinality(S)
         /\ ToSet(At(list, S)) = {list[i] : i \in S}
         /\ IsInjective(list) => IsInjective(At(list, S))
<1> DEFINE n == Len(list)
           a == At(list, S)
<1>1. n \in Nat /\ DOMAIN list = 1 .. n /\ S \in SUBSET (1 .. n)
  OBVIOUS
<1>2. IsFiniteSet(S) /\ Cardinality(S) \in Nat
  <2>1. IsFiniteSet(1 .. n)
    BY <1>1, FS_Interval
  <2> QED
    BY <1>1, <2>1, FS_Subset, FS_CardinalityType
<1>3. a = [k \in 1 .. Cardinality(S) |-> list[Nth(S, k)]]
  BY DEF At
<1>4. \A k \in 1 .. Cardinality(S) : Nth(S, k) \in S
  BY <1>1, NthPlace
<1>5. \A k \in 1 .. Cardinality(S) : a[k] = list[Nth(S, k)] /\ a[k] \in X
  BY <1>3, <1>4
<1>6. a \in Seq(X) /\ Len(a) = Cardinality(S) /\ DOMAIN a = 1 .. Cardinality(S)
  BY <1>2, <1>3, <1>5
<1>7. ToSet(a) = {list[i] : i \in S}
  <2>1. ASSUME NEW x \in ToSet(a) PROVE x \in {list[i] : i \in S}
    BY <2>1, <1>4, <1>5, <1>6 DEF ToSet
  <2>2. ASSUME NEW i \in S PROVE list[i] \in ToSet(a)
    <3>1. PICK k \in 1 .. Cardinality(S) : Nth(S, k) = i
      BY <1>1, PlaceNth
    <3> QED
      BY <3>1, <1>5, <1>6 DEF ToSet
  <2> QED
    BY <2>1, <2>2
<1>8. ASSUME IsInjective(list) PROVE IsInjective(a)
  <2>1. SUFFICES ASSUME NEW k \in 1 .. Cardinality(S), NEW l \in 1 .. Cardinality(S),
                        a[k] = a[l]
                 PROVE  k = l
    BY <1>6 DEF IsInjective
  <2>2. Nth(S, k) \in DOMAIN list /\ Nth(S, l) \in DOMAIN list
    BY <1>4
  <2>3. Nth(S, k) = Nth(S, l)
    BY <1>5, <1>8, <2>1, <2>2 DEF IsInjective
  <2>4. /\ Cardinality(Below(S, Nth(S, k))) = k - 1
        /\ Cardinality(Below(S, Nth(S, l))) = l - 1
    BY <1>1, NthPlace
  <2> QED
    BY <2>3, <2>4
<1> QED
  BY <1>2, <1>6, <1>7, <1>8

(* A non-empty set of places has a least one.                              *)
LEMMA MinPlace ==
  ASSUME NEW S \in SUBSET Nat, S # {}
  PROVE  Min(S) \in S /\ \A k \in S : Min(S) <= k
<1>1. IsWellFoundedOn(OpToRel(<, Nat), Nat)
  BY NatLessThanWellFounded
<1>2. PICK n \in S : \A k \in S : ~(<<k, n>> \in OpToRel(<, Nat))
  BY <1>1, WFMin, Zenon
<1>3. ASSUME NEW k \in S PROVE n <= k
  <2>1. ~(<<k, n>> \in OpToRel(<, Nat))
    BY <1>2
  <2>2. k \in Nat /\ n \in Nat
    OBVIOUS
  <2>3. ~(k < n)
    BY <2>1, <2>2 DEF OpToRel
  <2> QED
    BY <2>2, <2>3
<1>4. \E x \in S : \A y \in S : x <= y
  BY <1>3
<1> QED
  BY <1>4 DEF Min

LEMMA IsSequence ==
  ASSUME NEW X, NEW n \in Nat, NEW s, s = [k \in 1 .. n |-> s[k]],
         \A k \in 1 .. n : s[k] \in X
  PROVE  s \in Seq(X)
<1>1. [k \in 1 .. n |-> s[k]] \in Seq(X)
  OBVIOUS
<1> QED
  BY <1>1
(* Induction as a fact about a set of numbers.                             *)
LEMMA NatSet ==
  ASSUME NEW S, 0 \in S, \A n \in Nat : n \in S => n + 1 \in S
  PROVE  Nat \subseteq S
<1>1. SUFFICES ASSUME Nat \ S # {} PROVE FALSE
  OBVIOUS
<1> DEFINE n == Min(Nat \ S)
<1>2. n \in Nat \ S /\ \A k \in Nat \ S : n <= k
  BY <1>1, MinPlace
<1> HIDE DEF n
<1>3. n # 0 /\ n - 1 \in Nat /\ n - 1 \in S
  BY <1>2
<1> QED
  BY <1>2, <1>3

(***************************************************************************)
(* Lists laid end to end: the members of the k-th list follow start[k].    *)
(***************************************************************************)
Joined(lists, g, m) ==
  g = [i \in 1 .. m |-> IF i = 1 THEN lists[i] ELSE g[i - 1] \o lists[i]]

LEMMA SomeJoined ==
  ASSUME NEW lists
  PROVE  \A m \in Nat : \E g : Joined(lists, g, m)
<1> DEFINE S == {m \in Nat : \E g : Joined(lists, g, m)}
<1>1. 0 \in S
  <2> DEFINE g == [i \in 1 .. 0 |-> lists]
  <2>1. Joined(lists, g, 0)
    BY DEF Joined
  <2> QED
    BY <2>1
<1>2. ASSUME NEW m \in Nat, m \in S PROVE m + 1 \in S
  <2>1. PICK g : Joined(lists, g, m)
    BY <1>2
  <2> DEFINE next == IF m + 1 = 1 THEN lists[m + 1] ELSE g[m] \o lists[m + 1]
             h == [i \in 1 .. m + 1 |-> IF i = m + 1 THEN next ELSE g[i]]
  <2>2. ASSUME NEW i \in 1 .. m PROVE g[i] = IF i = 1 THEN lists[i] ELSE g[i - 1] \o lists[i]
    BY <2>1, Zenon DEF Joined
  <2>3. ASSUME NEW i \in 1 .. m + 1
        PROVE  h[i] = IF i = 1 THEN lists[i] ELSE h[i - 1] \o lists[i]
    <3>1. CASE i = m + 1
      <4>1. h[i] = next
        BY <3>1
      <4>2. CASE m = 0
        BY <3>1, <4>1, <4>2
      <4>3. CASE m # 0
        <5>1. m \in 1 .. m + 1 /\ m # m + 1 /\ i - 1 = m /\ i # 1 /\ m + 1 # 1
          BY <3>1, <4>3
        <5>2. h[m] = g[m]
          BY <5>1
        <5> QED
          BY <3>1, <4>1, <5>1, <5>2
      <4> QED
        BY <4>2, <4>3
    <3>2. CASE i # m + 1
      <4>1. i \in 1 .. m /\ h[i] = g[i]
        BY <3>2
      <4>2. CASE i = 1
        BY <4>1, <4>2, <2>2
      <4>3. CASE i # 1
        <5>1. i - 1 \in 1 .. m /\ i - 1 \in 1 .. m + 1 /\ i - 1 # m + 1
          BY <4>1, <4>3
        <5>2. h[i - 1] = g[i - 1]
          BY <5>1
        <5> HIDE DEF h
        <5> QED
          BY <4>1, <4>3, <2>2, <5>2
      <4> QED
        BY <4>2, <4>3
    <3> QED
      BY <3>1, <3>2
  <2>4. h = [i \in 1 .. m + 1 |-> h[i]]
    OBVIOUS
  <2> HIDE DEF h
  <2>5. Joined(lists, h, m + 1)
    BY <2>3, <2>4, Zenon DEF Joined
  <2>6. m + 1 \in Nat
    OBVIOUS
  <2> QED
    BY <2>5, <2>6
<1>3. Nat \subseteq S
  <2> HIDE DEF S
  <2> QED
    BY <1>1, <1>2, NatSet
<1> QED
  BY <1>3

LEMMA FlattenJoined ==
  ASSUME NEW lists, Len(lists) \in Nat, Len(lists) # 0
  PROVE  \E g : Joined(lists, g, Len(lists)) /\ FlattenSeq(lists) = g[Len(lists)]
<1> DEFINE n == Len(lists)
           flatten == CHOOSE g : Joined(lists, g, n)
<1>1. \E g : Joined(lists, g, n)
  BY SomeJoined
<1>2. Joined(lists, flatten, n)
  BY <1>1, Zenon
<1>3. FlattenSeq(lists) = flatten[n]
  BY Zenon DEF FlattenSeq, Joined
<1> QED
  BY <1>2, <1>3

(* Where the lists begin and how far they reach.                           *)
Starts(lists, start) ==
  /\ \A k \in 1 .. Len(lists) + 1 : start[k] \in Nat
  /\ start[1] = 0
  /\ \A k \in 1 .. Len(lists) : start[k + 1] = start[k] + Len(lists[k])

Reaches(lists, start, list, m) ==
  /\ Len(list) = start[m + 1]
  /\ \A k \in 1 .. m : \A i \in 1 .. Len(lists[k]) :
       start[k] + i \in 1 .. Len(list) /\ list[start[k] + i] = lists[k][i]
  /\ \A p \in 1 .. Len(list) :
       \E k \in 1 .. m : \E i \in 1 .. Len(lists[k]) : p = start[k] + i

LEMMA ReachesFurther ==
  ASSUME NEW X, NEW lists \in Seq(Seq(X)), NEW start, Starts(lists, start),
         NEW m \in Nat, m + 1 \in 1 .. Len(lists),
         NEW list \in Seq(X), Reaches(lists, start, list, m)
  PROVE  /\ list \o lists[m + 1] \in Seq(X)
         /\ Reaches(lists, start, list \o lists[m + 1], m + 1)
<1> DEFINE more == lists[m + 1]
           joined == list \o more
<1>1. /\ more \in Seq(X) /\ Len(more) \in Nat /\ Len(list) \in Nat
      /\ joined \in Seq(X) /\ Len(joined) = Len(list) + Len(more)
      /\ \A p \in 1 .. Len(list) : joined[p] = list[p]
      /\ \A i \in 1 .. Len(more) : joined[Len(list) + i] = more[i]
  OBVIOUS
<1>2. /\ start[m + 1] \in Nat /\ start[m + 2] = start[m + 1] + Len(more)
      /\ Len(list) = start[m + 1]
  BY DEF Starts, Reaches
<1> HIDE DEF joined
<1>3. Len(joined) = start[(m + 1) + 1]
  BY <1>1, <1>2
<1>4. ASSUME NEW k \in 1 .. m + 1, NEW i \in 1 .. Len(lists[k])
      PROVE  start[k] + i \in 1 .. Len(joined) /\ joined[start[k] + i] = lists[k][i]
  <2>1. CASE k = m + 1
    BY <2>1, <1>1, <1>2, SMTT(30)
  <2>2. CASE k # m + 1
    <3>1. k \in 1 .. m
      BY <2>2
    <3>2. start[k] + i \in 1 .. Len(list) /\ list[start[k] + i] = lists[k][i]
      BY <3>1 DEF Reaches
    <3> QED
      BY <3>2, <1>1, SMTT(30)
  <2> QED
    BY <2>1, <2>2
<1>5. ASSUME NEW p \in 1 .. Len(joined)
      PROVE  \E k \in 1 .. m + 1 : \E i \in 1 .. Len(lists[k]) : p = start[k] + i
  <2>1. CASE p <= Len(list)
    <3>1. p \in 1 .. Len(list)
      BY <2>1, <1>1
    <3>2. PICK k \in 1 .. m : \E i \in 1 .. Len(lists[k]) : p = start[k] + i
      BY <3>1 DEF Reaches
    <3>3. k \in 1 .. m + 1
      OBVIOUS
    <3> QED
      BY <3>2, <3>3
  <2>2. CASE p > Len(list)
    <3>1. p - Len(list) \in 1 .. Len(more) /\ m + 1 \in 1 .. m + 1
      BY <2>2, <1>1
    <3>2. p = start[m + 1] + (p - Len(list))
      BY <1>1, <1>2
    <3> QED
      BY <3>1, <3>2
  <2> QED
    BY <2>1, <2>2, <1>1
<1>6. Reaches(lists, start, joined, m + 1)
  BY <1>3, <1>4, <1>5 DEF Reaches
<1> QED
  BY <1>1, <1>6 DEF joined

LEMMA SomeStarts ==
  ASSUME NEW X, NEW lists \in Seq(Seq(X))
  PROVE  \E start : Starts(lists, start)
<1> DEFINE n == Len(lists)
           S == {m \in Nat : m <= n =>
                   \E s : /\ \A k \in 1 .. m + 1 : s[k] \in Nat
                          /\ s[1] = 0
                          /\ \A k \in 1 .. m : s[k + 1] = s[k] + Len(lists[k])}
<1>1. 0 \in S
  <2> DEFINE s == [k \in 1 .. 1 |-> 0]
  <2>1. \A k \in 1 .. 0 + 1 : s[k] \in Nat
    OBVIOUS
  <2>2. s[1] = 0 /\ \A k \in 1 .. 0 : s[k + 1] = s[k] + Len(lists[k])
    OBVIOUS
  <2> QED
    BY <2>1, <2>2
<1>2. ASSUME NEW m \in Nat, m \in S PROVE m + 1 \in S
  <2>1. SUFFICES ASSUME m + 1 <= n
        PROVE \E s : /\ \A k \in 1 .. (m + 1) + 1 : s[k] \in Nat
                     /\ s[1] = 0
                     /\ \A k \in 1 .. m + 1 : s[k + 1] = s[k] + Len(lists[k])
    OBVIOUS
  <2>2. PICK s : /\ \A k \in 1 .. m + 1 : s[k] \in Nat
                 /\ s[1] = 0
                 /\ \A k \in 1 .. m : s[k + 1] = s[k] + Len(lists[k])
    BY <1>2, <2>1
  <2> DEFINE t == [k \in 1 .. (m + 1) + 1 |->
                     IF k = m + 2 THEN s[m + 1] + Len(lists[m + 1]) ELSE s[k]]
  <2>3. m + 1 \in 1 .. n /\ Len(lists[m + 1]) \in Nat /\ s[m + 1] \in Nat
    BY <2>1, <2>2
  <2>4. /\ t[m + 2] = s[m + 1] + Len(lists[m + 1])
        /\ \A k \in 1 .. m + 1 : t[k] = s[k]
    OBVIOUS
  <2> HIDE DEF t
  <2>5. ASSUME NEW k \in 1 .. (m + 1) + 1 PROVE t[k] \in Nat
    <3>1. CASE k = m + 2
      BY <3>1, <2>3, <2>4
    <3>2. CASE k # m + 2
      <4>1. k \in 1 .. m + 1
        BY <3>2
      <4> QED
        BY <4>1, <2>2, <2>4
    <3> QED
      BY <3>1, <3>2
  <2>6. t[1] = 0
    BY <2>2, <2>4
  <2>7. ASSUME NEW k \in 1 .. m + 1 PROVE t[k + 1] = t[k] + Len(lists[k])
    <3>1. CASE k = m + 1
      BY <3>1, <2>4
    <3>2. CASE k # m + 1
      <4>1. k \in 1 .. m /\ k + 1 \in 1 .. m + 1
        BY <3>2
      <4> QED
        BY <4>1, <2>2, <2>4
    <3> QED
      BY <3>1, <3>2
  <2> QED
    BY <2>5, <2>6, <2>7
<1>3. n \in S
  <2> HIDE DEF S
  <2>1. n \in Nat /\ Nat \subseteq S
    BY <1>1, <1>2, NatSet, SMTT(30)
  <2> QED
    BY <2>1
<1> QED
  BY <1>3 DEF Starts

(* A later list begins where an earlier one has ended.                     *)
LEMMA StartsGrow ==
  ASSUME NEW X, NEW lists \in Seq(Seq(X)), NEW start, Starts(lists, start),
         NEW k \in 1 .. Len(lists)
  PROVE  \A l \in 1 .. Len(lists) : k < l => start[k] + Len(lists[k]) <= start[l]
<1> DEFINE S == {m \in Nat : k + 1 + m <= Len(lists) =>
                             start[k] + Len(lists[k]) <= start[k + 1 + m]}
<1>1. 0 \in S
  <2>1. start[k + 1] = start[k] + Len(lists[k])
    BY DEF Starts
  <2>2. k + 1 + 0 = k + 1 /\ start[k] \in Nat /\ Len(lists[k]) \in Nat
    BY DEF Starts
  <2> QED
    BY <2>1, <2>2
<1>2. ASSUME NEW m \in Nat, m \in S PROVE m + 1 \in S
  <2>1. SUFFICES ASSUME k + 1 + (m + 1) <= Len(lists)
                 PROVE  start[k] + Len(lists[k]) <= start[k + 1 + (m + 1)]
    OBVIOUS
  <2>2. start[k] + Len(lists[k]) <= start[k + 1 + m]
    BY <1>2, <2>1
  <2>3. k + 1 + m \in 1 .. Len(lists) /\ (k + 1 + m) + 1 = k + 1 + (m + 1)
    BY <2>1
  <2>4. start[k + 1 + (m + 1)] = start[k + 1 + m] + Len(lists[k + 1 + m])
    BY <2>3 DEF Starts
  <2>5. /\ start[k] \in Nat /\ start[k + 1 + m] \in Nat
        /\ Len(lists[k]) \in Nat /\ Len(lists[k + 1 + m]) \in Nat
    BY <2>3 DEF Starts
  <2> QED
    BY <2>2, <2>4, <2>5
<1>3. Nat \subseteq S
  <2> HIDE DEF S
  <2> QED
    BY <1>1, <1>2, NatSet
<1>4. SUFFICES ASSUME NEW l \in 1 .. Len(lists), k < l
               PROVE  start[k] + Len(lists[k]) <= start[l]
  OBVIOUS
<1>5. l - (k + 1) \in Nat /\ k + 1 + (l - (k + 1)) = l
  BY <1>4
<1>6. l - (k + 1) \in S
  BY <1>3, <1>5
<1>7. k + 1 + (l - (k + 1)) <= Len(lists)
  BY <1>5
<1>8. start[k] + Len(lists[k]) <= start[k + 1 + (l - (k + 1))]
  BY <1>6, <1>7
<1> QED
  BY <1>5, <1>8

LEMMA Flattened ==
  ASSUME NEW X, NEW lists \in Seq(Seq(X))
  PROVE  /\ FlattenSeq(lists) \in Seq(X)
         /\ \E start : /\ Starts(lists, start)
                       /\ Reaches(lists, start, FlattenSeq(lists), Len(lists))
<1> DEFINE n == Len(lists)
<1>0. PICK start : Starts(lists, start)
  BY SomeStarts
<1>1. CASE n = 0
  <2>1. FlattenSeq(lists) = << >> /\ lists = << >>
    BY <1>1 DEF FlattenSeq
  <2>2. Reaches(lists, start, << >>, 0)
    BY <1>0, <1>1 DEF Reaches, Starts
  <2> QED
    BY <1>0, <1>1, <2>1, <2>2
<1>2. CASE n # 0
  <2>1. PICK g : Joined(lists, g, n) /\ FlattenSeq(lists) = g[n]
    BY <1>2, FlattenJoined
  <2>2. ASSUME NEW i \in 1 .. n
        PROVE  g[i] = IF i = 1 THEN lists[i] ELSE g[i - 1] \o lists[i]
    BY <2>1, Zenon DEF Joined
  <2> DEFINE S == {m \in Nat : m + 1 <= n => /\ g[m + 1] \in Seq(X)
                                             /\ Reaches(lists, start, g[m + 1], m + 1)}
  <2>3. 0 \in S
    <3>1. 0 + 1 \in 1 .. Len(lists) /\ g[1] = lists[1] /\ lists[1] \in Seq(X)
      BY <1>2, <2>2
    <3>2. << >> \in Seq(X) /\ << >> \o lists[0 + 1] = lists[1]
      BY <3>1
    <3>3. Reaches(lists, start, << >>, 0)
      BY <1>0 DEF Reaches, Starts
    <3>4. Reaches(lists, start, << >> \o lists[0 + 1], 0 + 1)
      BY <1>0, <3>1, <3>2, <3>3, ReachesFurther
    <3> QED
      BY <3>1, <3>2, <3>4
  <2>4. ASSUME NEW m \in Nat, m \in S PROVE m + 1 \in S
    <3>1. SUFFICES ASSUME (m + 1) + 1 <= n
                   PROVE  /\ g[(m + 1) + 1] \in Seq(X)
                          /\ Reaches(lists, start, g[(m + 1) + 1], (m + 1) + 1)
      OBVIOUS
    <3>2. g[m + 1] \in Seq(X) /\ Reaches(lists, start, g[m + 1], m + 1)
      BY <2>4, <3>1
    <3>3. /\ (m + 1) + 1 \in 1 .. n /\ (m + 1) + 1 # 1 /\ ((m + 1) + 1) - 1 = m + 1
          /\ m + 1 \in Nat
      BY <3>1
    <3>4. g[(m + 1) + 1] = g[m + 1] \o lists[(m + 1) + 1]
      BY <2>2, <3>3
    <3> HIDE DEF S
    <3>5. /\ g[m + 1] \o lists[(m + 1) + 1] \in Seq(X)
          /\ Reaches(lists, start, g[m + 1] \o lists[(m + 1) + 1], (m + 1) + 1)
      BY <1>0, <3>2, <3>3, ReachesFurther
    <3> QED
      BY <3>4, <3>5
  <2>5. Nat \subseteq S
    <3> HIDE DEF S
    <3> QED
      BY <2>3, <2>4, NatSet
  <2>6. n - 1 \in Nat /\ (n - 1) + 1 = n
    BY <1>2
  <2>7. g[n] \in Seq(X) /\ Reaches(lists, start, g[n], n)
    <3>1. n - 1 \in S
      BY <2>5, <2>6
    <3>2. (n - 1) + 1 <= n
      BY <2>6
    <3>3. /\ g[(n - 1) + 1] \in Seq(X)
          /\ Reaches(lists, start, g[(n - 1) + 1], (n - 1) + 1)
      BY <3>1, <3>2
    <3> QED
      BY <3>3, <2>6
  <2> QED
    BY <1>0, <2>1, <2>7
<1> QED
  BY <1>1, <1>2

(* Places that an order-preserving map pairs up are counted alike.         *)
Along(S, n, T, m, h) ==
  /\ n \in Nat /\ S \in SUBSET (1 .. n)
  /\ m \in Nat /\ T \in SUBSET (1 .. m)
  /\ h \in [S -> T]
  /\ \A t \in T : \E i \in S : h[i] = t
  /\ \A i, j \in S : i < j => h[i] < h[j]

LEMMA NthAlong ==
  ASSUME NEW S, NEW n, NEW T, NEW m, NEW h, Along(S, n, T, m, h)
  PROVE  /\ Cardinality(S) = Cardinality(T)
         /\ \A k \in 1 .. Cardinality(S) : Nth(T, k) = h[Nth(S, k)]
<1>0. /\ n \in Nat /\ S \in SUBSET (1 .. n)
      /\ m \in Nat /\ T \in SUBSET (1 .. m)
  BY DEF Along
<1>1. IsFiniteSet(S)
  <2>1. IsFiniteSet(1 .. n)
    BY <1>0, FS_Interval
  <2> QED
    BY <1>0, <2>1, FS_Subset
<1>2. h \in [S -> T] /\ \A i \in S : i \in Nat /\ h[i] \in Nat
  <2>1. h \in [S -> T]
    BY DEF Along
  <2>2. ASSUME NEW i \in S PROVE i \in Nat /\ h[i] \in Nat
    <3>1. h[i] \in T
      BY <2>1
    <3>2. i \in 1 .. n /\ h[i] \in 1 .. m
      BY <1>0, <3>1
    <3> QED
      BY <3>2
  <2> QED
    BY <2>1, <2>2
<1>3. ASSUME NEW i \in S, NEW j \in S, h[i] = h[j] PROVE i = j
  <2>1. ~(i < j) /\ ~(j < i)
    BY <1>2, <1>3 DEF Along
  <2> QED
    BY <1>2, <2>1
<1>4. Cardinality(S) = Cardinality(T)
  <2>1. h \in Bijection(S, T)
    BY <1>2, <1>3 DEF Bijection, Injection, Surjection, IsInjective, Along
  <2>2. ExistsBijection(S, T)
    BY <2>1 DEF ExistsBijection
  <2> QED
    BY <1>1, <2>2, FS_Bijection
<1>5. ASSUME NEW i \in S
      PROVE  Cardinality(Below(T, h[i])) = Cardinality(Below(S, i))
  <2> DEFINE A == Below(S, i)
             B == Below(T, h[i])
             r == [j \in A |-> h[j]]
  <2>1. A \in SUBSET S /\ B \in SUBSET T
    BY DEF Below
  <2>2. IsFiniteSet(A)
    BY <1>1, <2>1, FS_Subset
  <2>3. ASSUME NEW j \in A PROVE h[j] \in B
    BY <1>2 DEF Below, Along
  <2>4. r \in [A -> B]
    BY <2>3
  <2>5. ASSUME NEW j \in A, NEW k \in A, r[j] = r[k] PROVE j = k
    BY <2>5, <1>3, <2>1
  <2>6. ASSUME NEW t \in B PROVE \E j \in A : r[j] = t
    <3>1. t \in T /\ t < h[i]
      BY DEF Below
    <3>2. PICK j \in S : h[j] = t
      BY <3>1 DEF Along
    <3>3. ~(i < j) /\ i # j
      BY <1>2, <3>1, <3>2 DEF Along
    <3>4. j \in A
      BY <1>2, <3>3 DEF Below
    <3> QED
      BY <3>2, <3>4
  <2> HIDE DEF A, B, r
  <2>7. r \in Bijection(A, B)
    BY <2>4, <2>5, <2>6 DEF Bijection, Injection, Surjection, IsInjective
  <2>8. ExistsBijection(A, B)
    BY <2>7 DEF ExistsBijection
  <2> QED
    BY <2>2, <2>8, FS_Bijection DEF A, B
<1>6. SUFFICES ASSUME NEW k \in 1 .. Cardinality(S)
               PROVE  Nth(T, k) = h[Nth(S, k)]
  BY <1>4
<1> QED
  <2>3. Nth(S, k) \in S /\ Cardinality(Below(S, Nth(S, k))) = k - 1
    BY <1>0, NthPlace
  <2>4. k \in 1 .. Cardinality(T)
    BY <1>4
  <2>5. Nth(T, k) \in T /\ Cardinality(Below(T, Nth(T, k))) = k - 1
    BY <1>0, <2>4, NthPlace
  <2> DEFINE a == Nth(T, k)
             b == h[Nth(S, k)]
  <2>6. b \in T /\ Cardinality(Below(T, b)) = k - 1
    BY <1>4, <1>5, <2>3 DEF Along
  <2>7. a \in T /\ Cardinality(Below(T, a)) = k - 1
    BY <2>5
  <2> HIDE DEF a, b
  <2>8. a \in 1 .. m /\ b \in 1 .. m /\ k - 1 \in Nat
    BY <1>0, <2>6, <2>7
  <2>9. ~(a < b)
    <3>1. ASSUME a < b PROVE Cardinality(Below(T, a)) < Cardinality(Below(T, b))
      BY <3>1, <1>0, <2>7, <2>8, RankGrows
    <3> QED
      BY <3>1, <2>6, <2>7, <2>8
  <2>10. ~(b < a)
    <3>1. ASSUME b < a PROVE Cardinality(Below(T, b)) < Cardinality(Below(T, a))
      BY <3>1, <1>0, <2>6, <2>8, RankGrows
    <3> QED
      BY <3>1, <2>6, <2>7, <2>8
  <2> QED
    BY <2>8, <2>9, <2>10 DEF a, b

(* Lists of one member each, one after the other.                          *)
LEMMA FlattenedSingles ==
  ASSUME NEW X, NEW lists \in Seq(Seq(X)),
         \A k \in 1 .. Len(lists) : Len(lists[k]) = 1
  PROVE  FlattenSeq(lists) = [k \in 1 .. Len(lists) |-> lists[k][1]]
<1> DEFINE n == Len(lists)
           t == FlattenSeq(lists)
<1>1. t \in Seq(X) /\ \E start : Starts(lists, start) /\ Reaches(lists, start, t, n)
  BY Flattened
<1> HIDE DEF t
<1>2. PICK start : Starts(lists, start) /\ Reaches(lists, start, t, n)
  BY <1>1
<1> DEFINE S == {m \in Nat : m <= n => start[m + 1] = m}
<1>3. 0 \in S
  BY <1>2 DEF Starts
<1>4. ASSUME NEW m \in Nat, m \in S PROVE m + 1 \in S
  <2>1. SUFFICES ASSUME m + 1 <= n PROVE start[(m + 1) + 1] = m + 1
    OBVIOUS
  <2>2. m + 1 \in 1 .. n /\ start[m + 1] = m
    BY <1>4, <2>1
  <2>3. start[(m + 1) + 1] = start[m + 1] + Len(lists[m + 1])
    BY <1>2, <2>2 DEF Starts
  <2> QED
    BY <2>2, <2>3
<1>5. Nat \subseteq S
  <2> HIDE DEF S
  <2> QED
    BY <1>3, <1>4, NatSet
<1>6. n \in Nat /\ n \in S
  BY <1>5
<1>7. Len(t) = n
  BY <1>2, <1>6 DEF Reaches
<1>8. ASSUME NEW k \in 1 .. n PROVE t[k] = lists[k][1]
  <2>1. k - 1 \in S /\ k - 1 <= n /\ (k - 1) + 1 = k
    BY <1>5, <1>6
  <2>2. start[k] = k - 1
    <3>1. start[(k - 1) + 1] = k - 1
      BY <2>1
    <3> QED
      BY <2>1, <3>1
  <2>3. 1 \in 1 .. Len(lists[k])
    <3>1. Len(lists[k]) = 1
      OBVIOUS
    <3> QED
      BY <3>1
  <2>4. t[start[k] + 1] = lists[k][1]
    BY <1>2, <2>3 DEF Reaches
  <2> QED
    BY <2>2, <2>4
<1>9. t = [k \in 1 .. n |-> t[k]]
  BY <1>1, <1>7
<1> QED
  BY <1>8, <1>9 DEF t
=============================================================================
