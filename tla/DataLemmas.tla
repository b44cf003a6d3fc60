----------------------------- MODULE DataLemmas -----------------------------
(***************************************************************************)
(* Facts about the data of the models that the library does not have.      *)
(*                                                                         *)
(* Finite sets of naturals in their order: the least and the greatest      *)
(* element, and the rank of an element, the number of elements up to it.   *)
(* Every rank from 1 to the cardinality is taken, and by one element only, *)
(* so that the i-th element of a set is well defined.                      *)
(*                                                                         *)
(* Filters: what Keep, a recursive function, leaves of a sequence.  Such a *)
(* function exists for every argument, and has a property for every        *)
(* argument, because a least one that breaks it does not exist.            *)
(***************************************************************************)
EXTENDS Integers, Sequences, Filters, FiniteSets, FiniteSetTheorems, WellFoundedInduction, TLAPS

\* The number of elements of S that are not above s.
Rank(S, s) == Cardinality({r \in S : r <= s})

-----------------------------------------------------------------------------

\* A set of numbers that is not empty has a least element.
LEMMA LeastExists ==
  ASSUME NEW S \in SUBSET Nat, S # {}
  PROVE  \E m \in S : \A d \in S : m <= d
<1> DEFINE R == OpToRel(<, Nat)
<1>1. IsWellFoundedOn(R, Nat)
  BY NatLessThanWellFounded
<1> HIDE DEF R
<1>2. PICK e \in S : \A d \in S : ~(<<d, e>> \in R)
  BY <1>1, WFMin
<1>3. \A x, y \in Nat : x < y => <<x, y>> \in R
  BY DEF R, OpToRel
<1>4. \A d \in S : ~(d < e)
  BY <1>2, <1>3, Zenon
<1>5. e \in Nat /\ \A d \in S : d \in Nat
  OBVIOUS
<1>6. \A d \in S : e <= d
  BY <1>4, <1>5
<1> QED BY <1>6

\* And a greatest, if it is bounded.
LEMMA GreatestExists ==
  ASSUME NEW n \in Nat, NEW S \in SUBSET (0..n), S # {}
  PROVE  \E m \in S : \A d \in S : d <= m
<1> DEFINE T == {n - e : e \in S}
<1>1. T \in SUBSET Nat /\ T # {}
  <2>1. \A e \in S : n - e \in Nat
    OBVIOUS
  <2>2. PICK e \in S : TRUE
    OBVIOUS
  <2>3. n - e \in T
    BY <2>2
  <2> QED BY <2>1, <2>3
<1>2. PICK m \in T : \A d \in T : m <= d
  BY <1>1, LeastExists
<1>3. PICK e \in S : m = n - e
  OBVIOUS
<1>4. \A d \in S : d <= e
  BY <1>2, <1>3
<1> QED BY <1>4

-----------------------------------------------------------------------------

\* A rank is at least 1 and at most the number of elements.
LEMMA RankType ==
  ASSUME NEW S \in SUBSET Nat, IsFiniteSet(S), NEW s \in S
  PROVE  Cardinality(S) \in Nat /\ Rank(S, s) \in 1..Cardinality(S)
<1> DEFINE Up == {r \in S : r <= s}
<1>1. Up \in SUBSET S /\ Up # {}
  <2>1. s \in Up
    OBVIOUS
  <2> QED BY <2>1
<1>2. IsFiniteSet(Up) /\ Cardinality(Up) <= Cardinality(S)
  BY <1>1, FS_Subset
<1>3. Cardinality(Up) \in Nat /\ Cardinality(S) \in Nat /\ Cardinality(Up) # 0
  BY <1>1, <1>2, FS_CardinalityType, FS_EmptySet
<1> QED BY <1>2, <1>3 DEF Rank

\* A greater element has a greater rank.
LEMMA RankMonotone ==
  ASSUME NEW S \in SUBSET Nat, IsFiniteSet(S), NEW s \in S, NEW t \in S, s < t
  PROVE  Rank(S, s) < Rank(S, t)
<1> DEFINE A == {r \in S : r <= s}
           B == {r \in S : r <= t}
<1>0. s \in Nat /\ t \in Nat /\ \A r \in S : r \in Nat
  OBVIOUS
<1>1. A \in SUBSET B /\ t \in B /\ t \notin A
  <2>1. t <= t /\ ~(t <= s) /\ \A r \in S : r <= s => r <= t
    BY <1>0
  <2> QED BY <2>1
<1>2. B \in SUBSET S
  OBVIOUS
<1>3. IsFiniteSet(B)
  BY <1>2, FS_Subset
<1> HIDE DEF A, B
<1>4. /\ IsFiniteSet(A)
      /\ Cardinality(A) <= Cardinality(B)
      /\ Cardinality(A) # Cardinality(B)
  BY <1>1, <1>3, FS_Subset
<1>5. Cardinality(A) \in Nat /\ Cardinality(B) \in Nat
  BY <1>3, <1>4, FS_CardinalityType
<1>6. Cardinality(A) < Cardinality(B)
  BY <1>4, <1>5
<1> QED BY <1>6 DEF A, B, Rank

\* Two elements of the same rank are one.
LEMMA RankUnique ==
  ASSUME NEW S \in SUBSET Nat, IsFiniteSet(S), NEW s \in S, NEW t \in S,
         Rank(S, s) = Rank(S, t)
  PROVE  s = t
<1>1. Rank(S, s) \in Nat /\ Rank(S, t) \in Nat
  BY RankType
<1>2. ~(s < t)
  BY <1>1, RankMonotone
<1>3. ~(t < s)
  BY <1>1, RankMonotone
<1> QED BY <1>2, <1>3

\* The elements up to the one that follows s are those up to s and that one.
LEMMA RankSuccessor ==
  ASSUME NEW S \in SUBSET Nat, IsFiniteSet(S), NEW s \in S, NEW t \in S, s < t,
         \A r \in S : s < r => t <= r
  PROVE  Rank(S, t) = Rank(S, s) + 1
<1> DEFINE A == {r \in S : r <= s}
<1>0. s \in Nat /\ t \in Nat /\ \A r \in S : r \in Nat
  OBVIOUS
<1>1. {r \in S : r <= t} = A \cup {t}
  <2>1. \A r \in S : r <= t <=> r <= s \/ r = t
    BY <1>0
  <2> QED BY <2>1
<1>2. A \in SUBSET S /\ t \notin A
  OBVIOUS
<1>3. IsFiniteSet(A)
  BY <1>2, FS_Subset
<1> HIDE DEF A
<1>4. Cardinality(A \cup {t}) = Cardinality(A) + 1
  BY <1>2, <1>3, FS_AddElement
<1> QED BY <1>1, <1>4 DEF A, Rank

\* The least element has rank 1.
LEMMA RankOfLeast ==
  ASSUME NEW S \in SUBSET Nat, NEW s \in S, \A r \in S : s <= r
  PROVE  Rank(S, s) = 1
<1>1. {r \in S : r <= s} = {s}
  <2>1. s \in Nat /\ \A r \in S : r \in Nat
    OBVIOUS
  <2>2. \A r \in S : r <= s <=> r = s
    BY <2>1
  <2> QED BY <2>2
<1>2. Cardinality({s}) = 1
  BY FS_Singleton
<1> QED BY <1>1, <1>2 DEF Rank

\* The greatest has the rank of all.
LEMMA RankOfGreatest ==
  ASSUME NEW S \in SUBSET Nat, NEW s \in S, \A r \in S : r <= s
  PROVE  Rank(S, s) = Cardinality(S)
<1>1. {r \in S : r <= s} = S
  OBVIOUS
<1> QED BY <1>1 DEF Rank

\* Every rank is taken.
LEMMA RankExists ==
  ASSUME NEW S \in SUBSET Nat, IsFiniteSet(S), NEW i \in 1..Cardinality(S)
  PROVE  \E s \in S : Rank(S, s) = i
<1>0. Cardinality(S) \in Nat
  BY FS_CardinalityType
<1> DEFINE Free == {j \in 1..Cardinality(S) : \A s \in S : Rank(S, s) # j}
<1> SUFFICES ASSUME Free # {} PROVE FALSE
  OBVIOUS
<1>1. Free \in SUBSET Nat
  BY <1>0
<1>2. PICK j \in Free : \A k \in Free : j <= k
  BY <1>1, LeastExists
<1>3. j \in 1..Cardinality(S) /\ \A s \in S : Rank(S, s) # j
  BY <1>2
<1>4. S # {}
  BY <1>0, <1>3, FS_EmptySet
<1>5. CASE j = 1
  <2>1. PICK s \in S : \A r \in S : s <= r
    BY <1>4, LeastExists
  <2>2. Rank(S, s) = 1
    BY <2>1, RankOfLeast
  <2> QED BY <1>3, <1>5, <2>2
<1>6. CASE j # 1
  <2>1. j - 1 \in 1..Cardinality(S) /\ ~(j <= j - 1)
    BY <1>0, <1>3, <1>6
  <2>2. j - 1 \notin Free
    BY <1>2, <2>1
  <2>3. PICK s \in S : Rank(S, s) = j - 1
    BY <2>1, <2>2
  <2> DEFINE Above == {r \in S : s < r}
  <2>4. Above # {}
    <3> SUFFICES ASSUME Above = {} PROVE FALSE
      OBVIOUS
    <3>1. \A r \in S : r <= s
      OBVIOUS
    <3>2. Rank(S, s) = Cardinality(S)
      BY <3>1, RankOfGreatest
    <3> QED BY <1>0, <1>3, <2>3, <3>2
  <2>5. PICK t \in Above : \A r \in Above : t <= r
    <3>1. Above \in SUBSET Nat
      OBVIOUS
    <3> QED BY <2>4, <3>1, LeastExists
  <2>6. Rank(S, t) = Rank(S, s) + 1
    BY <2>5, RankSuccessor
  <2> QED BY <1>0, <1>3, <2>3, <2>5, <2>6
<1> QED BY <1>5, <1>6

\* Counted from the other end: the elements from s on are all but those before.
LEMMA RankFromAbove ==
  ASSUME NEW S \in SUBSET Nat, IsFiniteSet(S), NEW s \in S
  PROVE  Cardinality({r \in S : r >= s}) = Cardinality(S) - Rank(S, s) + 1
<1> DEFINE Up   == {r \in S : r <= s}
           Down == {r \in S : r >= s}
<1>1. Up \cup Down = S /\ Up \cap Down = {s}
  <2>1. s \in Nat /\ \A r \in S : r \in Nat
    OBVIOUS
  <2>2. \A r \in S : (r <= s \/ r >= s) /\ (r <= s /\ r >= s <=> r = s)
    BY <2>1
  <2> QED BY <2>2
<1>2. Up \in SUBSET S /\ Down \in SUBSET S
  OBVIOUS
<1>3. IsFiniteSet(Up) /\ IsFiniteSet(Down)
  BY <1>2, FS_Subset
<1> HIDE DEF Up, Down
<1>4. Cardinality(Up \cap Down) = 1
  BY <1>1, FS_Singleton
<1>5. Cardinality(Up \cup Down) = Cardinality(Up) + Cardinality(Down) - 1
  BY <1>3, <1>4, FS_Union
<1>6. Cardinality(Up) \in Nat /\ Cardinality(Down) \in Nat /\ Cardinality(S) \in Nat
  BY <1>3, FS_CardinalityType
<1>7. Cardinality(Down) = Cardinality(S) - Cardinality(Up) + 1
  <2>1. Cardinality(S) = Cardinality(Up) + Cardinality(Down) - 1
    BY <1>1, <1>5
  <2> QED BY <1>6, <2>1
<1> QED BY <1>7 DEF Up, Down, Rank

\* The n-th element from the end.
LEMMA RankFromAboveExists ==
  ASSUME NEW S \in SUBSET Nat, IsFiniteSet(S), NEW n \in 1..Cardinality(S)
  PROVE  \E s \in S : Cardinality({r \in S : r >= s}) = n
<1>0. Cardinality(S) \in Nat
  BY FS_CardinalityType
<1>1. n \in Nat /\ Cardinality(S) - n + 1 \in 1..Cardinality(S)
  BY <1>0
<1>2. PICK s \in S : Rank(S, s) = Cardinality(S) - n + 1
  BY <1>1, RankExists
<1>3. Cardinality({r \in S : r >= s}) = Cardinality(S) - Rank(S, s) + 1
  BY RankFromAbove
<1>4. Cardinality({r \in S : r >= s}) = n
  BY <1>0, <1>1, <1>2, <1>3
<1> QED BY <1>4

-----------------------------------------------------------------------------
(* Filters.                                                                *)

\* f tells, up to index n, what is kept of the first elements of s.
Keeps(f, s, S, n) ==
  /\ DOMAIN f = 0..n
  /\ \A i \in 0..n : f[i] = IF i = 0 THEN <<>>
                            ELSE IF s[i] \in S THEN Append(f[i - 1], s[i]) ELSE f[i - 1]

\* There is such a function for every sequence.
LEMMA KeepsExists ==
  ASSUME NEW s, NEW S, NEW n \in Nat
  PROVE  \E f : Keeps(f, s, S, n)
<1> DEFINE B == {m \in Nat : ~\E f : Keeps(f, s, S, m)}
<1>1. SUFFICES ASSUME B # {} PROVE FALSE
  OBVIOUS
<1>2. PICK m \in B : \A d \in B : m <= d
  <2>1. B \in SUBSET Nat
    OBVIOUS
  <2> HIDE DEF B
  <2> QED BY <1>1, <2>1, LeastExists
<1>3. m # 0
  <2> DEFINE g == [i \in 0..0 |-> <<>>]
  <2>1. Keeps(g, s, S, 0)
    BY DEF Keeps
  <2> HIDE DEF g
  <2> QED BY <2>1
<1>4. m - 1 \in Nat /\ m \in Nat
  BY <1>3
<1>5. ~(m - 1 \in B)
  <2> HIDE DEF B
  <2> QED BY <1>2, <1>4
<1>6. PICK f : Keeps(f, s, S, m - 1)
  BY <1>4, <1>5
<1> DEFINE g == [i \in 0..m |->
                   IF i < m THEN f[i]
                   ELSE IF s[m] \in S THEN Append(f[m - 1], s[m]) ELSE f[m - 1]]
<1>7. Keeps(g, s, S, m)
  <2>1. \A i \in 0..(m - 1) : g[i] = f[i]
    BY <1>4
  <2>2. g[m] = IF s[m] \in S THEN Append(f[m - 1], s[m]) ELSE f[m - 1]
    BY <1>4
  <2>3. DOMAIN g = 0..m
    OBVIOUS
  <2> HIDE DEF g
  <2>4. ASSUME NEW i \in 0..m
        PROVE  g[i] = IF i = 0 THEN <<>>
                      ELSE IF s[i] \in S THEN Append(g[i - 1], s[i]) ELSE g[i - 1]
    <3>1. CASE i = 0
      BY <1>3, <1>4, <1>6, <2>1, <3>1 DEF Keeps
    <3>2. CASE i # 0 /\ i < m
      <4>1. i \in 0..(m - 1) /\ i - 1 \in 0..(m - 1)
        BY <1>4, <3>2
      <4> QED BY <1>6, <2>1, <3>2, <4>1 DEF Keeps
    <3>3. CASE i = m
      <4>1. g[m - 1] = f[m - 1]
        BY <1>3, <1>4, <2>1
      <4> QED BY <1>3, <2>2, <3>3, <4>1
    <3> QED BY <1>4, <3>1, <3>2, <3>3
  <2> QED BY <2>3, <2>4 DEF Keeps
<1> HIDE DEF g
<1> QED BY <1>2, <1>7

\* What Keep returns is where such a function ends.
LEMMA KeepEnds ==
  ASSUME NEW s, NEW S, Len(s) \in Nat
  PROVE  \E f : Keeps(f, s, S, Len(s)) /\ Keep(s, S) = f[Len(s)]
<1> DEFINE Is(f) == f = [i \in 0..Len(s) |-> IF i = 0 THEN <<>>
                           ELSE IF s[i] \in S THEN Append(f[i - 1], s[i]) ELSE f[i - 1]]
           kept == CHOOSE f : Is(f)
<1>1. PICK f : Keeps(f, s, S, Len(s))
  BY KeepsExists
<1>2. Is([i \in 0..Len(s) |-> f[i]])
  <2> DEFINE g == [i \in 0..Len(s) |-> f[i]]
  <2>1. \A i \in 0..Len(s) : i # 0 => i - 1 \in 0..Len(s)
    OBVIOUS
  <2>2. \A i \in 0..Len(s) : g[i] = IF i = 0 THEN <<>>
                           ELSE IF s[i] \in S THEN Append(g[i - 1], s[i]) ELSE g[i - 1]
    BY <1>1, <2>1 DEF Keeps
  <2> QED BY <2>2
<1>3. Is(kept)
  BY <1>2, Zenon
<1>4. Keep(s, S) = kept[Len(s)]
  BY Zenon DEF Keep
<1> HIDE DEF kept
<1>5. Keeps(kept, s, S, Len(s))
  BY <1>3 DEF Keeps
<1> QED BY <1>4, <1>5

\* Of the first i elements of s the sequence r has those that are in S, and no
\* others.
Picked(r, s, S, T, i) ==
  /\ r \in Seq(T)
  /\ \A j \in DOMAIN r : \E k \in 1..i : s[k] \in S /\ r[j] = s[k]
  /\ \A k \in 1..i : s[k] \in S => \E j \in DOMAIN r : r[j] = s[k]

\* The function picks the members of S, however far it has come.
LEMMA KeepsPicks ==
  ASSUME NEW T, NEW s \in Seq(T), NEW S, NEW f, Keeps(f, s, S, Len(s)), NEW n \in 0..Len(s)
  PROVE  Picked(f[n], s, S, T, n)
<1> DEFINE B == {m \in 0..Len(s) : ~Picked(f[m], s, S, T, m)}
<1>1. SUFFICES ASSUME B # {} PROVE FALSE
  OBVIOUS
<1>2. PICK m \in B : \A d \in B : m <= d
  <2>1. B \in SUBSET Nat
    OBVIOUS
  <2> HIDE DEF B
  <2> QED BY <1>1, <2>1, LeastExists
<1>3. m # 0
  <2>1. f[0] = <<>>
    BY DEF Keeps
  <2>2. Picked(f[0], s, S, T, 0)
    BY <2>1 DEF Picked
  <2> QED BY <2>2
<1>4. m \in 1..Len(s) /\ m - 1 \in 0..Len(s)
  BY <1>3
<1>5. ~(m - 1 \in B)
  <2> HIDE DEF B
  <2> QED BY <1>2, <1>4
<1>6. Picked(f[m - 1], s, S, T, m - 1)
  BY <1>4, <1>5
<1>7. f[m] = IF s[m] \in S THEN Append(f[m - 1], s[m]) ELSE f[m - 1]
  BY <1>4 DEF Keeps
<1>8. s[m] \in T
  BY <1>4
<1>9. Picked(f[m], s, S, T, m)
  <2> DEFINE r == f[m - 1]
  <2>1. \A k \in 1..(m - 1) : k \in 1..m
    BY <1>4
  <2>2. \A k \in 1..m : k \in 1..(m - 1) \/ k = m
    BY <1>4
  <2>3. CASE s[m] \in S
    <3>1. f[m] = Append(r, s[m]) /\ r \in Seq(T)
      BY <1>6, <1>7, <2>3 DEF Picked
    <3> HIDE DEF r
    <3>2. f[m] \in Seq(T)
      BY <1>8, <3>1
    <3>3. ASSUME NEW j \in DOMAIN f[m]
          PROVE  \E k \in 1..m : s[k] \in S /\ f[m][j] = s[k]
      <4>1. CASE j \in DOMAIN r
        <5>1. f[m][j] = r[j]
          BY <3>1, <4>1
        <5>2. PICK k \in 1..(m - 1) : s[k] \in S /\ r[j] = s[k]
          BY <1>6, <4>1 DEF Picked, r
        <5> QED BY <2>1, <5>1, <5>2
      <4>2. CASE j \notin DOMAIN r
        <5>1. f[m][j] = s[m]
          BY <3>1, <4>2
        <5>2. m \in 1..m
          BY <1>4
        <5> QED BY <2>3, <5>1, <5>2
      <4> QED BY <4>1, <4>2
    <3>4. \A j \in DOMAIN r : j \in DOMAIN f[m] /\ f[m][j] = r[j]
      BY <3>1
    <3>5. Len(r) + 1 \in DOMAIN f[m] /\ f[m][Len(r) + 1] = s[m]
      BY <3>1
    <3>6. ASSUME NEW k \in 1..m, s[k] \in S
          PROVE  \E j \in DOMAIN f[m] : f[m][j] = s[k]
      <4>1. CASE k = m
        BY <3>5, <4>1
      <4>2. CASE k # m
        <5>1. PICK j \in DOMAIN r : r[j] = s[k]
          BY <1>6, <2>2, <3>6, <4>2 DEF Picked, r
        <5> QED BY <3>4, <5>1
      <4> QED BY <4>1, <4>2
    <3> QED BY <3>2, <3>3, <3>6 DEF Picked
  <2>4. CASE s[m] \notin S
    <3>1. f[m] = r
      BY <1>7, <2>4
    <3>2. \A j \in DOMAIN r : \E k \in 1..m : s[k] \in S /\ r[j] = s[k]
      BY <1>6, <2>1 DEF Picked
    <3>3. \A k \in 1..m : s[k] \in S => \E j \in DOMAIN r : r[j] = s[k]
      BY <1>6, <2>2, <2>4 DEF Picked
    <3> QED BY <1>6, <3>1, <3>2, <3>3 DEF Picked
  <2> QED BY <2>3, <2>4
<1> QED BY <1>2, <1>9

\* x is a member of the sequence s.
In(x, s) == \E i \in DOMAIN s : s[i] = x

\* So does Keep: its result has the members of s that are in S, and no others.
LEMMA KeepPicks ==
  ASSUME NEW T, NEW s \in Seq(T), NEW S
  PROVE  /\ Keep(s, S) \in Seq(T)
         /\ \A x : In(x, Keep(s, S)) <=> x \in S /\ In(x, s)
<1>1. PICK f : Keeps(f, s, S, Len(s)) /\ Keep(s, S) = f[Len(s)]
  BY KeepEnds
<1>2. Picked(Keep(s, S), s, S, T, Len(s))
  BY <1>1, KeepsPicks
<1>3. DOMAIN s = 1..Len(s)
  OBVIOUS
<1> QED BY <1>2, <1>3 DEF Picked, In

\* An element more at the end.
LEMMA InAppended ==
  ASSUME NEW T, NEW s \in Seq(T), NEW t \in T
  PROVE  /\ Append(s, t) \in Seq(T)
         /\ \A x : In(x, Append(s, t)) <=> x = t \/ In(x, s)
<1> DEFINE r == Append(s, t)
<1>1. r \in Seq(T) /\ Len(s) + 1 \in DOMAIN r /\ r[Len(s) + 1] = t
  OBVIOUS
<1>2. \A i \in DOMAIN s : i \in DOMAIN r /\ r[i] = s[i]
  OBVIOUS
<1>3. \A i \in DOMAIN r : i \in DOMAIN s \/ i = Len(s) + 1
  OBVIOUS
<1> HIDE DEF r
<1>4. \A x : In(x, r) <=> x = t \/ In(x, s)
  BY <1>1, <1>2, <1>3 DEF In
<1> QED BY <1>1, <1>4 DEF r
=============================================================================
