-------------------------- MODULE TranscriptProofs --------------------------
(***************************************************************************)
(* Theorems about the transcript, for every size of lines, chunks and      *)
(* windows.  FollowerShowsWholeLines is kept because between the part held *)
(* back and the offset there is no newline (Held), so that what the next   *)
(* chunk completes begins where the last line shown ended.                 *)
(***************************************************************************)
EXTENDS Transcript, DataLemmas, SequenceTheorems

\* The file: newlines are where writes ended, and the write in progress began
\* at one, so that less than a line follows the last newline.
FileInv ==
  /\ size \in Nat /\ target \in Nat /\ size <= target
  /\ ends \subseteq 1..size
  /\ size = target => size \in {0} \cup ends
  /\ size < target => \E b \in {0} \cup ends : b <= size /\ target - b \in Widths

\* The follower: what it has read and not shown holds no newline.
Held ==
  /\ logs.from \in Nat /\ logs.held \in Nat /\ logs.off \in Nat
  /\ logs.from <= logs.held /\ logs.held <= logs.off /\ logs.off <= size
  /\ logs.held \in {logs.from} \cup ends
  /\ \A e \in ends : ~(logs.held < e /\ e <= logs.off)
  /\ logs.at \in {"closed", "found"} => logs.held = logs.from

\* The fields of the follower that its steps set.
LogsRecord ==
  logs = [at |-> logs.at, mode |-> logs.mode, back |-> logs.back, from |-> logs.from,
          off |-> logs.off, held |-> logs.held, shown |-> logs.shown,
          status |-> logs.status, settled |-> logs.settled, full |-> logs.full]

FollowInv ==
  /\ FileInv
  /\ LogsRecord
  /\ Held
  /\ FollowerShowsWholeLines

-----------------------------------------------------------------------------
(* Sets of places                                                          *)

\* A set of numbers that is not empty has a least element.
LEMMA Least ==
  ASSUME NEW S \in SUBSET Nat, S # {}
  PROVE  Min(S) \in S /\ \A d \in S : Min(S) <= d
BY LeastExists DEF Min

\* And a greatest, if it is bounded.
LEMMA Greatest ==
  ASSUME NEW n \in Nat, NEW S \in SUBSET (0..n), S # {}
  PROVE  Max(S) \in S /\ \A d \in S : d <= Max(S)
<1>1. PICK m \in S : \A d \in S : d <= m
  BY GreatestExists
<1>2. \A d \in S : d >= d /\ m >= d
  BY <1>1
<1> QED BY <1>1, <1>2 DEF Max

\* s and e are the ends of a line between a and b.
IsLine(newlines, s, e, a, b) ==
  /\ s \in {a} \cup newlines /\ e \in newlines
  /\ a <= s /\ s < e /\ e <= b
  /\ \A d \in newlines : ~(s < d /\ d < e)

\* What is in LinesBetween.
LEMMA Member ==
  ASSUME NEW N, NEW a, NEW b
  PROVE  /\ \A s, e : <<s, e>> \in LinesBetween(N, a, b) <=> IsLine(N, s, e, a, b)
         /\ \A l \in LinesBetween(N, a, b) : \E s, e : l = <<s, e>>
<1>1. ASSUME NEW s, NEW e
      PROVE  <<s, e>> \in LinesBetween(N, a, b) <=> IsLine(N, s, e, a, b)
  <2>1. <<s, e>>[1] = s /\ <<s, e>>[2] = e
    OBVIOUS
  <2>2. <<s, e>> \in ({a} \cup N) \X N <=> s \in {a} \cup N /\ e \in N
    OBVIOUS
  <2> QED BY <2>1, <2>2 DEF LinesBetween, IsLine
<1>2. \A l \in LinesBetween(N, a, b) : l \in ({a} \cup N) \X N
  BY DEF LinesBetween
<1>3. \A l \in LinesBetween(N, a, b) : \E s, e : l = <<s, e>>
  BY <1>2
<1> QED BY <1>1, <1>3

\* Two stretches that meet at a newline, or where the first begins, make one.
LEMMA Telescope ==
  ASSUME NEW N \in SUBSET Nat, NEW a \in Nat, NEW b \in Nat, NEW c \in Nat,
         a <= b, b <= c, b \in {a} \cup N
  PROVE  LinesBetween(N, a, b) \cup LinesBetween(N, b, c) = LinesBetween(N, a, c)
<1>1. ASSUME NEW s, NEW e, s \in Nat, e \in Nat
      PROVE  IsLine(N, s, e, a, b) \/ IsLine(N, s, e, b, c) <=> IsLine(N, s, e, a, c)
  BY <1>1 DEF IsLine
<1>2. \A s, e, x, y : IsLine(N, s, e, x, y) /\ x \in Nat => s \in Nat /\ e \in Nat
  BY DEF IsLine
<1>3. \A s, e : IsLine(N, s, e, a, b) \/ IsLine(N, s, e, b, c) <=> IsLine(N, s, e, a, c)
  BY <1>1, <1>2
<1>4. \A s, e : <<s, e>> \in LinesBetween(N, a, b) \cup LinesBetween(N, b, c)
               <=> <<s, e>> \in LinesBetween(N, a, c)
  BY <1>3, Member
<1>5. \A l \in LinesBetween(N, a, b) \cup LinesBetween(N, b, c) : \E s, e : l = <<s, e>>
  BY Member
<1>6. \A l \in LinesBetween(N, a, c) : \E s, e : l = <<s, e>>
  BY Member
<1> QED BY <1>4, <1>5, <1>6

\* There is nothing between a place and itself.
LEMMA NoLines ==
  ASSUME NEW N \in SUBSET Nat, NEW a \in Nat PROVE LinesBetween(N, a, a) = {}
<1>1. ASSUME NEW s, NEW e, IsLine(N, s, e, a, a) PROVE FALSE
  <2>1. s \in Nat /\ e \in Nat /\ a <= s /\ s < e /\ e <= a
    BY <1>1 DEF IsLine
  <2> QED BY <2>1
<1> QED BY <1>1, Member

\* What is between two places stays when a newline comes after them.
LEMMA NewNewline ==
  ASSUME NEW N \in SUBSET Nat, NEW a \in Nat, NEW b \in Nat, NEW t \in Nat,
         a <= b, b < t
  PROVE  LinesBetween(N \cup {t}, a, b) = LinesBetween(N, a, b)
<1> DEFINE M == N \cup {t}
<1>1. ASSUME NEW s, NEW e PROVE IsLine(M, s, e, a, b) <=> IsLine(N, s, e, a, b)
  <2>1. IsLine(N, s, e, a, b) \/ IsLine(M, s, e, a, b) => s \in Nat /\ e \in Nat
    BY DEF IsLine
  <2>2. s \in Nat /\ e \in Nat =>
          (IsLine(M, s, e, a, b) <=> IsLine(N, s, e, a, b))
    BY DEF IsLine
  <2> QED BY <2>1, <2>2
<1> HIDE DEF M
<1>2. \A s, e : <<s, e>> \in LinesBetween(M, a, b) <=> <<s, e>> \in LinesBetween(N, a, b)
  BY <1>1, Member
<1>3. /\ \A l \in LinesBetween(M, a, b) : \E s, e : l = <<s, e>>
      /\ \A l \in LinesBetween(N, a, b) : \E s, e : l = <<s, e>>
  BY Member
<1>4. LinesBetween(M, a, b) = LinesBetween(N, a, b)
  BY <1>2, <1>3
<1> QED BY <1>4 DEF M

-----------------------------------------------------------------------------
(* The lines of a file                                                     *)

\* The lines of a file of size z whose lines begin at S.
LinesOf(S, z) ==
  LET Nth(i) == CHOOSE s \in S : Rank(S, s) = i
      n      == Cardinality(S)
  IN  [i \in 1..n |-> <<Nth(i), IF i < n THEN Nth(i + 1) ELSE z>>]

LEMMA ReadLinesAre == ReadLines = LinesOf(Starts, size)
BY DEF ReadLines, LinesOf, Rank

\* There are as many lines as beginnings, line i begins at the i-th, and ends
\* where the next begins or the file ends.
LEMMA LinesInOrder ==
  ASSUME NEW z \in Nat, NEW S \in SUBSET Nat, \A s \in S : s < z
  PROVE  /\ IsFiniteSet(S) /\ Cardinality(S) \in Nat
         /\ LinesOf(S, z) \in Seq(Nat \X Nat)
         /\ Len(LinesOf(S, z)) = Cardinality(S)
         /\ \A i \in 1..Cardinality(S) :
              LET l == LinesOf(S, z)[i]
              IN  /\ l[1] \in S /\ Rank(S, l[1]) = i
                  /\ l[2] = IF i < Cardinality(S) THEN LinesOf(S, z)[i + 1][1] ELSE z
<1> DEFINE Nth(i) == CHOOSE s \in S : Rank(S, s) = i
           n      == Cardinality(S)
<1>1. IsFiniteSet(S)
  <2>1. S \in SUBSET (0..z)
    OBVIOUS
  <2>2. IsFiniteSet(0..z)
    BY FS_Interval
  <2> QED BY <2>1, <2>2, FS_Subset
<1>2. n \in Nat
  BY <1>1, FS_CardinalityType
<1>3. \A i \in 1..n : Nth(i) \in S /\ Rank(S, Nth(i)) = i
  BY <1>1, RankExists
<1>4. LinesOf(S, z) = [i \in 1..n |-> <<Nth(i), IF i < n THEN Nth(i + 1) ELSE z>>]
  BY DEF LinesOf
<1> HIDE DEF Nth, n
<1>5. \A i \in 1..n : i < n => i + 1 \in 1..n
  BY <1>2
<1>6. \A i \in 1..n : <<Nth(i), IF i < n THEN Nth(i + 1) ELSE z>> \in Nat \X Nat
  BY <1>3, <1>5
<1>7. LinesOf(S, z) \in Seq(Nat \X Nat) /\ Len(LinesOf(S, z)) = n
  BY <1>2, <1>4, <1>6
<1>8. \A i \in 1..n : /\ LinesOf(S, z)[i][1] = Nth(i)
                      /\ LinesOf(S, z)[i][2] = IF i < n THEN Nth(i + 1) ELSE z
  BY <1>4
<1>9. \A i \in 1..n : i < n => LinesOf(S, z)[i + 1][1] = Nth(i + 1)
  BY <1>5, <1>8
<1> QED BY <1>1, <1>2, <1>3, <1>7, <1>8, <1>9 DEF n

\* A line is not empty, ends within the file, and no other begins in it.
LEMMA LinesAreWhole ==
  ASSUME NEW z \in Nat, NEW S \in SUBSET Nat, \A s \in S : s < z,
         NEW i \in 1..Cardinality(S)
  PROVE  LET l == LinesOf(S, z)[i]
         IN  /\ l[1] \in Nat /\ l[2] \in Nat /\ l[1] < l[2] /\ l[2] <= z
             /\ l = <<l[1], l[2]>>
             /\ \A s \in S : ~(l[1] < s /\ s < l[2])
<1> DEFINE l == LinesOf(S, z)[i]
           n == Cardinality(S)
<1>0. IsFiniteSet(S) /\ n \in Nat
  BY LinesInOrder
<1>1. IsFiniteSet(S) /\ n \in Nat /\ i \in Nat
  BY <1>0
<1>2. l \in Nat \X Nat
  BY <1>1, LinesInOrder
<1>3. l[1] \in S /\ Rank(S, l[1]) = i
  BY LinesInOrder
<1>4. l[1] \in Nat /\ l[2] \in Nat /\ l = <<l[1], l[2]>>
  BY <1>2
<1>5. CASE i < n
  <2> DEFINE k == LinesOf(S, z)[i + 1][1]
  <2>1. i + 1 \in 1..n
    BY <1>1, <1>5
  <2>2. k \in S /\ Rank(S, k) = i + 1
    BY <2>1, LinesInOrder
  <2>3. l[2] = k
    BY <1>5, LinesInOrder
  <2> HIDE DEF l, k, n
  <2>4. ~(k < l[1]) /\ k # l[1]
    <3>1. Rank(S, l[1]) < Rank(S, k)
      BY <1>1, <1>3, <2>2
    <3>2. k < l[1] => Rank(S, k) < Rank(S, l[1])
      BY <1>1, <1>3, <2>2, RankMonotone
    <3> QED BY <1>1, <1>3, <2>2, <3>1, <3>2
  <2>5. ASSUME NEW s \in S, l[1] < s, s < k PROVE FALSE
    <3>1. Rank(S, l[1]) < Rank(S, s) /\ Rank(S, s) < Rank(S, k)
      BY <1>1, <1>3, <2>2, <2>5, RankMonotone
    <3>2. Rank(S, s) \in Nat
      BY <1>1, RankType
    <3> QED BY <1>1, <1>3, <2>2, <3>1, <3>2
  <2>6. k \in Nat /\ k < z
    BY <2>2
  <2>7. l[1] < l[2] /\ l[2] <= z
    BY <1>4, <2>3, <2>4, <2>6
  <2>8. \A s \in S : ~(l[1] < s /\ s < l[2])
    BY <2>3, <2>5
  <2> QED BY <1>4, <2>7, <2>8 DEF l
<1>6. CASE ~(i < n)
  <2>0. l[2] = IF i < n THEN LinesOf(S, z)[i + 1][1] ELSE z
    BY LinesInOrder
  <2>1. l[2] = z /\ i = n
    BY <1>1, <1>6, <2>0
  <2>2. l[1] < l[2]
    BY <1>3, <2>1
  <2> HIDE DEF l, n
  <2>3. ASSUME NEW s \in S, l[1] < s PROVE FALSE
    <3>1. Rank(S, l[1]) < Rank(S, s)
      BY <1>1, <1>3, <2>3, RankMonotone
    <3>2. Rank(S, s) \in 1..n
      BY <1>1, RankType DEF n
    <3> QED BY <1>1, <1>3, <2>1, <3>1, <3>2
  <2> QED BY <1>4, <2>1, <2>2, <2>3 DEF l
<1> QED BY <1>5, <1>6

\* A file that grows keeps the beginnings of its lines; a line that has ended
\* keeps its end, and the last one may get longer.
LEMMA LinesGrow ==
  ASSUME NEW z \in Nat, NEW y \in Nat, z < y,
         NEW S \in SUBSET Nat, \A s \in S : s < z, NEW T, T = S \/ T = S \cup {z}
  PROVE  /\ Cardinality(T) = Cardinality(S) + IF T = S THEN 0 ELSE 1
         /\ \A i \in 1..Cardinality(S) :
              /\ LinesOf(T, y)[i][1] = LinesOf(S, z)[i][1]
              /\ LinesOf(S, z)[i][2] <= LinesOf(T, y)[i][2]
              /\ LinesOf(S, z)[i][2] < z \/ T # S => LinesOf(T, y)[i][2] = LinesOf(S, z)[i][2]
<1> DEFINE n == Cardinality(S)
           m == Cardinality(T)
           L == LinesOf(S, z)
           M == LinesOf(T, y)
<1>1. T \in SUBSET Nat /\ z \notin S /\ \A s \in T : s < y
  <2>1. \A s \in T : s \in S \/ s = z
    OBVIOUS
  <2>2. \A s \in S : s \in Nat /\ s < y /\ s < z
    OBVIOUS
  <2>3. \A s \in T : s \in Nat /\ s < y
    BY <2>1, <2>2
  <2> QED BY <2>2, <2>3
<1>2. IsFiniteSet(S) /\ IsFiniteSet(T) /\ n \in Nat /\ m \in Nat
  BY <1>1, LinesInOrder
<1>3. m = n + IF T = S THEN 0 ELSE 1
  <2>1. CASE T = S
    BY <1>2, <2>1
  <2>2. CASE T # S
    <3>1. T = S \cup {z}
      BY <2>2
    <3>2. Cardinality(S \cup {z}) = n + 1
      BY <1>1, <1>2, FS_AddElement
    <3> QED BY <2>2, <3>1, <3>2
  <2> QED BY <2>1, <2>2
<1>4. \A s \in S : s \in T /\ Rank(T, s) = Rank(S, s)
  <2> SUFFICES ASSUME NEW s \in S PROVE s \in T /\ Rank(T, s) = Rank(S, s)
    OBVIOUS
  <2>1. s \in Nat /\ s < z /\ ~(z <= s) /\ s \in T
    OBVIOUS
  <2>2. \A r : r \in T /\ r <= s <=> r \in S /\ r <= s
    BY <2>1
  <2>3. {r \in T : r <= s} = {r \in S : r <= s}
    BY <2>2
  <2> QED BY <2>1, <2>3 DEF Rank
<1>5. /\ \A i \in 1..n : L[i][1] \in S /\ Rank(S, L[i][1]) = i
                         /\ L[i][2] = IF i < n THEN L[i + 1][1] ELSE z
      /\ \A i \in 1..m : M[i][1] \in T /\ Rank(T, M[i][1]) = i
                         /\ M[i][2] = IF i < m THEN M[i + 1][1] ELSE y
  BY <1>1, LinesInOrder
<1>6. \A i \in 1..n : i \in 1..m
  BY <1>2, <1>3
<1> HIDE DEF n, m, L, M
<1>7. \A i \in 1..n : M[i][1] = L[i][1]
  <2> SUFFICES ASSUME NEW i \in 1..n PROVE M[i][1] = L[i][1]
    OBVIOUS
  <2>1. L[i][1] \in T /\ Rank(T, L[i][1]) = i
    BY <1>4, <1>5
  <2>2. M[i][1] \in T /\ Rank(T, M[i][1]) = i
    BY <1>5, <1>6
  <2>3. \A s, t \in T : Rank(T, s) = Rank(T, t) => s = t
    BY <1>1, <1>2, RankUnique
  <2> QED BY <2>1, <2>2, <2>3
<1>8. T # S => m = n + 1 /\ M[n + 1][1] = z
  <2> SUFFICES ASSUME T # S PROVE m = n + 1 /\ M[n + 1][1] = z
    OBVIOUS
  <2>1. m = n + 1 /\ T = S \cup {z}
    BY <1>2, <1>3
  <2>2. z \in T /\ \A r \in T : r <= z
    BY <2>1
  <2>3. Rank(T, z) = m
    BY <1>1, <2>2, RankOfGreatest DEF m
  <2>4. m \in 1..m
    BY <1>2, <2>1
  <2>5. M[m][1] \in T /\ Rank(T, M[m][1]) = m
    BY <1>5, <2>4
  <2>6. M[m][1] = z
    <3>1. \A s \in T : Rank(T, s) = Rank(T, z) => s = z
      BY <1>1, <1>2, <2>2, RankUnique
    <3> QED BY <2>3, <2>5, <3>1
  <2> QED BY <2>1, <2>6
<1>9. ASSUME NEW i \in 1..n
      PROVE  /\ L[i][2] <= M[i][2]
             /\ L[i][2] < z \/ T # S => M[i][2] = L[i][2]
  <2>1. CASE i < n
    <3>1. i + 1 \in 1..n /\ i < m
      BY <1>2, <1>3, <2>1
    <3>2. M[i][2] = M[i + 1][1] /\ L[i][2] = L[i + 1][1] /\ M[i + 1][1] = L[i + 1][1]
      BY <1>5, <1>6, <1>7, <2>1, <3>1
    <3>3. L[i + 1][1] \in Nat
      BY <1>5, <3>1
    <3>4. M[i][2] = L[i][2] /\ L[i][2] \in Nat
      BY <3>2, <3>3
    <3> QED BY <3>4
  <2>2. CASE ~(i < n)
    <3>1. i = n /\ L[i][2] = z
      BY <1>2, <1>5, <2>2
    <3>2. CASE T = S
      <4>1. M[i][2] = y
        BY <1>2, <1>3, <1>5, <1>6, <3>1, <3>2
      <4> QED BY <3>1, <3>2, <4>1
    <3>3. CASE T # S
      <4>1. M[i][2] = z
        BY <1>2, <1>5, <1>6, <1>8, <3>1, <3>3
      <4> QED BY <3>1, <4>1
    <3> QED BY <3>2, <3>3
  <2> QED BY <2>1, <2>2
<1> QED BY <1>3, <1>7, <1>9 DEF n, m, L, M

-----------------------------------------------------------------------------
(* The steps                                                               *)

\* A write that lands puts its newline after all there is.
LEMMA LandsKeeps == FollowInv /\ Lands => FollowInv'
<1> SUFFICES ASSUME FollowInv, Lands PROVE FollowInv'
  OBVIOUS
<1> USE DEF FollowInv, FileInv, Held, LogsRecord
<1>1. /\ size' \in Nat /\ size < size' /\ size' <= target /\ target' = target
      /\ logs' = logs
  BY DEF Lands
<1>2. FileInv'
  <2>1. CASE size' = target
    BY <1>1, <2>1 DEF Lands
  <2>2. CASE size' # target
    BY <1>1, <2>2 DEF Lands
  <2> QED BY <2>1, <2>2
<1>3. Held'
  BY <1>1 DEF Lands
<1>4. LinesBetween(ends', logs.from, logs.held) = LinesBetween(ends, logs.from, logs.held)
  <2>1. CASE size' = target
    <3>1. ends' = ends \cup {target} /\ logs.held < target
      BY <1>1, <2>1 DEF Lands
    <3>2. ends \in SUBSET Nat
      OBVIOUS
    <3> QED BY <1>1, <3>1, <3>2, NewNewline
  <2>2. CASE size' # target
    BY <1>1, <2>2 DEF Lands
  <2> QED BY <2>1, <2>2
<1>5. (logs.back # 0 => logs.from \in {0} \cup ends)'
  BY <1>1 DEF Lands, FollowerShowsWholeLines
<1> QED BY <1>1, <1>2, <1>3, <1>4, <1>5 DEF FollowerShowsWholeLines

\* What backNLines looks at: the bytes from here on, and the newlines in them.
WindowStart == IF size > Window THEN size - Window ELSE 0
InWindow    == {e \in ends : WindowStart < e}

\* Where a new follower is put: at the n-th beginning of a line from the end, or,
\* when the window has fewer, at the first it is sure of.
LEMMA FollowCases ==
  ASSUME FileInv, NEW n \in Backlogs \ {-1, 0}
  PROVE  LET B == InWindow \ {size}
         IN  \/ FollowAt(n) \in B /\ Cardinality({d \in B : d >= FollowAt(n)}) = n
             \/ /\ \A e \in B : Cardinality({d \in B : d >= e}) # n
                /\ \/ WindowStart = 0 /\ FollowAt(n) = 0
                   \/ /\ size > Window /\ WindowStart = size - Window
                      /\ FollowAt(n) \in InWindow
                      /\ \A d \in InWindow : FollowAt(n) <= d
<1> USE TranscriptAssumption DEF FileInv
<1> DEFINE B == InWindow \ {size}
           Found == {e \in B : Cardinality({d \in B : d >= e}) = n}
<1>0. /\ ends \subseteq 0..size /\ size \in Nat /\ Window \in Nat \ {0}
      /\ n \in Nat \ {0}
  OBVIOUS
<1>1. FollowAt(n) = BackNLines(n, WindowStart)
  BY <1>0 DEF FollowAt, WindowStart
<1>2. BackNLines(n, WindowStart) =
        IF Found # {} THEN CHOOSE e \in Found : TRUE
        ELSE IF WindowStart = 0 THEN 0
        ELSE IF InWindow # {} THEN Min(InWindow)
        ELSE size
  BY DEF BackNLines, InWindow
<1>3. CASE Found # {}
  <2>1. (CHOOSE e \in Found : TRUE) \in Found
    BY <1>3
  <2>2. FollowAt(n) \in Found
    BY <1>1, <1>2, <1>3, <2>1
  <2> QED BY <2>2
<1>4. CASE Found = {} /\ WindowStart = 0
  <2>1. FollowAt(n) = 0
    BY <1>1, <1>2, <1>4
  <2> QED BY <1>4, <2>1
<1>5. CASE Found = {} /\ WindowStart # 0
  <2>1. size > Window /\ WindowStart = size - Window
    BY <1>0, <1>5 DEF WindowStart
  <2>2. InWindow # {}
    <3>1. CASE size = target
      <4>1. size \in ends /\ WindowStart < size
        BY <1>0, <2>1, <3>1
      <4> QED BY <4>1 DEF InWindow
    <3>2. CASE size < target
      <4>1. PICK b \in {0} \cup ends : b <= size /\ target - b \in Widths
        BY <3>2
      <4>2. target - b <= Window - 1
        BY <4>1
      <4>3. b > size - Window /\ b \in ends
        BY <2>1, <3>2, <4>1, <4>2
      <4> QED BY <2>1, <4>3 DEF InWindow
    <3> QED BY <3>1, <3>2
  <2>3. InWindow \in SUBSET Nat
    <3>1. \A e \in InWindow : e \in ends
      BY DEF InWindow
    <3>2. \A e \in ends : e \in Nat
      BY <1>0
    <3>3. \A e \in InWindow : e \in Nat
      BY <3>1, <3>2
    <3> QED BY <3>3
  <2>4. Min(InWindow) \in InWindow /\ \A d \in InWindow : Min(InWindow) <= d
    BY <2>2, <2>3, Least
  <2>5. FollowAt(n) = Min(InWindow)
    BY <1>1, <1>2, <1>5, <2>2
  <2> QED BY <1>5, <2>1, <2>4, <2>5
<1> QED BY <1>3, <1>4, <1>5

\* The follower is put at the beginning of a line, except by -n 0.
LEMMA FollowsALine ==
  ASSUME FileInv, NEW n \in Backlogs
  PROVE  /\ FollowAt(n) \in 0..size
         /\ n # 0 => FollowAt(n) \in {0} \cup ends
<1> USE TranscriptAssumption
<1>1. ends \subseteq 0..size /\ size \in Nat
  BY DEF FileInv
<1>2. CASE n \in {-1, 0}
  BY <1>1, <1>2 DEF FollowAt
<1>3. CASE n \notin {-1, 0}
  <2>1. FollowAt(n) \in InWindow \/ FollowAt(n) = 0
    BY <1>3, FollowCases
  <2>2. InWindow \subseteq ends /\ 0 \in 0..size
    BY <1>1 DEF InWindow
  <2> QED BY <1>1, <2>1, <2>2
<1> QED BY <1>2, <1>3

\* Opening the follower.
LEMMA OpensKeeps ==
  ASSUME FollowInv, NEW n \in Backlogs, NEW m, NEW phase, phase \notin {"closed", "found"},
         logs.at \in {"closed", "found"}, Opens(n, m, phase), LogsStep
  PROVE  FollowInv'
<1> DEFINE at == FollowAt(n)
<1>1. at \in Nat /\ at <= size /\ (n # 0 => at \in {0} \cup ends)
  BY FollowsALine DEF FollowInv, FileInv
<1>2. /\ size' = size /\ target' = target /\ ends' = ends
      /\ logs'.from = at /\ logs'.off = at /\ logs'.held = at
      /\ logs'.shown = logs.shown /\ logs'.back = n /\ logs'.at = phase
      /\ LogsRecord'
  BY DEF Opens, LogsStep, file, LogsRecord, FollowInv
<1>3. logs.shown = {}
  BY NoLines DEF FollowInv, FileInv, Held, FollowerShowsWholeLines
<1>4. FileInv'
  BY <1>2 DEF FileInv, FollowInv
<1>5. Held'
  <2>1. \A e \in ends : ~(at < e /\ e <= at)
    BY <1>1 DEF FollowInv, FileInv
  <2> HIDE DEF at
  <2> QED BY <1>1, <1>2, <2>1 DEF Held
<1>6. FollowerShowsWholeLines'
  <2>1. ends \in SUBSET Nat
    BY DEF FollowInv, FileInv
  <2>2. LinesBetween(ends, at, at) = {}
    BY <1>1, <2>1, NoLines
  <2> QED BY <1>1, <1>2, <1>3, <2>2 DEF FollowerShowsWholeLines
<1> QED BY <1>2, <1>4, <1>5, <1>6 DEF FollowInv

\* A read of one chunk, wherever it ends.
LEMMA ReadKeeps ==
  ASSUME FollowInv, NEW at, at \notin {"closed", "found"}, ReadsNext(at), LogsStep
  PROVE  FollowInv'
<1> USE TranscriptAssumption
<1> DEFINE read == IF size - logs.off > Chunk THEN Chunk ELSE size - logs.off
           off  == logs.off + read
           done == {e \in ends : logs.off < e /\ e <= off}
           held == IF done = {} THEN logs.held ELSE Max(done)
<1>1. /\ size' = size /\ target' = target /\ ends' = ends
      /\ logs'.from = logs.from /\ logs'.off = off /\ logs'.held = held
      /\ logs'.shown = logs.shown \cup LinesBetween(ends, logs.held, held)
      /\ logs'.back = logs.back /\ logs'.at = at
      /\ LogsRecord'
  BY DEF ReadsNext, LogsStep, file, LogsRecord, FollowInv
<1>2. off \in Nat /\ logs.off <= off /\ off <= size
  BY DEF FollowInv, FileInv, Held
<1>3. /\ held \in Nat /\ logs.held <= held /\ held <= off
      /\ held \in {logs.held} \cup ends
      /\ \A e \in ends : ~(held < e /\ e <= off)
  <2>1. CASE done = {}
    BY <1>2, <2>1 DEF FollowInv, FileInv, Held
  <2>2. CASE done # {}
    <3>1. ends \subseteq 0..size /\ size \in Nat /\ logs.off \in Nat
      BY DEF FollowInv, FileInv, Held
    <3>2. done \in SUBSET (0..size)
      BY <3>1
    <3>3. Max(done) \in done /\ \A d \in done : d <= Max(done)
      BY <2>2, <3>1, <3>2, Greatest
    <3>4. held \in done /\ \A d \in done : d <= held
      BY <2>2, <3>3
    <3>5. held \in ends /\ held \in Nat /\ logs.off < held /\ held <= off
      <4> HIDE DEF held, off
      <4> QED BY <3>1, <3>4
    <3>6. \A e \in ends : ~(held < e /\ e <= off)
      <4> SUFFICES ASSUME NEW e \in ends, held < e, e <= off PROVE FALSE
        OBVIOUS
      <4>1. e \in Nat /\ logs.off < e
        BY <3>1, <3>5
      <4>2. e \in done
        BY <4>1
      <4> QED BY <3>4, <3>5, <4>1, <4>2
    <3> QED BY <3>1, <3>5, <3>6 DEF FollowInv, Held
  <2> QED BY <2>1, <2>2
<1> HIDE DEF held, off
<1>4. FileInv'
  BY <1>1 DEF FileInv, FollowInv
<1>5. Held'
  BY <1>1, <1>2, <1>3 DEF Held, FollowInv
<1>6. FollowerShowsWholeLines'
  <2>0. ends \in SUBSET Nat
    BY DEF FollowInv, FileInv
  <2>1. LinesBetween(ends, logs.from, logs.held) \cup LinesBetween(ends, logs.held, held)
          = LinesBetween(ends, logs.from, held)
    BY <1>3, <2>0, Telescope DEF FollowInv, Held
  <2>2. logs'.shown = LinesBetween(ends, logs.from, held)
    BY <1>1, <2>1 DEF FollowInv, FollowerShowsWholeLines
  <2> QED BY <1>1, <2>2 DEF FollowInv, FollowerShowsWholeLines
<1> QED BY <1>1, <1>4, <1>5, <1>6 DEF FollowInv

\* A step that leaves the file and the follower's reading alone.
LEMMA QuietKeeps ==
  ASSUME FollowInv, LogsRecord',
         size' = size, ends' = ends, UNCHANGED logs.from, UNCHANGED logs.off,
         UNCHANGED logs.held, UNCHANGED logs.shown, UNCHANGED logs.back,
         logs'.at \in {"closed", "found"} => logs.at \in {"closed", "found"},
         FileInv'
  PROVE  FollowInv'
BY DEF FollowInv, Held, FollowerShowsWholeLines

-----------------------------------------------------------------------------
(* The follower                                                            *)

\* Every step of the system keeps the invariant of the follower.
LEMMA FollowStep == FollowInv /\ [Next]_vars => FollowInv'
<1> SUFFICES ASSUME FollowInv, [Next]_vars PROVE FollowInv'
  OBVIOUS
<1> USE DEF owner, file
<1>0. LogsRecord /\ FileInv
  BY DEF FollowInv
<1>1. ASSUME AppendLine PROVE FollowInv'
  <2>1. /\ size' = size /\ ends' = ends /\ logs' = logs /\ size = target
    BY <1>1 DEF AppendLine, Unlocked
  <2>2. FileInv'
    <3>1. CASE target' = target
      BY <1>0, <2>1, <3>1 DEF FileInv
    <3>2. CASE target' # target
      <4>1. PICK w \in Widths : target' = size + w
        BY <1>1, <3>2 DEF AppendLine
      <4>2. w \in Nat /\ w > 0 /\ size \in Nat /\ size \in {0} \cup ends
        BY <1>0, <2>1, TranscriptAssumption DEF FileInv
      <4>3. target' - size \in Widths /\ size < target' /\ target' \in Nat
        BY <4>1, <4>2
      <4>4. \E b \in {0} \cup ends' : b <= size' /\ target' - b \in Widths
        BY <2>1, <4>2, <4>3
      <4> QED BY <1>0, <2>1, <4>3, <4>4 DEF FileInv
    <3> QED BY <3>1, <3>2
  <2> QED BY <1>0, <2>1, <2>2, QuietKeeps DEF LogsRecord
<1>2. CASE Lands
  BY <1>2, LandsKeeps
<1>3. ASSUME UNCHANGED <<file, logs>> PROVE FollowInv'
  BY <1>0, <1>3, QuietKeeps DEF LogsRecord, FileInv
<1>4. ASSUME NEW n \in Backlogs, NEW m \in Modes, LogsOpens(n, m) PROVE FollowInv'
  BY <1>4, OpensKeeps DEF LogsOpens
<1>5. ASSUME NEW n \in Backlogs, StreamAttaches(n) PROVE FollowInv'
  BY <1>5, OpensKeeps DEF StreamAttaches
<1>6. CASE StreamFound
  <2>1. /\ UNCHANGED file /\ LogsRecord' /\ logs.at = "closed"
        /\ UNCHANGED logs.from /\ UNCHANGED logs.off /\ UNCHANGED logs.held
        /\ UNCHANGED logs.shown /\ UNCHANGED logs.back
    BY <1>0, <1>6 DEF StreamFound, LogsStep, LogsRecord
  <2> QED BY <1>0, <2>1, QuietKeeps DEF FileInv
<1>7. CASE LogsDrains \/ LogsCloses \/ LogsTicks
  <2>1. PICK at \in {"drained", "left", "polled"} : ReadsNext(at) /\ LogsStep
    BY <1>7 DEF LogsDrains, LogsCloses, LogsTicks
  <2>2. at \notin {"closed", "found"}
    OBVIOUS
  <2> QED BY <2>1, <2>2, ReadKeeps
<1>8. ASSUME LogsLooks \/ LogsLooksAgain PROVE FollowInv'
  <2>1. /\ UNCHANGED file /\ LogsRecord' /\ logs'.at \notin {"closed", "found"}
        /\ UNCHANGED logs.from /\ UNCHANGED logs.off /\ UNCHANGED logs.held
        /\ UNCHANGED logs.shown /\ UNCHANGED logs.back
    BY <1>0, <1>8 DEF LogsLooks, LogsLooksAgain, LogsStep, LogsRecord
  <2> QED BY <1>0, <2>1, QuietKeeps DEF FileInv
<1>9. CASE Next
  <2>1. CASE Output \/ LateOutput
    BY <1>1, <2>1 DEF Output, LateOutput
  <2>2. CASE Settle \/ Persist \/ Dies \/ WatchBegins \/ WatchFrom
    BY <1>3, <2>2 DEF Settle, Persist, Dies, WatchBegins, WatchFrom
  <2>3. CASE AdoptRecord \/ AdoptLines
    BY <1>3, <2>3 DEF AdoptRecord, AdoptLines, CopyStep
  <2>4. CASE \E r \in Refreshers : Refresh(r)
    BY <1>3, <2>4 DEF Refresh, RefreshBegins, RefreshReadsRecord, RefreshApplies, CopyStep
  <2>5. CASE Follow
    BY <1>7, <1>8, <2>5 DEF Follow
  <2>6. ASSUME NEW max \in Pages, GetOutput(max) PROVE FollowInv'
    BY <1>3, <2>6 DEF GetOutput
  <2>7. CASE GetStatus
    BY <1>3, <2>7 DEF GetStatus
  <2> QED BY <1>2, <1>4, <1>5, <1>6, <1>9, <2>1, <2>2, <2>3, <2>4, <2>5, <2>6, <2>7 DEF Next
<1>10. CASE UNCHANGED vars
  BY <1>3, <1>10 DEF vars
<1> QED BY <1>9, <1>10

LEMMA FollowInit == Init => FollowInv
<1> SUFFICES ASSUME Init PROVE FollowInv
  OBVIOUS
<1>1. LinesBetween(ends, 0, 0) = {}
  BY NoLines DEF Init
<1> QED BY <1>1 DEF Init, FollowInv, FileInv, LogsRecord, Held, FollowerShowsWholeLines

\* `logs` shows every line of the transcript from where it began to where it
\* stands, each of them whole and nothing but lines, whatever the sizes of
\* lines, chunks and the window, and wherever in a line the writer is when a
\* chunk is read.
THEOREM WholeLines == Spec => []FollowerShowsWholeLines
<1>1. FollowInv => FollowerShowsWholeLines
  BY DEF FollowInv
<1> QED BY <1>1, FollowInit, FollowStep, PTL DEF Spec

-----------------------------------------------------------------------------
(* What the owner writes                                                   *)

\* The steps, by what they may change.
LEMMA StepCases ==
  ASSUME [Next]_vars
  PROVE  \/ Output \/ LateOutput \/ Lands \/ Settle \/ Persist
         \/ /\ UNCHANGED <<total, running, late, file, record, logs, copy, refresh>>
            /\ up' \in {up, FALSE}
         \/ CopyStep /\ (AdoptRecord \/ AdoptLines \/ \E r \in Refreshers : Refresh(r))
         \/ LogsStep /\ \/ \E n \in Backlogs, m \in Modes : LogsOpens(n, m)
                        \/ StreamFound
                        \/ \E n \in Backlogs : StreamAttaches(n)
                        \/ Follow
<1> USE DEF owner, file
<1>1. Dies \/ WatchBegins \/ WatchFrom \/ GetStatus \/ (\E max \in Pages : GetOutput(max))
        => /\ UNCHANGED <<total, running, late, file, record, logs, copy, refresh>>
           /\ up' \in {up, FALSE}
  BY DEF Dies, WatchBegins, WatchFrom, GetStatus, GetOutput
<1>2. AdoptRecord \/ AdoptLines \/ (\E r \in Refreshers : Refresh(r)) => CopyStep
  BY DEF AdoptRecord, AdoptLines, Refresh, RefreshBegins, RefreshReadsRecord, RefreshApplies
<1>3. (\E n \in Backlogs, m \in Modes : LogsOpens(n, m)) \/ StreamFound
        \/ (\E n \in Backlogs : StreamAttaches(n)) \/ Follow => LogsStep
  BY DEF LogsOpens, StreamFound, StreamAttaches, Follow, LogsDrains, LogsLooks, LogsCloses,
         LogsTicks, LogsLooksAgain
<1>4. UNCHANGED vars => UNCHANGED <<total, running, late, file, record, logs, copy, refresh, up>>
  BY DEF vars
<1> QED BY <1>1, <1>2, <1>3, <1>4 DEF Next

\* Where lines begin is a finite set, below the size.
LEMMA Beginnings ==
  ASSUME FileInv PROVE size \in Nat /\ Starts \in SUBSET Nat /\ \A s \in Starts : s < size
<1>1. size \in Nat /\ ends \subseteq 1..size
  BY DEF FileInv
<1>2. \A s \in {0} \cup ends : s \in Nat
  BY <1>1
<1>3. \A s \in Starts : s \in {0} \cup ends /\ s < size
  BY DEF Starts
<1> QED BY <1>1, <1>2, <1>3

\* The file grows at its end only, and what comes after a newline begins a line.
LEMMA NewBeginning ==
  ASSUME FileInv, Lands
  PROVE  /\ size \in Nat /\ size' \in Nat /\ size < size'
         /\ Starts' = IF size \in {0} \cup ends THEN Starts \cup {size} ELSE Starts
<1>1. /\ size \in Nat /\ target \in Nat /\ size' \in (size + 1)..target
      /\ ends' = IF size' = target THEN ends \cup {target} ELSE ends
      /\ ends \subseteq 1..size
  BY DEF Lands, FileInv
<1>2. size' \in Nat /\ size < size'
  BY <1>1
<1>3. \A s : s \in Starts' <=> s \in Starts \/ (s = size /\ size \in {0} \cup ends)
  <2>0. \A s \in {0} \cup ends : s \in Nat /\ s < size'
    BY <1>1, <1>2
  <2>1. \A s : s \in {0} \cup ends' /\ s < size' <=> s \in {0} \cup ends
    <3>1. CASE size' = target
      <4>1. ends' = ends \cup {size'} /\ ~(size' < size')
        BY <1>1, <1>2, <3>1
      <4> QED BY <2>0, <4>1
    <3>2. CASE size' # target
      BY <1>1, <2>0, <3>2
    <3> QED BY <3>1, <3>2
  <2>2. \A s \in {0} \cup ends : s < size \/ s = size
    BY <1>1
  <2>3. \A s : s \in Starts' <=> s \in {0} \cup ends' /\ s < size'
    BY DEF Starts
  <2>4. \A s : s \in Starts <=> s \in {0} \cup ends /\ s < size
    BY DEF Starts
  <2> QED BY <2>1, <2>2, <2>3, <2>4
<1>4. Starts' = IF size \in {0} \cup ends THEN Starts \cup {size} ELSE Starts
  BY <1>3
<1> QED BY <1>1, <1>2, <1>4

\* The lines there are at some time are the first of those there are later, and
\* those that have ended are the same.
LinesKept ==
  /\ Len(ReadLines) \in Nat /\ Len(ReadLines') \in Nat
  /\ Len(ReadLines) <= Len(ReadLines')
  /\ \A i \in 1..Len(ReadLines) :
       /\ ReadLines'[i][1] = ReadLines[i][1]
       /\ ReadLines[i][2] <= ReadLines'[i][2]
       /\ ReadLines[i][2] \in ends => ReadLines'[i][2] = ReadLines[i][2]

\* What there is to read: lines that are not empty and lie within the file.
LEMMA Reading ==
  ASSUME FileInv
  PROVE  /\ Len(ReadLines) = Cardinality(Starts) /\ Len(ReadLines) \in Nat
         /\ ReadLines \in Seq(Nat \X Nat)
         /\ \A i \in 1..Len(ReadLines) :
              LET l == ReadLines[i]
              IN  /\ l[1] \in Starts /\ l[1] \in Nat /\ l[2] \in Nat
                  /\ l[1] < l[2] /\ l[2] <= size /\ l = <<l[1], l[2]>>
                  /\ l[2] \in ends \cup {size}
                  /\ \A s \in Starts : ~(l[1] < s /\ s < l[2])
<1>1. size \in Nat /\ Starts \in SUBSET Nat /\ \A s \in Starts : s < size
  BY Beginnings
<1> DEFINE L == LinesOf(Starts, size)
           n == Cardinality(Starts)
<1>2. n \in Nat /\ L \in Seq(Nat \X Nat) /\ Len(L) = n
  BY <1>1, LinesInOrder
<1>3. \A i \in 1..n : /\ L[i][1] \in Starts
                      /\ L[i][2] = IF i < n THEN L[i + 1][1] ELSE size
  BY <1>1, LinesInOrder
<1>4. \A i \in 1..n : /\ L[i][1] \in Nat /\ L[i][2] \in Nat /\ L[i][1] < L[i][2]
                      /\ L[i][2] <= size /\ L[i] = <<L[i][1], L[i][2]>>
                      /\ \A s \in Starts : ~(L[i][1] < s /\ s < L[i][2])
  BY <1>1, LinesAreWhole
<1> HIDE DEF L, n
<1>5. \A i \in 1..n : L[i][2] \in ends \cup {size}
  <2> SUFFICES ASSUME NEW i \in 1..n PROVE L[i][2] \in ends \cup {size}
    OBVIOUS
  <2>1. CASE i < n
    <3>1. i + 1 \in 1..n
      BY <1>2, <2>1
    <3>2. L[i][2] \in Starts /\ L[i][2] # 0
      BY <1>3, <1>4, <2>1, <3>1
    <3> QED BY <3>2 DEF Starts
  <2>2. CASE ~(i < n)
    BY <1>3, <2>2
  <2> QED BY <2>1, <2>2
<1>6. ReadLines = L /\ Len(L) = n /\ n = Cardinality(Starts)
  BY <1>2, ReadLinesAre DEF L, n
<1> QED BY <1>2, <1>3, <1>4, <1>5, <1>6

\* Every step keeps the lines.
LEMMA LinesStep == FileInv /\ FileInv' /\ [Next]_vars => LinesKept
<1> SUFFICES ASSUME FileInv, FileInv', [Next]_vars PROVE LinesKept
  OBVIOUS
<1>1. CASE Lands
  <2> DEFINE S == Starts
             T == Starts'
             z == size
             y == size'
             L == LinesOf(S, z)
             M == LinesOf(T, y)
  <2>1. z \in Nat /\ y \in Nat /\ z < y /\ S \in SUBSET Nat /\ \A s \in S : s < z
    BY <1>1, NewBeginning, Beginnings
  <2>2. (T = S \/ T = S \cup {z}) /\ (z \in {0} \cup ends => T # S)
    BY <1>1, <2>1, NewBeginning
  <2>3. T \in SUBSET Nat /\ \A s \in T : s < y
    <3>1. \A s \in T : s \in S \/ s = z
      BY <2>2
    <3>2. \A s \in S : s \in Nat /\ s < y
      BY <2>1
    <3>3. \A s \in T : s \in Nat /\ s < y
      BY <2>1, <3>1, <3>2
    <3> QED BY <3>3
  <2>4. ReadLines = L /\ ReadLines' = M
    <3>1. ReadLines' = LinesOf(Starts', size')
      BY DEF ReadLines, LinesOf, Rank
    <3> QED BY <3>1, ReadLinesAre
  <2> HIDE DEF S, T, z, y
  <2>5. Len(L) = Cardinality(S) /\ Cardinality(S) \in Nat
    BY <2>1, LinesInOrder
  <2>6. Len(M) = Cardinality(T) /\ Cardinality(T) \in Nat
    BY <2>1, <2>3, LinesInOrder
  <2>7. \A i \in 1..Cardinality(S) : L[i][2] \in Nat /\ L[i][2] <= z
    BY <2>1, LinesAreWhole
  <2>8. /\ Cardinality(T) = Cardinality(S) + IF T = S THEN 0 ELSE 1
        /\ \A i \in 1..Cardinality(S) :
              /\ M[i][1] = L[i][1] /\ L[i][2] <= M[i][2]
              /\ L[i][2] < z \/ T # S => M[i][2] = L[i][2]
    BY <2>1, <2>2, LinesGrow
  <2> HIDE DEF S, T, z, y, L, M
  <2>9. Len(ReadLines) = Cardinality(S) /\ Len(ReadLines') = Cardinality(T)
    BY <2>4, <2>5, <2>6
  <2>10. Cardinality(S) <= Cardinality(T)
    BY <2>5, <2>6, <2>8
  <2>11. \A i \in 1..Cardinality(S) : L[i][2] \in ends => M[i][2] = L[i][2]
    BY <2>1, <2>2, <2>7, <2>8
  <2> QED BY <2>4, <2>5, <2>6, <2>8, <2>9, <2>10, <2>11 DEF LinesKept
<1>2. CASE UNCHANGED <<size, ends>>
  <2>1. ReadLines' = ReadLines
    BY <1>2 DEF ReadLines, Starts
  <2> QED BY <2>1, Reading DEF LinesKept
<1>3. Lands \/ UNCHANGED <<size, ends>>
  BY StepCases DEF file, Output, LateOutput, AppendLine, Settle, Persist, CopyStep, LogsStep
<1> QED BY <1>1, <1>2, <1>3

\* The lines that the file has and the one, if any, that has been begun and of
\* which nothing has landed.
Written ==
  Cardinality(Starts) + IF size < target /\ size \in {0} \cup ends THEN 1 ELSE 0

\* Every line up to the limit goes to the file, and the lines of the turn are
\* there, each to its end, as soon as it is over.
OwnerInv ==
  /\ FileInv
  /\ total \in 0..(Limit + 1) /\ late \in 0..MaxLate
  /\ running \in BOOLEAN /\ up \in BOOLEAN /\ record \in Statuses
  /\ record = "ended" => ~running
  /\ Written = IF total < Limit THEN total ELSE Limit
  /\ ~running => /\ Due <= Len(ReadLines)
                 /\ \A i \in 1..Due : ReadLines[i][2] \in ends

LEMMA DueIs ==
  ASSUME total \in Nat, late \in Nat
  PROVE  Due \in Int /\ Due = IF total - late <= Limit THEN total - late ELSE Limit
<1>1. Limit \in Nat
  BY TranscriptAssumption
<1>2. total - late \in Int
  OBVIOUS
<1> DEFINE due == IF total - late <= Limit THEN total - late ELSE Limit
<1>3. /\ due \in {total - late, Limit} /\ due \in Int
      /\ \A y \in {total - late, Limit} : due <= y /\ y \in Int
  BY <1>1, <1>2
<1> HIDE DEF due
<1>4. \A x \in {total - late, Limit} :
        (\A y \in {total - late, Limit} : x <= y) => x = due
  BY <1>3
<1>5. Min({total - late, Limit}) = due
  BY <1>3, <1>4 DEF Min
<1> QED BY <1>3, <1>5 DEF Due, due

\* Every step of the system keeps the invariant of the owner.
LEMMA OwnerStep == OwnerInv /\ FileInv' /\ [Next]_vars => OwnerInv'
<1> SUFFICES ASSUME OwnerInv, FileInv', [Next]_vars PROVE OwnerInv'
  OBVIOUS
<1>0. /\ FileInv /\ Limit \in Nat \ {0} /\ MaxLate \in Nat
      /\ total \in 0..(Limit + 1) /\ late \in 0..MaxLate
      /\ running \in BOOLEAN /\ up \in BOOLEAN /\ record \in Statuses
      /\ record = "ended" => ~running
      /\ Written = IF total < Limit THEN total ELSE Limit
  BY TranscriptAssumption DEF OwnerInv
<1>1. /\ total \in Nat /\ late \in Nat
      /\ Due \in Int /\ Due = IF total - late <= Limit THEN total - late ELSE Limit
  BY <1>0, DueIs
<1>2. LinesKept /\ Len(ReadLines) = Cardinality(Starts)
  BY <1>0, LinesStep, Reading
\* What has been written of the turn stays.
<1>3. ASSUME ~running, Due' = Due, ends \subseteq ends'
      PROVE  /\ Due' <= Len(ReadLines')
             /\ \A i \in 1..Due' : ReadLines'[i][2] \in ends'
  <2>1. Due <= Len(ReadLines) /\ \A i \in 1..Due : ReadLines[i][2] \in ends
    BY <1>3 DEF OwnerInv
  <2>2. \A i \in 1..Due : i \in 1..Len(ReadLines)
    BY <1>1, <1>2, <2>1 DEF LinesKept
  <2>3. \A i \in 1..Due : ReadLines'[i][2] \in ends'
    BY <1>2, <1>3, <2>1, <2>2 DEF LinesKept
  <2>4. Due <= Len(ReadLines')
    BY <1>1, <1>2, <2>1 DEF LinesKept
  <2> QED BY <1>3, <2>3, <2>4
<1>4. ASSUME AppendLine
      PROVE  /\ UNCHANGED <<running, up, size, ends, record>>
             /\ total' \in 0..(Limit + 1) /\ total <= total' /\ total' <= total + 1
             /\ Written' = IF total' < Limit THEN total' ELSE Limit
  <2>1. UNCHANGED <<running, up, size, ends, record>> /\ size = target
    BY <1>4 DEF AppendLine, Unlocked
  <2>2. total' = IF total <= Limit THEN total + 1 ELSE total
    BY <1>4 DEF AppendLine
  <2>3. total' \in 0..(Limit + 1) /\ total <= total' /\ total' <= total + 1
    BY <1>0, <2>2
  <2>4. Starts' = Starts
    BY <2>1 DEF Starts
  <2>5. size \in Nat /\ Cardinality(Starts) \in Nat /\ size \in {0} \cup ends
    BY <1>0, <1>2, <2>1, Reading DEF FileInv
  <2>6. Written = Cardinality(Starts)
    BY <2>1, <2>5 DEF Written
  <2>7. CASE total < Limit
    <3>1. PICK w \in Widths : target' = size + w
      BY <1>4, <2>7 DEF AppendLine
    <3>2. w \in Nat /\ w > 0
      BY TranscriptAssumption
    <3>3. size' < target' /\ size' \in {0} \cup ends'
      BY <2>1, <2>5, <3>1, <3>2
    <3>4. Written' = Cardinality(Starts) + 1
      BY <2>4, <3>3 DEF Written
    <3> QED BY <1>0, <2>1, <2>2, <2>3, <2>6, <2>7, <3>4
  <2>8. CASE ~(total < Limit)
    <3>1. ~(size' < target')
      BY <1>4, <2>1, <2>5, <2>8 DEF AppendLine
    <3>2. Written' = Cardinality(Starts)
      BY <2>4, <2>5, <3>1 DEF Written
    <3> QED BY <1>0, <2>1, <2>2, <2>3, <2>6, <2>8, <3>2
  <2> QED BY <2>7, <2>8
<1>5. CASE Output
  <2>1. running /\ AppendLine /\ late' = late
    BY <1>5 DEF Output
  <2>2. running' /\ record' = record /\ up' = up
    BY <1>4, <2>1
  <2> QED BY <1>0, <1>4, <2>1, <2>2 DEF OwnerInv
<1>6. CASE LateOutput
  <2>1. ~running /\ late < MaxLate /\ AppendLine /\ late' = late + (total' - total)
    BY <1>6 DEF LateOutput
  <2>2. late' \in 0..MaxLate /\ total' - late' = total - late /\ total' \in Nat /\ late' \in Nat
    BY <1>0, <1>4, <2>1
  <2>3. Due' = Due
    BY <2>2 DEF Due
  <2>4. ends' = ends
    BY <1>4, <2>1
  <2>5. ~running' /\ record' = record /\ up' = up
    BY <1>4, <2>1
  <2>6. /\ Due' <= Len(ReadLines')
        /\ \A i \in 1..Due' : ReadLines'[i][2] \in ends'
    BY <1>3, <2>1, <2>3, <2>4
  <2> QED BY <1>0, <1>4, <2>1, <2>2, <2>5, <2>6 DEF OwnerInv
<1>7. CASE Lands
  <2>1. /\ UNCHANGED <<total, running, late, up, record, target>> /\ ends \subseteq ends'
        /\ size' <= target
    <3>1. UNCHANGED <<total, running, late, up, record, target>> /\ ends \subseteq ends'
      BY <1>7 DEF Lands, owner
    <3>2. size' <= target
      BY <1>0, <1>7 DEF Lands, FileInv
    <3> QED BY <3>1, <3>2
  <2>2. Due' = Due
    BY <2>1 DEF Due
  <2>3. /\ size \in Nat /\ size' \in Nat /\ target \in Nat /\ size < size'
        /\ Starts' = IF size \in {0} \cup ends THEN Starts \cup {size} ELSE Starts
    BY <1>0, <1>7, NewBeginning DEF FileInv
  <2>4. Written' = Cardinality(Starts')
    <3>1. size' < target => ends' = ends
      BY <1>7, <2>3 DEF Lands
    <3>2. ends \subseteq 1..size
      BY <1>0 DEF FileInv
    <3>3. size' < target => size' \notin {0} \cup ends'
      BY <2>3, <3>1, <3>2
    <3>4. Cardinality(Starts') \in Nat
      <4>1. Starts' \in SUBSET Nat /\ \A s \in Starts' : s < size'
        <5>1. \A s \in Starts : s \in Nat /\ s < size /\ s < size'
          BY <1>0, <2>3, Beginnings
        <5>2. \A s \in Starts' : s \in Starts \/ s = size
          BY <2>3
        <5>3. \A s \in Starts' : s \in Nat /\ s < size'
          BY <2>3, <5>1, <5>2
        <5> QED BY <5>3
      <4> QED BY <2>3, <4>1, LinesInOrder
    <3> QED BY <2>1, <3>3, <3>4 DEF Written
  <2>5. Cardinality(Starts') = Written
    <3>1. CASE size \in {0} \cup ends
      <4>1. Starts' = Starts \cup {size} /\ size \notin Starts /\ IsFiniteSet(Starts)
        <5>1. Starts \in SUBSET Nat /\ \A s \in Starts : s < size
          BY <1>0, Beginnings
        <5>2. size \notin Starts
          BY <2>3, <5>1
        <5>3. IsFiniteSet(Starts)
          BY <2>3, <5>1, LinesInOrder
        <5> QED BY <2>3, <3>1, <5>2, <5>3
      <4>2. Cardinality(Starts \cup {size}) = Cardinality(Starts) + 1
        BY <4>1, FS_AddElement
      <4>3. size < target
        BY <2>1, <2>3
      <4> QED BY <3>1, <4>1, <4>2, <4>3 DEF Written
    <3>2. CASE size \notin {0} \cup ends
      <4>1. Cardinality(Starts) \in Nat
        BY <1>0, Reading
      <4> QED BY <2>3, <3>2, <4>1 DEF Written
    <3> QED BY <3>1, <3>2
  <2>6. ~running => /\ Due' <= Len(ReadLines')
                    /\ \A i \in 1..Due' : ReadLines'[i][2] \in ends'
    BY <1>3, <2>1, <2>2
  <2> QED BY <1>0, <2>1, <2>4, <2>5, <2>6 DEF OwnerInv
<1>8. CASE Settle
  <2>1. /\ UNCHANGED <<total, late, up, size, ends, target, record>> /\ running' = FALSE
        /\ size = target
    BY <1>8 DEF Settle, file, Unlocked
  <2>2. /\ Due' = Due /\ Starts' = Starts /\ Written' = Written /\ ReadLines' = ReadLines
    BY <2>1 DEF Due, Starts, Written, ReadLines
  <2>3. size \in Nat /\ Len(ReadLines) \in Nat /\ size \in {0} \cup ends
    BY <1>0, <2>1, Reading DEF FileInv
  <2>4. Written = Len(ReadLines)
    BY <1>2, <2>1, <2>3 DEF Written
  <2>5. Due <= Len(ReadLines)
    BY <1>0, <1>1, <2>4
  <2>6. \A i \in 1..Due : ReadLines[i][2] \in ends
    <3>1. \A i \in 1..Len(ReadLines) : ReadLines[i][2] \in ends \cup {size}
                                       /\ ReadLines[i][2] # 0
      BY <1>0, Reading
    <3>2. \A i \in 1..Due : i \in 1..Len(ReadLines)
      BY <1>1, <2>3, <2>5
    <3> QED BY <2>3, <3>1, <3>2
  <2> QED BY <1>0, <2>1, <2>2, <2>5, <2>6 DEF OwnerInv
<1>9. ASSUME UNCHANGED <<total, running, late, file>>, up' \in BOOLEAN, record' \in Statuses,
             record' = "ended" => ~running
      PROVE  OwnerInv'
  <2>1. Due' = Due /\ Written' = Written /\ ends' = ends /\ running' = running
    BY <1>9 DEF Due, Written, Starts, file
  <2> QED BY <1>0, <1>3, <1>9, <2>1 DEF OwnerInv
<1>10. CASE Persist
  <2>1. UNCHANGED <<total, running, late, file>> /\ up' = up /\ ~running /\ record' = "ended"
    BY <1>10 DEF Persist, owner
  <2>2. record' \in Statuses
    BY <2>1 DEF Statuses
  <2> QED BY <1>0, <1>9, <2>1, <2>2
<1>11. ASSUME UNCHANGED <<total, running, late, file, record>>, up' \in {up, FALSE}
       PROVE  OwnerInv'
  BY <1>0, <1>9, <1>11
<1> QED BY <1>5, <1>6, <1>7, <1>8, <1>10, <1>11, StepCases DEF CopyStep, LogsStep, owner

\* What has ended stays so, and what it left does.
LEMMA OverStays ==
  ASSUME OwnerInv, FileInv', [Next]_vars
  PROVE  /\ size \in Nat /\ size' \in Nat /\ size <= size' /\ Lines \subseteq Lines'
         /\ record = "ended" => record' = "ended" /\ ~running
         /\ ~running => Due' = Due
<1>1. size <= size' /\ (record = "ended" => record' = "ended") /\ (~running => Due' = Due)
  <2>1. size \in Nat /\ target \in Nat /\ total \in Nat /\ late \in Nat /\ Limit \in Nat
    BY TranscriptAssumption DEF OwnerInv, FileInv
  <2>2. CASE Output
    BY <2>1, <2>2 DEF Output, AppendLine
  <2>3. CASE LateOutput
    <3>1. late' = late + (total' - total) /\ total' \in Nat /\ size' = size /\ record' = record
      <4>1. late' = late + (total' - total) /\ AppendLine
        BY <2>3 DEF LateOutput
      <4> QED BY <2>1, <4>1 DEF AppendLine
    <3>2. total' - late' = total - late
      <4>1. late' = late + (total' - total) /\ total' \in Nat
        BY <3>1
      <4>2. \A t, l, u \in Int : u - (l + (u - t)) = t - l
        OBVIOUS
      <4>3. total \in Int /\ total' \in Int /\ late \in Int
        BY <2>1, <4>1
      <4>4. total' - (late + (total' - total)) = total - late
        BY <4>2, <4>3
      <4> QED BY <4>1, <4>4
    <3>3. Due' = Due
      BY <3>2 DEF Due
    <3> QED BY <2>1, <3>1, <3>3
  <2>4. CASE Lands
    BY <2>1, <2>4 DEF Lands, owner, Due
  <2>5. CASE Settle
    BY <2>1, <2>5 DEF Settle, file, Due
  <2>6. CASE Persist
    BY <2>1, <2>6 DEF Persist, owner, file, Due
  <2>7. CASE UNCHANGED <<total, late, file, record>>
    BY <2>1, <2>7 DEF file, Due
  <2> QED BY <2>2, <2>3, <2>4, <2>5, <2>6, <2>7, StepCases DEF CopyStep, LogsStep, owner
<1>2. size \in Nat /\ size' \in Nat
  BY DEF FileInv, OwnerInv
<1>3. Lines \subseteq Lines'
  BY <1>1, <1>2 DEF Lines, Places
<1> QED BY <1>1, <1>2, <1>3 DEF OwnerInv

-----------------------------------------------------------------------------
(* The orphan                                                              *)

Pairs == Nat \X Nat

\* A refresh knows of no more lines than the copy has, and an ending that has
\* been read, by the refresh or by the copy, has taken place.
CopyInv ==
  /\ copy = [at |-> copy.at, lines |-> copy.lines]
  /\ copy.at \in {"none", "adopting", "settling", "orphaned", "settled"}
  /\ copy.lines \in Seq(Pairs)
  /\ \A i \in 1..Len(copy.lines) : copy.lines[i] \in Lines
  /\ refresh \in [Refreshers -> [at : {"idle", "begun", "read"}, have : Nat, status : Statuses]]
  /\ copy.at \in {"settling", "settled"} => record = "ended"
  /\ SettledCopyIsComplete
  /\ \A r \in Refreshers :
       /\ refresh[r].have <= Len(copy.lines)
       /\ refresh[r].at # "idle" => copy.at \in {"orphaned", "settled"}
       /\ refresh[r].at = "idle" => refresh[r].have = 0
       /\ refresh[r].status = "ended" => record = "ended"

\* What refreshOrphan makes of the copy.
LEMMA Appended ==
  ASSUME NEW X, NEW s \in Seq(X), NEW t \in Seq(X), NEW k \in Nat
  PROVE  LET u == s \o SubSeq(t, k + 1, Len(t))
         IN  /\ u \in Seq(X)
             /\ Len(u) = Len(s) + IF k < Len(t) THEN Len(t) - k ELSE 0
             /\ \A i \in 1..Len(s) : u[i] = s[i]
             /\ \A i \in (Len(s) + 1)..Len(u) : u[i] = t[i - Len(s) + k]
                                               /\ i - Len(s) + k \in 1..Len(t)
<1> DEFINE v == SubSeq(t, k + 1, Len(t))
           u == s \o v
<1>1. Len(s) \in Nat /\ Len(t) \in Nat
  OBVIOUS
<1>2. v \in Seq(X) /\ Len(v) = (IF k < Len(t) THEN Len(t) - k ELSE 0)
      /\ \A i \in 1..Len(v) : v[i] = t[i + k]
  <2>1. CASE k < Len(t)
    BY <1>1, <2>1
  <2>2. CASE ~(k < Len(t))
    BY <1>1, <2>2
  <2> QED BY <2>1, <2>2
<1> HIDE DEF v
<1>3. Len(v) \in Nat
  BY <1>2
<1>4. u \in Seq(X) /\ Len(u) = Len(s) + Len(v)
      /\ \A i \in 1..Len(u) : u[i] = IF i <= Len(s) THEN s[i] ELSE v[i - Len(s)]
  <2>1. u \in Seq(X) /\ Len(u) = Len(s) + Len(v)
    BY <1>2, ConcatProperties
  <2>2. \A i \in 1..(Len(s) + Len(v)) : u[i] = IF i <= Len(s) THEN s[i] ELSE v[i - Len(s)]
    BY <1>2, ConcatProperties
  <2> HIDE DEF u
  <2> QED BY <2>1, <2>2
<1> HIDE DEF u
<1>5. \A i \in 1..Len(s) : u[i] = s[i]
  BY <1>1, <1>3, <1>4
<1>6. \A i \in (Len(s) + 1)..Len(u) :
         /\ i - Len(s) \in 1..Len(v) /\ u[i] = v[i - Len(s)]
         /\ i - Len(s) + k \in 1..Len(t)
  BY <1>1, <1>2, <1>3, <1>4
<1>7. \A i \in (Len(s) + 1)..Len(u) : u[i] = t[i - Len(s) + k]
  BY <1>2, <1>6
<1> QED BY <1>2, <1>4, <1>5, <1>6, <1>7 DEF u, v

\* Every step of the system keeps the invariant of the copy.
LEMMA CopyStepKeeps == OwnerInv /\ OwnerInv' /\ CopyInv /\ [Next]_vars => CopyInv'
<1> SUFFICES ASSUME OwnerInv, OwnerInv', CopyInv, [Next]_vars PROVE CopyInv'
  OBVIOUS
<1>0. FileInv /\ FileInv' /\ record \in Statuses
  BY DEF OwnerInv
<1>1. /\ Lines \subseteq Lines'
      /\ record = "ended" => record' = "ended" /\ ~running
      /\ ~running => Due' = Due
  BY <1>0, OverStays
<1>2. /\ Len(ReadLines) \in Nat /\ ReadLines \in Seq(Pairs)
      /\ \A i \in 1..Len(ReadLines) : ReadLines[i] \in Lines
  <2>1. \A i \in 1..Len(ReadLines) : /\ ReadLines[i] = <<ReadLines[i][1], ReadLines[i][2]>>
                                     /\ ReadLines[i][1] \in Places /\ ReadLines[i][2] \in Places
                                     /\ ReadLines[i][1] < ReadLines[i][2]
    <3>1. size \in Nat
      BY <1>0 DEF FileInv
    <3> QED BY <1>0, <3>1, Reading DEF Places
  <2> QED BY <1>0, <2>1, Reading DEF Lines, Pairs
<1>3. CASE UNCHANGED <<copy, refresh>>
  BY <1>1, <1>3 DEF CopyInv, SettledCopyIsComplete
<1>4. ASSUME CopyStep PROVE record' = record /\ Lines' = Lines /\ Due' = Due
  BY <1>4 DEF CopyStep, owner, file, Lines, Places, Due
<1>5. CASE AdoptRecord
  <2>1. /\ copy.at = "none" /\ UNCHANGED refresh /\ CopyStep
        /\ copy'.at \in {"adopting", "settling"} /\ copy'.lines = copy.lines
        /\ copy'.at = "settling" => record = "ended"
        /\ copy' = [at |-> copy'.at, lines |-> copy'.lines]
    BY <1>0, <1>5 DEF AdoptRecord, CopyInv, Statuses
  <2> QED BY <1>4, <2>1 DEF CopyInv, SettledCopyIsComplete
<1>6. CASE AdoptLines
  <2>1. /\ copy.at \in {"adopting", "settling"} /\ UNCHANGED refresh /\ CopyStep
        /\ copy'.lines = ReadLines
        /\ copy'.at = IF copy.at = "adopting" THEN "orphaned" ELSE "settled"
        /\ copy' = [at |-> copy'.at, lines |-> copy'.lines]
    BY <1>6 DEF AdoptLines
  <2>2. \A r \in Refreshers : refresh[r].have = 0 /\ refresh[r].at = "idle"
    BY <2>1 DEF CopyInv
  <2>3. copy'.at = "settled" => record = "ended" /\ Len(copy'.lines) >= Due
    <3> SUFFICES ASSUME copy.at = "settling" PROVE record = "ended" /\ Len(ReadLines) >= Due
      BY <2>1
    <3>1. record = "ended" /\ ~running
      BY <1>1 DEF CopyInv
    <3>2. Due <= Len(ReadLines) /\ Due \in Int
      BY <3>1, DueIs DEF OwnerInv
    <3> QED BY <1>2, <3>1, <3>2
  <2> QED BY <1>2, <1>4, <2>1, <2>2, <2>3 DEF CopyInv, SettledCopyIsComplete
<1>7. ASSUME NEW r \in Refreshers, RefreshBegins(r) PROVE CopyInv'
  <2>1. /\ copy.at = "orphaned" /\ copy' = copy /\ CopyStep
        /\ refresh' = [refresh EXCEPT ![r].at = "begun", ![r].have = Len(copy.lines)]
    BY <1>7 DEF RefreshBegins
  <2>2. Len(copy.lines) \in Nat
    BY DEF CopyInv
  <2>3. /\ refresh' \in [Refreshers -> [at : {"idle", "begun", "read"}, have : Nat,
                                        status : Statuses]]
        /\ refresh'[r].at = "begun" /\ refresh'[r].have = Len(copy.lines)
        /\ refresh'[r].status = refresh[r].status
        /\ \A q \in Refreshers : q # r => refresh'[q] = refresh[q]
    BY <2>1, <2>2 DEF CopyInv
  <2>4. \A q \in Refreshers :
          /\ refresh'[q].have <= Len(copy.lines)
          /\ refresh'[q].at # "idle" => copy.at \in {"orphaned", "settled"}
          /\ refresh'[q].at = "idle" => refresh'[q].have = 0
          /\ refresh'[q].status = "ended" => record = "ended"
    BY <2>1, <2>2, <2>3 DEF CopyInv
  <2> QED BY <1>4, <2>1, <2>3, <2>4 DEF CopyInv, SettledCopyIsComplete
<1>8. ASSUME NEW r \in Refreshers, RefreshReadsRecord(r) PROVE CopyInv'
  <2>1. /\ refresh[r].at = "begun" /\ copy' = copy /\ CopyStep
        /\ refresh' = [refresh EXCEPT ![r].at = "read", ![r].status = record]
    BY <1>8 DEF RefreshReadsRecord
  <2>2. /\ refresh' \in [Refreshers -> [at : {"idle", "begun", "read"}, have : Nat,
                                        status : Statuses]]
        /\ refresh'[r].at = "read" /\ refresh'[r].have = refresh[r].have
        /\ refresh'[r].status = record
        /\ \A q \in Refreshers : q # r => refresh'[q] = refresh[q]
    BY <1>0, <2>1 DEF CopyInv
  <2>3. \A q \in Refreshers :
          /\ refresh'[q].have <= Len(copy.lines)
          /\ refresh'[q].at # "idle" => copy.at \in {"orphaned", "settled"}
          /\ refresh'[q].at = "idle" => refresh'[q].have = 0
          /\ refresh'[q].status = "ended" => record = "ended"
    BY <2>1, <2>2 DEF CopyInv
  <2> QED BY <1>4, <2>1, <2>2, <2>3 DEF CopyInv, SettledCopyIsComplete
<1>9. ASSUME NEW r \in Refreshers, RefreshApplies(r) PROVE CopyInv'
  <2> DEFINE k == refresh[r].have
             u == copy.lines \o SubSeq(ReadLines, k + 1, Len(ReadLines))
  <2>1. /\ refresh[r].at = "read" /\ CopyStep
        /\ refresh' = [refresh EXCEPT ![r] = [at |-> "idle", have |-> 0, status |-> "running"]]
        /\ copy'.lines = u /\ copy'.at = IF refresh[r].status = "ended" THEN "settled" ELSE copy.at
        /\ copy' = [at |-> copy'.at, lines |-> copy'.lines]
    BY <1>9 DEF RefreshApplies
  <2>2. /\ k \in Nat /\ k <= Len(copy.lines) /\ copy.lines \in Seq(Pairs)
        /\ Len(copy.lines) \in Nat
    BY DEF CopyInv
  <2>3. /\ u \in Seq(Pairs)
        /\ Len(u) = Len(copy.lines) + IF k < Len(ReadLines) THEN Len(ReadLines) - k ELSE 0
        /\ \A i \in 1..Len(copy.lines) : u[i] = copy.lines[i]
        /\ \A i \in (Len(copy.lines) + 1)..Len(u) :
             /\ u[i] = ReadLines[i - Len(copy.lines) + k]
             /\ i - Len(copy.lines) + k \in 1..Len(ReadLines)
    <3> DEFINE s == copy.lines
               t == ReadLines
    <3>1. k \in Nat /\ s \in Seq(Pairs) /\ t \in Seq(Pairs)
      BY <1>2, <2>2
    <3> HIDE DEF k, s, t
    <3>2. LET w == s \o SubSeq(t, k + 1, Len(t))
          IN  /\ w \in Seq(Pairs)
              /\ Len(w) = Len(s) + IF k < Len(t) THEN Len(t) - k ELSE 0
              /\ \A i \in 1..Len(s) : w[i] = s[i]
              /\ \A i \in (Len(s) + 1)..Len(w) : w[i] = t[i - Len(s) + k]
                                               /\ i - Len(s) + k \in 1..Len(t)
      BY <3>1, Appended
    <3> QED BY <3>2 DEF s, t
  <2> HIDE DEF k, u
  <2>4. Len(u) \in Nat /\ Len(copy.lines) <= Len(u) /\ Len(ReadLines) <= Len(u)
    <3>1. CASE k < Len(ReadLines)
      BY <1>2, <2>2, <2>3, <3>1
    <3>2. CASE ~(k < Len(ReadLines))
      BY <1>2, <2>2, <2>3, <3>2
    <3> QED BY <3>1, <3>2
  <2>5. \A i \in 1..Len(u) : u[i] \in Lines
    <3>1. \A i \in 1..Len(copy.lines) : u[i] \in Lines
      BY <2>3 DEF CopyInv
    <3>2. \A i \in (Len(copy.lines) + 1)..Len(u) : u[i] \in Lines
      BY <1>2, <2>3
    <3>3. \A i \in 1..Len(u) : i \in 1..Len(copy.lines) \/ i \in (Len(copy.lines) + 1)..Len(u)
      BY <2>2, <2>4
    <3> QED BY <3>1, <3>2, <3>3
  <2>6. copy'.at = "settled" => record = "ended" /\ Len(u) >= Due
    <3> SUFFICES ASSUME copy'.at = "settled" PROVE record = "ended" /\ Len(u) >= Due
      OBVIOUS
    <3>1. record = "ended"
      BY <2>1 DEF CopyInv
    <3>2. ~running
      BY <1>1, <3>1
    <3>3. Due <= Len(ReadLines) /\ Due \in Int
      BY <3>2, DueIs DEF OwnerInv
    <3> QED BY <1>2, <2>4, <3>1, <3>3
  <2>7. /\ refresh' \in [Refreshers -> [at : {"idle", "begun", "read"}, have : Nat,
                                        status : Statuses]]
        /\ refresh'[r].at = "idle" /\ refresh'[r].have = 0 /\ refresh'[r].status = "running"
        /\ \A q \in Refreshers : q # r => refresh'[q] = refresh[q]
    BY <2>1 DEF CopyInv, Statuses
  <2>8. copy.at \in {"orphaned", "settled"} /\ copy'.at \in {"orphaned", "settled"}
    BY <2>1 DEF CopyInv
  <2>9. \A q \in Refreshers :
          /\ refresh'[q].have <= Len(u)
          /\ refresh'[q].at # "idle" => copy'.at \in {"orphaned", "settled"}
          /\ refresh'[q].at = "idle" => refresh'[q].have = 0
          /\ refresh'[q].status = "ended" => record = "ended"
    <3>1. \A q \in Refreshers : refresh[q].have \in Nat /\ refresh[q].have <= Len(copy.lines)
      BY DEF CopyInv
    <3>2. \A q \in Refreshers : refresh'[q].have <= Len(u)
      BY <2>2, <2>4, <2>7, <3>1
    <3> QED BY <2>7, <2>8, <3>2 DEF CopyInv
  <2> QED BY <1>4, <2>1, <2>3, <2>5, <2>6, <2>7, <2>8, <2>9 DEF CopyInv, SettledCopyIsComplete
<1>10. ASSUME Output \/ LateOutput \/ Lands \/ Settle \/ Persist \/ LogsStep
       PROVE  UNCHANGED <<copy, refresh>>
  BY <1>10 DEF Output, LateOutput, AppendLine, Lands, Settle, Persist, LogsStep
<1> QED BY <1>3, <1>5, <1>6, <1>7, <1>8, <1>9, <1>10, StepCases DEF Refresh

\* At the start there is no line.
LEMMA OwnerInit == Init => OwnerInv
<1> SUFFICES ASSUME Init PROVE OwnerInv
  OBVIOUS
<1>1. size = 0 /\ ends = {} /\ target = 0 /\ total = 0 /\ late = 0 /\ running = TRUE
      /\ up = TRUE /\ record = "running"
  BY DEF Init
<1>2. Starts = {}
  BY <1>1 DEF Starts
<1>3. Written = 0
  BY <1>1, <1>2, FS_EmptySet DEF Written
<1> QED BY <1>1, <1>3, TranscriptAssumption DEF OwnerInv, FileInv, Statuses

LEMMA CopyInit == Init => CopyInv
<1> SUFFICES ASSUME Init PROVE CopyInv
  OBVIOUS
<1>1. /\ copy = [at |-> "none", lines |-> <<>>]
      /\ refresh = [r \in Refreshers |-> [at |-> "idle", have |-> 0, status |-> "running"]]
  BY DEF Init
<1>2. <<>> \in Seq(Pairs) /\ Len(<<>>) = 0
  OBVIOUS
<1> QED BY <1>1, <1>2 DEF CopyInv, SettledCopyIsComplete, Statuses

\* The owner and its file.
LEMMA OwnerAlways == Spec => [](FollowInv /\ OwnerInv)
<1>1. Init => FollowInv /\ OwnerInv
  BY FollowInit, OwnerInit
<1>2. FollowInv /\ OwnerInv /\ [Next]_vars => (FollowInv /\ OwnerInv)'
  <2>1. FollowInv' => FileInv'
    BY DEF FollowInv
  <2> QED BY <2>1, FollowStep, OwnerStep
<1> QED BY <1>1, <1>2, PTL DEF Spec

LEMMA CopyAlways == Spec => [](OwnerInv /\ CopyInv)
<1>1. OwnerInv /\ OwnerInv' /\ CopyInv /\ [Next]_vars => CopyInv'
  BY CopyStepKeeps
<1> QED BY <1>1, CopyInit, OwnerAlways, PTL DEF Spec

\* An orphan that another server has settled has every line of the turn, however
\* many callers refreshed it and whatever they read before the owner's last write:
\* a refresh that has seen the record ended reads the lines after it.
THEOREM SettledIsComplete == Spec => []SettledCopyIsComplete
<1>1. CopyInv => SettledCopyIsComplete
  BY DEF CopyInv
<1> QED BY <1>1, CopyAlways, PTL

\* A refresh in progress knows how many lines the copy has.
NumbersInv ==
  /\ CopyKeepsNumbers
  /\ \A r \in Refreshers :
       refresh[r].at # "idle" => /\ refresh[r].have = Len(copy.lines)
                                 /\ copy.at = "orphaned"

EndsInNat ==
  Len(ReadLines) \in Nat /\ \A i \in 1..Len(ReadLines) : ReadLines[i][2] \in Nat

LEMMA EndsAreNumbers == FileInv => EndsInNat
BY Reading DEF EndsInNat

\* Every step keeps the numbers, when there is one refresh at a time.
LEMMA NumbersStep ==
  ASSUME \A q, r \in Refreshers : q = r
  PROVE  OwnerInv /\ OwnerInv' /\ CopyInv /\ CopyInv' /\ NumbersInv /\ [Next]_vars => NumbersInv'
<1> SUFFICES ASSUME OwnerInv, OwnerInv', CopyInv, CopyInv', NumbersInv, [Next]_vars
             PROVE  NumbersInv'
  OBVIOUS
<1>0. FileInv /\ FileInv'
  BY DEF OwnerInv
<1>1. LinesKept
  BY <1>0, LinesStep
<1>2. /\ copy.lines \in Seq(Pairs) /\ Len(copy.lines) \in Nat
      /\ Len(copy.lines) <= Len(ReadLines)
      /\ \A i \in 1..Len(copy.lines) :
           /\ copy.lines[i][1] = ReadLines[i][1] /\ copy.lines[i][2] <= ReadLines[i][2]
           /\ copy.lines[i][2] \in Nat
  BY DEF CopyInv, NumbersInv, CopyKeepsNumbers, Pairs
<1>3. ReadLines \in Seq(Pairs) /\ Len(ReadLines) \in Nat
      /\ \A i \in 1..Len(ReadLines) : ReadLines[i][2] \in Nat
  BY <1>0, Reading DEF Pairs
<1>12. Len(ReadLines') \in Nat /\ \A i \in 1..Len(ReadLines') : ReadLines'[i][2] \in Nat
  <2>1. EndsInNat'
    BY <1>0, EndsAreNumbers, PTL
  <2> QED BY <2>1 DEF EndsInNat
<1>4. CASE UNCHANGED <<copy, refresh>>
  <2>1. Len(copy.lines) <= Len(ReadLines')
    BY <1>1, <1>2, <1>3 DEF LinesKept
  <2>2. \A i \in 1..Len(copy.lines) : i \in 1..Len(ReadLines) /\ i \in 1..Len(ReadLines')
    BY <1>2, <1>3, <1>12, <2>1
  <2>3. ASSUME NEW i \in 1..Len(copy.lines)
        PROVE  copy.lines[i][1] = ReadLines'[i][1] /\ copy.lines[i][2] <= ReadLines'[i][2]
    <3>1. i \in 1..Len(ReadLines) /\ i \in 1..Len(ReadLines')
      BY <2>2
    <3>2. ReadLines'[i][1] = ReadLines[i][1] /\ ReadLines[i][2] <= ReadLines'[i][2]
      BY <1>1, <3>1 DEF LinesKept
    <3>3. copy.lines[i][1] = ReadLines[i][1] /\ copy.lines[i][2] <= ReadLines[i][2]
      BY <1>2
    <3>4. copy.lines[i][2] \in Nat /\ ReadLines[i][2] \in Nat /\ ReadLines'[i][2] \in Nat
      BY <1>2, <1>3, <1>12, <3>1
    <3>5. \A a, b, c \in Nat : a <= b /\ b <= c => a <= c
      OBVIOUS
    <3> QED BY <3>2, <3>3, <3>4, <3>5
  <2>4. DOMAIN copy.lines = 1..Len(copy.lines)
    BY <1>2
  <2> QED BY <1>4, <2>1, <2>3, <2>4 DEF NumbersInv, CopyKeepsNumbers
<1>5. ASSUME CopyStep PROVE ReadLines' = ReadLines
  BY <1>5 DEF CopyStep, file, ReadLines, Starts
<1>6. CASE AdoptRecord
  <2>1. copy'.lines = copy.lines /\ refresh' = refresh /\ CopyStep /\ copy.at = "none"
    BY <1>6 DEF AdoptRecord, CopyInv
  <2> QED BY <1>5, <2>1 DEF NumbersInv, CopyKeepsNumbers
<1>7. CASE AdoptLines
  <2>1. /\ copy'.lines = ReadLines /\ refresh' = refresh /\ CopyStep
        /\ copy.at \in {"adopting", "settling"}
    BY <1>7 DEF AdoptLines
  <2>2. \A r \in Refreshers : refresh[r].at = "idle"
    BY <2>1 DEF NumbersInv
  <2>3. DOMAIN ReadLines = 1..Len(ReadLines)
    BY <1>3
  <2>4. \A i \in DOMAIN ReadLines : ReadLines[i][2] <= ReadLines[i][2]
    BY <1>3, <2>3
  <2> QED BY <1>3, <1>5, <2>1, <2>2, <2>4 DEF NumbersInv, CopyKeepsNumbers
<1>8. ASSUME NEW r \in Refreshers, RefreshBegins(r) PROVE NumbersInv'
  <2>1. /\ copy.at = "orphaned" /\ copy' = copy /\ CopyStep
        /\ refresh' = [refresh EXCEPT ![r].at = "begun", ![r].have = Len(copy.lines)]
    BY <1>8 DEF RefreshBegins
  <2>2. refresh'[r].have = Len(copy.lines)
    BY <2>1 DEF CopyInv
  <2>3. \A q \in Refreshers : refresh'[q].have = Len(copy.lines)
    BY <2>2
  <2> QED BY <1>5, <2>1, <2>3 DEF NumbersInv, CopyKeepsNumbers
<1>9. ASSUME NEW r \in Refreshers, RefreshReadsRecord(r) PROVE NumbersInv'
  <2>1. /\ refresh[r].at = "begun" /\ copy' = copy /\ CopyStep
        /\ refresh' = [refresh EXCEPT ![r].at = "read", ![r].status = record]
    BY <1>9 DEF RefreshReadsRecord
  <2>2. refresh'[r].have = refresh[r].have
    BY <2>1 DEF CopyInv
  <2>3. \A q \in Refreshers : refresh'[q].have = Len(copy.lines) /\ copy.at = "orphaned"
    BY <2>1, <2>2 DEF NumbersInv
  <2> QED BY <1>5, <2>1, <2>3 DEF NumbersInv, CopyKeepsNumbers
<1>10. ASSUME NEW r \in Refreshers, RefreshApplies(r) PROVE NumbersInv'
  <2> DEFINE s == copy.lines
             t == ReadLines
             k == refresh[r].have
             u == s \o SubSeq(t, k + 1, Len(t))
  <2>1. /\ refresh[r].at = "read" /\ CopyStep /\ copy'.lines = u
        /\ refresh' = [refresh EXCEPT ![r] = [at |-> "idle", have |-> 0, status |-> "running"]]
    BY <1>10 DEF RefreshApplies
  <2>2. k = Len(s) /\ k \in Nat /\ s \in Seq(Pairs) /\ t \in Seq(Pairs)
        /\ Len(t) \in Nat /\ Len(s) <= Len(t)
    BY <1>2, <1>3, <2>1 DEF NumbersInv
  <2>3. \A q \in Refreshers : refresh'[q].at = "idle"
    <3>1. refresh'[r].at = "idle"
      BY <2>1 DEF CopyInv
    <3> QED BY <3>1
  <2>4. \A i \in 1..Len(s) : s[i][1] = t[i][1] /\ s[i][2] <= t[i][2]
    BY <1>2
  <2>5. \A i \in 1..Len(t) : t[i][2] \in Nat
    BY <1>3
  <2> HIDE DEF s, t, k
  <2>6. /\ u \in Seq(Pairs)
        /\ Len(u) = Len(s) + IF k < Len(t) THEN Len(t) - k ELSE 0
        /\ \A i \in 1..Len(s) : u[i] = s[i]
        /\ \A i \in (Len(s) + 1)..Len(u) : u[i] = t[i - Len(s) + k]
                                          /\ i - Len(s) + k \in 1..Len(t)
    <3>1. k \in Nat /\ s \in Seq(Pairs) /\ t \in Seq(Pairs)
      BY <2>2
    <3> QED BY <3>1, Appended
  <2> HIDE DEF u
  <2>7. Len(u) = Len(t)
    BY <2>2, <2>6
  <2>8. \A i \in 1..Len(u) : u[i][1] = t[i][1] /\ u[i][2] <= t[i][2]
    <3>1. \A i \in 1..Len(s) : u[i][1] = t[i][1] /\ u[i][2] <= t[i][2]
      BY <2>4, <2>6
    <3>2. \A i \in (Len(s) + 1)..Len(u) : i - Len(s) + k = i /\ i \in 1..Len(t)
      BY <2>2, <2>7
    <3>3. \A i \in (Len(s) + 1)..Len(u) : u[i] = t[i] /\ t[i][2] \in Nat
      BY <2>5, <2>6, <3>2
    <3>4. \A i \in (Len(s) + 1)..Len(u) : u[i][1] = t[i][1] /\ u[i][2] <= t[i][2]
      BY <3>3
    <3>5. \A i \in 1..Len(u) : i \in 1..Len(s) \/ i \in (Len(s) + 1)..Len(u)
      BY <2>2, <2>7
    <3> QED BY <3>1, <3>4, <3>5
  <2>9. DOMAIN u = 1..Len(u)
    BY <2>6
  <2>10. Len(u) <= Len(t)
    BY <2>2, <2>7
  <2>11. ReadLines' = t
    BY <1>5, <2>1 DEF t
  <2> QED BY <2>1, <2>3, <2>8, <2>9, <2>10, <2>11 DEF NumbersInv, CopyKeepsNumbers
<1>11. ASSUME Output \/ LateOutput \/ Lands \/ Settle \/ Persist \/ LogsStep
       PROVE  UNCHANGED <<copy, refresh>>
  BY <1>11 DEF Output, LateOutput, AppendLine, Lands, Settle, Persist, LogsStep
<1> QED BY <1>4, <1>6, <1>7, <1>8, <1>9, <1>10, <1>11, StepCases DEF Refresh

\* Line i of the orphan's transcript is line i of the file, for as long as no two
\* callers are in refreshOrphan at once, which its interval of a second makes the
\* normal case and which nothing else excludes.
THEOREM NumbersAreKept ==
  ASSUME \A q, r \in Refreshers : q = r
  PROVE  Spec => []CopyKeepsNumbers
<1>1. Init => NumbersInv
  <2> SUFFICES ASSUME Init PROVE NumbersInv
    OBVIOUS
  <2>1. /\ copy.lines = <<>> /\ Len(<<>>) = 0 /\ DOMAIN <<>> = {}
        /\ \A r \in Refreshers : refresh[r].at = "idle"
    BY DEF Init
  <2>2. Len(ReadLines) \in Nat
    BY OwnerInit, Reading DEF OwnerInv
  <2> QED BY <2>1, <2>2 DEF NumbersInv, CopyKeepsNumbers
<1>2. OwnerInv /\ OwnerInv' /\ CopyInv /\ CopyInv' /\ NumbersInv /\ [Next]_vars => NumbersInv'
  BY NumbersStep
<1>3. NumbersInv => CopyKeepsNumbers
  BY DEF NumbersInv
<1> QED BY <1>1, <1>2, <1>3, CopyAlways, PTL DEF Spec

-----------------------------------------------------------------------------
(* Where `logs` begins                                                     *)

\* From where the follower is put there are n lines, or all of the window.
LEMMA TailHasN ==
  ASSUME FileInv, NEW n \in Backlogs \ {-1, 0}
  PROVE  LET got == {s \in Starts : s >= FollowAt(n)}
         IN  /\ Cardinality(got) <= n
             /\ \/ Cardinality(got) = n
                \/ \A s \in Starts : s > size - Window => s \in got
<1> DEFINE B == InWindow \ {size}
           at == FollowAt(n)
           got == {s \in Starts : s >= at}
<1>1. /\ size \in Nat /\ Window \in Nat /\ n \in Nat \ {0}
      /\ \A e \in ends : e \in Nat /\ e # 0 /\ e <= size
      /\ WindowStart \in Nat /\ (WindowStart = 0 \/ WindowStart = size - Window)
  BY TranscriptAssumption DEF FileInv, WindowStart
\* The lines that begin in the window, but for one that begins with it.
<1>2. B = {s \in Starts : WindowStart < s}
  <2>1. \A s : s \in B <=> s \in ends /\ WindowStart < s /\ s # size
    BY DEF InWindow
  <2>2. \A s : s \in Starts /\ WindowStart < s <=> s \in ends /\ WindowStart < s /\ s # size
    BY <1>1 DEF Starts
  <2> QED BY <2>1, <2>2
<1>3. Starts \in SUBSET Nat /\ IsFiniteSet(Starts) /\ \A s \in Starts : s \in Nat
  BY Beginnings, LinesInOrder
<1>4. B \in SUBSET Nat /\ IsFiniteSet(B) /\ Cardinality(B) \in Nat
  <2>1. B \in SUBSET Starts
    BY <1>2
  <2>2. B \in SUBSET Nat
    BY <1>3, <2>1
  <2> HIDE DEF B
  <2> QED BY <1>3, <2>1, <2>2, FS_Subset, FS_CardinalityType
<1>5. \/ at \in B /\ Cardinality({d \in B : d >= at}) = n
      \/ /\ \A e \in B : Cardinality({d \in B : d >= e}) # n
         /\ \/ WindowStart = 0 /\ at = 0
            \/ /\ size > Window /\ WindowStart = size - Window
               /\ at \in InWindow
               /\ \A d \in InWindow : at <= d
  BY FollowCases
<1> HIDE DEF B, at
<1>6. CASE at \in B /\ Cardinality({d \in B : d >= at}) = n
  <2>1. at \in Nat /\ WindowStart < at
    BY <1>2, <1>3, <1>6
  <2>2. \A s \in Starts : s >= at => WindowStart < s
    BY <1>1, <1>3, <2>1
  <2>3. got = {d \in B : d >= at}
    BY <1>2, <2>2
  <2> HIDE DEF got
  <2> QED BY <1>1, <1>6, <2>3 DEF got, at
<1>7. ASSUME \A e \in B : Cardinality({d \in B : d >= e}) # n PROVE Cardinality(B) < n
  <2> SUFFICES ASSUME ~(Cardinality(B) < n) PROVE FALSE
    OBVIOUS
  <2>1. n \in 1..Cardinality(B)
    BY <1>1, <1>4
  <2>2. \E e \in B : Cardinality({d \in B : d >= e}) = n
    BY <1>4, <2>1, RankFromAboveExists
  <2> QED BY <1>7, <2>2
<1>8. CASE /\ \A e \in B : Cardinality({d \in B : d >= e}) # n
           /\ WindowStart = 0 /\ at = 0
  <2>1. got = Starts
    <3>1. \A s \in Starts : s >= at
      BY <1>3, <1>8
    <3> QED BY <3>1
  <2>2. Starts \in SUBSET (B \cup {0})
    <3>1. \A s \in Starts : s = 0 \/ 0 < s
      BY <1>3
    <3> QED BY <1>2, <1>8, <3>1
  <2>3. 0 \notin B
    BY <1>2, <1>8
  <2>4. IsFiniteSet(B \cup {0}) /\ Cardinality(B \cup {0}) = Cardinality(B) + 1
    BY <1>4, <2>3, FS_AddElement
  <2>5. Cardinality(Starts) <= Cardinality(B \cup {0})
    BY <2>2, <2>4, FS_Subset
  <2>6. Cardinality(Starts) \in Nat
    BY <1>3, FS_CardinalityType
  <2>7. Cardinality(B) < n
    BY <1>7, <1>8
  <2> HIDE DEF got
  <2>8. Cardinality(got) <= n
    BY <1>1, <1>4, <2>1, <2>4, <2>5, <2>6, <2>7
  <2> QED BY <2>1, <2>8 DEF at, got
<1>9. CASE /\ \A e \in B : Cardinality({d \in B : d >= e}) # n
           /\ size > Window /\ WindowStart = size - Window
           /\ at \in InWindow /\ \A d \in InWindow : at <= d
  <2>1. at \in Nat /\ WindowStart < at
    BY <1>1, <1>9 DEF InWindow
  <2>2. \A s \in Starts : s >= at => WindowStart < s
    BY <1>1, <1>3, <2>1
  <2>3. got \in SUBSET B
    BY <1>2, <2>2
  <2>4. \A s \in Starts : s > size - Window => s \in got
    <3> SUFFICES ASSUME NEW s \in Starts, s > size - Window PROVE s >= at
      OBVIOUS
    <3>1. s \in B
      BY <1>1, <1>2, <1>3, <1>9
    <3>2. at <= s /\ s \in Nat
      BY <1>3, <1>9, <3>1 DEF B
    <3> QED BY <2>1, <3>2
  <2> HIDE DEF got
  <2>5. Cardinality(got) <= Cardinality(B) /\ Cardinality(got) \in Nat
    BY <1>4, <2>3, FS_Subset, FS_CardinalityType
  <2>6. Cardinality(got) <= n
    BY <1>1, <1>4, <1>7, <1>9, <2>5
  <2> QED BY <2>4, <2>6 DEF got, at
<1> QED BY <1>5, <1>6, <1>8, <1>9

\* `logs -n N` begins exactly N lines from the end, the one being written
\* included, or has every line that begins in the window; whether the file ends
\* with a newline or in the middle of a line makes no difference.
THEOREM TailIsExact == Spec => TailIsTheLastN
<1> DEFINE OpensAt(n) ==
      (\E m \in Modes : LogsOpens(n, m)) \/ StreamAttaches(n) =>
      LET got == {s \in Starts : s >= logs'.from}
      IN  /\ Cardinality(got) <= n
          /\ \/ Cardinality(got) = n
             \/ \A s \in Starts : s > size - Window => s \in got
<1>1. ASSUME FollowInv, [Next]_vars PROVE \A n \in Backlogs \ {-1, 0} : OpensAt(n)
  <2> SUFFICES ASSUME NEW n \in Backlogs \ {-1, 0},
                      (\E m \in Modes : LogsOpens(n, m)) \/ StreamAttaches(n)
               PROVE  LET got == {s \in Starts : s >= logs'.from}
                      IN  /\ Cardinality(got) <= n
                          /\ \/ Cardinality(got) = n
                             \/ \A s \in Starts : s > size - Window => s \in got
    OBVIOUS
  <2>1. logs'.from = FollowAt(n)
    BY <1>1 DEF LogsOpens, StreamAttaches, Opens, FollowInv, LogsRecord
  <2> QED BY <1>1, <2>1, TailHasN DEF FollowInv
<1>2. FollowInv /\ [Next]_vars => [\A n \in Backlogs \ {-1, 0} : OpensAt(n)]_vars
  BY <1>1
<1> QED BY <1>2, OwnerAlways, PTL DEF Spec, TailIsTheLastN

-----------------------------------------------------------------------------
(* What `logs` has shown when it leaves                                    *)

\* The follower has passed the end of the turn.
CaughtUp == \A i \in 1..Due : ReadLines[i][2] <= logs.held

\* A poll that comes after the record was seen to have ended, and does not fill
\* its chunk, catches up; `logs` leaves after such a poll only, or at once when
\* it has seen that there is nothing to wait for, and has then read once more.
LogsInv ==
  /\ logs.at \in {"closed", "found", "opened", "drained", "waiting", "polled", "closing",
                  "left"}
  /\ logs.mode \in Modes \cup {"none", "all"}
  /\ logs.back \in Backlogs \cup {0}
  /\ logs.status \in Statuses
  /\ logs.settled \in 0..SettleDrains
  /\ logs.full \in BOOLEAN
  /\ logs.at # "left" => logs.settled < SettleDrains
  /\ logs.status = "ended" => record = "ended"
  /\ logs.settled > 0 => record = "ended"
  /\ logs.at = "polled" /\ logs.settled > 0 /\ ~logs.full => CaughtUp
  /\ SettleDrains > 1 /\ logs.at = "left" /\ logs.status = "ended" /\ ~logs.full => CaughtUp

\* A follower that has caught up has done so for good.
LEMMA CaughtUpStays ==
  ASSUME OwnerInv, FileInv', [Next]_vars, record = "ended", UNCHANGED logs, CaughtUp
  PROVE  CaughtUp'
<1>1. ~running /\ Due' = Due /\ FileInv
  BY OverStays DEF OwnerInv
<1>2. /\ Due <= Len(ReadLines) /\ Due \in Int
      /\ \A i \in 1..Due : ReadLines[i][2] \in ends
  BY <1>1, DueIs DEF OwnerInv
<1>3. LinesKept
  BY <1>1, LinesStep
<1>4. \A i \in 1..Due : i \in 1..Len(ReadLines)
  BY <1>2, <1>3 DEF LinesKept
<1>5. \A i \in 1..Due : ReadLines'[i][2] = ReadLines[i][2]
  BY <1>2, <1>3, <1>4 DEF LinesKept
<1> QED BY <1>1, <1>5 DEF CaughtUp

\* A read after the end of the task that does not fill its chunk.
LEMMA ReadCatchesUp ==
  ASSUME OwnerInv, FollowInv, FollowInv', NEW at, ReadsNext(at), LogsStep
  PROVE  /\ logs'.at = at /\ UNCHANGED <<logs.mode, logs.back, logs.status, logs.settled>>
         /\ logs'.full \in BOOLEAN
         /\ record = "ended" /\ ~logs'.full => CaughtUp'
<1> USE TranscriptAssumption
<1> DEFINE read == IF size - logs.off > Chunk THEN Chunk ELSE size - logs.off
<1>1. /\ logs'.off = logs.off + read /\ logs'.full = (read = Chunk)
      /\ logs'.at = at /\ UNCHANGED <<logs.mode, logs.back, logs.status, logs.settled>>
  BY DEF ReadsNext, FollowInv, LogsRecord
<1>2. /\ UNCHANGED <<size, ends, total, late>>
      /\ size \in Nat /\ logs.off \in Nat /\ logs.off <= size
  BY DEF LogsStep, owner, file, FollowInv, FileInv, Held
<1>3. Due' = Due /\ ReadLines' = ReadLines
  BY <1>2 DEF Due, ReadLines, Starts
<1>4. ASSUME record = "ended", ~logs'.full PROVE CaughtUp'
  <2>1. read # Chunk
    BY <1>1, <1>4
  <2>2. logs'.off = size
    BY <1>1, <1>2, <2>1
  <2>3. logs'.held \in Nat /\ \A e \in ends : ~(logs'.held < e /\ e <= size)
    BY <1>2, <2>2 DEF FollowInv, Held
  <2>4. \A e \in ends : e \in Nat /\ e <= size
    BY <1>2 DEF FollowInv, FileInv
  <2>5. \A e \in ends : e <= logs'.held
    BY <2>3, <2>4
  <2>6. \A i \in 1..Due : ReadLines[i][2] \in ends
    BY <1>4 DEF OwnerInv
  <2> QED BY <1>3, <2>5, <2>6 DEF CaughtUp
<1> QED BY <1>1, <1>4

\* Every step of the system keeps the invariant of `logs`.
LEMMA LogsStepKeeps ==
  FollowInv /\ FollowInv' /\ OwnerInv /\ LogsInv /\ [Next]_vars => LogsInv'
<1> SUFFICES ASSUME FollowInv, FollowInv', OwnerInv, LogsInv, [Next]_vars PROVE LogsInv'
  OBVIOUS
<1> USE TranscriptAssumption
<1>0. FileInv' /\ LogsRecord /\ record \in Statuses /\ SettleDrains \in Nat \ {0}
  BY DEF FollowInv, OwnerInv
<1>1. record = "ended" => record' = "ended"
  BY <1>0, OverStays
<1>2. CASE UNCHANGED logs
  <2>1. record = "ended" /\ CaughtUp => CaughtUp'
    BY <1>0, <1>2, CaughtUpStays
  <2> QED BY <1>1, <1>2, <2>1 DEF LogsInv
<1>3. ASSUME LogsStep PROVE record' = record /\ Due' = Due /\ ReadLines' = ReadLines
  <2>1. record' = record /\ UNCHANGED <<size, ends, total, late>>
    BY <1>3 DEF LogsStep, owner, file
  <2> QED BY <2>1 DEF Due, ReadLines, Starts
<1>4. ASSUME NEW n \in Backlogs, NEW m \in Modes \cup {"all"}, NEW at \in {"opened", "waiting"},
             logs.at \in {"closed", "found"}, Opens(n, m, at), LogsStep
      PROVE  LogsInv'
  <2>1. /\ logs'.at = at /\ logs'.mode = m /\ logs'.back = n
        /\ UNCHANGED <<logs.status, logs.settled, logs.full>>
    BY <1>0, <1>4 DEF Opens, LogsRecord
  <2> QED BY <1>3, <1>4, <2>1 DEF LogsInv
<1>5. ASSUME NEW n \in Backlogs, NEW m \in Modes, LogsOpens(n, m) PROVE LogsInv'
  BY <1>4, <1>5 DEF LogsOpens
<1>6. ASSUME NEW n \in Backlogs, StreamAttaches(n) PROVE LogsInv'
  BY <1>4, <1>6 DEF StreamAttaches
<1>7. CASE StreamFound
  <2>1. /\ logs.at = "closed" /\ logs'.at = "found" /\ LogsStep
        /\ UNCHANGED <<logs.mode, logs.back, logs.status, logs.settled, logs.full>>
    BY <1>0, <1>7 DEF StreamFound, LogsRecord
  <2> QED BY <1>3, <2>1 DEF LogsInv
<1>8. ASSUME NEW at \in {"drained", "polled", "left"}, ReadsNext(at), LogsStep,
             logs.at \in {"opened", "waiting", "closing"}
      PROVE  LogsInv'
  <2>1. /\ logs'.at = at /\ UNCHANGED <<logs.mode, logs.back, logs.status, logs.settled>>
        /\ logs'.full \in BOOLEAN
        /\ record = "ended" /\ ~logs'.full => CaughtUp'
    BY <1>8, ReadCatchesUp
  <2> QED BY <1>3, <1>8, <2>1 DEF LogsInv
<1>9. CASE LogsDrains \/ LogsTicks \/ LogsCloses
  BY <1>8, <1>9 DEF LogsDrains, LogsTicks, LogsCloses
<1>10. CASE LogsLooks
  <2>1. /\ logs.at = "drained" /\ logs'.at \in {"waiting", "closing"} /\ LogsStep
        /\ logs'.status = record
        /\ UNCHANGED <<logs.mode, logs.back, logs.settled, logs.full>>
    BY <1>0, <1>10 DEF LogsLooks, LogsRecord
  <2> QED BY <1>0, <1>3, <2>1 DEF LogsInv
<1>11. CASE LogsLooksAgain
  <2> DEFINE goes == logs.mode # "forever" /\ record # "running"
             n    == IF goes THEN logs.settled + 1 ELSE 0
  <2>1. /\ logs.at = "polled" /\ LogsStep
        /\ logs'.at = (IF n >= SettleDrains THEN "left" ELSE "waiting")
        /\ logs'.status = record /\ logs'.settled = n
        /\ UNCHANGED <<logs.mode, logs.back, logs.held, logs.full>>
    BY <1>0, <1>11 DEF LogsLooksAgain, LogsRecord
  <2>2. logs.settled \in Nat /\ logs.settled < SettleDrains
    BY <2>1 DEF LogsInv
  <2>3. /\ n \in 0..SettleDrains
        /\ n > 0 => record = "ended"
        /\ n >= SettleDrains /\ SettleDrains > 1 => logs.settled > 0
    BY <1>0, <2>2 DEF Statuses
  <2>4. CaughtUp' <=> CaughtUp
    <3>1. Due' = Due /\ ReadLines' = ReadLines /\ logs'.held = logs.held
      BY <1>3, <2>1
    <3> QED BY <3>1 DEF CaughtUp
  <2>5. logs'.at \in {"left", "waiting"} /\ (logs'.at = "left" <=> n >= SettleDrains)
    BY <2>1
  <2> HIDE DEF n
  <2>6. logs'.at # "left" => logs'.settled < SettleDrains
    BY <1>0, <2>1, <2>3, <2>5
  <2>7. SettleDrains > 1 /\ logs'.at = "left" /\ ~logs'.full => CaughtUp'
    BY <2>1, <2>3, <2>4, <2>5 DEF LogsInv
  <2> QED BY <1>0, <1>3, <2>1, <2>3, <2>5, <2>6, <2>7 DEF LogsInv
<1>12. ASSUME Output \/ LateOutput \/ Lands \/ Settle \/ Persist \/ CopyStep
       PROVE  UNCHANGED logs
  BY <1>12 DEF Output, LateOutput, AppendLine, Lands, Settle, Persist, CopyStep
<1> QED BY <1>2, <1>5, <1>6, <1>7, <1>9, <1>10, <1>11, <1>12, StepCases DEF Follow

\* What the invariants say of a follower that has left.
LEMMA ShownAll ==
  ASSUME FollowInv, OwnerInv, LogsInv, SettleDrains > 1 PROVE LogsShowsAll
<1> SUFFICES ASSUME logs.at = "left", logs.status = "ended", ~logs.full,
                    NEW i \in 1..Due, ReadLines[i][1] >= logs.from
             PROVE  ReadLines[i] \in logs.shown
  BY DEF LogsShowsAll
<1> DEFINE s == ReadLines[i][1]
           e == ReadLines[i][2]
<1>1. FileInv /\ ~running /\ CaughtUp
  BY DEF OwnerInv, LogsInv
<1>2. i \in 1..Len(ReadLines) /\ e \in ends
  <2>1. Due <= Len(ReadLines) /\ Due \in Int /\ e \in ends
    BY <1>1, DueIs DEF OwnerInv
  <2>2. Len(ReadLines) \in Nat
    BY <1>1, Reading
  <2> QED BY <2>1, <2>2
<1>3. /\ ReadLines[i] = <<s, e>> /\ s \in Starts /\ s \in Nat /\ e \in Nat /\ s < e /\ e <= size
      /\ \A d \in Starts : ~(s < d /\ d < e)
  BY <1>1, <1>2, Reading
<1>4. e <= logs.held
  BY <1>1 DEF CaughtUp
<1> HIDE DEF s, e
<1>5. s \in {logs.from} \cup ends
  <2>1. s \in {0} \cup ends /\ logs.from \in Nat /\ s >= logs.from
    BY <1>3 DEF Starts, FollowInv, Held, s
  <2> QED BY <2>1
<1>6. \A d \in ends : ~(s < d /\ d < e)
  <2> SUFFICES ASSUME NEW d \in ends, s < d, d < e PROVE FALSE
    OBVIOUS
  <2>1. d \in Nat /\ size \in Nat
    BY <1>1 DEF FileInv
  <2>2. d \in Starts
    BY <1>3, <2>1 DEF Starts
  <2> QED BY <1>3, <2>2
<1>7. IsLine(ends, s, e, logs.from, logs.held)
  BY <1>2, <1>3, <1>4, <1>5, <1>6 DEF IsLine, s, e
<1>8. <<s, e>> \in LinesBetween(ends, logs.from, logs.held)
  BY <1>7, Member
<1> QED BY <1>3, <1>8 DEF FollowInv, FollowerShowsWholeLines

LEMMA LogsAlways == Spec => [](FollowInv /\ OwnerInv /\ LogsInv)
<1>1. Init => LogsInv
  <2> SUFFICES ASSUME Init PROVE LogsInv
    OBVIOUS
  <2>1. logs.at = "closed" /\ logs.mode = "none" /\ logs.back = 0 /\ logs.status = "running"
        /\ logs.settled = 0 /\ logs.full \in BOOLEAN
    BY DEF Init
  <2>2. 0 \in 0..SettleDrains /\ 0 < SettleDrains
    BY TranscriptAssumption
  <2> QED BY <2>1, <2>2 DEF LogsInv, Statuses
<1>2. FollowInv /\ FollowInv' /\ OwnerInv /\ LogsInv /\ [Next]_vars => LogsInv'
  BY LogsStepKeeps
<1> QED BY <1>1, <1>2, OwnerAlways, PTL DEF Spec

\* `logs` misses no line of a turn that it has seen the end of: it polls at least
\* twice when the record has ended, and the owner writes the record last.  With a
\* single poll (SettleDrains = 1) the lines could come between it and the record.
THEOREM ShowsAll ==
  ASSUME SettleDrains > 1 PROVE Spec => []LogsShowsAll
<1>1. FollowInv /\ OwnerInv /\ LogsInv => LogsShowsAll
  BY ShownAll
<1> QED BY <1>1, LogsAlways, PTL

-----------------------------------------------------------------------------
(* The client of agent_watch and agent_get_output                          *)

\* The cursor is within t.lines, and the lines after the turn are counted.
WatchInv ==
  /\ total \in Nat /\ late \in Nat /\ watch.since \in Nat
  /\ watch.since <= total
  /\ watch = [at |-> watch.at, since |-> watch.since, heard |-> watch.heard]
  /\ watch.at \in {"idle", "watching", "paged", "paging", "last", "over"}
  /\ watch.at \in {"last", "over"} => ~running
  /\ WatchMissesNothing

\* Every step keeps the client's cursor in place.
LEMMA WatchStep == WatchInv /\ [Next]_vars => WatchInv'
<1> SUFFICES ASSUME WatchInv, [Next]_vars PROVE WatchInv'
  OBVIOUS
<1> USE TranscriptAssumption DEF WatchInv, WatchMissesNothing, owner
<1>1. CASE Output
  BY <1>1 DEF Output, AppendLine
<1>2. CASE LateOutput
  <2>1. /\ UNCHANGED <<running, watch>> /\ ~running
        /\ total' \in Nat /\ total <= total' /\ late' = late + (total' - total)
    BY <1>2 DEF LateOutput, AppendLine
  <2>2. late' \in Nat /\ total' - late' = total - late
    BY <2>1
  <2> QED BY <2>1, <2>2
<1>3. CASE Settle
  BY <1>3 DEF Settle
<1>4. CASE WatchFrom
  <2>1. watch.heard \cup (watch.since + 1)..total = 1..total
    OBVIOUS
  <2> QED BY <1>4, <2>1 DEF WatchFrom
<1>5. CASE WatchBegins
  BY <1>5 DEF WatchBegins
<1>6. ASSUME NEW max \in Pages, GetOutput(max) PROVE WatchInv'
  <2> DEFINE end == IF max > 0 /\ watch.since + max < total THEN watch.since + max ELSE total
  <2>1. /\ watch'.since = end
        /\ watch'.heard = watch.heard \cup (watch.since + 1)..end
        /\ watch'.at = IF watch.at = "last" /\ end = total THEN "over" ELSE "paged"
        /\ watch' = [at |-> watch'.at, since |-> watch'.since, heard |-> watch'.heard]
    BY <1>6 DEF GetOutput
  <2>2. end \in Nat /\ watch.since <= end /\ end <= total
    BY <1>6
  <2>3. total' = total /\ late' = late /\ running' = running
    BY <1>6 DEF GetOutput
  <2> HIDE DEF end
  <2>4. watch'.heard = 1..end
    BY <2>1, <2>2
  <2> QED BY <2>1, <2>2, <2>3, <2>4
<1>7. CASE GetStatus
  BY <1>7 DEF GetStatus
<1>8. ASSUME UNCHANGED <<total, late, running, watch>> PROVE WatchInv'
  BY <1>8
<1>9. CASE Next
  <2>1. CASE Lands \/ Persist \/ Dies
    BY <1>8, <2>1 DEF Lands, Persist, Dies
  <2>2. CASE AdoptRecord \/ AdoptLines
    BY <1>8, <2>2 DEF AdoptRecord, AdoptLines, CopyStep
  <2>3. CASE \E r \in Refreshers : Refresh(r)
    BY <1>8, <2>3 DEF Refresh, RefreshBegins, RefreshReadsRecord, RefreshApplies, CopyStep
  <2>4. CASE Follow
    BY <1>8, <2>4 DEF Follow, LogsDrains, LogsLooks, LogsCloses, LogsTicks,
                      LogsLooksAgain, LogsStep
  <2>5. CASE \E n \in Backlogs, m \in Modes : LogsOpens(n, m)
    BY <1>8, <2>5 DEF LogsOpens, LogsStep
  <2>6. CASE StreamFound \/ \E n \in Backlogs : StreamAttaches(n)
    BY <1>8, <2>6 DEF StreamFound, StreamAttaches, LogsStep
  <2> QED BY <1>1, <1>2, <1>3, <1>4, <1>5, <1>6, <1>7, <1>9, <2>1, <2>2, <2>3, <2>4, <2>5, <2>6
          DEF Next
<1>10. CASE UNCHANGED vars
  BY <1>8, <1>10 DEF vars
<1> QED BY <1>9, <1>10

LEMMA WatchAlways == Spec => []WatchInv
<1>1. Init => WatchInv
  BY DEF Init, WatchInv, WatchMissesNothing
<1> QED BY <1>1, WatchStep, PTL DEF Spec

\* A client that passes the cursor of one agent_watch or agent_get_output to the
\* next is given every line, and none of the turn is left when it stops: at the
\* word of agent_watch, or at the end of the lines after that of agent_get_output.
THEOREM WatchIsComplete == Spec => []WatchMissesNothing
<1>1. WatchInv => WatchMissesNothing
  BY DEF WatchInv
<1> QED BY <1>1, WatchAlways, PTL

-----------------------------------------------------------------------------
(* Types                                                                   *)

\* The invariants of the parts give the types of all variables.
LEMMA TypesFollow ==
  ASSUME FollowInv, OwnerInv, CopyInv, LogsInv, WatchInv PROVE TypeOK
<1>1. /\ size \in Nat /\ target \in Nat /\ size <= target /\ ends \subseteq 1..size
      /\ \A e \in ends : e \in Places
  BY DEF FollowInv, FileInv, Places
<1>2. logs.from \in Places /\ logs.off \in Places /\ logs.held \in Places
  BY <1>1 DEF FollowInv, Held, Places
<1>3. logs.shown \in SUBSET Lines
  <2>1. ASSUME NEW l \in logs.shown PROVE l \in Lines
    <3>1. PICK s, e : l = <<s, e>> /\ IsLine(ends, s, e, logs.from, logs.held)
      <4>1. l \in LinesBetween(ends, logs.from, logs.held)
        BY <2>1 DEF FollowInv, FollowerShowsWholeLines
      <4>2. PICK s, e : l = <<s, e>>
        BY <4>1, Member
      <4> QED BY <4>1, <4>2, Member
    <3>2. s \in Places /\ e \in Places /\ s < e
      BY <1>1, <1>2, <3>1 DEF IsLine
    <3> QED BY <3>1, <3>2 DEF Lines
  <2> QED BY <2>1
<1>4. logs \in [at : {"closed", "found", "opened", "drained", "waiting", "polled", "closing",
                      "left"},
                mode : Modes \cup {"none", "all"}, back : Backlogs \cup {0}, from : Places,
                off : Places, held : Places, shown : SUBSET Lines, status : Statuses,
                settled : 0..SettleDrains, full : BOOLEAN]
  <2>1. /\ logs.at \in {"closed", "found", "opened", "drained", "waiting", "polled", "closing",
                        "left"}
        /\ logs.mode \in Modes \cup {"none", "all"} /\ logs.back \in Backlogs \cup {0}
        /\ logs.status \in Statuses /\ logs.settled \in 0..SettleDrains
        /\ logs.full \in BOOLEAN
    BY DEF LogsInv
  <2>2. LogsRecord
    BY DEF FollowInv
  <2> QED BY <1>2, <1>3, <2>1, <2>2 DEF LogsRecord
<1>5. /\ total \in 0..(Limit + 1) /\ late \in 0..MaxLate
      /\ running \in BOOLEAN /\ up \in BOOLEAN /\ record \in Statuses
  BY DEF OwnerInv
<1>6. /\ copy.at \in {"none", "adopting", "settling", "orphaned", "settled"}
      /\ \A i \in DOMAIN copy.lines : copy.lines[i] \in Lines
      /\ refresh \in [Refreshers -> [at : {"idle", "begun", "read"}, have : Nat,
                                     status : Statuses]]
  <2>1. DOMAIN copy.lines = 1..Len(copy.lines)
    BY DEF CopyInv
  <2> QED BY <2>1 DEF CopyInv
<1>7. /\ watch.at \in {"idle", "watching", "paged", "paging", "last", "over"}
      /\ watch.since \in 0..total /\ watch.heard \subseteq 1..total
  BY DEF WatchInv, WatchMissesNothing
<1> QED BY <1>1, <1>4, <1>5, <1>6, <1>7 DEF TypeOK

\* The variables keep their types; among them, that every place a reader holds
\* is within the file, and every line of the orphan one of the file.
THEOREM TypesHold == Spec => []TypeOK
<1>1. FollowInv /\ OwnerInv /\ CopyInv /\ LogsInv /\ WatchInv => TypeOK
  BY TypesFollow
<1> QED BY <1>1, LogsAlways, CopyAlways, WatchAlways, PTL
=============================================================================
