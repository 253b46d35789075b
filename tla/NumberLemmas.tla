----------------------------- MODULE NumberLemmas -----------------------------
(***************************************************************************)
(* What the proofs keep needing about numbers: Min and Max of the          *)
(* community module FiniteSetsExt pick an element that exists, what is     *)
(* passed on from each number to the next is climbed to the last, and sets *)
(* that share nothing, or differ by one element, count accordingly.  The   *)
(* ranks of Selection number a set's elements in order, and MapThenSumSet, *)
(* which adds them up in an order of its own choosing, gives the same sum  *)
(* in any.                                                                 *)
(***************************************************************************)
EXTENDS Selection, FiniteSetsExt, FiniteSetTheorems, TLAPS

\* The least element of a non-empty set of naturals, the smallest initial
\* interval being a minimum of the strict subset ordering.
LEMMA MinIsLeast ==
    ASSUME NEW S \in SUBSET Nat, S # {}
    PROVE  Min(S) \in S /\ \A y \in S : Min(S) <= y
<1> DEFINE T == {0 .. x : x \in S}
<1>1. T \subseteq FiniteSubsetsOf(Nat) /\ T # {}
  <2>1. \A x \in S : 0 .. x \in SUBSET Nat /\ IsFiniteSet(0 .. x)
    BY FS_Interval
  <2>2. \A x \in S : 0 .. x \in FiniteSubsetsOf(Nat)
    BY <2>1 DEF FiniteSubsetsOf
  <2>. QED BY <2>2
<1>2. PICK t \in T : \A u \in T : ~ (<<u, t>> \in StrictSubsetOrdering(Nat))
  <2>. HIDE DEF T
  <2>. QED BY <1>1, FS_StrictSubsetOrderingWellFounded, WFMin
<1>3. PICK x \in S : t = 0 .. x
  BY <1>2
<1>4. ASSUME NEW y \in S, y < x PROVE FALSE
  <2>1. 0 .. y \in T /\ 0 .. y \subseteq t /\ x \in t /\ x \notin 0 .. y
    BY <1>3, <1>4
  <2>2. <<0 .. y, t>> \in StrictSubsetOrdering(Nat)
    BY <2>1, <1>3 DEF StrictSubsetOrdering
  <2>3. QED
    BY <1>2, <2>1, <2>2
<1>5. \A y \in S : x <= y
  BY <1>4
<1>6. QED
  BY <1>5 DEF Min

\* The greatest element of a non-empty set of numbers up to n.
LEMMA MaxIsGreatest ==
    ASSUME NEW n \in Nat, NEW S \in SUBSET (0 .. n), S # {}
    PROVE  Max(S) \in S /\ \A y \in S : Max(S) >= y
<1> DEFINE T == {n - x : x \in S}
<1>1. T \in SUBSET Nat /\ T # {}
  <2>1. \A x \in S : x \in 0 .. n
    OBVIOUS
  <2>2. \A x \in S : n - x \in Nat
    BY <2>1
  <2>. QED BY <2>2
<1>2. Min(T) \in T /\ \A u \in T : Min(T) <= u
  BY <1>1, MinIsLeast
<1>3. PICK x \in S : Min(T) = n - x
  BY <1>2
<1>4. \A y \in S : n - x <= n - y
  BY <1>2, <1>3
<1>5. \A y \in S : x >= y
  BY <1>4
<1>6. QED
  BY <1>5 DEF Max

\* A finite set of numbers has a bound: as its elements are numbered, the
\* first of them that no number bounds would be bounded by itself.
LEMMA FiniteSetIsBounded ==
    ASSUME NEW S \in SUBSET Nat, IsFiniteSet(S)
    PROVE  \E top \in Nat : \A x \in S : x <= top
  <1> DEFINE n == Cardinality(S)
  <1>1. n \in Nat /\ ExistsBijection(1 .. n, S)
    BY FS_CardinalityType
  <1>2. PICK f \in [1 .. n -> S] : \A x \in S : \E i \in 1 .. n : f[i] = x
    BY <1>1 DEF ExistsBijection, Bijection, Surjection
  <1> DEFINE Bounded(k) == \E top \in Nat : \A i \in 1 .. k : f[i] <= top
             Unbounded == {k \in 0 .. n : ~Bounded(k)}
  <1> HIDE DEF n
  <1>3. Bounded(0)
    OBVIOUS
  <1>4. ASSUME NEW k \in 1 .. n, Bounded(k - 1) PROVE Bounded(k)
    <2>1. PICK top \in Nat : \A i \in 1 .. (k - 1) : f[i] <= top
      BY <1>4
    <2>2. f[k] \in Nat
      BY <1>2
    <2>3. PICK bound \in Nat : bound >= top /\ bound >= f[k]
      BY <2>2
    <2>4. \A i \in 1 .. k : f[i] <= bound
      <3> TAKE i \in 1 .. k
      <3>0. i \in 1 .. n
        BY <1>1
      <3>1. f[i] \in Nat
        BY <1>2, <3>0
      <3>2. i \in 1 .. (k - 1) \/ i = k
        BY <1>1
      <3>3. CASE i \in 1 .. (k - 1)
        <4>1. f[i] <= top
          BY <2>1, <3>3
        <4> QED
          BY <2>3, <3>1, <4>1
      <3> QED
        BY <2>2, <2>3, <3>2, <3>3
    <2> QED
      BY <2>4
  <1> HIDE DEF Bounded
  <1>5. Unbounded = {}
    <2> SUFFICES ASSUME Unbounded # {} PROVE FALSE
      OBVIOUS
    <2> DEFINE k == Min(Unbounded)
    <2>0. Unbounded \in SUBSET Nat
      BY <1>1
    <2>1. k \in Unbounded /\ \A j \in Unbounded : k <= j
      <3> HIDE DEF Unbounded
      <3> QED
        BY <2>0, MinIsLeast
    <2> HIDE DEF k
    <2>2. k \in 1 .. n /\ k - 1 \in 0 .. n /\ k - 1 \notin Unbounded
      BY <1>1, <1>3, <2>1
    <2> QED
      BY <1>4, <2>1, <2>2
  <1>6. Bounded(n)
    BY <1>1, <1>5
  <1>7. PICK top \in Nat : \A i \in 1 .. n : f[i] <= top
    BY <1>6 DEF Bounded
  <1> QED
    BY <1>2, <1>7

\* What holds at a and is passed on from each number to the next holds up to b.
LEMMA Climb ==
    ASSUME NEW a \in Nat, NEW b \in Nat, NEW Good, a \in Good,
           \A k \in a .. b : k # b /\ k \in Good => k + 1 \in Good
    PROVE  \A k \in a .. b : k \in Good
  <1> SUFFICES ASSUME NEW k \in a .. b, k \notin Good PROVE FALSE
    OBVIOUS
  <1> DEFINE Bad == (a .. b) \ Good
             first == Min(Bad)
  <1>1. Bad \in SUBSET Nat /\ Bad # {}
    OBVIOUS
  <1>2. first \in Bad /\ \A y \in Bad : first <= y
    <2> HIDE DEF Bad
    <2> QED
      BY <1>1, MinIsLeast
  <1> HIDE DEF first
  <1>3. first # a /\ first - 1 \in a .. b /\ first - 1 \notin Bad
    BY <1>2
  <1> QED
    BY <1>2, <1>3

\* Two sets that share nothing count for their sum.
LEMMA ApartAddUp ==
    ASSUME NEW S, NEW T, IsFiniteSet(S), IsFiniteSet(T), S \cap T = {}
    PROVE  IsFiniteSet(S \cup T) /\ Cardinality(S \cup T) = Cardinality(S) + Cardinality(T)
  <1>1. Cardinality(S) \in Nat /\ Cardinality(T) \in Nat
    BY FS_CardinalityType
  <1>2. Cardinality(S \cap T) = 0
    BY FS_EmptySet
  <1>3. IsFiniteSet(S \cup T) /\ Cardinality(S \cup T) = Cardinality(S) + Cardinality(T) - Cardinality(S \cap T)
    BY FS_Union
  <1> QED
    BY <1>1, <1>2, <1>3

\* A set within another and one element more.
LEMMA OneMoreAtMost ==
    ASSUME NEW S, NEW T, NEW x, IsFiniteSet(S), T \subseteq S \cup {x}
    PROVE  IsFiniteSet(T) /\ Cardinality(T) \in Nat /\ Cardinality(T) <= Cardinality(S) + 1
  <1> DEFINE U == S \cup {x}
  <1>1. IsFiniteSet(U) /\ Cardinality(U) = IF x \in S THEN Cardinality(S) ELSE Cardinality(S) + 1
    BY FS_AddElement
  <1>2. Cardinality(S) \in Nat /\ Cardinality(U) \in Nat
    BY <1>1, FS_CardinalityType
  <1>3. T \in SUBSET U
    OBVIOUS
  <1> HIDE DEF U
  <1>4. IsFiniteSet(T) /\ Cardinality(T) <= Cardinality(U)
    BY <1>1, <1>3, FS_Subset
  <1>5. Cardinality(T) \in Nat
    BY <1>4, FS_CardinalityType
  <1> QED
    BY <1>1, <1>2, <1>4, <1>5

\* The lesser of two numbers.
LEMMA MinOfTwo ==
    ASSUME NEW a \in Int, NEW b \in Int
    PROVE  Min({a, b}) = IF a <= b THEN a ELSE b
  <1> DEFINE c == IF a <= b THEN a ELSE b
  <1>1. c \in {a, b} /\ \A y \in {a, b} : c <= y
    OBVIOUS
  <1>2. \A x \in {a, b} : (\A y \in {a, b} : x <= y) => x = c
    OBVIOUS
  <1> QED
    BY <1>1, <1>2 DEF Min

\* The greater.
LEMMA MaxOfTwo ==
    ASSUME NEW a \in Int, NEW b \in Int
    PROVE  Max({a, b}) = IF a >= b THEN a ELSE b
  <1> DEFINE c == IF a >= b THEN a ELSE b
  <1>1. c \in {a, b} /\ \A y \in {a, b} : c >= y
    OBVIOUS
  <1>2. \A x \in {a, b} : (\A y \in {a, b} : x >= y) => x = c
    OBVIOUS
  <1> QED
    BY <1>1, <1>2 DEF Max

\* The rank is the count at the end and climbs by at most one a day.
LEMMA RankClimbs ==
    ASSUME NEW m \in Nat, NEW S \in SUBSET (1 .. m)
    PROVE  /\ IsFiniteSet(S) /\ \A d \in Nat : RankIn(S, d) \in Nat
           /\ RankIn(S, 0) = 0 /\ RankIn(S, m) = Cardinality(S)
           /\ \A d \in Nat : RankIn(S, d + 1) = IF d + 1 \in S THEN RankIn(S, d) + 1 ELSE RankIn(S, d)
           /\ \A d \in Nat, e \in Nat : d <= e => RankIn(S, d) <= RankIn(S, e)
           /\ \A d \in Nat, e \in S : d < e => RankIn(S, d) < RankIn(S, e)
  <1> DEFINE Upto(d) == {e \in S : e <= d}
  <1>1. IsFiniteSet(S)
    <2>1. IsFiniteSet(1 .. m)
      BY FS_Interval
    <2> QED
      BY <2>1, FS_Subset
  <1>2. \A d : IsFiniteSet(Upto(d)) /\ Cardinality(Upto(d)) \in Nat
    <2> TAKE d
    <2>1. Upto(d) \in SUBSET S
      OBVIOUS
    <2> HIDE DEF Upto
    <2> QED
      BY <1>1, <2>1, FS_Subset, FS_CardinalityType
  <1>3. \A d : RankIn(S, d) = Cardinality(Upto(d))
    BY DEF RankIn
  <1>0. \A e \in S : e \in 1 .. m /\ e \in Nat
    OBVIOUS
  <1>4. Upto(0) = {} /\ Upto(m) = S
    <2>1. \A e \in S : ~(e <= 0) /\ e <= m
      BY <1>0
    <2> QED
      BY <2>1
  <1>5. \A d \in Nat : Upto(d + 1) = IF d + 1 \in S THEN Upto(d) \cup {d + 1} ELSE Upto(d)
    <2> TAKE d \in Nat
    <2>1. \A e \in S : e <= d + 1 <=> e <= d \/ e = d + 1
      OBVIOUS
    <2> QED
      BY <2>1
  <1>6. \A d \in Nat : d + 1 \notin Upto(d)
    OBVIOUS
  <1>7. \A d \in Nat, e \in Nat : d <= e => Upto(d) \in SUBSET Upto(e)
    <2> TAKE d \in Nat, e \in Nat
    <2>1. d <= e => \A x \in S : x <= d => x <= e
      BY <1>0
    <2> QED
      BY <2>1
  <1>8. \A d \in Nat, e \in S : d < e => e \in Upto(e) /\ e \notin Upto(d) /\ e \in Nat
    OBVIOUS
  <1> HIDE DEF Upto
  <1>9. \A d \in Nat : RankIn(S, d + 1) = IF d + 1 \in S THEN RankIn(S, d) + 1 ELSE RankIn(S, d)
    <2> TAKE d \in Nat
    <2>1. IsFiniteSet(Upto(d)) /\ d + 1 \notin Upto(d)
      BY <1>2, <1>6
    <2>2. Cardinality(Upto(d) \cup {d + 1}) = Cardinality(Upto(d)) + 1
      BY <2>1, FS_AddElement
    <2> QED
      BY <1>3, <1>5, <2>2
  <1>10. \A d \in Nat, e \in Nat : d <= e => RankIn(S, d) <= RankIn(S, e)
    BY <1>2, <1>3, <1>7, FS_Subset
  <1>11. ASSUME NEW d \in Nat, NEW e \in S, d < e PROVE RankIn(S, d) < RankIn(S, e)
    <2>1. Upto(d) \in SUBSET Upto(e) /\ Upto(d) # Upto(e)
      BY <1>7, <1>8, <1>11
    <2>2. Cardinality(Upto(d)) <= Cardinality(Upto(e)) /\ Cardinality(Upto(d)) # Cardinality(Upto(e))
      BY <1>2, <2>1, FS_Subset
    <2> QED
      BY <1>2, <1>3, <2>2
  <1>12. RankIn(S, 0) = 0 /\ RankIn(S, m) = Cardinality(S)
    BY <1>3, <1>4, FS_EmptySet
  <1> QED
    BY <1>1, <1>2, <1>3, <1>9, <1>10, <1>11, <1>12

\* There is an element of each rank.
LEMMA RankIsReached ==
    ASSUME NEW m \in Nat, NEW S \in SUBSET (1 .. m), NEW n \in 1 .. Cardinality(S)
    PROVE  \E d \in S : RankIn(S, d) = n
  <1> DEFINE High == {d \in Nat : RankIn(S, d) >= n}
             d == Min(High)
  <1>1. /\ \A x \in Nat : RankIn(S, x) \in Nat
        /\ RankIn(S, 0) = 0 /\ RankIn(S, m) = Cardinality(S) /\ Cardinality(S) \in Nat
        /\ \A x \in Nat : RankIn(S, x + 1) = IF x + 1 \in S THEN RankIn(S, x) + 1 ELSE RankIn(S, x)
    <2>1. IsFiniteSet(S)
      BY RankClimbs
    <2>2. Cardinality(S) \in Nat
      BY <2>1, FS_CardinalityType
    <2> QED
      BY <2>2, RankClimbs
  <1>2. High \in SUBSET Nat /\ m \in High /\ 0 \notin High
    BY <1>1
  <1>3. d \in High /\ \A x \in High : d <= x
    <2> HIDE DEF High
    <2> QED
      BY <1>2, MinIsLeast
  <1> HIDE DEF d
  <1>4. d \in Nat /\ d - 1 \in Nat /\ d - 1 \notin High /\ (d - 1) + 1 = d
    BY <1>2, <1>3
  <1>5. RankIn(S, d - 1) < n /\ RankIn(S, d) >= n /\ RankIn(S, d - 1) \in Nat
    BY <1>1, <1>3, <1>4
  <1>6. RankIn(S, d) = IF d \in S THEN RankIn(S, d - 1) + 1 ELSE RankIn(S, d - 1)
    BY <1>1, <1>4
  <1> QED
    BY <1>1, <1>3, <1>4, <1>5, <1>6

\* The numbers of a set by their ranks: each once, in order, the first n of
\* them being 1 .. n.
LEMMA NthEnumerates ==
    ASSUME NEW m \in Nat, NEW S \in SUBSET (1 .. m)
    PROVE  /\ IsFiniteSet(S) /\ Cardinality(S) \in 0 .. m
           /\ \A k \in 1 .. Cardinality(S) : NthOf(S, k) \in S
           /\ \A j, k \in 1 .. Cardinality(S) : j < k => NthOf(S, j) < NthOf(S, k)
           /\ \A i \in S : \E k \in 1 .. Cardinality(S) : NthOf(S, k) = i
           /\ S = 1 .. m => Cardinality(S) = m /\ \A k \in 1 .. m : NthOf(S, k) = k
  <1> DEFINE c == Cardinality(S)
  <1>1. /\ IsFiniteSet(S) /\ \A d \in Nat : RankIn(S, d) \in Nat
        /\ RankIn(S, 0) = 0 /\ RankIn(S, m) = c
        /\ \A d \in Nat, e \in Nat : d <= e => RankIn(S, d) <= RankIn(S, e)
        /\ \A d \in Nat, e \in S : d < e => RankIn(S, d) < RankIn(S, e)
    BY RankClimbs
  <1>2. c \in Nat /\ c <= m
    <2>1. IsFiniteSet(1 .. m) /\ Cardinality(1 .. m) = m
      BY FS_Interval
    <2> QED
      BY <1>1, <2>1, FS_Subset, FS_CardinalityType
  <1>3. \A i \in S : i \in 1 .. m /\ i \in Nat /\ 0 < i
    OBVIOUS
  <1>4. \A k \in 1 .. c : NthOf(S, k) \in S /\ RankIn(S, NthOf(S, k)) = k
    <2> TAKE k \in 1 .. c
    <2>1. \E d \in S : RankIn(S, d) = k
      BY RankIsReached
    <2> QED
      BY <2>1 DEF NthOf
  <1> HIDE DEF c
  <1>5. \A j, k \in 1 .. c : j < k => NthOf(S, j) < NthOf(S, k)
    <2> SUFFICES ASSUME NEW j \in 1 .. c, NEW k \in 1 .. c, j < k PROVE NthOf(S, j) < NthOf(S, k)
      OBVIOUS
    <2>1. NthOf(S, j) \in Nat /\ NthOf(S, k) \in Nat
      BY <1>3, <1>4
    <2>2. NthOf(S, k) <= NthOf(S, j) => RankIn(S, NthOf(S, k)) <= RankIn(S, NthOf(S, j))
      BY <1>1, <2>1
    <2> QED
      BY <1>2, <1>4, <2>1, <2>2
  <1>6. ASSUME NEW i \in S PROVE \E k \in 1 .. c : NthOf(S, k) = i
    <2>1. RankIn(S, 0) < RankIn(S, i) /\ RankIn(S, i) <= RankIn(S, m) /\ RankIn(S, i) \in Nat
      BY <1>1, <1>3
    <2>2. PICK k \in 1 .. c : k = RankIn(S, i)
      BY <1>1, <1>2, <2>1
    <2>3. NthOf(S, k) \in S /\ RankIn(S, NthOf(S, k)) = RankIn(S, i) /\ NthOf(S, k) \in Nat /\ i \in Nat
      BY <1>3, <1>4, <2>2
    <2>4. ~(NthOf(S, k) < i) /\ ~(i < NthOf(S, k))
      BY <1>1, <2>1, <2>3
    <2> QED
      BY <2>3, <2>4
  <1>7. ASSUME S = 1 .. m PROVE c = m /\ \A k \in 1 .. m : NthOf(S, k) = k
    <2>1. c = m
      BY <1>7, FS_Interval DEF c
    <2>2. ASSUME NEW k \in 1 .. m PROVE RankIn(S, k) = k
      <3>1. {e \in S : e <= k} = 1 .. k
        BY <1>7
      <3>2. Cardinality(1 .. k) = k
        BY FS_Interval
      <3> QED
        BY <3>1, <3>2 DEF RankIn
    <2>3. \A k \in 1 .. m : NthOf(S, k) \in 1 .. m /\ RankIn(S, NthOf(S, k)) = k
      BY <1>4, <1>7, <2>1
    <2> QED
      BY <2>1, <2>2, <2>3
  <1> QED
    BY <1>1, <1>2, <1>4, <1>5, <1>6, <1>7 DEF c

\* What each set has if all the sets one element smaller have it, every subset
\* of a finite set has.
LEMMA ClimbSets ==
    ASSUME NEW S, IsFiniteSet(S), NEW Good,
           \A s \in SUBSET S : (\A x \in s : s \ {x} \in Good) => s \in Good
    PROVE  \A s \in SUBSET S : s \in Good
  <1> SUFFICES ASSUME NEW r \in SUBSET S, r \notin Good PROVE FALSE
    OBVIOUS
  <1> DEFINE Bad == (SUBSET S) \ Good
  <1>1. Bad \subseteq FiniteSubsetsOf(S) /\ Bad # {}
    BY FS_FiniteSubsetsOfFinite
  <1>2. PICK s \in Bad : \A u \in Bad : ~ (<<u, s>> \in StrictSubsetOrdering(S))
    <2>. HIDE DEF Bad
    <2>. QED BY <1>1, FS_StrictSubsetOrderingWellFounded, WFMin
  <1>3. ASSUME NEW x \in s PROVE s \ {x} \in Good
    <2>1. <<s \ {x}, s>> \in StrictSubsetOrdering(S)
      BY DEF StrictSubsetOrdering
    <2> QED
      BY <1>2, <2>1
  <1> QED
    BY <1>3

\* The sum of v over a set, and the function its definition folds the set with.
SumOf(v, S) == MapThenSumSet(LAMBDA i : v[i], S)
Folds(g, v, S) ==
    g = [s \in SUBSET S |-> IF s = {} THEN 0
                            ELSE v[CHOOSE x \in s : TRUE] + g[s \ {CHOOSE x \in s : TRUE}]]

LEMMA SumIsFolded ==
    ASSUME NEW v, NEW S
    PROVE  SumOf(v, S) = (CHOOSE g : Folds(g, v, S))[S]
  BY DEF SumOf, MapThenSumSet, MapThenFoldSet, Folds

\* Such a function exists: what is known of the sets of up to k elements says
\* what to give those of k + 1.
LEMMA FoldExists ==
    ASSUME NEW S, IsFiniteSet(S), NEW v
    PROVE  \E g : Folds(g, v, S)
  <1> DEFINE n == Cardinality(S)
             Pick(s) == CHOOSE x \in s : TRUE
             UpTo(k) == {s \in SUBSET S : Cardinality(s) <= k}
             Rule(g, s) == IF s = {} THEN 0 ELSE v[Pick(s)] + g[s \ {Pick(s)}]
             Fits(g, k) == g = [s \in UpTo(k) |-> Rule(g, s)]
             Good == {k \in 0 .. n : \E g : Fits(g, k)}
  <1>1. n \in Nat /\ \A s \in SUBSET S : IsFiniteSet(s) /\ Cardinality(s) \in 0 .. n
    BY FS_CardinalityType, FS_Subset
  <1>2. \A s \in SUBSET S : s # {} => /\ Pick(s) \in s /\ s \ {Pick(s)} \in SUBSET S
                                      /\ Cardinality(s \ {Pick(s)}) = Cardinality(s) - 1
    <2> TAKE s \in SUBSET S
    <2> HAVE s # {}
    <2>1. Pick(s) \in s
      OBVIOUS
    <2> HIDE DEF Pick
    <2> QED
      BY <1>1, <2>1, FS_RemoveElement
  <1>3. \A s \in SUBSET S : Cardinality(s) = 0 <=> s = {}
    BY <1>1, FS_EmptySet
  <1> HIDE DEF n, Pick
  <1>4. 0 \in Good
    <2> DEFINE g == [s \in UpTo(0) |-> 0]
    <2>1. \A s \in UpTo(0) : s = {}
      BY <1>1, <1>3
    <2>2. Fits(g, 0)
      BY <2>1
    <2>3. \E f : Fits(f, 0)
      BY <2>2
    <2> HIDE DEF Fits, g
    <2> QED
      BY <1>1, <2>3
  <1>5. ASSUME NEW k \in 0 .. n, k # n, k \in Good PROVE k + 1 \in Good
    <2>1. PICK g : Fits(g, k)
      BY <1>5
    <2> DEFINE h == [s \in UpTo(k + 1) |-> Rule(g, s)]
    <2>2. \A s \in UpTo(k + 1) : s # {} => s \ {Pick(s)} \in UpTo(k)
      BY <1>1, <1>2
    <2>3. \A s \in UpTo(k) : s \in UpTo(k + 1) /\ h[s] = g[s]
      <3>1. \A s \in UpTo(k) : g[s] = Rule(g, s)
        BY <2>1
      <3>2. \A s \in UpTo(k) : s \in UpTo(k + 1)
        BY <1>1
      <3> QED
        BY <3>1, <3>2
    <2>4. \A s \in UpTo(k + 1) : Rule(h, s) = Rule(g, s)
      <3> HIDE DEF h, UpTo
      <3> QED
        BY <2>2, <2>3
    <2>5. Fits(h, k + 1)
      <3> HIDE DEF Rule
      <3> QED
        BY <2>4
    <2> HIDE DEF Fits
    <2> QED
      BY <1>1, <1>5, <2>5
  <1>6. n \in Good
    <2> HIDE DEF Good
    <2>1. \A k \in 0 .. n : k # n /\ k \in Good => k + 1 \in Good
      BY <1>5
    <2>2. \A k \in 0 .. n : k \in Good
      BY <1>1, <1>4, <2>1, Climb
    <2> QED
      BY <1>1, <2>2
  <1>7. PICK g : Fits(g, n)
    BY <1>6
  <1>8. UpTo(n) = SUBSET S
    BY <1>1
  <1>9. g = [s \in SUBSET S |-> Rule(g, s)]
    BY <1>7, <1>8
  <1> QED
    BY <1>9 DEF Folds, Pick

\* It is the same on the subsets two sets share, gives numbers, and counts each
\* element once, whichever is taken out first.
LEMMA FoldsAgree ==
    ASSUME NEW S, IsFiniteSet(S), NEW v, NEW g, Folds(g, v, S),
           NEW R \in SUBSET S, NEW h, Folds(h, v, R)
    PROVE  g[R] = h[R]
  <1> DEFINE Pick(s) == CHOOSE x \in s : TRUE
             Good == {s \in SUBSET R : g[s] = h[s]}
  <1>1. \A s \in SUBSET R : s # {} => Pick(s) \in s
    OBVIOUS
  <1>2. \A s \in SUBSET R : /\ g[s] = (IF s = {} THEN 0 ELSE v[Pick(s)] + g[s \ {Pick(s)}])
                            /\ h[s] = (IF s = {} THEN 0 ELSE v[Pick(s)] + h[s \ {Pick(s)}])
    BY DEF Folds
  <1> HIDE DEF Pick
  <1>3. IsFiniteSet(R)
    BY FS_Subset
  <1>4. \A s \in SUBSET R : (\A x \in s : s \ {x} \in Good) => s \in Good
    BY <1>1, <1>2
  <1> HIDE DEF Good
  <1>5. \A s \in SUBSET R : s \in Good
    BY <1>3, <1>4, ClimbSets
  <1> QED
    BY <1>5 DEF Good

LEMMA FoldsAnyOrder ==
    ASSUME NEW S, IsFiniteSet(S), NEW v, \A x \in S : v[x] \in Int, NEW g, Folds(g, v, S)
    PROVE  \A s \in SUBSET S : /\ g[s] \in Int
                               /\ s = {} => g[s] = 0
                               /\ \A x \in s : g[s] = v[x] + g[s \ {x}]
  <1> DEFINE Pick(s) == CHOOSE x \in s : TRUE
             Adds(s) == \A x \in s : g[s] = v[x] + g[s \ {x}]
             Numbers == {s \in SUBSET S : g[s] \in Int}
             Good == {s \in SUBSET S : Adds(s)}
  <1>1. \A s \in SUBSET S : s # {} => Pick(s) \in s
    OBVIOUS
  <1>2. \A s \in SUBSET S : g[s] = (IF s = {} THEN 0 ELSE v[Pick(s)] + g[s \ {Pick(s)}])
    BY DEF Folds
  <1> HIDE DEF Pick
  <1>3. \A s \in SUBSET S : g[s] \in Int
    <2>1. \A s \in SUBSET S : (\A x \in s : s \ {x} \in Numbers) => s \in Numbers
      <3> SUFFICES ASSUME NEW s \in SUBSET S, \A x \in s : s \ {x} \in Numbers
                   PROVE  g[s] \in Int
        OBVIOUS
      <3>1. CASE s = {}
        <4>1. g[s] = 0
          BY <1>2, <3>1, Zenon
        <4> QED
          BY <4>1
      <3>2. CASE s # {}
        <4>1. PICK c \in s : c = Pick(s)
          BY <1>1, <3>2
        <4>2. g[s] = v[c] + g[s \ {c}]
          BY <1>2, <3>2, <4>1
        <4>3. s \ {c} \in Numbers
          OBVIOUS
        <4>4. g[s \ {c}] \in Int
          BY <4>3
        <4>5. v[c] \in Int
          OBVIOUS
        <4> QED
          BY <4>2, <4>4, <4>5
      <3> QED
        BY <3>1, <3>2
    <2> HIDE DEF Numbers
    <2>2. \A s \in SUBSET S : s \in Numbers
      BY <2>1, ClimbSets
    <2> QED
      BY <2>2 DEF Numbers
  <1>4. ASSUME NEW s \in SUBSET S, \A x \in s : s \ {x} \in Good PROVE s \in Good
    <2> SUFFICES ASSUME NEW x \in s PROVE g[s] = v[x] + g[s \ {x}]
      OBVIOUS
    <2> DEFINE c == Pick(s)
               r == (s \ {c}) \ {x}
    <2>1. c \in s /\ g[s] = v[c] + g[s \ {c}]
      BY <1>1, <1>2
    <2>2. CASE x = c
      BY <2>1, <2>2
    <2>3. CASE x # c
      <3>1. s \ {c} \in Good /\ s \ {x} \in Good /\ x \in s \ {c} /\ c \in s \ {x}
        BY <1>4, <2>1, <2>3
      <3>2. g[s \ {c}] = v[x] + g[r]
        BY <3>1
      <3>3. (s \ {x}) \ {c} = r
        OBVIOUS
      <3>4. g[s \ {x}] = v[c] + g[r]
        BY <3>1, <3>3
      <3>5. g[r] \in Int /\ v[x] \in Int /\ v[c] \in Int
        BY <1>3, <2>1
      <3> HIDE DEF r, c
      <3> QED
        BY <2>1, <3>2, <3>4, <3>5
    <2> QED
      BY <2>2, <2>3
  <1> HIDE DEF Good
  <1>5. \A s \in SUBSET S : s \in Good
    BY <1>4, ClimbSets
  <1> QED
    BY <1>2, <1>3, <1>5 DEF Good

\* The sum of values: of none it is 0, and it is a number that any element
\* can be taken out of.
LEMMA SumAnyOrder ==
    ASSUME NEW S, IsFiniteSet(S), NEW v, \A x \in S : v[x] \in Int
    PROVE  /\ SumOf(v, S) \in Int
           /\ S = {} => SumOf(v, S) = 0
           /\ \A x \in S : SumOf(v, S) = v[x] + SumOf(v, S \ {x})
  <1> DEFINE G(s) == CHOOSE g : Folds(g, v, s)
  <1>1. \A s \in SUBSET S : IsFiniteSet(s) /\ Folds(G(s), v, s) /\ SumOf(v, s) = G(s)[s]
    <2> TAKE s \in SUBSET S
    <2>1. IsFiniteSet(s)
      BY FS_Subset
    <2>2. Folds(G(s), v, s)
      BY <2>1, FoldExists
    <2> QED
      BY <2>1, <2>2, SumIsFolded
  <1> HIDE DEF G
  <1>2. SumOf(v, S) = G(S)[S] /\ Folds(G(S), v, S) /\ S \in SUBSET S
    BY <1>1
  <1>3. /\ G(S)[S] \in Int
        /\ S = {} => G(S)[S] = 0
        /\ \A x \in S : G(S)[S] = v[x] + G(S)[S \ {x}]
    <2> DEFINE g == G(S)
    <2>1. Folds(g, v, S)
      BY <1>2
    <2> HIDE DEF g
    <2>2. \A s \in SUBSET S : /\ g[s] \in Int
                              /\ s = {} => g[s] = 0
                              /\ \A x \in s : g[s] = v[x] + g[s \ {x}]
      BY <2>1, FoldsAnyOrder
    <2> QED
      BY <2>2 DEF g
  <1>4. ASSUME NEW x \in S PROVE G(S)[S \ {x}] = SumOf(v, S \ {x})
    <2> DEFINE R == S \ {x}
    <2>1. R \in SUBSET S
      OBVIOUS
    <2> HIDE DEF R
    <2>2. Folds(G(R), v, R) /\ SumOf(v, R) = G(R)[R]
      BY <1>1, <2>1
    <2>3. G(S)[R] = G(R)[R]
      BY <1>2, <2>1, <2>2, FoldsAgree
    <2>4. G(S)[R] = SumOf(v, R)
      BY <2>2, <2>3
    <2> QED
      BY <2>4 DEF R
  <1> QED
    BY <1>2, <1>3, <1>4
=============================================================================
