---------------------------- MODULE KdTree_proofs ----------------------------
(***************************************************************************)
(* Lemmas about KdTree: the selection of a median, the photons that are    *)
(* kept, the content of the nodes of the tree, and what a search of it     *)
(* finds, for every list of photons and every point and radius.            *)
(* OptixRenderer_proofs applies the last one to the photons of a pass.     *)
(***************************************************************************)
EXTENDS KdTree, FiniteSetTheorems, SequenceTheorems, WellFoundedInduction, TLAPS

-----------------------------------------------------------------------------
(***************************************************************************)
(* Greatest and least members of finite sets                               *)
(***************************************************************************)

\* The order of the natural numbers, as a set of pairs.
Less == {ss \in Nat \X Nat : ss[1] < ss[2]}

\* The order is well-founded.
LEMMA NatLess == IsWellFoundedOn(Less, Nat)
BY NatLessThanWellFounded DEF OpToRel, Less

\* Induction: the least number outside S would have its predecessor in S.
LEMMA SetInduction ==
    ASSUME NEW S, 0 \in S, \A n \in Nat : n \in S => n + 1 \in S
    PROVE  Nat \subseteq S
<1> DEFINE T == Nat \ S
<1>1. SUFFICES ASSUME T # {} PROVE FALSE
  OBVIOUS
<1>2. PICK x \in T : \A y \in T : <<y, x>> \notin Less
  <2>1. T \subseteq Nat
    OBVIOUS
  <2> HIDE DEF T
  <2>2. QED
    BY <1>1, <2>1, NatLess, WFMin
<1>3. x # 0 /\ x \in Nat
  OBVIOUS
<1>4. x - 1 \in Nat /\ x - 1 < x /\ x - 1 + 1 = x
  BY <1>3
<1>5. x - 1 \notin T
  BY <1>2, <1>3, <1>4 DEF Less
<1>6. QED
  BY <1>3, <1>4, <1>5

\* Of the first values of a list of numbers one is the greatest, and one the least.
LEMMA Extremes ==
    ASSUME NEW n \in Nat, NEW f \in [1 .. n -> Int], n > 0
    PROVE  /\ \E i \in 1 .. n : \A j \in 1 .. n : f[i] >= f[j]
           /\ \E i \in 1 .. n : \A j \in 1 .. n : f[i] <= f[j]
<1> DEFINE Upto == {k \in Nat : k + 1 <= n =>
                       /\ \E i \in 1 .. k + 1 : \A j \in 1 .. k + 1 : f[i] >= f[j]
                       /\ \E i \in 1 .. k + 1 : \A j \in 1 .. k + 1 : f[i] <= f[j]}
<1>1. 0 \in Upto
  <2>1. \A j \in 1 .. 0 + 1 : j = 1
    OBVIOUS
  <2>2. f[1] >= f[1] /\ f[1] <= f[1] /\ 1 \in 1 .. 0 + 1
    OBVIOUS
  <2>3. QED
    BY <2>1, <2>2
<1>2. ASSUME NEW k \in Nat, k \in Upto PROVE k + 1 \in Upto
  <2> SUFFICES ASSUME k + 1 + 1 <= n
               PROVE  /\ \E i \in 1 .. k + 1 + 1 : \A j \in 1 .. k + 1 + 1 : f[i] >= f[j]
                      /\ \E i \in 1 .. k + 1 + 1 : \A j \in 1 .. k + 1 + 1 : f[i] <= f[j]
    OBVIOUS
  <2> DEFINE m == k + 2
  <2>1. m \in 1 .. n /\ f[m] \in Int /\ k + 1 + 1 = m /\ k + 1 <= n
    OBVIOUS
  <2>2. \A j \in 1 .. m : j = m \/ j \in 1 .. k + 1
    OBVIOUS
  <2>3. 1 .. k + 1 \subseteq 1 .. m /\ m \in 1 .. m /\ \A j \in 1 .. m : f[j] \in Int
    BY <2>1
  <2>4. PICK i \in 1 .. k + 1 : \A j \in 1 .. k + 1 : f[i] >= f[j]
    BY <1>2, <2>1
  <2>5. PICK h \in 1 .. k + 1 : \A j \in 1 .. k + 1 : f[h] <= f[j]
    BY <1>2, <2>1
  <2> HIDE DEF m
  <2>6. \E g \in 1 .. m : \A j \in 1 .. m : f[g] >= f[j]
    <3>1. CASE f[i] >= f[m]
      BY <2>2, <2>3, <2>4, <3>1
    <3>2. CASE f[m] >= f[i]
      <4>1. ASSUME NEW j \in 1 .. k + 1 PROVE f[m] >= f[j]
        <5>1. f[i] >= f[j] /\ f[i] \in Int /\ f[j] \in Int /\ f[m] \in Int
          BY <2>3, <2>4
        <5>2. QED
          BY <3>2, <5>1
      <4>2. f[m] >= f[m]
        BY <2>3
      <4>3. QED
        BY <2>2, <2>3, <4>1, <4>2
    <3>3. f[i] \in Int /\ f[m] \in Int
      BY <2>3
    <3>4. QED
      BY <3>1, <3>2, <3>3
  <2>7. \E g \in 1 .. m : \A j \in 1 .. m : f[g] <= f[j]
    <3>1. CASE f[h] <= f[m]
      BY <2>2, <2>3, <2>5, <3>1
    <3>2. CASE f[m] <= f[h]
      <4>1. ASSUME NEW j \in 1 .. k + 1 PROVE f[m] <= f[j]
        <5>1. f[h] <= f[j] /\ f[h] \in Int /\ f[j] \in Int /\ f[m] \in Int
          BY <2>3, <2>5
        <5>2. QED
          BY <3>2, <5>1
      <4>2. f[m] <= f[m]
        BY <2>3
      <4>3. QED
        BY <2>2, <2>3, <4>1, <4>2
    <3>3. f[h] \in Int /\ f[m] \in Int
      BY <2>3
    <3>4. QED
      BY <3>1, <3>2, <3>3
  <2>8. QED
    BY <2>1, <2>6, <2>7
<1>3. n - 1 \in Upto
  <2> HIDE DEF Upto
  <2>1. Nat \subseteq Upto
    BY <1>1, <1>2, SetInduction
  <2>2. QED
    BY <2>1
<1>4. n - 1 + 1 = n /\ n <= n
  OBVIOUS
<1>5. QED
  BY <1>3, <1>4

\* A set of numbers that is finite and not empty has a greatest and a least member.
LEMMA MaxMin ==
    ASSUME NEW S \in SUBSET Int, IsFiniteSet(S), S # {}
    PROVE  /\ Max(S) \in S /\ \A x \in S : Max(S) >= x
           /\ Min(S) \in S /\ \A x \in S : Min(S) <= x
<1> DEFINE n == Cardinality(S)
<1>1. n \in Nat /\ n # 0 /\ ExistsBijection(1 .. n, S)
  BY FS_CardinalityType, FS_EmptySet
<1>2. PICK f \in Bijection(1 .. n, S) : TRUE
  BY <1>1 DEF ExistsBijection
<1>3. f \in [1 .. n -> S] /\ \A x \in S : \E j \in 1 .. n : f[j] = x
  BY <1>2 DEF Bijection, Surjection
<1> HIDE DEF n
<1>4. f \in [1 .. n -> Int] /\ n > 0
  <2>1. \A j \in 1 .. n : f[j] \in Int
    BY <1>3
  <2>2. QED
    BY <1>1, <1>3, <2>1
<1>5. PICK i \in 1 .. n : \A j \in 1 .. n : f[i] >= f[j]
  BY <1>1, <1>4, Extremes
<1>6. PICK h \in 1 .. n : \A j \in 1 .. n : f[h] <= f[j]
  BY <1>1, <1>4, Extremes
<1>7. f[i] \in S /\ \A x \in S : f[i] >= x
  BY <1>3, <1>5
<1>8. f[h] \in S /\ \A x \in S : f[h] <= x
  BY <1>3, <1>6
<1>9. QED
  BY <1>7, <1>8 DEF Max, Min


-----------------------------------------------------------------------------
(***************************************************************************)
(* Selection                                                               *)
(***************************************************************************)
\* The photons of E in a list, each once
Arranges(list, n, E) ==
    /\ list \in [1 .. n -> E]
    /\ \A e \in E : \E k \in 1 .. n : list[k] = e
    /\ \A i, j \in 1 .. n : list[i] = list[j] => i = j

Placed(E) == \A e \in E, i \in Axes : e.at[i] \in Int

SameOutside(list, before, n, first, last) ==
    \A k \in 1 .. n : k < first \/ k > last => list[k] = before[k]

\* Nothing comes into a range from outside of it.
LEMMA InsideStays ==
    ASSUME NEW n \in Nat, NEW E, NEW list, NEW before, Arranges(list, n, E), Arranges(before, n, E),
           NEW first \in Int, NEW last \in Int, SameOutside(list, before, n, first, last),
           NEW k \in 1 .. n, first <= k, k <= last
    PROVE  \E j \in 1 .. n : first <= j /\ j <= last /\ list[k] = before[j]
<1>1. PICK j \in 1 .. n : before[j] = list[k]
  BY DEF Arranges
<1>2. CASE j < first \/ j > last
  <2>1. list[j] = list[k]
    BY <1>1, <1>2 DEF SameOutside
  <2>2. j = k
    BY <2>1 DEF Arranges
  <2>3. QED
    BY <1>2, <2>2
<1>3. QED
  BY <1>1, <1>2

\* What two photons changing places does to a list
ChangePlaces(after, list, n, a, b) ==
    /\ after[a] = list[b] /\ after[b] = list[a]
    /\ \A k \in 1 .. n : k # a /\ k # b => after[k] = list[k]

\* They are still the same photons.
LEMMA SwapArranges ==
    ASSUME NEW n \in Nat, NEW E, NEW list, Arranges(list, n, E), NEW a \in 1 .. n, NEW b \in 1 .. n
    PROVE  /\ Arranges(Swapped(list, a, b), n, E)
           /\ ChangePlaces(Swapped(list, a, b), list, n, a, b)
<1> DEFINE swapped == Swapped(list, a, b)
<1>1. list \in [1 .. n -> E]
  BY DEF Arranges
<1>2. /\ swapped \in [1 .. n -> E]
      /\ swapped[a] = list[b] /\ swapped[b] = list[a]
      /\ \A k \in 1 .. n : k # a /\ k # b => swapped[k] = list[k]
  BY <1>1 DEF Swapped
<1> HIDE DEF swapped
<1>3. ASSUME NEW e \in E PROVE \E k \in 1 .. n : swapped[k] = e
  <2>1. PICK k \in 1 .. n : list[k] = e
    BY DEF Arranges
  <2>2. QED
    BY <1>2, <2>1
<1>4. ASSUME NEW i \in 1 .. n, NEW j \in 1 .. n, swapped[i] = swapped[j] PROVE i = j
  <2>1. \A k, l \in 1 .. n : list[k] = list[l] => k = l
    BY DEF Arranges
  <2>2. QED
    BY <1>2, <1>4, <2>1
<1>5. Arranges(swapped, n, E)
  BY <1>2, <1>3, <1>4 DEF Arranges
<1>6. ChangePlaces(swapped, list, n, a, b)
  BY <1>2 DEF ChangePlaces
<1>7. QED
  BY <1>5, <1>6 DEF swapped

\* What partition has done after k scans
ScanInv(s, k, before, n, E, first, last, pivot, axis) ==
    /\ s = [list |-> s.list, left |-> s.left, right |-> s.right, met |-> s.met]
    /\ Arranges(s.list, n, E) /\ SameOutside(s.list, before, n, first, last)
    /\ s.met \in BOOLEAN
    /\ s.left \in Int
    /\ \A i \in 1 .. n : first <= i /\ i <= s.left => s.list[i].at[axis] <= pivot
    /\ ~s.met =>
           /\ s.right \in Int /\ first - 1 <= s.left /\ s.left < s.right /\ s.right <= last
           /\ s.right - s.left <= last - first + 1 - k
           /\ \A i \in 1 .. n : s.right <= i /\ i <= last => s.list[i].at[axis] >= pivot
           /\ s.list[last].at[axis] = pivot
    /\ s.met =>
           /\ first <= s.left /\ s.left <= last /\ s.list[s.left].at[axis] = pivot
           /\ \A i \in 1 .. n : s.left <= i /\ i <= last => s.list[i].at[axis] >= pivot

\* Where the scans from the left and from the right stop
LEMMA StopsAreRight ==
    ASSUME NEW s, NEW n \in Nat, NEW E, Placed(E), Arranges(s.list, n, E), NEW axis \in Axes,
           NEW pivot \in Int, s.left \in Int, s.right \in Int, 0 <= s.left, s.left < s.right,
           s.right <= n
    PROVE  LET left == LeftStop(s, pivot, axis)
               right == RightStop(s, left, pivot, axis)
           IN /\ left \in Int /\ s.left < left /\ left <= s.right
              /\ left = s.right \/ s.list[left].at[axis] >= pivot
              /\ \A i \in 1 .. n : s.left < i /\ i < left => s.list[i].at[axis] < pivot
              /\ right \in Int /\ left - 1 <= right /\ right < s.right
              /\ right <= left \/ s.list[right].at[axis] <= pivot
              /\ \A i \in 1 .. n : right < i /\ left < i /\ i < s.right
                                   => s.list[i].at[axis] > pivot
<1> DEFINE left == LeftStop(s, pivot, axis)
           right == RightStop(s, left, pivot, axis)
           L == {i \in s.left + 1 .. s.right : i = s.right \/ s.list[i].at[axis] >= pivot}
           R == {i \in left - 1 .. s.right - 1 : i <= left \/ s.list[i].at[axis] <= pivot}
<1>1. \A i \in 1 .. n : s.list[i].at[axis] \in Int
  BY DEF Placed, Arranges
<1>2. left = Min(L)
  BY DEF LeftStop
<1>3. L \in SUBSET Int /\ IsFiniteSet(L) /\ s.right \in L
  <2>1. IsFiniteSet(s.left + 1 .. s.right)
    <3>1. s.left + 1 \in Int
      OBVIOUS
    <3>2. QED
      BY <3>1, FS_Interval
  <2>2. L \subseteq s.left + 1 .. s.right
    OBVIOUS
  <2>3. IsFiniteSet(L)
    <3> HIDE DEF L
    <3>1. QED
      BY <2>1, <2>2, FS_Subset
  <2>4. s.right \in L
    OBVIOUS
  <2>5. QED
    BY <2>2, <2>3, <2>4
<1>4. left \in L /\ \A i \in L : left <= i
  <2> HIDE DEF L, left
  <2>1. QED
    BY <1>2, <1>3, MaxMin
<1>5. /\ left \in Int /\ s.left < left /\ left <= s.right
      /\ left = s.right \/ s.list[left].at[axis] >= pivot
  <2> HIDE DEF left
  <2>1. QED
    BY <1>4
<1>6. ASSUME NEW i \in 1 .. n, s.left < i, i < left PROVE s.list[i].at[axis] < pivot
  <2> HIDE DEF left
  <2>1. i \in s.left + 1 .. s.right /\ i \notin L
    BY <1>4, <1>5, <1>6
  <2>2. QED
    BY <1>1, <2>1
<1>7. right = Max(R)
  BY DEF RightStop
<1> HIDE DEF left
<1>8. R \in SUBSET Int /\ IsFiniteSet(R) /\ left - 1 \in R
  <2>1. IsFiniteSet(left - 1 .. s.right - 1)
    <3>1. left - 1 \in Int /\ s.right - 1 \in Int
      BY <1>5
    <3>2. QED
      BY <3>1, FS_Interval
  <2>2. R \subseteq left - 1 .. s.right - 1
    OBVIOUS
  <2>3. IsFiniteSet(R)
    <3> HIDE DEF R
    <3>1. QED
      BY <2>1, <2>2, FS_Subset
  <2>4. left - 1 \in R
    BY <1>5
  <2>5. QED
    BY <1>5, <2>2, <2>3, <2>4
<1>9. right \in R /\ \A i \in R : right >= i
  <2> HIDE DEF R, right
  <2>1. QED
    BY <1>7, <1>8, MaxMin
<1> HIDE DEF right
<1>10. /\ right \in Int /\ left - 1 <= right /\ right < s.right
       /\ right <= left \/ s.list[right].at[axis] <= pivot
  BY <1>5, <1>9
<1>11. ASSUME NEW i \in 1 .. n, right < i, left < i, i < s.right PROVE s.list[i].at[axis] > pivot
  <2>1. i \in left - 1 .. s.right - 1 /\ i \notin R
    BY <1>5, <1>9, <1>10, <1>11
  <2>2. QED
    BY <1>1, <2>1
<1>12. QED
  BY <1>5, <1>6, <1>10, <1>11 DEF left, right

\* The loop of partition, scan by scan
LEMMA ScansOneByOne ==
    ASSUME NEW list, NEW first \in Int, NEW last \in Int, first <= last, NEW pivotIndex, NEW axis
    PROVE  \E f : /\ f[0] = [list |-> Swapped(list, last, pivotIndex), left |-> first - 1,
                             right |-> last, met |-> FALSE]
                  /\ \A i \in 1 .. last - first + 1 : f[i] =
                         Scanned(f[i - 1], list[pivotIndex].at[axis], last, axis)
                  /\ Partition(list, first, last, pivotIndex, axis) = f[last - first + 1]
<1> DEFINE n == last - first + 1
           Value(f, i) == IF i = 0
                          THEN [list |-> Swapped(list, last, pivotIndex), left |-> first - 1,
                                right |-> last, met |-> FALSE]
                          ELSE Scanned(f[i - 1], list[pivotIndex].at[axis], last, axis)
           S == {m \in Nat : \E f : f = [i \in 0 .. m |-> Value(f, i)]}
           F == CHOOSE f : f = [i \in 0 .. n |-> Value(f, i)]
<1>1. 0 \in S
  <2> DEFINE f == [i \in 0 .. 0 |-> [list |-> Swapped(list, last, pivotIndex), left |-> first - 1,
                                     right |-> last, met |-> FALSE]]
  <2>1. f = [i \in 0 .. 0 |-> Value(f, i)]
    OBVIOUS
  <2>2. QED
    BY <2>1
<1>2. \A m \in Nat : m \in S => m + 1 \in S
  <2> SUFFICES ASSUME NEW m \in Nat, NEW f, f = [i \in 0 .. m |-> Value(f, i)]
               PROVE  m + 1 \in S
    OBVIOUS
  <2> DEFINE g == [i \in 0 .. m + 1 |-> Value(f, i)]
  <2>1. \A i \in 0 .. m + 1 : i = 0 \/ (i # 0 /\ i - 1 \in 0 .. m /\ i - 1 \in 0 .. m + 1)
    <3> HIDE DEF g, Value
    <3>1. QED
      OBVIOUS
  <2>2. \A i \in 0 .. m : g[i] = f[i]
    <3> SUFFICES ASSUME NEW i \in 0 .. m PROVE g[i] = f[i]
      OBVIOUS
    <3> HIDE DEF Value
    <3>1. i \in 0 .. m + 1
      OBVIOUS
    <3>2. QED
      BY <3>1
  <2>3. \A i \in 0 .. m + 1 : Value(g, i) = Value(f, i)
    <3> HIDE DEF g
    <3>1. QED
      BY <2>1, <2>2
  <2>4. g = [i \in 0 .. m + 1 |-> Value(g, i)]
    <3> HIDE DEF Value
    <3>1. QED
      BY <2>3
  <2>5. m + 1 \in Nat
    OBVIOUS
  <2> HIDE DEF g, Value
  <2>6. QED
    BY <2>4, <2>5
<1>3. n \in S
  <2> HIDE DEF S
  <2>1. n \in Nat
    OBVIOUS
  <2>2. QED
    BY <1>1, <1>2, <2>1, SetInduction
<1>4. F = [i \in 0 .. n |-> Value(F, i)]
  BY <1>3
<1>5. Partition(list, first, last, pivotIndex, axis) = F[n]
  BY DEF Partition
<1> HIDE DEF F
<1>6. \A i \in 0 .. n : F[i] = Value(F, i)
  BY <1>4
<1>7. n \in Nat /\ 0 \in 0 .. n /\ \A i \in 1 .. n : i \in 0 .. n /\ i # 0
  OBVIOUS
<1>8. n = last - first + 1
  OBVIOUS
<1> HIDE DEF n
<1>10. QED
  BY <1>5, <1>6, <1>7, <1>8

\* One scan of partition keeps the invariant.
LEMMA ScanStep ==
    ASSUME NEW n \in Nat, NEW E, Placed(E), NEW axis \in Axes, NEW before, NEW k \in Nat,
           NEW first \in 1 .. n, NEW last \in 1 .. n, first <= last, NEW pivot \in Int,
           NEW s, ScanInv(s, k, before, n, E, first, last, pivot, axis)
    PROVE  ScanInv(Scanned(s, pivot, last, axis), k + 1, before, n, E, first, last, pivot, axis)
<1> DEFINE left == LeftStop(s, pivot, axis)
           right == RightStop(s, left, pivot, axis)
           t == Scanned(s, pivot, last, axis)
<1>1. CASE s.met
  <2>1. t = s
    BY <1>1 DEF Scanned
  <2>2. ScanInv(s, k + 1, before, n, E, first, last, pivot, axis)
    BY <1>1 DEF ScanInv
  <2>3. QED
    BY <2>1, <2>2
<1>2. CASE ~s.met
  <2>1. /\ s = [list |-> s.list, left |-> s.left, right |-> s.right, met |-> s.met]
        /\ Arranges(s.list, n, E) /\ SameOutside(s.list, before, n, first, last)
        /\ s.met = FALSE
    BY <1>2 DEF ScanInv
  <2>2. /\ s.left \in Int /\ s.right \in Int
        /\ first - 1 <= s.left /\ s.left < s.right /\ s.right <= last
        /\ s.right - s.left <= last - first + 1 - k
    BY <1>2 DEF ScanInv
  <2>3. /\ \A i \in 1 .. n : first <= i /\ i <= s.left => s.list[i].at[axis] <= pivot
        /\ \A i \in 1 .. n : s.right <= i /\ i <= last => s.list[i].at[axis] >= pivot
        /\ s.list[last].at[axis] = pivot
    BY <1>2 DEF ScanInv
  <2>4. /\ first \in Nat /\ last \in Nat /\ 1 <= first /\ last <= n
        /\ 0 <= s.left /\ s.right <= n
    BY <2>2
  <2>5. /\ left \in Int /\ s.left < left /\ left <= s.right
        /\ left = s.right \/ s.list[left].at[axis] >= pivot
        /\ \A i \in 1 .. n : s.left < i /\ i < left => s.list[i].at[axis] < pivot
        /\ right \in Int /\ left - 1 <= right /\ right < s.right
        /\ right <= left \/ s.list[right].at[axis] <= pivot
        /\ \A i \in 1 .. n : right < i /\ left < i /\ i < s.right => s.list[i].at[axis] > pivot
    BY <2>1, <2>2, <2>4, StopsAreRight
  <2>6. t = Exchanged(s, left, right, last)
    BY <2>1 DEF Scanned
  <2>7. \A i \in 1 .. n : s.list[i].at[axis] \in Int
    BY <2>1 DEF Placed, Arranges
  <2> HIDE DEF left, right, t
  <2>8. /\ left \in 1 .. n /\ first <= left /\ left <= last
        /\ s.list[left].at[axis] >= pivot
    <3>1. left \in 1 .. n /\ first <= left /\ left <= last
      BY <2>2, <2>4, <2>5
    <3>2. QED
      BY <2>2, <2>3, <2>5, <3>1
  <2>9. \A i \in 1 .. n : first <= i /\ i < left => s.list[i].at[axis] <= pivot
    <3> SUFFICES ASSUME NEW i \in 1 .. n, first <= i, i < left PROVE s.list[i].at[axis] <= pivot
      OBVIOUS
    <3>1. i <= s.left \/ s.left < i
      BY <2>2
    <3>2. QED
      BY <2>3, <2>5, <2>7, <3>1
  <2>10. \A i \in 1 .. n : (right < i \/ s.right <= i) /\ left < i /\ i <= last =>
             s.list[i].at[axis] >= pivot
    <3> SUFFICES ASSUME NEW i \in 1 .. n, right < i \/ s.right <= i, left < i, i <= last
                 PROVE  s.list[i].at[axis] >= pivot
      OBVIOUS
    <3>1. s.right <= i \/ (right < i /\ i < s.right)
      BY <2>2, <2>5
    <3>2. QED
      BY <2>3, <2>5, <2>7, <3>1
  <2>11. CASE left < right
    <3> DEFINE swapped == Swapped(s.list, left, right)
    <3>1. t = [list |-> swapped, left |-> left, right |-> right, met |-> FALSE]
      BY <2>1, <2>6, <2>11 DEF Exchanged
    <3>2. right \in 1 .. n /\ first <= right /\ right < last
      BY <2>2, <2>4, <2>5, <2>8, <2>11
    <3>3. /\ Arranges(swapped, n, E)
          /\ swapped[left] = s.list[right] /\ swapped[right] = s.list[left]
          /\ \A i \in 1 .. n : i # left /\ i # right => swapped[i] = s.list[i]
      <4>1. Arranges(s.list, n, E)
        BY <2>1
      <4>2. left \in 1 .. n
        BY <2>8
      <4>3. right \in 1 .. n
        BY <3>2
      <4>4. Arranges(swapped, n, E) /\ ChangePlaces(swapped, s.list, n, left, right)
        BY <4>1, <4>2, <4>3, SwapArranges
      <4>5. QED
        BY <4>4 DEF ChangePlaces
    <3> HIDE DEF swapped
    <3>4. SameOutside(swapped, before, n, first, last)
      <4> SUFFICES ASSUME NEW i \in 1 .. n, i < first \/ i > last PROVE swapped[i] = before[i]
        BY DEF SameOutside
      <4>1. i # left /\ i # right
        BY <2>4, <2>8, <3>2
      <4>2. QED
        BY <2>1, <3>3, <4>1 DEF SameOutside
    <3>5. \A i \in 1 .. n : first <= i /\ i <= left => swapped[i].at[axis] <= pivot
      <4> SUFFICES ASSUME NEW i \in 1 .. n, first <= i, i <= left PROVE swapped[i].at[axis] <= pivot
        OBVIOUS
      <4>1. CASE i = left
        <5>1. s.list[right].at[axis] <= pivot
          BY <2>5, <2>11
        <5>2. QED
          BY <3>3, <4>1, <5>1
      <4>2. CASE i # left
        <5>1. i < left /\ i # right
          BY <2>5, <2>11, <4>2
        <5>2. QED
          BY <2>9, <3>3, <4>2, <5>1
      <4>3. QED
        BY <4>1, <4>2
    <3>6. \A i \in 1 .. n : right <= i /\ i <= last => swapped[i].at[axis] >= pivot
      <4> SUFFICES ASSUME NEW i \in 1 .. n, right <= i, i <= last PROVE swapped[i].at[axis] >= pivot
        OBVIOUS
      <4>1. CASE i = right
        BY <2>8, <3>3, <4>1
      <4>2. CASE i # right
        <5>1. right < i /\ i # left /\ left < i
          BY <2>5, <2>11, <4>2
        <5>2. QED
          BY <2>10, <3>3, <4>2, <5>1
      <4>3. QED
        BY <4>1, <4>2
    <3>7. swapped[last].at[axis] = pivot
      <4>1. last # left /\ last # right /\ last \in 1 .. n
        BY <2>5, <2>11, <3>2
      <4>2. QED
        BY <2>3, <3>3, <4>1
    <3>8. /\ first - 1 <= left /\ left < right /\ right <= last
          /\ right - left <= last - first + 1 - (k + 1)
      BY <2>2, <2>4, <2>5, <2>8, <2>11, <3>2
    <3>9. /\ t = [list |-> t.list, left |-> t.left, right |-> t.right, met |-> t.met]
          /\ t.list = swapped /\ t.left = left /\ t.right = right /\ t.met = FALSE
      BY <3>1
    <3>10. ScanInv(t, k + 1, before, n, E, first, last, pivot, axis)
      BY <2>5, <3>3, <3>4, <3>5, <3>6, <3>7, <3>8, <3>9 DEF ScanInv
    <3>11. QED
      BY <3>10 DEF t
  <2>12. CASE ~(left < right)
    <3> DEFINE swapped == Swapped(s.list, left, last)
    <3>1. t = [list |-> swapped, left |-> left, right |-> s.right, met |-> TRUE]
      BY <2>1, <2>6, <2>12 DEF Exchanged
    <3>2. /\ Arranges(swapped, n, E)
          /\ swapped[left] = s.list[last] /\ swapped[last] = s.list[left]
          /\ \A i \in 1 .. n : i # left /\ i # last => swapped[i] = s.list[i]
      <4>1. Arranges(s.list, n, E)
        BY <2>1
      <4>2. left \in 1 .. n
        BY <2>8
      <4>3. Arranges(swapped, n, E) /\ ChangePlaces(swapped, s.list, n, left, last)
        BY <4>1, <4>2, SwapArranges
      <4>4. QED
        BY <4>3 DEF ChangePlaces
    <3> HIDE DEF swapped
    <3>3. SameOutside(swapped, before, n, first, last)
      <4> SUFFICES ASSUME NEW i \in 1 .. n, i < first \/ i > last PROVE swapped[i] = before[i]
        BY DEF SameOutside
      <4>1. i # left /\ i # last
        BY <2>4, <2>8
      <4>2. QED
        BY <2>1, <3>2, <4>1 DEF SameOutside
    <3>4. swapped[left].at[axis] = pivot
      BY <2>3, <3>2
    <3>5. \A i \in 1 .. n : first <= i /\ i <= left => swapped[i].at[axis] <= pivot
      <4> SUFFICES ASSUME NEW i \in 1 .. n, first <= i, i <= left PROVE swapped[i].at[axis] <= pivot
        OBVIOUS
      <4>1. CASE i = left
        BY <3>4, <4>1
      <4>2. CASE i # left
        <5>1. i < left /\ i # last
          BY <2>5, <2>8, <4>2
        <5>2. QED
          BY <2>9, <3>2, <4>2, <5>1
      <4>3. QED
        BY <4>1, <4>2
    <3>6. \A i \in 1 .. n : left <= i /\ i <= last => swapped[i].at[axis] >= pivot
      <4> SUFFICES ASSUME NEW i \in 1 .. n, left <= i, i <= last PROVE swapped[i].at[axis] >= pivot
        OBVIOUS
      <4>1. CASE i = left
        BY <3>4, <4>1
      <4>2. CASE i # left /\ i = last
        BY <2>8, <3>2, <4>2
      <4>3. CASE i # left /\ i # last
        <5>1. left < i /\ right < i
          BY <2>5, <2>12, <4>3
        <5>2. QED
          BY <2>10, <3>2, <4>3, <5>1
      <4>4. QED
        BY <4>1, <4>2, <4>3
    <3>7. /\ t = [list |-> t.list, left |-> t.left, right |-> t.right, met |-> t.met]
          /\ t.list = swapped /\ t.left = left /\ t.met = TRUE
      BY <3>1
    <3>8. ScanInv(t, k + 1, before, n, E, first, last, pivot, axis)
      BY <2>5, <2>8, <3>2, <3>3, <3>4, <3>5, <3>6, <3>7 DEF ScanInv
    <3>9. QED
      BY <3>8 DEF t
  <2>13. QED
    BY <2>11, <2>12
<1>3. QED
  BY <1>1, <1>2 DEF ScanInv

\* partition: the photons of a range before and after its pivot
LEMMA PartitionSplits ==
    ASSUME NEW n \in Nat, NEW E, Placed(E), NEW axis \in Axes, NEW list, Arranges(list, n, E),
           NEW first \in 1 .. n, NEW last \in 1 .. n, NEW pivotIndex \in 1 .. n,
           first <= pivotIndex, pivotIndex <= last
    PROVE  LET split == Partition(list, first, last, pivotIndex, axis)
           IN /\ Arranges(split.list, n, E) /\ SameOutside(split.list, list, n, first, last)
              /\ split.left \in 1 .. n /\ first <= split.left /\ split.left <= last
              /\ \A i \in 1 .. n : first <= i /\ i <= split.left =>
                     split.list[i].at[axis] <= split.list[split.left].at[axis]
              /\ \A i \in 1 .. n : split.left <= i /\ i <= last =>
                     split.list[i].at[axis] >= split.list[split.left].at[axis]
<1> DEFINE split == Partition(list, first, last, pivotIndex, axis)
           pivot == list[pivotIndex].at[axis]
           m == last - first + 1
           start == [list |-> Swapped(list, last, pivotIndex), left |-> first - 1,
                     right |-> last, met |-> FALSE]
<1>1. first \in Int /\ last \in Int /\ first <= last /\ m \in Nat
  OBVIOUS
<1>2. PICK f : /\ f[0] = start
               /\ \A i \in 1 .. m : f[i] = Scanned(f[i - 1], pivot, last, axis)
               /\ split = f[m]
  <2>1. \E f : /\ f[0] = start
               /\ \A i \in 1 .. m : f[i] = Scanned(f[i - 1], pivot, last, axis)
               /\ split = f[m]
    <3>1. first \in Int
      BY <1>1
    <3>2. last \in Int
      BY <1>1
    <3>3. first <= last
      BY <1>1
    <3>4. QED
      BY <3>1, <3>2, <3>3, ScansOneByOne
  <2> HIDE DEF start, m, pivot, split
  <2>2. QED
    BY <2>1
<1>3. pivot \in Int
  BY DEF Placed, Arranges
<1> HIDE DEF split
<1>4. ScanInv(start, 0, list, n, E, first, last, pivot, axis)
  <2> DEFINE swapped == Swapped(list, last, pivotIndex)
  <2>1. /\ Arranges(swapped, n, E)
        /\ swapped[last] = list[pivotIndex] /\ swapped[pivotIndex] = list[last]
        /\ \A k \in 1 .. n : k # last /\ k # pivotIndex => swapped[k] = list[k]
    <3>1. Arranges(swapped, n, E) /\ ChangePlaces(swapped, list, n, last, pivotIndex)
      BY SwapArranges
    <3>2. QED
      BY <3>1 DEF ChangePlaces
  <2> HIDE DEF swapped
  <2>2. start = [list |-> swapped, left |-> first - 1, right |-> last, met |-> FALSE]
    BY DEF swapped
  <2>3. SameOutside(swapped, list, n, first, last)
    <3> SUFFICES ASSUME NEW i \in 1 .. n, i < first \/ i > last PROVE swapped[i] = list[i]
      BY DEF SameOutside
    <3>1. i # last /\ i # pivotIndex
      OBVIOUS
    <3>2. QED
      BY <2>1, <3>1
  <2> HIDE DEF start
  <2>4. /\ start.list = swapped /\ start.left = first - 1 /\ start.right = last
        /\ start.met = FALSE
        /\ start = [list |-> start.list, left |-> start.left,
                    right |-> start.right, met |-> start.met]
    BY <2>2
  <2>5. swapped[last].at[axis] = pivot
    BY <2>1
  <2> HIDE DEF pivot
  <2>6. /\ \A i \in 1 .. n : ~(first <= i /\ i <= first - 1)
        /\ \A i \in 1 .. n : last <= i /\ i <= last => i = last
        /\ first - 1 \in Int /\ first - 1 <= first - 1 /\ first - 1 < last /\ last <= last
        /\ last - (first - 1) <= last - first + 1 - 0
    BY <1>1
  <2>7. \A i \in 1 .. n : last <= i /\ i <= last => swapped[i].at[axis] >= pivot
    BY <1>3, <2>5, <2>6
  <2>8. QED
    BY <1>1, <2>1, <2>3, <2>4, <2>5, <2>6, <2>7, Zenon DEF ScanInv
<1> HIDE DEF start, m, pivot
<1> DEFINE S == {k \in Nat : k <= m => ScanInv(f[k], k, list, n, E, first, last, pivot, axis)}
<1>5. 0 \in S
  BY <1>2, <1>4
<1>6. ASSUME NEW k \in Nat, k \in S PROVE k + 1 \in S
  <2> SUFFICES ASSUME k + 1 <= m
               PROVE  ScanInv(f[k + 1], k + 1, list, n, E, first, last, pivot, axis)
    OBVIOUS
  <2>1. k <= m /\ k + 1 \in 1 .. m /\ k + 1 - 1 = k
    BY <1>1
  <2>2. ScanInv(f[k], k, list, n, E, first, last, pivot, axis)
    BY <1>6, <2>1
  <2>3. f[k + 1] = Scanned(f[k], pivot, last, axis)
    BY <1>2, <2>1
  <2>4. QED
    BY <1>1, <1>3, <2>2, <2>3, ScanStep
<1>7. m \in S
  <2> HIDE DEF S
  <2>1. QED
    BY <1>1, <1>5, <1>6, SetInduction
<1>8. ScanInv(split, m, list, n, E, first, last, pivot, axis)
  BY <1>1, <1>2, <1>7
<1>9. split.met
  <2>1. last - first + 1 - m = 0
    BY <1>1 DEF m
  <2>2. ASSUME ~split.met PROVE FALSE
    <3>1. split.left \in Int /\ split.right \in Int /\ split.left < split.right
          /\ split.right - split.left <= last - first + 1 - m
      BY <1>8, <2>2 DEF ScanInv
    <3>2. QED
      BY <2>1, <3>1
  <2>3. QED
    BY <2>2
<1>10. QED
  BY <1>1, <1>8, <1>9 DEF ScanInv, split


\* The loop of select, range by range
LEMMA RangesOneByOne ==
    ASSUME NEW list, Len(list) \in Nat, NEW k, NEW axis
    PROVE  \E f : /\ f[0] = [list |-> list, first |-> 1, last |-> Len(list), found |-> FALSE]
                  /\ \A i \in 1 .. Len(list) : f[i] = NextRange(f[i - 1], k, axis)
                  /\ Select(list, k, axis) = f[Len(list)].list
<1> DEFINE n == Len(list)
           Value(f, i) == IF i = 0
                          THEN [list |-> list, first |-> 1, last |-> Len(list), found |-> FALSE]
                          ELSE NextRange(f[i - 1], k, axis)
           S == {m \in Nat : \E f : f = [i \in 0 .. m |-> Value(f, i)]}
           F == CHOOSE f : f = [i \in 0 .. n |-> Value(f, i)]
<1>1. 0 \in S
  <2> DEFINE f == [i \in 0 .. 0 |-> [list |-> list, first |-> 1,
                                     last |-> Len(list), found |-> FALSE]]
  <2>1. f = [i \in 0 .. 0 |-> Value(f, i)]
    OBVIOUS
  <2>2. QED
    BY <2>1
<1>2. \A m \in Nat : m \in S => m + 1 \in S
  <2> SUFFICES ASSUME NEW m \in Nat, NEW f, f = [i \in 0 .. m |-> Value(f, i)]
               PROVE  m + 1 \in S
    OBVIOUS
  <2> DEFINE g == [i \in 0 .. m + 1 |-> Value(f, i)]
  <2>1. \A i \in 0 .. m + 1 : i = 0 \/ (i # 0 /\ i - 1 \in 0 .. m /\ i - 1 \in 0 .. m + 1)
    <3> HIDE DEF g, Value
    <3>1. QED
      OBVIOUS
  <2>2. \A i \in 0 .. m : g[i] = f[i]
    <3> SUFFICES ASSUME NEW i \in 0 .. m PROVE g[i] = f[i]
      OBVIOUS
    <3> HIDE DEF Value
    <3>1. i \in 0 .. m + 1
      OBVIOUS
    <3>2. QED
      BY <3>1
  <2>3. \A i \in 0 .. m + 1 : Value(g, i) = Value(f, i)
    <3> HIDE DEF g
    <3>1. QED
      BY <2>1, <2>2
  <2>4. g = [i \in 0 .. m + 1 |-> Value(g, i)]
    <3> HIDE DEF Value
    <3>1. QED
      BY <2>3
  <2>5. m + 1 \in Nat
    OBVIOUS
  <2> HIDE DEF g, Value
  <2>6. QED
    BY <2>4, <2>5
<1>3. n \in S
  <2> HIDE DEF S
  <2>1. n \in Nat
    OBVIOUS
  <2>2. QED
    BY <1>1, <1>2, <2>1, SetInduction
<1>4. F = [i \in 0 .. n |-> Value(F, i)]
  BY <1>3
<1>5. Select(list, k, axis) = F[n].list
  BY DEF Select
<1> HIDE DEF F
<1>6. \A i \in 0 .. n : F[i] = Value(F, i)
  BY <1>4
<1>7. n \in Nat /\ 0 \in 0 .. n /\ \A i \in 1 .. n : i \in 0 .. n /\ i # 0
  OBVIOUS
<1>8. n = Len(list)
  OBVIOUS
<1> HIDE DEF n
<1>10. QED
  BY <1>5, <1>6, <1>7, <1>8

\* Nothing before place c lies beyond anything from there on.
Apart(list, n, axis, c) ==
    \A a, b \in 1 .. n : a < c /\ c <= b => list[a].at[axis] <= list[b].at[axis]

\* A range that was partitioned is still apart from what is before and after it.
LEMMA StaysApart ==
    ASSUME NEW n \in Nat, NEW E, Placed(E), NEW axis \in Axes, NEW list, Arranges(list, n, E),
           NEW after, Arranges(after, n, E), NEW first \in 1 .. n, NEW last \in 1 .. n,
           SameOutside(after, list, n, first, last),
           Apart(list, n, axis, first), Apart(list, n, axis, last + 1),
           NEW left \in 1 .. n, first <= left, left <= last,
           \A i \in 1 .. n : first <= i /\ i <= left => after[i].at[axis] <= after[left].at[axis],
           \A i \in 1 .. n : left <= i /\ i <= last => after[i].at[axis] >= after[left].at[axis],
           NEW c \in {first, last + 1, left, left + 1}
    PROVE  Apart(after, n, axis, c)
<1> SUFFICES ASSUME NEW a \in 1 .. n, NEW b \in 1 .. n, a < c, c <= b
             PROVE  after[a].at[axis] <= after[b].at[axis]
  BY DEF Apart
<1>1. c \in Int /\ first <= c /\ c <= last + 1 /\ first \in Int /\ last \in Int
  OBVIOUS
<1>2. b >= first /\ a <= last
  BY <1>1
<1>3. b <= last => \E j \in 1 .. n : first <= j /\ j <= last /\ after[b] = list[j]
  BY <1>1, <1>2, InsideStays
<1>4. a >= first => \E j \in 1 .. n : first <= j /\ j <= last /\ after[a] = list[j]
  BY <1>1, <1>2, InsideStays
<1>5. /\ a < first => after[a] = list[a]
      /\ b > last => after[b] = list[b]
  BY DEF SameOutside
<1>6. CASE a < first /\ b <= last
  <2>1. PICK j \in 1 .. n : first <= j /\ j <= last /\ after[b] = list[j]
    BY <1>3, <1>6
  <2>2. list[a].at[axis] <= list[j].at[axis]
    BY <1>6, <2>1 DEF Apart
  <2>3. QED
    BY <1>5, <1>6, <2>1, <2>2
<1>7. CASE a < first /\ b > last
  <2>1. list[a].at[axis] <= list[b].at[axis]
    BY <1>2, <1>7 DEF Apart
  <2>2. QED
    BY <1>5, <1>7, <2>1
<1>8. CASE a >= first /\ b > last
  <2>1. PICK j \in 1 .. n : first <= j /\ j <= last /\ after[a] = list[j]
    BY <1>4, <1>8
  <2>2. j < last + 1 /\ last + 1 <= b
    BY <1>8, <2>1
  <2>3. list[j].at[axis] <= list[b].at[axis]
    BY <2>2 DEF Apart
  <2>4. QED
    BY <1>5, <1>8, <2>1, <2>3
<1>9. CASE a >= first /\ b <= last
  <2>1. a <= left /\ left <= b
    BY <1>9
  <2>2. after[a].at[axis] <= after[left].at[axis] /\ after[b].at[axis] >= after[left].at[axis]
    BY <1>9, <2>1
  <2>3. \A i \in 1 .. n : after[i].at[axis] \in Int
    BY DEF Placed, Arranges
  <2> DEFINE x == after[a].at[axis]
             y == after[b].at[axis]
             z == after[left].at[axis]
  <2>4. x \in Int /\ y \in Int /\ z \in Int
    BY <2>3
  <2>5. x <= z /\ y >= z
    BY <2>2
  <2> HIDE DEF x, y, z
  <2>6. x <= y
    BY <2>4, <2>5
  <2>7. QED
    BY <2>6 DEF x, y
<1>10. a < first \/ a >= first
  OBVIOUS
<1>11. b <= last \/ b > last
  OBVIOUS
<1>12. QED
  BY <1>6, <1>7, <1>8, <1>9, <1>10, <1>11

\* What select has done after i ranges
SelectInv(s, i, n, E, k, axis) ==
    /\ Arranges(s.list, n, E)
    /\ s.found \in BOOLEAN
    /\ ~s.found =>
           /\ s.first \in 1 .. n /\ s.last \in 1 .. n /\ s.first <= k /\ k <= s.last
           /\ s.last - s.first + 1 <= n - i
           /\ Apart(s.list, n, axis, s.first) /\ Apart(s.list, n, axis, s.last + 1)
    /\ s.found => Apart(s.list, n, axis, k) /\ Apart(s.list, n, axis, k + 1)

\* One turn of the loop in select keeps the invariant.
LEMMA RangeStep ==
    ASSUME NEW n \in Nat, NEW E, Placed(E), NEW axis \in Axes, NEW i \in Nat, NEW k \in 1 .. n,
           NEW s, SelectInv(s, i, n, E, k, axis)
    PROVE  SelectInv(NextRange(s, k, axis), i + 1, n, E, k, axis)
<1>1. CASE s.found
  <2>1. NextRange(s, k, axis) = s
    BY <1>1 DEF NextRange
  <2>2. SelectInv(s, i + 1, n, E, k, axis)
    BY <1>1 DEF SelectInv
  <2>3. QED
    BY <2>1, <2>2
<1>2. CASE ~s.found
  <2> DEFINE first == s.first
             last == s.last
             p == (first + last) \div 2
             split == Partition(s.list, first, last, p, axis)
             left == split.left
             t == NextRange(s, k, axis)
  <2>1. /\ Arranges(s.list, n, E)
        /\ first \in 1 .. n /\ last \in 1 .. n /\ first <= k /\ k <= last
        /\ last - first + 1 <= n - i
        /\ Apart(s.list, n, axis, first) /\ Apart(s.list, n, axis, last + 1)
    BY <1>2 DEF SelectInv
  <2>2. t = Narrowed(s, k, split)
    BY <1>2 DEF NextRange
  <2> HIDE DEF first, last, t
  <2>3. p \in 1 .. n /\ first <= p /\ p <= last
    BY <2>1
  <2> HIDE DEF p
  <2>4. /\ Arranges(split.list, n, E) /\ SameOutside(split.list, s.list, n, first, last)
        /\ left \in 1 .. n /\ first <= left /\ left <= last
        /\ \A j \in 1 .. n : first <= j /\ j <= left =>
               split.list[j].at[axis] <= split.list[left].at[axis]
        /\ \A j \in 1 .. n : left <= j /\ j <= last =>
               split.list[j].at[axis] >= split.list[left].at[axis]
    BY <2>1, <2>3, PartitionSplits
  <2> HIDE DEF split
  <2>5. \A c \in {first, last + 1, left, left + 1} : Apart(split.list, n, axis, c)
    <3> DEFINE after == split.list
               list == s.list
    <3>1. Arranges(list, n, E)
      BY <2>1
    <3>2. Arranges(after, n, E) /\ SameOutside(after, list, n, first, last)
      BY <2>4
    <3>3. first \in 1 .. n /\ last \in 1 .. n
      BY <2>1
    <3>4. Apart(list, n, axis, first) /\ Apart(list, n, axis, last + 1)
      BY <2>1
    <3>5. left \in 1 .. n /\ first <= left /\ left <= last
      BY <2>4
    <3>6. /\ \A j \in 1 .. n : first <= j /\ j <= left => after[j].at[axis] <= after[left].at[axis]
          /\ \A j \in 1 .. n : left <= j /\ j <= last => after[j].at[axis] >= after[left].at[axis]
      BY <2>4
    <3> HIDE DEF after, list, left
    <3>7. \A c \in {first, last + 1, left, left + 1} : Apart(after, n, axis, c)
      BY <3>1, <3>2, <3>3, <3>4, <3>5, <3>6, StaysApart
    <3>8. QED
      BY <3>7 DEF after
  <2>6. /\ t.list = split.list
        /\ t.first = IF k > left THEN left + 1 ELSE first
        /\ t.last = IF k < left THEN left - 1 ELSE last
        /\ t.found = (k = left)
    BY <2>2 DEF Narrowed, first, last
  <2> HIDE DEF left
  <2>7. CASE k = left
    <3>1. Apart(t.list, n, axis, k) /\ Apart(t.list, n, axis, k + 1)
      BY <2>5, <2>6, <2>7
    <3>2. QED
      BY <2>4, <2>6, <2>7, <3>1 DEF SelectInv, t
  <2>8. CASE k > left
    <3>1. t.first = left + 1 /\ t.last = last /\ t.found = FALSE
      <4>1. k > left /\ ~(k < left) /\ k # left
        BY <2>4, <2>8
      <4>2. QED
        BY <2>6, <4>1
    <3>2. /\ left + 1 \in 1 .. n /\ left + 1 <= k
          /\ last - (left + 1) + 1 <= n - (i + 1)
      BY <2>1, <2>4, <2>8
    <3>3. Apart(t.list, n, axis, left + 1) /\ Apart(t.list, n, axis, last + 1)
      BY <2>5, <2>6
    <3>4. QED
      BY <2>1, <2>4, <2>6, <3>1, <3>2, <3>3 DEF SelectInv, t
  <2>9. CASE k < left
    <3>1. t.first = first /\ t.last = left - 1 /\ t.found = FALSE
      <4>1. k < left /\ ~(k > left) /\ k # left
        BY <2>4, <2>9
      <4>2. QED
        BY <2>6, <4>1
    <3>2. /\ left - 1 \in 1 .. n /\ k <= left - 1 /\ left - 1 + 1 = left
          /\ left - 1 - first + 1 <= n - (i + 1)
      BY <2>1, <2>4, <2>9
    <3>3. Apart(t.list, n, axis, first) /\ Apart(t.list, n, axis, left)
      BY <2>5, <2>6
    <3>4. QED
      BY <2>1, <2>4, <2>6, <3>1, <3>2, <3>3 DEF SelectInv, t
  <2>10. QED
    BY <2>4, <2>7, <2>8, <2>9
<1>3. QED
  BY <1>1, <1>2

\* select: the median, between what is not beyond it and what is not before it
THEOREM SelectFindsMedian ==
    ASSUME NEW list, NEW n \in Nat, Len(list) = n, NEW E, Placed(E), Arranges(list, n, E),
           NEW axis \in Axes, NEW k \in 1 .. n
    PROVE  LET selected == Select(list, k, axis)
           IN /\ Arranges(selected, n, E)
              /\ Apart(selected, n, axis, k) /\ Apart(selected, n, axis, k + 1)
<1> DEFINE selected == Select(list, k, axis)
           start == [list |-> list, first |-> 1, last |-> n, found |-> FALSE]
<1>1. PICK f : /\ f[0] = start
               /\ \A i \in 1 .. n : f[i] = NextRange(f[i - 1], k, axis)
               /\ selected = f[n].list
  <2>1. Len(list) \in Nat
    OBVIOUS
  <2>2. \E f : /\ f[0] = [list |-> list, first |-> 1, last |-> Len(list), found |-> FALSE]
               /\ \A i \in 1 .. Len(list) : f[i] = NextRange(f[i - 1], k, axis)
               /\ selected = f[Len(list)].list
    BY <2>1, RangesOneByOne, Z3
  <2> HIDE DEF selected
  <2>3. \E f : /\ f[0] = start
               /\ \A i \in 1 .. n : f[i] = NextRange(f[i - 1], k, axis)
               /\ selected = f[n].list
    BY <2>2
  <2>4. QED
    BY <2>3
<1> HIDE DEF selected
<1>2. SelectInv(start, 0, n, E, k, axis)
  <2>1. /\ Apart(list, n, axis, 1) /\ Apart(list, n, axis, n + 1)
    BY DEF Apart
  <2>2. /\ start.list = list /\ start.first = 1 /\ start.last = n /\ start.found = FALSE
    OBVIOUS
  <2> HIDE DEF start
  <2>3. 1 \in 1 .. n /\ n \in 1 .. n /\ 1 <= k /\ k <= n /\ n - 1 + 1 <= n - 0
    OBVIOUS
  <2>4. QED
    BY <2>1, <2>2, <2>3 DEF SelectInv
<1> HIDE DEF start
<1> DEFINE S == {i \in Nat : i <= n => SelectInv(f[i], i, n, E, k, axis)}
<1>3. 0 \in S
  BY <1>1, <1>2
<1>4. ASSUME NEW i \in Nat, i \in S PROVE i + 1 \in S
  <2> SUFFICES ASSUME i + 1 <= n PROVE SelectInv(f[i + 1], i + 1, n, E, k, axis)
    OBVIOUS
  <2>1. i <= n /\ i + 1 \in 1 .. n /\ i + 1 - 1 = i
    OBVIOUS
  <2>2. SelectInv(f[i], i, n, E, k, axis)
    BY <1>4, <2>1
  <2>3. f[i + 1] = NextRange(f[i], k, axis)
    BY <1>1, <2>1
  <2>4. QED
    BY <2>2, <2>3, RangeStep
<1>5. SelectInv(f[n], n, n, E, k, axis)
  <2> HIDE DEF S
  <2>1. n \in S
    BY <1>3, <1>4, SetInduction
  <2>2. QED
    BY <2>1 DEF S
<1>6. f[n].found
  <2> SUFFICES ASSUME ~f[n].found PROVE FALSE
    OBVIOUS
  <2>1. /\ f[n].first \in 1 .. n /\ f[n].last \in 1 .. n /\ f[n].first <= k /\ k <= f[n].last
        /\ f[n].last - f[n].first + 1 <= n - n
    BY <1>5 DEF SelectInv
  <2>2. QED
    BY <2>1
<1>7. QED
  BY <1>1, <1>5, <1>6 DEF SelectInv, selected


\* The loop of createPhotonKdTreeOnCPU over the photons
LEMMA LooksOneByOne ==
    ASSUME NEW photons, Cardinality(DOMAIN photons) \in Nat
    PROVE  \E f : /\ f[0] = [i |-> 1,
                             list |-> [j \in 1 .. Cardinality(DOMAIN photons) |-> photons[j - 1]]]
                  /\ \A i \in 1 .. Cardinality(DOMAIN photons) : f[i] = Looked(f[i - 1])
                  /\ ValidPhotons(photons) = f[Cardinality(DOMAIN photons)].list
<1> DEFINE n == Cardinality(DOMAIN photons)
           Value(f, i) == IF i = 0
                          THEN [i |-> 1,
                                list |-> [j \in 1 .. Cardinality(DOMAIN photons) |-> photons[j - 1]]]
                          ELSE Looked(f[i - 1])
           S == {m \in Nat : \E f : f = [i \in 0 .. m |-> Value(f, i)]}
           F == CHOOSE f : f = [i \in 0 .. n |-> Value(f, i)]
<1>1. 0 \in S
  <2> DEFINE f == [i \in 0 .. 0 |-> [i |-> 1,
                                     list |-> [j \in 1 .. Cardinality(DOMAIN photons) |-> photons[j - 1]]]]
  <2>1. f = [i \in 0 .. 0 |-> Value(f, i)]
    OBVIOUS
  <2>2. QED
    BY <2>1
<1>2. \A m \in Nat : m \in S => m + 1 \in S
  <2> SUFFICES ASSUME NEW m \in Nat, NEW f, f = [i \in 0 .. m |-> Value(f, i)]
               PROVE  m + 1 \in S
    OBVIOUS
  <2> DEFINE g == [i \in 0 .. m + 1 |-> Value(f, i)]
  <2>1. \A i \in 0 .. m + 1 : i = 0 \/ (i # 0 /\ i - 1 \in 0 .. m /\ i - 1 \in 0 .. m + 1)
    <3> HIDE DEF g, Value
    <3>1. QED
      OBVIOUS
  <2>2. \A i \in 0 .. m : g[i] = f[i]
    <3> SUFFICES ASSUME NEW i \in 0 .. m PROVE g[i] = f[i]
      OBVIOUS
    <3> HIDE DEF Value
    <3>1. i \in 0 .. m + 1
      OBVIOUS
    <3>2. QED
      BY <3>1
  <2>3. \A i \in 0 .. m + 1 : Value(g, i) = Value(f, i)
    <3> HIDE DEF g
    <3>1. QED
      BY <2>1, <2>2
  <2>4. g = [i \in 0 .. m + 1 |-> Value(g, i)]
    <3> HIDE DEF Value
    <3>1. QED
      BY <2>3
  <2>5. m + 1 \in Nat
    OBVIOUS
  <2> HIDE DEF g, Value
  <2>6. QED
    BY <2>4, <2>5
<1>3. n \in S
  <2> HIDE DEF S
  <2>1. n \in Nat
    OBVIOUS
  <2>2. QED
    BY <1>1, <1>2, <2>1, SetInduction
<1>4. F = [i \in 0 .. n |-> Value(F, i)]
  BY <1>3
<1>5. ValidPhotons(photons) = F[n].list
  BY DEF ValidPhotons
<1> HIDE DEF F
<1>6. \A i \in 0 .. n : F[i] = Value(F, i)
  BY <1>4
<1>7. n \in Nat /\ 0 \in 0 .. n /\ \A i \in 1 .. n : i \in 0 .. n /\ i # 0
  OBVIOUS
<1>8. n = Cardinality(DOMAIN photons)
  OBVIOUS
<1> HIDE DEF n
<1>10. QED
  BY <1>5, <1>6, <1>7, <1>8

\* The last photon in the place of another
LEMMA LastMoved ==
    ASSUME NEW U, NEW list \in Seq(U), NEW i \in 1 .. Len(list)
    PROVE  LET after == Front([list EXCEPT ![i] = Last(list)])
           IN /\ after \in Seq(U) /\ Len(after) = Len(list) - 1
              /\ \A j \in 1 .. Len(list) - 1 : after[j] = list[IF j = i THEN Len(list) ELSE j]
<1> DEFINE m == Len(list)
           moved == [list EXCEPT ![i] = Last(list)]
           after == Front(moved)
<1>1. m \in Nat /\ m # 0 /\ m \in 1 .. m
  BY LenProperties
<1>2. list[m] \in U
  BY <1>1, ElementOfSeq
<1>3. Last(list) = list[m]
  BY DEF Last
<1>4. moved \in Seq(U) /\ Len(moved) = m
      /\ \A j \in 1 .. m : moved[j] = IF j = i THEN list[m] ELSE list[j]
  BY <1>2, <1>3, ExceptSeq
<1>5. after = SubSeq(moved, 1, m - 1)
  BY <1>4 DEF Front
<1> HIDE DEF m, moved, after
<1>6. 1 \in Int /\ m - 1 \in Int /\ \A j \in 1 .. m - 1 : j \in 1 .. m /\ moved[j] \in U
  BY <1>1, <1>4, ElementOfSeq
<1>7. /\ SubSeq(moved, 1, m - 1) \in Seq(U)
      /\ Len(SubSeq(moved, 1, m - 1)) = IF 1 <= m - 1 THEN m - 1 - 1 + 1 ELSE 0
      /\ \A j \in 1 .. m - 1 - 1 + 1 : SubSeq(moved, 1, m - 1)[j] = moved[1 + j - 1]
  BY <1>6, SubSeqProperties
<1>8. after \in Seq(U) /\ Len(after) = m - 1
  BY <1>1, <1>5, <1>7
<1>9. ASSUME NEW j \in 1 .. m - 1 PROVE after[j] = list[IF j = i THEN m ELSE j]
  <2>1. j \in 1 .. m - 1 - 1 + 1 /\ 1 + j - 1 = j
    BY <1>1
  <2>2. after[j] = moved[j]
    BY <1>5, <1>7, <2>1
  <2>3. moved[j] = IF j = i THEN list[m] ELSE list[j]
    BY <1>4, <1>6
  <2>4. QED
    BY <2>2, <2>3
<1>10. QED
  BY <1>8, <1>9 DEF after, moved, m

\* What the loop has done after k photons: those before place i are valid, and no valid
\* one is lost or there twice.
LookInv(s, k, number, U, V) ==
    /\ s = [i |-> s.i, list |-> s.list]
    /\ s.list \in Seq(U) /\ Len(s.list) <= number
    /\ s.i \in 1 .. Len(s.list) + 1
    /\ Len(s.list) - (s.i - 1) <= number - k
    /\ \A j \in 1 .. Len(s.list) : j < s.i => s.list[j] \in V
    /\ \A e \in V : \E j \in 1 .. Len(s.list) : s.list[j] = e
    /\ \A j, l \in 1 .. Len(s.list) : s.list[j] \in V /\ s.list[j] = s.list[l] => j = l

\* One turn of the loop over the slots keeps the invariant.
LEMMA LookStep ==
    ASSUME NEW U, NEW V, \A e \in U : IsValid(e) <=> e \in V, NEW k \in Nat, NEW number \in Nat,
           k < number, NEW s, LookInv(s, k, number, U, V)
    PROVE  LookInv(Looked(s), k + 1, number, U, V)
<1> DEFINE list == s.list
           m == Len(list)
           i == s.i
           t == Looked(s)
<1>1. /\ s = [i |-> i, list |-> list]
      /\ list \in Seq(U) /\ m <= number /\ i \in 1 .. m + 1 /\ m - (i - 1) <= number - k
      /\ \A j \in 1 .. m : j < i => list[j] \in V
      /\ \A e \in V : \E j \in 1 .. m : list[j] = e
      /\ \A j, l \in 1 .. m : list[j] \in V /\ list[j] = list[l] => j = l
  BY DEF LookInv
<1>2. m \in Nat /\ \A j \in 1 .. m : list[j] \in U
  BY <1>1, LenProperties, ElementOfSeq
<1>3. CASE i > m
  <2>1. t = s
    BY <1>3 DEF Looked
  <2> HIDE DEF list, m, i, t
  <2>2. m - (i - 1) <= number - (k + 1)
    BY <1>1, <1>2, <1>3
  <2>3. LookInv(s, k + 1, number, U, V)
    BY <1>1, <2>2 DEF LookInv, m, list, i
  <2>4. QED
    BY <2>1, <2>3 DEF t
<1>4. CASE i <= m /\ IsValid(list[i])
  <2>1. t = [i |-> i + 1, list |-> list]
    <3>1. ~(i > m)
      BY <1>1, <1>2, <1>4
    <3>2. t = [s EXCEPT !.i = @ + 1]
      BY <1>4, <3>1 DEF Looked
    <3>3. QED
      BY <1>1, <3>2
  <2>2. t.i = i + 1 /\ t.list = list /\ t = [i |-> t.i, list |-> t.list]
    BY <2>1
  <2> HIDE DEF list, m, i, t
  <2>3. i + 1 \in 1 .. m + 1 /\ m - (i + 1 - 1) <= number - (k + 1)
    <3>1. m \in Nat /\ i \in 1 .. m + 1 /\ m - (i - 1) <= number - k /\ i <= m
      BY <1>1, <1>2, <1>4
    <3>2. QED
      BY <3>1
  <2>4. \A j \in 1 .. m : j < i + 1 => list[j] \in V
    <3> SUFFICES ASSUME NEW j \in 1 .. m, j < i + 1 PROVE list[j] \in V
      OBVIOUS
    <3>1. j < i \/ j = i
      BY <1>1, <1>2
    <3>2. QED
      BY <1>1, <1>2, <1>4, <3>1
  <2>5. Len(t.list) = m
    BY <2>2 DEF m
  <2>6. /\ t.list \in Seq(U) /\ Len(t.list) <= number /\ t.i \in 1 .. Len(t.list) + 1
        /\ Len(t.list) - (t.i - 1) <= number - (k + 1)
    BY <1>1, <2>2, <2>3, <2>5
  <2>7. /\ \A j \in 1 .. Len(t.list) : j < t.i => t.list[j] \in V
        /\ \A e \in V : \E j \in 1 .. Len(t.list) : t.list[j] = e
        /\ \A j, l \in 1 .. Len(t.list) : t.list[j] \in V /\ t.list[j] = t.list[l] => j = l
    BY <1>1, <2>2, <2>4, <2>5
  <2>8. LookInv(t, k + 1, number, U, V)
    BY <2>2, <2>6, <2>7 DEF LookInv
  <2>9. QED
    BY <2>8 DEF t
<1>5. CASE i <= m /\ ~IsValid(list[i])
  <2> DEFINE after == Front([list EXCEPT ![i] = Last(list)])
             From(j) == IF j = i THEN m ELSE j
  <2>1. t = [i |-> i, list |-> after]
    <3>1. ~(i > m)
      BY <1>1, <1>2, <1>5
    <3>2. t = [s EXCEPT !.list = after]
      BY <1>5, <3>1 DEF Looked
    <3> HIDE DEF after
    <3>3. QED
      BY <1>1, <3>2
  <2>2. t.i = i /\ t.list = after /\ t = [i |-> t.i, list |-> t.list]
    <3> HIDE DEF after
    <3>1. QED
      BY <2>1
  <2> HIDE DEF i, t, list, m
  <2>3. i \in 1 .. m /\ list[i] \notin V
    BY <1>1, <1>2, <1>5
  <2>4. /\ after \in Seq(U) /\ Len(after) = m - 1
        /\ \A j \in 1 .. m - 1 : after[j] = list[From(j)]
    <3>1. list \in Seq(U) /\ i \in 1 .. Len(list)
      BY <1>1, <2>3 DEF m
    <3>2. QED
      BY <3>1, LastMoved, Zenon DEF m
  <2> HIDE DEF after
  <2>5. \A j \in 1 .. m - 1 : From(j) \in 1 .. m /\ (j # i => From(j) = j) /\ (j = i => From(j) = m)
    BY <1>2
  <2>6. \A j, l \in 1 .. m - 1 : From(j) = From(l) => j = l
    BY <1>2, <2>5
  <2> HIDE DEF From
  <2>7. m - 1 <= number /\ i \in 1 .. m - 1 + 1 /\ m - 1 - (i - 1) <= number - (k + 1)
    BY <1>1, <1>2, <2>3
  <2>8. \A j \in 1 .. m - 1 : j < i => after[j] \in V
    <3> SUFFICES ASSUME NEW j \in 1 .. m - 1, j < i PROVE after[j] \in V
      OBVIOUS
    <3>1. j # i /\ j \in 1 .. m
      BY <1>2, <2>3
    <3>2. QED
      BY <1>1, <2>4, <2>5, <3>1
  <2>9. ASSUME NEW e \in V PROVE \E j \in 1 .. m - 1 : after[j] = e
    <3>1. PICK j \in 1 .. m : list[j] = e
      BY <1>1
    <3>2. j # i
      BY <2>3, <3>1
    <3>3. CASE j = m
      <4>1. i \in 1 .. m - 1
        BY <1>2, <2>3, <3>2, <3>3
      <4>2. after[i] = e
        BY <2>4, <2>5, <3>1, <3>3, <4>1
      <4>3. QED
        BY <4>1, <4>2
    <3>4. CASE j # m
      <4>1. j \in 1 .. m - 1
        BY <1>2, <3>4
      <4>2. QED
        BY <2>4, <2>5, <3>1, <3>2, <4>1
    <3>5. QED
      BY <3>3, <3>4
  <2>10. ASSUME NEW j \in 1 .. m - 1, NEW l \in 1 .. m - 1, after[j] \in V, after[j] = after[l]
         PROVE  j = l
    <3>1. after[j] = list[From(j)] /\ after[l] = list[From(l)]
      BY <2>4
    <3>2. From(j) \in 1 .. m /\ From(l) \in 1 .. m
      BY <2>5
    <3>3. From(j) = From(l)
      BY <1>1, <2>10, <3>1, <3>2
    <3>4. QED
      BY <2>6, <3>3
  <2>11. Len(t.list) = m - 1
    BY <2>2, <2>4
  <2>12. QED
    BY <2>2, <2>4, <2>7, <2>8, <2>9, <2>10, <2>11 DEF LookInv, t
<1>6. i > m \/ i <= m
  BY <1>1, <1>2
<1>7. QED
  BY <1>3, <1>4, <1>5, <1>6

\* Each valid photon is somewhere, and in one slot only.
Distinct(photons, number) ==
    /\ DOMAIN photons = 0 .. number - 1
    /\ \A s, t \in DOMAIN photons : IsValid(photons[s]) /\ photons[s] = photons[t] => s = t

\* The photons of the tree are the valid ones, each once.
LEMMA ValidPhotonsOnce ==
    ASSUME NEW number \in Nat, NEW photons, Distinct(photons, number)
    PROVE  LET list == ValidPhotons(photons)
           IN /\ list \in Seq(Valid(photons)) /\ Len(list) \in 0 .. number
              /\ Arranges(list, Len(list), Valid(photons))
<1> DEFINE V == Valid(photons)
           U == {photons[x] : x \in DOMAIN photons}
           valid == ValidPhotons(photons)
           first == [j \in 1 .. number |-> photons[j - 1]]
           start == [i |-> 1, list |-> first]
<1>1. DOMAIN photons = 0 .. number - 1
  BY DEF Distinct
<1>2. Cardinality(DOMAIN photons) = number
  <2>1. 0 \in Int /\ number - 1 \in Int
    OBVIOUS
  <2>2. Cardinality(0 .. number - 1) = IF 0 > number - 1 THEN 0 ELSE number - 1 - 0 + 1
    BY <2>1, FS_Interval
  <2>3. QED
    BY <1>1, <2>2
<1>3. PICK f : /\ f[0] = start
               /\ \A i \in 1 .. number : f[i] = Looked(f[i - 1])
               /\ valid = f[number].list
  <2>1. Cardinality(DOMAIN photons) \in Nat
    BY <1>2
  <2>2. \E f : /\ f[0] = [i |-> 1,
                          list |-> [j \in 1 .. Cardinality(DOMAIN photons) |-> photons[j - 1]]]
               /\ \A i \in 1 .. Cardinality(DOMAIN photons) : f[i] = Looked(f[i - 1])
               /\ valid = f[Cardinality(DOMAIN photons)].list
    BY <2>1, LooksOneByOne, Zenon
  <2> HIDE DEF valid
  <2>3. \E f : /\ f[0] = start
               /\ \A i \in 1 .. number : f[i] = Looked(f[i - 1])
               /\ valid = f[number].list
    BY <1>2, <2>2
  <2>4. QED
    BY <2>3
<1> HIDE DEF valid
<1>4. \A e \in U : IsValid(e) <=> e \in V
  BY DEF Valid
<1>5. LookInv(start, 0, number, U, V)
  <2>1. \A j \in 1 .. number : j - 1 \in DOMAIN photons /\ first[j] = photons[j - 1]
                               /\ first[j] \in U
    BY <1>1
  <2>2. first \in [1 .. number -> U]
    BY <2>1
  <2>3. \A e \in V : \E j \in 1 .. number : first[j] = e
    <3> SUFFICES ASSUME NEW e \in V PROVE \E j \in 1 .. number : first[j] = e
      OBVIOUS
    <3>1. PICK x \in 0 .. number - 1 : photons[x] = e
      BY <1>1 DEF Valid
    <3>2. x + 1 \in 1 .. number /\ x + 1 - 1 = x
      OBVIOUS
    <3>3. first[x + 1] = photons[x]
      BY <2>1, <3>2
    <3>4. QED
      BY <3>1, <3>2, <3>3
  <2>4. ASSUME NEW j \in 1 .. number, NEW l \in 1 .. number, first[j] \in V, first[j] = first[l]
        PROVE  j = l
    <3>1. first[j] = photons[j - 1] /\ first[l] = photons[l - 1] /\ first[j] \in U
      BY <2>1
    <3> HIDE DEF first
    <3>2. IsValid(photons[j - 1]) /\ photons[j - 1] = photons[l - 1]
      BY <1>4, <2>4, <3>1
    <3>3. j - 1 = l - 1
      BY <2>1, <3>2 DEF Distinct
    <3>4. QED
      BY <3>3
  <2> HIDE DEF U, V, first
  <2>5. first \in Seq(U) /\ Len(first) = number
    BY <2>2
  <2>6. start.i = 1 /\ start.list = first /\ start = [i |-> start.i, list |-> start.list]
    OBVIOUS
  <2> HIDE DEF start
  <2>7. 1 \in 1 .. number + 1 /\ number <= number /\ number - (1 - 1) <= number - 0
        /\ \A j \in 1 .. number : ~(j < 1)
    OBVIOUS
  <2>8. QED
    BY <2>3, <2>4, <2>5, <2>6, <2>7 DEF LookInv
<1> HIDE DEF start, U, V
<1> DEFINE S == {i \in Nat : i <= number => LookInv(f[i], i, number, U, V)}
<1>6. 0 \in S
  BY <1>3, <1>5
<1>7. ASSUME NEW i \in Nat, i \in S PROVE i + 1 \in S
  <2> SUFFICES ASSUME i + 1 <= number PROVE LookInv(f[i + 1], i + 1, number, U, V)
    OBVIOUS
  <2>1. i <= number /\ i < number /\ i + 1 \in 1 .. number /\ i + 1 - 1 = i
    OBVIOUS
  <2>2. LookInv(f[i], i, number, U, V)
    BY <1>7, <2>1
  <2>3. f[i + 1] = Looked(f[i])
    BY <1>3, <2>1
  <2>4. QED
    BY <1>4, <2>1, <2>2, <2>3, LookStep
<1>8. LookInv(f[number], number, number, U, V)
  <2> HIDE DEF S
  <2>1. number \in S
    BY <1>6, <1>7, SetInduction
  <2>2. QED
    BY <2>1 DEF S
<1> DEFINE m == Len(valid)
           i == f[number].i
<1>9. /\ valid \in Seq(U) /\ m <= number /\ i \in 1 .. m + 1 /\ m - (i - 1) <= number - number
      /\ \A j \in 1 .. m : j < i => valid[j] \in V
      /\ \A e \in V : \E j \in 1 .. m : valid[j] = e
      /\ \A j, l \in 1 .. m : valid[j] \in V /\ valid[j] = valid[l] => j = l
  BY <1>3, <1>8 DEF LookInv
<1>10. m \in Nat /\ valid \in [1 .. m -> U]
  BY <1>9, LenProperties
<1> HIDE DEF m, i
<1>11. \A j \in 1 .. m : valid[j] \in V
  <2>1. i = m + 1
    BY <1>9, <1>10
  <2>2. QED
    BY <1>9, <1>10, <2>1
<1>12. valid \in [1 .. m -> V]
  BY <1>10, <1>11
<1>13. Arranges(valid, m, V)
  BY <1>9, <1>11, <1>12 DEF Arranges
<1>14. valid \in Seq(V)
  BY <1>10, <1>12, SeqDef
<1>15. QED
  <2>1. m \in 0 .. number
    BY <1>9, <1>10
  <2>2. QED
    BY <1>13, <1>14, <2>1 DEF m, V, valid

-----------------------------------------------------------------------------
(***************************************************************************)
(* The nodes of the tree                                                   *)
(***************************************************************************)
Members(list) == {list[j] : j \in 1 .. Len(list)}

\* A list of photons of E, none of them twice
Once(list, E) == list \in Seq(E) /\ \A i, j \in 1 .. Len(list) : list[i] = list[j] => i = j

\* The photons of a node and those below it
Content(node) ==
    IF node.type \in Axes THEN {node.photon} \cup Members(node.left) \cup Members(node.right)
    ELSE IF node.type = Leaf THEN {node.photon} ELSE {}

\* An inner node: the photons on either side of its plane, all different from its own
Divides(node, E) ==
    /\ node.photon \in E
    /\ Once(node.left, E) /\ node.photon \notin Members(node.left)
    /\ Once(node.right, E) /\ node.photon \notin Members(node.right)
    /\ Members(node.left) \cap Members(node.right) = {}
    /\ \A e \in Members(node.left) : e.at[node.type] <= node.photon.at[node.type]
    /\ \A e \in Members(node.right) : e.at[node.type] >= node.photon.at[node.type]

NodeOK(node, E) ==
    /\ node.type \in Axes => Divides(node, E)
    /\ node.type = Leaf => node.photon \in E
    /\ node.type \notin Axes /\ node.type # Leaf => node.photon = NoPhoton

\* A list that is given as a function is a sequence.
LEMMA ListLength ==
    ASSUME NEW n \in Nat, NEW M, NEW list \in [1 .. n -> M]
    PROVE  list \in Seq(M) /\ Len(list) = n
OBVIOUS

\* The longest axis is an axis, whatever the box.
LEMMA AxisIsAxis == ASSUME NEW box PROVE LongestAxis(box) \in Axes
<1>1. 1 \in Axes /\ 2 \in Axes /\ 3 \in Axes
  BY DEF Axes
<1>2. LongestAxis(box) = 1 \/ LongestAxis(box) = 2 \/ LongestAxis(box) = 3
  BY DEF LongestAxis
<1>3. QED
  BY <1>1, <1>2

\* What buildKDTree makes of a list of two photons or more
LEMMA InnerOfList ==
    ASSUME NEW E, Placed(E), NEW list, Once(list, E), NEW box, NEW axis \in Axes, Len(list) >= 2
    PROVE  LET node == Split(list, axis, box, Len(list) \div 2 + 1)
           IN /\ node.type = axis /\ Divides(node, E)
              /\ {node.photon} \cup Members(node.left) \cup Members(node.right) = Members(list)
              /\ 2 * Len(node.left) <= Len(list) /\ 2 * Len(node.right) <= Len(list)
<1> DEFINE n == Len(list)
           M == Members(list)
           k == n \div 2 + 1
           selected == Select(list, k, axis)
           left == SubSeq(selected, 1, k - 1)
           right == SubSeq(selected, k + 1, Len(selected))
           node == Split(list, axis, box, k)
<1>1. list \in Seq(E) /\ \A i, j \in 1 .. n : list[i] = list[j] => i = j
  BY DEF Once
<1>2. n \in Nat /\ \A j \in 1 .. n : list[j] \in E
  BY <1>1, LenProperties, ElementOfSeq
<1>3. list \in [1 .. n -> M]
  <2>1. list \in [1 .. n -> E]
    BY <1>1, LenProperties
  <2>2. \A j \in 1 .. n : list[j] \in M
    BY DEF Members
  <2> HIDE DEF M, n
  <2>3. QED
    BY <2>1, <2>2
<1>4. M \subseteq E
  BY <1>2 DEF Members
<1>5. \A e \in M : \E j \in 1 .. n : list[j] = e
  BY DEF Members
<1> HIDE DEF M
<1>6. Arranges(list, n, M)
  BY <1>1, <1>3, <1>5 DEF Arranges
<1>7. Placed(M)
  BY <1>4 DEF Placed
<1>8. /\ node.type = axis /\ node.photon = selected[k] /\ node.left = left /\ node.right = right
  BY DEF Split, Inner
<1> HIDE DEF n, node
<1>9. n >= 2
  BY DEF n
<1>10. /\ k \in 1 .. n /\ k \in Int /\ k >= 2 /\ 2 * (k - 1) <= n /\ 2 * (n - k) <= n
  BY <1>2, <1>9
<1> HIDE DEF k
<1>11. Arranges(selected, n, M) /\ Apart(selected, n, axis, k) /\ Apart(selected, n, axis, k + 1)
  <2>1. Len(list) = n
    BY DEF n
  <2>2. QED
    BY <1>2, <1>6, <1>7, <1>10, <2>1, SelectFindsMedian
<1> HIDE DEF selected
<1>12. /\ selected \in [1 .. n -> M] /\ \A j \in 1 .. n : selected[j] \in M
       /\ \A e \in M : \E j \in 1 .. n : selected[j] = e
       /\ \A i, j \in 1 .. n : selected[i] = selected[j] => i = j
  BY <1>11 DEF Arranges
<1>13. Len(selected) = n
  BY <1>2, <1>12, ListLength
<1>14. left \in Seq(M) /\ Len(left) = k - 1 /\ \A j \in 1 .. k - 1 : left[j] = selected[j]
  <2>1. 1 \in Int /\ k - 1 \in Int /\ \A j \in 1 .. k - 1 : selected[j] \in M
    BY <1>2, <1>10, <1>12
  <2>2. /\ left \in Seq(M)
        /\ Len(left) = IF 1 <= k - 1 THEN k - 1 - 1 + 1 ELSE 0
        /\ \A j \in 1 .. k - 1 - 1 + 1 : left[j] = selected[1 + j - 1]
    BY <2>1, SubSeqProperties
  <2> HIDE DEF left
  <2>3. Len(left) = k - 1
    BY <1>10, <2>2
  <2>4. ASSUME NEW j \in 1 .. k - 1 PROVE left[j] = selected[j]
    <3>1. j \in 1 .. k - 1 - 1 + 1 /\ 1 + j - 1 = j
      BY <1>10
    <3>2. QED
      BY <2>2, <3>1
  <2>5. QED
    BY <2>2, <2>3, <2>4
<1>15. right \in Seq(M) /\ Len(right) = n - k /\ \A j \in 1 .. n - k : right[j] = selected[k + j]
  <2>1. k + 1 \in Int /\ n \in Int /\ \A j \in k + 1 .. n : selected[j] \in M
    BY <1>2, <1>10, <1>12
  <2>2. right = SubSeq(selected, k + 1, n)
    BY <1>13
  <2> HIDE DEF right
  <2>3. /\ SubSeq(selected, k + 1, n) \in Seq(M)
        /\ Len(SubSeq(selected, k + 1, n)) = IF k + 1 <= n THEN n - (k + 1) + 1 ELSE 0
        /\ \A j \in 1 .. n - (k + 1) + 1 : SubSeq(selected, k + 1, n)[j] = selected[k + 1 + j - 1]
    BY <2>1, SubSeqProperties
  <2>4. right \in Seq(M) /\ Len(right) = n - k
    BY <1>2, <1>10, <2>2, <2>3
  <2>5. ASSUME NEW j \in 1 .. n - k PROVE right[j] = selected[k + j]
    <3>1. j \in 1 .. n - (k + 1) + 1 /\ k + 1 + j - 1 = k + j
      BY <1>2, <1>10
    <3>2. QED
      BY <2>2, <2>3, <3>1
  <2>6. QED
    BY <2>4, <2>5
<1> HIDE DEF left, right
<1>16. \A e \in Members(left) : \E j \in 1 .. n : j < k /\ e = selected[j]
  BY <1>2, <1>10, <1>14 DEF Members
<1>17. \A e \in Members(right) : \E j \in 1 .. n : k < j /\ e = selected[j]
  <2> SUFFICES ASSUME NEW j \in 1 .. n - k
               PROVE  k + j \in 1 .. n /\ k < k + j /\ right[j] = selected[k + j]
    BY <1>15 DEF Members
  <2>1. QED
    BY <1>2, <1>10, <1>15
<1>18. ASSUME NEW j \in 1 .. n
       PROVE  /\ j < k => selected[j] \in Members(left)
              /\ j > k => selected[j] \in Members(right)
  <2>1. CASE j < k
    <3>1. j \in 1 .. k - 1
      BY <1>2, <1>10, <2>1
    <3>2. left[j] \in Members(left)
      BY <1>14, <3>1 DEF Members
    <3>3. QED
      BY <1>10, <1>14, <2>1, <3>1, <3>2
  <2>2. CASE j > k
    <3>1. j - k \in 1 .. n - k /\ k + (j - k) = j
      BY <1>2, <1>10, <2>2
    <3>2. right[j - k] \in Members(right)
      BY <1>15, <3>1 DEF Members
    <3>3. right[j - k] = selected[j]
      BY <1>15, <3>1
    <3>4. QED
      BY <1>10, <2>2, <3>2, <3>3
  <2>3. QED
    BY <1>10, <2>1, <2>2
<1>19. {selected[k]} \cup Members(left) \cup Members(right) = M
  <2>1. \A e \in Members(left) \cup Members(right) \cup {selected[k]} : e \in M
    BY <1>10, <1>12, <1>16, <1>17
  <2>2. ASSUME NEW e \in M PROVE e \in {selected[k]} \cup Members(left) \cup Members(right)
    <3>1. PICK j \in 1 .. n : selected[j] = e
      BY <1>12
    <3>2. j < k \/ j = k \/ j > k
      BY <1>10
    <3>3. QED
      BY <1>18, <3>1, <3>2
  <2>3. QED
    BY <2>1, <2>2
<1>20. /\ selected[k] \notin Members(left) /\ selected[k] \notin Members(right)
       /\ Members(left) \cap Members(right) = {}
  <2>1. ASSUME selected[k] \in Members(left) PROVE FALSE
    <3>1. PICK j \in 1 .. n : j < k /\ selected[k] = selected[j]
      BY <1>16, <2>1
    <3>2. QED
      BY <1>10, <1>12, <3>1
  <2>2. ASSUME selected[k] \in Members(right) PROVE FALSE
    <3>1. PICK j \in 1 .. n : k < j /\ selected[k] = selected[j]
      BY <1>17, <2>2
    <3>2. QED
      BY <1>10, <1>12, <3>1
  <2>3. ASSUME NEW e \in Members(left), e \in Members(right) PROVE FALSE
    <3>1. PICK i \in 1 .. n : i < k /\ e = selected[i]
      BY <1>16
    <3>2. PICK j \in 1 .. n : k < j /\ e = selected[j]
      BY <1>17, <2>3
    <3>3. i = j
      BY <1>12, <3>1, <3>2
    <3>4. QED
      BY <1>10, <3>1, <3>2, <3>3
  <2>4. QED
    BY <2>1, <2>2, <2>3
<1>21. \A e \in Members(left) : e.at[axis] <= selected[k].at[axis]
  <2> SUFFICES ASSUME NEW j \in 1 .. n, j < k PROVE selected[j].at[axis] <= selected[k].at[axis]
    BY <1>16
  <2>1. j < k /\ k <= k
    BY <1>10
  <2>2. QED
    BY <1>10, <1>11, <2>1 DEF Apart
<1>22. \A e \in Members(right) : e.at[axis] >= selected[k].at[axis]
  <2> SUFFICES ASSUME NEW j \in 1 .. n, k < j PROVE selected[j].at[axis] >= selected[k].at[axis]
    BY <1>17
  <2>1. k < k + 1 /\ k + 1 <= j
    BY <1>10
  <2>2. selected[k].at[axis] <= selected[j].at[axis]
    BY <1>10, <1>11, <2>1 DEF Apart
  <2>3. selected[k].at[axis] \in Int /\ selected[j].at[axis] \in Int
    BY <1>7, <1>10, <1>12 DEF Placed
  <2>4. QED
    BY <2>2, <2>3
<1>23. Once(left, E) /\ Once(right, E)
  <2>1. left \in Seq(E) /\ right \in Seq(E)
    BY <1>4, <1>14, <1>15, SeqMonotonic
  <2>2. ASSUME NEW i \in 1 .. k - 1, NEW j \in 1 .. k - 1, left[i] = left[j] PROVE i = j
    <3>1. i \in 1 .. n /\ j \in 1 .. n /\ selected[i] = selected[j]
      BY <1>2, <1>10, <1>14, <2>2
    <3>2. QED
      BY <1>12, <3>1
  <2>3. ASSUME NEW i \in 1 .. n - k, NEW j \in 1 .. n - k, right[i] = right[j] PROVE i = j
    <3>1. k + i \in 1 .. n /\ k + j \in 1 .. n /\ selected[k + i] = selected[k + j]
      BY <1>2, <1>10, <1>15, <2>3
    <3>2. k + i = k + j
      BY <1>12, <3>1
    <3>3. QED
      BY <1>10, <3>2
  <2>4. QED
    BY <1>14, <1>15, <2>1, <2>2, <2>3 DEF Once
<1>24. Divides(node, E)
  BY <1>4, <1>8, <1>10, <1>12, <1>20, <1>21, <1>22, <1>23 DEF Divides
<1>25. /\ {node.photon} \cup Members(node.left) \cup Members(node.right) = M
       /\ 2 * Len(node.left) <= n /\ 2 * Len(node.right) <= n
  BY <1>8, <1>10, <1>14, <1>15, <1>19
<1>26. node.type = axis
  BY <1>8
<1>27. QED
  BY <1>24, <1>25, <1>26 DEF node, M, n, k

\* What it makes of any list
LEMMA NodeOfList ==
    ASSUME NEW E, Placed(E), NEW list, Once(list, E), NEW box
    PROVE  LET node == Node(list, box)
           IN /\ NodeOK(node, E) /\ Content(node) = Members(list)
              /\ node.type \in Axes =>
                     /\ 2 <= Len(list)
                     /\ 2 * Len(node.left) <= Len(list) /\ 2 * Len(node.right) <= Len(list)
<1> DEFINE n == Len(list)
           node == Node(list, box)
<1>1. n \in Nat /\ list \in Seq(E)
  BY LenProperties DEF Once
<1>2. Leaf \notin Axes /\ Null \notin Axes /\ Null # Leaf
  BY DEF Leaf, Null, Axes
<1>3. CASE n = 0
  <2>1. node = [type |-> Null, photon |-> NoPhoton]
    BY <1>3 DEF Node
  <2>2. node.type = Null /\ node.photon = NoPhoton
    BY <2>1
  <2>3. Members(list) = {}
    BY <1>3 DEF Members
  <2> HIDE DEF node
  <2>4. NodeOK(node, E) /\ Content(node) = {} /\ node.type \notin Axes
    BY <1>2, <2>2 DEF NodeOK, Content
  <2>5. QED
    BY <2>3, <2>4 DEF node
<1>4. CASE n = 1
  <2>1. node = [type |-> Leaf, photon |-> list[1]]
    BY <1>4 DEF Node
  <2>2. node.type = Leaf /\ node.photon = list[1]
    BY <2>1
  <2>3. Members(list) = {list[1]} /\ list[1] \in E
    BY <1>1, <1>4, ElementOfSeq DEF Members
  <2> HIDE DEF node
  <2>4. NodeOK(node, E) /\ Content(node) = {list[1]} /\ node.type \notin Axes
    BY <1>2, <2>2, <2>3 DEF NodeOK, Content
  <2>5. QED
    BY <2>3, <2>4 DEF node
<1>5. CASE n >= 2
  <2> DEFINE axis == LongestAxis(box)
             k == n \div 2 + 1
  <2>1. n # 0 /\ n # 1
    <3> HIDE DEF n
    <3>1. QED
      BY <1>1, <1>5
  <2>2. node = Split(list, axis, box, k)
    BY <2>1 DEF Node
  <2>3. axis \in Axes
    BY AxisIsAxis
  <2> HIDE DEF axis, node
  <2>4. /\ node.type = axis /\ Divides(node, E)
        /\ {node.photon} \cup Members(node.left) \cup Members(node.right) = Members(list)
        /\ 2 * Len(node.left) <= Len(list) /\ 2 * Len(node.right) <= Len(list)
    BY <1>5, <2>2, <2>3, InnerOfList
  <2>5. NodeOK(node, E)
    BY <1>2, <2>3, <2>4 DEF NodeOK
  <2>6. Content(node) = Members(list)
    BY <2>3, <2>4 DEF Content
  <2>7. 2 <= Len(list)
    BY <1>1, <1>5
  <2>8. QED
    BY <2>4, <2>5, <2>6, <2>7 DEF node
<1>6. n = 0 \/ n = 1 \/ n >= 2
  <2> HIDE DEF n
  <2>1. QED
    BY <1>1
<1>7. QED
  BY <1>3, <1>4, <1>5, <1>6


\* The powers of two up to the size of the tree
LEMMA PowersOneByOne ==
    ASSUME NEW number \in Nat
    PROVE  \E f : /\ f[0] = 1
                  /\ \A i \in 1 .. number : f[i] = 2 * f[i - 1]
                  /\ DOMAIN f = 0 .. number
                  /\ TreeSize(number) =
                         Min({f[k] - 1 : k \in {j \in 0 .. number : f[j] >= number + 1}})
<1> DEFINE n == number
           Value(f, i) == IF i = 0 THEN 1 ELSE 2 * f[i - 1]
           S == {m \in Nat : \E f : f = [i \in 0 .. m |-> Value(f, i)]}
           F == CHOOSE f : f = [i \in 0 .. n |-> Value(f, i)]
<1>1. 0 \in S
  <2> DEFINE f == [i \in 0 .. 0 |-> 1]
  <2>1. f = [i \in 0 .. 0 |-> Value(f, i)]
    OBVIOUS
  <2>2. QED
    BY <2>1
<1>2. \A m \in Nat : m \in S => m + 1 \in S
  <2> SUFFICES ASSUME NEW m \in Nat, NEW f, f = [i \in 0 .. m |-> Value(f, i)]
               PROVE  m + 1 \in S
    OBVIOUS
  <2> DEFINE g == [i \in 0 .. m + 1 |-> Value(f, i)]
  <2>1. \A i \in 0 .. m + 1 : i = 0 \/ (i # 0 /\ i - 1 \in 0 .. m /\ i - 1 \in 0 .. m + 1)
    <3> HIDE DEF g, Value
    <3>1. QED
      OBVIOUS
  <2>2. \A i \in 0 .. m : g[i] = f[i]
    <3> SUFFICES ASSUME NEW i \in 0 .. m PROVE g[i] = f[i]
      OBVIOUS
    <3> HIDE DEF Value
    <3>1. i \in 0 .. m + 1
      OBVIOUS
    <3>2. QED
      BY <3>1
  <2>3. \A i \in 0 .. m + 1 : Value(g, i) = Value(f, i)
    <3> HIDE DEF g
    <3>1. QED
      BY <2>1, <2>2
  <2>4. g = [i \in 0 .. m + 1 |-> Value(g, i)]
    <3> HIDE DEF Value
    <3>1. QED
      BY <2>3
  <2>5. m + 1 \in Nat
    OBVIOUS
  <2> HIDE DEF g, Value
  <2>6. QED
    BY <2>4, <2>5
<1>3. n \in S
  <2> HIDE DEF S
  <2>1. n \in Nat
    OBVIOUS
  <2>2. QED
    BY <1>1, <1>2, <2>1, SetInduction
<1>4. F = [i \in 0 .. n |-> Value(F, i)]
  BY <1>3
<1>5. TreeSize(number) = Min({F[k] - 1 : k \in {j \in 0 .. number : F[j] >= number + 1}})
  BY DEF TreeSize
<1> HIDE DEF F
<1>6. \A i \in 0 .. n : F[i] = Value(F, i)
  BY <1>4
<1>7. n \in Nat /\ 0 \in 0 .. n /\ \A i \in 1 .. n : i \in 0 .. n /\ i # 0
  OBVIOUS
<1>8. n = number
  OBVIOUS
<1>9. DOMAIN F = 0 .. n
  BY <1>4
<1> HIDE DEF n
<1>10. QED
  BY <1>5, <1>6, <1>7, <1>8, <1>9

\* The first powers of two
Powers(power, m) ==
    /\ power[0] = 1
    /\ \A k \in 0 .. m : power[k] \in Nat /\ power[k] >= k + 1
    /\ \A k \in 1 .. m : power[k] = 2 * power[k - 1]

\* Numbers that double from one on are powers of two.
LEMMA PowersArePositive ==
    ASSUME NEW power, NEW m \in Nat, power[0] = 1, \A k \in 1 .. m : power[k] = 2 * power[k - 1]
    PROVE  Powers(power, m)
<1> DEFINE S == {k \in Nat : k <= m => power[k] \in Nat /\ power[k] >= k + 1}
<1>1. 0 \in S
  OBVIOUS
<1>2. ASSUME NEW k \in Nat, k \in S PROVE k + 1 \in S
  <2> SUFFICES ASSUME k + 1 <= m PROVE power[k + 1] \in Nat /\ power[k + 1] >= k + 1 + 1
    OBVIOUS
  <2>1. k + 1 \in 1 .. m /\ k + 1 - 1 = k /\ k <= m
    OBVIOUS
  <2>2. power[k + 1] = 2 * power[k] /\ power[k] \in Nat /\ power[k] >= k + 1
    BY <1>2, <2>1
  <2> DEFINE x == power[k]
             y == power[k + 1]
  <2>3. y = 2 * x /\ x \in Nat /\ x >= k + 1
    BY <2>2
  <2> HIDE DEF x, y
  <2>4. y \in Nat /\ y >= k + 1 + 1
    BY <2>3
  <2>5. QED
    BY <2>4 DEF y
<1>3. Nat \subseteq S
  <2> HIDE DEF S
  <2>1. QED
    BY <1>1, <1>2, SetInduction
<1>4. \A k \in 0 .. m : power[k] \in Nat /\ power[k] >= k + 1
  BY <1>3
<1>5. QED
  BY <1>4 DEF Powers

\* A higher power is greater.
LEMMA PowersGrow ==
    ASSUME NEW m \in Nat, NEW power, Powers(power, m), NEW a \in 0 .. m, NEW b \in a .. m
    PROVE  power[a] <= power[b]
<1> DEFINE S == {k \in Nat : a + k <= m => power[a] <= power[a + k]}
<1>1. 0 \in S
  <2>1. a + 0 = a /\ power[a] \in Nat
    BY DEF Powers
  <2>2. QED
    BY <2>1
<1>2. ASSUME NEW k \in Nat, k \in S PROVE k + 1 \in S
  <2> SUFFICES ASSUME a + (k + 1) <= m PROVE power[a] <= power[a + (k + 1)]
    OBVIOUS
  <2> DEFINE c == a + (k + 1)
  <2>1. c \in 1 .. m /\ c - 1 = a + k /\ a + k <= m /\ a + k \in 0 .. m
    OBVIOUS
  <2> HIDE DEF c
  <2>2. power[c] = 2 * power[a + k] /\ power[a + k] \in Nat /\ power[a] \in Nat
    BY <2>1 DEF Powers
  <2>3. power[a] <= power[a + k]
    BY <1>2, <2>1
  <2> DEFINE x == power[a]
             y == power[a + k]
             z == power[c]
  <2>4. z = 2 * y /\ y \in Nat /\ x \in Nat /\ x <= y
    BY <2>2, <2>3
  <2> HIDE DEF x, y, z
  <2>5. x <= z
    BY <2>4
  <2>6. QED
    BY <2>5 DEF x, z, c
<1>3. Nat \subseteq S
  <2> HIDE DEF S
  <2>1. QED
    BY <1>1, <1>2, SetInduction
<1>4. b - a \in Nat /\ a + (b - a) = b /\ b <= m
  OBVIOUS
<1>5. QED
  BY <1>3, <1>4

\* The size of the tree is one less than a power of two, and no photon is without a place.
LEMMA TreeSizeIsPower ==
    ASSUME NEW number \in Nat \ {0}
    PROVE  \E power, depth : /\ depth \in Nat /\ Powers(power, depth)
                             /\ TreeSize(number) = power[depth] - 1
                             /\ power[depth] >= number + 1
<1>1. PICK power : /\ power[0] = 1
                   /\ \A k \in 1 .. number : power[k] = 2 * power[k - 1]
                   /\ TreeSize(number) =
                          Min({power[k] - 1 : k \in {j \in 0 .. number : power[j] >= number + 1}})
  BY PowersOneByOne
<1>2. Powers(power, number)
  BY <1>1, PowersArePositive
<1> DEFINE K == {j \in 0 .. number : power[j] >= number + 1}
           M == {power[k] - 1 : k \in K}
           f == [k \in K |-> power[k] - 1]
<1>3. M \in SUBSET Int
  BY <1>2 DEF Powers
<1>4. number \in K
  <2>1. number \in 0 .. number
    OBVIOUS
  <2>2. QED
    BY <1>2, <2>1 DEF Powers
<1>5. M # {}
  BY <1>4
<1>6. f \in Surjection(K, M)
  BY DEF Surjection
<1>7. IsFiniteSet(K)
  <2>1. IsFiniteSet(0 .. number)
    <3>1. 0 \in Int /\ number \in Int
      OBVIOUS
    <3>2. QED
      BY <3>1, FS_Interval
  <2>2. K \subseteq 0 .. number
    OBVIOUS
  <2> HIDE DEF K
  <2>3. QED
    BY <2>1, <2>2, FS_Subset
<1>8. IsFiniteSet(M)
  <2> HIDE DEF f, K, M
  <2>1. QED
    BY <1>6, <1>7, FS_Surjection
<1>9. Min(M) \in M
  <2> HIDE DEF M
  <2>1. QED
    BY <1>3, <1>5, <1>8, MaxMin
<1>10. PICK k \in K : TreeSize(number) = power[k] - 1
  BY <1>1, <1>9
<1>11. k \in 0 .. number /\ power[k] >= number + 1
  OBVIOUS
<1>12. k \in Nat /\ Powers(power, k)
  <2>1. \A j \in 0 .. k : j \in 0 .. number
    BY <1>11
  <2>2. \A j \in 1 .. k : j \in 1 .. number
    BY <1>11
  <2>3. QED
    BY <1>2, <1>11, <2>1, <2>2 DEF Powers
<1>13. QED
  BY <1>10, <1>11, <1>12


\* The tree, node by node
LEMMA NodesOneByOne ==
    ASSUME NEW photons, NEW size \in Nat, TreeSize(Cardinality(DOMAIN photons)) - 1 = size
    PROVE  \E f : /\ f[0] = IF ValidPhotons(photons) = <<>> THEN Node(ValidPhotons(photons), {})
                            ELSE Node(ValidPhotons(photons), Box(ValidPhotons(photons)))
                  /\ \A i \in 1 .. size : f[i] = ChildAt(i, f[Parent(i)])
                  /\ DOMAIN f = 0 .. size
                  /\ PhotonTree(photons) =
                         [k \in DOMAIN f |-> [type |-> f[k].type, photon |-> f[k].photon]]
<1> DEFINE n == size
           Value(f, i) == IF i = 0
                          THEN IF ValidPhotons(photons) = <<>> THEN Node(ValidPhotons(photons), {})
                               ELSE Node(ValidPhotons(photons), Box(ValidPhotons(photons)))
                          ELSE ChildAt(i, f[Parent(i)])
           S == {m \in Nat : \E f : f = [i \in 0 .. m |-> Value(f, i)]}
           F == CHOOSE f : f = [i \in 0 .. n |-> Value(f, i)]
<1>1. 0 \in S
  <2> DEFINE f == [i \in 0 .. 0 |-> IF ValidPhotons(photons) = <<>> THEN Node(ValidPhotons(photons), {})
                                    ELSE Node(ValidPhotons(photons), Box(ValidPhotons(photons)))]
  <2>1. f = [i \in 0 .. 0 |-> Value(f, i)]
    OBVIOUS
  <2>2. QED
    BY <2>1
<1>2. \A m \in Nat : m \in S => m + 1 \in S
  <2> SUFFICES ASSUME NEW m \in Nat, NEW f, f = [i \in 0 .. m |-> Value(f, i)]
               PROVE  m + 1 \in S
    OBVIOUS
  <2> DEFINE g == [i \in 0 .. m + 1 |-> Value(f, i)]
  <2>1. \A i \in 0 .. m + 1 : i = 0 \/ (i # 0 /\ Parent(i) \in 0 .. m /\ Parent(i) \in 0 .. m + 1)
    <3> HIDE DEF g, Value
    <3>1. QED
      BY DEF Parent
  <2>2. \A i \in 0 .. m : g[i] = f[i]
    <3> SUFFICES ASSUME NEW i \in 0 .. m PROVE g[i] = f[i]
      OBVIOUS
    <3> HIDE DEF Value
    <3>1. i \in 0 .. m + 1
      OBVIOUS
    <3>2. QED
      BY <3>1
  <2>3. \A i \in 0 .. m + 1 : Value(g, i) = Value(f, i)
    <3> HIDE DEF g
    <3>1. QED
      BY <2>1, <2>2
  <2>4. g = [i \in 0 .. m + 1 |-> Value(g, i)]
    <3> HIDE DEF Value
    <3>1. QED
      BY <2>3
  <2>5. m + 1 \in Nat
    OBVIOUS
  <2> HIDE DEF g, Value
  <2>6. QED
    BY <2>4, <2>5
<1>3. n \in S
  <2> HIDE DEF S
  <2>1. n \in Nat
    OBVIOUS
  <2>2. QED
    BY <1>1, <1>2, <2>1, SetInduction
<1>4. F = [i \in 0 .. n |-> Value(F, i)]
  BY <1>3
<1>5. PhotonTree(photons) = [k \in DOMAIN F |-> [type |-> F[k].type, photon |-> F[k].photon]]
  BY DEF PhotonTree
<1> HIDE DEF F
<1>6. \A i \in 0 .. n : F[i] = Value(F, i)
  BY <1>4
<1>7. n \in Nat /\ 0 \in 0 .. n /\ \A i \in 1 .. n : i \in 0 .. n /\ i # 0
  OBVIOUS
<1>8. n = size
  OBVIOUS
<1>9. DOMAIN F = 0 .. n
  BY <1>4
<1> HIDE DEF n
<1>10. QED
  BY <1>5, <1>6, <1>7, <1>8, <1>9


\* The children of node n are nodes 2n + 1 and 2n + 2.
LEMMA ParentOf ==
    ASSUME NEW n \in Nat \ {0}
    PROVE  /\ Parent(n) \in Nat /\ Parent(n) < n
           /\ n = 2 * Parent(n) + 1 \/ n = 2 * Parent(n) + 2
BY DEF Parent

\* And the parent of both is n.
LEMMA ParentOfChild ==
    ASSUME NEW n \in Nat
    PROVE  Parent(2 * n + 1) = n /\ Parent(2 * n + 2) = n
BY DEF Parent

\* Induction from the parents
LEMMA FromParents ==
    ASSUME NEW S, 0 \in S, \A n \in Nat \ {0} : Parent(n) \in S => n \in S
    PROVE  Nat \subseteq S
<1> DEFINE T == {n \in Nat : \A m \in 0 .. n : m \in S}
<1>1. 0 \in T
  OBVIOUS
<1>2. ASSUME NEW n \in Nat, n \in T PROVE n + 1 \in T
  <2>1. Parent(n + 1) \in 0 .. n
    BY ParentOf
  <2>2. n + 1 \in S
    BY <1>2, <2>1
  <2>3. \A m \in 0 .. n + 1 : m \in 0 .. n \/ m = n + 1
    OBVIOUS
  <2>4. QED
    BY <1>2, <2>2, <2>3
<1>3. Nat \subseteq T
  <2> HIDE DEF T
  <2>1. QED
    BY <1>1, <1>2, SetInduction
<1>4. \A n \in Nat : n \in 0 .. n
  OBVIOUS
<1>5. QED
  BY <1>3, <1>4

\* A node at depth d, and the room below it
HasRoom(node, n, power, depth) ==
    node.type \in Axes =>
        \E d \in 0 .. depth - 2 :
            /\ power[d] <= n + 1 /\ n + 1 < 2 * power[d]
            /\ Len(node.left) + 1 <= power[depth - d - 1]
            /\ Len(node.right) + 1 <= power[depth - d - 1]

\* A node whose photons fit below it leaves half of the room to each child.
LEMMA NodeHasRoom ==
    ASSUME NEW V, Placed(V), NEW list, Once(list, V), NEW box, NEW n \in Nat,
           NEW depth \in Nat, NEW power, Powers(power, depth), NEW d \in 0 .. depth,
           power[d] <= n + 1, n + 1 < 2 * power[d], Len(list) + 1 <= power[depth - d]
    PROVE  HasRoom(Node(list, box), n, power, depth)
<1> DEFINE node == Node(list, box)
           e == depth - d
<1> SUFFICES ASSUME node.type \in Axes
             PROVE  /\ d \in 0 .. depth - 2
                    /\ Len(node.left) + 1 <= power[depth - d - 1]
                    /\ Len(node.right) + 1 <= power[depth - d - 1]
  BY DEF HasRoom
<1>1. /\ NodeOK(node, V) /\ 2 <= Len(list)
      /\ 2 * Len(node.left) <= Len(list) /\ 2 * Len(node.right) <= Len(list)
  BY NodeOfList
<1> HIDE DEF node
<1>2. Len(list) \in Nat /\ Len(node.left) \in Nat /\ Len(node.right) \in Nat
  <2>1. list \in Seq(V) /\ node.left \in Seq(V) /\ node.right \in Seq(V)
    BY <1>1 DEF NodeOK, Divides, Once
  <2>2. QED
    BY <2>1, LenProperties
<1>3. e \in 0 .. depth /\ depth - d = e /\ depth - d - 1 = e - 1
  OBVIOUS
<1> HIDE DEF e
<1>4. e # 0
  <2>1. power[e] # 1
    BY <1>1, <1>2, <1>3
  <2>2. QED
    BY <2>1 DEF Powers
<1>5. power[e] = 2 * power[e - 1] /\ power[e - 1] \in Nat
  <2>1. e \in 1 .. depth /\ e - 1 \in 0 .. depth
    BY <1>3, <1>4
  <2>2. QED
    BY <2>1 DEF Powers
<1>6. e # 1
  <2>1. ASSUME e = 1 PROVE FALSE
    <3>1. power[e - 1] = 1
      BY <2>1 DEF Powers
    <3>2. power[e] = 2
      BY <1>5, <3>1
    <3>3. QED
      BY <1>1, <1>2, <1>3, <3>2
  <2>2. QED
    BY <2>1
<1>7. d \in 0 .. depth - 2
  BY <1>3, <1>4, <1>6
<1> DEFINE x == power[e - 1]
           y == power[e]
           l == Len(list)
           a == Len(node.left)
           b == Len(node.right)
<1>8. y = 2 * x /\ x \in Nat /\ l \in Nat /\ a \in Nat /\ b \in Nat
      /\ 2 * a <= l /\ 2 * b <= l /\ l + 1 <= y
  BY <1>1, <1>2, <1>3, <1>5
<1> HIDE DEF x, y, l, a, b
<1>9. a + 1 <= x /\ b + 1 <= x
  BY <1>8
<1>10. QED
  BY <1>3, <1>7, <1>9 DEF a, b, x

\* A child of it, one deeper
LEMMA ChildHasRoom ==
    ASSUME NEW V, Placed(V), NEW n \in Nat \ {0}, NEW parent, NodeOK(parent, V),
           NEW depth \in Nat, NEW power, Powers(power, depth),
           HasRoom(parent, Parent(n), power, depth)
    PROVE  /\ NodeOK(ChildAt(n, parent), V) /\ HasRoom(ChildAt(n, parent), n, power, depth)
           /\ parent.type \in Axes =>
                  Content(ChildAt(n, parent)) =
                      Members(IF n = 2 * Parent(n) + 1 THEN parent.left ELSE parent.right)
           /\ parent.type \notin Axes => Content(ChildAt(n, parent)) = {}
<1> DEFINE child == ChildAt(n, parent)
           p == Parent(n)
<1>1. CASE parent.type \notin Axes
  <2>1. child = NotWritten
    BY <1>1 DEF ChildAt
  <2>2. child.type = 0 /\ child.photon = NoPhoton
    BY <2>1 DEF NotWritten
  <2>3. child.type \notin Axes /\ child.type # Leaf
    BY <2>2 DEF Axes, Leaf
  <2> HIDE DEF child
  <2>4. NodeOK(child, V) /\ HasRoom(child, n, power, depth) /\ Content(child) = {}
    BY <2>2, <2>3 DEF NodeOK, HasRoom, Content
  <2>5. QED
    BY <1>1, <2>4 DEF child
<1>2. CASE parent.type \in Axes
  <2> DEFINE list == IF n = 2 * p + 1 THEN parent.left ELSE parent.right
  <2>1. PICK d \in 0 .. depth - 2 :
            /\ power[d] <= p + 1 /\ p + 1 < 2 * power[d]
            /\ Len(parent.left) + 1 <= power[depth - d - 1]
            /\ Len(parent.right) + 1 <= power[depth - d - 1]
    BY <1>2 DEF HasRoom
  <2>2. Once(list, V) /\ Len(list) + 1 <= power[depth - (d + 1)]
    <3>1. depth - (d + 1) = depth - d - 1
      OBVIOUS
    <3>2. Once(parent.left, V) /\ Once(parent.right, V)
      BY <1>2 DEF NodeOK, Divides
    <3>3. QED
      BY <2>1, <3>1, <3>2
  <2>3. PICK box : child = Node(list, box)
    <3>1. CASE n = 2 * p + 1
      <4>1. child = LeftChild(parent)
        BY <1>2, <3>1 DEF ChildAt
      <4>2. QED
        BY <3>1, <4>1 DEF LeftChild
    <3>2. CASE n # 2 * p + 1
      <4>1. child = RightChild(parent)
        BY <1>2, <3>2 DEF ChildAt
      <4>2. QED
        BY <3>2, <4>1 DEF RightChild
    <3>3. QED
      BY <3>1, <3>2
  <2> HIDE DEF child, list
  <2>4. d + 1 \in 0 .. depth /\ power[d + 1] <= n + 1 /\ n + 1 < 2 * power[d + 1]
    <3> DEFINE x == power[d]
               y == power[d + 1]
    <3>1. d + 1 \in 1 .. depth /\ d + 1 - 1 = d /\ d \in 0 .. depth
      OBVIOUS
    <3>2. y = 2 * x /\ x \in Nat
      BY <3>1 DEF Powers
    <3>3. x <= p + 1 /\ p + 1 < 2 * x
      BY <2>1
    <3>4. p \in Nat /\ (n = 2 * p + 1 \/ n = 2 * p + 2)
      BY ParentOf
    <3> HIDE DEF x, y, p
    <3>5. y <= n + 1 /\ n + 1 < 2 * y
      BY <3>2, <3>3, <3>4
    <3>6. QED
      BY <3>1, <3>5 DEF y
  <2>5. HasRoom(child, n, power, depth)
    BY <2>2, <2>3, <2>4, NodeHasRoom
  <2>6. NodeOK(child, V) /\ Content(child) = Members(list)
    BY <2>2, <2>3, NodeOfList
  <2>7. QED
    BY <1>2, <2>5, <2>6 DEF child, list
<1>3. QED
  BY <1>1, <1>2

\* What a tree of the photons V is, for its search
TreeOK(f, size, V) ==
    /\ \A n \in 0 .. size - 1 : NodeOK(f[n], V)
    /\ Content(f[0]) = V
    /\ \A n \in 0 .. size - 1 : f[n].type \in Axes =>
           /\ 2 * n + 2 <= size - 1
           /\ Content(f[2 * n + 1]) = Members(f[n].left)
           /\ Content(f[2 * n + 2]) = Members(f[n].right)
    /\ \A n \in 1 .. size - 1 : f[Parent(n)].type \notin Axes => Content(f[n]) = {}

\* createPhotonKdTreeOnCPU makes such a tree of photons that are in one slot each.
LEMMA PhotonTreeOK ==
    ASSUME NEW number \in Nat \ {0}, NEW photons, Distinct(photons, number), Placed(Valid(photons))
    PROVE  \E f, size : /\ size \in Nat \ {0} /\ DOMAIN f = 0 .. size - 1
                        /\ TreeOK(f, size, Valid(photons))
                        /\ PhotonTree(photons) =
                               [n \in DOMAIN f |-> [type |-> f[n].type, photon |-> f[n].photon]]
<1> DEFINE V == Valid(photons)
           list == ValidPhotons(photons)
           root == IF list = <<>> THEN Node(list, {}) ELSE Node(list, Box(list))
           size == TreeSize(number)
<1>1. Cardinality(DOMAIN photons) = number
  <2>1. 0 \in Int /\ number - 1 \in Int
    OBVIOUS
  <2>2. Cardinality(0 .. number - 1) = IF 0 > number - 1 THEN 0 ELSE number - 1 - 0 + 1
    BY <2>1, FS_Interval
  <2>3. QED
    BY <2>2 DEF Distinct
<1>2. PICK power, depth : /\ depth \in Nat /\ Powers(power, depth)
                          /\ size = power[depth] - 1 /\ power[depth] >= number + 1
  BY TreeSizeIsPower
<1> HIDE DEF size
<1>3. size \in Nat \ {0} /\ size - 1 \in Nat /\ size + 1 = power[depth]
  <2>1. depth \in 0 .. depth
    BY <1>2
  <2>2. power[depth] \in Nat
    BY <1>2, <2>1 DEF Powers
  <2>3. QED
    BY <1>2, <2>2
<1>4. PICK f : /\ f[0] = root
               /\ \A i \in 1 .. size - 1 : f[i] = ChildAt(i, f[Parent(i)])
               /\ DOMAIN f = 0 .. size - 1
               /\ PhotonTree(photons) =
                      [n \in DOMAIN f |-> [type |-> f[n].type, photon |-> f[n].photon]]
  <2>1. TreeSize(Cardinality(DOMAIN photons)) - 1 = size - 1
    BY <1>1 DEF size
  <2>2. QED
    BY <1>3, <2>1, NodesOneByOne, ZenonT(40)
<1>5. Once(list, V) /\ Members(list) = V /\ Len(list) <= number /\ Len(list) \in Nat
  <2>1. list \in Seq(V) /\ Len(list) \in 0 .. number /\ Arranges(list, Len(list), V)
    BY ValidPhotonsOnce
  <2> HIDE DEF list, V
  <2>2. Once(list, V)
    BY <2>1 DEF Once, Arranges
  <2>3. Members(list) = V
    BY <2>1 DEF Members, Arranges
  <2>4. QED
    BY <2>1, <2>2, <2>3
<1>6. PICK box : f[0] = Node(list, box)
  BY <1>4
<1>7. Placed(V)
  OBVIOUS
<1> HIDE DEF list, V, root
<1>8. NodeOK(f[0], V) /\ Content(f[0]) = V
  BY <1>5, <1>6, <1>7, NodeOfList
<1>9. HasRoom(f[0], 0, power, depth)
  <2>1. 0 \in 0 .. depth /\ depth - 0 = depth
    BY <1>2
  <2>2. power[0] = 1
    BY <1>2 DEF Powers
  <2>3. power[0] <= 0 + 1 /\ 0 + 1 < 2 * power[0]
    BY <2>2
  <2>4. Len(list) + 1 <= power[depth - 0]
    <3>1. power[depth] \in Nat
      BY <1>3
    <3>2. QED
      BY <1>2, <1>5, <2>1, <3>1
  <2>5. 0 \in Nat
    OBVIOUS
  <2>6. QED
    BY <1>2, <1>5, <1>6, <1>7, <2>1, <2>3, <2>4, <2>5, NodeHasRoom
<1> DEFINE S == {n \in Nat : n <= size - 1 => NodeOK(f[n], V) /\ HasRoom(f[n], n, power, depth)}
<1>10. 0 \in S
  BY <1>8, <1>9
<1>11. ASSUME NEW n \in Nat \ {0}, Parent(n) \in S PROVE n \in S
  <2> SUFFICES ASSUME n <= size - 1 PROVE NodeOK(f[n], V) /\ HasRoom(f[n], n, power, depth)
    OBVIOUS
  <2>1. Parent(n) <= size - 1 /\ n \in 1 .. size - 1
    BY <1>3, ParentOf
  <2>2. NodeOK(f[Parent(n)], V) /\ HasRoom(f[Parent(n)], Parent(n), power, depth)
    BY <1>11, <2>1
  <2>3. f[n] = ChildAt(n, f[Parent(n)])
    BY <1>4, <2>1
  <2>4. QED
    BY <1>2, <1>7, <2>2, <2>3, ChildHasRoom
<1>12. Nat \subseteq S
  <2> HIDE DEF S
  <2>1. QED
    BY <1>10, <1>11, FromParents
<1>13. \A n \in 0 .. size - 1 : NodeOK(f[n], V) /\ HasRoom(f[n], n, power, depth)
  BY <1>3, <1>12
<1> HIDE DEF S
<1>14. ASSUME NEW n \in 1 .. size - 1
       PROVE  /\ f[Parent(n)].type \in Axes =>
                     Content(f[n]) = Members(IF n = 2 * Parent(n) + 1 THEN f[Parent(n)].left
                                             ELSE f[Parent(n)].right)
              /\ f[Parent(n)].type \notin Axes => Content(f[n]) = {}
  <2>1. n \in Nat \ {0}
    OBVIOUS
  <2>2. Parent(n) \in 0 .. size - 1
    BY <1>3, <2>1, ParentOf
  <2>3. f[n] = ChildAt(n, f[Parent(n)])
    BY <1>4
  <2>4. NodeOK(f[Parent(n)], V) /\ HasRoom(f[Parent(n)], Parent(n), power, depth)
    BY <1>13, <2>2
  <2>5. QED
    BY <1>2, <1>7, <2>1, <2>3, <2>4, ChildHasRoom
<1>15. ASSUME NEW n \in 0 .. size - 1, f[n].type \in Axes
       PROVE  /\ 2 * n + 2 <= size - 1
              /\ Content(f[2 * n + 1]) = Members(f[n].left)
              /\ Content(f[2 * n + 2]) = Members(f[n].right)
  <2>1. PICK d \in 0 .. depth - 2 : power[d] <= n + 1 /\ n + 1 < 2 * power[d]
    BY <1>13, <1>15 DEF HasRoom
  <2>2. 2 * n + 2 <= size - 1
    <3> DEFINE x == power[d]
               y == power[d + 1]
               z == power[d + 2]
    <3>1. d + 1 \in 1 .. depth /\ d + 2 \in 1 .. depth /\ d + 1 - 1 = d /\ d + 2 - 1 = d + 1
          /\ d \in 0 .. depth
      BY <1>2
    <3>2. y = 2 * x /\ z = 2 * y /\ x \in Nat
      BY <1>2, <3>1 DEF Powers
    <3>3. z <= power[depth]
      <4>1. d + 2 \in 0 .. depth /\ depth \in d + 2 .. depth
        BY <1>2, <3>1
      <4>2. QED
        BY <1>2, <4>1, PowersGrow
    <3>4. n + 1 < 2 * x /\ z <= size + 1
      BY <1>3, <2>1, <3>3
    <3> HIDE DEF x, y, z
    <3>5. QED
      BY <1>3, <3>2, <3>4
  <2>3. /\ 2 * n + 1 \in 1 .. size - 1 /\ 2 * n + 2 \in 1 .. size - 1
        /\ Parent(2 * n + 1) = n /\ Parent(2 * n + 2) = n
        /\ 2 * n + 2 # 2 * n + 1
    BY <1>3, <2>2, ParentOfChild
  <2>4. Content(f[2 * n + 1]) = Members(f[n].left)
    BY <1>14, <1>15, <2>3
  <2>5. Content(f[2 * n + 2]) = Members(f[n].right)
    BY <1>14, <1>15, <2>3
  <2>6. QED
    BY <2>2, <2>4, <2>5
<1>16. TreeOK(f, size, V)
  BY <1>8, <1>13, <1>14, <1>15 DEF TreeOK
<1>17. QED
  BY <1>3, <1>4, <1>16 DEF V

-----------------------------------------------------------------------------
(***************************************************************************)
(* The search of the tree                                                  *)
(***************************************************************************)

\* The nodes that are visited, one by one
LEMMA VisitsOneByOne ==
    ASSUME NEW tree, NEW size \in Nat, DOMAIN tree = 0 .. size, NEW point, NEW radius
    PROVE  LET visited == Visited(tree, point, radius)
           IN /\ visited \subseteq 0 .. size /\ 0 \in visited
              /\ \A i \in 1 .. size :
                     Parent(i) \in visited /\ i \in Visits(tree, point, radius, Parent(i))
                     => i \in visited
<1> DEFINE n == size
           Value(f, i) == i = 0 \/ (f[Parent(i)] /\ i \in Visits(tree, point, radius, Parent(i)))
           S == {m \in Nat : \E f : f = [i \in 0 .. m |-> Value(f, i)]}
           F == CHOOSE f : f = [i \in 0 .. n |-> Value(f, i)]
<1>1. 0 \in S
  <2> DEFINE f == [i \in 0 .. 0 |-> TRUE]
  <2>1. f = [i \in 0 .. 0 |-> Value(f, i)]
    <3>1. \A i \in 0 .. 0 : i = 0
      OBVIOUS
    <3>2. \A i \in 0 .. 0 : Value(f, i) = TRUE
      BY <3>1
    <3> HIDE DEF Value
    <3>3. QED
      BY <3>2
  <2>2. QED
    BY <2>1
<1>2. \A m \in Nat : m \in S => m + 1 \in S
  <2> SUFFICES ASSUME NEW m \in Nat, NEW f, f = [i \in 0 .. m |-> Value(f, i)]
               PROVE  m + 1 \in S
    OBVIOUS
  <2> DEFINE g == [i \in 0 .. m + 1 |-> Value(f, i)]
  <2>1. \A i \in 0 .. m + 1 : i = 0 \/ (i # 0 /\ Parent(i) \in 0 .. m /\ Parent(i) \in 0 .. m + 1)
    <3> HIDE DEF g, Value
    <3>1. QED
      BY DEF Parent
  <2>2. \A i \in 0 .. m : g[i] = f[i]
    <3> SUFFICES ASSUME NEW i \in 0 .. m PROVE g[i] = f[i]
      OBVIOUS
    <3> HIDE DEF Value
    <3>1. i \in 0 .. m + 1
      OBVIOUS
    <3>2. QED
      BY <3>1
  <2>3. \A i \in 0 .. m + 1 : Value(g, i) = Value(f, i)
    <3> HIDE DEF g
    <3>1. QED
      BY <2>1, <2>2
  <2>4. g = [i \in 0 .. m + 1 |-> Value(g, i)]
    <3> HIDE DEF Value
    <3>1. QED
      BY <2>3
  <2>5. m + 1 \in Nat
    OBVIOUS
  <2> HIDE DEF g, Value
  <2>6. QED
    BY <2>4, <2>5
<1>3. n \in S
  <2> HIDE DEF S
  <2>1. n \in Nat
    OBVIOUS
  <2>2. QED
    BY <1>1, <1>2, <2>1, SetInduction
<1>4. F = [i \in 0 .. n |-> Value(F, i)]
  BY <1>3
<1>5. Visited(tree, point, radius) = {k \in DOMAIN tree : F[k]}
  BY DEF Visited
<1> HIDE DEF F
<1>6. \A i \in 0 .. n : F[i] = Value(F, i)
  BY <1>4
<1>7. n \in Nat /\ 0 \in 0 .. n /\ \A i \in 1 .. n : i \in 0 .. n /\ i # 0
  OBVIOUS
<1> DEFINE visited == Visited(tree, point, radius)
<1> HIDE DEF visited
<1>8. visited = {k \in 0 .. n : F[k]}
  BY <1>5 DEF visited
<1>9. visited \subseteq 0 .. size
  BY <1>8
<1>10. 0 \in visited
  BY <1>6, <1>7, <1>8
<1>11. ASSUME NEW i \in 1 .. size, Parent(i) \in visited,
              i \in Visits(tree, point, radius, Parent(i))
       PROVE  i \in visited
  <2>1. F[Parent(i)]
    BY <1>8, <1>11
  <2>2. Value(F, i)
    BY <1>11, <2>1
  <2> HIDE DEF Value
  <2>3. F[i]
    BY <1>6, <1>7, <2>2
  <2>4. QED
    BY <1>7, <1>8, <2>3
<1>12. QED
  BY <1>9, <1>10, <1>11 DEF visited

\* A node is visited if its parent is and the search goes on to it.
LEMMA VisitedFromParent ==
    ASSUME NEW tree, NEW size \in Nat \ {0}, DOMAIN tree = 0 .. size - 1, NEW point, NEW radius
    PROVE  LET visited == Visited(tree, point, radius)
           IN /\ visited \subseteq 0 .. size - 1 /\ 0 \in visited
              /\ \A n \in 1 .. size - 1 :
                     Parent(n) \in visited /\ n \in Visits(tree, point, radius, Parent(n))
                     => n \in visited
<1>1. size - 1 \in Nat
  OBVIOUS
<1>2. QED
  BY <1>1, VisitsOneByOne

\* A number that is nearer to 0 on the same side has the smaller square.
LEMMA SquareOrder ==
    ASSUME NEW a \in Int, NEW b \in Int, (0 <= a /\ a <= b) \/ (b <= a /\ a <= 0)
    PROVE  Square(a) <= Square(b)
<1>1. CASE 0 <= a /\ a <= b
  <2>1. a * a <= a * b /\ a * b <= b * b
    BY <1>1
  <2>2. a * a \in Int /\ a * b \in Int /\ b * b \in Int
    OBVIOUS
  <2>3. QED
    BY <2>1, <2>2 DEF Square
<1>2. CASE b <= a /\ a <= 0
  <2>1. a * a <= a * b /\ a * b <= b * b
    BY <1>2
  <2>2. a * a \in Int /\ a * b \in Int /\ b * b \in Int
    OBVIOUS
  <2>3. QED
    BY <2>1, <2>2 DEF Square
<1>3. QED
  BY <1>1, <1>2

\* A square is not negative.
LEMMA SquareIsNatural == ASSUME NEW a \in Int PROVE Square(a) \in Nat
<1>1. a * a \in Int /\ a * a >= 0
  OBVIOUS
<1>2. QED
  BY <1>1 DEF Square

\* No distance is less than that along an axis.
LEMMA DistanceAlongAxis ==
    ASSUME NEW p, NEW q, \A i \in Axes : p[i] \in Int /\ q[i] \in Int, NEW axis \in Axes
    PROVE  DistanceSquared(p, q) \in Nat /\ Square(p[axis] - q[axis]) <= DistanceSquared(p, q)
<1> DEFINE x == Square(p[1] - q[1])
           y == Square(p[2] - q[2])
           z == Square(p[3] - q[3])
<1>1. /\ p[1] - q[1] \in Int /\ p[2] - q[2] \in Int /\ p[3] - q[3] \in Int
      /\ axis = 1 \/ axis = 2 \/ axis = 3
  BY DEF Axes
<1>2. x \in Nat /\ y \in Nat /\ z \in Nat
  BY <1>1, SquareIsNatural
<1>3. DistanceSquared(p, q) = x + y + z
  BY DEF DistanceSquared
<1>4. \/ Square(p[axis] - q[axis]) = x
      \/ Square(p[axis] - q[axis]) = y
      \/ Square(p[axis] - q[axis]) = z
  BY <1>1
<1> HIDE DEF x, y, z
<1>5. QED
  BY <1>2, <1>3, <1>4

\* The nodes a photon is at or below
Above(f, size, e) == {n \in 0 .. size - 1 : e \in Content(f[n])}

\* These nodes are finitely many numbers.
LEMMA AboveIsFinite ==
    ASSUME NEW f, NEW size \in Nat, NEW e, NEW T \in SUBSET Above(f, size, e)
    PROVE  IsFiniteSet(T) /\ T \in SUBSET Int
<1>1. 0 \in Int /\ size - 1 \in Int
  OBVIOUS
<1>2. IsFiniteSet(0 .. size - 1)
  BY <1>1, FS_Interval
<1>3. T \subseteq 0 .. size - 1
  BY DEF Above
<1>4. IsFiniteSet(T)
  BY <1>2, <1>3, FS_Subset
<1>5. T \in SUBSET Int
  BY <1>3
<1>6. QED
  BY <1>4, <1>5

\* Below the root, it is also at or below the parent, and not the parent's own.
LEMMA AboveParent ==
    ASSUME NEW V, NEW f, NEW size \in Nat, TreeOK(f, size, V), NEW e,
           NEW n \in Above(f, size, e), n # 0
    PROVE  LET p == Parent(n)
           IN /\ p \in Above(f, size, e) /\ p < n /\ f[p].type \in Axes /\ f[p].photon # e
              /\ \/ n = 2 * p + 1 /\ e \in Members(f[p].left) /\ e \notin Members(f[p].right)
                 \/ n = 2 * p + 2 /\ e \in Members(f[p].right) /\ e \notin Members(f[p].left)
<1> DEFINE p == Parent(n)
<1>1. n \in 1 .. size - 1 /\ e \in Content(f[n]) /\ n \in Nat \ {0}
  BY DEF Above
<1>2. p \in 0 .. size - 1 /\ p < n /\ (n = 2 * p + 1 \/ n = 2 * p + 2)
  BY <1>1, ParentOf
<1>3. f[p].type \in Axes
  BY <1>1 DEF TreeOK
<1> HIDE DEF p
<1>4. /\ Content(f[2 * p + 1]) = Members(f[p].left) /\ Content(f[2 * p + 2]) = Members(f[p].right)
      /\ NodeOK(f[p], V)
  BY <1>2, <1>3 DEF TreeOK
<1>5. /\ f[p].photon \notin Members(f[p].left) /\ f[p].photon \notin Members(f[p].right)
      /\ Members(f[p].left) \cap Members(f[p].right) = {}
  BY <1>3, <1>4 DEF NodeOK, Divides
<1>6. \/ n = 2 * p + 1 /\ e \in Members(f[p].left) /\ e \notin Members(f[p].right)
      \/ n = 2 * p + 2 /\ e \in Members(f[p].right) /\ e \notin Members(f[p].left)
  BY <1>1, <1>2, <1>4, <1>5
<1>7. f[p].photon # e /\ e \in Content(f[p])
  BY <1>3, <1>5, <1>6 DEF Content
<1>8. QED
  BY <1>2, <1>3, <1>6, <1>7 DEF Above, p

\* These nodes are on one line.
LEMMA AboveIsLine ==
    ASSUME NEW V, NEW f, NEW size \in Nat, TreeOK(f, size, V), NEW e,
           NEW m \in Above(f, size, e), NEW n \in Above(f, size, e), n < m
    PROVE  n <= Parent(m)
<1> DEFINE A == Above(f, size, e)
           S == {k \in Nat : \A a, b \in A : a < b /\ b <= k => a <= Parent(b)}
<1>1. A \subseteq Nat
  BY DEF Above
<1> HIDE DEF A
<1>2. 0 \in S
  BY <1>1
<1>3. ASSUME NEW k \in Nat, k \in S PROVE k + 1 \in S
  <2> SUFFICES ASSUME NEW a \in A, NEW b \in A, a < b, b = k + 1, Parent(b) < a PROVE FALSE
    <3>1. \A a, b \in A : b <= k + 1 => b <= k \/ b = k + 1
      BY <1>1
    <3>2. \A a, b \in A : a \in Nat /\ b \in Nat /\ (b # 0 => Parent(b) \in Nat)
      BY <1>1, ParentOf
    <3>3. \A a, b \in A : a < b => b # 0
      BY <1>1
    <3>4. QED
      BY <1>3, <3>1, <3>2, <3>3
  <2> DEFINE p == Parent(b)
             q == Parent(a)
  <2>1. a \in Nat /\ b \in Nat \ {0}
    BY <1>1
  <2>2. p \in Nat
    BY <2>1, ParentOf
  <2>3. a # 0
    BY <2>1, <2>2
  <2>4. /\ p \in A
        /\ \/ b = 2 * p + 1 /\ e \in Members(f[p].left) /\ e \notin Members(f[p].right)
           \/ b = 2 * p + 2 /\ e \in Members(f[p].right) /\ e \notin Members(f[p].left)
    BY <2>1, AboveParent DEF A
  <2>5. /\ q \in A
        /\ \/ a = 2 * q + 1 /\ e \in Members(f[q].left) /\ e \notin Members(f[q].right)
           \/ a = 2 * q + 2 /\ e \in Members(f[q].right) /\ e \notin Members(f[q].left)
    BY <2>3, AboveParent DEF A
  <2>6. p < a
    OBVIOUS
  <2>7. p <= q
    <3>1. a <= k
      BY <2>1
    <3>2. QED
      BY <1>3, <2>4, <2>6, <3>1
  <2>8. q \in Nat
    BY <1>1, <2>5
  <2> HIDE DEF p, q
  <2>9. p = q
    BY <2>1, <2>2, <2>4, <2>5, <2>7, <2>8
  <2>10. a # b
    BY <2>1
  <2>11. QED
    BY <2>4, <2>5, <2>9, <2>10
<1>4. Nat \subseteq S
  <2> HIDE DEF S
  <2>1. QED
    BY <1>2, <1>3, SetInduction
<1>5. m \in Nat /\ m <= m /\ m \in S
  BY <1>1, <1>4 DEF A
<1>6. QED
  BY <1>5 DEF A

\* No photon is below its own node, and each has one.
LEMMA OwnNodeIsLast ==
    ASSUME NEW V, NEW f, NEW size \in Nat, TreeOK(f, size, V), NEW e,
           NEW h \in Above(f, size, e), f[h].photon = e, NEW m \in Above(f, size, e)
    PROVE  m <= h
<1> DEFINE A == Above(f, size, e)
           B == {b \in A : b > h}
<1> SUFFICES ASSUME m \in B PROVE FALSE
  <2>1. m \in Int /\ h \in Int
    BY DEF Above
  <2>2. QED
    BY <2>1
<1>1. A \subseteq Nat
  BY DEF Above
<1>2. IsFiniteSet(B) /\ B \in SUBSET Int /\ B # {}
  BY AboveIsFinite
<1> HIDE DEF A
<1> DEFINE b == Min(B)
<1>3. b \in B /\ \A c \in B : b <= c
  <2> HIDE DEF B
  <2>1. QED
    BY <1>2, MaxMin
<1> HIDE DEF b
<1>4. b \in A /\ h < b /\ b \in Nat /\ h \in Nat /\ b # 0
  BY <1>1, <1>3 DEF A
<1>5. Parent(b) \in A /\ Parent(b) < b /\ f[Parent(b)].photon # e
  BY <1>4, AboveParent DEF A
<1>6. h <= Parent(b)
  BY <1>4, AboveIsLine DEF A
<1> DEFINE p == Parent(b)
<1>7. p \in A /\ p < b /\ f[p].photon # e /\ h <= p /\ p \in Nat
  BY <1>1, <1>5, <1>6
<1> HIDE DEF p
<1>8. p \notin B
  <2>1. ~(b <= p)
    BY <1>4, <1>7
  <2>2. QED
    BY <1>3, <2>1
<1>9. p = h
  <2>1. ~(p > h)
    BY <1>7, <1>8
  <2>2. QED
    BY <1>4, <1>7, <2>1
<1>10. QED
  BY <1>7, <1>9

\* The last of the nodes on a photon's line holds the photon itself.
LEMMA OwnNode ==
    ASSUME NEW V, NEW f, NEW size \in Nat \ {0}, TreeOK(f, size, V), NEW e \in V
    PROVE  \E h \in Above(f, size, e) : f[h].photon = e /\ f[h].type \in Axes \cup {Leaf}
<1> DEFINE A == Above(f, size, e)
           h == Max(A)
<1>1. 0 \in A
  BY DEF Above, TreeOK
<1>2. IsFiniteSet(A) /\ A \in SUBSET Int /\ A # {}
  BY <1>1, AboveIsFinite
<1>3. h \in A /\ \A a \in A : h >= a
  <2> HIDE DEF A
  <2>1. QED
    BY <1>2, MaxMin
<1> HIDE DEF h
<1>4. h \in 0 .. size - 1 /\ e \in Content(f[h])
  BY <1>3 DEF Above
<1>5. CASE f[h].type \in Axes
  <2>1. /\ 2 * h + 2 <= size - 1
        /\ Content(f[2 * h + 1]) = Members(f[h].left)
        /\ Content(f[2 * h + 2]) = Members(f[h].right)
    BY <1>4, <1>5 DEF TreeOK
  <2>2. 2 * h + 1 \in 0 .. size - 1 /\ 2 * h + 2 \in 0 .. size - 1 /\ 2 * h + 1 > h /\ 2 * h + 2 > h
    BY <1>4, <2>1
  <2>3. 2 * h + 1 \notin A /\ 2 * h + 2 \notin A
    <3> HIDE DEF A
    <3>1. QED
      BY <1>3, <1>4, <2>2
  <2>4. e \notin Members(f[h].left) /\ e \notin Members(f[h].right)
    BY <2>1, <2>2, <2>3 DEF Above
  <2>5. f[h].photon = e
    BY <1>4, <1>5, <2>4 DEF Content
  <2>6. QED
    BY <1>3, <1>5, <2>5
<1>6. CASE f[h].type \notin Axes
  BY <1>3, <1>4, <1>6 DEF Content
<1>7. QED
  BY <1>5, <1>6

\* The search comes to every node that a photon within the radius is at or below: a part
\* of the tree is left out only if its plane is not nearer.
LEMMA SearchComesTo ==
    ASSUME NEW V, Placed(V), NEW f, NEW size \in Nat \ {0}, DOMAIN f = 0 .. size - 1,
           TreeOK(f, size, V), NEW tree,
           tree = [n \in DOMAIN f |-> [type |-> f[n].type, photon |-> f[n].photon]],
           NEW point, \A i \in Axes : point[i] \in Int, NEW radius \in Int,
           NEW e \in V, DistanceSquared(point, e.at) < Square(radius)
    PROVE  Above(f, size, e) \subseteq Visited(tree, point, radius)
<1> DEFINE A == Above(f, size, e)
           visited == Visited(tree, point, radius)
           S == {n \in Nat : n \in A => n \in visited}
<1>1. DOMAIN tree = 0 .. size - 1
  OBVIOUS
<1>2. /\ 0 \in visited
      /\ \A n \in 1 .. size - 1 :
             Parent(n) \in visited /\ n \in Visits(tree, point, radius, Parent(n)) => n \in visited
  BY <1>1, VisitedFromParent
<1> HIDE DEF visited
<1>3. ASSUME NEW n \in Nat \ {0}, Parent(n) \in S PROVE n \in S
  <2> SUFFICES ASSUME n \in A PROVE n \in visited
    OBVIOUS
  <2> DEFINE p == Parent(n)
             q == f[p].photon
             axis == f[p].type
             distance == point[axis] - q.at[axis]
             away == point[axis] - e.at[axis]
  <2>1. /\ p \in A /\ axis \in Axes
        /\ \/ n = 2 * p + 1 /\ e \in Members(f[p].left)
           \/ n = 2 * p + 2 /\ e \in Members(f[p].right)
    BY AboveParent
  <2>2. n \in 1 .. size - 1 /\ p \in 0 .. size - 1 /\ p \in Nat
    BY <2>1 DEF Above
  <2>3. p \in visited
    BY <1>3, <2>1, <2>2
  <2>4. NodeOK(f[p], V)
    BY <2>2 DEF TreeOK
  <2>5. /\ q \in V
        /\ e \in Members(f[p].left) => e.at[axis] <= q.at[axis]
        /\ e \in Members(f[p].right) => e.at[axis] >= q.at[axis]
    BY <2>1, <2>4 DEF NodeOK, Divides
  <2>6. point[axis] \in Int /\ q.at[axis] \in Int /\ e.at[axis] \in Int
    <3>1. axis \in Axes /\ q \in V /\ e \in V
      BY <2>1, <2>5
    <3>2. QED
      BY <3>1 DEF Placed
  <2>7. Square(away) < Square(radius)
    <3>1. \A i \in Axes : point[i] \in Int /\ e.at[i] \in Int
      BY DEF Placed
    <3>2. /\ DistanceSquared(point, e.at) \in Nat
          /\ Square(point[axis] - e.at[axis]) <= DistanceSquared(point, e.at)
      BY <2>1, <3>1, DistanceAlongAxis
    <3>3. Square(away) \in Nat /\ Square(radius) \in Nat
      <4>1. away \in Int
        BY <2>6
      <4> HIDE DEF away
      <4>2. QED
        BY <4>1, SquareIsNatural
    <3>4. QED
      BY <3>2, <3>3
  <2>8. tree[p].type = axis /\ tree[p].photon = q /\ axis \in Axes
    BY <2>1, <2>2
  <2>9. Visits(tree, point, radius, p) =
            {IF distance < 0 THEN 2 * p + 1 ELSE 2 * p + 2}
                \cup IF Square(distance) < Square(radius) THEN {2 * p + 1, 2 * p + 2} ELSE {}
    BY <2>8, Zenon DEF Visits
  <2>10. distance \in Int /\ away \in Int
    BY <2>6
  <2>11. ASSUME Square(distance) <= Square(away) PROVE n \in Visits(tree, point, radius, p)
    <3>1. Square(distance) \in Nat /\ Square(away) \in Nat /\ Square(radius) \in Nat
      BY <2>10, SquareIsNatural
    <3> HIDE DEF distance, away
    <3>2. Square(distance) < Square(radius)
      BY <2>7, <2>11, <3>1
    <3>3. QED
      BY <2>1, <2>9, <3>2
  <2>12. CASE n = 2 * p + 1 /\ e \in Members(f[p].left)
    <3>1. e.at[axis] <= q.at[axis]
      BY <2>5, <2>12
    <3>2. distance <= away
      BY <2>6, <3>1
    <3>3. n \in Visits(tree, point, radius, p)
      <4> HIDE DEF distance, away, q, axis, p
      <4>1. CASE distance < 0
        <5>1. n = IF distance < 0 THEN 2 * p + 1 ELSE 2 * p + 2
          BY <2>12, <4>1
        <5>2. QED
          BY <2>9, <5>1
      <4>2. CASE 0 <= distance
        <5>1. Square(distance) <= Square(away)
          BY <2>10, <3>2, <4>2, SquareOrder
        <5>2. QED
          BY <2>11, <5>1
      <4>3. QED
        BY <2>10, <4>1, <4>2
    <3>4. QED
      BY <1>2, <2>2, <2>3, <3>3
  <2>13. CASE n = 2 * p + 2 /\ e \in Members(f[p].right)
    <3>1. e.at[axis] >= q.at[axis]
      BY <2>5, <2>13
    <3>2. away <= distance
      BY <2>6, <3>1
    <3>3. n \in Visits(tree, point, radius, p)
      <4> HIDE DEF distance, away, q, axis, p
      <4>1. CASE ~(distance < 0)
        <5>1. n = IF distance < 0 THEN 2 * p + 1 ELSE 2 * p + 2
          BY <2>13, <4>1
        <5>2. QED
          BY <2>9, <5>1
      <4>2. CASE distance < 0
        <5>1. distance <= 0
          BY <2>10, <4>2
        <5>2. Square(distance) <= Square(away)
          BY <2>10, <3>2, <5>1, SquareOrder
        <5>3. QED
          BY <2>11, <5>2
      <4>3. QED
        BY <4>1, <4>2
    <3>4. QED
      BY <1>2, <2>2, <2>3, <3>3
  <2>14. QED
    BY <2>1, <2>12, <2>13
<1>4. 0 \in S
  BY <1>2
<1>5. Nat \subseteq S
  <2> HIDE DEF S
  <2>1. QED
    BY <1>3, <1>4, FromParents
<1>6. A \subseteq Nat
  BY DEF Above
<1>7. QED
  BY <1>5, <1>6 DEF visited

\* How often a photon is found
THEOREM TreeFindsOnce ==
    ASSUME NEW number \in Nat \ {0}, NEW photons, Distinct(photons, number), Placed(Valid(photons)),
           NEW point, \A i \in Axes : point[i] \in Int, NEW radius \in Int,
           NEW e \in Valid(photons)
    PROVE  LET times == TimesFoundInTree(PhotonTree(photons), point, radius, e)
               distance == DistanceSquared(point, e.at)
           IN /\ distance < Square(radius) => times = 1
              /\ distance = Square(radius) => times = 0 \/ times = 1
              /\ distance > Square(radius) => times = 0
<1> DEFINE V == Valid(photons)
           tree == PhotonTree(photons)
           distance == DistanceSquared(point, e.at)
           Found == {n \in Visited(tree, point, radius) :
                        /\ tree[n].type # Null
                        /\ tree[n].photon = e
                        /\ DistanceSquared(point, e.at) <= Square(radius)}
<1>1. PICK f, size : /\ size \in Nat \ {0} /\ DOMAIN f = 0 .. size - 1
                     /\ TreeOK(f, size, V)
                     /\ tree = [n \in DOMAIN f |-> [type |-> f[n].type, photon |-> f[n].photon]]
  BY PhotonTreeOK
<1> HIDE DEF tree
<1>2. DOMAIN tree = 0 .. size - 1
  BY <1>1
<1>3. Visited(tree, point, radius) \subseteq 0 .. size - 1
  BY <1>1, <1>2, VisitedFromParent
<1>4. e # NoPhoton
  BY DEF Valid, IsValid, NoPhoton
<1>5. PICK h \in Above(f, size, e) : f[h].photon = e /\ f[h].type \in Axes \cup {Leaf}
  BY <1>1, OwnNode
<1>6. h \in 0 .. size - 1
  BY DEF Above
<1>7. tree[h].type # Null /\ tree[h].photon = e
  <2>1. tree[h].type = f[h].type /\ tree[h].photon = f[h].photon
    BY <1>1, <1>6
  <2>2. Null \notin Axes \cup {Leaf}
    BY DEF Null, Axes, Leaf
  <2>3. QED
    BY <1>5, <2>1, <2>2
<1>8. ASSUME NEW n \in Found PROVE n = h
  <2>1. n \in 0 .. size - 1
    BY <1>3
  <2>2. f[n].photon = e
    BY <1>1, <2>1
  <2>3. f[n].type \in Axes \cup {Leaf}
    <3>1. NodeOK(f[n], V)
      BY <1>1, <2>1 DEF TreeOK
    <3>2. QED
      BY <1>4, <2>2, <3>1 DEF NodeOK
  <2>4. e \in Content(f[n])
    BY <2>2, <2>3 DEF Content
  <2>5. n \in Above(f, size, e)
    BY <2>1, <2>4 DEF Above
  <2>6. n <= h /\ h <= n
    BY <1>1, <1>5, <2>2, <2>5, OwnNodeIsLast
  <2>7. QED
    BY <1>6, <2>1, <2>6
<1>9. Cardinality({h}) = 1 /\ Cardinality({}) = 0
  BY FS_Singleton, FS_EmptySet
<1>10. Found = {} \/ Found = {h}
  BY <1>8
<1>11. ASSUME distance < Square(radius) PROVE Found = {h}
  <2>1. h \in Visited(tree, point, radius)
    BY <1>1, <1>5, <1>11, SearchComesTo
  <2>2. distance <= Square(radius)
    <3>1. distance \in Nat
      <4>1. \A i \in Axes : point[i] \in Int /\ e.at[i] \in Int
        BY DEF Placed
      <4>2. 1 \in Axes
        BY DEF Axes
      <4>3. QED
        BY <4>1, <4>2, DistanceAlongAxis
    <3>2. Square(radius) \in Nat
      BY SquareIsNatural
    <3> HIDE DEF distance
    <3>3. QED
      BY <1>11, <3>1, <3>2
  <2>3. h \in Found
    BY <1>7, <2>1, <2>2
  <2>4. QED
    BY <1>10, <2>3
<1>12. ASSUME distance > Square(radius) PROVE Found = {}
  <2>1. ~(distance <= Square(radius))
    <3>1. distance \in Nat
      <4>1. \A i \in Axes : point[i] \in Int /\ e.at[i] \in Int
        BY DEF Placed
      <4>2. 1 \in Axes
        BY DEF Axes
      <4>3. QED
        BY <4>1, <4>2, DistanceAlongAxis
    <3>2. Square(radius) \in Nat
      BY SquareIsNatural
    <3> HIDE DEF distance
    <3>3. QED
      BY <1>12, <3>1, <3>2
  <2>2. QED
    BY <2>1
<1>13. TimesFoundInTree(tree, point, radius, e) = Cardinality(Found)
  BY DEF TimesFoundInTree
<1> HIDE DEF Found
<1>14. QED
  BY <1>9, <1>10, <1>11, <1>12, <1>13 DEF tree

=============================================================================
