--------------------------- MODULE VcmPath_proofs ---------------------------
(***************************************************************************)
(* Proofs for VcmPath: for every scene, every length of a path and every   *)
(* numbers that obey the laws of sums, products and quotients, the weights *)
(* of the bidirectional path tracer are those of the balance heuristic,    *)
(* and each technique contributes once.                                    *)
(***************************************************************************)
EXTENDS VcmPath, WellFoundedInduction, TLAPS

-----------------------------------------------------------------------------
(***************************************************************************)
(* Induction, and the recursive functions of VcmPath: Total, Product and   *)
(* the loop of connectVertices are all a value carried along the numbers   *)
(* up to n, one step for each.                                             *)
(***************************************************************************)

\* The order of the natural numbers, as a set of pairs.
Less == {ss \in Nat \X Nat : ss[1] < ss[2]}

LEMMA NatLess == IsWellFoundedOn(Less, Nat)
BY NatLessThanWellFounded DEF OpToRel, Less

\* Induction: the least number outside S would have its predecessor in S.
LEMMA SetInduction ==
    ASSUME NEW S, 0 \in S, \A n \in Nat : n \in S => n + 1 \in S
    PROVE  Nat \subseteq S
<1> DEFINE T == Nat \ S
<1>1. SUFFICES ASSUME T # {} PROVE FALSE
  OBVIOUS
<1>2. PICK x \in T : \A y \in T : <<y, x>> \notin Less
  <2>1. T \subseteq Nat
    OBVIOUS
  <2> HIDE DEF T
  <2>2. QED
    BY <1>1, <2>1, NatLess, WFMin
<1>3. x # 0 /\ x \in Nat
  OBVIOUS
<1>4. x - 1 \in Nat /\ x - 1 < x /\ x - 1 + 1 = x
  BY <1>3
<1>5. x - 1 \notin T
  BY <1>2, <1>3, <1>4 DEF Less
<1>6. QED
  BY <1>3, <1>4, <1>5

\* Some g carries the value v along 1 .. n, step[k] taking it from k - 1 to k.
Iterates(V, v, n, step) ==
    \E g \in [0 .. n -> V] : g[0] = v /\ \A k \in 1 .. n : g[k] = step[k][g[k - 1]]

\* Every such iteration exists.
LEMMA Iteration ==
    ASSUME NEW V, NEW v \in V, NEW n \in Nat, NEW step,
           \A k \in 1 .. n : \A x \in V : step[k][x] \in V
    PROVE  Iterates(V, v, n, step)
<1> DEFINE Follows(g, m) == g[0] = v /\ \A k \in 1 .. m : g[k] = step[k][g[k - 1]]
           Upto == {m \in Nat : m <= n => \E g \in [0 .. m -> V] : Follows(g, m)}
<1>1. 0 \in Upto
  <2>1. [k \in 0 .. 0 |-> v] \in [0 .. 0 -> V] /\ Follows([k \in 0 .. 0 |-> v], 0)
    OBVIOUS
  <2>2. QED
    BY <2>1
<1>2. ASSUME NEW m \in Nat, m \in Upto PROVE m + 1 \in Upto
  <2>1. m + 1 \in Nat
    OBVIOUS
  <2>2. SUFFICES ASSUME m + 1 <= n PROVE \E g \in [0 .. m + 1 -> V] : Follows(g, m + 1)
    BY <2>1, Zenon
  <2>3. PICK g \in [0 .. m -> V] : Follows(g, m)
    BY <1>2, <2>2
  <2> DEFINE h == [k \in 0 .. m + 1 |-> IF k = m + 1 THEN step[m + 1][g[m]] ELSE g[k]]
  <2>4. m + 1 \in 1 .. n /\ g[m] \in V
    BY <2>2, <2>3
  <2>5. step[m + 1][g[m]] \in V
    BY <2>4
  <2>6. h \in [0 .. m + 1 -> V]
    BY <2>3, <2>5
  <2>7. \A k \in 0 .. m : h[k] = g[k]
    OBVIOUS
  <2>8. h[m + 1] = step[m + 1][g[m]]
    OBVIOUS
  <2>9. ASSUME NEW k \in 1 .. m + 1 PROVE h[k] = step[k][h[k - 1]]
    <3> HIDE DEF h
    <3>1. CASE k = m + 1
      <4>1. k - 1 = m /\ m \in 0 .. m
        BY <3>1
      <4>2. QED
        BY <2>7, <2>8, <3>1, <4>1
    <3>2. CASE k # m + 1
      <4>1. k \in 1 .. m /\ k \in 0 .. m /\ k - 1 \in 0 .. m
        BY <3>2
      <4>2. QED
        BY <2>3, <2>7, <4>1
    <3>3. QED
      BY <3>1, <3>2
  <2>10. h[0] = v
    BY <2>3, <2>7
  <2>11. QED
    BY <2>6, <2>9, <2>10
<1>3. Nat \subseteq Upto
  <2> HIDE DEF Upto
  <2>1. QED
    BY <1>1, <1>2, SetInduction
<1>4. QED
  BY <1>3 DEF Iterates

\* Any function that adds up f step by step is the one Total chooses.
LEMMA TotalIs ==
    ASSUME NEW n \in Nat, NEW f, \A k \in 1 .. n : f[k] \in Numbers,
           NEW g, g[0] = Zero, \A k \in 1 .. n : g[k] = Plus(g[k - 1], f[k])
    PROVE  Total(f, n) = g[n]
<1> DEFINE Body(h) == [k \in 0 .. n |-> IF k = 0 THEN Zero ELSE Plus(h[k - 1], f[k])]
           upTo == CHOOSE h : h = Body(h)
           Agree == {m \in Nat : m <= n => upTo[m] = g[m]}
<1>1. Total(f, n) = upTo[n]
  BY DEF Total
<1>2. \E h : h = Body(h)
  <2> DEFINE h == [k \in 0 .. n |-> g[k]]
  <2>1. \A k \in 1 .. n : h[k] = Plus(h[k - 1], f[k])
    OBVIOUS
  <2>2. h = Body(h)
    BY <2>1
  <2>3. QED
    BY <2>2
<1>3. upTo = Body(upTo)
  BY <1>2
<1> HIDE DEF upTo
<1>4. upTo[0] = Zero /\ \A k \in 1 .. n : upTo[k] = Plus(upTo[k - 1], f[k])
  BY <1>3
<1>5. 0 \in Agree
  BY <1>4
<1>6. ASSUME NEW m \in Nat, m \in Agree PROVE m + 1 \in Agree
  <2>1. SUFFICES ASSUME m + 1 <= n PROVE upTo[m + 1] = g[m + 1]
    OBVIOUS
  <2>2. upTo[m] = g[m] /\ m + 1 \in 1 .. n /\ m + 1 - 1 = m
    BY <1>6, <2>1
  <2>3. upTo[m + 1] = Plus(upTo[m], f[m + 1]) /\ g[m + 1] = Plus(g[m], f[m + 1])
    BY <1>4, <2>2
  <2>4. QED
    BY <2>2, <2>3
<1>7. Nat \subseteq Agree
  <2> HIDE DEF Agree
  <2>1. QED
    BY <1>5, <1>6, SetInduction
<1>8. QED
  BY <1>1, <1>7

\* The partial sums of f are numbers.
LEMMA PartialTotals ==
    ASSUME NEW n \in Nat, NEW f, \A k \in 1 .. n : f[k] \in Numbers
    PROVE  \E g \in [0 .. n -> Numbers] :
               g[0] = Zero /\ \A k \in 1 .. n : g[k] = Plus(g[k - 1], f[k])
<1> DEFINE step == [k \in 1 .. n |-> [x \in Numbers |-> Plus(x, f[k])]]
<1>1. \A k \in 1 .. n : \A x \in Numbers : step[k][x] \in Numbers
  BY NumbersAssumption
<1>2. Zero \in Numbers
  BY NumbersAssumption
<1>3. Iterates(Numbers, Zero, n, step)
  <2> HIDE DEF step
  <2>1. QED
    BY <1>1, <1>2, Iteration
<1>4. PICK g \in [0 .. n -> Numbers] : g[0] = Zero /\ \A k \in 1 .. n : g[k] = step[k][g[k - 1]]
  BY <1>3 DEF Iterates
<1>5. \A k \in 1 .. n : g[k - 1] \in Numbers
  <2>1. \A k \in 1 .. n : k - 1 \in 0 .. n
    OBVIOUS
  <2>2. QED
    BY <1>4, <2>1
<1>6. \A k \in 1 .. n : step[k][g[k - 1]] = Plus(g[k - 1], f[k])
  BY <1>5
<1>7. QED
  <2> HIDE DEF step
  <2>1. QED
    BY <1>4, <1>6

\* One more summand.
LEMMA TotalStep ==
    ASSUME NEW n \in Nat, NEW f, \A k \in 1 .. n + 1 : f[k] \in Numbers
    PROVE  Total(f, n + 1) = Plus(Total(f, n), f[n + 1])
<1>1. PICK g \in [0 .. n + 1 -> Numbers] :
          g[0] = Zero /\ \A k \in 1 .. n + 1 : g[k] = Plus(g[k - 1], f[k])
  BY PartialTotals, n + 1 \in Nat
<1>2. Total(f, n + 1) = g[n + 1]
  BY <1>1, TotalIs, n + 1 \in Nat
<1>3. Total(f, n) = g[n]
  BY <1>1, TotalIs
<1>4. g[n + 1] = Plus(g[n], f[n + 1])
  BY <1>1
<1>5. QED
  BY <1>2, <1>3, <1>4

LEMMA TotalEmpty == ASSUME NEW f PROVE Total(f, 0) = Zero
<1> DEFINE g == [k \in 0 .. 0 |-> Zero]
<1>1. g[0] = Zero /\ \A k \in 1 .. 0 : FALSE
  OBVIOUS
<1> HIDE DEF g
<1>2. Total(f, 0) = g[0]
  BY <1>1, TotalIs, 0 \in Nat
<1>3. QED
  BY <1>1, <1>2

LEMMA TotalType ==
    ASSUME NEW n \in Nat, NEW f, \A k \in 1 .. n : f[k] \in Numbers
    PROVE  Total(f, n) \in Numbers
<1>1. PICK g \in [0 .. n -> Numbers] :
          g[0] = Zero /\ \A k \in 1 .. n : g[k] = Plus(g[k - 1], f[k])
  BY PartialTotals
<1>2. Total(f, n) = g[n]
  BY <1>1, TotalIs
<1>3. QED
  BY <1>1, <1>2

\* Total looks at nothing but the first n values.
LEMMA TotalSame ==
    ASSUME NEW n \in Nat, NEW f, NEW h, \A k \in 1 .. n : f[k] \in Numbers,
           \A k \in 1 .. n : h[k] = f[k]
    PROVE  Total(h, n) = Total(f, n)
<1>1. PICK g \in [0 .. n -> Numbers] :
          g[0] = Zero /\ \A k \in 1 .. n : g[k] = Plus(g[k - 1], f[k])
  BY PartialTotals
<1>2. Total(f, n) = g[n]
  BY <1>1, TotalIs
<1>3. Total(h, n) = g[n]
  BY <1>1, TotalIs
<1>4. QED
  BY <1>2, <1>3

-----------------------------------------------------------------------------
(***************************************************************************)
(* Sums, products and quotients: NumbersAssumption, one law at a time, and *)
(* what follows of quotients.                                              *)
(***************************************************************************)

\* The laws of sums.
LEMMA NumbersAdd ==
    /\ Zero \in Numbers
    /\ \A x, y \in Numbers : Plus(x, y) \in Numbers /\ Plus(x, y) = Plus(y, x)
    /\ \A x, y, z \in Numbers : Plus(Plus(x, y), z) = Plus(x, Plus(y, z))
    /\ \A x \in Numbers : Plus(x, Zero) = x
BY NumbersAssumption

\* The laws of products.
LEMMA NumbersMultiply ==
    /\ One \in Numbers
    /\ \A x, y \in Numbers : Times(x, y) \in Numbers /\ Times(x, y) = Times(y, x)
    /\ \A x, y, z \in Numbers : Times(Times(x, y), z) = Times(x, Times(y, z))
    /\ \A x \in Numbers : Times(x, One) = x
<1>1. One \in Numbers
  BY NumbersAssumption DEF Positive
<1>2. \A x, y \in Numbers : Times(x, y) \in Numbers /\ Times(x, y) = Times(y, x)
  BY NumbersAssumption
<1>3. \A x, y, z \in Numbers : Times(Times(x, y), z) = Times(x, Times(y, z))
  BY NumbersAssumption
<1>4. \A x \in Numbers : Times(x, One) = x
  BY NumbersAssumption
<1>5. QED
  BY <1>1, <1>2, <1>3, <1>4

LEMMA Associate ==
    ASSUME NEW x \in Numbers, NEW y \in Numbers, NEW z \in Numbers
    PROVE  Times(Times(x, y), z) = Times(x, Times(y, z))
BY NumbersAssumption

LEMMA NumbersDistribute ==
    /\ \A x, y, z \in Numbers : Times(x, Plus(y, z)) = Plus(Times(x, y), Times(x, z))
    /\ \A x \in Numbers : Times(x, Zero) = Zero
<1>1. \A x, y, z \in Numbers : Times(x, Plus(y, z)) = Plus(Times(x, y), Times(x, z))
  BY NumbersAssumption
<1>2. \A x \in Numbers : Times(x, Zero) = Zero
  BY NumbersAssumption
<1>3. QED
  BY <1>1, <1>2

LEMMA NumbersInvert ==
    /\ Positive \subseteq Numbers
    /\ \A x \in Positive : Reciprocal(x) \in Positive /\ Times(x, Reciprocal(x)) = One
BY NumbersAssumption DEF Positive

\* No product of positive numbers is zero, because both can be divided out.
LEMMA PositiveTimes == \A x, y \in Positive : Times(x, y) \in Positive
<1>1. SUFFICES ASSUME NEW x \in Positive, NEW y \in Positive, Times(x, y) = Zero PROVE FALSE
  BY NumbersMultiply, NumbersInvert DEF Positive
<1>2. x = Times(Times(x, y), Reciprocal(y))
  BY NumbersMultiply, NumbersInvert
<1>3. x = Zero
  BY <1>1, <1>2, NumbersDistribute, NumbersMultiply, NumbersInvert
<1>4. QED
  BY <1>3 DEF Positive

LEMMA OverType ==
    /\ \A x \in Numbers, y \in Positive : Over(x, y) \in Numbers
    /\ \A x, y \in Positive : Over(x, y) \in Positive
BY NumbersMultiply, NumbersInvert, PositiveTimes DEF Over

\* To divide by y and to multiply by it cancel.
LEMMA OverTimes ==
    ASSUME NEW x \in Numbers, NEW y \in Positive
    PROVE  Times(Over(x, y), y) = x /\ Over(Times(x, y), y) = x
<1>1. /\ y \in Numbers /\ Reciprocal(y) \in Numbers
      /\ Times(y, Reciprocal(y)) = One /\ Times(Reciprocal(y), y) = One
  BY NumbersMultiply, NumbersInvert
<1>2. Times(Times(x, Reciprocal(y)), y) = Times(x, One)
  BY <1>1, NumbersMultiply
<1>3. Times(Times(x, y), Reciprocal(y)) = Times(x, One)
  BY <1>1, NumbersMultiply
<1>4. QED
  BY <1>2, <1>3, NumbersMultiply DEF Over

\* A quotient is the only number that gives x again.
LEMMA OverIs ==
    ASSUME NEW x \in Numbers, NEW y \in Positive, NEW w \in Numbers, Times(y, w) = x
    PROVE  w = Over(x, y)
BY NumbersMultiply, NumbersInvert DEF Over

\* As for sums: Product is what any step-by-step multiplication gives.
LEMMA ProductIs ==
    ASSUME NEW n \in Nat, NEW f, \A k \in 1 .. n : f[k] \in Positive,
           NEW g, g[0] = One, \A k \in 1 .. n : g[k] = Times(g[k - 1], f[k])
    PROVE  Product(f, n) = g[n]
<1> DEFINE Body(h) == [k \in 0 .. n |-> IF k = 0 THEN One ELSE Times(h[k - 1], f[k])]
           upTo == CHOOSE h : h = Body(h)
           Agree == {m \in Nat : m <= n => upTo[m] = g[m]}
<1>1. Product(f, n) = upTo[n]
  BY DEF Product
<1>2. \E h : h = Body(h)
  <2> DEFINE h == [k \in 0 .. n |-> g[k]]
  <2>1. \A k \in 1 .. n : h[k] = Times(h[k - 1], f[k])
    OBVIOUS
  <2>2. h = Body(h)
    BY <2>1
  <2>3. QED
    BY <2>2
<1>3. upTo = Body(upTo)
  BY <1>2
<1> HIDE DEF upTo
<1>4. upTo[0] = One /\ \A k \in 1 .. n : upTo[k] = Times(upTo[k - 1], f[k])
  BY <1>3
<1>5. 0 \in Agree
  BY <1>4
<1>6. ASSUME NEW m \in Nat, m \in Agree PROVE m + 1 \in Agree
  <2>1. SUFFICES ASSUME m + 1 <= n PROVE upTo[m + 1] = g[m + 1]
    OBVIOUS
  <2>2. upTo[m] = g[m] /\ m + 1 \in 1 .. n /\ m + 1 - 1 = m
    BY <1>6, <2>1
  <2>3. upTo[m + 1] = Times(upTo[m], f[m + 1]) /\ g[m + 1] = Times(g[m], f[m + 1])
    BY <1>4, <2>2
  <2>4. QED
    BY <2>2, <2>3
<1>7. Nat \subseteq Agree
  <2> HIDE DEF Agree
  <2>1. QED
    BY <1>5, <1>6, SetInduction
<1>8. QED
  BY <1>1, <1>7

LEMMA PartialProducts ==
    ASSUME NEW n \in Nat, NEW f, \A k \in 1 .. n : f[k] \in Positive
    PROVE  \E g \in [0 .. n -> Positive] :
               g[0] = One /\ \A k \in 1 .. n : g[k] = Times(g[k - 1], f[k])
<1> DEFINE step == [k \in 1 .. n |-> [x \in Positive |-> Times(x, f[k])]]
<1>1. \A k \in 1 .. n : \A x \in Positive : step[k][x] \in Positive
  BY PositiveTimes
<1>2. One \in Positive
  BY NumbersAssumption
<1>3. Iterates(Positive, One, n, step)
  <2> HIDE DEF step
  <2>1. QED
    BY <1>1, <1>2, Iteration
<1>4. PICK g \in [0 .. n -> Positive] : g[0] = One /\ \A k \in 1 .. n : g[k] = step[k][g[k - 1]]
  BY <1>3 DEF Iterates
<1>5. \A k \in 1 .. n : g[k - 1] \in Positive
  <2>1. \A k \in 1 .. n : k - 1 \in 0 .. n
    OBVIOUS
  <2>2. QED
    BY <1>4, <2>1
<1>6. \A k \in 1 .. n : step[k][g[k - 1]] = Times(g[k - 1], f[k])
  BY <1>5
<1>7. QED
  <2> HIDE DEF step
  <2>1. QED
    BY <1>4, <1>6

LEMMA ProductStep ==
    ASSUME NEW n \in Nat, NEW f, \A k \in 1 .. n + 1 : f[k] \in Positive
    PROVE  Product(f, n + 1) = Times(Product(f, n), f[n + 1])
<1>1. PICK g \in [0 .. n + 1 -> Positive] :
          g[0] = One /\ \A k \in 1 .. n + 1 : g[k] = Times(g[k - 1], f[k])
  BY PartialProducts, n + 1 \in Nat
<1>2. Product(f, n + 1) = g[n + 1]
  BY <1>1, ProductIs, n + 1 \in Nat
<1>3. Product(f, n) = g[n]
  BY <1>1, ProductIs
<1>4. g[n + 1] = Times(g[n], f[n + 1])
  BY <1>1
<1>5. QED
  BY <1>2, <1>3, <1>4

LEMMA ProductEmpty == ASSUME NEW f PROVE Product(f, 0) = One
<1> DEFINE g == [k \in 0 .. 0 |-> One]
<1>1. g[0] = One /\ \A k \in 1 .. 0 : FALSE
  OBVIOUS
<1> HIDE DEF g
<1>2. Product(f, 0) = g[0]
  BY <1>1, ProductIs, 0 \in Nat
<1>3. QED
  BY <1>1, <1>2

LEMMA ProductType ==
    ASSUME NEW n \in Nat, NEW f, \A k \in 1 .. n : f[k] \in Positive
    PROVE  Product(f, n) \in Positive
<1>1. PICK g \in [0 .. n -> Positive] :
          g[0] = One /\ \A k \in 1 .. n : g[k] = Times(g[k - 1], f[k])
  BY PartialProducts
<1>2. Product(f, n) = g[n]
  BY <1>1, ProductIs
<1>3. QED
  BY <1>1, <1>2

LEMMA ProductSame ==
    ASSUME NEW n \in Nat, NEW f, NEW h, \A k \in 1 .. n : f[k] \in Positive,
           \A k \in 1 .. n : h[k] = f[k]
    PROVE  Product(h, n) = Product(f, n)
<1>1. PICK g \in [0 .. n -> Positive] :
          g[0] = One /\ \A k \in 1 .. n : g[k] = Times(g[k - 1], f[k])
  BY PartialProducts
<1>2. Product(f, n) = g[n]
  BY <1>1, ProductIs
<1>3. Product(h, n) = g[n]
  BY <1>1, ProductIs
<1>4. QED
  BY <1>2, <1>3

-----------------------------------------------------------------------------
(***************************************************************************)
(* Identities that the walks need, each for numbers of any kind: what      *)
(* becomes of the carried quantities on a hit (Turn...), at the light      *)
(* (EmissionLaw) and where a point on the light is sampled (SamplingLaw).  *)
(***************************************************************************)

\* The laws by which a quotient is reduced.
LEMMA Reduce ==
    ASSUME NEW a \in Positive, NEW x \in Numbers
    PROVE  Times(a, Times(x, Reciprocal(a))) = x
BY NumbersMultiply, NumbersInvert

LEMMA ReduceTwo ==
    ASSUME NEW a \in Positive, NEW b \in Positive, NEW x \in Numbers
    PROVE  Times(Times(a, b), Times(Times(x, Reciprocal(a)), Reciprocal(b))) = x
<1>1. /\ a \in Numbers /\ b \in Numbers
      /\ Reciprocal(a) \in Numbers /\ Times(x, Reciprocal(a)) \in Numbers
      /\ Times(Times(x, Reciprocal(a)), Reciprocal(b)) \in Numbers
  BY NumbersMultiply, NumbersInvert
<1>2. Times(Times(a, b), Times(Times(x, Reciprocal(a)), Reciprocal(b)))
          = Times(a, Times(b, Times(Times(x, Reciprocal(a)), Reciprocal(b))))
  BY <1>1, NumbersMultiply
<1>3. Times(b, Times(Times(x, Reciprocal(a)), Reciprocal(b))) = Times(x, Reciprocal(a))
  BY <1>1, Reduce
<1>4. QED
  BY <1>2, <1>3, Reduce

\* dVCM after a scattering, brought to the density of the next segment.
LEMMA TurnScattered ==
    ASSUME NEW a \in Positive, NEW b \in Positive, NEW c \in Positive,
           NEW u \in Positive, NEW r \in Positive, NEW q \in Numbers
    PROVE  Times(Over(Times(a, b), c), Times(Over(Times(Over(u, a), q), b), r))
               = Times(Over(Times(r, u), c), q)
<1> DEFINE ia == Reciprocal(a)
           ib == Reciprocal(b)
           ic == Reciprocal(c)
<1>1. /\ ia \in Numbers /\ ib \in Numbers /\ ic \in Numbers
      /\ a \in Numbers /\ b \in Numbers /\ u \in Numbers /\ r \in Numbers
      /\ Times(a, ia) = One /\ Times(b, ib) = One /\ One \in Numbers
  BY NumbersMultiply, NumbersInvert
<1> HIDE DEF ia, ib, ic
<1> DEFINE x == Times(r, Times(u, q))
<1>2. x \in Numbers /\ Times(x, ia) \in Numbers
  BY <1>1, NumbersMultiply
<1>3. Times(Times(Times(Times(u, ia), q), ib), r) = Times(Times(x, ia), ib)
  BY <1>1, NumbersMultiply
<1>4. Times(Times(a, b), Times(Times(x, ia), ib)) = x
  BY ReduceTwo, <1>2 DEF ia, ib
<1> HIDE DEF x
<1>5. Times(Times(Times(a, b), ic), Times(Times(x, ia), ib))
          = Times(ic, Times(Times(a, b), Times(Times(x, ia), ib)))
  BY <1>1, <1>2, NumbersMultiply
<1>6. Times(Times(Times(r, u), ic), q) = Times(ic, x)
  BY <1>1, NumbersMultiply DEF x
<1>7. QED
  BY <1>3, <1>4, <1>5, <1>6 DEF Over, ia, ib, ic

\* dVC after a specular scattering, as if it had been walked backwards.
LEMMA TurnReflected ==
    ASSUME NEW e \in Positive, NEW b \in Positive, NEW c \in Positive,
           NEW u \in Positive, NEW r \in Positive, NEW w \in Numbers
    PROVE  Times(Over(Times(e, b), c), Times(Over(Times(w, u), b), r))
               = Times(Over(Times(r, u), c), Times(w, e))
<1> DEFINE ib == Reciprocal(b)
           ic == Reciprocal(c)
           x == Times(r, Times(u, w))
<1>1. /\ ib \in Numbers /\ ic \in Numbers
      /\ b \in Numbers /\ e \in Numbers /\ u \in Numbers /\ r \in Numbers
  BY NumbersMultiply, NumbersInvert
<1>2. x \in Numbers
  BY <1>1, NumbersMultiply
<1> HIDE DEF ib, ic
<1>3. Times(Times(Times(w, u), ib), r) = Times(x, ib)
  BY <1>1, NumbersMultiply
<1>4. Times(b, Times(x, ib)) = x
  BY Reduce, <1>2 DEF ib
<1>5. Times(Times(Times(r, u), ic), Times(w, e)) = Times(Times(e, ic), x)
  BY <1>1, NumbersMultiply
<1> HIDE DEF x
<1>6. Times(Times(Times(e, b), ic), Times(x, ib)) = Times(Times(e, ic), Times(b, Times(x, ib)))
  BY <1>1, <1>2, NumbersMultiply
<1>7. QED
  BY <1>3, <1>4, <1>5, <1>6 DEF Over, ib, ic

\* dVC after any other scattering.
LEMMA TurnCounted ==
    ASSUME NEW a \in Positive, NEW b \in Positive, NEW c \in Positive, NEW x \in Positive
    PROVE  Times(Over(Times(a, b), c), Over(Times(Over(x, a), c), b)) = x
<1>1. /\ Reciprocal(a) \in Numbers /\ Reciprocal(b) \in Numbers /\ Reciprocal(c) \in Numbers
      /\ a \in Numbers /\ b \in Numbers /\ c \in Numbers /\ x \in Numbers
      /\ Times(Reciprocal(c), c) = One /\ One \in Numbers
  BY NumbersMultiply, NumbersInvert
<1> DEFINE y == Times(x, Reciprocal(a))
           z == Times(y, Reciprocal(b))
<1>2. y \in Numbers /\ z \in Numbers
  BY <1>1, NumbersMultiply
<1>3. Times(Times(a, b), z) = x
  BY ReduceTwo, <1>1
<1> HIDE DEF y, z
<1>4. Times(Times(y, c), Reciprocal(b)) = Times(z, c)
  BY <1>1, <1>2, NumbersMultiply DEF z
<1>5. Times(a, b) \in Numbers
  BY <1>1, NumbersMultiply
<1> DEFINE ab == Times(a, b)
           ic == Reciprocal(c)
<1> HIDE DEF ab, ic
<1>6. Times(Times(ab, ic), Times(z, c)) = Times(Times(ab, z), Times(ic, c))
  BY <1>1, <1>2, <1>5, NumbersMultiply DEF ab, ic
<1>7. QED
  BY <1>1, <1>3, <1>4, <1>6, NumbersMultiply DEF Over, y, ab, ic

\* A common factor of both sides of a quotient.
LEMMA OverSame ==
    ASSUME NEW x \in Numbers, NEW y \in Positive, NEW z \in Numbers, NEW w \in Positive,
           Times(x, w) = Times(z, y)
    PROVE  Over(x, y) = Over(z, w)
<1>1. /\ Over(x, y) \in Numbers /\ y \in Numbers /\ w \in Numbers
  BY OverType, NumbersInvert
<1> DEFINE q == Over(x, y)
<1>2. Times(q, y) = x
  BY OverTimes
<1> HIDE DEF q
<1>3. Times(Times(q, y), w) = Times(Times(w, q), y)
  BY <1>1, NumbersMultiply DEF q
<1>4. Times(Times(w, q), y) = Times(z, y)
  BY <1>2, <1>3
<1>5. Times(w, q) \in Numbers
  BY <1>1, NumbersMultiply DEF q
<1>6. Over(Times(Times(w, q), y), y) = Times(w, q) /\ Over(Times(z, y), y) = z
  BY <1>5, OverTimes
<1>7. Times(w, q) = z
  BY <1>4, <1>6
<1>8. q = Over(z, w)
  BY <1>1, <1>7, OverIs DEF q
<1>9. QED
  BY <1>8 DEF q

LEMMA Cancel ==
    ASSUME NEW x \in Numbers, NEW z \in Numbers, NEW y \in Positive, Times(x, y) = Times(z, y)
    PROVE  x = z
BY OverTimes

\* dVCM and dVC at the first hit of the walk from the light.
EmissionLaw(a, b, c, l, u, r) ==
    Times(l, Times(Over(Times(a, b), c), Times(Over(Over(u, Times(a, l)), b), r)))
        = Over(Times(r, u), c)

LEMMA TurnEmitted ==
    ASSUME NEW a \in Positive, NEW b \in Positive, NEW c \in Positive, NEW l \in Positive,
           NEW u \in Positive, NEW r \in Positive
    PROVE  EmissionLaw(a, b, c, l, u, r)
<1> DEFINE ib == Reciprocal(b)
           ic == Reciprocal(c)
           w == Over(u, Times(a, l))
<1>1. /\ a \in Numbers /\ b \in Numbers /\ l \in Numbers /\ u \in Numbers /\ r \in Numbers
      /\ ib \in Numbers /\ ic \in Numbers /\ Times(b, ib) = One
  BY NumbersInvert
<1>2. w \in Numbers /\ Times(w, Times(a, l)) = u
  BY <1>1, PositiveTimes, OverType, OverTimes
<1> HIDE DEF ib, ic, w
<1> DEFINE x == Times(a, Times(w, r))
<1>3. x \in Numbers
  BY <1>1, <1>2, NumbersMultiply
<1>4. Times(Times(Times(a, b), ic), Times(Times(w, ib), r)) = Times(ic, Times(x, Times(b, ib)))
  BY <1>1, <1>2, NumbersMultiply
<1>5. Times(x, One) = x
  BY <1>3, NumbersMultiply
<1>6. Times(l, Times(ic, x)) = Times(Times(r, Times(w, Times(a, l))), ic)
  BY <1>1, <1>2, NumbersMultiply
<1> HIDE DEF x
<1>7. QED
  BY <1>1, <1>2, <1>4, <1>5, <1>6 DEF EmissionLaw, Over, ib, ic, w

\* The weights of technique 1 at the point sampled on the light.
SamplingLaw(r, k, a, d2, u) ==
    Times(Over(r, Times(k, Over(Times(a, d2), u))), Times(a, k)) = Over(Times(r, u), d2)

LEMMA TurnSampled ==
    ASSUME NEW r \in Positive, NEW k \in Positive, NEW a \in Positive, NEW d2 \in Positive,
           NEW u \in Positive
    PROVE  SamplingLaw(r, k, a, d2, u)
<1> DEFINE m == Over(Times(a, d2), u)
           w == Over(r, Times(k, m))
<1>1. /\ r \in Numbers /\ k \in Numbers /\ a \in Numbers /\ d2 \in Numbers /\ u \in Numbers
      /\ m \in Positive /\ m \in Numbers /\ Times(k, m) \in Positive
      /\ Times(m, u) = Times(a, d2)
  <2>1. Times(a, d2) \in Positive
    BY PositiveTimes
  <2>2. m \in Positive
    BY <2>1, OverType
  <2>3. Times(m, u) = Times(a, d2)
    BY <2>1, OverTimes, NumbersInvert
  <2> HIDE DEF m
  <2>4. QED
    BY <2>2, <2>3, PositiveTimes, NumbersInvert
<1>2. w \in Numbers /\ Times(w, Times(k, m)) = r
  BY <1>1, OverType, OverTimes
<1> HIDE DEF m, w
<1>3. Times(Times(w, Times(a, k)), d2) = Times(Times(w, k), Times(a, d2))
  BY <1>1, <1>2, NumbersMultiply
<1>4. Times(Times(w, k), Times(m, u)) = Times(Times(w, Times(k, m)), u)
  BY <1>1, <1>2, NumbersMultiply
<1>5. Times(Times(w, Times(a, k)), d2) = Times(r, u)
  BY <1>1, <1>2, <1>3, <1>4
<1> DEFINE z == Times(w, Times(a, k))
<1>6. z \in Numbers
  BY <1>1, <1>2, NumbersMultiply
<1>7. Times(d2, z) = Times(r, u)
  BY <1>1, <1>5, <1>6, NumbersMultiply
<1> HIDE DEF z
<1>8. z = Over(Times(r, u), d2)
  BY <1>1, <1>6, <1>7, OverIs, NumbersMultiply
<1>9. QED
  BY <1>8 DEF SamplingLaw, z, w, m

-----------------------------------------------------------------------------
(***************************************************************************)
(* The materials.  Where every lobe is as likely as the others, the        *)
(* density that sampleF returns is the density pdf returns, and vcmF       *)
(* returns both.                                                           *)
(***************************************************************************)

\* A factor of every summand is one of the sum.
LEMMA TotalScaled ==
    ASSUME NEW n \in Nat, NEW q \in Numbers, NEW f, NEW h,
           \A k \in 1 .. n : f[k] \in Numbers /\ h[k] = Times(q, f[k])
    PROVE  Total(h, n) = Times(q, Total(f, n))
<1>1. PICK g \in [0 .. n -> Numbers] :
          g[0] = Zero /\ \A k \in 1 .. n : g[k] = Plus(g[k - 1], f[k])
  BY PartialTotals
<1> DEFINE scaled == [k \in 0 .. n |-> Times(q, g[k])]
<1>2. scaled[0] = Zero
  BY <1>1, NumbersDistribute
<1>3. ASSUME NEW k \in 1 .. n PROVE scaled[k] = Plus(scaled[k - 1], h[k])
  <2>1. k \in 0 .. n /\ k - 1 \in 0 .. n /\ g[k - 1] \in Numbers /\ f[k] \in Numbers
    BY <1>1
  <2>2. Times(q, Plus(g[k - 1], f[k])) = Plus(Times(q, g[k - 1]), Times(q, f[k]))
    BY <2>1, NumbersDistribute
  <2>3. QED
    BY <1>1, <2>1, <2>2
<1>4. scaled[n] = Times(q, g[n])
  OBVIOUS
<1> HIDE DEF scaled
<1>5. ASSUME NEW k \in 1 .. n PROVE h[k] \in Numbers
  <2>1. f[k] \in Numbers /\ h[k] = Times(q, f[k])
    OBVIOUS
  <2>2. Times(q, f[k]) \in Numbers
    BY <2>1, NumbersMultiply
  <2>3. QED
    BY <2>1, <2>2
<1>6. Total(h, n) = scaled[n]
  BY <1>2, <1>3, <1>5, TotalIs
<1>7. Total(f, n) = g[n]
  BY <1>1, TotalIs
<1>8. QED
  BY <1>4, <1>6, <1>7

\* What SceneAssumption says of one surface.
LEMMA SurfaceFacts ==
    ASSUME NEW v \in Surfaces
    PROVE  /\ v.kind \in Kinds
           /\ v.cosL \in Positive /\ v.cosC \in Positive
           /\ v.phong \in Positive /\ v.cont \in Positive
           /\ \A l \in LobeNames : v.albedo[l] \in Positive
           /\ SumPickProb(v) # Zero /\ Pdf(v, v.cosL) # Zero /\ Pdf(v, v.cosC) # Zero
<1>1. v \in [kind : Kinds, cosL : Positive, cosC : Positive, phong : Positive,
             albedo : [LobeNames -> Positive], cont : Positive]
  BY SceneAssumption
<1>2. SumPickProb(v) # Zero /\ Pdf(v, v.cosL) # Zero /\ Pdf(v, v.cosC) # Zero
  BY SceneAssumption
<1>3. QED
  BY <1>1, <1>2

\* Every lobe of a surface has a name.
LEMMA LobeFacts ==
    ASSUME NEW v \in Surfaces
    PROVE  NumLobes(v) \in Nat /\ \A b \in Picks(v) : Lobes(v)[b] \in LobeNames
<1>1. v.kind \in Kinds
  BY SurfaceFacts
<1>2. CASE v.kind \in {"diffuse", "texture"}
  <2>1. Lobes(v) = <<"lambertian">>
    BY <1>2 DEF Lobes, DiffuseLobes, TextureLobes
  <2>2. QED
    BY <2>1 DEF NumLobes, Picks, LobeNames
<1>3. CASE v.kind = "glossy"
  <2>1. Lobes(v) = <<"lambertian", "phong">>
    BY <1>3 DEF Lobes, GlossyLobes
  <2>2. QED
    BY <2>1 DEF NumLobes, Picks, LobeNames
<1>4. CASE v.kind = "mirror"
  <2>1. Lobes(v) = <<"reflection">>
    BY <1>4 DEF Lobes, MirrorLobes
  <2>2. QED
    BY <2>1 DEF NumLobes, Picks, LobeNames
<1>5. CASE v.kind = "glass"
  <2>1. Lobes(v) = <<"transmission", "reflection">>
    BY <1>5 DEF Lobes, GlassLobes
  <2>2. QED
    BY <2>1 DEF NumLobes, Picks, LobeNames
<1>6. QED
  BY <1>1, <1>2, <1>3, <1>4, <1>5 DEF Kinds

LEMMA SceneFacts ==
    /\ lightSubpathCount \in Positive /\ cameraPdfW \in Positive
    /\ InvPi \in Positive /\ Four \in Positive /\ One \in Positive
<1>1. {lightSubpathCount, cameraPdfW, InvPi, Four} \subseteq Positive
  BY SceneAssumption
<1>2. One \in Positive
  BY NumbersAssumption
<1>3. QED
  BY <1>1, <1>2

LEMMA LobePdfType ==
    ASSUME NEW v \in Surfaces, NEW cos \in Positive, NEW l \in LobeNames
    PROVE  LobePdf(v, l, cos) \in Positive
<1>1. v.phong \in Positive /\ One \in Positive /\ Times(cos, InvPi) \in Positive
  BY SurfaceFacts, SceneFacts, PositiveTimes
<1>2. QED
  BY <1>1 DEF LobePdf, LobeNames, LambertianPdf, PhongPdf, SpecularReflectionPdf,
              SpecularTransmissionPdf

LEMMA PickProbType ==
    ASSUME NEW v \in Surfaces, NEW b \in Picks(v)
    PROVE  PickProb(v, b) \in Positive
<1> DEFINE f == [c \in Picks(v) |-> v.albedo[Lobes(v)[c]]]
<1>1. NumLobes(v) \in Nat /\ Picks(v) = 1 .. NumLobes(v)
  BY LobeFacts DEF Picks
<1>2. \A c \in Picks(v) : v.albedo[Lobes(v)[c]] \in Positive
  BY LobeFacts, SurfaceFacts
<1>3. \A c \in 1 .. NumLobes(v) : f[c] \in Numbers
  BY <1>1, <1>2, NumbersInvert
<1>4. SumPickProb(v) = Total(f, NumLobes(v))
  BY DEF SumPickProb
<1> HIDE DEF f
<1>5. SumPickProb(v) \in Numbers
  BY <1>1, <1>3, <1>4, TotalType
<1>6. SumPickProb(v) \in Positive
  BY <1>5, SurfaceFacts DEF Positive
<1>7. QED
  BY <1>2, <1>6, OverType DEF PickProb

LEMMA PdfType ==
    ASSUME NEW v \in Surfaces, NEW cos \in Positive
    PROVE  Pdf(v, cos) \in Numbers
<1> DEFINE f == [b \in Picks(v) |-> Times(PickProb(v, b), LobePdf(v, Lobes(v)[b], cos))]
<1>1. NumLobes(v) \in Nat /\ Picks(v) = 1 .. NumLobes(v)
  BY LobeFacts DEF Picks
<1>2. ASSUME NEW b \in Picks(v)
      PROVE  Times(PickProb(v, b), LobePdf(v, Lobes(v)[b], cos)) \in Numbers
  <2>1. Lobes(v)[b] \in LobeNames
    BY LobeFacts
  <2>2. QED
    BY <2>1, PickProbType, LobePdfType, PositiveTimes, NumbersInvert
<1>3. \A b \in 1 .. NumLobes(v) : f[b] \in Numbers
  BY <1>1, <1>2
<1>4. Pdf(v, cos) = Total(f, NumLobes(v))
  BY DEF Pdf
<1> HIDE DEF f
<1>5. QED
  BY <1>1, <1>3, <1>4, TotalType

\* The lobes of a specular surface have density 1, and so has their mixture.
LEMMA SpecularPdf ==
    ASSUME NEW v \in Surfaces, IsSpecular(v), NEW cos1, NEW cos2
    PROVE  Pdf(v, cos1) = Pdf(v, cos2)
<1>1. \A b \in Picks(v) : LobePdf(v, Lobes(v)[b], cos1) = LobePdf(v, Lobes(v)[b], cos2)
  BY DEF IsSpecular, LobePdf, SpecularReflectionPdf, SpecularTransmissionPdf
<1>2. [b \in Picks(v) |-> Times(PickProb(v, b), LobePdf(v, Lobes(v)[b], cos1))]
          = [b \in Picks(v) |-> Times(PickProb(v, b), LobePdf(v, Lobes(v)[b], cos2))]
  BY <1>1
<1>3. QED
  BY <1>2 DEF Pdf

\* Where the lobes are equally likely, sampleF's density is pdf's.
LEMMA SampledIsPdf ==
    ASSUME NEW v \in Surfaces, NEW cos \in Positive, NEW b \in Picks(v),
           \A c, d \in Picks(v) : PickProb(v, c) = PickProb(v, d)
    PROVE  SampledPdf(v, cos, b) = Pdf(v, cos)
<1> DEFINE f == [c \in Picks(v) |-> LobePdf(v, Lobes(v)[c], cos)]
           h == [c \in Picks(v) |-> Times(PickProb(v, c), LobePdf(v, Lobes(v)[c], cos))]
<1>1. NumLobes(v) \in Nat /\ Picks(v) = 1 .. NumLobes(v)
  BY LobeFacts DEF Picks
<1>2. PickProb(v, b) \in Numbers
  BY PickProbType, NumbersInvert
<1>3. ASSUME NEW c \in 1 .. NumLobes(v)
      PROVE  f[c] \in Numbers /\ h[c] = Times(PickProb(v, b), f[c])
  <2>1. c \in Picks(v)
    BY <1>1
  <2>2. Lobes(v)[c] \in LobeNames
    BY <2>1, LobeFacts
  <2>3. LobePdf(v, Lobes(v)[c], cos) \in Numbers
    BY <2>2, LobePdfType, NumbersInvert
  <2>4. PickProb(v, c) = PickProb(v, b)
    BY <2>1
  <2>5. QED
    BY <2>1, <2>3, <2>4
<1>4. Pdf(v, cos) = Total(h, NumLobes(v)) /\ SampledPdf(v, cos, b) = Times(PickProb(v, b), Total(f, NumLobes(v)))
  BY DEF Pdf, SampledPdf
<1> HIDE DEF f, h
<1>5. Total(h, NumLobes(v)) = Times(PickProb(v, b), Total(f, NumLobes(v)))
  BY <1>1, <1>2, <1>3, TotalScaled
<1>6. QED
  BY <1>4, <1>5

\* vcmF gives pdf for both directions, times the probability to go on.
LEMMA VcmFIs ==
    ASSUME NEW v \in Surfaces, NEW cosFix \in Positive, NEW cosGen \in Positive
    PROVE  /\ VcmF(v, cosFix, cosGen).dir = Times(Pdf(v, cosGen), v.cont)
           /\ VcmF(v, cosFix, cosGen).rev = Times(Pdf(v, cosFix), v.cont)
<1>1. ASSUME NEW cos \in Positive
      PROVE  [b \in Picks(v) |-> Times(LobePdf(v, Lobes(v)[b], cos), PickProb(v, b))]
                 = [b \in Picks(v) |-> Times(PickProb(v, b), LobePdf(v, Lobes(v)[b], cos))]
  <2>1. ASSUME NEW b \in Picks(v)
        PROVE  Times(LobePdf(v, Lobes(v)[b], cos), PickProb(v, b))
                   = Times(PickProb(v, b), LobePdf(v, Lobes(v)[b], cos))
    <3>1. Lobes(v)[b] \in LobeNames
      BY LobeFacts
    <3>2. LobePdf(v, Lobes(v)[b], cos) \in Numbers /\ PickProb(v, b) \in Numbers
      BY <3>1, LobePdfType, PickProbType, NumbersInvert
    <3>3. QED
      BY <3>2, NumbersMultiply
  <2>2. QED
    BY <2>1
<1>2. \A cos \in Positive :
          Total([b \in Picks(v) |-> Times(LobePdf(v, Lobes(v)[b], cos), PickProb(v, b))], NumLobes(v))
              = Pdf(v, cos)
  BY <1>1 DEF Pdf
<1>3. QED
  BY <1>2 DEF VcmF

-----------------------------------------------------------------------------
(***************************************************************************)
(* updateMisTermsOnScatter followed by updateMisTermsOnHit: the densities  *)
(* of the new direction cancel.                                            *)
(***************************************************************************)

\* The values of a SubpathPRD.
MisTerms == [depth : Nat, dVCM : Numbers, dVC : Numbers]

\* updateMisTermsOnScatter, then updateMisTermsOnHit at the next point: dVCM turns
\* into one over the density fwd of that point; dVC, seen backwards, into the sum that
\* was carried before times the density of the way back.
ScatterLaw(p, v, cosIn, cosOut, b, cosNext, d2, rNext) ==
    LET hit == UpdateOnHit(UpdateOnScatter(p, v, cosIn, cosOut, b), cosNext, d2)
        back == Times(Pdf(v, cosIn), v.cont)
        fwd == Over(Times(Times(Pdf(v, cosOut), v.cont), cosNext), d2)
    IN /\ UpdateOnScatter(p, v, cosIn, cosOut, b) \in MisTerms
       /\ hit \in MisTerms
       /\ Times(fwd, hit.dVCM) = IF IsSpecular(v) THEN Zero ELSE One
       /\ Times(fwd, Times(hit.dVC, rNext))
              = Times(Over(Times(rNext, cosOut), d2),
                      IF IsSpecular(v) THEN Times(p.dVC, back)
                      ELSE Plus(Times(p.dVC, back), p.dVCM))

LEMMA Scattered ==
    ASSUME NEW p \in MisTerms, NEW v \in Surfaces, NEW cosIn \in Positive,
           NEW cosOut \in Positive, NEW b \in Picks(v),
           \A c, d \in Picks(v) : PickProb(v, c) = PickProb(v, d),
           Pdf(v, cosOut) # Zero,
           NEW cosNext \in Positive, NEW d2 \in Positive, NEW rNext \in Positive
    PROVE  ScatterLaw(p, v, cosIn, cosOut, b, cosNext, d2, rNext)
<1> DEFINE hit == UpdateOnHit(UpdateOnScatter(p, v, cosIn, cosOut, b), cosNext, d2)
           back == Times(Pdf(v, cosIn), v.cont)
           fwd == Over(Times(Times(Pdf(v, cosOut), v.cont), cosNext), d2)
<1>1. SUFFICES /\ UpdateOnScatter(p, v, cosIn, cosOut, b) \in MisTerms
               /\ hit \in MisTerms
               /\ Times(fwd, hit.dVCM) = IF IsSpecular(v) THEN Zero ELSE One
               /\ Times(fwd, Times(hit.dVC, rNext))
                      = Times(Over(Times(rNext, cosOut), d2),
                              IF IsSpecular(v) THEN Times(p.dVC, back)
                              ELSE Plus(Times(p.dVC, back), p.dVCM))
  BY DEF ScatterLaw
<1> DEFINE dir == Times(Pdf(v, cosOut), v.cont)
           q == Plus(Times(p.dVC, back), p.dVCM)
<1>2. p.depth \in Nat /\ p.dVCM \in Numbers /\ p.dVC \in Numbers
  BY DEF MisTerms
<1>3. v.cont \in Positive /\ v.cont \in Numbers
  BY SurfaceFacts, NumbersInvert
<1>4. back \in Numbers /\ Times(p.dVC, back) \in Numbers /\ q \in Numbers
  BY <1>2, <1>3, PdfType, NumbersMultiply, NumbersAdd
<1>5. Pdf(v, cosOut) \in Positive
  BY PdfType DEF Positive
<1>6. dir \in Positive
  BY <1>3, <1>5, PositiveTimes
<1>7. /\ Zero \in Numbers /\ One \in Numbers /\ One \in Positive
      /\ cosOut \in Numbers /\ d2 \in Numbers /\ rNext \in Numbers
  BY NumbersAdd, NumbersMultiply, NumbersInvert, SceneFacts
<1>8. fwd \in Numbers
  BY <1>6, OverType, PositiveTimes, NumbersInvert
<1>9. hit = UpdateOnHit(UpdateOnScatter(p, v, cosIn, cosOut, b), cosNext, d2)
  OBVIOUS
<1> HIDE DEF hit
<1>10. CASE IsSpecular(v)
  <2>1. UpdateOnScatter(p, v, cosIn, cosOut, b)
            = [depth |-> p.depth, dVCM |-> Zero, dVC |-> Times(p.dVC, cosOut)]
    BY <1>10 DEF UpdateOnScatter, MisTerms
  <2>2. hit = [depth |-> p.depth + 1, dVCM |-> Over(Times(Zero, d2), cosNext),
               dVC |-> Over(Times(p.dVC, cosOut), cosNext)]
    BY <1>9, <2>1 DEF UpdateOnHit
  <2>3. Over(Times(Zero, d2), cosNext) = Zero
    BY <1>7, NumbersMultiply, NumbersDistribute, NumbersInvert DEF Over
  <2>4. hit \in MisTerms
    <3>1. Times(p.dVC, cosOut) \in Numbers
      BY <1>2, <1>7, NumbersMultiply
    <3>2. Over(Times(p.dVC, cosOut), cosNext) \in Numbers
      BY <3>1, OverType
    <3>3. QED
      BY <1>2, <1>7, <2>2, <2>3, <3>2 DEF MisTerms
  <2>5. Times(fwd, hit.dVCM) = Zero
    BY <1>8, <2>2, <2>3, NumbersDistribute
  <2>6. back = dir
    BY <1>10, SpecularPdf
  <2>7. Times(fwd, Times(hit.dVC, rNext))
            = Times(Over(Times(rNext, cosOut), d2), Times(p.dVC, dir))
    BY <1>2, <1>6, <2>2, TurnReflected
  <2>8. UpdateOnScatter(p, v, cosIn, cosOut, b) \in MisTerms
    BY <1>2, <1>7, <2>1, NumbersMultiply DEF MisTerms
  <2>9. QED
    BY <1>10, <2>4, <2>5, <2>6, <2>7, <2>8
<1>11. CASE ~IsSpecular(v)
  <2>1. Times(SampledPdf(v, cosOut, b), v.cont) = dir
    BY SampledIsPdf
  <2>2. UpdateOnScatter(p, v, cosIn, cosOut, b)
            = [depth |-> p.depth, dVCM |-> Over(One, dir), dVC |-> Times(Over(cosOut, dir), q)]
    BY <1>11, <2>1 DEF UpdateOnScatter, MisTerms
  <2> HIDE DEF dir, q
  <2>3. hit = [depth |-> p.depth + 1, dVCM |-> Over(Times(Over(One, dir), d2), cosNext),
               dVC |-> Over(Times(Over(cosOut, dir), q), cosNext)]
    BY <1>9, <2>2 DEF UpdateOnHit
  <2>4. Over(One, dir) \in Numbers /\ Over(cosOut, dir) \in Numbers
    BY <1>6, <1>7, OverType
  <2>5. /\ Over(Times(Over(One, dir), d2), cosNext) \in Numbers
        /\ Over(Times(Over(cosOut, dir), q), cosNext) \in Numbers
    BY <1>4, <1>7, <2>4, OverType, NumbersMultiply
  <2>6. hit \in MisTerms
    BY <1>2, <2>3, <2>5 DEF MisTerms
  <2>7. fwd = Over(Times(dir, cosNext), d2)
    BY DEF dir
  <2>8. Times(fwd, hit.dVCM) = One
    BY <1>6, <1>7, <2>3, <2>7, TurnCounted
  <2>9. Times(fwd, Times(hit.dVC, rNext)) = Times(Over(Times(rNext, cosOut), d2), q)
    BY <1>4, <1>6, <2>3, <2>7, TurnScattered
  <2>10. Times(Over(cosOut, dir), q) \in Numbers
    BY <1>4, <2>4, NumbersMultiply
  <2>11. UpdateOnScatter(p, v, cosIn, cosOut, b) \in MisTerms
    BY <1>2, <2>2, <2>4, <2>10 DEF MisTerms
  <2>12. QED
    BY <1>11, <2>6, <2>8, <2>9, <2>11 DEF q
<1>12. QED
  BY <1>10, <1>11

-----------------------------------------------------------------------------
(***************************************************************************)
(* The densities of a path.  Dir(i) and Rev(i) are those of the direction  *)
(* from x_i to the camera and to the light, CosC(i) the cosine towards the *)
(* camera.                                                                 *)
(***************************************************************************)

\* The paths of Init.
PathOK == path \in Paths /\ Len(path.d2) = Len(path.surfaces) + 1

\* The parts of a path.
LEMMA PathFacts ==
    ASSUME PathOK
    PROVE  /\ Last \in Nat \ {0}
           /\ \A i \in 1 .. Last : Surface(i) \in Surfaces
           /\ \A i \in 0 .. Last : D2(i) \in Positive
           /\ Light \in Lights
           /\ Light.isDelta \in BOOLEAN /\ Light.cos \in Positive
           /\ Light.inverseArea \in Positive /\ Light.pick \in Positive
<1>1. PICK l \in Lights, s \in UNION {[1 .. n -> Surfaces] : n \in 1 .. MaxSurfaces},
           d \in UNION {[1 .. n + 1 -> SquaredLengths] : n \in 1 .. MaxSurfaces} :
               path = [light |-> l, surfaces |-> s, d2 |-> d]
  BY DEF PathOK, Paths
<1>2. PICK n \in 1 .. MaxSurfaces : s \in [1 .. n -> Surfaces]
  OBVIOUS
<1>3. PICK m \in 1 .. MaxSurfaces : d \in [1 .. m + 1 -> SquaredLengths]
  OBVIOUS
<1>4. MaxSurfaces \in Nat /\ n \in Nat \ {0} /\ m \in Nat
  BY PathAssumption
<1>5. Len(s) = n /\ Len(d) = m + 1
  BY <1>2, <1>3, <1>4
<1>6. Last = n /\ m = n
  BY <1>1, <1>4, <1>5 DEF PathOK, Last
<1>7. \A i \in 1 .. Last : Surface(i) \in Surfaces
  BY <1>1, <1>2, <1>6 DEF Surface
<1>8. \A i \in 0 .. Last : D2(i) \in Positive
  <2>1. SUFFICES ASSUME NEW i \in 0 .. Last PROVE d[i + 1] \in Positive
    BY <1>1 DEF D2
  <2>2. i + 1 \in 1 .. m + 1
    BY <1>4, <1>6
  <2>3. SquaredLengths \subseteq Positive
    BY SceneAssumption
  <2>4. QED
    BY <1>3, <2>2, <2>3
<1>9. Light = l
  BY <1>1 DEF Light
<1>10. l \in [isDelta : BOOLEAN, cos : Positive, inverseArea : Positive, pick : Positive]
  BY SceneAssumption
<1>11. QED
  BY <1>4, <1>6, <1>7, <1>8, <1>9, <1>10

\* The density of the direction from x_i to the camera, sampled by the walk from the
\* light.
Dir(i) ==
    IF i = 0 THEN EmissionDirPdfW(Light)
    ELSE Times(Pdf(Surface(i), Surface(i).cosC), Surface(i).cont)

\* That of the direction from x_i to the light, sampled by the walk from the camera.
Rev(i) ==
    IF i = Last + 1 THEN cameraPdfW
    ELSE Times(Pdf(Surface(i), Surface(i).cosL), Surface(i).cont)

\* The cosine at x_i towards the camera; the light is x_0.
CosC(i) == IF i = 0 THEN Light.cos ELSE Surface(i).cosC

\* The density of the point on the light.
LightStart == Times(LightPointPdf(Light), Light.pick)

LEMMA EmissionFacts ==
    ASSUME PathOK
    PROVE  EmissionDirPdfW(Light) \in Positive /\ LightPointPdf(Light) \in Positive
           /\ LightStart \in Positive
<1>1. /\ Light.cos \in Positive /\ Light.inverseArea \in Positive /\ Light.pick \in Positive
      /\ InvPi \in Positive /\ Four \in Positive /\ One \in Positive
  BY PathFacts, SceneFacts
<1>2. Over(InvPi, Four) \in Positive /\ Times(Light.cos, InvPi) \in Positive
  BY <1>1, OverType, PositiveTimes
<1>3. EmissionDirPdfW(Light) \in Positive
  BY <1>2 DEF EmissionDirPdfW
<1>4. LightPointPdf(Light) \in Positive
  BY <1>1 DEF LightPointPdf
<1>5. QED
  BY <1>1, <1>3, <1>4, PositiveTimes DEF LightStart

LEMMA DirType ==
    ASSUME PathOK, NEW i \in 0 .. Last
    PROVE  Dir(i) \in Positive
<1>1. CASE i = 0
  BY <1>1, EmissionFacts DEF Dir
<1>2. CASE i # 0
  <2>1. i \in 1 .. Last
    BY <1>2, PathFacts
  <2>2. Surface(i) \in Surfaces
    BY <2>1, PathFacts
  <2>3. /\ Surface(i).cosC \in Positive /\ Surface(i).cont \in Positive
        /\ Pdf(Surface(i), Surface(i).cosC) # Zero
    BY <2>2, SurfaceFacts
  <2>4. Pdf(Surface(i), Surface(i).cosC) \in Positive
    BY <2>2, <2>3, PdfType DEF Positive
  <2>5. QED
    BY <1>2, <2>3, <2>4, PositiveTimes DEF Dir
<1>3. QED
  BY <1>1, <1>2

LEMMA RevType ==
    ASSUME PathOK, NEW i \in 1 .. Last + 1
    PROVE  Rev(i) \in Positive
<1>1. CASE i = Last + 1
  BY <1>1, SceneFacts DEF Rev
<1>2. CASE i # Last + 1
  <2>1. i \in 1 .. Last
    BY <1>2, PathFacts
  <2>2. Surface(i) \in Surfaces
    BY <2>1, PathFacts
  <2>3. /\ Surface(i).cosL \in Positive /\ Surface(i).cont \in Positive
        /\ Pdf(Surface(i), Surface(i).cosL) # Zero
    BY <2>2, SurfaceFacts
  <2>4. Pdf(Surface(i), Surface(i).cosL) \in Positive
    BY <2>2, <2>3, PdfType DEF Positive
  <2>5. QED
    BY <1>2, <2>3, <2>4, PositiveTimes DEF Rev
<1>3. QED
  BY <1>1, <1>2

LEMMA CosCType ==
    ASSUME PathOK, NEW i \in 0 .. Last
    PROVE  CosC(i) \in Positive
<1>1. CASE i = 0
  BY <1>1, PathFacts DEF CosC
<1>2. CASE i # 0
  <2>1. i \in 1 .. Last
    BY <1>2, PathFacts
  <2>2. Surface(i).cosC \in Positive
    BY <2>1, PathFacts, SurfaceFacts
  <2>3. QED
    BY <1>2, <2>2 DEF CosC
<1>3. QED
  BY <1>1, <1>2

LEMMA LightDensityIs ==
    ASSUME PathOK, NEW i \in 0 .. Last - 1
    PROVE  /\ LightDensity(i) = Over(Times(Dir(i), Surface(i + 1).cosL), D2(i))
           /\ LightDensity(i) \in Positive
<1>1. LightDensity(i) = Over(Times(Dir(i), Surface(i + 1).cosL), D2(i))
  BY DEF LightDensity, Dir
<1>2. i \in 0 .. Last /\ i + 1 \in 1 .. Last
  BY PathFacts
<1>3. Dir(i) \in Positive /\ D2(i) \in Positive
  BY <1>2, DirType, PathFacts
<1>4. Surface(i + 1).cosL \in Positive
  BY <1>2, PathFacts, SurfaceFacts
<1>5. QED
  BY <1>1, <1>3, <1>4, PositiveTimes, OverType

LEMMA CameraDensityIs ==
    ASSUME PathOK, NEW i \in 0 .. Last
    PROVE  /\ CameraDensity(i) = Over(Times(Rev(i + 1), CosC(i)), D2(i))
           /\ CameraDensity(i) \in Positive
<1>1. i = Last <=> i + 1 = Last + 1
  BY PathFacts
<1>2. CameraDensity(i) = Over(Times(Rev(i + 1), CosC(i)), D2(i))
  BY <1>1 DEF CameraDensity, Rev, CosC
<1>3. i + 1 \in 1 .. Last + 1
  BY PathFacts
<1>4. Rev(i + 1) \in Positive /\ D2(i) \in Positive /\ CosC(i) \in Positive
  BY <1>3, RevType, CosCType, PathFacts
<1>5. QED
  BY <1>2, <1>4, PositiveTimes, OverType

\* LightPdfA adds the light's points one by one.
LEMMA LightPdfASteps ==
    ASSUME PathOK
    PROVE  /\ LightPdfA(0) = One /\ LightPdfA(1) = LightStart
           /\ \A s \in 0 .. Last + 1 : LightPdfA(s) \in Positive
           /\ \A s \in 1 .. Last : LightPdfA(s + 1) = Times(LightPdfA(s), LightDensity(s - 1))
<1> DEFINE factor(k) == IF k = 1 THEN Times(LightPointPdf(Light), Light.pick)
                        ELSE LightDensity(k - 2)
           f == [k \in 1 .. Last + 1 |-> factor(k)]
<1>1. Last \in Nat \ {0}
  BY PathFacts
<1>2. ASSUME NEW k \in 1 .. Last + 1 PROVE factor(k) \in Positive
  <2>1. CASE k = 1
    BY <2>1, EmissionFacts DEF LightStart
  <2>2. CASE k # 1
    <3>1. k - 2 \in 0 .. Last - 1
      BY <1>1, <2>2
    <3>2. QED
      BY <2>2, <3>1, LightDensityIs
  <2>3. QED
    BY <2>1, <2>2
<1>3. ASSUME NEW s \in 0 .. Last + 1
      PROVE  LightPdfA(s) = Product(f, s) /\ LightPdfA(s) \in Positive
  <2> DEFINE h == [k \in 1 .. s |-> factor(k)]
  <2>1. \A k \in 1 .. s : k \in 1 .. Last + 1
    BY <1>1
  <2>2. \A k \in 1 .. s : f[k] = factor(k) /\ h[k] = factor(k)
    BY <2>1
  <2>3. LightPdfA(s) = Product(h, s)
    BY DEF LightPdfA
  <2>4. s \in Nat
    BY <1>1
  <2>5. \A k \in 1 .. s : f[k] \in Positive /\ h[k] = f[k]
    BY <1>2, <2>1, <2>2
  <2> HIDE DEF f, h
  <2>6. QED
    BY <2>3, <2>4, <2>5, ProductSame, ProductType
<1>4. \A k \in 1 .. Last + 1 : f[k] = factor(k)
  OBVIOUS
<1>5. Product(f, 0) = One
  BY ProductEmpty
<1> HIDE DEF f
<1>6. ASSUME NEW s \in 0 .. Last PROVE Product(f, s + 1) = Times(Product(f, s), f[s + 1])
  <2>1. s \in Nat /\ \A k \in 1 .. s + 1 : k \in 1 .. Last + 1
    BY <1>1
  <2>2. \A k \in 1 .. s + 1 : f[k] \in Positive
    BY <1>2, <1>4, <2>1
  <2>3. QED
    BY <2>1, <2>2, ProductStep
<1>7. LightPdfA(1) = LightStart
  <2>1. 0 \in 0 .. Last /\ 1 \in 0 .. Last + 1 /\ 1 \in 1 .. Last + 1 /\ 0 + 1 = 1
    BY <1>1
  <2>2. f[1] = LightStart
    BY <1>4, <2>1 DEF LightStart
  <2>3. Product(f, 1) = Times(One, LightStart)
    BY <1>5, <1>6, <2>1, <2>2
  <2>4. Times(One, LightStart) = LightStart
    BY EmissionFacts, NumbersMultiply, NumbersInvert
  <2>5. QED
    BY <1>3, <2>1, <2>3, <2>4
<1>8. ASSUME NEW s \in 1 .. Last
      PROVE  LightPdfA(s + 1) = Times(LightPdfA(s), LightDensity(s - 1))
  <2>1. /\ s \in 0 .. Last /\ s \in 0 .. Last + 1 /\ s + 1 \in 0 .. Last + 1
        /\ s + 1 \in 1 .. Last + 1 /\ s + 1 # 1 /\ s + 1 - 2 = s - 1
    BY <1>1
  <2>2. f[s + 1] = LightDensity(s - 1)
    BY <1>4, <2>1
  <2>3. QED
    BY <1>3, <1>6, <2>1, <2>2
<1>9. LightPdfA(0) = One
  <2>1. 0 \in 0 .. Last + 1
    BY <1>1
  <2>2. QED
    BY <1>3, <1>5, <2>1
<1>10. QED
  BY <1>3, <1>7, <1>8, <1>9

\* CameraPdfA drops the camera's points one by one.
LEMMA CameraPdfASteps ==
    ASSUME PathOK
    PROVE  /\ CameraPdfA(Last + 1) = One
           /\ \A s \in 0 .. Last + 1 : CameraPdfA(s) \in Positive
           /\ \A s \in 0 .. Last : CameraPdfA(s) = Times(CameraPdfA(s + 1), CameraDensity(s))
<1> DEFINE f == [k \in 1 .. Last + 1 |-> CameraDensity(Last + 1 - k)]
<1>1. Last \in Nat \ {0}
  BY PathFacts
<1>2. ASSUME NEW k \in 1 .. Last + 1 PROVE CameraDensity(Last + 1 - k) \in Positive
  <2>1. Last + 1 - k \in 0 .. Last
    BY <1>1
  <2>2. QED
    BY <2>1, CameraDensityIs
<1>3. ASSUME NEW s \in 0 .. Last + 1
      PROVE  CameraPdfA(s) = Product(f, Last + 1 - s) /\ CameraPdfA(s) \in Positive
  <2> DEFINE n == Last + 1 - s
             h == [k \in 1 .. n |-> CameraDensity(Last + 1 - k)]
  <2>1. n \in Nat /\ \A k \in 1 .. n : k \in 1 .. Last + 1
    BY <1>1
  <2>2. \A k \in 1 .. n : f[k] = CameraDensity(Last + 1 - k) /\ h[k] = CameraDensity(Last + 1 - k)
    BY <2>1
  <2>3. CameraPdfA(s) = Product(h, n)
    BY DEF CameraPdfA
  <2>4. \A k \in 1 .. n : f[k] \in Positive /\ h[k] = f[k]
    BY <1>2, <2>1, <2>2
  <2> HIDE DEF f, h
  <2>5. QED
    BY <2>1, <2>3, <2>4, ProductSame, ProductType
<1>4. \A k \in 1 .. Last + 1 : f[k] = CameraDensity(Last + 1 - k)
  OBVIOUS
<1>5. Product(f, 0) = One
  BY ProductEmpty
<1> HIDE DEF f
<1>6. ASSUME NEW s \in 0 .. Last
      PROVE  CameraPdfA(s) = Times(CameraPdfA(s + 1), CameraDensity(s))
  <2> DEFINE n == Last - s
  <2>1. /\ n \in Nat /\ n + 1 = Last + 1 - s /\ n = Last + 1 - (s + 1) /\ Last + 1 - (n + 1) = s
        /\ s \in 0 .. Last + 1 /\ s + 1 \in 0 .. Last + 1 /\ n + 1 \in 1 .. Last + 1
    BY <1>1
  <2>2. CameraPdfA(s) = Product(f, n + 1) /\ CameraPdfA(s + 1) = Product(f, n)
    BY <1>3, <2>1
  <2>3. f[n + 1] = CameraDensity(s)
    BY <1>4, <2>1
  <2>4. \A k \in 1 .. n + 1 : k \in 1 .. Last + 1
    BY <1>1
  <2>5. \A k \in 1 .. n + 1 : f[k] \in Positive
    BY <1>2, <1>4, <2>4
  <2> HIDE DEF n
  <2>6. Product(f, n + 1) = Times(Product(f, n), f[n + 1])
    BY <2>1, <2>5, ProductStep
  <2>7. QED
    BY <2>2, <2>3, <2>6
<1>7. CameraPdfA(Last + 1) = One
  <2>1. Last + 1 \in 0 .. Last + 1 /\ Last + 1 - (Last + 1) = 0
    BY <1>1
  <2>2. QED
    BY <1>3, <1>5, <2>1
<1>8. QED
  BY <1>3, <1>6, <1>7

-----------------------------------------------------------------------------
(***************************************************************************)
(* Joint(s) is the density of the path when the light's walk takes s of    *)
(* its points, Flow(i) that density but for the point both walks could     *)
(* take next; Before(s) sums what the techniques below s do, After(s) what *)
(* those above s do.                                                       *)
(***************************************************************************)

Joint(s) == Times(LightPdfA(s), CameraPdfA(s))

Flow(i) == Times(Joint(i + 1), CameraDensity(i))

\* Joint and Flow, from one technique to the next: a point that was sampled from the
\* light is now sampled from the camera.
LEMMA JointFacts ==
    ASSUME PathOK
    PROVE  /\ \A s \in 0 .. Last + 1 : Joint(s) \in Positive
           /\ \A i \in 0 .. Last : Flow(i) \in Positive
           /\ \A i \in 1 .. Last : Flow(i) = Times(Joint(i), LightDensity(i - 1))
           /\ Flow(0) = Times(Joint(0), LightStart)
<1>1. Last \in Nat \ {0}
  BY PathFacts
<1>2. \A s \in 0 .. Last + 1 : /\ LightPdfA(s) \in Positive /\ LightPdfA(s) \in Numbers
                               /\ CameraPdfA(s) \in Positive /\ CameraPdfA(s) \in Numbers
  BY LightPdfASteps, CameraPdfASteps, NumbersInvert
<1>3. \A s \in 0 .. Last + 1 : Joint(s) \in Positive
  BY <1>2, PositiveTimes DEF Joint
<1>4. ASSUME NEW i \in 0 .. Last
      PROVE  Flow(i) \in Positive /\ Flow(i) = Times(LightPdfA(i + 1), CameraPdfA(i))
  <2>1. i + 1 \in 0 .. Last + 1
    BY <1>1
  <2>2. CameraDensity(i) \in Positive /\ CameraDensity(i) \in Numbers
    BY CameraDensityIs, NumbersInvert
  <2>3. CameraPdfA(i) = Times(CameraPdfA(i + 1), CameraDensity(i))
    BY CameraPdfASteps
  <2>4. Times(Times(LightPdfA(i + 1), CameraPdfA(i + 1)), CameraDensity(i))
            = Times(LightPdfA(i + 1), Times(CameraPdfA(i + 1), CameraDensity(i)))
    BY <1>2, <2>1, <2>2, NumbersMultiply
  <2>5. QED
    BY <1>3, <2>1, <2>2, <2>3, <2>4, PositiveTimes DEF Flow, Joint
<1>5. ASSUME NEW i \in 1 .. Last PROVE Flow(i) = Times(Joint(i), LightDensity(i - 1))
  <2>1. i \in 0 .. Last /\ i \in 0 .. Last + 1 /\ i - 1 \in 0 .. Last - 1
    BY <1>1
  <2>2. LightDensity(i - 1) \in Numbers
    BY <2>1, LightDensityIs, NumbersInvert
  <2>3. LightPdfA(i + 1) = Times(LightPdfA(i), LightDensity(i - 1))
    BY LightPdfASteps
  <2>4. Times(Times(LightPdfA(i), LightDensity(i - 1)), CameraPdfA(i))
            = Times(Times(LightPdfA(i), CameraPdfA(i)), LightDensity(i - 1))
    BY <1>2, <2>1, <2>2, NumbersMultiply
  <2>5. QED
    BY <1>4, <2>1, <2>3, <2>4 DEF Joint
<1>6. Flow(0) = Times(Joint(0), LightStart)
  <2>1. 0 \in 0 .. Last /\ 0 \in 0 .. Last + 1 /\ 0 + 1 = 1
    BY <1>1
  <2>2. LightPdfA(0) = One /\ LightPdfA(1) = LightStart
    BY LightPdfASteps
  <2>3. LightStart \in Numbers /\ CameraPdfA(0) \in Numbers
    BY <1>2, <2>1, EmissionFacts, NumbersInvert
  <2>4. Times(LightStart, CameraPdfA(0)) = Times(Times(One, CameraPdfA(0)), LightStart)
    BY <2>3, NumbersMultiply
  <2>5. QED
    BY <1>4, <2>1, <2>2, <2>4 DEF Joint
<1>7. QED
  BY <1>3, <1>4, <1>5, <1>6

LEMMA DensityIs ==
    ASSUME PathOK, NEW s \in 0 .. Last + 1
    PROVE  /\ Density(s) \in Positive
           /\ s = Last + 1 => Density(s) = Times(lightSubpathCount, Joint(s))
           /\ s # Last + 1 => Density(s) = Joint(s)
<1>1. Joint(s) \in Positive /\ Joint(s) \in Numbers /\ lightSubpathCount \in Positive
  BY JointFacts, SceneFacts, NumbersInvert
<1>2. Times(One, Joint(s)) = Joint(s)
  BY <1>1, NumbersMultiply
<1>3. Density(s) = Times(IF s = Last + 1 THEN lightSubpathCount ELSE One, Joint(s))
  BY DEF Density, Joint
<1>4. CASE s = Last + 1
  BY <1>1, <1>3, <1>4, PositiveTimes
<1>5. CASE s # Last + 1
  BY <1>1, <1>2, <1>3, <1>5
<1>6. QED
  BY <1>4, <1>5

Before(s) == Total([k \in 1 .. Last + 2 |-> DensityIfPossible(k - 1)], s)

After(s) == Total([k \in 1 .. Last + 2 |-> DensityIfPossible(Last + 2 - k)], Last + 1 - s)

AllDensities == Before(Last + 2)

\* Before and After, summand by summand.
LEMMA SumSteps ==
    ASSUME PathOK
    PROVE  /\ Before(0) = Zero /\ After(Last + 1) = Zero
           /\ \A s \in 0 .. Last + 1 : /\ Before(s) \in Numbers /\ After(s) \in Numbers
                                       /\ DensityIfPossible(s) \in Numbers
           /\ \A s \in 0 .. Last + 1 : Before(s + 1) = Plus(Before(s), DensityIfPossible(s))
           /\ \A s \in 0 .. Last : After(s) = Plus(After(s + 1), DensityIfPossible(s + 1))
<1> DEFINE f == [k \in 1 .. Last + 2 |-> DensityIfPossible(k - 1)]
           h == [k \in 1 .. Last + 2 |-> DensityIfPossible(Last + 2 - k)]
<1>1. Last \in Nat \ {0}
  BY PathFacts
<1>2. ASSUME NEW s \in 0 .. Last + 1 PROVE DensityIfPossible(s) \in Numbers
  BY DensityIs, NumbersAdd, NumbersInvert DEF DensityIfPossible
<1>3. ASSUME NEW k \in 1 .. Last + 2
      PROVE  /\ f[k] = DensityIfPossible(k - 1) /\ h[k] = DensityIfPossible(Last + 2 - k)
             /\ f[k] \in Numbers /\ h[k] \in Numbers
  <2>1. k - 1 \in 0 .. Last + 1 /\ Last + 2 - k \in 0 .. Last + 1
    BY <1>1
  <2>2. QED
    BY <1>2, <2>1
<1>4. /\ \A s \in 0 .. Last + 2 : Before(s) = Total(f, s)
      /\ \A s \in 0 .. Last + 1 : After(s) = Total(h, Last + 1 - s)
  BY DEF Before, After
<1> HIDE DEF f, h
<1>5. Before(0) = Zero /\ After(Last + 1) = Zero
  <2>1. 0 \in 0 .. Last + 2 /\ Last + 1 \in 0 .. Last + 1 /\ Last + 1 - (Last + 1) = 0
    BY <1>1
  <2>2. QED
    BY <1>4, <2>1, TotalEmpty
<1>6. ASSUME NEW s \in 0 .. Last + 1 PROVE Before(s) \in Numbers /\ After(s) \in Numbers
  <2>1. /\ s \in Nat /\ s \in 0 .. Last + 2 /\ Last + 1 - s \in Nat
        /\ \A k \in 1 .. s : k \in 1 .. Last + 2
        /\ \A k \in 1 .. Last + 1 - s : k \in 1 .. Last + 2
    BY <1>1
  <2>2. /\ \A k \in 1 .. s : f[k] \in Numbers
        /\ \A k \in 1 .. Last + 1 - s : h[k] \in Numbers
    BY <1>3, <2>1
  <2>3. Total(f, s) \in Numbers /\ Total(h, Last + 1 - s) \in Numbers
    BY <2>1, <2>2, TotalType
  <2>4. QED
    BY <1>4, <2>1, <2>3
<1>7. ASSUME NEW s \in 0 .. Last + 1
      PROVE  Before(s + 1) = Plus(Before(s), DensityIfPossible(s))
  <2>1. /\ s \in Nat /\ s \in 0 .. Last + 2 /\ s + 1 \in 0 .. Last + 2
        /\ s + 1 \in 1 .. Last + 2 /\ s + 1 - 1 = s
        /\ \A k \in 1 .. s + 1 : k \in 1 .. Last + 2
    BY <1>1
  <2>2. \A k \in 1 .. s + 1 : f[k] \in Numbers
    BY <1>3, <2>1
  <2>3. Total(f, s + 1) = Plus(Total(f, s), f[s + 1])
    BY <2>1, <2>2, TotalStep
  <2>4. QED
    BY <1>3, <1>4, <2>1, <2>3
<1>8. ASSUME NEW s \in 0 .. Last
      PROVE  After(s) = Plus(After(s + 1), DensityIfPossible(s + 1))
  <2> DEFINE n == Last - s
  <2>1. /\ n \in Nat /\ n + 1 = Last + 1 - s /\ n = Last + 1 - (s + 1) /\ Last + 2 - (n + 1) = s + 1
        /\ s \in 0 .. Last + 1 /\ s + 1 \in 0 .. Last + 1 /\ n + 1 \in 1 .. Last + 2
        /\ \A k \in 1 .. n + 1 : k \in 1 .. Last + 2
    BY <1>1
  <2>2. After(s) = Total(h, n + 1) /\ After(s + 1) = Total(h, n)
    BY <1>4, <2>1
  <2>3. h[n + 1] = DensityIfPossible(s + 1)
    BY <1>3, <2>1
  <2>4. \A k \in 1 .. n + 1 : h[k] \in Numbers
    BY <1>3, <2>1
  <2> HIDE DEF n
  <2>5. Total(h, n + 1) = Plus(Total(h, n), h[n + 1])
    BY <2>1, <2>4, TotalStep
  <2>6. QED
    BY <2>2, <2>3, <2>5
<1>9. QED
  BY <1>2, <1>5, <1>6, <1>7, <1>8

\* Between them they have all techniques but s.
LEMMA Whole ==
    ASSUME PathOK, NEW s \in 0 .. Last + 1
    PROVE  Plus(Before(s + 1), After(s)) = AllDensities
<1> DEFINE Good == {m \in Nat : m <= Last + 1 =>
                        Plus(Before(Last + 1 - m + 1), After(Last + 1 - m)) = AllDensities}
<1>1. Last \in Nat \ {0}
  BY PathFacts
<1>2. 0 \in Good
  <2>1. Last + 1 - 0 = Last + 1 /\ Last + 1 + 1 = Last + 2 /\ Last + 1 \in 0 .. Last + 1
    BY <1>1
  <2>2. Before(Last + 2) = Plus(Before(Last + 1), DensityIfPossible(Last + 1))
    BY <2>1, SumSteps
  <2>3. Before(Last + 2) \in Numbers
    BY <2>1, <2>2, SumSteps, NumbersAdd
  <2>4. Plus(Before(Last + 2), Zero) = Before(Last + 2)
    BY <2>3, NumbersAdd
  <2>5. After(Last + 1) = Zero
    BY SumSteps
  <2>6. QED
    BY <2>1, <2>4, <2>5 DEF AllDensities
<1>3. ASSUME NEW m \in Nat, m \in Good PROVE m + 1 \in Good
  <2>1. SUFFICES ASSUME m + 1 <= Last + 1
                 PROVE  Plus(Before(Last + 1 - (m + 1) + 1), After(Last + 1 - (m + 1))) = AllDensities
    OBVIOUS
  <2> DEFINE t == Last - m
  <2>2. /\ t \in 0 .. Last /\ t \in 0 .. Last + 1 /\ t + 1 \in 0 .. Last + 1
        /\ Last + 1 - (m + 1) = t /\ Last + 1 - m = t + 1
    BY <1>1, <2>1
  <2> HIDE DEF t
  <2>3. Plus(Before(t + 1 + 1), After(t + 1)) = AllDensities
    BY <1>1, <1>3, <2>1, <2>2
  <2>4. /\ Before(t + 1 + 1) = Plus(Before(t + 1), DensityIfPossible(t + 1))
        /\ After(t) = Plus(After(t + 1), DensityIfPossible(t + 1))
        /\ Before(t + 1) \in Numbers /\ After(t + 1) \in Numbers
        /\ DensityIfPossible(t + 1) \in Numbers
    BY <2>2, SumSteps
  <2>5. Plus(Plus(Before(t + 1), DensityIfPossible(t + 1)), After(t + 1))
            = Plus(Before(t + 1), Plus(After(t + 1), DensityIfPossible(t + 1)))
    BY <2>4, NumbersAdd
  <2>6. Plus(Before(t + 1), After(t)) = AllDensities
    BY <2>3, <2>4, <2>5
  <2>7. QED
    BY <2>2, <2>6
<1>4. Nat \subseteq Good
  <2> HIDE DEF Good
  <2>1. QED
    BY <1>2, <1>3, SetInduction
<1>5. Last + 1 - s \in Nat /\ Last + 1 - s <= Last + 1 /\ Last + 1 - (Last + 1 - s) = s
  BY <1>1
<1>6. QED
  BY <1>4, <1>5

\* 1 / misWeight is Balanced, if its sums are worth the techniques on either side.
LEMMA BalancedIs ==
    ASSUME PathOK, NEW s \in 0 .. Last + 1, s \in Techniques,
           NEW wLight \in Numbers, NEW wCamera \in Numbers,
           Times(Density(s), wLight) = Before(s), Times(Density(s), wCamera) = After(s)
    PROVE  Plus(Plus(wLight, One), wCamera) = Balanced(s)
<1> DEFINE d == Density(s)
           w == Plus(Plus(wLight, One), wCamera)
<1>1. d \in Positive /\ d \in Numbers /\ One \in Numbers
  BY DensityIs, NumbersInvert, NumbersMultiply
<1>2. w \in Numbers /\ Plus(wLight, One) \in Numbers
  BY <1>1, NumbersAdd
<1>3. Before(s + 1) = Plus(Before(s), d)
  BY SumSteps DEF DensityIfPossible
<1>4. Times(d, w) = AllDensities
  <2> HIDE DEF d
  <2>1. Times(d, w) = Plus(Times(d, Plus(wLight, One)), Times(d, wCamera))
    BY <1>1, <1>2, NumbersDistribute
  <2>2. Times(d, Plus(wLight, One)) = Plus(Times(d, wLight), Times(d, One))
    BY <1>1, NumbersDistribute
  <2>3. Times(d, One) = d
    BY <1>1, NumbersMultiply
  <2>4. Times(d, wLight) = Before(s) /\ Times(d, wCamera) = After(s)
    BY DEF d
  <2>5. QED
    BY <1>3, <2>1, <2>2, <2>3, <2>4, Whole
<1>5. Balanced(s) = Over(AllDensities, d)
  BY DEF Balanced, AllDensities, Before
<1> HIDE DEF d, w
<1>6. AllDensities \in Numbers
  BY <1>1, <1>2, <1>4, NumbersMultiply
<1>7. w = Over(AllDensities, d)
  BY <1>1, <1>2, <1>4, <1>6, OverIs
<1>8. QED
  BY <1>5, <1>7 DEF w

\* A technique's share in the densities of all.
Share(s) == IF s \in Techniques THEN Over(One, Balanced(s)) ELSE Zero

\* If any technique can build the path, the shares of all of them add up to one.
SharesAddUp ==
    AllDensities # Zero => Total([k \in 1 .. Last + 2 |-> Share(k - 1)], Last + 2) = One

\* One over a quotient is the quotient of its sides exchanged.
LEMMA ShareIs ==
    ASSUME NEW a \in Positive, NEW d \in Positive
    PROVE  Over(One, Over(a, d)) = Times(Reciprocal(a), d)
<1> DEFINE r == Reciprocal(a)
           b == Over(a, d)
<1>1. /\ r \in Positive /\ r \in Numbers /\ a \in Numbers /\ d \in Numbers /\ One \in Numbers
      /\ b \in Positive /\ b \in Numbers /\ Times(d, b) = Times(b, d)
  BY NumbersMultiply, NumbersInvert, OverType
<1>2. Times(b, d) = a /\ Times(a, r) = One
  BY NumbersInvert, OverTimes
<1> HIDE DEF r, b
<1>3. Times(b, Times(r, d)) = Times(Times(b, d), r)
  <2>1. Times(r, d) = Times(d, r)
    BY <1>1, NumbersMultiply
  <2>2. Times(Times(b, d), r) = Times(b, Times(d, r))
    BY <1>1, Associate
  <2>3. QED
    BY <2>1, <2>2
<1>4. Times(r, d) \in Numbers /\ Times(b, Times(r, d)) = One
  BY <1>1, <1>2, <1>3, NumbersMultiply
<1>5. QED
  BY <1>1, <1>4, OverIs DEF r, b

LEMMA SharesOfPath == PathOK => SharesAddUp
<1> SUFFICES ASSUME PathOK, AllDensities # Zero
             PROVE  Total([k \in 1 .. Last + 2 |-> Share(k - 1)], Last + 2) = One
  BY DEF SharesAddUp
<1> DEFINE r == Reciprocal(AllDensities)
           f == [k \in 1 .. Last + 2 |-> DensityIfPossible(k - 1)]
           h == [k \in 1 .. Last + 2 |-> Share(k - 1)]
<1>1. Last \in Nat /\ Last + 2 \in Nat /\ \A k \in 1 .. Last + 2 : k - 1 \in 0 .. Last + 1
  BY PathFacts
<1>2. AllDensities = Total(f, Last + 2)
  BY DEF AllDensities, Before
<1>3. AllDensities \in Positive
  <2>1. \A k \in 1 .. Last + 2 : f[k] \in Numbers
    BY <1>1, SumSteps
  <2>2. AllDensities \in Numbers
    BY <1>1, <1>2, <2>1, TotalType
  <2>3. QED
    BY <2>2 DEF Positive
<1>4. r \in Numbers /\ Times(AllDensities, r) = One /\ Times(r, Zero) = Zero
  BY <1>3, NumbersInvert, NumbersDistribute
<1>5. ASSUME NEW s \in 0 .. Last + 1 PROVE Share(s) = Times(r, DensityIfPossible(s))
  <2>1. Balanced(s) = Over(AllDensities, Density(s))
    BY DEF Balanced, AllDensities, Before
  <2>2. CASE s \in Techniques
    <3>1. Density(s) \in Positive
      BY DensityIs
    <3>2. Over(One, Over(AllDensities, Density(s))) = Times(r, Density(s))
      BY <1>3, <3>1, ShareIs
    <3>3. QED
      BY <2>1, <2>2, <3>2 DEF Share, DensityIfPossible
  <2>3. CASE s \notin Techniques
    BY <1>4, <2>3 DEF Share, DensityIfPossible
  <2>4. QED
    BY <2>2, <2>3
<1>6. ASSUME NEW k \in 1 .. Last + 2 PROVE f[k] \in Numbers /\ h[k] = Times(r, f[k])
  BY <1>1, <1>5, SumSteps
<1> HIDE DEF r, f, h
<1>7. Total(h, Last + 2) = Times(r, AllDensities)
  BY <1>1, <1>2, <1>4, <1>6, TotalScaled
<1>8. QED
  BY <1>3, <1>4, <1>7, NumbersMultiply, NumbersInvert DEF h

-----------------------------------------------------------------------------
(***************************************************************************)
(* What the walks carry.  Scaled by Flow(i), dVC and dVCM of the light's   *)
(* walk on x_i are worth the techniques before i, those of the camera's    *)
(* walk the techniques after i.                                            *)
(***************************************************************************)

\* The light's walk with quantities h on x_i.
LightWalk(i, h) ==
    /\ h \in MisTerms
    /\ Times(Flow(i), h.dVCM) =
           IF i = 1 \/ ~IsSpecular(Surface(i - 1)) THEN Joint(i) ELSE Zero
    /\ Times(Flow(i), Times(h.dVC, Rev(i))) = Before(i)

\* The camera's walk with quantities h on x_i.
CameraWalk(i, h) ==
    /\ h \in MisTerms
    /\ Times(Flow(i), h.dVCM) =
           IF i = Last \/ ~IsSpecular(Surface(i + 1)) THEN Density(i + 1) ELSE Zero
    /\ Times(Flow(i), Times(h.dVC, Dir(i))) = After(i + 1)

\* No technique joins the walks at a specular surface.
LEMMA TechniqueOfSpecular ==
    ASSUME PathOK, NEW i \in 1 .. Last, IsSpecular(Surface(i))
    PROVE  DensityIfPossible(i) = Zero /\ DensityIfPossible(i + 1) = Zero
<1>1. i \notin Techniques
  BY DEF Techniques
<1>2. i + 1 \notin Techniques
  <2>1. i + 1 >= 2 /\ i + 1 - 1 = i
    OBVIOUS
  <2>2. QED
    BY <2>1 DEF Techniques
<1>3. QED
  BY <1>1, <1>2 DEF DensityIfPossible

\* Technique i, if the surface it ends at is not specular.
LEMMA TechniqueBefore ==
    ASSUME PathOK, NEW i \in 1 .. Last, ~IsSpecular(Surface(i))
    PROVE  DensityIfPossible(i) =
               IF i = 1 \/ ~IsSpecular(Surface(i - 1)) THEN Joint(i) ELSE Zero
<1>1. Last \in Nat /\ i \in 0 .. Last + 1 /\ i # Last + 1 /\ i # 0
  BY PathFacts
<1>2. i \in Techniques <=> (i = 1 \/ ~IsSpecular(Surface(i - 1)))
  BY <1>1 DEF Techniques
<1>3. Density(i) = Joint(i)
  BY <1>1, DensityIs
<1>4. QED
  BY <1>2, <1>3 DEF DensityIfPossible

\* Technique i + 1, likewise.
LEMMA TechniqueAfter ==
    ASSUME PathOK, NEW i \in 0 .. Last, i # 0 => ~IsSpecular(Surface(i))
    PROVE  DensityIfPossible(i + 1) =
               IF i = Last \/ ~IsSpecular(Surface(i + 1)) THEN Density(i + 1) ELSE Zero
<1>1. /\ Last \in Nat /\ i + 1 \in 0 .. Last + 1 /\ i + 1 # 0 /\ i + 1 - 1 = i
      /\ i + 1 >= 2 <=> i # 0
      /\ i + 1 <= Last <=> i # Last
  BY PathFacts
<1>2. i + 1 \in Techniques <=> (i = Last \/ ~IsSpecular(Surface(i + 1)))
  BY <1>1 DEF Techniques
<1>3. QED
  BY <1>2 DEF DensityIfPossible

\* What updateMisTermsOnScatter puts in parentheses, in the light's walk.
LEMMA LightTotal ==
    ASSUME PathOK, NEW i \in 1 .. Last, NEW h, LightWalk(i, h)
    PROVE  Times(Flow(i), IF IsSpecular(Surface(i)) THEN Times(h.dVC, Rev(i))
                          ELSE Plus(Times(h.dVC, Rev(i)), h.dVCM)) = Before(i + 1)
<1>1. /\ Flow(i) \in Numbers /\ Rev(i) \in Numbers
      /\ h.dVCM \in Numbers /\ h.dVC \in Numbers /\ Times(h.dVC, Rev(i)) \in Numbers
      /\ i \in 0 .. Last + 1
  <2>1. i \in 0 .. Last /\ i \in 1 .. Last + 1 /\ i \in 0 .. Last + 1
    BY PathFacts
  <2>2. Flow(i) \in Numbers /\ Rev(i) \in Numbers
    BY <2>1, JointFacts, RevType, NumbersInvert
  <2>3. h.dVCM \in Numbers /\ h.dVC \in Numbers
    BY DEF LightWalk, MisTerms
  <2>4. QED
    BY <2>1, <2>2, <2>3, NumbersMultiply
<1>2. Before(i + 1) = Plus(Before(i), DensityIfPossible(i)) /\ Before(i) \in Numbers
  BY <1>1, SumSteps
<1>3. CASE IsSpecular(Surface(i))
  <2>1. DensityIfPossible(i) = Zero
    BY <1>3, TechniqueOfSpecular
  <2>2. Before(i + 1) = Before(i)
    BY <1>2, <2>1, NumbersAdd
  <2>3. QED
    BY <1>3, <2>2 DEF LightWalk
<1>4. CASE ~IsSpecular(Surface(i))
  <2>1. Times(Flow(i), h.dVCM) = DensityIfPossible(i)
    BY <1>4, TechniqueBefore DEF LightWalk
  <2>2. Times(Flow(i), Times(h.dVC, Rev(i))) = Before(i)
    BY DEF LightWalk
  <2>3. Times(Flow(i), Plus(Times(h.dVC, Rev(i)), h.dVCM))
            = Plus(Times(Flow(i), Times(h.dVC, Rev(i))), Times(Flow(i), h.dVCM))
    BY <1>1, NumbersDistribute
  <2>4. QED
    BY <1>2, <1>4, <2>1, <2>2, <2>3
<1>5. QED
  BY <1>3, <1>4

\* The same in the camera's walk.
LEMMA CameraTotal ==
    ASSUME PathOK, NEW i \in 0 .. Last, NEW h, CameraWalk(i, h)
    PROVE  Times(Flow(i), IF i # 0 /\ IsSpecular(Surface(i)) THEN Times(h.dVC, Dir(i))
                          ELSE Plus(Times(h.dVC, Dir(i)), h.dVCM)) = After(i)
<1>1. /\ Flow(i) \in Numbers /\ Dir(i) \in Numbers
      /\ h.dVCM \in Numbers /\ h.dVC \in Numbers /\ Times(h.dVC, Dir(i)) \in Numbers
      /\ i + 1 \in 0 .. Last + 1
  <2>1. i + 1 \in 0 .. Last + 1
    BY PathFacts
  <2>2. Flow(i) \in Numbers /\ Dir(i) \in Numbers
    BY JointFacts, DirType, NumbersInvert
  <2>3. h.dVCM \in Numbers /\ h.dVC \in Numbers
    BY DEF CameraWalk, MisTerms
  <2>4. QED
    BY <2>1, <2>2, <2>3, NumbersMultiply
<1>2. After(i) = Plus(After(i + 1), DensityIfPossible(i + 1)) /\ After(i + 1) \in Numbers
  BY <1>1, SumSteps
<1>3. CASE i # 0 /\ IsSpecular(Surface(i))
  <2>1. i \in 1 .. Last
    BY <1>3, PathFacts
  <2>2. DensityIfPossible(i + 1) = Zero
    BY <1>3, <2>1, TechniqueOfSpecular
  <2>3. After(i) = After(i + 1)
    BY <1>2, <2>2, NumbersAdd
  <2>4. QED
    BY <1>3, <2>3 DEF CameraWalk
<1>4. CASE ~(i # 0 /\ IsSpecular(Surface(i)))
  <2>1. Times(Flow(i), h.dVCM) = DensityIfPossible(i + 1)
    BY <1>4, TechniqueAfter DEF CameraWalk
  <2>2. Times(Flow(i), Times(h.dVC, Dir(i))) = After(i + 1)
    BY DEF CameraWalk
  <2>3. Times(Flow(i), Plus(Times(h.dVC, Dir(i)), h.dVCM))
            = Plus(Times(Flow(i), Times(h.dVC, Dir(i))), Times(Flow(i), h.dVCM))
    BY <1>1, NumbersDistribute
  <2>4. QED
    BY <1>2, <1>4, <2>1, <2>2, <2>3
<1>5. QED
  BY <1>3, <1>4

\* Both walks move along the path at the exchange of two densities.
LEMMA Carried ==
    ASSUME NEW j \in Numbers, NEW fwd \in Numbers, NEW bwd \in Numbers,
           NEW x \in Numbers, NEW y \in Numbers, Times(fwd, x) = Times(bwd, y)
    PROVE  Times(Times(j, fwd), x) = Times(Times(j, bwd), y)
BY NumbersMultiply

\* A scattering of the light's walk, and its next hit.
LEMMA LightGoesOn ==
    ASSUME PathOK, LobesEquallyLikely, NEW i \in 1 .. Last - 1, NEW h, LightWalk(i, h),
           NEW b \in Picks(Surface(i))
    PROVE  LightWalk(i + 1, UpdateOnHit(UpdateOnScatter(h, Surface(i), Surface(i).cosL,
                                                        Surface(i).cosC, b),
                                        Surface(i + 1).cosL, D2(i)))
<1> DEFINE v == Surface(i)
           hit == UpdateOnHit(UpdateOnScatter(h, v, v.cosL, v.cosC, b), Surface(i + 1).cosL, D2(i))
           q == IF IsSpecular(v) THEN Times(h.dVC, Rev(i)) ELSE Plus(Times(h.dVC, Rev(i)), h.dVCM)
<1>1. /\ Last \in Nat /\ i \in 1 .. Last /\ i \in 0 .. Last /\ i + 1 \in 1 .. Last
      /\ i + 1 \in 0 .. Last + 1 /\ i + 1 \in 1 .. Last + 1 /\ i \in 1 .. Last + 1
      /\ i + 1 - 1 = i /\ i \in 0 .. Last - 1 /\ i # 0 /\ i # Last + 1 /\ i + 1 # 1
  BY PathFacts
<1>2. /\ v \in Surfaces /\ v.cosL \in Positive /\ v.cosC \in Positive /\ Pdf(v, v.cosC) # Zero
      /\ Surface(i + 1).cosL \in Positive /\ D2(i) \in Positive
  BY <1>1, PathFacts, SurfaceFacts
<1>3. h \in MisTerms /\ h.dVCM \in Numbers /\ h.dVC \in Numbers
  BY DEF LightWalk, MisTerms
<1>4. \A c, d \in Picks(v) : PickProb(v, c) = PickProb(v, d)
  BY <1>1 DEF LobesEquallyLikely
<1>5. Rev(i) = Times(Pdf(v, v.cosL), v.cont) /\ Dir(i) = Times(Pdf(v, v.cosC), v.cont)
  BY <1>1 DEF Rev, Dir
<1>6. CosC(i) = v.cosC
  BY <1>1 DEF CosC
<1>7. LightDensity(i) = Over(Times(Dir(i), Surface(i + 1).cosL), D2(i))
  BY <1>1, LightDensityIs
<1>8. CameraDensity(i) = Over(Times(Rev(i + 1), v.cosC), D2(i))
  BY <1>1, <1>6, CameraDensityIs
<1>9. LightDensity(i) \in Numbers /\ CameraDensity(i) \in Numbers
  BY <1>1, LightDensityIs, CameraDensityIs, NumbersInvert
<1>10. Rev(i + 1) \in Positive /\ Rev(i) \in Numbers /\ Rev(i + 1) \in Numbers
  BY <1>1, RevType, NumbersInvert
<1>11. Joint(i + 1) \in Numbers
  BY <1>1, JointFacts, NumbersInvert
<1>12. Flow(i) = Times(Joint(i + 1), CameraDensity(i)) /\ Flow(i + 1) = Times(Joint(i + 1), LightDensity(i))
  BY <1>1, JointFacts DEF Flow
<1>13. /\ hit \in MisTerms
       /\ Times(LightDensity(i), hit.dVCM) = IF IsSpecular(v) THEN Zero ELSE One
       /\ Times(LightDensity(i), Times(hit.dVC, Rev(i + 1))) = Times(CameraDensity(i), q)
  <2>1. ScatterLaw(h, v, v.cosL, v.cosC, b, Surface(i + 1).cosL, D2(i), Rev(i + 1))
    <3> HIDE DEF v
    <3>1. b \in Picks(v)
      BY DEF v
    <3>2. QED
      BY <1>2, <1>3, <1>4, <1>10, <3>1, Scattered
  <2>2. QED
    BY <1>5, <1>7, <1>8, <2>1 DEF ScatterLaw
<1>14. q \in Numbers /\ hit.dVCM \in Numbers /\ Times(hit.dVC, Rev(i + 1)) \in Numbers
  <2> HIDE DEF hit
  <2>1. hit.dVCM \in Numbers /\ hit.dVC \in Numbers
    BY <1>13 DEF MisTerms
  <2>2. Times(h.dVC, Rev(i)) \in Numbers /\ Times(hit.dVC, Rev(i + 1)) \in Numbers
    BY <1>3, <1>10, <2>1, NumbersMultiply
  <2>3. Plus(Times(h.dVC, Rev(i)), h.dVCM) \in Numbers
    BY <1>3, <2>2, NumbersAdd
  <2>4. QED
    BY <2>1, <2>2, <2>3
<1>15. Times(Flow(i), q) = Before(i + 1)
  BY <1>1, LightTotal
<1> HIDE DEF hit, q, v
<1>16. Times(Flow(i + 1), Times(hit.dVC, Rev(i + 1))) = Before(i + 1)
  BY <1>11, <1>12, <1>13, <1>14, <1>15, <1>9, Carried
<1>17. Times(Flow(i + 1), hit.dVCM) = IF ~IsSpecular(v) THEN Joint(i + 1) ELSE Zero
  <2>1. Times(Times(Joint(i + 1), LightDensity(i)), hit.dVCM)
            = Times(Joint(i + 1), Times(LightDensity(i), hit.dVCM))
    BY <1>11, <1>14, <1>9, Associate
  <2>2. Times(Joint(i + 1), One) = Joint(i + 1) /\ Times(Joint(i + 1), Zero) = Zero
    BY <1>11, NumbersMultiply, NumbersDistribute
  <2>3. QED
    BY <1>12, <1>13, <2>1, <2>2
<1>18. QED
  BY <1>1, <1>13, <1>16, <1>17 DEF LightWalk, hit, v

\* A scattering of the camera's walk, and its next hit, the light included.
LEMMA CameraGoesOn ==
    ASSUME PathOK, LobesEquallyLikely, NEW i \in 1 .. Last, NEW h, CameraWalk(i, h),
           NEW b \in Picks(Surface(i))
    PROVE  LET p == UpdateOnScatter(h, Surface(i), Surface(i).cosC, Surface(i).cosL, b)
           IN p \in MisTerms /\ CameraWalk(i - 1, UpdateOnHit(p, CosC(i - 1), D2(i - 1)))
<1> DEFINE v == Surface(i)
           p == UpdateOnScatter(h, v, v.cosC, v.cosL, b)
           hit == UpdateOnHit(p, CosC(i - 1), D2(i - 1))
           q == IF IsSpecular(v) THEN Times(h.dVC, Dir(i)) ELSE Plus(Times(h.dVC, Dir(i)), h.dVCM)
<1>1. /\ Last \in Nat /\ i \in 0 .. Last /\ i - 1 \in 0 .. Last /\ i - 1 \in 0 .. Last - 1
      /\ i \in 0 .. Last + 1 /\ i \in 1 .. Last + 1
      /\ i - 1 + 1 = i /\ i # 0 /\ i # Last + 1 /\ i - 1 # Last
  BY PathFacts
<1>2. /\ v \in Surfaces /\ v.cosL \in Positive /\ v.cosC \in Positive /\ Pdf(v, v.cosL) # Zero
      /\ CosC(i - 1) \in Positive /\ D2(i - 1) \in Positive
  BY <1>1, PathFacts, SurfaceFacts, CosCType
<1>3. h \in MisTerms /\ h.dVCM \in Numbers /\ h.dVC \in Numbers
  BY DEF CameraWalk, MisTerms
<1>4. \A c, d \in Picks(v) : PickProb(v, c) = PickProb(v, d)
  BY DEF LobesEquallyLikely
<1>5. Rev(i) = Times(Pdf(v, v.cosL), v.cont) /\ Dir(i) = Times(Pdf(v, v.cosC), v.cont)
  BY <1>1 DEF Rev, Dir
<1>6. LightDensity(i - 1) = Over(Times(Dir(i - 1), v.cosL), D2(i - 1))
  BY <1>1, LightDensityIs
<1>7. CameraDensity(i - 1) = Over(Times(Rev(i), CosC(i - 1)), D2(i - 1))
  BY <1>1, CameraDensityIs
<1>8. LightDensity(i - 1) \in Numbers /\ CameraDensity(i - 1) \in Numbers
  BY <1>1, LightDensityIs, CameraDensityIs, NumbersInvert
<1>9. Dir(i - 1) \in Positive /\ Dir(i) \in Numbers /\ Dir(i - 1) \in Numbers
  BY <1>1, DirType, NumbersInvert
<1>10. Joint(i) \in Numbers
  BY <1>1, JointFacts, NumbersInvert
<1>11. Flow(i) = Times(Joint(i), LightDensity(i - 1)) /\ Flow(i - 1) = Times(Joint(i), CameraDensity(i - 1))
  BY <1>1, JointFacts DEF Flow
<1>12. /\ p \in MisTerms /\ hit \in MisTerms
       /\ Times(CameraDensity(i - 1), hit.dVCM) = IF IsSpecular(v) THEN Zero ELSE One
       /\ Times(CameraDensity(i - 1), Times(hit.dVC, Dir(i - 1))) = Times(LightDensity(i - 1), q)
  <2>1. ScatterLaw(h, v, v.cosC, v.cosL, b, CosC(i - 1), D2(i - 1), Dir(i - 1))
    <3> HIDE DEF v
    <3>1. b \in Picks(v)
      BY DEF v
    <3>2. QED
      BY <1>2, <1>3, <1>4, <1>9, <3>1, Scattered
  <2>2. QED
    BY <1>5, <1>6, <1>7, <2>1 DEF ScatterLaw
<1>13. q \in Numbers /\ hit.dVCM \in Numbers /\ Times(hit.dVC, Dir(i - 1)) \in Numbers
  <2> HIDE DEF hit
  <2>1. hit.dVCM \in Numbers /\ hit.dVC \in Numbers
    BY <1>12 DEF MisTerms
  <2>2. Times(h.dVC, Dir(i)) \in Numbers /\ Times(hit.dVC, Dir(i - 1)) \in Numbers
    BY <1>3, <1>9, <2>1, NumbersMultiply
  <2>3. Plus(Times(h.dVC, Dir(i)), h.dVCM) \in Numbers
    BY <1>3, <2>2, NumbersAdd
  <2>4. QED
    BY <2>1, <2>2, <2>3
<1>14. Times(Flow(i), q) = After(i)
  BY <1>1, CameraTotal
<1> HIDE DEF hit, q, v
<1>15. Times(Flow(i - 1), Times(hit.dVC, Dir(i - 1))) = After(i)
  BY <1>8, <1>10, <1>11, <1>12, <1>13, <1>14, Carried
<1>16. Times(Flow(i - 1), hit.dVCM) = IF ~IsSpecular(v) THEN Density(i) ELSE Zero
  <2>1. Times(Times(Joint(i), CameraDensity(i - 1)), hit.dVCM)
            = Times(Joint(i), Times(CameraDensity(i - 1), hit.dVCM))
    BY <1>8, <1>10, <1>13, Associate
  <2>2. Times(Joint(i), One) = Joint(i) /\ Times(Joint(i), Zero) = Zero
    BY <1>10, NumbersMultiply, NumbersDistribute
  <2>3. Density(i) = Joint(i)
    BY <1>1, DensityIs
  <2>4. QED
    BY <1>11, <1>12, <2>1, <2>2, <2>3
<1>17. QED
  BY <1>1, <1>12, <1>15, <1>16 DEF CameraWalk, hit, v

\* The first hit of a camera ray: initCameraPayload, then cameraHit.
LEMMA CameraStarts ==
    ASSUME PathOK
    PROVE  CameraWalk(Last, UpdateOnHit(InitCameraPayload, Surface(Last).cosC, D2(Last)))
<1> DEFINE hit == UpdateOnHit(InitCameraPayload, Surface(Last).cosC, D2(Last))
           cos == Surface(Last).cosC
           d2 == D2(Last)
<1>1. Last \in Nat \ {0} /\ Last \in 1 .. Last /\ Last \in 0 .. Last /\ Last + 1 \in 0 .. Last + 1
  BY PathFacts
<1>2. /\ cos \in Positive /\ d2 \in Positive
      /\ lightSubpathCount \in Positive /\ cameraPdfW \in Positive
  BY <1>1, PathFacts, SurfaceFacts, SceneFacts
<1>3. CameraDensity(Last) = Over(Times(cameraPdfW, cos), d2)
  BY <1>1, CameraDensityIs DEF Rev, CosC
<1> HIDE DEF cos, d2
<1>4. hit = [depth |-> 1, dVCM |-> Over(Times(Over(lightSubpathCount, cameraPdfW), d2), cos),
             dVC |-> Over(Zero, cos)]
  BY DEF UpdateOnHit, InitCameraPayload, InitCameraMisTerms, cos, d2
<1> HIDE DEF hit
<1>5. Over(Zero, cos) = Zero /\ Zero \in Numbers
  BY <1>2, NumbersAdd, NumbersMultiply, NumbersDistribute, NumbersInvert DEF Over
<1> DEFINE start == Over(Times(Over(lightSubpathCount, cameraPdfW), d2), cos)
<1>6. start \in Numbers
  BY <1>2, OverType, PositiveTimes, NumbersInvert
<1>7. hit \in MisTerms
  BY <1>4, <1>5, <1>6 DEF MisTerms
<1>8. Times(CameraDensity(Last), start) = lightSubpathCount
  BY <1>2, <1>3, TurnCounted
<1>9. Flow(Last) = Times(Joint(Last + 1), CameraDensity(Last))
  BY DEF Flow
<1>10. /\ Joint(Last + 1) \in Numbers /\ CameraDensity(Last) \in Numbers
       /\ Flow(Last) \in Numbers /\ lightSubpathCount \in Numbers
  BY <1>1, JointFacts, CameraDensityIs, SceneFacts, NumbersInvert
<1>11. Times(Flow(Last), hit.dVCM) = Density(Last + 1)
  <2>1. hit.dVCM = start
    BY <1>4
  <2> HIDE DEF start
  <2>2. Times(Times(Joint(Last + 1), CameraDensity(Last)), start)
            = Times(Joint(Last + 1), Times(CameraDensity(Last), start))
    BY <1>6, <1>10, Associate
  <2>3. Times(Joint(Last + 1), lightSubpathCount) = Times(lightSubpathCount, Joint(Last + 1))
    BY <1>10, NumbersMultiply
  <2>4. Density(Last + 1) = Times(lightSubpathCount, Joint(Last + 1))
    BY <1>1, DensityIs
  <2>5. QED
    BY <1>8, <1>9, <2>1, <2>2, <2>3, <2>4
<1>12. Times(Flow(Last), Times(hit.dVC, Dir(Last))) = After(Last + 1)
  <2>1. hit.dVC = Zero
    BY <1>4, <1>5
  <2>2. Dir(Last) \in Numbers
    BY <1>1, DirType, NumbersInvert
  <2>3. Times(Zero, Dir(Last)) = Zero
    BY <1>5, <2>2, NumbersMultiply, NumbersDistribute
  <2>4. Times(Flow(Last), Zero) = Zero
    BY <1>10, NumbersDistribute
  <2>5. QED
    BY <2>1, <2>3, <2>4, SumSteps
<1>13. QED
  BY <1>7, <1>11, <1>12 DEF CameraWalk, hit

-----------------------------------------------------------------------------
(***************************************************************************)
(* The weights of the four ways to contribute, from what the walks carry.  *)
(***************************************************************************)

\* What light.h says of a start, of either kind.
LEMMA LightFacts ==
    ASSUME PathOK
    PROVE  /\ LightEmit(Light).emissionPdfW = Times(EmissionDirPdfW(Light), LightPointPdf(Light))
           /\ LightEmit(Light).directPdfA = LightPointPdf(Light)
           /\ ~Light.isDelta => LightEmit(Light).cos = Light.cos
<1>1. Light.isDelta \in BOOLEAN /\ Light.cos \in Numbers /\ Light.inverseArea \in Numbers
  BY PathFacts, NumbersInvert
<1>2. CASE Light.isDelta
  <2>1. /\ LightEmit(Light).emissionPdfW = Over(InvPi, Four)
        /\ LightEmit(Light).directPdfA = One
    BY <1>2 DEF LightEmit
  <2>2. EmissionDirPdfW(Light) = Over(InvPi, Four) /\ LightPointPdf(Light) = One
    BY <1>2 DEF EmissionDirPdfW, LightPointPdf
  <2>3. Over(InvPi, Four) \in Numbers
    BY SceneFacts, OverType, NumbersInvert
  <2>4. QED
    BY <1>2, <2>1, <2>2, <2>3, NumbersMultiply
<1>3. CASE ~Light.isDelta
  <2>1. /\ LightEmit(Light).emissionPdfW = Times(Times(Light.cos, InvPi), Light.inverseArea)
        /\ LightEmit(Light).directPdfA = Light.inverseArea
        /\ LightEmit(Light).cos = Light.cos
    BY <1>3 DEF LightEmit, LambertianPdf
  <2>2. /\ EmissionDirPdfW(Light) = Times(Light.cos, InvPi)
        /\ LightPointPdf(Light) = Light.inverseArea
    BY <1>3 DEF EmissionDirPdfW, LightPointPdf
  <2>3. QED
    BY <2>1, <2>2
<1>4. QED
  BY <1>1, <1>2, <1>3

\* The techniques that start on the light by chance and by choice.
LEMMA LightStartDensity ==
    ASSUME PathOK
    PROVE  /\ Times(Joint(1), CameraDensity(0)) = Times(Joint(0), LightStart)
           /\ Density(0) = Joint(0) /\ Density(1) = Joint(1)
           /\ Before(1) = IF Light.isDelta THEN Zero ELSE Joint(0)
<1>1. Last \in Nat \ {0} /\ 0 \in 0 .. Last + 1 /\ 1 \in 0 .. Last + 1 /\ 0 # Last + 1 /\ 1 # Last + 1
  BY PathFacts
<1>2. Density(0) = Joint(0) /\ Density(1) = Joint(1)
  BY <1>1, DensityIs
<1>3. Times(Joint(1), CameraDensity(0)) = Times(Joint(0), LightStart)
  <2>1. Flow(0) = Times(Joint(1), CameraDensity(0))
    BY DEF Flow
  <2>2. QED
    BY <2>1, JointFacts
<1>4. 0 \in Techniques <=> ~Light.isDelta
  BY <1>1 DEF Techniques
<1>5. Before(1) = Plus(Zero, DensityIfPossible(0))
  BY <1>1, SumSteps, 0 + 1 = 1
<1>6. DensityIfPossible(0) = IF Light.isDelta THEN Zero ELSE Joint(0)
  BY <1>2, <1>4 DEF DensityIfPossible
<1>7. DensityIfPossible(0) \in Numbers /\ Zero \in Numbers
  BY <1>1, SumSteps, NumbersAdd
<1>8. Plus(Zero, DensityIfPossible(0)) = DensityIfPossible(0)
  BY <1>7, NumbersAdd
<1>9. QED
  BY <1>2, <1>3, <1>5, <1>6, <1>8

\* The first hit of the light's walk: initLightPayload, then lightHit.
LEMMA LightStarts ==
    ASSUME PathOK
    PROVE  LightWalk(1, UpdateOnHit(InitLightPayload(Light), Surface(1).cosL, D2(0)))
<1> DEFINE hit == UpdateOnHit(InitLightPayload(Light), Surface(1).cosL, D2(0))
           e == EmissionDirPdfW(Light)
           a == LightPointPdf(Light)
           k == Light.pick
           b == Surface(1).cosL
           c == D2(0)
           u == Light.cos
           r == Rev(1)
<1>1. /\ Last \in Nat \ {0} /\ 1 \in 1 .. Last /\ 0 \in 0 .. Last /\ 0 \in 0 .. Last - 1
      /\ 1 \in 1 .. Last + 1 /\ 0 \in 0 .. Last + 1 /\ 1 \in 0 .. Last + 1 /\ 0 + 1 = 1 /\ 1 - 1 = 0
      /\ 1 \in 0 .. Last
  BY PathFacts
<1>2. /\ e \in Positive /\ a \in Positive /\ k \in Positive /\ u \in Positive
      /\ b \in Positive /\ c \in Positive /\ r \in Positive /\ LightStart \in Positive
  BY <1>1, PathFacts, SurfaceFacts, EmissionFacts, RevType
<1>3. LightStart = Times(a, k)
  BY DEF LightStart
<1>4. LightDensity(0) = Over(Times(e, b), c) /\ LightDensity(0) \in Numbers
  BY <1>1, LightDensityIs, NumbersInvert DEF Dir
<1>5. CameraDensity(0) = Over(Times(r, u), c) /\ CameraDensity(0) \in Numbers
  BY <1>1, CameraDensityIs, NumbersInvert DEF CosC
<1> DEFINE emission == Times(Times(e, a), k)
<1>6. InitLightPayload(Light) =
          [depth |-> 0, dVCM |-> Over(Times(a, k), emission),
           dVC |-> IF Light.isDelta THEN Zero ELSE Over(u, emission)]
  BY LightFacts DEF InitLightPayload, InitLightMisTerms
<1>7. hit = [depth |-> 1, dVCM |-> Over(Times(Over(Times(a, k), emission), c), b),
             dVC |-> Over(IF Light.isDelta THEN Zero ELSE Over(u, emission), b)]
  BY <1>6 DEF UpdateOnHit
<1> HIDE DEF hit, e, a, k, b, c, u, r
<1>8. emission = Times(e, LightStart) /\ emission \in Positive /\ emission \in Numbers
  <2>1. Times(Times(e, a), k) = Times(e, Times(a, k))
    BY <1>2, NumbersInvert, Associate
  <2>2. QED
    BY <1>2, <1>3, <2>1, PositiveTimes, NumbersInvert
<1>9. Over(Times(a, k), emission) = Over(One, e)
  <2>1. Times(LightStart, e) = Times(One, emission)
    BY <1>2, <1>8, NumbersMultiply, NumbersInvert
  <2>2. QED
    BY <1>2, <1>3, <1>8, <2>1, OverSame, SceneFacts, NumbersInvert
<1> HIDE DEF emission
<1> DEFINE first == Over(Times(Over(One, e), c), b)
           dVC == Over(IF Light.isDelta THEN Zero ELSE Over(u, emission), b)
<1>10. first \in Numbers /\ Times(LightDensity(0), first) = One
  <2>1. Times(Over(Times(e, b), c), Over(Times(Over(One, e), c), b)) = One
    BY <1>2, TurnCounted, SceneFacts
  <2>2. Over(One, e) \in Positive
    BY <1>2, SceneFacts, OverType
  <2>3. first \in Positive
    BY <1>2, <2>2, OverType, PositiveTimes
  <2>4. QED
    BY <1>4, <2>1, <2>3, NumbersInvert
<1>11. dVC \in Numbers
  BY <1>2, <1>8, OverType, NumbersInvert, NumbersAdd
<1>12. hit = [depth |-> 1, dVCM |-> first, dVC |-> dVC]
  BY <1>7, <1>9
<1> HIDE DEF first
<1>13. hit \in MisTerms /\ hit.dVCM = first /\ hit.dVC = dVC
  BY <1>10, <1>11, <1>12 DEF MisTerms
<1>14. Flow(1) = Times(Joint(1), LightDensity(0))
  BY <1>1, JointFacts
<1>15. Joint(1) \in Numbers /\ Joint(0) \in Numbers /\ LightStart \in Numbers /\ r \in Numbers
  BY <1>1, <1>2, JointFacts, NumbersInvert
<1>16. Times(Flow(1), first) = Joint(1)
  BY <1>4, <1>10, <1>14, <1>15, Associate, NumbersMultiply
<1> DEFINE z == Times(LightDensity(0), Times(dVC, r))
<1>17. z \in Numbers /\ Times(dVC, r) \in Numbers
  BY <1>4, <1>11, <1>15, NumbersMultiply
<1>18. Times(Flow(1), Times(dVC, r)) = Times(Joint(1), z)
  BY <1>4, <1>14, <1>15, <1>17, Associate
<1>19. Times(Joint(1), z) = Before(1)
  <2>1. CASE Light.isDelta
    <3>1. Zero \in Numbers /\ Reciprocal(b) \in Numbers
      BY <1>2, NumbersAdd, NumbersInvert
    <3>2. dVC = Zero
      BY <2>1, <3>1, NumbersMultiply, NumbersDistribute DEF Over
    <3>3. Times(Zero, r) = Zero
      BY <1>15, <3>1, NumbersMultiply, NumbersDistribute
    <3>4. z = Zero
      BY <1>4, <3>2, <3>3, NumbersDistribute
    <3>5. Times(Joint(1), Zero) = Zero
      BY <1>15, NumbersDistribute
    <3>6. QED
      BY <2>1, <3>4, <3>5, LightStartDensity
  <2>2. CASE ~Light.isDelta
    <3>1. dVC = Over(Over(u, Times(e, LightStart)), b)
      BY <1>8, <2>2
    <3>2. EmissionLaw(e, b, c, LightStart, u, r)
      BY <1>2, TurnEmitted
    <3> HIDE DEF dVC
    <3>3. Times(LightStart, z) = CameraDensity(0)
      BY <1>4, <1>5, <3>1, <3>2 DEF EmissionLaw
    <3> HIDE DEF z
    <3>4. Times(Times(Joint(1), z), LightStart) = Times(Joint(1), Times(LightStart, z))
      BY <1>15, <1>17, NumbersMultiply
    <3>5. Times(Times(Joint(1), z), LightStart) = Times(Joint(0), LightStart)
      BY <3>3, <3>4, LightStartDensity
    <3>6. Times(Joint(1), z) \in Numbers
      BY <1>15, <1>17, NumbersMultiply
    <3>7. Times(Joint(1), z) = Joint(0)
      BY <1>2, <1>15, <3>5, <3>6, Cancel
    <3>8. QED
      BY <2>2, <3>7, LightStartDensity
  <2>3. QED
    BY <2>1, <2>2
<1> HIDE DEF z, dVC
<1>20. QED
  BY <1>13, <1>16, <1>18, <1>19 DEF LightWalk, hit, r

LEMMA VcmFAt ==
    ASSUME PathOK, NEW i \in 1 .. Last
    PROVE  LET v == Surface(i) IN
           /\ VcmF(v, v.cosL, v.cosC).dir = Dir(i) /\ VcmF(v, v.cosL, v.cosC).rev = Rev(i)
           /\ VcmF(v, v.cosC, v.cosL).dir = Rev(i) /\ VcmF(v, v.cosC, v.cosL).rev = Dir(i)
<1>1. i # 0 /\ i # Last + 1
  BY PathFacts
<1>2. Surface(i) \in Surfaces
  BY PathFacts
<1>3. Surface(i).cosL \in Positive /\ Surface(i).cosC \in Positive
  BY <1>2, SurfaceFacts
<1>4. QED
  BY <1>1, <1>2, <1>3, VcmFIs DEF Dir, Rev

\* PartialWeight in the light's walk is worth the techniques up to i.
LEMMA LightPartial ==
    ASSUME PathOK, NEW i \in 1 .. Last, NEW h, LightWalk(i, h), ~IsSpecular(Surface(i))
    PROVE  /\ PartialWeight(h, Rev(i)) \in Numbers
           /\ Times(Flow(i), PartialWeight(h, Rev(i))) = Before(i + 1)
<1>1. h.dVCM \in Numbers /\ h.dVC \in Numbers
  BY DEF LightWalk, MisTerms
<1>2. i \in 1 .. Last + 1
  BY PathFacts
<1>3. Rev(i) \in Numbers
  BY <1>2, RevType, NumbersInvert
<1>4. Times(h.dVC, Rev(i)) \in Numbers
  BY <1>1, <1>3, NumbersMultiply
<1>5. /\ PartialWeight(h, Rev(i)) = Plus(Times(h.dVC, Rev(i)), h.dVCM)
      /\ PartialWeight(h, Rev(i)) \in Numbers
  BY <1>1, <1>4, NumbersAdd DEF PartialWeight
<1>6. QED
  BY <1>5, LightTotal

\* In the camera's walk it is worth the techniques after i.
LEMMA CameraPartial ==
    ASSUME PathOK, NEW i \in 0 .. Last, NEW h, CameraWalk(i, h),
           i # 0 => ~IsSpecular(Surface(i))
    PROVE  /\ PartialWeight(h, Dir(i)) \in Numbers
           /\ Times(Flow(i), PartialWeight(h, Dir(i))) = After(i)
<1>1. h.dVCM \in Numbers /\ h.dVC \in Numbers
  BY DEF CameraWalk, MisTerms
<1>2. Dir(i) \in Numbers
  BY DirType, NumbersInvert
<1>3. Times(h.dVC, Dir(i)) \in Numbers
  BY <1>1, <1>2, NumbersMultiply
<1>4. /\ PartialWeight(h, Dir(i)) = Plus(Times(h.dVC, Dir(i)), h.dVCM)
      /\ PartialWeight(h, Dir(i)) \in Numbers
  BY <1>1, <1>3, NumbersAdd DEF PartialWeight
<1>5. QED
  BY <1>4, CameraTotal

\* connectCameraT1.
LEMMA T1IsBalanced ==
    ASSUME PathOK, NEW h, LightWalk(Last, h), ~IsSpecular(Surface(Last))
    PROVE  WeightT1(h) = Balanced(Last + 1) /\ Last + 1 \in Techniques
<1> DEFINE pw == PartialWeight(h, Rev(Last))
           cd == CameraDensity(Last)
           count == lightSubpathCount
           wLight == Times(Over(cd, count), pw)
<1>1. Last \in Nat \ {0} /\ Last \in 1 .. Last /\ Last \in 0 .. Last /\ Last + 1 \in 0 .. Last + 1
  BY PathFacts
<1>2. Last + 1 \in Techniques
  BY <1>1 DEF Techniques
<1>3. cd = Over(Times(cameraPdfW, Surface(Last).cosC), D2(Last))
  BY <1>1, CameraDensityIs DEF Rev, CosC
<1>4. WeightT1(h) = Plus(wLight, One)
  BY <1>1, <1>3, VcmFAt DEF WeightT1
<1>5. /\ cd \in Numbers /\ count \in Positive /\ count \in Numbers /\ Joint(Last + 1) \in Numbers
      /\ One \in Numbers /\ Zero \in Numbers
  BY <1>1, CameraDensityIs, SceneFacts, JointFacts, NumbersInvert, NumbersAdd
<1>6. pw \in Numbers /\ Times(Flow(Last), pw) = Before(Last + 1)
  BY <1>1, LightPartial
<1>7. Flow(Last) = Times(Joint(Last + 1), cd)
  BY DEF Flow
<1>8. Density(Last + 1) = Times(count, Joint(Last + 1)) /\ Density(Last + 1) \in Numbers
  BY <1>1, DensityIs, NumbersInvert
<1> HIDE DEF pw, cd, count
<1> DEFINE x == Over(cd, count)
<1>9. x \in Numbers /\ Times(x, count) = cd
  BY <1>5, OverType, OverTimes
<1> HIDE DEF x
<1>10. Times(Times(count, Joint(Last + 1)), Times(x, pw)) = Times(Times(Joint(Last + 1), Times(x, count)), pw)
  BY <1>5, <1>6, <1>9, NumbersMultiply
<1>11. wLight = Times(x, pw)
  BY DEF x
<1>12. Times(Density(Last + 1), wLight) = Before(Last + 1)
  BY <1>6, <1>7, <1>8, <1>9, <1>10, <1>11
<1>13. wLight \in Numbers
  BY <1>6, <1>9, <1>11, NumbersMultiply
<1>14. Times(Density(Last + 1), Zero) = After(Last + 1)
  BY <1>8, NumbersDistribute, SumSteps
<1> HIDE DEF wLight
<1>15. Plus(Plus(wLight, One), Zero) = Balanced(Last + 1)
  BY <1>1, <1>2, <1>5, <1>12, <1>13, <1>14, BalancedIs
<1>16. Plus(Plus(wLight, One), Zero) = Plus(wLight, One)
  BY <1>5, <1>13, NumbersAdd
<1>17. QED
  BY <1>2, <1>4, <1>15, <1>16

\* connectVertices, where the cosines at its ends agree.
LEMMA ConnectIsBalanced ==
    ASSUME PathOK, NEW i \in 1 .. Last - 1, NEW stored, stored.at = i,
           NEW g, LightWalk(i, g), g.dVCM = stored.dVCM, g.dVC = stored.dVC,
           NEW h, CameraWalk(i + 1, h),
           ~IsSpecular(Surface(i)), ~IsSpecular(Surface(i + 1))
    PROVE  /\ i + 1 \in Techniques
           /\ ExactlyConverted(i + 1) => WeightConnect(stored, h) = Balanced(i + 1)
<1> DEFINE pl == PartialWeight(g, Rev(i))
           pc == PartialWeight(h, Dir(i + 1))
           wLight == Times(CameraDensity(i), pl)
           wCamera == Times(LightDensity(i), pc)
<1>1. /\ Last \in Nat \ {0} /\ i \in 1 .. Last /\ i \in 0 .. Last /\ i + 1 \in 0 .. Last + 1
      /\ i + 1 \in 1 .. Last /\ i + 1 \in 0 .. Last /\ i \in 0 .. Last - 1
      /\ i # 0 /\ i + 1 # 0 /\ i + 1 - 1 = i /\ i + 1 # Last + 1 /\ i + 1 \notin {1, Last + 1}
  BY PathFacts
<1>2. i + 1 \in Techniques
  BY <1>1 DEF Techniques
<1>3. SUFFICES ASSUME Surface(i).cosC = Surface(i + 1).cosL
               PROVE  WeightConnect(stored, h) = Balanced(i + 1)
  BY <1>1, <1>2 DEF ExactlyConverted
<1>4. CameraDensity(i) = Over(Times(Rev(i + 1), Surface(i + 1).cosL), D2(i))
  BY <1>1, <1>3, CameraDensityIs DEF CosC
<1>5. LightDensity(i) = Over(Times(Dir(i), Surface(i).cosC), D2(i))
  BY <1>1, <1>3, LightDensityIs
<1>6. PartialWeight(stored, Rev(i)) = pl
  BY DEF PartialWeight
<1>7. WeightConnect(stored, h) = Plus(Plus(wLight, One), wCamera)
  BY <1>1, <1>4, <1>5, <1>6, VcmFAt DEF WeightConnect
<1>8. CameraDensity(i) \in Numbers /\ LightDensity(i) \in Numbers /\ Joint(i + 1) \in Numbers
  BY <1>1, CameraDensityIs, LightDensityIs, JointFacts, NumbersInvert
<1>9. pl \in Numbers /\ Times(Flow(i), pl) = Before(i + 1)
  BY <1>1, LightPartial
<1>10. pc \in Numbers /\ Times(Flow(i + 1), pc) = After(i + 1)
  BY <1>1, CameraPartial
<1>11. /\ Flow(i) = Times(Joint(i + 1), CameraDensity(i))
       /\ Flow(i + 1) = Times(Joint(i + 1), LightDensity(i))
  BY <1>1, JointFacts DEF Flow
<1>12. Density(i + 1) = Joint(i + 1)
  BY <1>1, DensityIs
<1> HIDE DEF pl, pc
<1>13. Times(Density(i + 1), wLight) = Before(i + 1) /\ Times(Density(i + 1), wCamera) = After(i + 1)
  <2>1. Times(Times(Joint(i + 1), CameraDensity(i)), pl) = Times(Joint(i + 1), wLight)
    BY <1>8, <1>9, Associate
  <2>2. Times(Times(Joint(i + 1), LightDensity(i)), pc) = Times(Joint(i + 1), wCamera)
    BY <1>8, <1>10, Associate
  <2>3. QED
    BY <1>9, <1>10, <1>11, <1>12, <2>1, <2>2
<1>14. wLight \in Numbers /\ wCamera \in Numbers
  BY <1>8, <1>9, <1>10, NumbersMultiply
<1> HIDE DEF wLight, wCamera
<1>15. QED
  BY <1>1, <1>2, <1>7, <1>13, <1>14, BalancedIs

\* LightIlluminate, for lights of both kinds.
LEMMA SampledLight ==
    ASSUME PathOK
    PROVE  LET s == LightIlluminate(Light, D2(0)) IN
           /\ s.directPdfW \in Positive /\ s.cos \in Positive
           /\ \A cosL \in Positive :
                  Over(Times(s.emissionPdfW, cosL), Times(s.directPdfW, s.cos))
                      = Over(Times(EmissionDirPdfW(Light), cosL), D2(0))
           /\ ~Light.isDelta =>
                  s.directPdfW = Over(Times(Light.inverseArea, D2(0)), Light.cos)
<1> DEFINE s == LightIlluminate(Light, D2(0))
           e == EmissionDirPdfW(Light)
           d2 == D2(0)
           a == Light.inverseArea
           u == Light.cos
<1>1. 0 \in 0 .. Last
  BY PathFacts
<1>2. /\ Light.isDelta \in BOOLEAN /\ u \in Positive /\ a \in Positive /\ d2 \in Positive
      /\ e \in Positive /\ One \in Positive
      /\ u \in Numbers /\ a \in Numbers /\ d2 \in Numbers /\ e \in Numbers
  BY <1>1, PathFacts, EmissionFacts, SceneFacts, NumbersInvert
<1>3. CASE Light.isDelta
  <2>1. s.emissionPdfW = e /\ s.directPdfW = d2 /\ s.cos = One
    BY <1>3 DEF LightIlluminate, EmissionDirPdfW
  <2>2. Times(d2, One) = d2
    BY <1>2, NumbersMultiply
  <2> HIDE DEF s, e, d2
  <2>3. QED
    BY <1>2, <1>3, <2>1, <2>2 DEF s, e, d2
<1>4. CASE ~Light.isDelta
  <2>1. /\ s.emissionPdfW = Times(Times(a, u), InvPi)
        /\ s.directPdfW = Over(Times(a, d2), u) /\ s.cos = u
    BY <1>4 DEF LightIlluminate
  <2>2. e = Times(u, InvPi)
    BY <1>4 DEF EmissionDirPdfW
  <2>3. InvPi \in Positive /\ InvPi \in Numbers
    BY SceneFacts, NumbersInvert
  <2> HIDE DEF s, e, d2, a, u
  <2>4. Times(a, d2) \in Positive /\ s.directPdfW \in Positive
    <3>1. Times(a, d2) \in Positive
      BY <1>2, PositiveTimes
    <3>2. Over(Times(a, d2), u) \in Positive
      BY <1>2, <3>1, OverType
    <3>3. QED
      BY <2>1, <3>1, <3>2
  <2>5. Times(s.directPdfW, s.cos) = Times(a, d2)
    BY <1>2, <2>1, <2>4, OverTimes, NumbersInvert
  <2>6. ASSUME NEW cosL \in Positive
        PROVE  Over(Times(s.emissionPdfW, cosL), Times(s.directPdfW, s.cos)) = Over(Times(e, cosL), d2)
    <3>1. cosL \in Numbers
      BY NumbersInvert
    <3>2. Times(a, u) \in Numbers /\ Times(e, cosL) \in Numbers
      BY <1>2, <3>1, NumbersMultiply
    <3>3. Times(Times(a, u), InvPi) = Times(a, e)
      BY <1>2, <2>2, <2>3, Associate
    <3>4. Times(Times(Times(a, e), cosL), d2) = Times(Times(e, cosL), Times(a, d2))
      BY <1>2, <3>1, NumbersMultiply
    <3>5. Times(Times(a, e), cosL) \in Numbers
      BY <1>2, <3>1, NumbersMultiply
    <3>6. Over(Times(Times(a, e), cosL), Times(a, d2)) = Over(Times(e, cosL), d2)
      BY <1>2, <2>4, <3>2, <3>4, <3>5, OverSame
    <3>7. QED
      BY <2>1, <2>5, <3>3, <3>6
  <2>7. QED
    BY <1>2, <1>4, <2>1, <2>4, <2>6 DEF s, e, d2, a, u
<1>5. QED
  BY <1>2, <1>3, <1>4

\* connectLightSourceS1.
LEMMA S1IsBalanced ==
    ASSUME PathOK, NEW h, CameraWalk(1, h), ~IsSpecular(Surface(1))
    PROVE  WeightS1(h) = Balanced(1) /\ 1 \in Techniques
<1> DEFINE v == Surface(1)
           s == LightIlluminate(Light, D2(0))
           wLight == IF Light.isDelta THEN Zero
                     ELSE Over(Rev(1), Times(Light.pick, s.directPdfW))
           pc == PartialWeight(h, Dir(1))
           wCamera == Times(LightDensity(0), pc)
<1>1. /\ Last \in Nat \ {0} /\ 1 \in 1 .. Last /\ 0 \in 0 .. Last /\ 0 \in 0 .. Last - 1
      /\ 1 \in 1 .. Last + 1 /\ 1 \in 0 .. Last + 1 /\ 0 \in 0 .. Last + 1
      /\ 1 \in 0 .. Last /\ 0 + 1 = 1 /\ 1 - 1 = 0
  BY PathFacts
<1>2. 1 \in Techniques
  BY <1>1 DEF Techniques
<1>3. /\ v.cosL \in Positive /\ Light.pick \in Positive /\ Rev(1) \in Positive /\ D2(0) \in Positive
      /\ Light.cos \in Positive /\ Light.inverseArea \in Positive /\ Light.isDelta \in BOOLEAN
      /\ LightStart \in Positive
  BY <1>1, PathFacts, SurfaceFacts, RevType, EmissionFacts
<1>4. LightDensity(0) = Over(Times(EmissionDirPdfW(Light), v.cosL), D2(0))
  BY <1>1, LightDensityIs DEF Dir
<1>5. WeightS1(h) = Plus(Plus(wLight, One), wCamera)
  <2>1. Over(Times(s.emissionPdfW, v.cosL), Times(s.directPdfW, s.cos)) = LightDensity(0)
    BY <1>3, <1>4, SampledLight
  <2>2. VcmF(v, v.cosC, v.cosL).dir = Rev(1) /\ VcmF(v, v.cosC, v.cosL).rev = Dir(1)
    BY <1>1, VcmFAt
  <2>3. QED
    BY <2>1, <2>2 DEF WeightS1
<1>6. /\ LightDensity(0) \in Numbers /\ Joint(1) \in Numbers /\ Joint(0) \in Numbers
      /\ CameraDensity(0) \in Numbers /\ Zero \in Numbers
  BY <1>1, LightDensityIs, CameraDensityIs, JointFacts, NumbersInvert, NumbersAdd
<1>7. pc \in Numbers /\ Times(Flow(1), pc) = After(1)
  BY <1>1, CameraPartial
<1>8. Flow(1) = Times(Joint(1), LightDensity(0)) /\ Density(1) = Joint(1)
  BY <1>1, JointFacts, LightStartDensity
<1> HIDE DEF pc
<1>9. Times(Density(1), wCamera) = After(1) /\ wCamera \in Numbers
  <2>1. Times(Times(Joint(1), LightDensity(0)), pc) = Times(Joint(1), wCamera)
    BY <1>6, <1>7, Associate
  <2>2. QED
    BY <1>6, <1>7, <1>8, <2>1, NumbersMultiply
<1>10. Times(Density(1), wLight) = Before(1) /\ wLight \in Numbers
  <2>1. CASE Light.isDelta
    <3>1. Times(Joint(1), Zero) = Zero
      BY <1>6, NumbersDistribute
    <3>2. QED
      BY <1>6, <1>8, <2>1, <3>1, LightStartDensity
  <2>2. CASE ~Light.isDelta
    <3> DEFINE w == Over(Rev(1), Times(Light.pick, Over(Times(Light.inverseArea, D2(0)), Light.cos)))
    <3>1. wLight = w
      BY <2>2, SampledLight
    <3>2. LightStart = Times(Light.inverseArea, Light.pick)
      BY <2>2 DEF LightStart, LightPointPdf
    <3>3. CameraDensity(0) = Over(Times(Rev(1), Light.cos), D2(0))
      BY <1>1, CameraDensityIs DEF CosC
    <3>4. SamplingLaw(Rev(1), Light.pick, Light.inverseArea, D2(0), Light.cos)
      BY <1>3, TurnSampled
    <3>5. Times(w, LightStart) = CameraDensity(0)
      BY <3>2, <3>3, <3>4 DEF SamplingLaw
    <3>6. Times(Light.inverseArea, D2(0)) \in Positive
      BY <1>3, PositiveTimes
    <3>7. w \in Numbers
      BY <1>3, <3>6, OverType, PositiveTimes, NumbersInvert
    <3> HIDE DEF w
    <3>8. Times(Times(Joint(1), w), LightStart) = Times(Joint(1), Times(w, LightStart))
      BY <1>3, <1>6, <3>7, Associate, NumbersInvert
    <3>9. Times(Times(Joint(1), w), LightStart) = Times(Joint(0), LightStart)
      BY <3>5, <3>8, LightStartDensity
    <3>10. Times(Joint(1), w) \in Numbers
      BY <1>6, <3>7, NumbersMultiply
    <3>11. Times(Joint(1), w) = Joint(0)
      BY <1>3, <1>6, <3>9, <3>10, Cancel
    <3>12. QED
      BY <1>8, <2>2, <3>1, <3>7, <3>11, LightStartDensity
  <2>3. QED
    BY <1>3, <2>1, <2>2
<1> HIDE DEF wLight, wCamera
<1>11. QED
  BY <1>1, <1>2, <1>5, <1>9, <1>10, BalancedIs

\* connectLightSourceS0, where the emitter is a unit away and faces the ray.
LEMMA S0IsBalanced ==
    ASSUME PathOK, NEW p \in MisTerms, p.depth > 0, ~Light.isDelta,
           CameraWalk(0, UpdateOnHit(p, Light.cos, D2(0))), D2(0) = One, Light.cos = One
    PROVE  WeightS0([p EXCEPT !.depth = @ + 1], Light.inverseArea,
                    Times(LambertianPdf(Light.cos), Light.inverseArea)) = Balanced(0)
<1> DEFINE h == UpdateOnHit(p, Light.cos, D2(0))
           a == Light.inverseArea
           k == Light.pick
           e == Dir(0)
           m == p.dVCM
           w == p.dVC
           wCamera == Plus(Times(Times(a, k), m), Times(Times(Times(e, a), k), w))
<1>1. /\ Last \in Nat \ {0} /\ 0 \in 0 .. Last /\ 0 \in 0 .. Last + 1
  BY PathFacts
<1>2. /\ a \in Positive /\ k \in Positive /\ e \in Positive /\ One \in Positive
      /\ a \in Numbers /\ k \in Numbers /\ e \in Numbers /\ One \in Numbers
      /\ m \in Numbers /\ w \in Numbers /\ Zero \in Numbers
  BY <1>1, PathFacts, DirType, SceneFacts, NumbersInvert, NumbersAdd DEF MisTerms
<1>3. e = Times(Light.cos, InvPi)
  BY DEF Dir, EmissionDirPdfW
<1>4. LightStart = Times(a, k)
  BY DEF LightStart, LightPointPdf
<1>5. Over(m, One) = m /\ Over(w, One) = w /\ Times(m, One) = m
  <2>1. Times(m, One) = m /\ Times(w, One) = w
    BY <1>2, NumbersMultiply
  <2>2. Over(Times(m, One), One) = m /\ Over(Times(w, One), One) = w
    BY <1>2, OverTimes
  <2>3. QED
    BY <2>1, <2>2
<1>6. h.dVCM = m /\ h.dVC = w
  BY <1>5 DEF UpdateOnHit
<1>7. WeightS0([p EXCEPT !.depth = @ + 1], Light.inverseArea,
               Times(LambertianPdf(Light.cos), Light.inverseArea)) = Plus(One, wCamera)
  <2> DEFINE q == [p EXCEPT !.depth = @ + 1]
  <2>1. q.depth # 1 /\ q.dVCM = m /\ q.dVC = w
    BY DEF MisTerms
  <2> HIDE DEF q
  <2>2. QED
    BY <1>3, <2>1 DEF WeightS0, LambertianPdf, q
<1>8. PartialWeight(h, Dir(0)) = Plus(m, Times(w, e))
  BY <1>6 DEF PartialWeight
<1>9. Plus(m, Times(w, e)) \in Numbers /\ Times(Flow(0), Plus(m, Times(w, e))) = After(0)
  BY <1>1, <1>8, CameraPartial
<1>10. Flow(0) = Times(Joint(0), Times(a, k)) /\ Joint(0) \in Numbers /\ Density(0) = Joint(0)
  BY <1>1, <1>4, JointFacts, LightStartDensity, NumbersInvert
<1> HIDE DEF a, k, e, m, w, h
<1>11. wCamera = Times(Times(a, k), Plus(m, Times(w, e)))
  <2>1. Times(a, k) \in Numbers /\ Times(w, e) \in Numbers
    BY <1>2, NumbersMultiply
  <2>2. Times(Times(Times(e, a), k), w) = Times(Times(a, k), Times(w, e))
    BY <1>2, NumbersMultiply
  <2>3. QED
    BY <1>2, <2>1, <2>2, NumbersDistribute
<1>12. wCamera \in Numbers /\ Times(Density(0), wCamera) = After(0)
  <2>1. Times(a, k) \in Numbers
    BY <1>2, NumbersMultiply
  <2>2. Times(Times(Joint(0), Times(a, k)), Plus(m, Times(w, e)))
            = Times(Joint(0), Times(Times(a, k), Plus(m, Times(w, e))))
    BY <1>9, <1>10, <2>1, Associate
  <2>3. QED
    BY <1>9, <1>10, <1>11, <2>1, <2>2, NumbersMultiply
<1> HIDE DEF wCamera
<1>13. Times(Density(0), Zero) = Before(0)
  BY <1>10, NumbersDistribute, SumSteps
<1>14. 0 \in Techniques
  BY <1>1 DEF Techniques
<1>15. Plus(Plus(Zero, One), wCamera) = Balanced(0)
  BY <1>1, <1>2, <1>12, <1>13, <1>14, BalancedIs
<1>16. Plus(Zero, One) = One
  BY <1>2, NumbersAdd
<1>17. QED
  BY <1>7, <1>15, <1>16

-----------------------------------------------------------------------------
(***************************************************************************)
(* The inductive invariant.  Walks is the control: which vertices are      *)
(* stored and which techniques have contributed where the walk stands.     *)
(* Carries is the data.                                                    *)
(***************************************************************************)

\* A sequence of anything.
IsSeq(s) == \E S : s \in Seq(S)

\* Light vertices are of different points of the path, none of them specular.
StoredOK(vs) ==
    /\ IsSeq(vs)
    /\ \A j \in 1 .. Len(vs) : vs[j].at \in 1 .. Last /\ ~IsSpecular(Surface(vs[j].at))
    /\ \A j, k \in 1 .. Len(vs) : vs[j].at = vs[k].at => j = k

StoredAt(vs, i) == \E j \in 1 .. Len(vs) : vs[j].at = i

\* No technique has contributed twice, and none that cannot build the path.
TakenOK(cs) ==
    /\ IsSeq(cs)
    /\ \A k \in 1 .. Len(cs) : cs[k].technique \in Techniques
    /\ \A j, k \in 1 .. Len(cs) : cs[j].technique = cs[k].technique => j = k

TakenBy(cs, s) == \E k \in 1 .. Len(cs) : cs[k].technique = s

TakenAfter(cs, s) == \A t \in Techniques : t > s => TakenBy(cs, t)

OnlyAfter(cs, s) == \A k \in 1 .. Len(cs) : cs[k].technique > s

\* Every point up to n that can be connected to is stored.
StoredUpTo(vs, n) == \A i \in 1 .. n : ~IsSpecular(Surface(i)) => StoredAt(vs, i)

LightProgress ==
    /\ at \in 1 .. Last + 1
    /\ prd.depth = at - 1
    /\ \A j \in 1 .. Len(vertices) : vertices[j].at < at
    /\ StoredUpTo(vertices, at - 1)
    /\ OnlyAfter(taken, Last)
    /\ at <= Last => \A s : ~TakenBy(taken, s)
    /\ at = Last + 1 => TakenAfter(taken, Last)

CameraProgress ==
    /\ at \in 0 .. Last
    /\ prd.depth = Last - at
    /\ OnlyAfter(taken, at)

\* Where no walk was ended by chance or for its length, nothing was left out.
Complete ==
    /\ pass # "light" => StoredUpTo(vertices, Last)
    /\ pass = "hand over" => TakenAfter(taken, Last)
    /\ pass = "camera" => TakenAfter(taken, at)
    /\ pass = "done" => TakenAfter(taken, -1)

Walks ==
    /\ pass \in {"light", "hand over", "camera", "done"}
    /\ StoredOK(vertices)
    /\ TakenOK(taken)
    /\ pass = "light" => LightProgress
    /\ pass = "hand over" => OnlyAfter(taken, Last)
    /\ pass = "camera" => CameraProgress
    /\ (ended = {} /\ Last + 1 <= maxPathLen) => Complete

\* The contributions in cs are weighted as they should be.
BalancedOK(cs) ==
    \A k \in 1 .. Len(cs) :
        ExactlyConverted(cs[k].technique) => cs[k].weight = Balanced(cs[k].technique)

\* What is stored of a vertex is what the walk carried when it hit it.
StoredTerms(vs) ==
    \A j \in 1 .. Len(vs) :
        LightWalk(vs[j].at, [depth |-> 0, dVCM |-> vs[j].dVCM, dVC |-> vs[j].dVC])

Carries ==
    /\ StoredTerms(vertices)
    /\ BalancedOK(taken)
    /\ pass = "light" /\ at <= Last =>
           LightWalk(at, UpdateOnHit(prd, Surface(at).cosL, D2(at - 1)))
    /\ pass = "camera" =>
           prd \in MisTerms /\ CameraWalk(at, UpdateOnHit(prd, CosC(at), D2(at)))

\* A rejected sample is traced again with updated quantities: nothing is said then.
IInv ==
    /\ PathOK
    /\ ~retried => Walks
    /\ (LobesEquallyLikely /\ ~retried) => Carries

\* Append, for a sequence of anything.
LEMMA AppendFacts ==
    ASSUME NEW s, IsSeq(s), NEW e
    PROVE  /\ IsSeq(Append(s, e))
           /\ Len(s) \in Nat
           /\ Len(Append(s, e)) = Len(s) + 1
           /\ \A k \in 1 .. Len(s) : Append(s, e)[k] = s[k]
           /\ Append(s, e)[Len(s) + 1] = e
<1>1. PICK S : s \in Seq(S)
  BY DEF IsSeq
<1>2. s \in Seq(S \cup {e})
  BY <1>1
<1>3. Append(s, e) \in Seq(S \cup {e})
  BY <1>2
<1>4. QED
  BY <1>2, <1>3 DEF IsSeq

LEMMA EmptyIsSeq == IsSeq(<<>>) /\ Len(<<>>) = 0
<1>1. <<>> \in Seq({})
  OBVIOUS
<1>2. QED
  BY <1>1 DEF IsSeq

\* One more technique has contributed.
LEMMA Contributed ==
    ASSUME NEW cs, TakenOK(cs), NEW s \in Techniques, ~TakenBy(cs, s), NEW w
    PROVE  /\ TakenOK(Contribute(cs, s, w))
           /\ \A t : TakenBy(Contribute(cs, s, w), t) <=> (TakenBy(cs, t) \/ t = s)
<1> DEFINE e == [technique |-> s, weight |-> w]
           new == Append(cs, e)
           n == Len(cs)
<1>1. Contribute(cs, s, w) = new
  BY DEF Contribute
<1>2. /\ IsSeq(new) /\ n \in Nat /\ Len(new) = n + 1
      /\ \A k \in 1 .. n : new[k] = cs[k]
      /\ new[n + 1] = e
  BY AppendFacts DEF TakenOK
<1>3. e.technique = s
  OBVIOUS
<1> HIDE DEF new, e
<1>4. \A k \in 1 .. n + 1 : k \in 1 .. n \/ k = n + 1
  BY <1>2
<1>5. \A k \in 1 .. n : k \in 1 .. n + 1
  BY <1>2
<1>6. n + 1 \in 1 .. n + 1
  BY <1>2
<1>7. \A k \in 1 .. n : cs[k].technique \in Techniques /\ cs[k].technique # s
  BY DEF TakenOK, TakenBy
<1>8. \A k \in 1 .. n + 1 : new[k].technique \in Techniques
  BY <1>2, <1>3, <1>4, <1>7
<1>9. \A j, k \in 1 .. n + 1 : new[j].technique = new[k].technique => j = k
  <2>1. \A j, k \in 1 .. n : cs[j].technique = cs[k].technique => j = k
    BY DEF TakenOK
  <2>2. QED
    BY <1>2, <1>3, <1>4, <1>7, <2>1
<1>10. TakenOK(new)
  BY <1>2, <1>8, <1>9 DEF TakenOK
<1>11. ASSUME NEW t PROVE TakenBy(new, t) <=> (TakenBy(cs, t) \/ t = s)
  <2>1. ASSUME TakenBy(new, t) PROVE TakenBy(cs, t) \/ t = s
    BY <1>2, <1>3, <1>4, <2>1 DEF TakenBy
  <2>2. ASSUME TakenBy(cs, t) PROVE TakenBy(new, t)
    BY <1>2, <1>5, <2>2 DEF TakenBy
  <2>3. ASSUME t = s PROVE TakenBy(new, t)
    BY <1>2, <1>3, <1>6, <2>3 DEF TakenBy
  <2>4. QED
    BY <2>1, <2>2, <2>3
<1>12. QED
  BY <1>1, <1>10, <1>11

\* One more weight is right.
LEMMA ContributedWeight ==
    ASSUME NEW cs, IsSeq(cs), BalancedOK(cs), NEW s, NEW w,
           ExactlyConverted(s) => w = Balanced(s)
    PROVE  BalancedOK(Contribute(cs, s, w))
<1> DEFINE e == [technique |-> s, weight |-> w]
           new == Append(cs, e)
           n == Len(cs)
<1>1. Contribute(cs, s, w) = new
  BY DEF Contribute
<1>2. /\ n \in Nat /\ Len(new) = n + 1
      /\ \A k \in 1 .. n : new[k] = cs[k]
      /\ new[n + 1] = e
  BY AppendFacts
<1>3. e.technique = s /\ e.weight = w
  OBVIOUS
<1> HIDE DEF new, e
<1>4. ASSUME NEW k \in 1 .. n + 1, ExactlyConverted(new[k].technique)
      PROVE  new[k].weight = Balanced(new[k].technique)
  <2>1. CASE k = n + 1
    BY <1>2, <1>3, <1>4, <2>1
  <2>2. CASE k # n + 1
    <3>1. k \in 1 .. n
      BY <1>2, <2>2
    <3>2. QED
      BY <1>2, <1>4, <3>1 DEF BalancedOK
  <2>3. QED
    BY <2>1, <2>2
<1>5. QED
  BY <1>1, <1>2, <1>4 DEF BalancedOK

\* One more vertex is stored.
LEMMA Stored ==
    ASSUME NEW vs, StoredOK(vs), NEW i \in 1 .. Last, ~IsSpecular(Surface(i)), ~StoredAt(vs, i),
           NEW e, e.at = i
    PROVE  /\ StoredOK(Append(vs, e))
           /\ \A t : StoredAt(Append(vs, e), t) <=> (StoredAt(vs, t) \/ t = i)
<1> DEFINE new == Append(vs, e)
           n == Len(vs)
<1>1. /\ IsSeq(new) /\ n \in Nat /\ Len(new) = n + 1
      /\ \A k \in 1 .. n : new[k] = vs[k]
      /\ new[n + 1] = e
  BY AppendFacts DEF StoredOK
<1> HIDE DEF new
<1>2. \A k \in 1 .. n + 1 : k \in 1 .. n \/ k = n + 1
  BY <1>1
<1>3. \A k \in 1 .. n : k \in 1 .. n + 1
  BY <1>1
<1>4. n + 1 \in 1 .. n + 1
  BY <1>1
<1>5. \A k \in 1 .. n : vs[k].at \in 1 .. Last /\ ~IsSpecular(Surface(vs[k].at)) /\ vs[k].at # i
  BY DEF StoredOK, StoredAt
<1>6. \A k \in 1 .. n + 1 : new[k].at \in 1 .. Last /\ ~IsSpecular(Surface(new[k].at))
  BY <1>1, <1>2, <1>5
<1>7. \A j, k \in 1 .. n + 1 : new[j].at = new[k].at => j = k
  <2>1. \A j, k \in 1 .. n : vs[j].at = vs[k].at => j = k
    BY DEF StoredOK
  <2>2. QED
    BY <1>1, <1>2, <1>5, <2>1
<1>8. StoredOK(new)
  BY <1>1, <1>6, <1>7 DEF StoredOK
<1>9. ASSUME NEW t PROVE StoredAt(new, t) <=> (StoredAt(vs, t) \/ t = i)
  <2>1. ASSUME StoredAt(new, t) PROVE StoredAt(vs, t) \/ t = i
    BY <1>1, <1>2, <2>1 DEF StoredAt
  <2>2. ASSUME StoredAt(vs, t) PROVE StoredAt(new, t)
    BY <1>1, <1>3, <2>2 DEF StoredAt
  <2>3. ASSUME t = i PROVE StoredAt(new, t)
    BY <1>1, <1>4, <2>3 DEF StoredAt
  <2>4. QED
    BY <2>1, <2>2, <2>3
<1>10. QED
  BY <1>8, <1>9 DEF new

LEMMA StoredTermsAppend ==
    ASSUME NEW vs, IsSeq(vs), StoredTerms(vs), NEW e,
           LightWalk(e.at, [depth |-> 0, dVCM |-> e.dVCM, dVC |-> e.dVC])
    PROVE  StoredTerms(Append(vs, e))
<1> DEFINE new == Append(vs, e)
           n == Len(vs)
<1>1. /\ n \in Nat /\ Len(new) = n + 1
      /\ \A k \in 1 .. n : new[k] = vs[k]
      /\ new[n + 1] = e
  BY AppendFacts
<1> HIDE DEF new
<1>2. ASSUME NEW k \in 1 .. n + 1
      PROVE  LightWalk(new[k].at, [depth |-> 0, dVCM |-> new[k].dVCM, dVC |-> new[k].dVC])
  <2>1. CASE k = n + 1
    BY <1>1, <2>1
  <2>2. CASE k # n + 1
    <3>1. k \in 1 .. n
      BY <1>1, <2>2
    <3>2. QED
      BY <1>1, <3>1 DEF StoredTerms
  <2>3. QED
    BY <2>1, <2>2
<1>3. QED
  BY <1>1, <1>2 DEF StoredTerms, new

\* g carries what was contributed along the loop of connectVertices.
Connecting(g, h) ==
    \A k \in 1 .. Len(vertices) :
        g[k] = IF vertices[k].at + 1 = at
               THEN Contribute(g[k - 1], at, WeightConnect(vertices[k], h))
               ELSE g[k - 1]

\* Such a loop is ConnectStored.
LEMMA ConnectIs ==
    ASSUME Len(vertices) \in Nat, NEW h, NEW g, Connecting(g, h)
    PROVE  ConnectStored(g[0], h) = g[Len(vertices)]
<1> DEFINE n == Len(vertices)
           Next1(x, k) == IF vertices[k].at + 1 = at
                          THEN Contribute(x, at, WeightConnect(vertices[k], h)) ELSE x
           Body(f) == [k \in 0 .. n |-> IF k = 0 THEN g[0]
                                        ELSE IF vertices[k].at + 1 = at
                                        THEN Contribute(f[k - 1], at, WeightConnect(vertices[k], h))
                                        ELSE f[k - 1]]
           upTo == CHOOSE f : f = Body(f)
           Agree == {m \in Nat : m <= n => upTo[m] = g[m]}
<1>1. ConnectStored(g[0], h) = upTo[n]
  BY DEF ConnectStored
<1>2. \E f : f = Body(f)
  <2> DEFINE f == [k \in 0 .. n |-> g[k]]
  <2>1. \A k \in 1 .. n : f[k] = Next1(f[k - 1], k)
    BY DEF Connecting
  <2>2. \A k \in 0 .. n : f[k] = IF k = 0 THEN g[0] ELSE Next1(f[k - 1], k)
    <3>1. \A k \in 0 .. n : k = 0 \/ k \in 1 .. n
      OBVIOUS
    <3>2. f[0] = g[0]
      OBVIOUS
    <3> HIDE DEF f, Next1
    <3>3. QED
      BY <2>1, <3>1, <3>2
  <2>3. f = [k \in 0 .. n |-> f[k]]
    OBVIOUS
  <2>4. f = Body(f)
    <3> HIDE DEF f
    <3>1. QED
      BY <2>2, <2>3
  <2>5. QED
    BY <2>4
<1>3. upTo = Body(upTo)
  BY <1>2
<1> HIDE DEF upTo
<1>4. upTo[0] = g[0] /\ \A k \in 1 .. n : upTo[k] = Next1(upTo[k - 1], k)
  BY <1>3
<1>5. \A k \in 1 .. n : g[k] = Next1(g[k - 1], k)
  BY DEF Connecting
<1> HIDE DEF Next1
<1>6. 0 \in Agree
  BY <1>4
<1>7. ASSUME NEW m \in Nat, m \in Agree PROVE m + 1 \in Agree
  <2>1. m + 1 \in Nat
    OBVIOUS
  <2>2. SUFFICES ASSUME m + 1 <= n PROVE upTo[m + 1] = g[m + 1]
    BY <2>1, Zenon
  <2>3. upTo[m] = g[m] /\ m + 1 \in 1 .. n /\ m + 1 - 1 = m
    BY <1>7, <2>2
  <2>4. upTo[m + 1] = Next1(upTo[m], m + 1) /\ g[m + 1] = Next1(g[m], m + 1)
    BY <1>4, <1>5, <2>3
  <2>5. QED
    BY <2>3, <2>4
<1>8. Nat \subseteq Agree
  <2> HIDE DEF Agree
  <2>1. QED
    BY <1>6, <1>7, SetInduction
<1>9. QED
  BY <1>1, <1>8

\* The loop over the stored vertices connects at most one of this path.
LEMMA ConnectOnce ==
    ASSUME PathOK, StoredOK(vertices), at \in 1 .. Last, NEW old, NEW h
    PROVE  \/ ~StoredAt(vertices, at - 1) /\ ConnectStored(old, h) = old
           \/ \E j \in 1 .. Len(vertices) :
                  /\ vertices[j].at = at - 1
                  /\ ConnectStored(old, h) = Contribute(old, at, WeightConnect(vertices[j], h))
<1> DEFINE n == Len(vertices)
<1>1. n \in Nat /\ Last \in Nat
  BY AppendFacts, PathFacts DEF StoredOK
<1>2. \A k \in 1 .. n : vertices[k].at \in 1 .. Last
  BY DEF StoredOK
<1>3. \A k \in 1 .. n : vertices[k].at + 1 = at <=> vertices[k].at = at - 1
  BY <1>1, <1>2
<1>4. CASE \A k \in 1 .. n : vertices[k].at + 1 # at
  <2> DEFINE g == [k \in 0 .. n |-> old]
  <2>1. g[0] = old /\ g[n] = old /\ \A k \in 1 .. n : g[k] = g[k - 1]
    BY <1>1
  <2>2. Connecting(g, h)
    BY <1>4, <2>1 DEF Connecting
  <2> HIDE DEF g
  <2>3. ConnectStored(old, h) = g[n]
    BY <1>1, <2>1, <2>2, ConnectIs
  <2>4. QED
    BY <1>3, <1>4, <2>1, <2>3 DEF StoredAt
<1>5. CASE \E k \in 1 .. n : vertices[k].at + 1 = at
  <2>1. PICK j \in 1 .. n : vertices[j].at + 1 = at
    BY <1>5
  <2>2. \A k \in 1 .. n : vertices[k].at + 1 = at <=> k = j
    BY <1>3, <2>1 DEF StoredOK
  <2> DEFINE new == Contribute(old, at, WeightConnect(vertices[j], h))
             g == [k \in 0 .. n |-> IF k < j THEN old ELSE new]
  <2>3. g[0] = old /\ g[n] = new
    BY <1>1
  <2>4. ASSUME NEW k \in 1 .. n
        PROVE  g[k] = IF vertices[k].at + 1 = at
                      THEN Contribute(g[k - 1], at, WeightConnect(vertices[k], h))
                      ELSE g[k - 1]
    <3>1. CASE k = j
      <4>1. g[k] = new /\ g[k - 1] = old
        BY <3>1
      <4> HIDE DEF g
      <4>2. QED
        BY <2>1, <3>1, <4>1
    <3>2. CASE k < j
      <4>1. g[k] = old /\ g[k - 1] = old
        BY <3>2
      <4> HIDE DEF g
      <4>2. QED
        BY <2>2, <3>2, <4>1
    <3>3. CASE k > j
      <4>1. g[k] = new /\ g[k - 1] = new
        BY <3>3
      <4> HIDE DEF g
      <4>2. QED
        BY <2>2, <3>3, <4>1
    <3>4. QED
      BY <3>1, <3>2, <3>3
  <2> HIDE DEF g, new
  <2>5. Connecting(g, h)
    BY <2>4 DEF Connecting
  <2>6. ConnectStored(old, h) = new
    BY <1>1, <2>3, <2>5, ConnectIs
  <2>7. QED
    BY <1>3, <2>1, <2>6 DEF new
<1>6. QED
  BY <1>4, <1>5

-----------------------------------------------------------------------------
(***************************************************************************)
(* Nothing but the path determines the densities, and no step changes it.  *)
(***************************************************************************)

\* The path stays, and all that is said of it.
LEMMA FixedPath ==
    ASSUME path' = path
    PROVE  /\ Last' = Last /\ Light' = Light
           /\ \A i : Surface(i)' = Surface(i) /\ D2(i)' = D2(i)
           /\ PathOK' = PathOK
           /\ LobesEquallyLikely' = LobesEquallyLikely
<1>1. Last' = Last /\ Light' = Light /\ \A i : Surface(i)' = Surface(i) /\ D2(i)' = D2(i)
  BY DEF Last, Light, Surface, D2
<1>2. PathOK' = PathOK
  BY DEF PathOK
<1>3. LobesEquallyLikely' = LobesEquallyLikely
  BY <1>1 DEF LobesEquallyLikely
<1>4. QED
  BY <1>1, <1>2, <1>3

LEMMA FixedDensities ==
    ASSUME path' = path
    PROVE  /\ \A i : Dir(i)' = Dir(i) /\ Rev(i)' = Rev(i) /\ CosC(i)' = CosC(i)
           /\ \A i : LightDensity(i)' = LightDensity(i) /\ CameraDensity(i)' = CameraDensity(i)
<1>1. \A i : Dir(i)' = Dir(i) /\ Rev(i)' = Rev(i) /\ CosC(i)' = CosC(i)
  BY FixedPath DEF Dir, Rev, CosC
<1>2. \A i : LightDensity(i)' = LightDensity(i)
  BY FixedPath DEF LightDensity
<1>3. \A i : CameraDensity(i)' = CameraDensity(i)
  BY FixedPath DEF CameraDensity
<1>4. QED
  BY <1>1, <1>2, <1>3

LEMMA FixedProducts ==
    ASSUME path' = path
    PROVE  /\ \A s : LightPdfA(s)' = LightPdfA(s) /\ CameraPdfA(s)' = CameraPdfA(s)
           /\ \A s : Density(s)' = Density(s) /\ Joint(s)' = Joint(s) /\ Flow(s)' = Flow(s)
<1>1. ASSUME NEW s PROVE LightPdfA(s)' = LightPdfA(s)
  BY FixedPath, FixedDensities DEF LightPdfA
<1>2. ASSUME NEW s PROVE CameraPdfA(s)' = CameraPdfA(s)
  BY FixedPath, FixedDensities DEF CameraPdfA
<1>3. ASSUME NEW s PROVE Density(s)' = Density(s) /\ Joint(s)' = Joint(s)
  BY FixedPath, <1>1, <1>2 DEF Density, Joint
<1>4. ASSUME NEW s PROVE Flow(s)' = Flow(s)
  BY FixedDensities, <1>3 DEF Flow
<1>5. QED
  BY <1>1, <1>2, <1>3, <1>4

LEMMA FixedSums ==
    ASSUME path' = path
    PROVE  /\ Techniques' = Techniques
           /\ \A s : DensityIfPossible(s)' = DensityIfPossible(s)
           /\ \A s : Before(s)' = Before(s) /\ After(s)' = After(s) /\ Balanced(s)' = Balanced(s)
           /\ \A s : ExactlyConverted(s)' = ExactlyConverted(s)
<1>1. Techniques' = Techniques
  BY FixedPath DEF Techniques
<1>2. ASSUME NEW s PROVE DensityIfPossible(s)' = DensityIfPossible(s)
  BY FixedProducts, <1>1 DEF DensityIfPossible
<1>3. ASSUME NEW s PROVE Before(s)' = Before(s)
  BY FixedPath, <1>2 DEF Before
<1>4. ASSUME NEW s PROVE After(s)' = After(s)
  BY FixedPath, <1>2 DEF After
<1>5. ASSUME NEW s PROVE Balanced(s)' = Balanced(s)
  BY FixedPath, FixedProducts, <1>2 DEF Balanced
<1>6. ASSUME NEW s PROVE ExactlyConverted(s)' = ExactlyConverted(s)
  <2>1. /\ D2(0)' = D2(0) /\ Light' = Light /\ Last' = Last
        /\ Surface(s - 1)' = Surface(s - 1) /\ Surface(s)' = Surface(s)
    BY FixedPath
  <2>2. CASE s = 0
    BY <2>1, <2>2 DEF ExactlyConverted
  <2>3. CASE s # 0 /\ s \in {1, Last + 1}
    BY <2>1, <2>3 DEF ExactlyConverted
  <2>4. CASE s # 0 /\ s \notin {1, Last + 1}
    BY <2>1, <2>4 DEF ExactlyConverted
  <2>5. QED
    BY <2>2, <2>3, <2>4
<1>7. QED
  BY <1>1, <1>2, <1>3, <1>4, <1>5, <1>6

LEMMA FixedWalks ==
    ASSUME path' = path
    PROVE  /\ \A i, h : LightWalk(i, h)' = LightWalk(i, h)
           /\ \A i, h : CameraWalk(i, h)' = CameraWalk(i, h)
<1>1. ASSUME NEW i, NEW h PROVE LightWalk(i, h)' = LightWalk(i, h)
  BY FixedPath, FixedDensities, FixedProducts, FixedSums DEF LightWalk
<1>2. ASSUME NEW i, NEW h PROVE CameraWalk(i, h)' = CameraWalk(i, h)
  BY FixedPath, FixedDensities, FixedProducts, FixedSums DEF CameraWalk
<1>3. QED
  BY <1>1, <1>2

LEMMA FixedRecords ==
    ASSUME path' = path
    PROVE  /\ \A vs : StoredOK(vs)' = StoredOK(vs)
           /\ \A cs : TakenOK(cs)' = TakenOK(cs)
           /\ \A cs : BalancedOK(cs)' = BalancedOK(cs)
           /\ \A vs : StoredTerms(vs)' = StoredTerms(vs)
           /\ \A vs, n : StoredUpTo(vs, n)' = StoredUpTo(vs, n)
           /\ \A cs, s : TakenAfter(cs, s)' = TakenAfter(cs, s)
<1>1. ASSUME NEW vs PROVE StoredOK(vs)' = StoredOK(vs)
  BY FixedPath DEF StoredOK
<1>2. ASSUME NEW cs PROVE TakenOK(cs)' = TakenOK(cs)
  BY FixedSums DEF TakenOK
<1>3. ASSUME NEW cs PROVE BalancedOK(cs)' = BalancedOK(cs)
  BY FixedSums DEF BalancedOK
<1>4. ASSUME NEW vs PROVE StoredTerms(vs)' = StoredTerms(vs)
  BY FixedWalks DEF StoredTerms
<1>5. ASSUME NEW vs, NEW n PROVE StoredUpTo(vs, n)' = StoredUpTo(vs, n)
  BY FixedPath DEF StoredUpTo
<1>6. ASSUME NEW cs, NEW s PROVE TakenAfter(cs, s)' = TakenAfter(cs, s)
  BY FixedSums DEF TakenAfter
<1>7. QED
  BY <1>1, <1>2, <1>3, <1>4, <1>5, <1>6

-----------------------------------------------------------------------------
(***************************************************************************)
(* The invariant holds at first, and every action preserves it.            *)
(***************************************************************************)

\* lightPass begins.
LEMMA InitIInv == Init => IInv
<1> SUFFICES ASSUME Init PROVE IInv
  OBVIOUS
<1>1. PathOK
  <2>1. path \in {p \in Paths : Len(p.d2) = Len(p.surfaces) + 1}
    BY DEF Init
  <2>2. QED
    BY <2>1 DEF PathOK
<1>2. /\ pass = "light" /\ at = 1 /\ prd = InitLightPayload(Light)
      /\ vertices = <<>> /\ taken = <<>>
  BY DEF Init, Light
<1>3. Last \in Nat \ {0}
  BY <1>1, PathFacts
<1>4. prd.depth = 0
  BY <1>2 DEF InitLightPayload, InitLightMisTerms
<1>5. IsSeq(vertices) /\ Len(vertices) = 0 /\ IsSeq(taken) /\ Len(taken) = 0
  BY <1>2, EmptyIsSeq
<1>6. 1 .. Len(vertices) = {} /\ 1 .. Len(taken) = {}
  BY <1>5
<1>7. Walks
  <2>1. StoredOK(vertices)
    BY <1>5, <1>6 DEF StoredOK
  <2>2. TakenOK(taken)
    BY <1>5, <1>6 DEF TakenOK
  <2>3. LightProgress
    <3>1. at \in 1 .. Last + 1 /\ prd.depth = at - 1 /\ at <= Last /\ at # Last + 1
      BY <1>2, <1>3, <1>4
    <3>2. \A j \in 1 .. Len(vertices) : vertices[j].at < at
      BY <1>6
    <3>3. StoredUpTo(vertices, at - 1)
      <4>1. 1 .. at - 1 = {}
        BY <1>2
      <4>2. QED
        BY <4>1 DEF StoredUpTo
    <3>4. OnlyAfter(taken, Last) /\ \A s : ~TakenBy(taken, s)
      BY <1>6 DEF OnlyAfter, TakenBy
    <3>5. QED
      BY <3>1, <3>2, <3>3, <3>4 DEF LightProgress
  <2>4. Complete
    BY <1>2 DEF Complete
  <2>5. QED
    BY <1>2, <2>1, <2>2, <2>3, <2>4 DEF Walks
<1>8. Carries
  <2>1. StoredTerms(vertices) /\ BalancedOK(taken)
    BY <1>6 DEF StoredTerms, BalancedOK
  <2>2. LightWalk(at, UpdateOnHit(prd, Surface(at).cosL, D2(at - 1)))
    <3>1. at - 1 = 0
      BY <1>2
    <3>2. QED
      BY <1>1, <1>2, <3>1, LightStarts
  <2>3. QED
    BY <1>2, <2>1, <2>2 DEF Carries
<1>9. QED
  BY <1>1, <1>7, <1>8 DEF IInv

\* A walk counts its hits.
LEMMA HitDepth ==
    ASSUME NEW p, NEW c, NEW d
    PROVE  /\ UpdateOnHit(p, c, d).depth = p.depth + 1
           /\ \A v, x, y, b : UpdateOnScatter(UpdateOnHit(p, c, d), v, x, y, b).depth = p.depth + 1
<1> DEFINE m == Over(Times(p.dVCM, d), c)
           w == Over(p.dVC, c)
           e == p.depth + 1
           hit == [depth |-> e, dVCM |-> m, dVC |-> w]
<1>1. UpdateOnHit(p, c, d) = hit
  BY DEF UpdateOnHit
<1> HIDE DEF m, w, e
<1>2. hit.depth = e
  OBVIOUS
<1>3. ASSUME NEW x, NEW y PROVE [hit EXCEPT !.dVCM = x, !.dVC = y].depth = e
  OBVIOUS
<1> HIDE DEF hit
<1>4. ASSUME NEW v, NEW x, NEW y, NEW b PROVE UpdateOnScatter(hit, v, x, y, b).depth = e
  <2>1. \E q, r : UpdateOnScatter(hit, v, x, y, b) = [hit EXCEPT !.dVCM = q, !.dVC = r]
    <3>1. CASE IsSpecular(v)
      BY <3>1 DEF UpdateOnScatter
    <3>2. CASE ~IsSpecular(v)
      BY <3>2 DEF UpdateOnScatter
    <3>3. QED
      BY <3>1, <3>2
  <2>2. QED
    BY <1>3, <2>1
<1>5. QED
  BY <1>1, <1>2, <1>4 DEF e

\* lightHit stores and connects, whatever becomes of the walk.
LEMMA LightStores ==
    ASSUME PathOK, Walks, pass = "light", at <= Last, NEW h, NEW vs, NEW cs,
           IF IsSpecular(Surface(at)) THEN vs = vertices /\ cs = taken
           ELSE /\ vs = Append(vertices, [at |-> at, dVCM |-> h.dVCM, dVC |-> h.dVC])
                /\ cs = IF at = Last THEN Contribute(taken, Last + 1, WeightT1(h)) ELSE taken
    PROVE  /\ at \in 1 .. Last
           /\ StoredOK(vs) /\ TakenOK(cs)
           /\ \A j \in 1 .. Len(vs) : vs[j].at < at + 1
           /\ StoredUpTo(vs, at)
           /\ OnlyAfter(cs, Last)
           /\ at # Last => \A s : ~TakenBy(cs, s)
           /\ at = Last => TakenAfter(cs, Last)
<1> DEFINE e == [at |-> at, dVCM |-> h.dVCM, dVC |-> h.dVC]
<1>1. e.at = at
  OBVIOUS
<1> HIDE DEF e
<1>2. LightProgress /\ StoredOK(vertices) /\ TakenOK(taken)
  BY DEF Walks
<1>3. Last \in Nat \ {0}
  BY PathFacts
<1>4. at \in 1 .. Last /\ at \in Nat
  BY <1>2, <1>3 DEF LightProgress
<1>5. \A j \in 1 .. Len(vertices) : vertices[j].at \in 1 .. Last /\ vertices[j].at < at
  BY <1>2 DEF LightProgress, StoredOK
<1>6. StoredUpTo(vertices, at - 1) /\ OnlyAfter(taken, Last) /\ \A s : ~TakenBy(taken, s)
  BY <1>2 DEF LightProgress
<1>7. \A i \in 1 .. at : i = at \/ i \in 1 .. at - 1
  BY <1>4
<1>8. \A t \in Techniques : t > Last => t = Last + 1
  BY <1>3 DEF Techniques
<1>9. CASE IsSpecular(Surface(at))
  <2>1. vs = vertices /\ cs = taken
    BY <1>9
  <2>2. \A j \in 1 .. Len(vs) : vs[j].at < at + 1
    BY <1>4, <1>5, <2>1
  <2>3. StoredUpTo(vs, at)
    BY <1>6, <1>7, <1>9, <2>1 DEF StoredUpTo
  <2>4. ASSUME at = Last, NEW s \in Techniques PROVE s # Last + 1
    <3>1. SUFFICES ASSUME s = Last + 1 PROVE FALSE
      OBVIOUS
    <3>2. s >= 2 /\ s - 1 = at
      BY <1>3, <2>4, <3>1
    <3>3. QED
      BY <1>9, <3>2 DEF Techniques
  <2>5. at = Last => TakenAfter(cs, Last)
    BY <1>8, <2>4 DEF TakenAfter
  <2>6. QED
    BY <1>2, <1>4, <1>6, <2>1, <2>2, <2>3, <2>5
<1>10. CASE ~IsSpecular(Surface(at))
  <2>1. vs = Append(vertices, e) /\ cs = IF at = Last THEN Contribute(taken, Last + 1, WeightT1(h)) ELSE taken
    BY <1>10 DEF e
  <2>2. ~StoredAt(vertices, at)
    BY <1>4, <1>5 DEF StoredAt
  <2>3. StoredOK(vs) /\ \A t : StoredAt(vs, t) <=> (StoredAt(vertices, t) \/ t = at)
    BY <1>1, <1>2, <1>4, <1>10, <2>1, <2>2, Stored
  <2>4. ASSUME NEW j \in 1 .. Len(vs) PROVE vs[j].at < at + 1
    <3>1. StoredAt(vs, vs[j].at)
      BY DEF StoredAt
    <3>2. CASE vs[j].at = at
      BY <1>4, <3>2
    <3>3. CASE StoredAt(vertices, vs[j].at)
      BY <1>4, <1>5, <3>3 DEF StoredAt
    <3>4. QED
      BY <2>3, <3>1, <3>2, <3>3
  <2>5. StoredUpTo(vs, at)
    BY <1>6, <1>7, <2>3 DEF StoredUpTo
  <2>6. CASE at = Last
    <3>1. Last + 1 \in Techniques
      BY <1>3, <1>10, <2>6 DEF Techniques
    <3>2. TakenOK(cs) /\ \A t : TakenBy(cs, t) <=> (TakenBy(taken, t) \/ t = Last + 1)
      BY <1>2, <1>6, <2>1, <2>6, <3>1, Contributed
    <3>3. OnlyAfter(cs, Last)
      <4>1. ASSUME NEW k \in 1 .. Len(cs) PROVE cs[k].technique = Last + 1
        BY <1>6, <3>2 DEF TakenBy
      <4>2. QED
        BY <1>3, <4>1 DEF OnlyAfter
    <3>4. TakenAfter(cs, Last)
      BY <1>8, <3>2 DEF TakenAfter
    <3>5. QED
      BY <1>4, <2>3, <2>4, <2>5, <2>6, <3>2, <3>3, <3>4
  <2>7. CASE at # Last
    BY <1>2, <1>4, <1>6, <2>1, <2>3, <2>4, <2>5, <2>7
  <2>8. QED
    BY <2>6, <2>7
<1>11. QED
  BY <1>9, <1>10

\* What it stores and contributes is right.
LEMMA LightWeighs ==
    ASSUME PathOK, Walks, Carries, pass = "light", at \in 1 .. Last, NEW h, NEW vs, NEW cs,
           h = UpdateOnHit(prd, Surface(at).cosL, D2(at - 1)),
           IF IsSpecular(Surface(at)) THEN vs = vertices /\ cs = taken
           ELSE /\ vs = Append(vertices, [at |-> at, dVCM |-> h.dVCM, dVC |-> h.dVC])
                /\ cs = IF at = Last THEN Contribute(taken, Last + 1, WeightT1(h)) ELSE taken
    PROVE  LightWalk(at, h) /\ StoredTerms(vs) /\ BalancedOK(cs)
<1> DEFINE e == [at |-> at, dVCM |-> h.dVCM, dVC |-> h.dVC]
           g == [depth |-> 0, dVCM |-> h.dVCM, dVC |-> h.dVC]
<1>1. Last \in Nat /\ at <= Last
  BY PathFacts
<1>2. LightWalk(at, h) /\ StoredTerms(vertices) /\ BalancedOK(taken)
  BY <1>1 DEF Carries
<1>3. IsSeq(vertices) /\ IsSeq(taken)
  BY DEF Walks, StoredOK, TakenOK
<1>4. h.dVCM \in Numbers /\ h.dVC \in Numbers
  BY <1>2 DEF LightWalk, MisTerms
<1>5. g \in MisTerms /\ g.dVCM = h.dVCM /\ g.dVC = h.dVC
  BY <1>4 DEF MisTerms
<1>6. /\ e.at = at /\ g = [depth |-> 0, dVCM |-> e.dVCM, dVC |-> e.dVC]
  OBVIOUS
<1> HIDE DEF e, g
<1>7. LightWalk(at, g)
  BY <1>2, <1>5 DEF LightWalk
<1>8. CASE IsSpecular(Surface(at))
  BY <1>2, <1>8
<1>9. CASE ~IsSpecular(Surface(at))
  <2>1. vs = Append(vertices, e) /\ cs = IF at = Last THEN Contribute(taken, Last + 1, WeightT1(h)) ELSE taken
    BY <1>9 DEF e
  <2>2. StoredTerms(vs)
    BY <1>2, <1>3, <1>6, <1>7, <2>1, StoredTermsAppend
  <2>3. CASE at = Last
    <3>1. WeightT1(h) = Balanced(Last + 1)
      BY <1>2, <1>9, <2>3, T1IsBalanced
    <3>2. BalancedOK(cs)
      BY <1>2, <1>3, <2>1, <2>3, <3>1, ContributedWeight
    <3>3. QED
      BY <1>2, <2>2, <3>2
  <2>4. CASE at # Last
    BY <1>2, <2>1, <2>2, <2>4
  <2>5. QED
    BY <2>3, <2>4
<1>10. QED
  BY <1>8, <1>9

\* cameraHit contributes one technique at most, the one of its place.
LEMMA CameraConnects ==
    ASSUME PathOK, Walks, pass = "camera", at >= 1, NEW h, NEW cs,
           cs = IF IsSpecular(Surface(at)) THEN taken
                ELSE ConnectStored(IF at = 1 THEN Contribute(taken, 1, WeightS1(h)) ELSE taken, h)
    PROVE  /\ at \in 1 .. Last
           /\ \/ cs = taken /\ (at \in Techniques => at # 1 /\ ~StoredAt(vertices, at - 1))
              \/ /\ at = 1 /\ at \in Techniques /\ ~IsSpecular(Surface(at))
                 /\ cs = Contribute(taken, at, WeightS1(h))
              \/ /\ at \in Techniques /\ ~IsSpecular(Surface(at))
                 /\ \E j \in 1 .. Len(vertices) :
                        /\ vertices[j].at = at - 1
                        /\ cs = Contribute(taken, at, WeightConnect(vertices[j], h))
<1>1. CameraProgress /\ StoredOK(vertices)
  BY DEF Walks
<1>2. Last \in Nat \ {0}
  BY PathFacts
<1>3. at \in 1 .. Last
  BY <1>1, <1>2 DEF CameraProgress
<1>4. CASE IsSpecular(Surface(at))
  <2>1. at \notin Techniques
    BY <1>3, <1>4 DEF Techniques
  <2>2. QED
    BY <1>3, <1>4, <2>1
<1>5. CASE ~IsSpecular(Surface(at)) /\ at = 1
  <2> DEFINE old == Contribute(taken, 1, WeightS1(h))
  <2>1. cs = ConnectStored(old, h)
    BY <1>5
  <2> HIDE DEF old
  <2>2. 1 \in Techniques
    BY <1>2, <1>3, <1>5 DEF Techniques
  <2>3. \A j \in 1 .. Len(vertices) : vertices[j].at # at - 1
    BY <1>1, <1>5 DEF StoredOK
  <2>4. ConnectStored(old, h) = old
    BY <1>1, <1>3, <2>3, ConnectOnce
  <2>5. QED
    BY <1>3, <1>5, <2>1, <2>2, <2>4 DEF old
<1>6. CASE ~IsSpecular(Surface(at)) /\ at # 1
  <2>1. cs = ConnectStored(taken, h)
    BY <1>6
  <2>2. CASE ~StoredAt(vertices, at - 1) /\ ConnectStored(taken, h) = taken
    BY <1>3, <1>6, <2>1, <2>2
  <2>3. CASE \E j \in 1 .. Len(vertices) :
                 /\ vertices[j].at = at - 1
                 /\ ConnectStored(taken, h) = Contribute(taken, at, WeightConnect(vertices[j], h))
    <3>1. PICK j \in 1 .. Len(vertices) :
                 /\ vertices[j].at = at - 1
                 /\ ConnectStored(taken, h) = Contribute(taken, at, WeightConnect(vertices[j], h))
      BY <2>3
    <3>2. ~IsSpecular(Surface(at - 1))
      BY <1>1, <3>1 DEF StoredOK
    <3>3. at \in Techniques
      BY <1>2, <1>3, <1>6, <3>2 DEF Techniques
    <3>4. QED
      BY <1>3, <1>6, <2>1, <3>1, <3>3
  <2>4. QED
    BY <1>1, <1>3, <2>2, <2>3, ConnectOnce
<1>7. QED
  BY <1>4, <1>5, <1>6

\* That is the next one after those that have contributed.
LEMMA CameraAdds ==
    ASSUME PathOK, Walks, pass = "camera", at >= 1, NEW h, NEW cs,
           cs = IF IsSpecular(Surface(at)) THEN taken
                ELSE ConnectStored(IF at = 1 THEN Contribute(taken, 1, WeightS1(h)) ELSE taken, h)
    PROVE  /\ TakenOK(cs)
           /\ OnlyAfter(cs, at - 1)
           /\ StoredUpTo(vertices, Last) /\ TakenAfter(taken, at) => TakenAfter(cs, at - 1)
<1>1. /\ at \in 1 .. Last
      /\ \/ cs = taken /\ (at \in Techniques => at # 1 /\ ~StoredAt(vertices, at - 1))
         \/ at \in Techniques /\ \E w : cs = Contribute(taken, at, w)
  BY CameraConnects
<1>2. TakenOK(taken) /\ OnlyAfter(taken, at)
  BY DEF Walks, CameraProgress
<1>3. Last \in Nat
  BY PathFacts
<1>4. \A t \in Techniques : t > at - 1 => t > at \/ t = at
  BY <1>1 DEF Techniques
<1>5. \A k \in 1 .. Len(taken) : taken[k].technique \in Techniques /\ taken[k].technique > at
  BY <1>2 DEF TakenOK, OnlyAfter
<1>6. Techniques \subseteq Int
  BY DEF Techniques
<1>7. \A t \in Techniques : t > at => t > at - 1
  BY <1>1, <1>6
<1>8. CASE cs = taken /\ (at \in Techniques => at # 1 /\ ~StoredAt(vertices, at - 1))
  <2>1. OnlyAfter(cs, at - 1)
    BY <1>5, <1>8, <1>7 DEF OnlyAfter
  <2>2. ASSUME StoredUpTo(vertices, Last), TakenAfter(taken, at) PROVE at \notin Techniques
    <3>1. SUFFICES ASSUME at \in Techniques PROVE FALSE
      OBVIOUS
    <3>2. ~StoredAt(vertices, at - 1) /\ at # 1
      BY <1>8, <3>1
    <3>3. at - 1 \in 1 .. Last
      BY <1>1, <1>3, <3>2
    <3>4. ~IsSpecular(Surface(at - 1))
      BY <1>1, <3>1, <3>2 DEF Techniques
    <3>5. QED
      BY <2>2, <3>2, <3>3, <3>4 DEF StoredUpTo
  <2>3. StoredUpTo(vertices, Last) /\ TakenAfter(taken, at) => TakenAfter(cs, at - 1)
    BY <1>4, <1>8, <2>2 DEF TakenAfter
  <2>4. QED
    BY <1>2, <1>8, <2>1, <2>3
<1>9. CASE at \in Techniques /\ \E w : cs = Contribute(taken, at, w)
  <2>1. ~TakenBy(taken, at)
    BY <1>1, <1>5 DEF TakenBy
  <2>2. TakenOK(cs) /\ \A t : TakenBy(cs, t) <=> (TakenBy(taken, t) \/ t = at)
    BY <1>2, <1>9, <2>1, Contributed
  <2>3. OnlyAfter(cs, at - 1)
    <3>1. ASSUME NEW k \in 1 .. Len(cs) PROVE cs[k].technique > at - 1
      <4>1. TakenBy(cs, cs[k].technique)
        BY DEF TakenBy
      <4>2. CASE cs[k].technique = at
        BY <1>1, <4>2
      <4>3. CASE TakenBy(taken, cs[k].technique)
        BY <1>5, <1>7, <4>3 DEF TakenBy
      <4>4. QED
        BY <2>2, <4>1, <4>2, <4>3
    <3>2. QED
      BY <3>1 DEF OnlyAfter
  <2>4. TakenAfter(taken, at) => TakenAfter(cs, at - 1)
    BY <1>4, <2>2 DEF TakenAfter
  <2>5. QED
    BY <2>2, <2>3, <2>4
<1>10. QED
  BY <1>1, <1>8, <1>9

\* Its weight is right.
LEMMA CameraWeighs ==
    ASSUME PathOK, Walks, Carries, pass = "camera", at >= 1, NEW h, NEW cs,
           h = UpdateOnHit(prd, Surface(at).cosC, D2(at)),
           cs = IF IsSpecular(Surface(at)) THEN taken
                ELSE ConnectStored(IF at = 1 THEN Contribute(taken, 1, WeightS1(h)) ELSE taken, h)
    PROVE  CameraWalk(at, h) /\ BalancedOK(cs)
<1>1. /\ at \in 1 .. Last
      /\ \/ cs = taken
         \/ at = 1 /\ ~IsSpecular(Surface(at)) /\ cs = Contribute(taken, at, WeightS1(h))
         \/ /\ ~IsSpecular(Surface(at))
            /\ \E j \in 1 .. Len(vertices) :
                   /\ vertices[j].at = at - 1
                   /\ cs = Contribute(taken, at, WeightConnect(vertices[j], h))
  BY CameraConnects
<1>2. CosC(at) = Surface(at).cosC
  BY <1>1 DEF CosC
<1>3. CameraWalk(at, h) /\ StoredTerms(vertices) /\ BalancedOK(taken)
  BY <1>2 DEF Carries
<1>4. IsSeq(taken) /\ StoredOK(vertices)
  BY DEF Walks, TakenOK
<1>5. CASE cs = taken
  BY <1>3, <1>5
<1>6. CASE at = 1 /\ ~IsSpecular(Surface(at)) /\ cs = Contribute(taken, at, WeightS1(h))
  <2>1. WeightS1(h) = Balanced(1)
    BY <1>3, <1>6, S1IsBalanced
  <2>2. BalancedOK(cs)
    BY <1>3, <1>4, <1>6, <2>1, ContributedWeight
  <2>3. QED
    BY <1>3, <2>2
<1>7. CASE /\ ~IsSpecular(Surface(at))
           /\ \E j \in 1 .. Len(vertices) :
                  /\ vertices[j].at = at - 1
                  /\ cs = Contribute(taken, at, WeightConnect(vertices[j], h))
  <2>1. PICK j \in 1 .. Len(vertices) :
            /\ vertices[j].at = at - 1
            /\ cs = Contribute(taken, at, WeightConnect(vertices[j], h))
    BY <1>7
  <2> DEFINE i == at - 1
             stored == vertices[j]
             g == [depth |-> 0, dVCM |-> stored.dVCM, dVC |-> stored.dVC]
  <2>2. stored.at \in 1 .. Last /\ ~IsSpecular(Surface(stored.at))
    BY <1>4 DEF StoredOK
  <2>3. Last \in Nat
    BY PathFacts
  <2>4. i \in 1 .. Last - 1 /\ i + 1 = at /\ stored.at = i
    BY <1>1, <2>1, <2>2, <2>3
  <2>5. LightWalk(stored.at, g)
    BY <1>3 DEF StoredTerms
  <2>6. g.dVCM = stored.dVCM /\ g.dVC = stored.dVC
    OBVIOUS
  <2> HIDE DEF i, stored, g
  <2>7. LightWalk(i, g) /\ ~IsSpecular(Surface(i))
    BY <2>2, <2>4, <2>5
  <2>8. CameraWalk(i + 1, h) /\ ~IsSpecular(Surface(i + 1))
    BY <1>3, <1>7, <2>4
  <2>9. ExactlyConverted(i + 1) => WeightConnect(stored, h) = Balanced(i + 1)
    BY <2>4, <2>6, <2>7, <2>8, ConnectIsBalanced
  <2>10. cs = Contribute(taken, at, WeightConnect(stored, h))
    BY <2>1 DEF stored
  <2>11. BalancedOK(cs)
    BY <1>3, <1>4, <2>4, <2>9, <2>10, ContributedWeight
  <2>12. QED
    BY <1>3, <2>11
<1>8. QED
  BY <1>1, <1>5, <1>6, <1>7

\* lightHit.
LEMMA LightHitIInv == IInv /\ LightHit => IInv'
<1> SUFFICES ASSUME IInv, LightHit PROVE IInv'
  OBVIOUS
<1> DEFINE v == Surface(at)
           hit == UpdateOnHit(prd, v.cosL, D2(at - 1))
           TooLong == /\ LightPathTooLong(hit.depth) /\ pass' = "hand over"
                      /\ at' = at /\ prd' = prd /\ ended' = ended
           Ends == pass' = "hand over" /\ ended' # {}
           GoesOn == \E b \in Picks(v) : /\ prd' = UpdateOnScatter(hit, v, v.cosL, v.cosC, b)
                                         /\ at' = at + 1 /\ pass' = pass /\ ended' = ended
<1>1. /\ path' = path /\ pass = "light" /\ at <= Last /\ PathOK
      /\ IF IsSpecular(v) THEN vertices' = vertices /\ taken' = taken
         ELSE /\ vertices' = Append(vertices, [at |-> at, dVCM |-> hit.dVCM, dVC |-> hit.dVC])
              /\ taken' = IF at = Last THEN Contribute(taken, Last + 1, WeightT1(hit)) ELSE taken
  BY DEF LightHit, IInv
<1>2. retried' \/ (~retried /\ (TooLong \/ Ends \/ GoesOn))
  BY DEF LightHit, SampleScattering
<1>3. PathOK' /\ Last' = Last /\ LobesEquallyLikely' = LobesEquallyLikely
      /\ \A i : Surface(i)' = Surface(i) /\ D2(i)' = D2(i)
  BY <1>1, FixedPath
<1>4. CASE retried'
  BY <1>3, <1>4 DEF IInv
<1>5. CASE ~retried' /\ ~retried /\ (TooLong \/ Ends \/ GoesOn)
  <2>1. Walks
    BY <1>5 DEF IInv
  <2>2. LightProgress
    BY <1>1, <2>1 DEF Walks
  <2>3. hit.depth = at /\ at \in Nat /\ Last \in Nat \ {0}
    <3>1. hit.depth = prd.depth + 1
      BY HitDepth
    <3> HIDE DEF hit
    <3>2. QED
      BY <1>1, <2>2, <3>1, PathFacts DEF LightProgress
  <2> DEFINE New == /\ at \in 1 .. Last
                    /\ StoredOK(vertices') /\ TakenOK(taken')
                    /\ \A j \in 1 .. Len(vertices') : vertices'[j].at < at + 1
                    /\ StoredUpTo(vertices', at)
                    /\ OnlyAfter(taken', Last)
                    /\ at # Last => \A s : ~TakenBy(taken', s)
                    /\ at = Last => TakenAfter(taken', Last)
  <2>4. New
    <3> HIDE DEF hit
    <3>1. QED
      BY <1>1, <2>1, LightStores
  <2>5. ASSUME LobesEquallyLikely
        PROVE  LightWalk(at, hit) /\ StoredTerms(vertices') /\ BalancedOK(taken')
    <3>1. Carries
      BY <1>5, <2>5 DEF IInv
    <3>2. hit = UpdateOnHit(prd, Surface(at).cosL, D2(at - 1))
      OBVIOUS
    <3> HIDE DEF hit
    <3>3. QED
      BY <1>1, <2>1, <2>4, <3>1, <3>2, LightWeighs
  <2>6. /\ StoredOK(vertices)' /\ TakenOK(taken)'
        /\ OnlyAfter(taken, Last)'
        /\ LobesEquallyLikely => StoredTerms(vertices)' /\ BalancedOK(taken)'
    BY <1>1, <1>3, <2>4, <2>5, FixedRecords
  <2>7. CASE TooLong
    <3>1. (ended' = {} /\ Last + 1 <= maxPathLen) => Complete'
      <4>1. SUFFICES ASSUME Last + 1 <= maxPathLen PROVE Complete'
        OBVIOUS
      <4>2. maxPathLen < at + 2
        BY <2>3, <2>7 DEF LightPathTooLong
      <4>3. at = Last
        BY <2>3, <2>4, <4>1, <4>2, PathAssumption
      <4>4. StoredUpTo(vertices, Last)' /\ TakenAfter(taken, Last)'
        BY <1>1, <1>3, <2>4, <4>3, FixedRecords
      <4>5. QED
        BY <2>7, <4>4 DEF Complete
    <3>2. Walks'
      BY <1>3, <2>6, <2>7, <3>1 DEF Walks
    <3>3. LobesEquallyLikely => Carries'
      BY <2>6, <2>7 DEF Carries
    <3>4. QED
      BY <1>3, <3>2, <3>3 DEF IInv
  <2>8. CASE Ends
    <3>1. Walks'
      BY <2>6, <2>8 DEF Walks
    <3>2. LobesEquallyLikely => Carries'
      BY <2>6, <2>8 DEF Carries
    <3>3. QED
      BY <1>3, <3>1, <3>2 DEF IInv
  <2>9. CASE GoesOn
    <3>1. PICK b \in Picks(v) : /\ prd' = UpdateOnScatter(hit, v, v.cosL, v.cosC, b)
                                /\ at' = at + 1 /\ pass' = pass /\ ended' = ended
      BY <2>9
    <3>2. prd'.depth = at
      <4>1. prd'.depth = prd.depth + 1
        BY <3>1, HitDepth
      <4>2. QED
        BY <2>2, <2>3, <4>1 DEF LightProgress
    <3> HIDE DEF hit
    <3>3. /\ at' \in 1 .. Last + 1 /\ at' - 1 = at
          /\ at' <= Last => at # Last /\ at \in 1 .. Last - 1
          /\ at' = Last + 1 => at = Last
      BY <2>3, <2>4, <3>1
    <3>4. LightProgress'
      <4>1. /\ at' \in 1 .. (Last + 1)' /\ prd'.depth = at' - 1
            /\ (OnlyAfter(taken, Last))'
            /\ at' <= Last' => \A s : ~TakenBy(taken', s)
            /\ at' = (Last + 1)' => TakenAfter(taken', Last)
        BY <1>3, <2>4, <2>6, <3>2, <3>3
      <4>2. /\ \A j \in 1 .. Len(vertices') : vertices'[j].at < at'
            /\ StoredUpTo(vertices', at' - 1)
        BY <2>4, <3>1, <3>3
      <4>3. (StoredUpTo(vertices, at - 1))' /\ (at' = (Last + 1)' => TakenAfter(taken, Last)')
        BY <1>1, <1>3, <4>1, <4>2, FixedRecords
      <4>4. QED
        BY <4>1, <4>2, <4>3 DEF LightProgress
    <3>5. Complete'
      BY <1>1, <3>1 DEF Complete
    <3>6. Walks'
      BY <1>1, <2>6, <3>1, <3>4, <3>5 DEF Walks
    <3>7. ASSUME LobesEquallyLikely, at' <= Last
          PROVE  LightWalk(at, UpdateOnHit(prd, Surface(at).cosL, D2(at - 1)))'
      <4>1. at \in 1 .. Last - 1
        BY <3>3, <3>7
      <4>2. LightWalk(at + 1, UpdateOnHit(prd', Surface(at + 1).cosL, D2(at)))
        BY <1>1, <2>5, <3>1, <3>7, <4>1, LightGoesOn
      <4>3. LightWalk(at', UpdateOnHit(prd', Surface(at').cosL, D2(at' - 1)))
        BY <3>1, <3>3, <4>2
      <4>4. QED
        BY <1>1, <1>3, <4>3, FixedWalks
    <3>8. LobesEquallyLikely => Carries'
      BY <1>1, <1>3, <2>6, <3>1, <3>7 DEF Carries
    <3>9. QED
      BY <1>3, <3>6, <3>8 DEF IInv
  <2>10. QED
    BY <1>5, <2>7, <2>8, <2>9
<1>6. QED
  BY <1>2, <1>4, <1>5

\* miss, in the light pass.
LEMMA LightMissIInv == IInv /\ LightMiss => IInv'
<1> SUFFICES ASSUME IInv, LightMiss PROVE IInv'
  OBVIOUS
<1>1. /\ path' = path /\ pass = "light" /\ at > Last /\ pass' = "hand over"
      /\ vertices' = vertices /\ taken' = taken /\ retried' = retried /\ PathOK
  BY DEF LightMiss, IInv
<1>2. PathOK' /\ Last' = Last /\ LobesEquallyLikely' = LobesEquallyLikely
  BY <1>1, FixedPath
<1>3. ASSUME Walks PROVE Walks'
  <2>1. LightProgress /\ StoredOK(vertices) /\ TakenOK(taken)
    BY <1>1, <1>3 DEF Walks
  <2>2. at = Last + 1 /\ at - 1 = Last
    <3>1. Last \in Nat /\ at \in 1 .. Last + 1
      BY <1>1, <2>1, PathFacts DEF LightProgress
    <3>2. at > Last
      BY <1>1
    <3>3. QED
      BY <3>1, <3>2
  <2>3. OnlyAfter(taken, Last) /\ StoredUpTo(vertices, Last) /\ TakenAfter(taken, Last)
    BY <2>1, <2>2 DEF LightProgress
  <2>4. /\ StoredOK(vertices)' /\ TakenOK(taken)' /\ OnlyAfter(taken, Last)'
        /\ StoredUpTo(vertices, Last)' /\ TakenAfter(taken, Last)'
    BY <1>1, <1>2, <2>1, <2>3, FixedRecords
  <2>5. Complete'
    BY <1>1, <2>4 DEF Complete
  <2>6. QED
    BY <1>1, <2>4, <2>5 DEF Walks
<1>4. ASSUME Carries PROVE Carries'
  <2>1. StoredTerms(vertices)' /\ BalancedOK(taken)'
    BY <1>1, <1>4, FixedRecords DEF Carries
  <2>2. QED
    BY <1>1, <2>1 DEF Carries
<1>5. QED
  BY <1>1, <1>2, <1>3, <1>4 DEF IInv

\* cameraPass.
LEMMA LaunchCameraPassIInv == IInv /\ LaunchCameraPass => IInv'
<1> SUFFICES ASSUME IInv, LaunchCameraPass PROVE IInv'
  OBVIOUS
<1>1. /\ path' = path /\ pass = "hand over" /\ pass' = "camera" /\ at' = Last
      /\ prd' = InitCameraPayload /\ ended' = ended
      /\ vertices' = vertices /\ taken' = taken /\ retried' = retried /\ PathOK
  BY DEF LaunchCameraPass, IInv
<1>2. PathOK' /\ Last' = Last /\ LobesEquallyLikely' = LobesEquallyLikely
  BY <1>1, FixedPath
<1>3. Last \in Nat \ {0}
  BY <1>1, PathFacts
<1>4. prd' = [depth |-> 0, dVCM |-> Over(lightSubpathCount, cameraPdfW), dVC |-> Zero]
  BY <1>1 DEF InitCameraPayload, InitCameraMisTerms
<1>5. ASSUME Walks PROVE Walks'
  <2>1. StoredOK(vertices) /\ TakenOK(taken) /\ OnlyAfter(taken, Last)
    BY <1>1, <1>5 DEF Walks
  <2>2. StoredOK(vertices)' /\ TakenOK(taken)' /\ OnlyAfter(taken, Last)'
    BY <1>1, <1>2, <2>1, FixedRecords
  <2>3. prd'.depth = 0
    BY <1>4
  <2>4. CameraProgress'
    <3>1. at' \in 0 .. Last /\ prd'.depth = Last - at'
      <4>1. at' = Last
        BY <1>1
      <4>2. QED
        BY <1>3, <2>3, <4>1
    <3>2. OnlyAfter(taken, at)'
      BY <1>1, <2>1
    <3>3. QED
      BY <1>2, <3>1, <3>2 DEF CameraProgress
  <2>5. ASSUME ended = {}, Last + 1 <= maxPathLen PROVE Complete'
    <3>1. StoredUpTo(vertices, Last) /\ TakenAfter(taken, Last)
      BY <1>1, <1>5, <2>5 DEF Walks, Complete
    <3>2. StoredUpTo(vertices, Last)' /\ TakenAfter(taken, Last)'
      BY <1>1, <1>2, <3>1, FixedRecords
    <3>3. TakenAfter(taken, at)'
      BY <1>1, <1>2, <3>2
    <3>4. QED
      BY <1>1, <3>2, <3>3 DEF Complete
  <2>6. QED
    BY <1>1, <1>2, <2>2, <2>4, <2>5 DEF Walks
<1>6. ASSUME Carries PROVE Carries'
  <2>1. StoredTerms(vertices)' /\ BalancedOK(taken)'
    BY <1>1, <1>6, FixedRecords DEF Carries
  <2>2. prd' \in MisTerms
    <3>1. Zero \in Numbers /\ Over(lightSubpathCount, cameraPdfW) \in Numbers
      BY OverType, NumbersAssumption, SceneAssumption DEF Positive
    <3>2. QED
      BY <1>4, <3>1 DEF MisTerms
  <2>3. CosC(Last) = Surface(Last).cosC
    BY <1>3 DEF CosC
  <2>4. CameraWalk(at', UpdateOnHit(prd', CosC(at'), D2(at')))
    BY <1>1, <2>3, CameraStarts
  <2>5. CameraWalk(at, UpdateOnHit(prd, CosC(at), D2(at)))'
    BY <1>1, <2>4, FixedPath, FixedDensities, FixedWalks
  <2>6. QED
    BY <1>1, <2>1, <2>2, <2>5 DEF Carries
<1>7. QED
  BY <1>1, <1>2, <1>5, <1>6 DEF IInv

\* cameraHit.
LEMMA CameraHitIInv == IInv /\ CameraHit => IInv'
<1> SUFFICES ASSUME IInv, CameraHit PROVE IInv'
  OBVIOUS
<1> DEFINE v == Surface(at)
           hit == UpdateOnHit(prd, v.cosC, D2(at))
           TooLong == /\ maxPathLen <= hit.depth /\ pass' = "done"
                      /\ at' = at /\ prd' = prd /\ ended' = ended
           Ends == pass' = "done" /\ ended' # {}
           GoesOn == \E b \in Picks(v) : /\ prd' = UpdateOnScatter(hit, v, v.cosC, v.cosL, b)
                                         /\ at' = at - 1 /\ pass' = pass /\ ended' = ended
<1>1. /\ path' = path /\ pass = "camera" /\ at >= 1 /\ PathOK /\ vertices' = vertices
      /\ taken' = IF IsSpecular(v) THEN taken
                  ELSE ConnectStored(IF at = 1 THEN Contribute(taken, 1, WeightS1(hit)) ELSE taken, hit)
  BY DEF CameraHit, IInv
<1>2. retried' \/ (~retried /\ (TooLong \/ Ends \/ GoesOn))
  BY <1>1 DEF CameraHit, SampleScattering
<1>3. PathOK' /\ Last' = Last /\ LobesEquallyLikely' = LobesEquallyLikely
      /\ \A i : Surface(i)' = Surface(i) /\ D2(i)' = D2(i)
  BY <1>1, FixedPath
<1>4. CASE retried'
  BY <1>3, <1>4 DEF IInv
<1>5. CASE ~retried' /\ ~retried /\ (TooLong \/ Ends \/ GoesOn)
  <2>1. Walks
    BY <1>5 DEF IInv
  <2>2. CameraProgress /\ StoredOK(vertices)
    BY <1>1, <2>1 DEF Walks
  <2>3. Last \in Nat \ {0} /\ at \in 1 .. Last /\ prd.depth = Last - at
    BY <1>1, <2>2, PathFacts DEF CameraProgress
  <2>4. hit.depth = Last - at + 1
    <3>1. hit.depth = prd.depth + 1
      BY HitDepth
    <3> HIDE DEF hit
    <3>2. QED
      BY <2>3, <3>1
  <2>5. /\ TakenOK(taken') /\ OnlyAfter(taken', at - 1)
        /\ StoredUpTo(vertices, Last) /\ TakenAfter(taken, at) => TakenAfter(taken', at - 1)
    <3> HIDE DEF hit
    <3>1. QED
      BY <1>1, <2>1, CameraAdds
  <2>6. ASSUME LobesEquallyLikely
        PROVE  CameraWalk(at, hit) /\ StoredTerms(vertices) /\ BalancedOK(taken')
    <3>1. Carries
      BY <1>5, <2>6 DEF IInv
    <3>2. hit = UpdateOnHit(prd, Surface(at).cosC, D2(at))
      OBVIOUS
    <3>3. StoredTerms(vertices)
      BY <3>1 DEF Carries
    <3> HIDE DEF hit
    <3>4. QED
      BY <1>1, <2>1, <3>1, <3>2, <3>3, CameraWeighs
  <2>7. /\ StoredOK(vertices)' /\ TakenOK(taken)'
        /\ LobesEquallyLikely => StoredTerms(vertices)' /\ BalancedOK(taken)'
    BY <1>1, <2>2, <2>5, <2>6, FixedRecords
  <2>8. CASE TooLong
    <3>1. Last + 1 > maxPathLen
      BY <2>3, <2>4, <2>8, PathAssumption
    <3>2. ~(Last + 1 <= maxPathLen)'
      BY <1>3, <2>3, <3>1, PathAssumption
    <3>3. Walks'
      BY <2>7, <2>8, <3>2 DEF Walks
    <3>4. LobesEquallyLikely => Carries'
      BY <2>7, <2>8 DEF Carries
    <3>5. QED
      BY <1>3, <3>3, <3>4 DEF IInv
  <2>9. CASE Ends
    <3>1. Walks'
      BY <2>7, <2>9 DEF Walks
    <3>2. LobesEquallyLikely => Carries'
      BY <2>7, <2>9 DEF Carries
    <3>3. QED
      BY <1>3, <3>1, <3>2 DEF IInv
  <2>10. CASE GoesOn
    <3>1. PICK b \in Picks(v) : /\ prd' = UpdateOnScatter(hit, v, v.cosC, v.cosL, b)
                                /\ at' = at - 1 /\ pass' = pass /\ ended' = ended
      BY <2>10
    <3>2. prd'.depth = Last - at + 1
      <4>1. prd'.depth = prd.depth + 1
        BY <3>1, HitDepth
      <4>2. QED
        BY <2>3, <4>1
    <3> HIDE DEF hit
    <3>3. at' \in 0 .. Last /\ Last - at + 1 = Last - at'
      BY <2>3, <3>1
    <3>4. CameraProgress'
      <4>1. OnlyAfter(taken, at)'
        BY <2>5, <3>1
      <4>2. QED
        BY <1>3, <3>2, <3>3, <4>1 DEF CameraProgress
    <3>5. ASSUME ended = {}, Last + 1 <= maxPathLen PROVE Complete'
      <4>1. StoredUpTo(vertices, Last) /\ TakenAfter(taken, at)
        BY <1>1, <2>1, <3>5 DEF Walks, Complete
      <4>2. TakenAfter(taken', at')
        BY <2>5, <3>1, <4>1
      <4>3. StoredUpTo(vertices, Last)' /\ TakenAfter(taken, at)'
        BY <1>1, <1>3, <4>1, <4>2, FixedRecords
      <4>4. QED
        BY <1>1, <3>1, <4>3 DEF Complete
    <3>6. Walks'
      BY <1>1, <1>3, <2>7, <3>1, <3>4, <3>5 DEF Walks
    <3>7. ASSUME LobesEquallyLikely
          PROVE  prd' \in MisTerms /\ CameraWalk(at, UpdateOnHit(prd, CosC(at), D2(at)))'
      <4>1. /\ prd' \in MisTerms
            /\ CameraWalk(at - 1, UpdateOnHit(prd', CosC(at - 1), D2(at - 1)))
        BY <1>1, <2>3, <2>6, <3>1, <3>7, CameraGoesOn
      <4>2. CameraWalk(at', UpdateOnHit(prd', CosC(at'), D2(at')))
        BY <3>1, <4>1
      <4>3. QED
        BY <1>1, <4>1, <4>2, FixedPath, FixedDensities, FixedWalks
    <3>8. LobesEquallyLikely => Carries'
      BY <1>1, <2>7, <3>1, <3>7 DEF Carries
    <3>9. QED
      BY <1>3, <3>6, <3>8 DEF IInv
  <2>11. QED
    BY <1>5, <2>8, <2>9, <2>10
<1>6. QED
  BY <1>2, <1>4, <1>5

\* vcmClosestHitCamera of DiffuseEmitter.
LEMMA CameraHitsEmitterIInv == IInv /\ CameraHitsEmitter => IInv'
<1> SUFFICES ASSUME IInv, CameraHitsEmitter PROVE IInv'
  OBVIOUS
<1> DEFINE w == WeightS0([prd EXCEPT !.depth = @ + 1], Light.inverseArea,
                         Times(LambertianPdf(Light.cos), Light.inverseArea))
<1>1. /\ path' = path /\ pass = "camera" /\ pass' = "done" /\ at = 0 /\ ~Light.isDelta
      /\ taken' = Contribute(taken, 0, w) /\ ended' = ended
      /\ vertices' = vertices /\ retried' = retried /\ PathOK
  BY DEF CameraHitsEmitter, IInv
<1>2. PathOK' /\ Last' = Last /\ LobesEquallyLikely' = LobesEquallyLikely
  BY <1>1, FixedPath
<1>3. Last \in Nat \ {0}
  BY <1>1, PathFacts
<1>4. 0 \in Techniques /\ \A t \in Techniques : t > -1 => t = 0 \/ t > 0
  BY <1>1, <1>3 DEF Techniques
<1>5. ASSUME Walks PROVE Walks'
  <2>1. /\ StoredOK(vertices) /\ TakenOK(taken) /\ OnlyAfter(taken, 0)
        /\ (ended = {} /\ Last + 1 <= maxPathLen)
               => StoredUpTo(vertices, Last) /\ TakenAfter(taken, 0)
    BY <1>1, <1>5 DEF Walks, CameraProgress, Complete
  <2>2. ~TakenBy(taken, 0)
    BY <2>1 DEF OnlyAfter, TakenBy
  <2> HIDE DEF w
  <2>3. TakenOK(taken') /\ \A t : TakenBy(taken', t) <=> (TakenBy(taken, t) \/ t = 0)
    BY <1>1, <1>4, <2>1, <2>2, Contributed
  <2>4. TakenAfter(taken, 0) => TakenAfter(taken', -1)
    BY <1>4, <2>3 DEF TakenAfter
  <2>5. /\ StoredOK(vertices)' /\ TakenOK(taken)'
        /\ (ended = {} /\ Last + 1 <= maxPathLen)
               => StoredUpTo(vertices, Last)' /\ TakenAfter(taken, -1)'
    BY <1>1, <1>2, <2>1, <2>3, <2>4, FixedRecords
  <2>6. (ended = {} /\ Last + 1 <= maxPathLen) => Complete'
    BY <1>1, <2>5 DEF Complete
  <2>7. QED
    BY <1>1, <1>2, <2>5, <2>6 DEF Walks
<1>6. ASSUME Walks, Carries PROVE Carries'
  <2>1. /\ StoredTerms(vertices) /\ BalancedOK(taken) /\ prd \in MisTerms
        /\ CameraWalk(0, UpdateOnHit(prd, CosC(0), D2(0)))
    BY <1>1, <1>6 DEF Carries
  <2>2. prd.depth > 0 /\ IsSeq(taken)
    BY <1>1, <1>3, <1>6 DEF Walks, CameraProgress, TakenOK
  <2>3. CosC(0) = Light.cos
    BY DEF CosC
  <2>4. ExactlyConverted(0) => D2(0) = One /\ Light.cos = One
    <3>1. 0 \notin {1, Last + 1}
      BY <1>3
    <3>2. QED
      BY <3>1 DEF ExactlyConverted
  <2>5. ExactlyConverted(0) => w = Balanced(0)
    <3>1. SUFFICES ASSUME D2(0) = One, Light.cos = One PROVE w = Balanced(0)
      BY <2>4
    <3>2. CameraWalk(0, UpdateOnHit(prd, Light.cos, D2(0)))
      BY <2>1, <2>3
    <3>3. QED
      BY <1>1, <2>1, <2>2, <3>1, <3>2, S0IsBalanced
  <2> HIDE DEF w
  <2>6. BalancedOK(taken')
    BY <1>1, <2>1, <2>2, <2>5, ContributedWeight
  <2>7. StoredTerms(vertices)' /\ BalancedOK(taken)'
    BY <1>1, <2>1, <2>6, FixedRecords
  <2>8. QED
    BY <1>1, <2>7 DEF Carries
<1>7. QED
  BY <1>1, <1>2, <1>5, <1>6 DEF IInv

\* miss, in the camera pass.
LEMMA CameraMissIInv == IInv /\ CameraMiss => IInv'
<1> SUFFICES ASSUME IInv, CameraMiss PROVE IInv'
  OBVIOUS
<1>1. /\ path' = path /\ pass = "camera" /\ pass' = "done" /\ at = 0 /\ Light.isDelta
      /\ taken' = taken /\ ended' = ended
      /\ vertices' = vertices /\ retried' = retried /\ PathOK
  BY DEF CameraMiss, IInv
<1>2. PathOK' /\ Last' = Last /\ LobesEquallyLikely' = LobesEquallyLikely
  BY <1>1, FixedPath
<1>3. \A t \in Techniques : t > -1 => t > 0
  BY <1>1 DEF Techniques
<1>4. ASSUME Walks PROVE Walks'
  <2>1. /\ StoredOK(vertices) /\ TakenOK(taken)
        /\ (ended = {} /\ Last + 1 <= maxPathLen)
               => StoredUpTo(vertices, Last) /\ TakenAfter(taken, 0)
    BY <1>1, <1>4 DEF Walks, Complete
  <2>2. TakenAfter(taken, 0) => TakenAfter(taken, -1)
    BY <1>3 DEF TakenAfter
  <2>3. /\ StoredOK(vertices)' /\ TakenOK(taken)'
        /\ (ended = {} /\ Last + 1 <= maxPathLen)
               => StoredUpTo(vertices, Last)' /\ TakenAfter(taken, -1)'
    BY <1>1, <1>2, <2>1, <2>2, FixedRecords
  <2>4. (ended = {} /\ Last + 1 <= maxPathLen) => Complete'
    BY <1>1, <2>3 DEF Complete
  <2>5. QED
    BY <1>1, <1>2, <2>3, <2>4 DEF Walks
<1>5. ASSUME Carries PROVE Carries'
  <2>1. StoredTerms(vertices)' /\ BalancedOK(taken)'
    BY <1>1, <1>5, FixedRecords DEF Carries
  <2>2. QED
    BY <1>1, <2>1 DEF Carries
<1>6. QED
  BY <1>1, <1>2, <1>4, <1>5 DEF IInv

LEMMA StutterIInv == IInv /\ UNCHANGED vars => IInv'
<1> SUFFICES ASSUME IInv, UNCHANGED vars PROVE IInv'
  OBVIOUS
<1>1. /\ path' = path /\ pass' = pass /\ at' = at /\ prd' = prd
      /\ taken' = taken /\ ended' = ended /\ vertices' = vertices /\ retried' = retried
  BY DEF vars
<1>2. /\ PathOK' = PathOK /\ Last' = Last /\ LobesEquallyLikely' = LobesEquallyLikely
      /\ \A i : Surface(i)' = Surface(i) /\ D2(i)' = D2(i)
  BY <1>1, FixedPath
<1>3. ASSUME Walks PROVE Walks'
  <2>1. /\ LightProgress' = LightProgress /\ CameraProgress' = CameraProgress
    BY <1>1, <1>2, FixedRecords DEF LightProgress, CameraProgress
  <2>2. Complete' = Complete
    BY <1>1, <1>2, FixedRecords DEF Complete
  <2>3. StoredOK(vertices)' = StoredOK(vertices) /\ TakenOK(taken)' = TakenOK(taken)
    BY <1>1, FixedRecords
  <2>4. OnlyAfter(taken, Last)' = OnlyAfter(taken, Last)
    BY <1>1, <1>2
  <2>5. QED
    BY <1>1, <1>2, <1>3, <2>1, <2>2, <2>3, <2>4 DEF Walks
<1>4. ASSUME Carries PROVE Carries'
  <2>1. StoredTerms(vertices)' = StoredTerms(vertices) /\ BalancedOK(taken)' = BalancedOK(taken)
    BY <1>1, FixedRecords
  <2>2. /\ LightWalk(at, UpdateOnHit(prd, Surface(at).cosL, D2(at - 1)))'
               = LightWalk(at, UpdateOnHit(prd, Surface(at).cosL, D2(at - 1)))
        /\ CameraWalk(at, UpdateOnHit(prd, CosC(at), D2(at)))'
               = CameraWalk(at, UpdateOnHit(prd, CosC(at), D2(at)))
    BY <1>1, <1>2, FixedDensities, FixedWalks
  <2>3. QED
    BY <1>1, <1>2, <1>4, <2>1, <2>2 DEF Carries
<1>5. QED
  BY <1>1, <1>2, <1>3, <1>4 DEF IInv

\* Every step.
LEMMA NextIInv == IInv /\ [Next]_vars => IInv'
<1> SUFFICES ASSUME IInv, [Next]_vars PROVE IInv'
  OBVIOUS
<1>1. CASE LightHit
  BY <1>1, LightHitIInv
<1>2. CASE LightMiss
  BY <1>2, LightMissIInv
<1>3. CASE LaunchCameraPass
  BY <1>3, LaunchCameraPassIInv
<1>4. CASE CameraHit
  BY <1>4, CameraHitIInv
<1>5. CASE CameraHitsEmitter
  BY <1>5, CameraHitsEmitterIInv
<1>6. CASE CameraMiss
  BY <1>6, CameraMissIInv
<1>7. CASE UNCHANGED vars
  BY <1>7, StutterIInv
<1>8. QED
  BY <1>1, <1>2, <1>3, <1>4, <1>5, <1>6, <1>7 DEF Next

(* What a walk has carried along is always worth the densities of all      *)
(* techniques that join it to the other walk before the point it stands    *)
(* at (updateMisTermsOnHit, updateMisTermsOnScatter), and the techniques   *)
(* that have contributed are those the walks have passed; unless a sample  *)
(* was rejected and the segment traced again.                              *)
THEOREM Invariance == Spec => []IInv
<1>1. QED
  BY InitIInv, NextIInv, PTL DEF Spec

(* Whatever the materials, the lights, the geometry and the length of the  *)
(* path: the weight with which the code adds a contribution is that of the *)
(* balance heuristic (connectCameraT1, connectLightSourceS1,               *)
(* connectVertices, connectLightSourceS0), where the conversions of        *)
(* densities at its segment are exact.                                     *)
THEOREM WeightsAreBalancedHolds == Spec => []WeightsAreBalanced
<1>1. IInv => WeightsAreBalanced
  <2>1. SUFFICES ASSUME IInv, LobesEquallyLikely, ~retried PROVE BalancedOK(taken)
    BY DEF WeightsAreBalanced, BalancedOK
  <2>2. QED
    BY <2>1 DEF IInv, Carries
<1>2. QED
  BY <1>1, Invariance, PTL

(* The limits at which lightHit and cameraHit end their walks fit together *)
(* for every VCM_MAX_PATH_LENGTH: each technique that can build a path of  *)
(* at most that many segments contributes to it once, and no other does.   *)
THEOREM EveryTechniqueOnceHolds == Spec => []EveryTechniqueOnce
<1>1. IInv => EveryTechniqueOnce
  <2> SUFFICES ASSUME IInv, pass = "done", ended = {}, ~retried, Last + 1 <= maxPathLen
               PROVE  /\ \A k \in 1 .. Len(taken) : taken[k].technique \in Techniques
                      /\ \A s \in Techniques : \E k \in 1 .. Len(taken) :
                             \A j \in 1 .. Len(taken) : taken[j].technique = s <=> j = k
    BY DEF EveryTechniqueOnce
  <2>1. TakenOK(taken) /\ TakenAfter(taken, -1)
    BY DEF IInv, Walks, Complete
  <2>2. ASSUME NEW s \in Techniques
        PROVE  \E k \in 1 .. Len(taken) :
                   \A j \in 1 .. Len(taken) : taken[j].technique = s <=> j = k
    <3>1. s > -1
      BY DEF Techniques
    <3>2. PICK k \in 1 .. Len(taken) : taken[k].technique = s
      BY <2>1, <3>1 DEF TakenAfter, TakenBy
    <3>3. QED
      BY <2>1, <3>2 DEF TakenOK
  <2>3. QED
    BY <2>1, <2>2 DEF TakenOK
<1>2. QED
  BY <1>1, Invariance, PTL

(* What the contributions are weighted against is a partition of one: the  *)
(* balance heuristic's shares of all techniques of a path add up to one,   *)
(* so that no light is counted twice and none is lost.                     *)
THEOREM SharesAddUpHolds == Spec => []SharesAddUp
<1>1. IInv => SharesAddUp
  BY SharesOfPath DEF IInv
<1>2. QED
  BY <1>1, Invariance, PTL

=============================================================================
