------------------------- MODULE Aggregate_proofs -------------------------
(***************************************************************************)
(* Proofs about the weighted average (server/processing.py, _weighted_avg) *)
(* over the window of the store that is asked for, for any number of       *)
(* samples, with any numbers for their values and timestamps.              *)
(*                                                                         *)
(* Sums and windows are folds.  Their values are proved by induction, in   *)
(* the form the provers can use: a set that contains 0 and with each       *)
(* number the next contains all of them, and likewise for finite sets from *)
(* which a fold takes one element after the other.                         *)
(***************************************************************************)
EXTENDS Collection_proofs, WellFoundedInduction

-----------------------------------------------------------------------------
(* Induction *)

\* Every set of natural numbers has a least element.
LEMMA LeastNatural ==
  ASSUME NEW T, T \subseteq Nat, T # {}
  PROVE  \E x \in T : \A y \in T : x <= y
<1>1. IsWellFoundedOn(OpToRel(<, Nat), Nat)
  BY NatLessThanWellFounded
<1>2. PICK x \in T : \A y \in T : <<y, x>> \notin OpToRel(<, Nat)
  BY <1>1, WFMin
<1>3. ASSUME NEW y \in T PROVE x <= y
  <2>1. ~(y < x)
    BY <1>2 DEF OpToRel
  <2> QED
    BY <2>1
<1> QED
  BY <1>2, <1>3

\* Induction on natural numbers.
LEMMA NatInSet ==
  ASSUME NEW A, 0 \in A, \A n \in Nat : n \in A => n + 1 \in A
  PROVE  \A n \in Nat : n \in A
<1> SUFFICES ASSUME NEW k \in Nat, k \notin A PROVE FALSE
  OBVIOUS
<1> DEFINE T == {n \in Nat : n \notin A}
<1>1. PICK x \in T : \A y \in T : x <= y
  <2>1. T \subseteq Nat /\ T # {}
    OBVIOUS
  <2> HIDE DEF T
  <2> QED
    BY <2>1, LeastNatural
<1>2. x # 0 /\ x \in Nat
  OBVIOUS
<1>3. x - 1 \in Nat /\ ~(x <= x - 1) /\ (x - 1) + 1 = x
  BY <1>2
<1>4. x - 1 \in A
  BY <1>1, <1>3
<1> QED
  BY <1>3, <1>4

\* p takes an element from each set that is not empty.
Chooses(p, S) == \A s \in SUBSET S : s # {} => p[s] \in s

\* Sets from which an element is taken get smaller.
LEMMA Smaller ==
  ASSUME NEW S, IsFiniteSet(S)
  PROVE  \A s \in SUBSET S :
           /\ Cardinality(s) \in Nat
           /\ Cardinality(s) = 0 <=> s = {}
           /\ \A x \in s : Cardinality(s \ {x}) = Cardinality(s) - 1
<1> SUFFICES ASSUME NEW s \in SUBSET S
             PROVE  /\ Cardinality(s) \in Nat
                    /\ Cardinality(s) = 0 <=> s = {}
                    /\ \A x \in s : Cardinality(s \ {x}) = Cardinality(s) - 1
  OBVIOUS
<1>1. IsFiniteSet(s)
  BY FS_Subset
<1>2. Cardinality(s) \in Nat
  BY <1>1, FS_CardinalityType
<1>3. Cardinality(s) = 0 <=> s = {}
  BY <1>1, FS_EmptySet
<1>4. \A x \in s : Cardinality(s \ {x}) = Cardinality(s) - 1
  BY <1>1, FS_RemoveElement
<1> QED
  BY <1>2, <1>3, <1>4

\* Induction on finite sets.
LEMMA SetInSet ==
  ASSUME NEW S, IsFiniteSet(S), NEW p, Chooses(p, S), NEW A, {} \in A,
         \A s \in SUBSET S : s # {} /\ s \ {p[s]} \in A => s \in A
  PROVE  \A s \in SUBSET S : s \in A
<1> DEFINE B == {n \in Nat : \A s \in SUBSET S : Cardinality(s) <= n => s \in A}
<1>1. 0 \in B
  <2>1. ASSUME NEW s \in SUBSET S, Cardinality(s) <= 0 PROVE s \in A
    <3>1. Cardinality(s) \in Nat /\ (Cardinality(s) = 0 <=> s = {})
      BY Smaller
    <3>2. s = {}
      BY <2>1, <3>1
    <3> QED
      BY <3>2
  <2> QED
    BY <2>1
<1>2. ASSUME NEW n \in Nat, n \in B PROVE n + 1 \in B
  <2>1. ASSUME NEW s \in SUBSET S, Cardinality(s) <= n + 1 PROVE s \in A
    <3>1. CASE s = {}
      BY <3>1
    <3>2. CASE s # {}
      <4>1. p[s] \in s
        BY <3>2 DEF Chooses
      <4>2. Cardinality(s \ {p[s]}) = Cardinality(s) - 1 /\ Cardinality(s) \in Nat
        BY <4>1, Smaller
      <4>3. Cardinality(s \ {p[s]}) <= n
        BY <2>1, <4>2
      <4>4. s \ {p[s]} \in A
        BY <1>2, <4>3
      <4> QED
        BY <3>2, <4>4
    <3> QED
      BY <3>1, <3>2
  <2> QED
    BY <2>1
<1> HIDE DEF B
<1>3. \A n \in Nat : n \in B
  BY <1>1, <1>2, NatInSet
<1>4. ASSUME NEW s \in SUBSET S PROVE s \in A
  <2>1. Cardinality(s) \in Nat
    BY Smaller
  <2>2. Cardinality(s) \in B /\ Cardinality(s) <= Cardinality(s)
    BY <1>3, <2>1
  <2> QED
    BY <2>2 DEF B
<1> QED
  BY <1>4

-----------------------------------------------------------------------------
(* Folds *)

\* f[s] is the fold of s: its elements combined by c, as p takes them.
IsFold(f, D, p, base, c) ==
  \A s \in D : f[s] = IF s = {} THEN base ELSE c[<<p[s], f[s \ {p[s]}]>>]

\* The recursive definition of a fold has a solution.
LEMMA FoldExists ==
  ASSUME NEW S, IsFiniteSet(S), NEW p, Chooses(p, S),
         NEW Y, NEW base \in Y, NEW c \in [S \X Y -> Y]
  PROVE  \E f \in [SUBSET S -> Y] : IsFold(f, SUBSET S, p, base, c)
<1> DEFINE Sub(n) == {s \in SUBSET S : Cardinality(s) <= n}
           B == {n \in Nat : \E f \in [Sub(n) -> Y] : IsFold(f, Sub(n), p, base, c)}
<1>1. 0 \in B
  <2> DEFINE f == [s \in Sub(0) |-> base]
  <2>1. ASSUME NEW s \in Sub(0) PROVE s = {}
    <3>1. Cardinality(s) \in Nat /\ (Cardinality(s) = 0 <=> s = {})
      BY Smaller
    <3> QED
      BY <3>1
  <2>2. f \in [Sub(0) -> Y] /\ \A s \in Sub(0) : f[s] = base
    OBVIOUS
  <2> HIDE DEF f
  <2>3. IsFold(f, Sub(0), p, base, c)
    BY <2>1, <2>2 DEF IsFold
  <2> QED
    BY <2>2, <2>3
<1>2. ASSUME NEW n \in Nat, n \in B PROVE n + 1 \in B
  <2>1. PICK g \in [Sub(n) -> Y] : IsFold(g, Sub(n), p, base, c)
    BY <1>2
  <2> DEFINE f == [s \in Sub(n + 1) |->
                     IF s = {} THEN base ELSE c[<<p[s], g[s \ {p[s]}]>>]]
  <2>2. ASSUME NEW s \in Sub(n + 1), s # {}
        PROVE  s \ {p[s]} \in Sub(n) /\ p[s] \in S /\ s \ {p[s]} \in Sub(n + 1)
    <3>1. p[s] \in s
      BY <2>2 DEF Chooses
    <3>2. Cardinality(s \ {p[s]}) = Cardinality(s) - 1 /\ Cardinality(s) \in Nat
      BY <3>1, Smaller
    <3>3. Cardinality(s \ {p[s]}) <= n /\ Cardinality(s \ {p[s]}) <= n + 1
      BY <3>2
    <3> QED
      BY <3>1, <3>3
  <2>3. \A s \in Sub(n + 1) :
          f[s] = IF s = {} THEN base ELSE c[<<p[s], g[s \ {p[s]}]>>]
    OBVIOUS
  <2>4. f \in [Sub(n + 1) -> Y]
    BY <2>2
  <2> HIDE DEF f
  <2>5. ASSUME NEW s \in Sub(n), s \in Sub(n + 1) PROVE f[s] = g[s]
    <3> HIDE DEF Sub
    <3> QED
      BY <2>1, <2>3, <2>5 DEF IsFold
  <2>6. IsFold(f, Sub(n + 1), p, base, c)
    <3> HIDE DEF Sub
    <3> QED
      BY <2>2, <2>3, <2>5 DEF IsFold
  <2>7. n + 1 \in Nat
    OBVIOUS
  <2> HIDE DEF Sub
  <2> QED
    BY <2>4, <2>6, <2>7
<1>3. Cardinality(S) \in B
  <2>1. Cardinality(S) \in Nat
    BY Smaller
  <2> HIDE DEF B
  <2> QED
    BY <1>1, <1>2, <2>1, NatInSet
<1>4. Sub(Cardinality(S)) = SUBSET S
  <2>1. ASSUME NEW s \in SUBSET S PROVE Cardinality(s) <= Cardinality(S)
    BY FS_Subset
  <2> QED
    BY <2>1
<1> QED
  BY <1>3, <1>4
-----------------------------------------------------------------------------
(* Sums *)

Pick(s) == CHOOSE x \in s : TRUE

\* f[s] is the sum of g over s.
Sums(f, g, S) ==
  /\ f \in [SUBSET S -> Int] /\ f[{}] = 0
  /\ \A s \in SUBSET S : s # {} => f[s] = g[Pick(s)] + f[s \ {Pick(s)}]

\* The sum exists.
LEMMA SumExists ==
  ASSUME NEW S, IsFiniteSet(S), NEW g \in [S -> Int]
  PROVE  \E f : Sums(f, g, S)
<1> DEFINE p == [s \in SUBSET S |-> Pick(s)]
           c == [q \in S \X Int |-> g[q[1]] + q[2]]
<1>1. Chooses(p, S) /\ \A s \in SUBSET S : p[s] = Pick(s)
  BY DEF Chooses, Pick
<1>2. c \in [S \X Int -> Int] /\ \A x \in S, y \in Int : c[<<x, y>>] = g[x] + y
  OBVIOUS
<1> HIDE DEF p, c
<1>3. 0 \in Int
  OBVIOUS
<1>4. PICK f \in [SUBSET S -> Int] : IsFold(f, SUBSET S, p, 0, c)
  BY <1>1, <1>2, <1>3, FoldExists
<1>5. ASSUME NEW s \in SUBSET S, s # {} PROVE f[s] = g[Pick(s)] + f[s \ {Pick(s)}]
  <2>1. p[s] = Pick(s) /\ Pick(s) \in S /\ s \ {Pick(s)} \in SUBSET S
    BY <1>1, <1>5 DEF Chooses
  <2>2. f[s] = c[<<Pick(s), f[s \ {Pick(s)}]>>]
    BY <1>4, <1>5, <2>1 DEF IsFold
  <2> QED
    BY <1>2, <2>1, <2>2
<1>6. f[{}] = 0
  BY <1>4 DEF IsFold
<1> QED
  BY <1>5, <1>6 DEF Sums

\* Induction on the sets that are summed up.
LEMMA SumInduction ==
  ASSUME NEW S, IsFiniteSet(S), NEW A, {} \in A,
         \A s \in SUBSET S : s # {} /\ s \ {Pick(s)} \in A => s \in A
  PROVE  \A s \in SUBSET S : s \in A
<1> DEFINE p == [s \in SUBSET S |-> Pick(s)]
<1>1. Chooses(p, S) /\ \A s \in SUBSET S : p[s] = Pick(s)
  BY DEF Chooses, Pick
<1> HIDE DEF p
<1>2. \A s \in SUBSET S : s # {} /\ s \ {p[s]} \in A => s \in A
  BY <1>1
<1> QED
  BY <1>1, <1>2, SetInSet

\* A solution of the recursive definition is a sum.
LEMMA SolutionSums ==
  ASSUME NEW S, IsFiniteSet(S), NEW g \in [S -> Int], NEW F,
         F = [s \in SUBSET S |-> IF s = {} THEN 0 ELSE g[Pick(s)] + F[s \ {Pick(s)}]]
  PROVE  Sums(F, g, S)
<1>1. /\ F[{}] = 0 /\ F = [s \in SUBSET S |-> F[s]]
      /\ \A s \in SUBSET S : s # {} => F[s] = g[Pick(s)] + F[s \ {Pick(s)}]
  OBVIOUS
<1> DEFINE A == {s \in SUBSET S : F[s] \in Int}
<1>2. \A s \in SUBSET S : s \in A
  <2>1. {} \in A
    BY <1>1
  <2>2. ASSUME NEW s \in SUBSET S, s # {}, s \ {Pick(s)} \in A PROVE s \in A
    <3>1. Pick(s) \in S
      BY <2>2 DEF Pick
    <3>2. F[s] = g[Pick(s)] + F[s \ {Pick(s)}]
      BY <1>1, <2>2
    <3> QED
      BY <2>2, <3>1, <3>2
  <2> HIDE DEF A
  <2> QED
    BY <2>1, <2>2, SumInduction
<1>3. F \in [SUBSET S -> Int]
  BY <1>1, <1>2
<1> QED
  BY <1>1, <1>3 DEF Sums

\* The sums of the values of samples, and of the values times their weights.
ValueSum(v, S) == MapThenSumSet(LAMBDA i : v[i].value, S)
ProductSum(w, v, S) == MapThenSumSet(LAMBDA i : w[i] * v[i].value, S)

\* MapThenSumSet computes a sum: of a function, ...
LEMMA SumOfFunction ==
  ASSUME NEW S, IsFiniteSet(S), NEW w \in [S -> Int]
  PROVE  \E f : Sums(f, w, S) /\ MapThenSumSet(LAMBDA i : w[i], S) = f[S]
<1> DEFINE Body(h) == [s \in SUBSET S |->
                         IF s = {} THEN 0 ELSE w[Pick(s)] + h[s \ {Pick(s)}]]
           F == CHOOSE h : h = Body(h)
<1>1. PICK f : Sums(f, w, S)
  BY SumExists
<1>2. f = Body(f)
  BY <1>1 DEF Sums
<1>3. F = Body(F)
  BY <1>2
<1>4. MapThenSumSet(LAMBDA i : w[i], S) = F[S]
  BY DEF MapThenSumSet, MapThenFoldSet, Pick
<1> HIDE DEF F
<1>5. Sums(F, w, S)
  BY <1>3, SolutionSums
<1> QED
  BY <1>4, <1>5

\* ... of the values of samples, ...
LEMMA SumOfValues ==
  ASSUME NEW S, IsFiniteSet(S), NEW v \in Seq(Sample),
         NEW g \in [S -> Int], \A i \in S : g[i] = v[i].value
  PROVE  \E f : Sums(f, g, S) /\ ValueSum(v, S) = f[S]
<1> DEFINE Body(h) == [s \in SUBSET S |->
                         IF s = {} THEN 0 ELSE v[Pick(s)].value + h[s \ {Pick(s)}]]
           F == CHOOSE h : h = Body(h)
<1>0. \A s \in SUBSET S : s # {} => g[Pick(s)] = v[Pick(s)].value
  BY DEF Pick
<1>1. PICK f : Sums(f, g, S)
  BY SumExists
<1>2. f = Body(f)
  BY <1>0, <1>1 DEF Sums
<1>3. F = Body(F)
  BY <1>2
<1>4. ValueSum(v, S) = F[S]
  BY DEF ValueSum, MapThenSumSet, MapThenFoldSet, Pick
<1> HIDE DEF F
<1>5. F = [s \in SUBSET S |-> IF s = {} THEN 0 ELSE g[Pick(s)] + F[s \ {Pick(s)}]]
  BY <1>0, <1>3
<1>6. Sums(F, g, S)
  BY <1>5, SolutionSums
<1> QED
  BY <1>4, <1>6

\* ... and of the values times their weights.
LEMMA SumOfProducts ==
  ASSUME NEW S, IsFiniteSet(S), NEW v \in Seq(Sample),
         NEW w \in [S -> Int], NEW g \in [S -> Int], \A i \in S : g[i] = w[i] * v[i].value
  PROVE  \E f : Sums(f, g, S) /\ ProductSum(w, v, S) = f[S]
<1> DEFINE Body(h) == [s \in SUBSET S |->
                         IF s = {} THEN 0
                         ELSE w[Pick(s)] * v[Pick(s)].value + h[s \ {Pick(s)}]]
           F == CHOOSE h : h = Body(h)
<1>0. \A s \in SUBSET S : s # {} => g[Pick(s)] = w[Pick(s)] * v[Pick(s)].value
  BY DEF Pick
<1>1. PICK f : Sums(f, g, S)
  BY SumExists
<1>2. f = Body(f)
  BY <1>0, <1>1 DEF Sums
<1>3. F = Body(F)
  BY <1>2
<1>4. ProductSum(w, v, S) = F[S]
  BY DEF ProductSum, MapThenSumSet, MapThenFoldSet, Pick
<1> HIDE DEF F
<1>5. F = [s \in SUBSET S |-> IF s = {} THEN 0 ELSE g[Pick(s)] + F[s \ {Pick(s)}]]
  BY <1>0, <1>3
<1>6. Sums(F, g, S)
  BY <1>5, SolutionSums
<1> QED
  BY <1>4, <1>6

\* A sum of positive numbers is positive.
LEMMA SumPositive ==
  ASSUME NEW S, IsFiniteSet(S), NEW g \in [S -> Int], NEW f, Sums(f, g, S),
         \A i \in S : g[i] > 0
  PROVE  \A s \in SUBSET S : f[s] >= 0 /\ (s # {} => f[s] > 0)
<1> DEFINE A == {s \in SUBSET S : f[s] >= 0 /\ (s # {} => f[s] > 0)}
<1>1. {} \in A
  BY DEF Sums
<1>2. ASSUME NEW s \in SUBSET S, s # {}, s \ {Pick(s)} \in A PROVE s \in A
  <2>1. Pick(s) \in S /\ s \ {Pick(s)} \in SUBSET S
    BY <1>2 DEF Pick
  <2>2. f[s] = g[Pick(s)] + f[s \ {Pick(s)}] /\ f[s \ {Pick(s)}] \in Int
    BY <1>2, <2>1 DEF Sums
  <2>3. g[Pick(s)] > 0 /\ g[Pick(s)] \in Int /\ f[s \ {Pick(s)}] >= 0
    BY <1>2, <2>1
  <2>4. f[s] > 0 /\ f[s] >= 0
    BY <2>2, <2>3
  <2> QED
    BY <2>4
<1> HIDE DEF A
<1>3. \A s \in SUBSET S : s \in A
  BY <1>1, <1>2, SumInduction
<1> QED
  BY <1>3 DEF A

Negated(f) == [x \in DOMAIN f |-> 0 - f[x]]

\* The negated numbers add up to the negated sum.
LEMMA SumNegated ==
  ASSUME NEW S, NEW g \in [S -> Int], NEW f, Sums(f, g, S)
  PROVE  /\ Negated(g) \in [S -> Int] /\ \A i \in S : Negated(g)[i] = 0 - g[i]
         /\ Sums(Negated(f), Negated(g), S)
         /\ \A s \in SUBSET S : f[s] \in Int /\ Negated(f)[s] = 0 - f[s]
<1>1. f \in [SUBSET S -> Int] /\ f[{}] = 0
  BY DEF Sums
<1>2. Negated(g) \in [S -> Int] /\ \A i \in S : Negated(g)[i] = 0 - g[i]
  BY DEF Negated
<1>3. /\ Negated(f) \in [SUBSET S -> Int]
      /\ \A s \in SUBSET S : f[s] \in Int /\ Negated(f)[s] = 0 - f[s]
  BY <1>1 DEF Negated
<1>4. ASSUME NEW s \in SUBSET S, s # {}
      PROVE  Negated(f)[s] = Negated(g)[Pick(s)] + Negated(f)[s \ {Pick(s)}]
  <2>1. Pick(s) \in S /\ s \ {Pick(s)} \in SUBSET S
    BY <1>4 DEF Pick
  <2>2. f[s] = g[Pick(s)] + f[s \ {Pick(s)}]
    BY <1>4 DEF Sums
  <2>3. /\ Negated(f)[s] = 0 - f[s] /\ Negated(g)[Pick(s)] = 0 - g[Pick(s)]
        /\ Negated(f)[s \ {Pick(s)}] = 0 - f[s \ {Pick(s)}]
        /\ g[Pick(s)] \in Int /\ f[s \ {Pick(s)}] \in Int
    BY <1>1, <1>2, <1>3, <2>1
  <2> QED
    BY <2>2, <2>3
<1>5. Negated(f)[{}] = 0
  BY <1>1, <1>3
<1> QED
  BY <1>2, <1>3, <1>4, <1>5 DEF Sums

\* The weighted values are at most their largest times the weights.
LEMMA SumBounded ==
  ASSUME NEW S, IsFiniteSet(S), NEW w \in [S -> Int], NEW v \in [S -> Int],
         NEW a \in [S -> Int], \A i \in S : a[i] = w[i] * v[i],
         NEW fw, Sums(fw, w, S), NEW fa, Sums(fa, a, S),
         NEW m \in Int, \A i \in S : w[i] >= 0 /\ v[i] <= m
  PROVE  \A s \in SUBSET S : fa[s] <= fw[s] * m
<1> DEFINE A == {s \in SUBSET S : fa[s] <= fw[s] * m}
<1>1. {} \in A
  BY DEF Sums
<1>2. ASSUME NEW s \in SUBSET S, s # {}, s \ {Pick(s)} \in A PROVE s \in A
  <2> DEFINE i == Pick(s)
             r == s \ {Pick(s)}
  <2>1. i \in S /\ r \in SUBSET S
    BY <1>2 DEF Pick
  <2>2. /\ fa[s] = a[i] + fa[r] /\ fw[s] = w[i] + fw[r]
        /\ fa[r] \in Int /\ fw[r] \in Int
    BY <1>2, <2>1 DEF Sums
  <2>3. fa[r] <= fw[r] * m
    BY <1>2
  <2> HIDE DEF i, r
  <2>4. \A x, y, k, p, q \in Int :
          x >= 0 /\ y <= k /\ p <= q * k => x * y + p <= (x + q) * k
    <3> SUFFICES ASSUME NEW x \in Int, NEW y \in Int, NEW k \in Int, NEW p \in Int,
                        NEW q \in Int, x >= 0, y <= k, p <= q * k
                 PROVE  x * y + p <= (x + q) * k
      OBVIOUS
    <3>1. x * (k - y) >= 0
      OBVIOUS
    <3>2. (x + q) * k - (x * y + p) = x * (k - y) + (q * k - p)
      OBVIOUS
    <3> QED
      BY <3>1, <3>2
  <2>5. /\ w[i] \in Int /\ v[i] \in Int /\ w[i] >= 0 /\ v[i] <= m
        /\ a[i] = w[i] * v[i]
    BY <2>1
  <2>6. w[i] * v[i] + fa[r] <= (w[i] + fw[r]) * m
    BY <2>2, <2>3, <2>4, <2>5
  <2> QED
    BY <2>2, <2>5, <2>6
<1> HIDE DEF A
<1>3. \A s \in SUBSET S : s \in A
  BY <1>1, <1>2, SumInduction
<1> QED
  BY <1>3 DEF A

\* The sum of (w[i] - x) * (v[i] - y), multiplied out, when no summand is
\* negative.
LEMMA CrossSum ==
  ASSUME NEW S, IsFiniteSet(S), NEW w \in [S -> Int], NEW v \in [S -> Int],
         NEW a \in [S -> Int], \A i \in S : a[i] = w[i] * v[i],
         NEW fw, Sums(fw, w, S), NEW fv, Sums(fv, v, S), NEW fa, Sums(fa, a, S),
         NEW x \in Int, NEW y \in Int, \A i \in S : (w[i] - x) * (v[i] - y) >= 0
  PROVE  \A s \in SUBSET S :
           fa[s] - y * fw[s] - x * fv[s] + Cardinality(s) * (x * y) >= 0
<1> DEFINE A == {s \in SUBSET S :
                   fa[s] - y * fw[s] - x * fv[s] + Cardinality(s) * (x * y) >= 0}
<1>1. {} \in A
  <2>1. Cardinality({}) = 0 /\ fa[{}] = 0 /\ fw[{}] = 0 /\ fv[{}] = 0
    BY FS_EmptySet DEF Sums
  <2>2. x * y \in Int /\ 0 - y * 0 - x * 0 + 0 * (x * y) >= 0
    OBVIOUS
  <2> QED
    BY <2>1, <2>2
<1>2. ASSUME NEW s \in SUBSET S, s # {}, s \ {Pick(s)} \in A PROVE s \in A
  <2> DEFINE i == Pick(s)
             r == s \ {Pick(s)}
  <2>1. i \in S /\ i \in s /\ r \in SUBSET S
    BY <1>2 DEF Pick
  <2>2. /\ fa[s] = a[i] + fa[r] /\ fw[s] = w[i] + fw[r] /\ fv[s] = v[i] + fv[r]
        /\ fa[r] \in Int /\ fw[r] \in Int /\ fv[r] \in Int
    BY <1>2, <2>1 DEF Sums
  <2>3. fa[r] - y * fw[r] - x * fv[r] + Cardinality(r) * (x * y) >= 0
    BY <1>2
  <2>4. Cardinality(s) = Cardinality(r) + 1 /\ Cardinality(r) \in Nat
    <3>1. Cardinality(r) = Cardinality(s) - 1 /\ Cardinality(s) \in Nat
          /\ Cardinality(r) \in Nat
      BY <2>1, Smaller
    <3> QED
      BY <3>1
  <2> HIDE DEF i, r
  <2>5. /\ w[i] \in Int /\ v[i] \in Int /\ a[i] = w[i] * v[i]
        /\ (w[i] - x) * (v[i] - y) >= 0
    BY <2>1
  <2>6. \A b, c, A1, W, V \in Int, n \in Nat :
          (b * c + A1) - y * (b + W) - x * (c + V) + (n + 1) * (x * y)
            = (A1 - y * W - x * V + n * (x * y)) + (b - x) * (c - y)
    OBVIOUS
  <2>7. (w[i] * v[i] + fa[r]) - y * (w[i] + fw[r]) - x * (v[i] + fv[r])
          + (Cardinality(r) + 1) * (x * y)
        = (fa[r] - y * fw[r] - x * fv[r] + Cardinality(r) * (x * y))
            + (w[i] - x) * (v[i] - y)
    BY <2>2, <2>4, <2>5, <2>6
  <2>8. \A k, l \in Int : k >= 0 /\ l >= 0 => k + l >= 0
    OBVIOUS
  <2>9. /\ fa[r] - y * fw[r] - x * fv[r] + Cardinality(r) * (x * y) \in Int
        /\ (w[i] - x) * (v[i] - y) \in Int
    BY <2>2, <2>4, <2>5
  <2>10. (fa[r] - y * fw[r] - x * fv[r] + Cardinality(r) * (x * y))
            + (w[i] - x) * (v[i] - y) >= 0
    BY <2>3, <2>5, <2>8, <2>9
  <2>11. fa[s] - y * fw[s] - x * fv[s] + Cardinality(s) * (x * y) >= 0
    BY <2>2, <2>4, <2>5, <2>7, <2>10, Zenon
  <2> QED
    BY <2>11
<1> HIDE DEF A
<1>3. \A s \in SUBSET S : s \in A
  BY <1>1, <1>2, SumInduction
<1> QED
  BY <1>3 DEF A

\* Chebyshev's inequality: if weights and values rise together, the weighted
\* values add up to at least the sum of the weights times the mean.
LEMMA Chebyshev ==
  ASSUME NEW S, IsFiniteSet(S), NEW w \in [S -> Int], NEW v \in [S -> Int],
         NEW a \in [S -> Int], \A i \in S : a[i] = w[i] * v[i],
         NEW fw, Sums(fw, w, S), NEW fv, Sums(fv, v, S), NEW fa, Sums(fa, a, S),
         \A i, j \in S : (w[i] - w[j]) * (v[i] - v[j]) >= 0
  PROVE  \A s \in SUBSET S : fa[s] * Cardinality(s) >= fw[s] * fv[s]
<1> DEFINE A == {s \in SUBSET S : fa[s] * Cardinality(s) >= fw[s] * fv[s]}
<1>1. {} \in A
  <2>1. Cardinality({}) = 0 /\ fa[{}] = 0 /\ fw[{}] = 0 /\ fv[{}] = 0
    BY FS_EmptySet DEF Sums
  <2> QED
    BY <2>1
<1>2. ASSUME NEW s \in SUBSET S, s # {}, s \ {Pick(s)} \in A PROVE s \in A
  <2> DEFINE i == Pick(s)
             r == s \ {Pick(s)}
  <2>1. i \in S /\ i \in s /\ r \in SUBSET S
    BY <1>2 DEF Pick
  <2>2. /\ fa[s] = a[i] + fa[r] /\ fw[s] = w[i] + fw[r] /\ fv[s] = v[i] + fv[r]
        /\ fa[r] \in Int /\ fw[r] \in Int /\ fv[r] \in Int
    BY <1>2, <2>1 DEF Sums
  <2>3. fa[r] * Cardinality(r) >= fw[r] * fv[r]
    BY <1>2
  <2>4. Cardinality(s) = Cardinality(r) + 1 /\ Cardinality(r) \in Nat
    <3>1. Cardinality(r) = Cardinality(s) - 1 /\ Cardinality(s) \in Nat
          /\ Cardinality(r) \in Nat
      BY <2>1, Smaller
    <3> QED
      BY <3>1
  <2> HIDE DEF i, r
  <2>5. w[i] \in Int /\ v[i] \in Int /\ a[i] = w[i] * v[i]
    BY <2>1
  <2>6. \A j \in S : (w[j] - w[i]) * (v[j] - v[i]) >= 0
    BY <2>1
  <2>7. fa[r] - v[i] * fw[r] - w[i] * fv[r] + Cardinality(r) * (w[i] * v[i]) >= 0
    BY <2>1, <2>5, <2>6, CrossSum
  <2>8. \A b, c, A1, W, V \in Int, n \in Nat :
          A1 * n >= W * V /\ A1 - c * W - b * V + n * (b * c) >= 0
            => (b * c + A1) * (n + 1) >= (b + W) * (c + V)
    <3> SUFFICES ASSUME NEW b \in Int, NEW c \in Int, NEW A1 \in Int, NEW W \in Int,
                        NEW V \in Int, NEW n \in Nat,
                        A1 * n >= W * V, A1 - c * W - b * V + n * (b * c) >= 0
                 PROVE  (b * c + A1) * (n + 1) >= (b + W) * (c + V)
      OBVIOUS
    <3>1. (b * c + A1) * (n + 1) - (b + W) * (c + V)
            = (A1 * n - W * V) + (A1 - c * W - b * V + n * (b * c))
      OBVIOUS
    <3> QED
      BY <3>1
  <2>9. PICK b \in Int : b = w[i]
    BY <2>5
  <2>10. PICK c \in Int : c = v[i]
    BY <2>5
  <2>11. PICK A1 \in Int, W \in Int, V \in Int : A1 = fa[r] /\ W = fw[r] /\ V = fv[r]
    BY <2>2
  <2>12. (b * c + A1) * (Cardinality(r) + 1) >= (b + W) * (c + V)
    <3>1. A1 * Cardinality(r) >= W * V
      BY <2>3, <2>11
    <3>2. A1 - c * W - b * V + Cardinality(r) * (b * c) >= 0
      BY <2>7, <2>9, <2>10, <2>11
    <3>3. PICK n \in Nat : n = Cardinality(r)
      BY <2>4
    <3>4. (b * c + A1) * (n + 1) >= (b + W) * (c + V)
      BY <2>8, <3>1, <3>2, <3>3
    <3> QED
      BY <3>3, <3>4
  <2>13. fa[s] * Cardinality(s) >= fw[s] * fv[s]
    BY <2>2, <2>4, <2>5, <2>9, <2>10, <2>11, <2>12, Zenon
  <2> QED
    BY <2>13
<1> HIDE DEF A
<1>3. \A s \in SUBSET S : s \in A
  BY <1>1, <1>2, SumInduction
<1> QED
  BY <1>3 DEF A

-----------------------------------------------------------------------------
(* Windows and weights *)

\* Least and greatest of a finite set of numbers.
LEMMA Extremes ==
  ASSUME NEW T, IsFiniteSet(T), T \subseteq Int, T # {}
  PROVE  /\ Min(T) \in T /\ \A y \in T : Min(T) <= y
         /\ Max(T) \in T /\ \A y \in T : y <= Max(T)
<1> DEFINE A == {s \in SUBSET T :
                   s # {} => /\ \E x \in s : \A y \in s : x <= y
                             /\ \E x \in s : \A y \in s : x >= y}
<1>1. {} \in A
  OBVIOUS
<1>2. ASSUME NEW s \in SUBSET T, s # {}, s \ {Pick(s)} \in A PROVE s \in A
  <2> DEFINE p == Pick(s)
             q == s \ {p}
  <2>1. p \in s /\ p \in Int /\ s = q \cup {p} /\ q \subseteq Int
    BY <1>2 DEF Pick
  <2>2. q # {} => /\ \E x \in q : \A y \in q : x <= y
                  /\ \E x \in q : \A y \in q : x >= y
    BY <1>2
  <2> HIDE DEF p, q
  <2>3. CASE q = {}
    <3>1. s = {p} /\ p <= p /\ p >= p
      BY <2>1, <2>3
    <3> QED
      BY <3>1
  <2>4. CASE q # {}
    <3>1. PICK a \in q : \A y \in q : a <= y
      BY <2>2, <2>4
    <3>2. PICK b \in q : \A y \in q : b >= y
      BY <2>2, <2>4
    <3>3. \E x \in s : \A y \in s : x <= y
      <4>1. CASE a <= p
        BY <2>1, <3>1, <4>1
      <4>2. CASE p <= a
        BY <2>1, <3>1, <4>2
      <4> QED
        BY <2>1, <4>1, <4>2
    <3>4. \E x \in s : \A y \in s : x >= y
      <4>1. CASE b >= p
        BY <2>1, <3>2, <4>1
      <4>2. CASE p >= b
        BY <2>1, <3>2, <4>2
      <4> QED
        BY <2>1, <4>1, <4>2
    <3> QED
      BY <3>3, <3>4
  <2> QED
    BY <2>3, <2>4
<1>3. T \in A
  <2> HIDE DEF A
  <2>1. \A s \in SUBSET T : s \in A
    BY <1>1, <1>2, SumInduction
  <2> QED
    BY <2>1
<1>4. Min(T) \in T /\ \A y \in T : Min(T) <= y
  BY <1>3 DEF Min
<1>5. Max(T) \in T /\ \A y \in T : Max(T) >= y
  BY <1>3 DEF Max
<1>6. \A y \in T : y <= Max(T)
  <2>1. \A y \in T : y \in Int
    OBVIOUS
  <2> QED
    BY <1>5, <2>1
<1> QED
  BY <1>4, <1>5, <1>6

\* What is in a window is from the store.
LEMMA WindowFacts ==
  ASSUME NEW all \in Seq(Sample), NEW k
  PROVE  window(all, k) \in Seq(ToSet(all))
<1> DEFINE S == DOMAIN all
           Y == Seq(ToSet(all))
           p == [s \in SUBSET S |-> Max(s)]
           Body(h) == [s \in SUBSET S |->
                         IF s = {} THEN <<>>
                         ELSE IF Recent(all[Max(s)], now - k)
                              THEN Append(h[s \ {Max(s)}], all[Max(s)])
                              ELSE h[s \ {Max(s)}]]
           F == CHOOSE h : h = Body(h)
           c == [q \in S \X Y |-> IF Recent(all[q[1]], now - k)
                                  THEN Append(q[2], all[q[1]]) ELSE q[2]]
<1>1. S = 1..Len(all) /\ Len(all) \in Nat /\ S \subseteq Int
  OBVIOUS
<1>2. IsFiniteSet(S)
  BY <1>1, FS_Interval
<1>3. \A s \in SUBSET S : s # {} => Max(s) \in s
  <2>1. ASSUME NEW s \in SUBSET S, s # {} PROVE Max(s) \in s
    <3>1. s \subseteq Int /\ IsFiniteSet(s)
      BY <1>1, <1>2, FS_Subset
    <3> QED
      BY <2>1, <3>1, Extremes
  <2> QED
    BY <2>1
<1>4. Chooses(p, S) /\ \A s \in SUBSET S : p[s] = Max(s)
  BY <1>3 DEF Chooses
<1>5. \A i \in S : all[i] \in ToSet(all)
  BY DEF ToSet
<1>6. <<>> \in Y /\ \A y \in Y, i \in S : Append(y, all[i]) \in Y
  BY <1>5
<1>7. window(all, k) = F[S]
  BY DEF window, FoldLeft, MapThenFoldSet
<1>8. /\ c \in [S \X Y -> Y]
      /\ \A i \in S, y \in Y :
           c[<<i, y>>] = IF Recent(all[i], now - k) THEN Append(y, all[i]) ELSE y
  <2> HIDE DEF Y, S
  <2> QED
    BY <1>6
<1> HIDE DEF S, Y, p, c
<1>9. PICK f \in [SUBSET S -> Y] : IsFold(f, SUBSET S, p, <<>>, c)
  BY <1>2, <1>4, <1>6, <1>8, FoldExists
<1>10. f = Body(f)
  <2>1. ASSUME NEW s \in SUBSET S, s # {}
        PROVE  f[s] = IF Recent(all[Max(s)], now - k)
                      THEN Append(f[s \ {Max(s)}], all[Max(s)]) ELSE f[s \ {Max(s)}]
    <3>1. p[s] = Max(s) /\ Max(s) \in S /\ s \ {Max(s)} \in SUBSET S
      BY <1>3, <1>4, <2>1
    <3>2. f[s] = c[<<Max(s), f[s \ {Max(s)}]>>]
      BY <1>9, <2>1, <3>1 DEF IsFold
    <3> QED
      BY <1>8, <3>1, <3>2
  <2>2. f[{}] = <<>>
    BY <1>9 DEF IsFold
  <2> QED
    BY <2>1, <2>2
<1>11. F = Body(F)
  BY <1>10
<1> HIDE DEF F
<1> DEFINE A == {s \in SUBSET S : F[s] \in Y}
<1>12. {} \in A
  BY <1>6, <1>11
<1>13. ASSUME NEW s \in SUBSET S, s # {}, s \ {p[s]} \in A PROVE s \in A
  <2>1. Max(s) \in S /\ F[s \ {Max(s)}] \in Y
    BY <1>3, <1>4, <1>13
  <2>2. F[s] = IF Recent(all[Max(s)], now - k)
               THEN Append(F[s \ {Max(s)}], all[Max(s)]) ELSE F[s \ {Max(s)}]
    BY <1>11, <1>13
  <2> QED
    BY <1>6, <2>1, <2>2
<1> HIDE DEF A
<1>14. S \in A
  <2>1. \A s \in SUBSET S : s # {} /\ s \ {p[s]} \in A => s \in A
    BY <1>13
  <2>2. \A s \in SUBSET S : s \in A
    BY <1>2, <1>4, <1>12, <2>1, SetInSet
  <2> QED
    BY <2>2
<1> QED
  BY <1>7, <1>14 DEF A, Y

\* The values and the timestamps of a window of numbers have extremes.
LEMMA NumericFacts ==
  ASSUME NEW samples \in Seq(Sample), samples # <<>>, Numeric(samples)
  PROVE  LET T == Times(samples)
             R == ValuesIn(samples) IN
         /\ \A s \in ToSet(samples) :
              s.ts \in Int /\ s.ts \in T /\ s.value \in Int /\ s.value \in R
         /\ T \subseteq Int /\ Min(T) \in T /\ Max(T) \in T
         /\ \A y \in T : Min(T) <= y /\ y <= Max(T)
         /\ R \subseteq Int /\ Min(R) \in R /\ Max(R) \in R
         /\ \A y \in R : Min(R) <= y /\ y <= Max(R)
<1> DEFINE D == DOMAIN samples
           T == Times(samples)
           R == ValuesIn(samples)
           f == [i \in D |-> samples[i].ts]
           g == [i \in D |-> samples[i].value]
<1>1. D = 1..Len(samples) /\ Len(samples) \in Nat /\ Len(samples) # 0
  OBVIOUS
<1>2. IsFiniteSet(D) /\ 1 \in D
  BY <1>1, FS_Interval
<1>3. \A s \in ToSet(samples) : s.ts \in Int /\ s.ts \in T /\ s.value \in Int /\ s.value \in R
  BY DEF Numeric, Times, ValuesIn
<1>4. T = {f[i] : i \in D} /\ R = {g[i] : i \in D}
  BY DEF Times, ValuesIn, ToSet
<1>5. T # {} /\ R # {}
  BY <1>2, <1>4
<1>6. IsFiniteSet(T) /\ IsFiniteSet(R)
  <2>1. f \in Surjection(D, T) /\ g \in Surjection(D, R)
    <3> HIDE DEF T, R, D
    <3> QED
      BY <1>4 DEF Surjection
  <2> HIDE DEF f, g, T, R, D
  <2> QED
    BY <1>2, <2>1, FS_Surjection
<1>7. T \subseteq Int /\ R \subseteq Int
  BY <1>3 DEF Times, ValuesIn
<1> HIDE DEF T, R
<1> QED
  BY <1>3, <1>5, <1>6, <1>7, Extremes DEF T, R

\* Every weight is positive, and the later of two samples has the larger one.
LEMMA WeightFacts ==
  ASSUME NEW samples \in Seq(Sample), samples # <<>>, Numeric(samples)
  PROVE  /\ \A s \in ToSet(samples) : Weight(samples, s) \in Int /\ Weight(samples, s) > 0
         /\ \A s, t \in ToSet(samples) :
              /\ s.ts < t.ts => Weight(samples, s) < Weight(samples, t)
              /\ s.ts <= t.ts => Weight(samples, s) <= Weight(samples, t)
<1> DEFINE n == Len(samples)
           T == Times(samples)
<1>1. n \in Nat /\ n >= 1 /\ DOMAIN samples = 1..n
  <2>1. n \in Nat /\ n # 0 /\ DOMAIN samples = 1..n
    OBVIOUS
  <2> QED
    BY <2>1
<1>3. \A s \in ToSet(samples) : s.ts \in Int /\ s.ts \in T
  BY NumericFacts
<1>4. T \subseteq Int
  BY NumericFacts
<1>5. /\ Min(T) \in T /\ \A y \in T : Min(T) <= y
      /\ Max(T) \in T /\ \A y \in T : y <= Max(T)
  BY NumericFacts
<1>6. Min(T) \in Int /\ Max(T) \in Int /\ Min(T) <= Max(T)
  BY <1>4, <1>5
<1>7. Span(samples) \in Int /\ Span(samples) > 0
  <2>1. CASE Cardinality(T) = 1
    BY <2>1 DEF Span
  <2>2. CASE Cardinality(T) # 1
    <3>1. Min(T) # Max(T)
      <4> SUFFICES ASSUME Min(T) = Max(T) PROVE FALSE
        OBVIOUS
      <4> HIDE DEF T
      <4>1. \A y \in T : y = Min(T)
        <5>1. \A y \in T : y \in Int /\ Min(T) <= y /\ y <= Min(T)
          BY <1>4, <1>5
        <5> QED
          BY <1>6, <5>1
      <4>2. T = {Min(T)}
        BY <1>5, <4>1
      <4>3. Cardinality(T) = 1
        BY <4>2, FS_Singleton
      <4> QED
        BY <2>2, <4>3
    <3>2. Span(samples) = Max(T) - Min(T)
      BY <2>2 DEF Span
    <3> QED
      BY <1>6, <3>1, <3>2
  <2> QED
    BY <2>1, <2>2
<1>8. \A s \in ToSet(samples) :
        /\ Weight(samples, s) = (n - 1) * (s.ts - Min(T)) + Span(samples)
        /\ s.ts \in Int /\ s.ts >= Min(T)
  BY <1>3, <1>5, <1>6 DEF Weight
<1>9. \A s, t \in ToSet(samples) : s.ts < t.ts => n - 1 > 0
  <2> SUFFICES ASSUME NEW s \in ToSet(samples), NEW t \in ToSet(samples),
                      s.ts < t.ts, ~(n - 1 > 0)
               PROVE  FALSE
    OBVIOUS
  <2>1. n = 1
    BY <1>1
  <2>2. s = samples[1] /\ t = samples[1]
    BY <1>1, <2>1 DEF ToSet
  <2>3. s.ts \in Int /\ s.ts = t.ts
    BY <1>8, <2>2
  <2> QED
    BY <2>3
<1> DEFINE lo == Min(T)
           span == Span(samples)
<1>10. lo \in Int /\ span \in Int /\ span > 0 /\ n - 1 \in Nat
  BY <1>1, <1>6, <1>7
<1> HIDE DEF lo, span, n
<1>11. \A x, y \in Int :
         /\ x >= lo => (n - 1) * (x - lo) + span \in Int /\ (n - 1) * (x - lo) + span > 0
         /\ x <= y => (n - 1) * (x - lo) + span <= (n - 1) * (y - lo) + span
         /\ x < y /\ n - 1 > 0 => (n - 1) * (x - lo) + span < (n - 1) * (y - lo) + span
  <2> SUFFICES ASSUME NEW x \in Int, NEW y \in Int
               PROVE
         /\ x >= lo => (n - 1) * (x - lo) + span \in Int /\ (n - 1) * (x - lo) + span > 0
         /\ x <= y => (n - 1) * (x - lo) + span <= (n - 1) * (y - lo) + span
         /\ x < y /\ n - 1 > 0 => (n - 1) * (x - lo) + span < (n - 1) * (y - lo) + span
    OBVIOUS
  <2>1. PICK m \in Nat : m = n - 1
    BY <1>10
  <2>2. (m * (y - lo) + span) - (m * (x - lo) + span) = m * (y - x)
    BY <1>10
  <2>3. /\ x >= lo => m * (x - lo) >= 0
        /\ x <= y => m * (y - x) >= 0
        /\ x < y /\ m > 0 => m * (y - x) > 0
    BY <1>10
  <2>4. m * (x - lo) \in Int /\ m * (y - lo) \in Int /\ m * (y - x) \in Int
    BY <1>10
  <2>5. /\ x >= lo => m * (x - lo) + span \in Int /\ m * (x - lo) + span > 0
        /\ x <= y => m * (x - lo) + span <= m * (y - lo) + span
        /\ x < y /\ m > 0 => m * (x - lo) + span < m * (y - lo) + span
    BY <1>10, <2>2, <2>3, <2>4
  <2> QED
    BY <2>1, <2>5
<1>12. \A s \in ToSet(samples) :
         Weight(samples, s) = (n - 1) * (s.ts - lo) + span /\ s.ts \in Int /\ s.ts >= lo
  BY <1>8 DEF lo, span, n
<1>13. ASSUME NEW s \in ToSet(samples), NEW t \in ToSet(samples)
       PROVE  /\ s.ts < t.ts => Weight(samples, s) < Weight(samples, t)
              /\ s.ts <= t.ts => Weight(samples, s) <= Weight(samples, t)
  BY <1>9, <1>11, <1>12
<1>14. ASSUME NEW s \in ToSet(samples)
       PROVE  Weight(samples, s) \in Int /\ Weight(samples, s) > 0
  BY <1>11, <1>12
<1> QED
  BY <1>13, <1>14
-----------------------------------------------------------------------------
(* The weighted average *)

\* A window of the store, with what is known of a sample in it.
LEMMA StoreWindow ==
  ASSUME CollectionTypeOK, NEW k
  PROVE  /\ window(store, k) \in Seq(Sample)
         /\ ToSet(window(store, k)) \subseteq ToSet(store)
<1> DEFINE s == window(store, k)
<1>1. store \in Seq(Sample)
  BY DEF CollectionTypeOK
<1>2. s \in Seq(ToSet(store))
  BY <1>1, WindowFacts
<1> HIDE DEF s
<1>3. ToSet(store) \subseteq Sample
  BY <1>1 DEF ToSet
<1>4. s \in Seq(Sample)
  BY <1>2, <1>3
<1>5. ToSet(s) \subseteq ToSet(store)
  BY <1>2 DEF ToSet
<1> QED
  BY <1>4, <1>5 DEF s

\* The functions that are added up: weights, values and their products.
Weights(samples) == [i \in DOMAIN samples |-> Weight(samples, samples[i])]
ValuesAt(samples) == [i \in DOMAIN samples |-> samples[i].value]
Products(samples) == [i \in DOMAIN samples |-> Weights(samples)[i] * ValuesAt(samples)[i]]

\* Their types, and the bounds of a sample's position.
LEMMA WeightTypes ==
  ASSUME NEW samples \in Seq(Sample), samples # <<>>, Numeric(samples)
  PROVE  LET S == DOMAIN samples
             w == Weights(samples)
             v == ValuesAt(samples)
             a == Products(samples) IN
         /\ S = 1..Len(samples) /\ Len(samples) \in Nat /\ Len(samples) >= 1
         /\ IsFiniteSet(S) /\ Cardinality(S) = Len(samples)
         /\ w \in [S -> Int] /\ v \in [S -> Int] /\ a \in [S -> Int]
         /\ \A i \in S : /\ samples[i] \in ToSet(samples) /\ samples[i] \in Sample
                         /\ w[i] = Weight(samples, samples[i]) /\ w[i] > 0
                         /\ v[i] = samples[i].value /\ v[i] \in ValuesIn(samples)
                         /\ a[i] = w[i] * v[i]
<1> DEFINE S == DOMAIN samples
           w == Weights(samples)
           v == ValuesAt(samples)
           a == Products(samples)
<1>1. S = 1..Len(samples) /\ Len(samples) \in Nat /\ Len(samples) >= 1
  <2>1. Len(samples) \in Nat /\ Len(samples) # 0 /\ S = 1..Len(samples)
    OBVIOUS
  <2> QED
    BY <2>1
<1>2. IsFiniteSet(S) /\ Cardinality(S) = Len(samples)
  <2>1. PICK n \in Nat : n = Len(samples) /\ n >= 1
    BY <1>1
  <2>2. 1 \in Int /\ n \in Int /\ ~(1 > n) /\ n - 1 + 1 = n
    BY <2>1
  <2>3. IsFiniteSet(1..n) /\ Cardinality(1..n) = n
    BY <2>2, FS_Interval
  <2> QED
    BY <1>1, <2>1, <2>3
<1>3. \A i \in S : samples[i] \in ToSet(samples) /\ samples[i] \in Sample
  BY <1>1 DEF ToSet
<1>4. \A i \in S : /\ Weight(samples, samples[i]) \in Int
                   /\ Weight(samples, samples[i]) > 0
  BY <1>3, WeightFacts
<1>5. \A i \in S : w[i] = Weight(samples, samples[i]) /\ v[i] = samples[i].value
  BY DEF Weights, ValuesAt
<1>6. \A i \in S : a[i] = w[i] * v[i]
  BY DEF Products
<1>7. \A i \in S : v[i] \in ValuesIn(samples) /\ v[i] \in Int
  BY <1>3, <1>5, NumericFacts
<1>8. w \in [S -> Int]
  BY <1>4 DEF Weights
<1>9. v \in [S -> Int]
  <2>1. \A i \in S : samples[i].value \in Int
    BY <1>5, <1>7
  <2> QED
    BY <2>1 DEF ValuesAt
<1>10. a \in [S -> Int]
  <2>1. \A i \in S : Weights(samples)[i] * ValuesAt(samples)[i] \in Int
    BY <1>8, <1>9
  <2> QED
    BY <2>1 DEF Products
<1> HIDE DEF S, w, v, a
<1>11. \A i \in S : w[i] > 0
  BY <1>4, <1>5
<1> QED
  BY <1>1, <1>2, <1>3, <1>5, <1>6, <1>7, <1>8, <1>9, <1>10, <1>11 DEF S, w, v, a

\* What _weighted_avg returns for more than one sample: two sums.
LEMMA AverageSums ==
  ASSUME NEW samples \in Seq(Sample), samples # <<>>, Numeric(samples), Len(samples) # 1
  PROVE  \E fw, fa : /\ Sums(fw, Weights(samples), DOMAIN samples)
                     /\ Sums(fa, Products(samples), DOMAIN samples)
                     /\ weighted_avg(samples).num = fa[DOMAIN samples]
                     /\ weighted_avg(samples).den = fw[DOMAIN samples]
<1> DEFINE S == DOMAIN samples
           w == Weights(samples)
           a == Products(samples)
<1>1. /\ IsFiniteSet(S) /\ w \in [S -> Int] /\ a \in [S -> Int]
      /\ \A i \in S : a[i] = w[i] * samples[i].value
  BY WeightTypes
<1>2. DOMAIN w = S
  BY DEF Weights
<1>3. weighted_avg(samples) =
        [num |-> ProductSum(w, samples, DOMAIN w),
         den |-> MapThenSumSet(LAMBDA i : w[i], DOMAIN w)]
  BY DEF weighted_avg, Weights, ProductSum
<1> HIDE DEF w, a, S
<1>4. PICK fw : Sums(fw, w, S) /\ MapThenSumSet(LAMBDA i : w[i], S) = fw[S]
  BY <1>1, SumOfFunction
<1>5. PICK fa : Sums(fa, a, S) /\ ProductSum(w, samples, S) = fa[S]
  BY <1>1, SumOfProducts
<1>6. weighted_avg(samples) = [num |-> fa[S], den |-> fw[S]]
  BY <1>2, <1>3, <1>4, <1>5
<1>7. weighted_avg(samples).num = fa[S] /\ weighted_avg(samples).den = fw[S]
  BY <1>6
<1> QED
  BY <1>4, <1>5, <1>7 DEF w, a, S

\* An aggregate can be computed: its divisor is positive.
LEMMA DivisorPositive ==
  ASSUME NEW samples \in Seq(Sample), samples # <<>>, Numeric(samples)
  PROVE  weighted_avg(samples).den > 0
<1>1. CASE Len(samples) = 1
  <2>1. weighted_avg(samples) = [num |-> samples[1].value, den |-> 1]
    BY <1>1 DEF weighted_avg
  <2>2. weighted_avg(samples).den = 1
    BY <2>1
  <2> QED
    BY <2>2
<1>2. CASE Len(samples) # 1
  <2> DEFINE S == DOMAIN samples
             w == Weights(samples)
  <2>1. PICK fw, fa : Sums(fw, w, S) /\ weighted_avg(samples).den = fw[S]
    BY <1>2, AverageSums
  <2>2. /\ IsFiniteSet(S) /\ w \in [S -> Int] /\ \A i \in S : w[i] > 0
        /\ S = 1..Len(samples) /\ Len(samples) \in Nat /\ Len(samples) >= 1
    BY WeightTypes
  <2>3. S # {}
    BY <2>2
  <2> HIDE DEF S, w
  <2>4. fw[S] > 0
    BY <2>1, <2>2, <2>3, SumPositive
  <2> QED
    BY <2>1, <2>4
<1> QED
  BY <1>1, <1>2

\* WeightsRankByRecency holds of every window of numbers: also when all
\* timestamps are equal, and in any order of them (_weighted_avg divides by the
\* span of the timestamps and by the sum of the weights).
THEOREM WeightsRank == CollectionSpec => []WeightsRankByRecency
<1>1. CollectionTypeOK => WeightsRankByRecency
  <2> SUFFICES ASSUME CollectionTypeOK, NEW k \in Windows, window(store, k) # <<>>,
                      Numeric(window(store, k))
               PROVE  LET samples == window(store, k) IN
                      /\ weighted_avg(samples).den > 0
                      /\ \A s, t \in ToSet(samples) :
                           /\ Weight(samples, s) > 0
                           /\ s.ts < t.ts => Weight(samples, s) < Weight(samples, t)
    BY DEF WeightsRankByRecency
  <2> DEFINE samples == window(store, k)
  <2>1. samples \in Seq(Sample) /\ samples # <<>> /\ Numeric(samples)
    BY StoreWindow
  <2> HIDE DEF samples
  <2>2. weighted_avg(samples).den > 0
    BY <2>1, DivisorPositive
  <2>3. \A s, t \in ToSet(samples) :
          /\ Weight(samples, s) > 0
          /\ s.ts < t.ts => Weight(samples, s) < Weight(samples, t)
    BY <2>1, WeightFacts
  <2> QED
    BY <2>2, <2>3 DEF samples
<1> QED
  BY <1>1, CollectionTypeCorrect, PTL

\* The sum over a single position.
LEMMA SumOfOne ==
  ASSUME NEW g, g \in [{1} -> Int], NEW f, Sums(f, g, {1})
  PROVE  f[{1}] = g[1]
<1>1. Pick({1}) = 1
  BY DEF Pick
<1>2. f[{1}] = g[1] + f[{1} \ {1}]
  <2>1. {1} \in SUBSET {1} /\ {1} # {}
    OBVIOUS
  <2> QED
    BY <1>1, <2>1 DEF Sums
<1>3. {1} \ {1} = {} /\ f[{}] = 0
  BY DEF Sums
<1> QED
  BY <1>2, <1>3

\* The weights go up with time, and so do the values or they go down.
LEMMA Together ==
  ASSUME NEW samples \in Seq(Sample), samples # <<>>, Numeric(samples)
  PROVE  LET w == Weights(samples)
             v == ValuesAt(samples) IN
         /\ Rises(samples) =>
              \A i, j \in DOMAIN samples : (w[i] - w[j]) * (v[i] - v[j]) >= 0
         /\ Falls(samples) =>
              \A i, j \in DOMAIN samples : (w[i] - w[j]) * ((0 - v[i]) - (0 - v[j])) >= 0
<1> DEFINE S == DOMAIN samples
           w == Weights(samples)
           v == ValuesAt(samples)
<1>1. \A i \in S : /\ samples[i] \in ToSet(samples)
                   /\ w[i] = Weight(samples, samples[i]) /\ v[i] = samples[i].value
                   /\ w[i] \in Int /\ v[i] \in Int
                   /\ samples[i].ts \in Int
  BY WeightTypes, NumericFacts
<1>2. \A i, j \in S :
        /\ samples[i].ts < samples[j].ts => w[i] < w[j]
        /\ samples[i].ts <= samples[j].ts => w[i] <= w[j]
  BY <1>1, WeightFacts
<1>3. \A b, c, d, e \in Int :
        /\ b <= c /\ d <= e => (b - c) * (d - e) >= 0 /\ (c - b) * (e - d) >= 0
        /\ b = c => (b - c) * (d - e) >= 0
  <2> SUFFICES ASSUME NEW b \in Int, NEW c \in Int, NEW d \in Int, NEW e \in Int
               PROVE  /\ b <= c /\ d <= e => (b - c) * (d - e) >= 0 /\ (c - b) * (e - d) >= 0
                      /\ b = c => (b - c) * (d - e) >= 0
    OBVIOUS
  <2>1. (b - c) * (d - e) = (c - b) * (e - d)
    OBVIOUS
  <2>2. b <= c /\ d <= e => (c - b) * (e - d) >= 0
    OBVIOUS
  <2>3. b = c => (b - c) * (d - e) = 0
    OBVIOUS
  <2> QED
    BY <2>1, <2>2, <2>3
<1> HIDE DEF S, w, v
<1>4. ASSUME Rises(samples), NEW i \in S, NEW j \in S
      PROVE  (w[i] - w[j]) * (v[i] - v[j]) >= 0
  <2>1. CASE samples[i].ts < samples[j].ts
    <3>1. w[i] <= w[j] /\ v[i] <= v[j]
      BY <1>1, <1>2, <1>4, <2>1 DEF Rises
    <3> QED
      BY <1>1, <1>3, <3>1
  <2>2. CASE samples[j].ts < samples[i].ts
    <3>1. w[j] <= w[i] /\ v[j] <= v[i]
      BY <1>1, <1>2, <1>4, <2>2 DEF Rises
    <3> QED
      BY <1>1, <1>3, <3>1
  <2>3. CASE samples[i].ts = samples[j].ts
    <3>1. w[i] = w[j]
      BY <1>1, <1>2, <2>3
    <3> QED
      BY <1>1, <1>3, <3>1
  <2> QED
    BY <1>1, <2>1, <2>2, <2>3
<1>5. ASSUME Falls(samples), NEW i \in S, NEW j \in S
      PROVE  (w[i] - w[j]) * ((0 - v[i]) - (0 - v[j])) >= 0
  <2>0. 0 - v[i] \in Int /\ 0 - v[j] \in Int
    BY <1>1
  <2>1. CASE samples[i].ts < samples[j].ts
    <3>1. w[i] <= w[j] /\ v[i] >= v[j]
      BY <1>1, <1>2, <1>5, <2>1 DEF Falls
    <3>2. 0 - v[i] <= 0 - v[j]
      BY <1>1, <3>1
    <3> QED
      BY <1>1, <1>3, <2>0, <3>1, <3>2
  <2>2. CASE samples[j].ts < samples[i].ts
    <3>1. w[j] <= w[i] /\ v[j] >= v[i]
      BY <1>1, <1>2, <1>5, <2>2 DEF Falls
    <3>2. 0 - v[j] <= 0 - v[i]
      BY <1>1, <3>1
    <3> QED
      BY <1>1, <1>3, <2>0, <3>1, <3>2
  <2>3. CASE samples[i].ts = samples[j].ts
    <3>1. w[i] = w[j]
      BY <1>1, <1>2, <2>3
    <3> QED
      BY <1>1, <1>3, <2>0, <3>1
  <2> QED
    BY <1>1, <2>1, <2>2, <2>3
<1> QED
  BY <1>4, <1>5 DEF S, w, v

\* The average of one sample is its value.
LEMMA AverageOfOne ==
  ASSUME NEW samples \in Seq(Sample), Len(samples) = 1, Numeric(samples)
  PROVE  LET avg == weighted_avg(samples) IN
         /\ avg.den = 1 /\ avg.num \in ValuesIn(samples) /\ avg.num \in Int
         /\ ValueSum(samples, DOMAIN samples) = avg.num
<1> DEFINE S == DOMAIN samples
           v == ValuesAt(samples)
<1>0. samples # <<>>
  OBVIOUS
<1>1. S = {1}
  OBVIOUS
<1>2. /\ IsFiniteSet(S) /\ v \in [S -> Int]
      /\ \A i \in S : v[i] = samples[i].value /\ v[i] \in ValuesIn(samples)
  BY <1>0, WeightTypes
<1>3. weighted_avg(samples) = [num |-> samples[1].value, den |-> 1]
  BY DEF weighted_avg
<1>4. weighted_avg(samples).num = samples[1].value /\ weighted_avg(samples).den = 1
  BY <1>3
<1> HIDE DEF S, v
<1>5. PICK f : Sums(f, v, S) /\ ValueSum(samples, S) = f[S]
  BY <1>2, SumOfValues
<1>6. 1 \in S /\ v \in [{1} -> Int] /\ Sums(f, v, {1})
  BY <1>1, <1>2, <1>5, Zenon
<1>7. f[{1}] = v[1]
  BY <1>6, SumOfOne
<1>8. v[1] = samples[1].value /\ v[1] \in ValuesIn(samples) /\ v[1] \in Int
  BY <1>2, <1>6
<1> QED
  BY <1>1, <1>4, <1>5, <1>7, <1>8 DEF S

\* The average is between the extremes of the values, and on the newer ones'
\* side of the mean.
LEMMA AverageFacts ==
  ASSUME NEW samples \in Seq(Sample), samples # <<>>, Numeric(samples)
  PROVE  LET avg == weighted_avg(samples)
             sum == ValueSum(samples, DOMAIN samples) IN
         /\ avg.den * Min(ValuesIn(samples)) <= avg.num
         /\ avg.num <= avg.den * Max(ValuesIn(samples))
         /\ Rises(samples) => avg.num * Len(samples) >= avg.den * sum
         /\ Falls(samples) => avg.num * Len(samples) <= avg.den * sum
<1> DEFINE S == DOMAIN samples
           w == Weights(samples)
           v == ValuesAt(samples)
           a == Products(samples)
           lo == Min(ValuesIn(samples))
           hi == Max(ValuesIn(samples))
<1>1. /\ Len(samples) \in Nat /\ Len(samples) >= 1
      /\ IsFiniteSet(S) /\ Cardinality(S) = Len(samples)
      /\ w \in [S -> Int] /\ v \in [S -> Int] /\ a \in [S -> Int]
      /\ \A i \in S : /\ w[i] > 0 /\ v[i] = samples[i].value
                      /\ v[i] \in ValuesIn(samples) /\ a[i] = w[i] * v[i]
  BY WeightTypes
<1>2. /\ lo \in Int /\ hi \in Int
      /\ \A y \in ValuesIn(samples) : lo <= y /\ y <= hi
  BY NumericFacts
<1>3. CASE Len(samples) = 1
  <2> DEFINE num == weighted_avg(samples).num
             sum == ValueSum(samples, DOMAIN samples)
  <2>1. /\ weighted_avg(samples).den = 1 /\ num \in Int /\ sum = num
        /\ num \in ValuesIn(samples)
    BY <1>3, AverageOfOne
  <2>2. lo <= num /\ num <= hi
    BY <1>2, <2>1
  <2> HIDE DEF num, sum, lo, hi
  <2>3. 1 * lo <= num /\ num <= 1 * hi /\ num * 1 >= 1 * sum /\ num * 1 <= 1 * sum
    BY <1>2, <2>1, <2>2
  <2> QED
    BY <1>3, <2>1, <2>3 DEF num, sum, lo, hi
<1>4. CASE Len(samples) # 1
  <2>1. PICK fw, fa : /\ Sums(fw, w, S) /\ Sums(fa, a, S)
                      /\ weighted_avg(samples).num = fa[S]
                      /\ weighted_avg(samples).den = fw[S]
    BY <1>4, AverageSums
  <2>2. PICK fv : Sums(fv, v, S) /\ ValueSum(samples, S) = fv[S]
    <3> HIDE DEF v, S
    <3> QED
      BY <1>1, SumOfValues
  <2>3. /\ Rises(samples) => \A i, j \in S : (w[i] - w[j]) * (v[i] - v[j]) >= 0
        /\ Falls(samples) =>
             \A i, j \in S : (w[i] - w[j]) * ((0 - v[i]) - (0 - v[j])) >= 0
    BY Together
  <2> DEFINE nv == Negated(v)
             na == Negated(a)
             nfv == Negated(fv)
             nfa == Negated(fa)
  <2> HIDE DEF S, w, v, a, lo, hi
  <2>4. /\ nv \in [S -> Int] /\ \A i \in S : nv[i] = 0 - v[i]
        /\ Sums(nfv, nv, S) /\ fv[S] \in Int /\ nfv[S] = 0 - fv[S]
    <3>1. v \in [S -> Int] /\ Sums(fv, v, S)
      BY <1>1, <2>2, Zenon
    <3>2. /\ Negated(v) \in [S -> Int] /\ \A i \in S : Negated(v)[i] = 0 - v[i]
          /\ Sums(Negated(fv), Negated(v), S)
          /\ \A s \in SUBSET S : fv[s] \in Int /\ Negated(fv)[s] = 0 - fv[s]
      BY <3>1, SumNegated, Zenon
    <3> QED
      BY <3>2
  <2>5. /\ na \in [S -> Int] /\ \A i \in S : na[i] = 0 - a[i]
        /\ Sums(nfa, na, S) /\ fa[S] \in Int /\ nfa[S] = 0 - fa[S]
    <3>1. a \in [S -> Int] /\ Sums(fa, a, S)
      BY <1>1, <2>1, Zenon
    <3>2. /\ Negated(a) \in [S -> Int] /\ \A i \in S : Negated(a)[i] = 0 - a[i]
          /\ Sums(Negated(fa), Negated(a), S)
          /\ \A s \in SUBSET S : fa[s] \in Int /\ Negated(fa)[s] = 0 - fa[s]
      BY <3>1, SumNegated, Zenon
    <3> QED
      BY <3>2
  <2> HIDE DEF nv, na, nfv, nfa
  <2>6. \A i \in S : w[i] \in Int /\ v[i] \in Int /\ w[i] >= 0
    <3>1. \A i \in S : w[i] \in Int /\ v[i] \in Int /\ w[i] > 0
      BY <1>1
    <3> QED
      BY <3>1
  <2>7. \A i \in S : na[i] = w[i] * nv[i]
    <3> SUFFICES ASSUME NEW i \in S PROVE na[i] = w[i] * nv[i]
      OBVIOUS
    <3>1. na[i] = 0 - w[i] * v[i] /\ nv[i] = 0 - v[i]
      BY <1>1, <2>4, <2>5
    <3>2. \A x, y \in Int : 0 - x * y = x * (0 - y)
      OBVIOUS
    <3> QED
      BY <2>6, <3>1, <3>2
  <2>8. fw[S] \in Int
    BY <2>1 DEF Sums
  <2>9. fa[S] <= fw[S] * hi
    <3>1. \A i \in S : w[i] >= 0 /\ v[i] <= hi
      BY <1>1, <1>2, <2>6
    <3>2. \A i \in S : a[i] = w[i] * v[i]
      BY <1>1
    <3>3. \A s \in SUBSET S : fa[s] <= fw[s] * hi
      BY <1>1, <1>2, <2>1, <3>1, <3>2, SumBounded
    <3> QED
      BY <3>3
  <2>10. fw[S] * lo <= fa[S]
    <3>1. 0 - lo \in Int /\ \A i \in S : w[i] >= 0 /\ nv[i] <= 0 - lo
      <4>1. \A i \in S : lo <= v[i] /\ nv[i] = 0 - v[i]
        BY <1>1, <1>2, <2>4
      <4> QED
        BY <1>2, <2>6, <4>1
    <3>2. \A s \in SUBSET S : nfa[s] <= fw[s] * (0 - lo)
      BY <1>1, <2>1, <2>4, <2>5, <2>7, <3>1, SumBounded
    <3>3. 0 - fa[S] <= fw[S] * (0 - lo)
      BY <2>5, <3>2
    <3>4. \A x, y, z \in Int : 0 - x <= y * (0 - z) => y * z <= x
      <4> SUFFICES ASSUME NEW x \in Int, NEW y \in Int, NEW z \in Int,
                          0 - x <= y * (0 - z)
                   PROVE  y * z <= x
        OBVIOUS
      <4>1. y * (0 - z) = 0 - y * z
        OBVIOUS
      <4> QED
        BY <4>1
    <3> QED
      BY <1>2, <2>5, <2>8, <3>3, <3>4
  <2>11. ASSUME Rises(samples) PROVE fa[S] * Cardinality(S) >= fw[S] * fv[S]
    <3>1. \A i, j \in S : (w[i] - w[j]) * (v[i] - v[j]) >= 0
      BY <2>3, <2>11
    <3>2. \A i \in S : a[i] = w[i] * v[i]
      BY <1>1
    <3>3. \A s \in SUBSET S : fa[s] * Cardinality(s) >= fw[s] * fv[s]
      BY <1>1, <2>1, <2>2, <3>1, <3>2, Chebyshev
    <3> QED
      BY <3>3
  <2>12. ASSUME Falls(samples) PROVE fa[S] * Cardinality(S) <= fw[S] * fv[S]
    <3>1. \A i, j \in S : (w[i] - w[j]) * (nv[i] - nv[j]) >= 0
      BY <2>3, <2>4, <2>12
    <3>2. \A s \in SUBSET S : nfa[s] * Cardinality(s) >= fw[s] * nfv[s]
      BY <1>1, <2>1, <2>4, <2>5, <2>7, <3>1, Chebyshev
    <3>3. (0 - fa[S]) * Cardinality(S) >= fw[S] * (0 - fv[S])
      BY <2>4, <2>5, <3>2
    <3>4. \A x, y, z, c \in Int : (0 - x) * c >= y * (0 - z) => x * c <= y * z
      <4> SUFFICES ASSUME NEW x \in Int, NEW y \in Int, NEW z \in Int, NEW c \in Int,
                          (0 - x) * c >= y * (0 - z)
                   PROVE  x * c <= y * z
        OBVIOUS
      <4>1. (0 - x) * c = 0 - x * c /\ y * (0 - z) = 0 - y * z
        OBVIOUS
      <4> QED
        BY <4>1
    <3>5. Cardinality(S) \in Int
      BY <1>1
    <3> QED
      BY <2>4, <2>5, <2>8, <3>3, <3>4, <3>5
  <2> QED
    BY <1>1, <2>1, <2>2, <2>9, <2>10, <2>11, <2>12, Zenon DEF S, lo, hi
<1> QED
  BY <1>3, <1>4

\* FavoursRecent holds: weights are positive, so the average that _weighted_avg
\* computes is between the extremes, and by Chebyshev's inequality it is on the
\* newer readings' side of the mean, whatever the threads that stored the
\* readings have done to their order.
THEOREM RecentFavoured == CollectionSpec => []FavoursRecent
<1>1. CollectionTypeOK => FavoursRecent
  <2> SUFFICES ASSUME CollectionTypeOK, NEW k \in Windows, window(store, k) # <<>>,
                      Numeric(window(store, k))
               PROVE  LET samples == window(store, k)
                          avg == weighted_avg(samples)
                          sum == ValueSum(samples, DOMAIN samples) IN
                      /\ avg.den * Min(ValuesIn(samples)) <= avg.num
                      /\ avg.num <= avg.den * Max(ValuesIn(samples))
                      /\ Rises(samples) => avg.num * Len(samples) >= avg.den * sum
                      /\ Falls(samples) => avg.num * Len(samples) <= avg.den * sum
    BY DEF FavoursRecent, ValueSum
  <2> QED
    BY StoreWindow, AverageFacts
<1> QED
  BY <1>1, CollectionTypeCorrect, PTL
=============================================================================
