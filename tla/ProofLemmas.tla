---------------------------- MODULE ProofLemmas ----------------------------
(***************************************************************************)
(* Facts about numbers and sets that the proofs of several components use. *)
(***************************************************************************)
EXTENDS Integers, Sequences, FiniteSets, FiniteSetsExt, SequencesExt, FiniteSetTheorems, WellFoundedInduction,
        TLAPS

\* A product keeps the order of its first factors when the second is not negative.
LEMMA ProductsKeepOrder ==
  ASSUME NEW a \in Int, NEW b \in Int, a <= b, NEW n \in Nat
  PROVE  a * n <= b * n
<1>1. b - a \in Nat
  OBVIOUS
<1>2. (b - a) * n \in Nat
  BY <1>1
<1>3. (b - a) * n = b * n - a * n /\ b * n \in Int /\ a * n \in Int
  OBVIOUS
<1> QED BY <1>2, <1>3

\* A set of natural numbers that is not empty has a least element: what stands for
\* induction here, on the first place where a claim about a sequence would fail.
LEMMA LeastNatural ==
  ASSUME NEW S \in SUBSET Nat, S # {}
  PROVE  \E m \in S : \A n \in S : m <= n
<1> DEFINE R == {xy \in Nat \X Nat : xy[1] < xy[2]}
<1>1. R = OpToRel(<, Nat)
  BY Zenon DEF OpToRel
<1>2. IsWellFoundedOn(R, Nat)
  BY <1>1, NatLessThanWellFounded, Zenon
<1> HIDE DEF R
<1>3. PICK m \in S : \A n \in S : ~ (<<n, m>> \in R)
  BY <1>2, WFMin
<1>4. \A n \in S : ~ (n < m)
  BY <1>3 DEF R
<1> QED BY <1>4

\* What FiniteSetsExt takes for the least and the greatest are that.
LEMMA MaxIsOne ==
  ASSUME NEW S, NEW m \in S, \A y \in S : m >= y
  PROVE  Max(S) \in S /\ \A y \in S : Max(S) >= y
  BY DEF Max

LEMMA MinIsLeast ==
  ASSUME NEW S \in SUBSET Nat, S # {}
  PROVE  Min(S) \in S /\ \A x \in S : Min(S) <= x
<1>1. \E m \in S : \A n \in S : m <= n
  BY LeastNatural
<1> QED BY <1>1 DEF Min

\* The greatest of bounded naturals is the least of their bounds.
LEMMA MaxIsGreatest ==
  ASSUME NEW b \in Nat, NEW S \in SUBSET (0..b), S # {}
  PROVE  Max(S) \in S /\ \A x \in S : x <= Max(S)
<1> DEFINE U == {u \in Nat : \A x \in S : x <= u}
<1>1. b \in U
  OBVIOUS
<1>2. U \in SUBSET Nat
  OBVIOUS
<1>3. PICK m \in U : \A u \in U : m <= u
  BY <1>1, <1>2, LeastNatural
<1>4. m \in Nat /\ \A x \in S : x <= m /\ x \in Nat
  BY <1>3
<1>5. m \in S
  <2> SUFFICES ASSUME m \notin S PROVE FALSE
    OBVIOUS
  <2>1. PICK y : y \in S
    OBVIOUS
  <2>2. m # 0
    BY <1>4, <2>1
  <2>3. m - 1 \in Nat /\ \A x \in S : x <= m - 1
    BY <1>4, <2>2
  <2>4. m - 1 \in U
    BY <2>3
  <2> HIDE DEF U
  <2> QED BY <1>3, <1>4, <2>4
<1>6. \E x \in S : \A y \in S : x >= y
  BY <1>4, <1>5
<1>7. Max(S) \in S /\ \A y \in S : Max(S) >= y
  BY <1>6 DEF Max
<1> QED BY <1>4, <1>7

\* A set no two elements of which differ has one element at most.
LEMMA AtMostOne ==
  ASSUME NEW S, \A x, y \in S : x = y
  PROVE  Cardinality(S) <= 1
<1>1. CASE S = {}
  <2>1. Cardinality(S) = 0
    BY <1>1, FS_EmptySet, Zenon
  <2> QED BY <2>1
<1>2. CASE S # {}
  <2>1. PICK x : S = {x}
    BY <1>2
  <2>2. Cardinality(S) = 1
    BY <2>1, FS_Singleton, Zenon
  <2> QED BY <2>2
<1> QED BY <1>1, <1>2

\* A sum of naturals as a number of things: count[x] of them for each x.
Units(count) == UNION {{x} \X (1..count[x]) : x \in DOMAIN count}

LEMMA UnitsAreFinite ==
  ASSUME NEW S, IsFiniteSet(S), NEW count \in [S -> Nat]
  PROVE  /\ IsFiniteSet(Units(count))
         /\ Cardinality(Units(count)) \in Nat
<1> DEFINE T == {{x} \X (1..count[x]) : x \in S}
           g == [x \in S |-> {x} \X (1..count[x])]
<1>1. g \in Surjection(S, T)
  <2>1. g \in [S -> T]
    OBVIOUS
  <2>2. \A t \in T : \E x \in S : g[x] = t
    OBVIOUS
  <2> HIDE DEF g, T
  <2> QED BY <2>1, <2>2 DEF Surjection
<1>2. IsFiniteSet(T)
  <2> HIDE DEF g, T
  <2> QED BY <1>1, FS_Surjection
<1>3. ASSUME NEW t \in T PROVE IsFiniteSet(t)
  <2>1. PICK x \in S : t = {x} \X (1..count[x])
    OBVIOUS
  <2>2. IsFiniteSet({x}) /\ IsFiniteSet(1..count[x])
    <3>1. IsFiniteSet({x})
      BY FS_Singleton, Zenon
    <3>2. count[x] \in Int /\ 1 \in Int
      OBVIOUS
    <3>3. IsFiniteSet(1..count[x])
      BY <3>2, FS_Interval
    <3> QED BY <3>1, <3>3
  <2>3. IsFiniteSet({x} \X (1..count[x]))
    BY <2>2, FS_Product
  <2> QED BY <2>1, <2>3, Zenon
<1>4. IsFiniteSet(UNION T)
  <2> HIDE DEF T
  <2> QED BY <1>2, <1>3, FS_UNION
<1>5. Units(count) = UNION T
  BY DEF Units
<1>6. IsFiniteSet(Units(count))
  BY <1>4, <1>5, Zenon
<1> QED BY <1>6, FS_CardinalityType

-----------------------------------------------------------------------------
(* Recursion.  A recursive function is one of those that satisfy its equation, so *)
(* there must be one.  It is built by iteration; the step is a function, not an   *)
(* operator, so that these lemmas can be cited.                                   *)

\* Induction up to a bound, on a set.
LEMMA UpTo ==
  ASSUME NEW n \in Nat, NEW S, 0 \in S, \A k \in 1..n : k - 1 \in S => k \in S
  PROVE  \A k \in 0..n : k \in S
<1> DEFINE B == {k \in 0..n : k \notin S}
<1> SUFFICES ASSUME B # {} PROVE FALSE
  OBVIOUS
<1>1. B \in SUBSET Nat
  OBVIOUS
<1>2. PICK m \in B : \A k \in B : m <= k
  <2> HIDE DEF B
  <2> QED BY <1>1, LeastNatural
<1>3. m \in 0..n /\ m \notin S /\ m # 0
  BY <1>2
<1>4. m \in 1..n /\ m - 1 \in 0..n /\ ~ (m <= m - 1)
  BY <1>3
<1>5. m - 1 \notin B
  <2> HIDE DEF B
  <2> QED BY <1>2, <1>4
<1> QED BY <1>3, <1>4, <1>5

\* Induction without a bound.
LEMMA ForAll ==
  ASSUME NEW S, 0 \in S, \A k \in Nat : k \in S => k + 1 \in S
  PROVE  \A k \in Nat : k \in S
<1> SUFFICES ASSUME NEW n \in Nat PROVE n \in S
  OBVIOUS
<1>1. \A k \in 1..n : k - 1 \in S => k \in S
  <2> SUFFICES ASSUME NEW k \in 1..n, k - 1 \in S PROVE k \in S
    OBVIOUS
  <2>1. k - 1 \in Nat /\ (k - 1) + 1 = k
    OBVIOUS
  <2> QED BY <2>1
<1>2. n \in 0..n
  OBVIOUS
<1> QED BY <1>1, <1>2, UpTo

\* A finite set of naturals has a greatest element, by the number of its elements.
LEMMA FiniteHasGreatest ==
  ASSUME NEW S \in SUBSET Nat, IsFiniteSet(S), S # {}
  PROVE  Max(S) \in S /\ \A x \in S : x <= Max(S)
<1> DEFINE Bounded(T) == \E b \in Nat : \A x \in T : x <= b
           A == {n \in Nat : \A T \in SUBSET Nat : IsFiniteSet(T) /\ Cardinality(T) = n => Bounded(T)}
<1>1. 0 \in A
  <2> SUFFICES ASSUME NEW T \in SUBSET Nat, IsFiniteSet(T), Cardinality(T) = 0 PROVE Bounded(T)
    OBVIOUS
  <2>1. T = {}
    BY FS_EmptySet
  <2> QED BY <2>1
<1>2. ASSUME NEW n \in Nat, n \in A PROVE n + 1 \in A
  <2> SUFFICES ASSUME NEW T \in SUBSET Nat, IsFiniteSet(T), Cardinality(T) = n + 1 PROVE Bounded(T)
    OBVIOUS
  <2>1. PICK x : x \in T
    <3>1. T # {}
      BY FS_EmptySet
    <3> QED BY <3>1
  <2> DEFINE R == T \ {x}
  <2>2. IsFiniteSet(R) /\ Cardinality(R) = Cardinality(T) - 1
    BY <2>1, FS_RemoveElement
  <2>6. R \in SUBSET Nat
    OBVIOUS
  <2>3. PICK b \in Nat : \A y \in R : y <= b
    <3> HIDE DEF R
    <3>1. Cardinality(R) = n
      BY <2>2
    <3> QED BY <1>2, <2>2, <2>6, <3>1
  <2>4. CASE x <= b
    BY <2>3, <2>4
  <2>5. CASE ~ (x <= b)
    <3>1. \A y \in T : y <= x
      BY <2>1, <2>3, <2>5
    <3>2. x \in Nat
      BY <2>1
    <3> QED BY <3>1, <3>2
  <2> QED BY <2>4, <2>5
<1> HIDE DEF A
<1>3. Cardinality(S) \in A /\ Cardinality(S) \in Nat
  BY <1>1, <1>2, ForAll, FS_CardinalityType
<1>4. PICK b \in Nat : \A x \in S : x <= b
  BY <1>3 DEF A
<1>5. S \in SUBSET (0..b)
  BY <1>4
<1> QED BY <1>5, MaxIsGreatest

\* The values of a function on a finite set are finitely many.
LEMMA FiniteValues ==
  ASSUME NEW S, IsFiniteSet(S), NEW g
  PROVE  IsFiniteSet({g[x] : x \in S})
<1> DEFINE T == {g[x] : x \in S}
           h == [x \in S |-> g[x]]
<1>1. h \in Surjection(S, T)
  <2>1. h \in [S -> T]
    OBVIOUS
  <2>2. \A t \in T : \E x \in S : h[x] = t
    OBVIOUS
  <2> HIDE DEF h, T
  <2> QED BY <2>1, <2>2 DEF Surjection
<1> HIDE DEF T, h
<1>2. IsFiniteSet(T)
  BY <1>1, FS_Surjection
<1> QED BY <1>2 DEF T

\* The first steps of an iteration.
Approximates(f, n, V, base, step) ==
  /\ f \in [0..n -> V]
  /\ f[0] = base
  /\ \A k \in 0..(n - 1) : f[k + 1] = step[k][f[k]]

\* There are such first steps, however many are asked for.
LEMMA ApproximationExists ==
  ASSUME NEW V, NEW base \in V, NEW step \in [Nat -> [V -> V]], NEW n \in Nat
  PROVE  \E f : Approximates(f, n, V, base, step)
<1> DEFINE S == {k \in Nat : \E f : Approximates(f, k, V, base, step)}
<1>1. 0 \in S
  <2> DEFINE f == [k \in 0..0 |-> base]
  <2>1. f \in [0..0 -> V] /\ f[0] = base /\ \A k \in 0..(0 - 1) : f[k + 1] = step[k][f[k]]
    OBVIOUS
  <2>2. Approximates(f, 0, V, base, step)
    BY <2>1 DEF Approximates
  <2> QED BY <2>2
<1>2. ASSUME NEW k \in Nat, k \in S PROVE k + 1 \in S
  <2>1. PICK f : Approximates(f, k, V, base, step)
    BY <1>2
  <2> DEFINE g == [j \in 0..(k + 1) |-> IF j = k + 1 THEN step[k][f[k]] ELSE f[j]]
  <2>2. f \in [0..k -> V] /\ f[0] = base /\ \A j \in 0..(k - 1) : f[j + 1] = step[j][f[j]]
    BY <2>1 DEF Approximates
  <2>3. f[k] \in V /\ step[k] \in [V -> V]
    BY <2>2
  <2>4. step[k][f[k]] \in V
    BY <2>3
  <2>5. g \in [0..(k + 1) -> V]
    <3> SUFFICES ASSUME NEW j \in 0..(k + 1) PROVE (IF j = k + 1 THEN step[k][f[k]] ELSE f[j]) \in V
      OBVIOUS
    <3>1. CASE j = k + 1
      BY <2>4, <3>1
    <3>2. CASE j # k + 1
      <4>1. j \in 0..k
        BY <3>2
      <4> QED BY <2>2, <3>2, <4>1
    <3> QED BY <3>1, <3>2
  <2>6. g[0] = base
    BY <2>2
  <2>7. ASSUME NEW j \in 0..((k + 1) - 1) PROVE g[j + 1] = step[j][g[j]]
    <3>1. j \in 0..(k + 1) /\ j + 1 \in 0..(k + 1) /\ j # k + 1 /\ j \in 0..k
      OBVIOUS
    <3>2. g[j] = f[j]
      BY <3>1
    <3>3. CASE j = k
      BY <3>1, <3>2, <3>3
    <3>4. CASE j # k
      <4>1. j \in 0..(k - 1) /\ j + 1 # k + 1
        BY <3>1, <3>4
      <4>2. g[j + 1] = f[j + 1]
        BY <3>1, <4>1
      <4> HIDE DEF g
      <4> QED BY <2>2, <3>2, <4>1, <4>2
    <3> QED BY <3>3, <3>4
  <2> HIDE DEF g
  <2>8. Approximates(g, k + 1, V, base, step)
    BY <2>5, <2>6, <2>7 DEF Approximates
  <2> QED BY <2>8
<1> HIDE DEF S
<1>3. n \in S
  BY <1>1, <1>2, ForAll
<1> QED BY <1>3 DEF S

\* Two of them agree as far as both go.
LEMMA ApproximationsAgree ==
  ASSUME NEW V, NEW base, NEW step, NEW m \in Nat, NEW n \in Nat, m <= n, NEW f, NEW g,
         Approximates(f, m, V, base, step), Approximates(g, n, V, base, step)
  PROVE  \A k \in 0..m : f[k] = g[k]
<1> DEFINE S == {k \in 0..m : f[k] = g[k]}
<1>1. 0 \in S
  BY DEF Approximates
<1>2. ASSUME NEW k \in 1..m, k - 1 \in S PROVE k \in S
  <2>1. k - 1 \in 0..(m - 1) /\ k - 1 \in 0..(n - 1) /\ (k - 1) + 1 = k /\ k \in 0..m
    OBVIOUS
  <2>2. f[k] = step[k - 1][f[k - 1]] /\ g[k] = step[k - 1][g[k - 1]]
    BY <2>1 DEF Approximates
  <2> QED BY <1>2, <2>1, <2>2
<1> HIDE DEF S
<1>3. \A k \in 0..m : k \in S
  BY <1>1, <1>2, UpTo
<1> QED BY <1>3 DEF S

\* The values of an iteration without end.
IterationSteps(V) == [Nat -> [V -> V]]

Iterates(f, V, base, step) ==
  f \in [Nat -> V] /\ f[0] = base /\ \A n \in Nat : f[n + 1] = step[n][f[n]]

\* An iteration has values at every number of steps: what a recursive function is.
LEMMA Iteration ==
  ASSUME NEW V, NEW base \in V, NEW step \in IterationSteps(V)
  PROVE  \E f : Iterates(f, V, base, step)
<1> USE DEF IterationSteps
<1> DEFINE A(n) == CHOOSE f : Approximates(f, n, V, base, step)
           F == [n \in Nat |-> A(n)[n]]
<1>1. ASSUME NEW n \in Nat PROVE Approximates(A(n), n, V, base, step)
  BY ApproximationExists
<1> HIDE DEF A
<1>2. ASSUME NEW n \in Nat PROVE F[n] \in V
  <2>1. A(n) \in [0..n -> V] /\ n \in 0..n
    BY <1>1 DEF Approximates
  <2> QED BY <2>1
<1>3. F[0] = base
  BY <1>1 DEF Approximates
<1>4. ASSUME NEW n \in Nat PROVE F[n + 1] = step[n][F[n]]
  <2>1. n + 1 \in Nat /\ n <= n + 1 /\ n \in 0..n /\ n \in 0..((n + 1) - 1)
    OBVIOUS
  <2>2. A(n)[n] = A(n + 1)[n]
    BY <1>1, <2>1, ApproximationsAgree
  <2>3. A(n + 1)[n + 1] = step[n][A(n + 1)[n]]
    BY <1>1, <2>1 DEF Approximates
  <2> QED BY <2>1, <2>2, <2>3
<1>5. F \in [Nat -> V]
  BY <1>2
<1> HIDE DEF F
<1>6. Iterates(F, V, base, step)
  BY <1>3, <1>4, <1>5 DEF Iterates
<1> QED BY <1>6, Zenon

\* What FoldLeft() recurs on: the largest index of an initial stretch.
LEMMA IntervalTop ==
  ASSUME NEW n \in Nat, NEW k \in 1..n
  PROVE  /\ Max(1..k) = k /\ (1..k) \ {k} = 1..(k - 1)
         /\ 1..k \in SUBSET (1..n) /\ 1..k # {} /\ k \in 0..n /\ k - 1 \in 0..n
<1>1. k \in 1..k /\ \A y \in 1..k : k >= y
  OBVIOUS
<1>2. Max(1..k) \in 1..k /\ Max(1..k) >= k
  BY <1>1, MaxIsOne
<1> DEFINE m == Max(1..k)
<1> HIDE DEF m
<1>3. m \in 1..k /\ m >= k
  BY <1>2 DEF m
<1>4. m = k
  BY <1>3
<1>5. (1..k) \ {k} = 1..(k - 1)
  OBVIOUS
<1>6. /\ 1..k \in SUBSET (1..n) /\ 1..k # {} /\ k \in 0..n /\ k - 1 \in 0..n
  BY <1>1
<1> QED BY <1>4, <1>5, <1>6 DEF m

\* The largest index of a set of them is one of them.
LEMMA TopIsThere ==
  ASSUME NEW n \in Nat, NEW t \in SUBSET (1..n), t # {}
  PROVE  Max(t) \in t
<1>1. t \in SUBSET (0..n)
  OBVIOUS
<1> QED BY <1>1, MaxIsGreatest

\* The recursion of a fold over 1..n has a solution, by the size of the sets.
FoldSteps(n, V) == [1..n -> [V -> V]]

Folds(g, n, V, base, step) ==
  /\ g \in [SUBSET (1..n) -> V]
  /\ \A t \in SUBSET (1..n) : g[t] = IF t = {} THEN base ELSE step[Max(t)][g[t \ {Max(t)}]]

\* So FoldLeft() of n elements is what its equation says.
LEMMA FoldExists ==
  ASSUME NEW n \in Nat, NEW V, NEW base \in V, NEW step \in FoldSteps(n, V)
  PROVE  \E g : Folds(g, n, V, base, step)
<1> USE DEF FoldSteps
<1> DEFINE T == SUBSET (1..n)
           W == [T -> V]
           Onward(G) == [t \in T |-> IF t = {} THEN base ELSE step[Max(t)][G[t \ {Max(t)}]]]
           first == [t \in T |-> base]
           turn == [k \in Nat |-> [G \in W |-> Onward(G)]]
<1>1. \A t \in T : t # {} => Max(t) \in t /\ Max(t) \in 1..n /\ t \ {Max(t)} \in T
  BY TopIsThere
<1>2. ASSUME NEW G \in W PROVE Onward(G) \in W
  <2> SUFFICES ASSUME NEW t \in T
               PROVE  (IF t = {} THEN base ELSE step[Max(t)][G[t \ {Max(t)}]]) \in V
    OBVIOUS
  <2>1. CASE t = {}
    BY <2>1
  <2>2. CASE t # {}
    <3>1. Max(t) \in 1..n /\ t \ {Max(t)} \in T
      BY <1>1, <2>2
    <3>2. G[t \ {Max(t)}] \in V /\ step[Max(t)] \in [V -> V]
      BY <3>1
    <3> QED BY <2>2, <3>2
  <2> QED BY <2>1, <2>2
<1>3. first \in W
  OBVIOUS
<1>4. turn \in [Nat -> [W -> W]] /\ \A k \in Nat : \A G \in W : turn[k][G] = Onward(G)
  <2> HIDE DEF Onward, W
  <2> QED BY <1>2
<1>5. PICK F \in [Nat -> W] : F[0] = first /\ \A k \in Nat : F[k + 1] = turn[k][F[k]]
  <2> HIDE DEF first, W, Onward
  <2>1. turn \in IterationSteps(W)
    BY <1>4 DEF IterationSteps
  <2> HIDE DEF turn
  <2>2. \E F : Iterates(F, W, first, turn)
    BY <1>3, <2>1, Iteration, Zenon
  <2> QED BY <2>2, Zenon DEF Iterates
<1>6. \A k \in Nat : F[k + 1] = Onward(F[k])
  <2> HIDE DEF turn, W, Onward
  <2> QED BY <1>4, <1>5
<1>7. IsFiniteSet(1..n)
  BY FS_Interval
<1>8. ASSUME NEW t \in T PROVE IsFiniteSet(t) /\ Cardinality(t) \in Nat
  BY <1>7, FS_Subset, FS_CardinalityType
<1> DEFINE g == [t \in T |-> F[Cardinality(t)][t]]
<1>9. g \in [T -> V]
  <2> SUFFICES ASSUME NEW t \in T PROVE F[Cardinality(t)][t] \in V
    OBVIOUS
  <2>1. F[Cardinality(t)] \in W
    <3> HIDE DEF W
    <3> QED BY <1>5, <1>8
  <2> QED BY <2>1
<1>10. ASSUME NEW t \in T PROVE g[t] = IF t = {} THEN base ELSE step[Max(t)][g[t \ {Max(t)}]]
  <2>1. CASE t = {}
    <3>1. Cardinality(t) = 0
      BY <2>1, FS_EmptySet
    <3>2. g[t] = F[0][t]
      BY <3>1
    <3>3. first[t] = base
      OBVIOUS
    <3> HIDE DEF first, g
    <3> QED BY <1>5, <2>1, <3>2, <3>3
  <2>2. CASE t # {}
    <3> DEFINE x == Max(t)
               u == t \ {x}
               c == Cardinality(u)
    <3>1. x \in t /\ u \in T
      BY <1>1, <2>2
    <3>2. Cardinality(t) = c + 1 /\ c \in Nat
      <4>1. Cardinality(u) = Cardinality(t) - 1
        <5> HIDE DEF x
        <5> QED BY <1>8, <3>1, FS_RemoveElement
      <4>2. c \in Nat
        BY <1>8, <3>1
      <4>3. Cardinality(t) \in Nat
        BY <1>8
      <4> HIDE DEF u
      <4> QED BY <4>1, <4>2, <4>3
    <3>3. F[c + 1] = Onward(F[c])
      <4> HIDE DEF Onward, c
      <4> QED BY <1>6, <3>2
    <3>4. Onward(F[c])[t] = step[x][F[c][u]]
      BY <2>2
    <3>5. g[t] = F[c + 1][t]
      <4> HIDE DEF c
      <4> QED BY <3>2
    <3>6. g[u] = F[c][u]
      BY <3>1
    <3> HIDE DEF g, Onward, c, u, x
    <3>7. g[t] = step[x][g[u]]
      BY <3>3, <3>4, <3>5, <3>6
    <3> QED BY <2>2, <3>7 DEF x, u
  <2> QED BY <2>1, <2>2
<1> HIDE DEF g
<1>11. Folds(g, n, V, base, step)
  BY <1>9, <1>10 DEF Folds
<1> QED BY <1>11, Zenon

-----------------------------------------------------------------------------
(* Parts of sequences.                                                            *)

\* The elements of a sequence that a set holds, as the components take them.
Filter(s, T) == FoldLeft(LAMBDA kept, x : IF x \in T THEN Append(kept, x) ELSE kept, <<>>, s)

\* A sequence r of m elements holds those at the places R of a sequence of n, in their
\* order.
Places(pos, r, m, s, n, R) ==
  /\ pos \in [1..m -> 1..n]
  /\ \A i, j \in 1..m : i < j => pos[i] < pos[j]
  /\ \A j \in 1..m : r[j] = s[pos[j]] /\ pos[j] \in R
  /\ \A i \in R : \E j \in 1..m : pos[j] = i

\* One more element, kept or passed over.
LEMMA PlacesGrow ==
  ASSUME NEW S, NEW r \in Seq(S), NEW n \in Nat, NEW s, NEW x \in S, s[n + 1] = x,
         NEW R, R \subseteq 1..n, NEW pos, Places(pos, r, Len(r), s, n, R)
  PROVE  /\ \E q : Places(q, Append(r, x), Len(r) + 1, s, n + 1, R \cup {n + 1})
         /\ Places(pos, r, Len(r), s, n + 1, R)
<1> DEFINE m == Len(r)
           p == Append(r, x)
           q == [j \in 1..(m + 1) |-> IF j = m + 1 THEN n + 1 ELSE pos[j]]
<1>1. m \in Nat /\ p[m + 1] = x /\ \A j \in 1..m : p[j] = r[j]
  OBVIOUS
<1>2. /\ pos \in [1..m -> 1..n] /\ \A i, j \in 1..m : i < j => pos[i] < pos[j]
      /\ \A j \in 1..m : r[j] = s[pos[j]] /\ pos[j] \in R
      /\ \A i \in R : \E j \in 1..m : pos[j] = i
  BY DEF Places
<1> HIDE DEF m, p
<1>3. \A j \in 1..m : pos[j] \in 1..n /\ pos[j] \in 1..(n + 1) /\ pos[j] < n + 1
  BY <1>1, <1>2
<1>4. \A j \in 1..(m + 1) : j = m + 1 \/ j \in 1..m
  BY <1>1
<1>5. q[m + 1] = n + 1 /\ m + 1 \in 1..(m + 1) /\ \A j \in 1..m : j \in 1..(m + 1) /\ q[j] = pos[j]
  BY <1>1
<1>6. q \in [1..(m + 1) -> 1..(n + 1)]
  <2> SUFFICES ASSUME NEW j \in 1..(m + 1) PROVE (IF j = m + 1 THEN n + 1 ELSE pos[j]) \in 1..(n + 1)
    OBVIOUS
  <2> QED BY <1>3, <1>4
<1> HIDE DEF q
<1>7. \A i, j \in 1..(m + 1) : i < j => q[i] < q[j]
  <2> SUFFICES ASSUME NEW i \in 1..(m + 1), NEW j \in 1..(m + 1), i < j PROVE q[i] < q[j]
    OBVIOUS
  <2>1. i \in 1..m
    BY <1>1, <1>4
  <2>2. CASE j = m + 1
    BY <1>3, <1>5, <2>1, <2>2
  <2>3. CASE j \in 1..m
    BY <1>2, <1>5, <2>1, <2>3
  <2> QED BY <1>4, <2>2, <2>3
<1>8. \A j \in 1..(m + 1) : p[j] = s[q[j]] /\ q[j] \in R \cup {n + 1}
  BY <1>1, <1>2, <1>4, <1>5
<1>9. \A i \in R \cup {n + 1} : \E j \in 1..(m + 1) : q[j] = i
  BY <1>2, <1>5
<1>10. Places(q, p, m + 1, s, n + 1, R \cup {n + 1})
  BY <1>6, <1>7, <1>8, <1>9 DEF Places
<1>11. pos \in [1..m -> 1..(n + 1)]
  BY <1>2, <1>3
<1>12. Places(pos, r, m, s, n + 1, R)
  BY <1>2, <1>11 DEF Places
<1> QED BY <1>10, <1>12 DEF m, p

\* What Filter() returns: the elements in the set, all of them, in their order.
LEMMA FilterPlaces ==
  ASSUME NEW S, NEW s \in Seq(S), NEW T
  PROVE  /\ Filter(s, T) \in Seq(S)
         /\ \E pos : Places(pos, Filter(s, T), Len(Filter(s, T)), s, Len(s), {i \in DOMAIN s : s[i] \in T})
<1> DEFINE n == Len(s)
           V == Seq(S)
           Turn(v, x) == IF x \in T THEN Append(v, x) ELSE v
           Solves(g) == g = [t \in SUBSET (1..n) |-> IF t = {} THEN <<>> ELSE Turn(g[t \ {Max(t)}], s[Max(t)])]
           f == CHOOSE g : Solves(g)
           step == [k \in 1..n |-> [v \in V |-> Turn(v, s[k])]]
           Chosen(k) == {i \in 1..k : s[i] \in T}
<1>1. n \in Nat /\ DOMAIN s = 1..n /\ \A k \in 1..n : s[k] \in S
  OBVIOUS
<1>2. Filter(s, T) = f[1..n]
  BY <1>1 DEF Filter, FoldLeft, MapThenFoldSet
<1> HIDE DEF n
<1>3. ASSUME NEW v \in V, NEW x \in S PROVE Turn(v, x) \in V
  OBVIOUS
<1> HIDE DEF Turn
<1>4. step \in FoldSteps(n, V)
  <2> HIDE DEF V
  <2> QED BY <1>1, <1>3 DEF FoldSteps
<1>5. <<>> \in V
  OBVIOUS
<1> HIDE DEF V
<1>6. PICK e : Folds(e, n, V, <<>>, step)
  <2> HIDE DEF step
  <2> QED BY <1>1, <1>4, <1>5, FoldExists, Zenon
<1>7. Solves(e)
  BY <1>1, <1>6, TopIsThere DEF Folds
<1> HIDE DEF step
<1>8. Solves(f)
  <2> HIDE DEF Solves
  <2> QED BY <1>7, Zenon
<1> HIDE DEF f
<1> DEFINE A == {k \in 0..n : f[1..k] \in V /\ \E pos : Places(pos, f[1..k], Len(f[1..k]), s, k, Chosen(k))}
<1>9. 0 \in A
  <2>1. 1..0 = {} /\ 0 \in 0..n /\ {} \in SUBSET (1..n)
    BY <1>1
  <2>2. f[{}] = <<>>
    BY <1>8, <2>1
  <2>3. f[1..0] = <<>>
    BY <2>1, <2>2, Zenon
  <2>4. Len(<<>>) = 0 /\ Chosen(0) = {}
    BY <2>1
  <2>5. Places([j \in {} |-> 0], <<>>, 0, s, 0, {})
    BY <2>1 DEF Places
  <2>6. Places([j \in {} |-> 0], f[1..0], Len(f[1..0]), s, 0, Chosen(0))
    BY <2>3, <2>4, <2>5
  <2>7. f[1..0] \in V
    BY <1>5, <2>3, Zenon
  <2> QED BY <2>1, <2>6, <2>7
<1>10. ASSUME NEW k \in 1..n, k - 1 \in A PROVE k \in A
  <2>1. /\ Max(1..k) = k /\ (1..k) \ {k} = 1..(k - 1)
        /\ 1..k \in SUBSET (1..n) /\ 1..k # {} /\ k \in 0..n /\ k - 1 \in 0..n
    BY <1>1, IntervalTop
  <2>2. f[1..k] = Turn(f[(1..k) \ {Max(1..k)}], s[Max(1..k)])
    BY <1>8, <2>1
  <2>3. f[1..k] = Turn(f[1..(k - 1)], s[k])
    BY <2>1, <2>2
  <2> DEFINE r == f[1..(k - 1)]
  <2>4. PICK pos : Places(pos, r, Len(r), s, k - 1, Chosen(k - 1))
    BY <1>10
  <2>5. r \in V
    BY <1>10
  <2> HIDE DEF r
  <2>6. k - 1 \in Nat /\ (k - 1) + 1 = k /\ s[k] \in S
    BY <1>1
  <2>7. Chosen(k - 1) \subseteq 1..(k - 1)
    OBVIOUS
  <2>8. Chosen(k) = IF s[k] \in T THEN Chosen(k - 1) \cup {k} ELSE Chosen(k - 1)
    <3>1. 1..k = (1..(k - 1)) \cup {k}
      BY <2>1
    <3> QED BY <3>1
  <2> HIDE DEF Chosen
  <2>9. /\ \E q : Places(q, Append(r, s[k]), Len(r) + 1, s, k, Chosen(k - 1) \cup {k})
        /\ Places(pos, r, Len(r), s, k, Chosen(k - 1))
    <3> DEFINE C == Chosen(k - 1)
               b == k - 1
    <3>1. C \subseteq 1..b /\ Places(pos, r, Len(r), s, b, C) /\ b \in Nat /\ s[b + 1] = s[k] /\ b + 1 = k
      BY <2>4, <2>6, <2>7
    <3> HIDE DEF C, b
    <3>2. r \in Seq(S)
      BY <2>5 DEF V
    <3>3. /\ \E q : Places(q, Append(r, s[k]), Len(r) + 1, s, b + 1, C \cup {b + 1})
          /\ Places(pos, r, Len(r), s, b + 1, C)
      BY <2>6, <3>1, <3>2, PlacesGrow
    <3> QED BY <3>1, <3>3 DEF C
  <2>10. CASE s[k] \in T
    <3>1. f[1..k] = Append(r, s[k])
      BY <2>3, <2>10 DEF Turn, r
    <3>2. Append(r, s[k]) \in V /\ Len(Append(r, s[k])) = Len(r) + 1
      BY <2>5, <2>6 DEF V
    <3> QED BY <2>1, <2>8, <2>9, <2>10, <3>1, <3>2
  <2>11. CASE s[k] \notin T
    <3>1. f[1..k] = r
      BY <2>3, <2>11 DEF Turn, r
    <3> QED BY <2>1, <2>5, <2>8, <2>9, <2>11, <3>1
  <2> QED BY <2>10, <2>11
<1> HIDE DEF A
<1>11. \A k \in 0..n : k \in A
  BY <1>1, <1>9, <1>10, UpTo
<1>12. n \in A
  BY <1>1, <1>11
<1>13. Chosen(n) = {i \in DOMAIN s : s[i] \in T}
  BY <1>1
<1> QED BY <1>2, <1>12, <1>13 DEF A, V, n

\* The elements of a concatenation.
LEMMA Concatenated ==
  ASSUME NEW S, NEW a \in Seq(S), NEW b \in Seq(S)
  PROVE  /\ a \o b \in Seq(S) /\ Len(a \o b) = Len(a) + Len(b)
         /\ \A i \in 1..Len(a) : (a \o b)[i] = a[i]
         /\ \A i \in 1..Len(b) : (a \o b)[Len(a) + i] = b[i]
  OBVIOUS

============================================================================
