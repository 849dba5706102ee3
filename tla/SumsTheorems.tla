---------------------------- MODULE SumsTheorems ----------------------------
(***************************************************************************)
(* What is needed of sums: they are integers, and change with one summand  *)
(* by what that summand changes.  Which element a sum takes first does not *)
(* matter.                                                                 *)
(*                                                                         *)
(* Each fact about a recursive function is an induction on the number of   *)
(* elements, done as a minimal counterexample: a set of naturals with zero *)
(* and all successors is the set of naturals.                              *)
(***************************************************************************)
EXTENDS Sums, FiniteSetTheorems, WellFoundedInduction, TLAPS

LEMMA AllNaturals ==
  ASSUME NEW P \in SUBSET Nat, 0 \in P, \A n \in P : n + 1 \in P
  PROVE  P = Nat
<1> DEFINE T == Nat \ P
           Less == {xy \in Nat \X Nat : xy[1] < xy[2]}
<1> SUFFICES ASSUME T # {} PROVE FALSE
  OBVIOUS
<1>1. \E m \in T : \A n \in T : ~(<<n, m>> \in Less)
  <2>1. IsWellFoundedOn(Less, Nat)
    BY NatLessThanWellFounded DEF OpToRel
  <2>2. T \subseteq Nat
    OBVIOUS
  <2> HIDE DEF T, Less
  <2> QED BY <2>1, <2>2, WFMin
<1>2. PICK m \in T : \A n \in T : ~(<<n, m>> \in Less)
  BY <1>1
<1>3. m \in Nat /\ m # 0 /\ m - 1 \in Nat /\ <<m - 1, m>> \in Less
  BY <1>2
<1>4. m - 1 \in P
  BY <1>2, <1>3
<1> QED BY <1>2, <1>3, <1>4

(* The element of a set that its sum takes first. *)
Pick(S) == CHOOSE x \in S : TRUE

(* The function computes the sum over every set of indices. *)
Totals(f, t) ==
  t = [S \in SUBSET DOMAIN f |-> IF S = {} THEN 0 ELSE f[Pick(S)] + t[S \ {Pick(S)}]]

LEMMA PickFacts ==
  ASSUME NEW D, IsFiniteSet(D), NEW S \in SUBSET D, NEW n \in Nat,
         Cardinality(S) <= n + 1, NEW x \in S
  PROVE  /\ Pick(S) \in S
         /\ S \ {x} \in SUBSET D
         /\ Cardinality(S \ {x}) \in Nat
         /\ Cardinality(S \ {x}) <= n
         /\ Cardinality(S \ {x}) < Cardinality(S)
         /\ Cardinality(S) \in Nat
<1>1. IsFiniteSet(S)
  BY FS_Subset
<1>2. Cardinality(S) \in Nat
  BY <1>1, FS_CardinalityType
<1>3. IsFiniteSet(S \ {x}) /\ Cardinality(S \ {x}) = Cardinality(S) - 1
  BY <1>1, FS_RemoveElement
<1>4. Cardinality(S \ {x}) \in Nat
  BY <1>3, FS_CardinalityType
<1> QED BY <1>2, <1>3, <1>4 DEF Pick

LEMMA NoneLeft ==
  ASSUME NEW D, IsFiniteSet(D), NEW S \in SUBSET D
  PROVE  Cardinality(S) \in Nat /\ (Cardinality(S) <= 0 => S = {})
<1>1. IsFiniteSet(S)
  BY FS_Subset
<1> QED BY <1>1, FS_CardinalityType, FS_EmptySet

LEMMA TotalsExist ==
  ASSUME NEW D, IsFiniteSet(D), NEW f \in [D -> Int]
  PROVE  \E t : Totals(f, t)
<1> DEFINE Next(t, S) == IF S = {} THEN 0 ELSE f[Pick(S)] + t[S \ {Pick(S)}]
           UpTo(t, n) == \A S \in SUBSET D : Cardinality(S) <= n => t[S] = Next(t, S)
           P == {n \in Nat : \E t \in [SUBSET D -> Int] : UpTo(t, n)}
<1>1. 0 \in P
  <2> DEFINE t == [S \in SUBSET D |-> 0]
  <2>1. UpTo(t, 0)
    BY NoneLeft
  <2>2. t \in [SUBSET D -> Int]
    OBVIOUS
  <2> HIDE DEF t, UpTo
  <2> QED BY <2>1, <2>2
<1>2. ASSUME NEW n \in P PROVE n + 1 \in P
  <2>1. PICK t \in [SUBSET D -> Int] : UpTo(t, n)
    BY <1>2
  <2> DEFINE u == [S \in SUBSET D |-> Next(t, S)]
  <2>2. \A S \in SUBSET D : S # {} => Pick(S) \in S /\ S \ {Pick(S)} \in SUBSET D
    BY DEF Pick
  <2>3. \A S \in SUBSET D : Next(t, S) \in Int
    BY <2>2
  <2>4. u \in [SUBSET D -> Int]
    BY <2>3
  <2>5. ASSUME NEW S \in SUBSET D, Cardinality(S) <= n PROVE u[S] = t[S]
    BY <2>1, <2>5
  <2>6. ASSUME NEW S \in SUBSET D, Cardinality(S) <= n + 1 PROVE u[S] = Next(u, S)
    <3>1. CASE S = {}
      BY <3>1
    <3>2. CASE S # {}
      <4>1. Pick(S) \in S
        BY <2>2, <3>2
      <4>2. S \ {Pick(S)} \in SUBSET D /\ Cardinality(S \ {Pick(S)}) <= n
        BY <1>2, <2>6, <4>1, PickFacts
      <4>3. u[S \ {Pick(S)}] = t[S \ {Pick(S)}]
        BY <2>5, <4>2
      <4> QED BY <3>2, <4>3
    <3> QED BY <3>1, <3>2
  <2>7. UpTo(u, n + 1)
    BY <2>6
  <2> HIDE DEF u, UpTo
  <2> QED BY <1>2, <2>4, <2>7
<1>3. P = Nat
  <2> HIDE DEF P
  <2>1. P \in SUBSET Nat
    BY DEF P
  <2> QED BY <1>1, <1>2, <2>1, AllNaturals
<1>4. Cardinality(D) \in Nat
  BY FS_CardinalityType
<1>5. PICK t \in [SUBSET D -> Int] : UpTo(t, Cardinality(D))
  BY <1>3, <1>4
<1>6. \A S \in SUBSET D : Cardinality(S) <= Cardinality(D)
  BY FS_Subset
<1>7. t = [S \in SUBSET D |-> Next(t, S)]
  BY <1>5, <1>6
<1> QED BY <1>7 DEF Totals

LEMMA SumTotals ==
  ASSUME NEW D, IsFiniteSet(D), NEW f \in [D -> Int]
  PROVE  \E t : Totals(f, t) /\ Sum(f) = t[D]
<1> DEFINE t == CHOOSE t : Totals(f, t)
<1>1. Totals(f, t)
  BY TotalsExist
<1>2. Sum(f) = t[D]
  BY DEF Sum, Totals, Pick
<1> QED BY <1>1, <1>2

LEMMA TotalsStep ==
  ASSUME NEW D, NEW f \in [D -> Int], NEW t, Totals(f, t), NEW S \in SUBSET D
  PROVE  t[S] = IF S = {} THEN 0 ELSE f[Pick(S)] + t[S \ {Pick(S)}]
<1>1. DOMAIN f = D
  OBVIOUS
<1> QED BY <1>1 DEF Totals

LEMMA TotalsType ==
  ASSUME NEW D, IsFiniteSet(D), NEW f \in [D -> Int], NEW t, Totals(f, t)
  PROVE  \A S \in SUBSET D : t[S] \in Int
<1> DEFINE P == {n \in Nat : \A S \in SUBSET D : Cardinality(S) <= n => t[S] \in Int}
<1>0. t[{}] = 0
  BY TotalsStep
<1>1. 0 \in P
  BY <1>0, NoneLeft
<1>2. ASSUME NEW n \in P PROVE n + 1 \in P
  <2>1. ASSUME NEW S \in SUBSET D, Cardinality(S) <= n + 1 PROVE t[S] \in Int
    <3>1. CASE S = {}
      BY <1>0, <3>1
    <3>2. CASE S # {}
      <4>1. Pick(S) \in S
        BY <3>2 DEF Pick
      <4>2. S \ {Pick(S)} \in SUBSET D /\ Cardinality(S \ {Pick(S)}) <= n
        BY <1>2, <2>1, <4>1, PickFacts
      <4>3. t[S \ {Pick(S)}] \in Int
        BY <1>2, <4>2
      <4>4. t[S] = f[Pick(S)] + t[S \ {Pick(S)}]
        BY <3>2, TotalsStep
      <4> QED BY <4>1, <4>3, <4>4
    <3> QED BY <3>1, <3>2
  <2> QED BY <1>2, <2>1
<1>3. P = Nat
  <2> HIDE DEF P
  <2>1. P \in SUBSET Nat
    BY DEF P
  <2> QED BY <1>1, <1>2, <2>1, AllNaturals
<1> QED BY <1>3, NoneLeft

(* Any element may be taken first. *)
LEMMA TotalsAny ==
  ASSUME NEW D, IsFiniteSet(D), NEW f \in [D -> Int], NEW t, Totals(f, t)
  PROVE  \A S \in SUBSET D : \A x \in S : t[S] = f[x] + t[S \ {x}]
<1> DEFINE P == {n \in Nat : \A S \in SUBSET D : Cardinality(S) <= n =>
                               \A x \in S : t[S] = f[x] + t[S \ {x}]}
<1>1. 0 \in P
  BY NoneLeft
<1>2. ASSUME NEW n \in P PROVE n + 1 \in P
  <2>1. ASSUME NEW S \in SUBSET D, Cardinality(S) <= n + 1, NEW x \in S
        PROVE  t[S] = f[x] + t[S \ {x}]
    <3> DEFINE y == Pick(S)
               R == (S \ {x}) \ {y}
    <3>1. y \in S /\ t[S] = f[y] + t[S \ {y}]
      BY TotalsStep DEF Pick
    <3> HIDE DEF y
    <3>2. CASE y = x
      BY <3>1, <3>2
    <3>3. CASE y # x
      <4>1. /\ S \ {y} \in SUBSET D /\ Cardinality(S \ {y}) <= n
            /\ S \ {x} \in SUBSET D /\ Cardinality(S \ {x}) <= n
        BY <1>2, <2>1, <3>1, PickFacts
      <4>2. t[S \ {y}] = f[x] + t[(S \ {y}) \ {x}]
        BY <1>2, <3>3, <4>1
      <4>3. t[S \ {x}] = f[y] + t[R]
        BY <1>2, <3>1, <3>3, <4>1
      <4>4. (S \ {y}) \ {x} = R /\ R \in SUBSET D
        OBVIOUS
      <4>5. t[R] \in Int /\ f[x] \in Int /\ f[y] \in Int
        BY <3>1, <4>4, TotalsType
      <4>6. t[S \ {y}] = f[x] + t[R]
        BY <4>2, <4>4
      <4> HIDE DEF R
      <4>7. t[S] = f[y] + (f[x] + t[R]) /\ t[S \ {x}] = f[y] + t[R]
        BY <3>1, <4>3, <4>6
      <4> QED BY <4>5, <4>7
    <3> QED BY <3>2, <3>3
  <2> QED BY <1>2, <2>1
<1>3. P = Nat
  <2> HIDE DEF P
  <2>1. P \in SUBSET Nat
    BY DEF P
  <2> QED BY <1>1, <1>2, <2>1, AllNaturals
<1> SUFFICES ASSUME NEW S \in SUBSET D, NEW x \in S PROVE t[S] = f[x] + t[S \ {x}]
  OBVIOUS
<1>4. Cardinality(S) \in P
  BY <1>3, NoneLeft
<1> QED BY <1>4

(* Only the summands count. *)
LEMMA TotalsAgree ==
  ASSUME NEW D, IsFiniteSet(D), NEW f \in [D -> Int], NEW t, Totals(f, t),
         NEW E, NEW g \in [E -> Int], NEW u, Totals(g, u),
         NEW A, A \subseteq D, A \subseteq E, \A x \in A : f[x] = g[x]
  PROVE  t[A] = u[A]
<1> DEFINE P == {n \in Nat : \A S \in SUBSET A : Cardinality(S) <= n => t[S] = u[S]}
<1>0. IsFiniteSet(A)
  BY FS_Subset
<1>4. t[{}] = 0 /\ u[{}] = 0
  BY TotalsStep
<1>1. 0 \in P
  BY <1>0, <1>4, NoneLeft
<1>2. ASSUME NEW n \in P PROVE n + 1 \in P
  <2>1. ASSUME NEW S \in SUBSET A, Cardinality(S) <= n + 1 PROVE t[S] = u[S]
    <3>1. S \in SUBSET D /\ S \in SUBSET E
      OBVIOUS
    <3>2. CASE S = {}
      BY <1>4, <3>2
    <3>3. CASE S # {}
      <4>1. Pick(S) \in S
        BY <3>3 DEF Pick
      <4>2. S \ {Pick(S)} \in SUBSET A /\ Cardinality(S \ {Pick(S)}) <= n
        BY <1>0, <1>2, <2>1, <4>1, PickFacts
      <4>3. t[S \ {Pick(S)}] = u[S \ {Pick(S)}] /\ f[Pick(S)] = g[Pick(S)]
        BY <1>2, <4>1, <4>2
      <4>4. t[S] = f[Pick(S)] + t[S \ {Pick(S)}] /\ u[S] = g[Pick(S)] + u[S \ {Pick(S)}]
        BY <3>1, <3>3, TotalsStep
      <4> QED BY <4>3, <4>4
    <3> QED BY <3>2, <3>3
  <2> QED BY <1>2, <2>1
<1>3. P = Nat
  <2> HIDE DEF P
  <2>1. P \in SUBSET Nat
    BY DEF P
  <2> QED BY <1>1, <1>2, <2>1, AllNaturals
<1> QED BY <1>0, <1>3, FS_CardinalityType

-----------------------------------------------------------------------------
(* Sums of integers are integers. *)
THEOREM SumType ==
  ASSUME NEW D, IsFiniteSet(D), NEW f \in [D -> Int]
  PROVE  Sum(f) \in Int
BY SumTotals, TotalsType

(* When one summand changes the sum changes by as much. *)
THEOREM SumChange ==
  ASSUME NEW D, IsFiniteSet(D), NEW f \in [D -> Int], NEW g \in [D -> Int],
         NEW k \in D, \A x \in D \ {k} : g[x] = f[x]
  PROVE  Sum(g) = Sum(f) + (g[k] - f[k])
<1>1. PICK t : Totals(f, t) /\ Sum(f) = t[D]
  BY SumTotals
<1>2. PICK u : Totals(g, u) /\ Sum(g) = u[D]
  BY SumTotals
<1>3. D \in SUBSET D /\ D \ {k} \in SUBSET D
  OBVIOUS
<1>4. t[D] = f[k] + t[D \ {k}] /\ u[D] = g[k] + u[D \ {k}]
  BY <1>1, <1>2, <1>3, TotalsAny
<1>5. t[D \ {k}] = u[D \ {k}]
  BY <1>1, <1>2, TotalsAgree
<1>6. t[D \ {k}] \in Int /\ f[k] \in Int /\ g[k] \in Int
  BY <1>1, <1>3, TotalsType
<1> QED BY <1>1, <1>2, <1>4, <1>5, <1>6

(* A new summand is added. *)
THEOREM SumExtend ==
  ASSUME NEW E, IsFiniteSet(E), NEW k \in E,
         NEW f \in [E \ {k} -> Int], NEW g \in [E -> Int], \A x \in E \ {k} : g[x] = f[x]
  PROVE  Sum(g) = Sum(f) + g[k]
<1> DEFINE D == E \ {k}
<1>1. IsFiniteSet(D) /\ f \in [D -> Int] /\ \A x \in D : g[x] = f[x]
  BY FS_RemoveElement
<1>2. PICK t : Totals(f, t) /\ Sum(f) = t[D]
  <2> HIDE DEF D
  <2> QED BY <1>1, SumTotals
<1>3. PICK u : Totals(g, u) /\ Sum(g) = u[E]
  BY SumTotals
<1>4. E \in SUBSET E
  OBVIOUS
<1>5. u[E] = g[k] + u[E \ {k}]
  BY <1>3, <1>4, TotalsAny
<1>6. t[D] = u[D]
  <2>1. D \subseteq E
    OBVIOUS
  <2> HIDE DEF D
  <2> QED BY <1>1, <1>2, <1>3, <2>1, TotalsAgree
<1>7. t[D] \in Int /\ g[k] \in Int
  <2> HIDE DEF D
  <2> QED BY <1>1, <1>2, TotalsType
<1>8. Sum(g) = g[k] + t[D]
  BY <1>3, <1>4, <1>5, <1>6
<1> QED BY <1>2, <1>7, <1>8

(* Nothing adds up to nothing. *)
THEOREM SumZero ==
  ASSUME NEW D, IsFiniteSet(D)
  PROVE  Sum([x \in D |-> 0]) = 0
<1> DEFINE f == [x \in D |-> 0]
<1>1. f \in [D -> Int]
  OBVIOUS
<1>2. PICK t : Totals(f, t) /\ Sum(f) = t[D]
  <2> HIDE DEF f
  <2> QED BY <1>1, SumTotals
<1> DEFINE P == {n \in Nat : \A S \in SUBSET D : Cardinality(S) <= n => t[S] = 0}
<1>3. \A S \in SUBSET D : t[S] = IF S = {} THEN 0 ELSE f[Pick(S)] + t[S \ {Pick(S)}]
  <2> HIDE DEF f
  <2> QED BY <1>1, <1>2, TotalsStep
<1>4. 0 \in P
  BY <1>3, NoneLeft
<1>5. ASSUME NEW n \in P PROVE n + 1 \in P
  <2>1. ASSUME NEW S \in SUBSET D, Cardinality(S) <= n + 1, S # {} PROVE t[S] = 0
    <3>1. Pick(S) \in S
      BY <2>1 DEF Pick
    <3>2. S \ {Pick(S)} \in SUBSET D /\ Cardinality(S \ {Pick(S)}) <= n
      BY <1>5, <2>1, <3>1, PickFacts
    <3>3. t[S \ {Pick(S)}] = 0 /\ f[Pick(S)] = 0
      BY <1>5, <3>1, <3>2
    <3> QED BY <1>3, <2>1, <3>3
  <2>2. t[{}] = 0
    BY <1>3
  <2> QED BY <1>5, <2>1, <2>2
<1>6. P = Nat
  <2> HIDE DEF P
  <2>1. P \in SUBSET Nat
    BY DEF P
  <2> QED BY <1>4, <1>5, <2>1, AllNaturals
<1>7. Cardinality(D) \in Nat
  BY FS_CardinalityType
<1> QED BY <1>2, <1>6, <1>7

(* Summands that are no smaller add up to no less. *)
LEMMA SumLess ==
  ASSUME NEW D, IsFiniteSet(D), NEW f \in [D -> Int], NEW g \in [D -> Int],
         \A x \in D : f[x] <= g[x]
  PROVE  Sum(f) <= Sum(g)
<1>1. PICK t : Totals(f, t) /\ Sum(f) = t[D]
  BY SumTotals
<1>2. PICK u : Totals(g, u) /\ Sum(g) = u[D]
  BY SumTotals
<1> DEFINE P == {n \in Nat : \A S \in SUBSET D : Cardinality(S) <= n => t[S] <= u[S]}
<1>3. t[{}] = 0 /\ u[{}] = 0
  BY <1>1, <1>2, TotalsStep
<1>4. 0 \in P
  BY <1>3, NoneLeft
<1>5. ASSUME NEW n \in P PROVE n + 1 \in P
  <2>1. ASSUME NEW S \in SUBSET D, Cardinality(S) <= n + 1, S # {} PROVE t[S] <= u[S]
    <3> DEFINE x == Pick(S)
               R == S \ {x}
    <3>1. x \in S
      BY <2>1 DEF Pick
    <3>2. R \in SUBSET D /\ Cardinality(R) <= n
      BY <1>5, <2>1, <3>1, PickFacts
    <3>3. t[R] <= u[R] /\ f[x] <= g[x]
      BY <1>5, <3>1, <3>2
    <3>4. t[S] = f[x] + t[R] /\ u[S] = g[x] + u[R]
      <4>1. \A h \in [D -> Int] : \A v : Totals(h, v) => v[S] = h[x] + v[R]
        BY <2>1, TotalsStep
      <4> HIDE DEF x, R
      <4> QED BY <1>1, <1>2, <4>1
    <3>5. t[R] \in Int /\ u[R] \in Int /\ f[x] \in Int /\ g[x] \in Int
      BY <1>1, <1>2, <3>1, <3>2, TotalsType
    <3> HIDE DEF x, R
    <3> QED BY <3>3, <3>4, <3>5
  <2>2. \A S \in SUBSET D : Cardinality(S) <= n + 1 => t[S] <= u[S]
    <3>1. t[{}] <= u[{}]
      BY <1>3
    <3> QED BY <2>1, <3>1
  <2> QED BY <1>5, <2>2
<1>6. P = Nat
  <2> HIDE DEF P
  <2>1. P \in SUBSET Nat
    BY DEF P
  <2> QED BY <1>4, <1>5, <2>1, AllNaturals
<1>7. Cardinality(D) \in Nat /\ D \in SUBSET D
  BY FS_CardinalityType
<1> QED BY <1>1, <1>2, <1>6, <1>7

-----------------------------------------------------------------------------
(* Sums where one summand comes, goes or changes *)

Summand(f, x) == IF x \in DOMAIN f THEN f[x] ELSE 0

LEMMA SumMoves ==
  ASSUME NEW S, NEW T, NEW x, IsFiniteSet(S), IsFiniteSet(T), S \ {x} = T \ {x},
         NEW f \in [S -> Int], NEW g \in [T -> Int], \A y \in S \ {x} : g[y] = f[y]
  PROVE  /\ Sum(f) \in Int /\ Sum(g) \in Int /\ Summand(f, x) \in Int /\ Summand(g, x) \in Int
         /\ Sum(g) = Sum(f) + Summand(g, x) - Summand(f, x)
<1> DEFINE R == S \ {x}
           h == [y \in R |-> f[y]]
<1>1. h \in [R -> Int] /\ IsFiniteSet(R)
  <2>1. IsFiniteSet(R)
    BY FS_Subset
  <2> QED BY <2>1
<1>2. Sum(h) \in Int /\ Sum(f) \in Int /\ Sum(g) \in Int
  <2> HIDE DEF h, R
  <2> QED BY <1>1, SumType
<1>3. Summand(f, x) \in Int /\ Summand(g, x) \in Int
  BY DEF Summand
<1>4. Sum(f) = Sum(h) + Summand(f, x)
  <2>1. CASE x \in S
    <3>1. h \in [S \ {x} -> Int] /\ \A y \in S \ {x} : f[y] = h[y]
      OBVIOUS
    <3> HIDE DEF h, R
    <3>2. Sum(f) = Sum(h) + f[x]
      BY <2>1, <3>1, SumExtend
    <3> QED BY <2>1, <3>2 DEF Summand
  <2>2. CASE x \notin S
    <3>1. f = h
      BY <2>2
    <3>2. Summand(f, x) = 0
      BY <2>2 DEF Summand
    <3> HIDE DEF h
    <3> QED BY <1>2, <3>1, <3>2
  <2> QED BY <2>1, <2>2
<1>5. Sum(g) = Sum(h) + Summand(g, x)
  <2>1. CASE x \in T
    <3>1. h \in [T \ {x} -> Int] /\ \A y \in T \ {x} : g[y] = h[y]
      OBVIOUS
    <3> HIDE DEF h, R
    <3>2. Sum(g) = Sum(h) + g[x]
      BY <2>1, <3>1, SumExtend
    <3> QED BY <2>1, <3>2 DEF Summand
  <2>2. CASE x \notin T
    <3>1. g = h
      BY <2>2
    <3>2. Summand(g, x) = 0
      BY <2>2 DEF Summand
    <3> HIDE DEF h
    <3> QED BY <1>2, <3>1, <3>2
  <2> QED BY <2>1, <2>2
<1> HIDE DEF h, R
<1> QED BY <1>2, <1>3, <1>4, <1>5

=============================================================================
