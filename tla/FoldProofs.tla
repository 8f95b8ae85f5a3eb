----------------------------- MODULE FoldProofs -----------------------------
(***************************************************************************)
(* Facts about what the modules compute step by step: the greatest of a    *)
(* set of numbers, the sum of a function over a finite set, and functions  *)
(* that are defined by recursion on 0..n.  Each is an induction, which is  *)
(* here the choice of a least counterexample.                              *)
(***************************************************************************)
EXTENDS FiniteSetsExt, Integers, FiniteSetTheorems, WellFoundedInduction, TLAPS

-----------------------------------------------------------------------------
(* Sums.                                                                   *)

(* What holds of a set when it holds of it without each of its elements    *)
(* holds of every subset of a finite set.                                  *)
LEMMA SubsetInduction ==
  ASSUME NEW S, IsFiniteSet(S), NEW C,
         \A T \in SUBSET S : (\A x \in T : T \ {x} \in C) => T \in C
  PROVE  \A T \in SUBSET S : T \in C
<1> DEFINE D == (SUBSET S) \ C
<1> SUFFICES ASSUME D # {} PROVE FALSE
  OBVIOUS
<1>1. /\ IsWellFoundedOn(StrictSubsetOrdering(S), FiniteSubsetsOf(S))
      /\ FiniteSubsetsOf(S) = SUBSET S
  BY FS_StrictSubsetOrderingWellFounded, FS_FiniteSubsetsOfFinite
<1>2. PICK T \in D : \A U \in D : <<U, T>> \notin StrictSubsetOrdering(S)
  <2>1. D \subseteq FiniteSubsetsOf(S) /\ D # {}
    BY <1>1
  <2> HIDE DEF D
  <2>2. QED
    BY <1>1, <2>1, WFMin
<1>3. \A x \in T : T \ {x} \in C
  <2> SUFFICES ASSUME NEW x \in T, T \ {x} \notin C PROVE FALSE
    OBVIOUS
  <2>1. T \ {x} \in D
    OBVIOUS
  <2>2. <<T \ {x}, T>> \in StrictSubsetOrdering(S)
    BY DEF StrictSubsetOrdering
  <2>3. QED
    BY <1>2, <2>1, <2>2
<1>4. QED
  BY <1>3

(* The equation by which the community modules define a sum.               *)
First(s) == CHOOSE x \in s : TRUE
IsSum(g, f, S) ==
    g = [s \in SUBSET S |-> IF s = {} THEN 0 ELSE f[First(s)] + g[s \ {First(s)}]]
SumFcn(f, S) == CHOOSE g : IsSum(g, f, S)
Sum(f, S) == SumFunctionOnSet(f, S)

LEMMA SumIsFcn == \A f, S : Sum(f, S) = SumFcn(f, S)[S]
  BY DEF Sum, SumFunctionOnSet, FoldFunctionOnSet, MapThenFoldSet, SumFcn, IsSum, First

LEMMA IsSumAt ==
  ASSUME NEW g, NEW f, NEW S, IsSum(g, f, S), NEW T \in SUBSET S
  PROVE  g[T] = IF T = {} THEN 0 ELSE f[First(T)] + g[T \ {First(T)}]
<1> DEFINE e(s) == IF s = {} THEN 0 ELSE f[First(s)] + g[s \ {First(s)}]
<1>1. g = [s \in SUBSET S |-> e(s)]
  BY Zenon DEF IsSum
<1> HIDE DEF e
<1>2. g[T] = e(T)
  BY <1>1
<1>3. QED
  BY <1>2 DEF e

LEMMA FirstIn == ASSUME NEW T, T # {} PROVE First(T) \in T
  BY DEF First

(* Two solutions for functions that agree have the same values.            *)
LEMMA SumUnique ==
  ASSUME NEW g, NEW f, NEW S, IsSum(g, f, S), NEW h, NEW f2, NEW S2, IsSum(h, f2, S2),
         NEW R, IsFiniteSet(R), R \subseteq S, R \subseteq S2, \A x \in R : f[x] = f2[x]
  PROVE  g[R] = h[R]
<1> DEFINE C == {U \in SUBSET R : g[U] = h[U]}
<1>1. ASSUME NEW T \in SUBSET R, \A x \in T : T \ {x} \in C PROVE T \in C
  <2>1. /\ g[T] = IF T = {} THEN 0 ELSE f[First(T)] + g[T \ {First(T)}]
        /\ h[T] = IF T = {} THEN 0 ELSE f2[First(T)] + h[T \ {First(T)}]
    BY IsSumAt
  <2>2. CASE T = {}
    BY <2>1, <2>2
  <2>3. CASE T # {}
    <3>1. First(T) \in T
      BY <2>3, FirstIn
    <3>2. g[T \ {First(T)}] = h[T \ {First(T)}] /\ f[First(T)] = f2[First(T)]
      BY <1>1, <3>1
    <3>3. QED
      BY <2>1, <2>3, <3>2
  <2>4. QED
    BY <2>2, <2>3
<1>2. R \in C
  <2> HIDE DEF C
  <2>1. R \in SUBSET R
    OBVIOUS
  <2>2. QED
    BY <1>1, <2>1, SubsetInduction
<1>3. QED
  BY <1>2

(* The equation has a solution, so the sum is one.                         *)
LEMMA SumExists ==
  ASSUME NEW f, NEW S, IsFiniteSet(S)
  PROVE  IsSum(SumFcn(f, S), f, S)
<1> DEFINE C == {T \in SUBSET S : \A U \in SUBSET T : IsSum(SumFcn(f, U), f, U)}
<1>1. ASSUME NEW T \in SUBSET S, \A x \in T : T \ {x} \in C PROVE T \in C
  <2> DEFINE sum(U) == SumFcn(f, U)[U]
             e(U) == IF U = {} THEN 0 ELSE f[First(U)] + sum(U \ {First(U)})
             g == [U \in SUBSET T |-> e(U)]
  <2>1. \A U \in SUBSET T : U # T => IsSum(SumFcn(f, U), f, U)
    <3> SUFFICES ASSUME NEW U \in SUBSET T, U # T PROVE IsSum(SumFcn(f, U), f, U)
      OBVIOUS
    <3>1. PICK x \in T : U \subseteq T \ {x}
      OBVIOUS
    <3>2. QED
      BY <1>1, <3>1
  <2>2. ASSUME NEW U \in SUBSET T, U # T PROVE g[U] = sum(U)
    <3> DEFINE V == U \ {First(U)}
    <3>1. sum(U) = IF U = {} THEN 0 ELSE f[First(U)] + SumFcn(f, U)[V]
      BY <2>1, <2>2, IsSumAt
    <3>2. SumFcn(f, U)[V] = SumFcn(f, V)[V]
      <4>1. V \subseteq U /\ V \in SUBSET T /\ V # T /\ IsFiniteSet(V)
        BY <2>2, FS_Subset
      <4> HIDE DEF V
      <4>2. QED
        BY <2>1, <2>2, <4>1, SumUnique
    <3>3. g[U] = IF U = {} THEN 0 ELSE f[First(U)] + SumFcn(f, V)[V]
      OBVIOUS
    <3>4. QED
      BY <3>1, <3>2, <3>3
  <2>3. ASSUME NEW U \in SUBSET T
        PROVE  g[U] = IF U = {} THEN 0 ELSE f[First(U)] + g[U \ {First(U)}]
    <3>1. g[U] = IF U = {} THEN 0 ELSE f[First(U)] + sum(U \ {First(U)})
      OBVIOUS
    <3>2. U # {} => U \ {First(U)} \in SUBSET T /\ U \ {First(U)} # T
      BY FirstIn
    <3> HIDE DEF g, sum
    <3>3. QED
      BY <2>2, <3>1, <3>2
  <2>4. IsSum(g, f, T)
    <3>1. g = [U \in SUBSET T |-> IF U = {} THEN 0 ELSE f[First(U)] + g[U \ {First(U)}]]
      <4> DEFINE d(U) == IF U = {} THEN 0 ELSE f[First(U)] + g[U \ {First(U)}]
      <4>1. g = [U \in SUBSET T |-> g[U]]
        OBVIOUS
      <4>2. \A U \in SUBSET T : g[U] = d(U)
        BY <2>3
      <4> HIDE DEF g, d
      <4>3. g = [U \in SUBSET T |-> d(U)]
        BY <4>1, <4>2
      <4>4. QED
        BY <4>3 DEF d
    <3> HIDE DEF g
    <3>2. QED
      BY <3>1, Zenon DEF IsSum
  <2>5. IsSum(SumFcn(f, T), f, T)
    <3> HIDE DEF g
    <3> QED BY <2>4, Zenon DEF SumFcn
  <2>6. QED
    BY <2>1, <2>5
<1>2. S \in C
  <2>1. S \in SUBSET S
    OBVIOUS
  <2> HIDE DEF C
  <2>2. QED
    BY <1>1, <2>1, SubsetInduction
<1>3. QED
  BY <1>2

(* The sum is the first's value and the sum of the rest.                   *)
LEMMA SumEquation ==
  ASSUME NEW f, NEW S, IsFiniteSet(S)
  PROVE  Sum(f, S) = IF S = {} THEN 0 ELSE f[First(S)] + Sum(f, S \ {First(S)})
<1> DEFINE R == S \ {First(S)}
<1>1. IsFiniteSet(R) /\ R \subseteq S
  BY FS_Subset
<1>2. IsSum(SumFcn(f, S), f, S) /\ IsSum(SumFcn(f, R), f, R)
  BY <1>1, SumExists
<1>3. SumFcn(f, S)[S] = IF S = {} THEN 0 ELSE f[First(S)] + SumFcn(f, S)[R]
  BY <1>2, IsSumAt
<1> HIDE DEF R
<1>4. SumFcn(f, S)[R] = SumFcn(f, R)[R]
  BY <1>1, <1>2, SumUnique
<1>5. QED
  BY <1>3, <1>4, SumIsFcn DEF R

(* Sums of functions that agree on the set are the same.                   *)
LEMMA SumSame ==
  ASSUME NEW S, IsFiniteSet(S), NEW f, NEW g, \A x \in S : f[x] = g[x]
  PROVE  Sum(f, S) = Sum(g, S)
<1>1. IsSum(SumFcn(f, S), f, S) /\ IsSum(SumFcn(g, S), g, S)
  BY SumExists
<1>2. SumFcn(f, S)[S] = SumFcn(g, S)[S]
  BY <1>1, SumUnique
<1>3. QED
  BY <1>2, SumIsFcn

LEMMA SumType ==
  ASSUME NEW S, IsFiniteSet(S), NEW f
  PROVE  /\ (\A x \in S : f[x] \in Int) => \A T \in SUBSET S : Sum(f, T) \in Int
         /\ (\A x \in S : f[x] \in Nat) => \A T \in SUBSET S : Sum(f, T) \in Nat
<1>1. ASSUME NEW D, D = Int \/ D = Nat, \A x \in S : f[x] \in D
      PROVE  \A T \in SUBSET S : Sum(f, T) \in D
  <2> DEFINE C == {T \in SUBSET S : Sum(f, T) \in D}
  <2>1. ASSUME NEW T \in SUBSET S, \A x \in T : T \ {x} \in C PROVE T \in C
    <3>1. Sum(f, T) = IF T = {} THEN 0 ELSE f[First(T)] + Sum(f, T \ {First(T)})
      BY FS_Subset, SumEquation
    <3>2. T # {} => f[First(T)] \in D /\ Sum(f, T \ {First(T)}) \in D
      BY <1>1, <2>1, FirstIn
    <3>3. Sum(f, T) \in D
      BY <1>1, <3>1, <3>2
    <3>4. QED
      BY <3>3
  <2>2. \A T \in SUBSET S : T \in C
    <3> HIDE DEF C
    <3> QED BY <2>1, SubsetInduction
  <2>3. QED
    BY <2>2
<1>2. QED
  BY <1>1

(* Any element may be taken out first.                                     *)
LEMMA SumTake ==
  ASSUME NEW S, IsFiniteSet(S), NEW f, \A x \in S : f[x] \in Int
  PROVE  \A T \in SUBSET S : \A y \in T : Sum(f, T) = f[y] + Sum(f, T \ {y})
<1> DEFINE C == {T \in SUBSET S : \A y \in T : Sum(f, T) = f[y] + Sum(f, T \ {y})}
<1>1. ASSUME NEW T \in SUBSET S, \A x \in T : T \ {x} \in C, NEW y \in T
      PROVE  Sum(f, T) = f[y] + Sum(f, T \ {y})
  <2> DEFINE z == First(T)
             R == (T \ {z}) \ {y}
  <2>1. Sum(f, T) = f[z] + Sum(f, T \ {z}) /\ z \in T
    BY FS_Subset, SumEquation, FirstIn
  <2>2. CASE y = z
    BY <2>1, <2>2
  <2>3. CASE y # z
    <3>1. Sum(f, T \ {z}) = f[y] + Sum(f, R)
      BY <1>1, <2>1, <2>3
    <3>2. (T \ {y}) \ {z} = R
      OBVIOUS
    <3>3. Sum(f, T \ {y}) = f[z] + Sum(f, R)
      BY <1>1, <2>1, <2>3, <3>2
    <3>4. Sum(f, R) \in Int /\ f[y] \in Int /\ f[z] \in Int
      BY <2>1, SumType
    <3> HIDE DEF z, R
    <3>5. QED
      BY <2>1, <3>1, <3>3, <3>4
  <2>4. QED
    BY <2>2, <2>3
<1>2. \A T \in SUBSET S : T \in C
  <2>1. \A T \in SUBSET S : (\A x \in T : T \ {x} \in C) => T \in C
    BY <1>1
  <2> HIDE DEF C
  <2>2. QED
    BY <2>1, SubsetInduction
<1>3. QED
  BY <1>2

(* What a sum becomes when one value changes, when an element joins, and   *)
(* when values are compared one by one.                                    *)
LEMMA SumEmpty == \A f : Sum(f, {}) = 0
  BY FS_EmptySet, SumEquation

LEMMA SumZero ==
  ASSUME NEW S, IsFiniteSet(S), NEW f, \A x \in S : f[x] = 0
  PROVE  Sum(f, S) = 0
<1> DEFINE C == {T \in SUBSET S : Sum(f, T) = 0}
<1>1. ASSUME NEW T \in SUBSET S, \A x \in T : T \ {x} \in C PROVE T \in C
  <2>1. Sum(f, T) = IF T = {} THEN 0 ELSE f[First(T)] + Sum(f, T \ {First(T)})
    BY FS_Subset, SumEquation
  <2>2. T # {} => f[First(T)] = 0 /\ Sum(f, T \ {First(T)}) = 0
    BY <1>1, FirstIn
  <2>3. QED
    BY <2>1, <2>2
<1>2. S \in SUBSET S
  OBVIOUS
<1> HIDE DEF C
<1>3. S \in C
  BY <1>1, <1>2, SubsetInduction
<1>4. QED
  BY <1>3 DEF C

LEMMA SumChange ==
  ASSUME NEW S, IsFiniteSet(S), NEW y \in S, NEW f, NEW g,
         \A x \in S : f[x] \in Int, g[y] \in Int, \A x \in S : x # y => g[x] = f[x]
  PROVE  /\ Sum(f, S) \in Int
         /\ Sum(g, S) = Sum(f, S) + (g[y] - f[y])
<1> DEFINE R == S \ {y}
<1>1. /\ Sum(f, S) = f[y] + Sum(f, R) /\ Sum(f, R) \in Int
      /\ Sum(g, S) = g[y] + Sum(g, R)
  <2>1. \A x \in S : g[x] \in Int
    OBVIOUS
  <2>2. QED
    BY <2>1, SumTake, SumType
<1>2. Sum(g, R) = Sum(f, R)
  <2>1. IsFiniteSet(R) /\ \A x \in R : g[x] = f[x]
    BY FS_Subset
  <2> HIDE DEF R
  <2>2. QED
    BY <2>1, SumSame
<1> HIDE DEF R
<1>3. QED
  BY <1>1, <1>2

LEMMA SumJoin ==
  ASSUME NEW S, IsFiniteSet(S), NEW y, y \notin S, NEW f, \A x \in S \cup {y} : f[x] \in Int
  PROVE  Sum(f, S \cup {y}) = f[y] + Sum(f, S) /\ Sum(f, S) \in Int
<1> DEFINE T == S \cup {y}
<1>1. IsFiniteSet(T) /\ T \ {y} = S /\ y \in T
  BY FS_AddElement
<1>2. \A x \in T : f[x] \in Int
  OBVIOUS
<1>3. T \in SUBSET T /\ S \in SUBSET T
  OBVIOUS
<1> HIDE DEF T
<1>4. Sum(f, T) = f[y] + Sum(f, S) /\ Sum(f, S) \in Int
  BY <1>1, <1>2, <1>3, SumTake, SumType
<1>5. QED
  BY <1>4 DEF T

-----------------------------------------------------------------------------
(* Numbers.                                                                *)

NatPairs == {p \in Nat \X Nat : p[1] < p[2]}

LEMMA NatPairsWellFounded == IsWellFoundedOn(NatPairs, Nat)
  BY NatLessThanWellFounded, Zenon DEF OpToRel, NatPairs

(* Max chooses an element, and the greatest. *)
LEMMA MaxIsGreatest ==
  ASSUME NEW m \in Nat, NEW T, T \subseteq 0..m, T # {}
  PROVE  Max(T) \in T /\ \A y \in T : y <= Max(T)
<1> DEFINE U == {n \in Nat : m - n \in T}
<1>1. U # {} /\ U \subseteq Nat
  <2>1. PICK t \in T : TRUE
    OBVIOUS
  <2>2. t \in 0..m /\ m - t \in Nat /\ m - (m - t) = t
    OBVIOUS
  <2>3. m - t \in U
    BY <2>2
  <2>4. QED
    BY <2>3
<1>2. PICK x \in U : \A y \in U : <<y, x>> \notin NatPairs
  <2> HIDE DEF U
  <2> QED
    BY <1>1, NatPairsWellFounded, WFMin
<1>3. m - x \in T /\ x \in Nat
  OBVIOUS
<1>4. \A y \in T : y <= m - x
  <2> SUFFICES ASSUME NEW y \in T, y > m - x PROVE FALSE
    OBVIOUS
  <2>1. m - y \in Nat /\ m - (m - y) = y
    OBVIOUS
  <2>2. m - y \in U
    BY <2>1
  <2>3. m - y < x
    BY <2>1
  <2>4. <<m - y, x>> \in NatPairs
    BY <1>3, <2>1, <2>3 DEF NatPairs
  <2>5. QED
    BY <1>2, <2>2, <2>4
<1>5. \E z \in T : \A y \in T : z >= y
  BY <1>3, <1>4
<1>6. Max(T) \in T /\ \A y \in T : Max(T) >= y
  BY <1>5 DEF Max
<1>7. QED
  BY <1>6

LEMMA StepByStep ==
  ASSUME NEW C, 0 \in C, \A n \in Nat : n \in C => n + 1 \in C
  PROVE  Nat \subseteq C
<1> DEFINE D == Nat \ C
<1> SUFFICES ASSUME D # {} PROVE FALSE
  OBVIOUS
<1>1. PICK n \in D : \A m \in D : <<m, n>> \notin NatPairs
  <2>1. D \subseteq Nat
    OBVIOUS
  <2> HIDE DEF D
  <2>2. QED
    BY <2>1, NatPairsWellFounded, WFMin
<1>2. n \in Nat /\ n # 0 /\ n - 1 \in Nat /\ (n - 1) + 1 = n
  OBVIOUS
<1>3. n - 1 \in D
  BY <1>2
<1>4. <<n - 1, n>> \in NatPairs
  BY <1>2 DEF NatPairs
<1>5. QED
  BY <1>1, <1>3, <1>4

LEMMA StepsUpTo ==
  ASSUME NEW n \in Nat, NEW C, 0 \in C, \A i \in 1..n : i - 1 \in C => i \in C
  PROVE  0..n \subseteq C
<1> DEFINE D == {m \in Nat : m <= n => m \in C}
<1>1. 0 \in D
  OBVIOUS
<1>2. ASSUME NEW m \in Nat, m \in D PROVE m + 1 \in D
  <2>1. m + 1 <= n => m + 1 \in 1..n /\ (m + 1) - 1 = m /\ m \in C
    BY <1>2
  <2>2. QED
    BY <2>1
<1> HIDE DEF D
<1>3. Nat \subseteq D
  BY <1>1, <1>2, StepByStep
<1>4. QED
  BY <1>3 DEF D

(* A function on 0..n may be defined by its first value and its steps.     *)
StaysIn(D, n, F) == \A i \in 1..n, x \in D : F[<<i, x>>] \in D

LEMMA StepsExist ==
  ASSUME NEW D, NEW a \in D, NEW n \in Nat, NEW F, StaysIn(D, n, F)
  PROVE  \E g \in [0..n -> D] : g[0] = a /\ \A i \in 1..n : g[i] = F[<<i, g[i - 1]>>]
<1> USE DEF StaysIn
<1> DEFINE Steps(g, m) == g \in [0..m -> D] /\ g[0] = a /\ \A i \in 1..m : g[i] = F[<<i, g[i - 1]>>]
           C == {m \in Nat : m <= n => \E g : Steps(g, m)}
<1>1. 0 \in C
  <2> DEFINE g == [i \in 0..0 |-> a]
  <2>1. g \in [0..0 -> D] /\ g[0] = a /\ 1..0 = {}
    OBVIOUS
  <2> HIDE DEF g
  <2>2. Steps(g, 0)
    BY <2>1
  <2>3. QED
    BY <2>2
<1>2. ASSUME NEW m \in Nat, m \in C, m + 1 <= n PROVE \E g : Steps(g, m + 1)
  <2>1. PICK g : Steps(g, m)
    BY <1>2
  <2> DEFINE h == [i \in 0..(m + 1) |-> IF i = m + 1 THEN F[<<m + 1, g[m]>>] ELSE g[i]]
  <2>2. /\ \A i \in 0..m : h[i] = g[i]
        /\ h[m + 1] = F[<<m + 1, g[m]>>] /\ g[m] \in D /\ h[m + 1] \in D
    BY <1>2, <2>1
  <2>3. h \in [0..(m + 1) -> D]
    BY <2>1, <2>2
  <2> HIDE DEF h
  <2>4. h[0] = a
    BY <2>1, <2>2
  <2>5. \A i \in 1..(m + 1) : h[i] = F[<<i, h[i - 1]>>]
    <3> SUFFICES ASSUME NEW i \in 1..(m + 1) PROVE h[i] = F[<<i, h[i - 1]>>]
      OBVIOUS
    <3>1. i - 1 \in 0..m /\ h[i - 1] = g[i - 1]
      BY <2>2
    <3>2. CASE i = m + 1
      BY <2>2, <3>1, <3>2
    <3>3. CASE i # m + 1
      <4>1. i \in 1..m /\ i \in 0..m
        BY <3>3
      <4>2. QED
        BY <2>1, <2>2, <3>1, <4>1
    <3>4. QED
      BY <3>2, <3>3
  <2>6. QED
    BY <2>3, <2>4, <2>5
<1>3. n \in C
  <2>1. \A m \in Nat : m \in C => m + 1 \in C
    BY <1>2
  <2> HIDE DEF C
  <2>2. QED
    BY <1>1, <2>1, StepByStep
<1>4. QED
  BY <1>3

=============================================================================
