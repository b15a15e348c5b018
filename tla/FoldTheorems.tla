---------------------------- MODULE FoldTheorems ----------------------------
(***************************************************************************)
(* Lemmas about recursion over data: induction on the natural numbers and  *)
(* on the subsets of a finite set, that folds are defined, sums over       *)
(* finite sets, folds over sequences, and that finite sets can be sorted.  *)
(*                                                                         *)
(* Everything is a fact about sets and functions, and no lemma takes an    *)
(* operator, so that the provers can use each of them: who applies one     *)
(* gives the set of the values for which his claim holds, or the step of   *)
(* his fold as a function.                                                 *)
(***************************************************************************)
EXTENDS SequencesExt, FiniteSetsExt, Integers, FiniteSetTheorems, WellFoundedInduction, TLAPS

\* Induction on the natural numbers.
LEMMA SetInduction ==
    ASSUME NEW S, 0 \in S, \A n \in Nat : n \in S => n + 1 \in S
    PROVE  Nat \subseteq S
<1> SUFFICES ASSUME NEW m \in Nat, m \notin S PROVE FALSE
  OBVIOUS
<1> DEFINE R == OpToRel(<, Nat)
           T == Nat \ S
<1>1. R = {ss \in Nat \X Nat : ss[1] < ss[2]}
  BY DEF OpToRel
<1>2. IsWellFoundedOn(R, Nat)
  BY NatLessThanWellFounded
<1> HIDE DEF R
<1>3. T \subseteq Nat /\ T # {}
  OBVIOUS
<1> HIDE DEF T
<1>4. PICK x \in T : \A y \in T : ~(<<y, x>> \in R)
  BY <1>2, <1>3, WFMin
<1>5. x \in Nat /\ x \notin S /\ x # 0
  BY DEF T
<1>6. x - 1 \in Nat /\ (x - 1) + 1 = x
  BY <1>5
<1>7. x - 1 \in T
  BY <1>5, <1>6 DEF T
<1>8. <<x - 1, x>> \in R
  BY <1>1, <1>5, <1>6
<1> QED BY <1>4, <1>7, <1>8

-----------------------------------------------------------------------------
(* Folds: a nonempty set is reduced by the element that pick names, what is  *)
(* left is folded, and the element is added by step.                         *)

Picks(pick, S) == \A s \in SUBSET S : s # {} => pick[s] \in s

StaysIn(V, step, S) == \A x \in S, v \in V : step[x][v] \in V

IsFold(f, S, V, base, pick, step) ==
    /\ f \in [SUBSET S -> V]
    /\ \A s \in SUBSET S :
         f[s] = IF s = {} THEN base ELSE step[pick[s]][f[s \ {pick[s]}]]

\* Every fold over a finite set is defined.
LEMMA FoldExists ==
    ASSUME NEW S, IsFiniteSet(S), NEW V, NEW base \in V,
           NEW pick, Picks(pick, S), NEW step, StaysIn(V, step, S)
    PROVE  \E f : IsFold(f, S, V, base, pick, step)
<1> DEFINE Small(n) == {s \in SUBSET S : Cardinality(s) <= n}
           Solves(f, n) ==
             \A s \in Small(n) :
               f[s] = IF s = {} THEN base ELSE step[pick[s]][f[s \ {pick[s]}]]
           Solved == {n \in Nat : \E f \in [Small(n) -> V] : Solves(f, n)}
<1>1. \A s \in SUBSET S : IsFiniteSet(s) /\ Cardinality(s) \in Nat
  BY FS_Subset, FS_CardinalityType
<1>2. ASSUME NEW s \in SUBSET S, s # {}
      PROVE  /\ pick[s] \in s /\ s \ {pick[s]} \in SUBSET S
             /\ Cardinality(s \ {pick[s]}) = Cardinality(s) - 1
  BY <1>1, <1>2, FS_RemoveElement DEF Picks
<1>3. 0 \in Solved
  <2> DEFINE f == [s \in Small(0) |-> base]
  <2>1. \A s \in Small(0) : s = {}
    BY <1>1, FS_EmptySet
  <2>2. f \in [Small(0) -> V] /\ Solves(f, 0)
    BY <2>1
  <2> QED BY <2>2
<1>4. ASSUME NEW n \in Nat, n \in Solved
      PROVE  n + 1 \in Solved
  <2>1. PICK f \in [Small(n) -> V] : Solves(f, n)
    BY <1>4
  <2> DEFINE g == [s \in Small(n + 1) |->
                     IF s = {} THEN base ELSE step[pick[s]][f[s \ {pick[s]}]]]
  <2>2. ASSUME NEW s \in Small(n + 1), s # {}
        PROVE  s \ {pick[s]} \in Small(n) /\ pick[s] \in S
    BY <1>1, <1>2, <2>2
  <2>3. \A s \in Small(n) : s \in Small(n + 1)
    BY <1>1
  <2> HIDE DEF Small
  <2>4. \A s \in Small(n) : g[s] = f[s]
    BY <2>1, <2>3
  <2>5. g \in [Small(n + 1) -> V]
    BY <2>1, <2>2 DEF StaysIn
  <2>6. Solves(g, n + 1)
    <3> SUFFICES ASSUME NEW s \in Small(n + 1)
                 PROVE  g[s] = IF s = {} THEN base ELSE step[pick[s]][g[s \ {pick[s]}]]
      OBVIOUS
    <3>1. g[s] = IF s = {} THEN base ELSE step[pick[s]][f[s \ {pick[s]}]]
      OBVIOUS
    <3>2. s # {} => g[s \ {pick[s]}] = f[s \ {pick[s]}]
      BY <2>2, <2>4
    <3> QED BY <3>1, <3>2
  <2> HIDE DEF g, Solves
  <2> QED BY <2>5, <2>6
<1>5. Nat \subseteq Solved
  <2> HIDE DEF Solved
  <2> QED BY <1>3, <1>4, SetInduction
<1>6. Small(Cardinality(S)) = SUBSET S
  <2>1. \A s \in SUBSET S : Cardinality(s) <= Cardinality(S)
    BY FS_Subset
  <2> QED BY <2>1
<1>7. PICK f \in [Small(Cardinality(S)) -> V] : Solves(f, Cardinality(S))
  BY <1>1, <1>5
<1>8. IsFold(f, S, V, base, pick, step)
  BY <1>6, <1>7 DEF IsFold
<1> QED BY <1>8

\* What holds of {} and of every set that is reduced to one of which it holds,
\* holds of all subsets.
LEMMA SubsetInduction ==
    ASSUME NEW S, IsFiniteSet(S), NEW C, {} \in C,
           NEW pick, Picks(pick, S),
           \A s \in SUBSET S : s # {} /\ s \ {pick[s]} \in C => s \in C
    PROVE  SUBSET S \subseteq C
<1> DEFINE Done == {n \in Nat : \A s \in SUBSET S : Cardinality(s) <= n => s \in C}
<1>1. \A s \in SUBSET S : IsFiniteSet(s) /\ Cardinality(s) \in Nat
  BY FS_Subset, FS_CardinalityType
<1>2. 0 \in Done
  <2>1. ASSUME NEW s \in SUBSET S, Cardinality(s) <= 0 PROVE s = {}
    BY <1>1, <2>1, FS_EmptySet
  <2> QED BY <2>1
<1>3. ASSUME NEW n \in Nat, n \in Done
      PROVE  n + 1 \in Done
  <2>1. ASSUME NEW s \in SUBSET S, Cardinality(s) <= n + 1, s # {}
        PROVE  s \in C
    <3>1. Cardinality(s \ {pick[s]}) = Cardinality(s) - 1
      BY <1>1, <2>1, FS_RemoveElement DEF Picks
    <3>2. Cardinality(s \ {pick[s]}) <= n
      BY <1>1, <2>1, <3>1
    <3> QED BY <1>3, <2>1, <3>2 DEF Picks
  <2>2. \A s \in SUBSET S : Cardinality(s) <= n + 1 => s \in C
    BY <2>1
  <2> QED BY <2>2
<1>4. Nat \subseteq Done
  <2> HIDE DEF Done
  <2> QED BY <1>2, <1>3, SetInduction
<1>5. ASSUME NEW s \in SUBSET S PROVE s \in C
  <2>1. Cardinality(s) \in Done
    BY <1>1, <1>4
  <2> QED BY <1>1, <2>1
<1> QED BY <1>5

-----------------------------------------------------------------------------
(* Sums over finite sets. *)

Weights(w, S) == \A x \in S : w[x] \in Nat

\* f adds up the weights w over the subsets of S.
IsSum(f, S, w) ==
    /\ f \in [SUBSET S -> Nat]
    /\ \A s \in SUBSET S :
         f[s] = IF s = {} THEN 0
                ELSE w[CHOOSE x \in s : TRUE] + f[s \ {CHOOSE x \in s : TRUE}]

LEMMA SumSolves ==
    ASSUME NEW S, IsFiniteSet(S), NEW w, Weights(w, S)
    PROVE  \E f : IsSum(f, S, w)
<1> DEFINE pick == [s \in SUBSET S |-> CHOOSE x \in s : TRUE]
           step == [x \in S |-> [v \in Nat |-> w[x] + v]]
<1>1. Picks(pick, S)
  BY DEF Picks
<1>2. \A x \in S, v \in Nat : step[x][v] = w[x] + v
  OBVIOUS
<1>3. \A s \in SUBSET S : pick[s] = CHOOSE x \in s : TRUE
  OBVIOUS
<1>4. StaysIn(Nat, step, S)
  BY DEF StaysIn, Weights
<1> HIDE DEF pick, step
<1>5. PICK f : IsFold(f, S, Nat, 0, pick, step)
  BY <1>1, <1>4, FoldExists
<1>6. f \in [SUBSET S -> Nat] /\ f[{}] = 0
  BY <1>5 DEF IsFold
<1>7. ASSUME NEW s \in SUBSET S, s # {}
      PROVE  f[s] = w[CHOOSE x \in s : TRUE] + f[s \ {CHOOSE x \in s : TRUE}]
  <2>1. pick[s] \in S /\ f[s \ {pick[s]}] \in Nat
    BY <1>1, <1>6, <1>7 DEF Picks
  <2>2. f[s] = step[pick[s]][f[s \ {pick[s]}]]
    BY <1>5, <1>7 DEF IsFold
  <2>3. f[s] = w[pick[s]] + f[s \ {pick[s]}]
    BY <1>2, <2>1, <2>2
  <2> QED BY <1>3, <2>3
<1>8. IsSum(f, S, w)
  BY <1>6, <1>7 DEF IsSum
<1> QED BY <1>8

\* The equation of a sum.
Adds(f, S, w) ==
    f = [s \in SUBSET S |->
           IF s = {} THEN 0
           ELSE w[CHOOSE x \in s : TRUE] + f[s \ {CHOOSE x \in s : TRUE}]]

LEMMA AddsIsSum ==
    ASSUME NEW S, IsFiniteSet(S), NEW w, Weights(w, S),
           NEW f, Adds(f, S, w)
    PROVE  IsSum(f, S, w)
<1> DEFINE pick == [s \in SUBSET S |-> CHOOSE x \in s : TRUE]
           C == {s \in SUBSET S : f[s] \in Nat}
<1>1. Picks(pick, S)
  BY DEF Picks
<1>2. \A s \in SUBSET S : pick[s] = CHOOSE x \in s : TRUE
  OBVIOUS
<1>3. f[{}] = 0
  BY DEF Adds
<1> HIDE DEF pick
<1>4. \A s \in SUBSET S : s # {} => f[s] = w[pick[s]] + f[s \ {pick[s]}]
  BY <1>2 DEF Adds
<1>5. ASSUME NEW s \in SUBSET S, s # {}, s \ {pick[s]} \in C
      PROVE  s \in C
  <2>1. f[s \ {pick[s]}] \in Nat /\ w[pick[s]] \in Nat
    BY <1>1, <1>5 DEF Picks, Weights
  <2> QED BY <1>4, <1>5, <2>1
<1>6. {} \in C
  BY <1>3
<1>7. SUBSET S \subseteq C
  <2> HIDE DEF C
  <2> QED BY <1>1, <1>5, <1>6, SubsetInduction
<1>8. \A s \in SUBSET S : f[s] \in Nat
  BY <1>7
<1>9. f = [s \in SUBSET S |-> f[s]]
  BY DEF Adds
<1> QED BY <1>2, <1>3, <1>4, <1>8, <1>9 DEF IsSum

\* The sum over S is a natural number that can be taken apart at any element.
LEMMA SumIsSum ==
    ASSUME NEW S, IsFiniteSet(S), NEW w, Weights(w, S)
    PROVE  \E f : IsSum(f, S, w) /\ SumFunctionOnSet(w, S) = f[S]
<1> DEFINE f == CHOOSE g : Adds(g, S, w)
<1>1. PICK g : IsSum(g, S, w)
  BY SumSolves
<1>2. Adds(g, S, w)
  BY <1>1 DEF IsSum, Adds
<1>3. Adds(f, S, w)
  BY <1>2
<1>4. SumFunctionOnSet(w, S) = f[S]
  BY DEF SumFunctionOnSet, FoldFunctionOnSet, MapThenFoldSet, Adds
<1> HIDE DEF f
<1>5. IsSum(f, S, w)
  BY <1>3, AddsIsSum
<1> QED BY <1>4, <1>5

\* The order in which a sum adds its elements does not matter.
LEMMA SumTakesApart ==
    ASSUME NEW S, IsFiniteSet(S), NEW w, Weights(w, S),
           NEW f, IsSum(f, S, w), NEW T \in SUBSET S, NEW y \in T
    PROVE  f[T] = w[y] + f[T \ {y}]
<1> DEFINE Done == {n \in Nat : \A s \in SUBSET S : Cardinality(s) <= n =>
                                  \A x \in s : f[s] = w[x] + f[s \ {x}]}
<1>1. \A s \in SUBSET S : IsFiniteSet(s) /\ Cardinality(s) \in Nat /\ f[s] \in Nat
  BY FS_Subset, FS_CardinalityType DEF IsSum
<1>2. 0 \in Done
  <2>1. ASSUME NEW s \in SUBSET S, Cardinality(s) <= 0 PROVE s = {}
    BY <1>1, <2>1, FS_EmptySet
  <2> QED BY <2>1
<1>3. ASSUME NEW n \in Nat, n \in Done
      PROVE  n + 1 \in Done
  <2>1. ASSUME NEW s \in SUBSET S, Cardinality(s) <= n + 1, NEW x \in s
        PROVE  f[s] = w[x] + f[s \ {x}]
    <3> DEFINE c == CHOOSE z \in s : TRUE
    <3>1. c \in s /\ f[s] = w[c] + f[s \ {c}]
      BY DEF IsSum
    <3> HIDE DEF c
    <3>2. \A z \in s : Cardinality(s \ {z}) <= n
      BY <1>1, <2>1, FS_RemoveElement
    <3>3. ASSUME x # c
          PROVE  /\ f[s \ {c}] = w[x] + f[(s \ {c}) \ {x}]
                 /\ f[s \ {x}] = w[c] + f[(s \ {x}) \ {c}]
      BY <1>3, <3>1, <3>2, <3>3
    <3>4. (s \ {c}) \ {x} = (s \ {x}) \ {c}
      OBVIOUS
    <3>5. w[x] \in Nat /\ w[c] \in Nat /\ f[(s \ {x}) \ {c}] \in Nat
      BY <1>1, <3>1 DEF Weights
    <3> QED BY <3>1, <3>3, <3>4, <3>5
  <2> QED BY <2>1
<1>4. Nat \subseteq Done
  <2> HIDE DEF Done
  <2> QED BY <1>2, <1>3, SetInduction
<1>5. Cardinality(T) \in Done
  BY <1>1, <1>4
<1> QED BY <1>1, <1>5

\* What a sum says of a set does not depend on what else it sums.
LEMMA SumsAgree ==
    ASSUME NEW S, IsFiniteSet(S), NEW w, NEW f, IsSum(f, S, w),
           NEW T \in SUBSET S, NEW g, IsSum(g, T, w)
    PROVE  f[T] = g[T]
<1> DEFINE pick == [s \in SUBSET T |-> CHOOSE x \in s : TRUE]
           C == {s \in SUBSET T : f[s] = g[s]}
<1>1. Picks(pick, T) /\ IsFiniteSet(T)
  BY FS_Subset DEF Picks
<1>2. \A s \in SUBSET T : pick[s] = CHOOSE x \in s : TRUE
  OBVIOUS
<1> HIDE DEF pick
<1>3. {} \in C
  BY DEF IsSum
<1>4. ASSUME NEW s \in SUBSET T, s # {}, s \ {pick[s]} \in C
      PROVE  s \in C
  <2>1. s \in SUBSET S
    OBVIOUS
  <2>2. f[s] = w[pick[s]] + f[s \ {pick[s]}]
    BY <1>2, <1>4, <2>1 DEF IsSum
  <2>3. g[s] = w[pick[s]] + g[s \ {pick[s]}]
    BY <1>2, <1>4, <2>1 DEF IsSum
  <2> QED BY <1>4, <2>2, <2>3
<1>5. SUBSET T \subseteq C
  <2> HIDE DEF C
  <2> QED BY <1>1, <1>3, <1>4, SubsetInduction
<1> QED BY <1>5

-----------------------------------------------------------------------------
(* Folds from left to right: the largest index is added last. *)

LEMMA MaxOfIndices ==
    ASSUME NEW n \in Nat, NEW s \in SUBSET (1 .. n), s # {}
    PROVE  Max(s) \in s /\ \A y \in s : Max(s) >= y
<1> DEFINE Left == {k \in Nat : \A y \in s : y <= n - k}
<1>1. PICK z \in s : TRUE
  OBVIOUS
<1>2. 0 \in Left /\ n \notin Left
  BY <1>1
<1>3. PICK k \in Nat : k \in Left /\ k + 1 \notin Left
  <2> HIDE DEF Left
  <2> QED BY <1>2, SetInduction
<1>4. PICK y \in s : ~(y <= n - (k + 1))
  BY <1>3
<1>5. y = n - k
  BY <1>3, <1>4
<1>6. \A x \in s : y >= x
  BY <1>3, <1>5
<1> HIDE DEF Left
<1>7. \E x \in s : \A t \in s : x >= t
  BY <1>6
<1> QED BY <1>7 DEF Max

LEMMA LastIndex ==
    ASSUME NEW n \in Nat, NEW k \in 1 .. n
    PROVE  /\ 1 .. k \in SUBSET (1 .. n) /\ 1 .. k # {}
           /\ Max(1 .. k) = k /\ (1 .. k) \ {k} = 1 .. (k - 1)
<1> DEFINE s == 1 .. k
<1>1. s \in SUBSET (1 .. n) /\ k \in s /\ \A y \in s : y \in Nat /\ y <= k
  OBVIOUS
<1>2. (1 .. k) \ {k} = 1 .. (k - 1)
  OBVIOUS
<1>3. Max(s) \in Nat /\ Max(s) >= k /\ Max(s) <= k
  <2> HIDE DEF s
  <2>1. Max(s) \in s /\ Max(s) >= k
    BY <1>1, MaxOfIndices
  <2> QED BY <1>1, <2>1
<1> QED BY <1>1, <1>2, <1>3

\* What is folded in this order is defined if step stays in V.
LEMMA LeftFoldExists ==
    ASSUME NEW n \in Nat, NEW V, NEW base \in V, NEW step, StaysIn(V, step, 1 .. n)
    PROVE  \E f : IsFold(f, 1 .. n, V, base, [s \in SUBSET (1 .. n) |-> Max(s)], step)
<1> DEFINE pick == [s \in SUBSET (1 .. n) |-> Max(s)]
           S == 1 .. n
<1>1. IsFiniteSet(S)
  BY FS_Interval
<1>2. \A s \in SUBSET S : s # {} => Max(s) \in s
  BY MaxOfIndices
<1> HIDE DEF S
<1>3. \A s \in SUBSET S : pick[s] = Max(s)
  BY DEF S
<1>4. Picks(pick, S)
  <2> HIDE DEF pick
  <2> QED BY <1>2, <1>3 DEF Picks
<1>5. \E f : IsFold(f, S, V, base, pick, step)
  <2> HIDE DEF pick
  <2>1. StaysIn(V, step, S)
    BY DEF S
  <2> QED BY <1>1, <1>4, <2>1, FoldExists
<1> QED BY <1>5 DEF S

\* f folds from left to right as long as its values stay in V.
FoldsLeft(f, n, V, base, step) ==
    /\ f[{}] = base
    /\ \A s \in SUBSET (1 .. n) :
         s # {} /\ f[s \ {Max(s)}] \in V => f[s] = step[Max(s)][f[s \ {Max(s)}]]

\* acc[k] is what the fold has made of the first k elements.
Accumulates(acc, n, V, base, step) ==
    /\ acc \in [0 .. n -> V] /\ acc[0] = base
    /\ \A k \in 1 .. n : acc[k] = step[k][acc[k - 1]]

LEMMA LeftFoldSteps ==
    ASSUME NEW n \in Nat, NEW V, NEW base \in V, NEW step, StaysIn(V, step, 1 .. n),
           NEW f, FoldsLeft(f, n, V, base, step)
    PROVE  \E acc : Accumulates(acc, n, V, base, step) /\ acc[n] = f[1 .. n]
<1> DEFINE Done == {k \in Nat : k <= n => f[1 .. k] \in V}
           acc == [k \in 0 .. n |-> f[1 .. k]]
<1>1. f[1 .. 0] = base
  BY DEF FoldsLeft
<1>2. \A k \in 1 .. n : f[1 .. (k - 1)] \in V => f[1 .. k] = step[k][f[1 .. (k - 1)]]
  BY LastIndex DEF FoldsLeft
<1>3. 0 \in Done
  BY <1>1
<1>4. ASSUME NEW k \in Nat, k \in Done
      PROVE  k + 1 \in Done
  <2> SUFFICES ASSUME k + 1 <= n PROVE f[1 .. (k + 1)] \in V
    OBVIOUS
  <2>1. k + 1 \in 1 .. n /\ (k + 1) - 1 = k /\ f[1 .. k] \in V
    BY <1>4
  <2>2. f[1 .. (k + 1)] = step[k + 1][f[1 .. k]]
    BY <1>2, <2>1
  <2> QED BY <2>1, <2>2 DEF StaysIn
<1>5. Nat \subseteq Done
  <2> HIDE DEF Done
  <2> QED BY <1>3, <1>4, SetInduction
<1>6. acc \in [0 .. n -> V]
  BY <1>5
<1>7. acc[0] = base /\ acc[n] = f[1 .. n]
  BY <1>1
<1>8. \A k \in 1 .. n : acc[k] = step[k][acc[k - 1]]
  <2> TAKE k \in 1 .. n
  <2>1. k \in 0 .. n /\ k - 1 \in 0 .. n /\ f[1 .. (k - 1)] \in V
    BY <1>5
  <2> QED BY <1>2, <2>1
<1> HIDE DEF acc
<1> QED BY <1>6, <1>7, <1>8 DEF Accumulates

-----------------------------------------------------------------------------
(* The least element, and lists in the order of a key. *)

LEMMA MinOfIndices ==
    ASSUME NEW n \in Nat, NEW s \in SUBSET (1 .. n), s # {}
    PROVE  Min(s) \in s /\ \A y \in s : Min(s) <= y
<1> DEFINE Right == {k \in Nat : \A y \in s : y >= k}
<1>1. PICK z \in s : TRUE
  OBVIOUS
<1>2. 0 \in Right /\ n + 1 \notin Right
  BY <1>1
<1>3. PICK k \in Nat : k \in Right /\ k + 1 \notin Right
  <2> HIDE DEF Right
  <2> QED BY <1>2, SetInduction
<1>4. PICK y \in s : ~(y >= k + 1)
  BY <1>3
<1>5. y = k
  BY <1>3, <1>4
<1>6. \A x \in s : y <= x
  BY <1>3, <1>5
<1> HIDE DEF Right
<1>7. \E x \in s : \A t \in s : x =< t
  BY <1>6
<1> QED BY <1>7 DEF Min

\* Each element has a key of its own.
Keys(key, S) ==
    /\ \A x \in S : key[x] \in Nat
    /\ \A x, y \in S : key[x] = key[y] => x = y

\* A finite set can be listed in the order of its keys.
LEMMA SortExists ==
    ASSUME NEW S, IsFiniteSet(S), NEW key, Keys(key, S)
    PROVE  \E s \in SetToSeqs(S) :
             \A i, j \in DOMAIN s : i < j => key[s[i]] < key[s[j]]
<1> DEFINE n == Cardinality(S)
           Below(c) == {d \in S : key[d] < key[c]}
           rank == [c \in S |-> Cardinality(Below(c)) + 1]
<1>1. /\ n \in Nat /\ IsFiniteSet(1 .. n) /\ Cardinality(1 .. n) = n
      /\ \A c \in S : key[c] \in Nat
      /\ \A c, d \in S : key[c] = key[d] => c = d
  <2>1. n \in Nat
    BY FS_CardinalityType
  <2> HIDE DEF n
  <2>2. IsFiniteSet(1 .. n) /\ Cardinality(1 .. n) = n
    BY <2>1, FS_Interval
  <2> QED BY <2>1, <2>2 DEF Keys
<1>2. \A c \in S : IsFiniteSet(Below(c)) /\ Cardinality(Below(c)) \in Nat
  BY <1>1, FS_Subset, FS_CardinalityType
<1>3. ASSUME NEW c \in S, NEW d \in S, key[c] < key[d]
      PROVE  Cardinality(Below(c)) < Cardinality(Below(d))
  <2>1. Below(c) \cup {c} \in SUBSET Below(d) /\ c \notin Below(c)
    BY <1>1, <1>3
  <2> HIDE DEF Below
  <2>2. Cardinality(Below(c) \cup {c}) = Cardinality(Below(c)) + 1
    BY <1>2, <2>1, FS_AddElement
  <2>3. Cardinality(Below(c) \cup {c}) <= Cardinality(Below(d))
    BY <1>2, <2>1, FS_Subset
  <2> QED BY <1>2, <2>2, <2>3
<1>4. ASSUME NEW c \in S
      PROVE  Cardinality(Below(c)) <= n - 1
  <2>1. Below(c) \in SUBSET (S \ {c})
    BY <1>1
  <2>2. IsFiniteSet(S \ {c}) /\ Cardinality(S \ {c}) = n - 1
    BY <1>1, FS_RemoveElement
  <2> HIDE DEF Below, n
  <2> QED BY <2>1, <2>2, FS_Subset
<1>5. rank \in [S -> 1 .. n]
  <2>1. \A c \in S : Cardinality(Below(c)) + 1 \in 1 .. n
    <3> HIDE DEF Below, n
    <3> QED BY <1>1, <1>2, <1>4
  <2> QED BY <2>1
<1>6. \A c, d \in S : key[c] < key[d] => rank[c] < rank[d]
  <2> HIDE DEF Below
  <2> QED BY <1>2, <1>3
<1> HIDE DEF rank, Below, n
<1>7. \A c, d \in S : rank[c] < rank[d] => key[c] < key[d]
  BY <1>1, <1>5, <1>6
<1>8. rank \in Surjection(S, 1 .. n)
  <2>1. \A c, d \in S : rank[c] = rank[d] => c = d
    BY <1>1, <1>5, <1>6
  <2>2. rank \in Injection(S, 1 .. n)
    BY <1>5, <2>1 DEF Injection, IsInjective
  <2> QED BY <1>1, <2>2, FS_Injection DEF n
<1> DEFINE s == [i \in 1 .. n |-> CHOOSE c \in S : rank[c] = i]
<1>9. \A i \in 1 .. n : s[i] \in S /\ rank[s[i]] = i
  BY <1>8 DEF Surjection
<1>10. DOMAIN s = 1 .. n
  OBVIOUS
<1>11. s \in [1 .. n -> S]
  BY <1>9
<1> HIDE DEF s
<1>12. s \in SetToSeqs(S)
  BY <1>9, <1>11 DEF SetToSeqs, n
<1>13. \A i, j \in DOMAIN s : i < j => key[s[i]] < key[s[j]]
  BY <1>7, <1>9, <1>10
<1> QED BY <1>12, <1>13

\* Such a list has every element.
LEMMA ListsAll ==
    ASSUME NEW S, IsFiniteSet(S), NEW s \in SetToSeqs(S)
    PROVE  /\ s \in Seq(S) /\ Len(s) = Cardinality(S)
           /\ \A x \in S : \E i \in 1 .. Len(s) : s[i] = x
<1> DEFINE n == Cardinality(S)
<1>1. n \in Nat
  BY FS_CardinalityType
<1>2. s \in [1 .. n -> S] /\ \A i, j \in 1 .. n : i # j => s[i] # s[j]
  BY DEF SetToSeqs
<1> HIDE DEF n
<1>3. s \in Seq(S) /\ Len(s) = n
  BY <1>1, <1>2
<1>4. IsFiniteSet(1 .. n) /\ Cardinality(1 .. n) = n
  BY <1>1, FS_Interval
<1>5. s \in Injection(1 .. n, S)
  BY <1>2 DEF Injection, IsInjective
<1>6. s \in Surjection(1 .. n, S)
  BY <1>4, <1>5, FS_Injection DEF n
<1>7. \A x \in S : \E i \in 1 .. n : s[i] = x
  BY <1>6 DEF Surjection
<1> QED BY <1>3, <1>7 DEF n

=============================================================================
