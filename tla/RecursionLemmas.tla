--------------------------- MODULE RecursionLemmas ---------------------------
(***************************************************************************)
(* Induction and recursion without operator parameters: least elements,    *)
(* induction over numbers and finite sets, and that recursive functions    *)
(* and folds exist.  A property of numbers or sets is the set of those     *)
(* that have it, a step of a recursion is a function.                      *)
(***************************************************************************)
EXTENDS Integers, FiniteSetsExt, FiniteSetTheorems, WellFoundedInduction, TLAPS

\* A nonempty set of natural numbers has a least element.
LEMMA LeastNumber ==
    ASSUME NEW S, S \subseteq Nat, S # {}
    PROVE  Min(S) \in S /\ \A n \in S : Min(S) <= n
<1>. DEFINE Less == {e \in Nat \X Nat : e[1] < e[2]}
<1>1. OpToRel(<, Nat) = Less
  BY DEF OpToRel
<1>2. IsWellFoundedOn(Less, Nat)
  BY <1>1, NatLessThanWellFounded
<1>. HIDE DEF Less
<1>3. PICK x \in S : \A n \in S : ~ (<<n, x>> \in Less)
  BY <1>2, WFMin
<1>4. ASSUME NEW n \in S PROVE x <= n
  <2>1. ~ (<<n, x>> \in Less)
    BY <1>3
  <2>. QED
    BY <2>1 DEF Less
<1>. QED
  BY <1>4 DEF Min

\* A nonempty set of numbers up to n has a greatest element.
LEMMA GreatestNumber ==
    ASSUME NEW n \in Nat, NEW S, S \subseteq 1 .. n, S # {}
    PROVE  Max(S) \in S /\ \A k \in S : k <= Max(S)
<1>. DEFINE T == {n - k : k \in S}
<1>1. T \subseteq Nat /\ T # {}
  <2>1. \A k \in S : k \in 1 .. n
    OBVIOUS
  <2>2. \A k \in S : n - k \in Nat
    BY <2>1
  <2>. QED
    BY <2>2
<1>2. PICK m \in T : \A j \in T : m <= j
  <2>. HIDE DEF T
  <2>. QED
    BY <1>1, LeastNumber
<1>3. PICK x \in S : m = n - x
  OBVIOUS
<1>4. \A k \in S : x >= k
  <2>1. ASSUME NEW k \in S PROVE x >= k
    <3>1. n - k \in T
      OBVIOUS
    <3>2. m <= n - k
      BY <1>2, <3>1
    <3>. QED
      BY <1>3, <3>2
  <2>. QED
    BY <2>1
<1>5. Max(S) \in S /\ \A k \in S : Max(S) >= k
  BY <1>3, <1>4 DEF Max
<1>. QED
  BY <1>5

\* What holds of 0 and of every successor holds of all natural numbers.
LEMMA NumberInduction ==
    ASSUME NEW Good, 0 \in Good, \A n \in Nat : n \in Good => n + 1 \in Good
    PROVE  Nat \subseteq Good
<1>. SUFFICES ASSUME Nat \ Good # {} PROVE FALSE
  OBVIOUS
<1>1. PICK m \in Nat \ Good : \A n \in Nat \ Good : m <= n
  BY LeastNumber
<1>2. m # 0 /\ m - 1 \in Nat /\ m - 1 \in Good
  BY <1>1
<1>3. (m - 1) + 1 = m
  BY <1>1
<1>. QED
  BY <1>1, <1>2, <1>3

\* A function that takes an element of every nonempty subset of S; a set of sets that contains a
\* set when it contains what is left of it; and the equations of a fold.
Takes(first, S) == \A s \in SUBSET S : s # {} => first[s] \in s
Grows(Good, first, S) ==
    {} \in Good /\ \A s \in SUBSET S : s # {} /\ s \ {first[s]} \in Good => s \in Good
Folds(f, base, step, first, S) ==
    f[{}] = base /\ \A s \in SUBSET S : s # {} => f[s] = step[<<first[s], f[s \ {first[s]}]>>]
RecursBy(f, base, step, m) == f[0] = base /\ \A n \in 1 .. m : f[n] = step[<<n, f[n - 1]>>]
Recurs(f, base, step, m) == f[0] = base /\ \A n \in 1 .. m : f[n] = step[f[n - 1]]

\* What holds of the empty set, and of a set when it holds without the element that a fold
\* takes first, holds of all finite sets.
LEMMA FoldInduction ==
    ASSUME NEW S, IsFiniteSet(S), NEW first, Takes(first, S), NEW Good, Grows(Good, first, S)
    PROVE  S \in Good
<1>. USE DEF Takes, Grows
<1>. DEFINE Done == {n \in Nat : \A s \in SUBSET S : Cardinality(s) <= n => s \in Good}
<1>1. \A s \in SUBSET S : IsFiniteSet(s) /\ Cardinality(s) \in Nat
  BY FS_Subset, FS_CardinalityType
<1>2. 0 \in Done
  <2>1. ASSUME NEW s \in SUBSET S, Cardinality(s) <= 0 PROVE s = {}
    BY <1>1, <2>1, FS_EmptySet
  <2>. QED
    BY <2>1
<1>3. ASSUME NEW n \in Nat, n \in Done PROVE n + 1 \in Done
  <2>1. ASSUME NEW s \in SUBSET S, Cardinality(s) <= n + 1, s # {} PROVE s \in Good
    <3>. DEFINE x == first[s]
    <3>1. x \in s
      BY <2>1
    <3>2. s \ {x} \in SUBSET S /\ Cardinality(s \ {x}) = Cardinality(s) - 1
      BY <1>1, <3>1, FS_RemoveElement
    <3>3. Cardinality(s \ {x}) <= n
      BY <1>1, <2>1, <3>2
    <3>4. s \ {x} \in Good
      BY <1>3, <3>2, <3>3
    <3>. QED
      BY <2>1, <3>4
  <2>. QED
    BY <2>1
<1>. HIDE DEF Done
<1>4. Nat \subseteq Done
  BY <1>2, <1>3, NumberInduction
<1>5. Cardinality(S) \in Done
  BY <1>1, <1>4
<1>. QED
  BY <1>1, <1>5 DEF Done

\* The recursive function of a fold exists.
LEMMA FoldExists ==
    ASSUME NEW S, IsFiniteSet(S), NEW first, Takes(first, S),
           NEW A, NEW base \in A, NEW step \in [S \X A -> A]
    PROVE  \E f \in [SUBSET S -> A] : Folds(f, base, step, first, S)
<1>. USE DEF Takes, Folds
<1>. DEFINE Upto(n) == {s \in SUBSET S : Cardinality(s) <= n}
            Value(f, s) == IF s = {} THEN base ELSE step[<<first[s], f[s \ {first[s]}]>>]
            Good(n) == \E f \in [Upto(n) -> A] : \A s \in Upto(n) : f[s] = Value(f, s)
            Done == {n \in Nat : Good(n)}
<1>1. \A s \in SUBSET S : IsFiniteSet(s) /\ Cardinality(s) \in Nat
  BY FS_Subset, FS_CardinalityType
<1>2. ASSUME NEW s \in SUBSET S, s # {}
      PROVE  first[s] \in S /\ Cardinality(s \ {first[s]}) = Cardinality(s) - 1
  BY <1>1, <1>2, FS_RemoveElement
<1>3. 0 \in Done
  <2>1. Upto(0) = {{}}
    BY <1>1, FS_EmptySet
  <2>2. [s \in Upto(0) |-> base] \in [Upto(0) -> A]
    OBVIOUS
  <2>. QED
    BY <2>1, <2>2
<1>4. ASSUME NEW n \in Nat, n \in Done PROVE n + 1 \in Done
  <2>1. PICK f \in [Upto(n) -> A] : \A s \in Upto(n) : f[s] = Value(f, s)
    BY <1>4
  <2>. DEFINE g == [s \in Upto(n + 1) |-> Value(f, s)]
  <2>2. ASSUME NEW s \in Upto(n + 1), s # {}
        PROVE  s \ {first[s]} \in Upto(n) /\ first[s] \in S
    <3>1. /\ s \in SUBSET S /\ Cardinality(s) \in Nat /\ Cardinality(s) <= n + 1
          /\ first[s] \in S /\ Cardinality(s \ {first[s]}) = Cardinality(s) - 1
      BY <1>1, <1>2, <2>2
    <3>2. Cardinality(s \ {first[s]}) <= n
      BY <3>1
    <3>. QED
      BY <3>1, <3>2
  <2>3. \A s \in Upto(n + 1) : Value(f, s) \in A
    BY <2>2
  <2>4. Upto(n) \subseteq Upto(n + 1)
    BY <1>1
  <2>5. g \in [Upto(n + 1) -> A]
    BY <2>3
  <2>6. \A s \in Upto(n) : g[s] = f[s]
    BY <2>1, <2>4
  <2>7. ASSUME NEW s \in Upto(n + 1) PROVE g[s] = Value(g, s)
    <3>1. s # {} => g[s \ {first[s]}] = f[s \ {first[s]}]
      BY <2>2, <2>6
    <3>. HIDE DEF Upto
    <3>2. g[s] = Value(f, s)
      OBVIOUS
    <3>. HIDE DEF g
    <3>. QED
      BY <3>1, <3>2
  <2>. HIDE DEF g, Value, Upto
  <2>8. Good(n + 1)
    BY <2>5, <2>7
  <2>. QED
    BY <2>8
<1>5. Nat \subseteq Done
  <2>. HIDE DEF Done
  <2>. QED
    BY <1>3, <1>4, NumberInduction
<1>6. Good(Cardinality(S)) /\ Upto(Cardinality(S)) = SUBSET S
  <2>1. ASSUME NEW s \in SUBSET S PROVE Cardinality(s) <= Cardinality(S)
    BY FS_Subset
  <2>. QED
    BY <1>1, <1>5, <2>1
<1>7. PICK f \in [SUBSET S -> A] : \A s \in SUBSET S : f[s] = Value(f, s)
  BY <1>6
<1>. QED
  BY <1>7

\* A fold has one value.
LEMMA FoldUnique ==
    ASSUME NEW S, IsFiniteSet(S), NEW first, Takes(first, S), NEW base, NEW step,
           NEW f, NEW g, Folds(f, base, step, first, S), Folds(g, base, step, first, S)
    PROVE  f[S] = g[S]
<1>. DEFINE Good == {s \in SUBSET S : f[s] = g[s]}
<1>1. {} \in Good
  BY DEF Folds
<1>2. \A s \in SUBSET S : s # {} /\ s \ {first[s]} \in Good => s \in Good
  BY DEF Folds
<1>3. Grows(Good, first, S)
  <2>. HIDE DEF Good
  <2>. QED
    BY <1>1, <1>2 DEF Grows
<1>4. S \in Good
  <2>. HIDE DEF Good
  <2>. QED
    BY <1>3, FoldInduction
<1>. QED
  BY <1>4

\* A fold over a sequence takes the last element first.
FoldsLast(f, base, step, A, n) ==
    /\ f[{}] = base
    /\ \A s \in SUBSET (1 .. n) : s # {} =>
          /\ Max(s) \in s
          /\ f[s \ {Max(s)}] \in A => f[s] = step[<<Max(s), f[s \ {Max(s)}]>>]

\* Such a fold exists.
LEMMA FoldLastExists ==
    ASSUME NEW n \in Nat, NEW A, NEW base \in A, NEW step \in [(1 .. n) \X A -> A]
    PROVE  \E f \in [SUBSET (1 .. n) -> A] : FoldsLast(f, base, step, A, n)
<1>. DEFINE S == 1 .. n
            first == [s \in SUBSET S |-> Max(s)]
<1>1. /\ \A s \in SUBSET S : s # {} => first[s] = Max(s) /\ Max(s) \in s
      /\ Takes(first, S)
  <2>1. \A s \in SUBSET S : s # {} => first[s] = Max(s) /\ Max(s) \in s
    BY GreatestNumber
  <2>. HIDE DEF first, S
  <2>. QED
    BY <2>1 DEF Takes
<1>2. IsFiniteSet(S)
  BY FS_Interval
<1>. HIDE DEF first
<1>3. PICK f \in [SUBSET S -> A] : Folds(f, base, step, first, S)
  <2>. HIDE DEF S
  <2>1. step \in [S \X A -> A]
    BY DEF S
  <2>. QED
    BY <1>1, <1>2, <2>1, FoldExists
<1>4. FoldsLast(f, base, step, A, n)
  BY <1>1, <1>3 DEF Folds, FoldsLast
<1>. QED
  BY <1>4

\* Its values are those of a recursion along the sequence.
LEMMA FoldAlong ==
    ASSUME NEW n \in Nat, NEW A, NEW base, NEW step,
           NEW value \in [0 .. n -> A], RecursBy(value, base, step, n),
           NEW g, FoldsLast(g, base, step, A, n)
    PROVE  g[1 .. n] = value[n]
<1>. DEFINE S == 1 .. n
            Good == {i \in Nat : i <= n => g[1 .. i] = value[i]}
<1>1. 0 \in Good
  <2>1. 1 .. 0 = {}
    OBVIOUS
  <2>. QED
    BY <2>1 DEF FoldsLast, RecursBy
<1>2. ASSUME NEW i \in Nat, i \in Good PROVE i + 1 \in Good
  <2>. SUFFICES ASSUME i + 1 <= n PROVE g[1 .. i + 1] = value[i + 1]
    OBVIOUS
  <2>1. /\ 1 .. i + 1 \in SUBSET S /\ 1 .. i + 1 # {} /\ i + 1 \in 1 .. i + 1
        /\ i + 1 \in 1 .. n /\ i \in 0 .. n /\ (i + 1) - 1 = i
    <3>1. \A k \in 1 .. i + 1 : k \in S
      BY DEF S
    <3>2. i + 1 \in 1 .. i + 1 /\ i + 1 \in 1 .. n /\ i \in 0 .. n /\ (i + 1) - 1 = i
      OBVIOUS
    <3>. QED
      BY <3>1, <3>2
  <2>2. Max(1 .. i + 1) = i + 1
    <3>1. Max(1 .. i + 1) \in 1 .. i + 1 /\ \A k \in 1 .. i + 1 : k <= Max(1 .. i + 1)
      BY <2>1, GreatestNumber
    <3>. QED
      BY <2>1, <3>1
  <2>3. (1 .. i + 1) \ {i + 1} = 1 .. i
    OBVIOUS
  <2>4. g[1 .. i] = value[i] /\ value[i] \in A
    BY <1>2, <2>1
  <2>5. g[1 .. i + 1] = step[<<i + 1, value[i]>>]
    <3>1. g[(1 .. i + 1) \ {Max(1 .. i + 1)}] = value[i]
      BY <2>2, <2>3, <2>4
    <3>. QED
      BY <2>1, <2>2, <2>4, <3>1 DEF FoldsLast
  <2>. QED
    BY <2>1, <2>5 DEF RecursBy
<1>3. n \in Good
  <2>. HIDE DEF Good
  <2>. QED
    BY <1>1, <1>2, NumberInduction
<1>. QED
  BY <1>3

\* A function defined by recursion on the numbers up to m, with steps that depend on the number,
\* exists.
LEMMA RecursionExistsBy ==
    ASSUME NEW m \in Nat, NEW A, NEW base \in A, NEW step \in [(1 .. m) \X A -> A]
    PROVE  \E f \in [0 .. m -> A] : RecursBy(f, base, step, m)
<1>. USE DEF RecursBy
<1>. DEFINE Value(f, n) == IF n = 0 THEN base ELSE step[<<n, f[n - 1]>>]
            Good(k) == \E f \in [0 .. k -> A] : \A n \in 0 .. k : f[n] = Value(f, n)
            Done == {k \in Nat : k <= m => Good(k)}
<1>1. 0 \in Done
  <2>. DEFINE g == [n \in 0 .. 0 |-> base]
  <2>1. g \in [0 .. 0 -> A] /\ \A n \in 0 .. 0 : g[n] = Value(g, n)
    OBVIOUS
  <2>2. Good(0)
    BY <2>1
  <2>. QED
    BY <2>2
<1>2. ASSUME NEW k \in Nat, k \in Done PROVE k + 1 \in Done
  <2>. SUFFICES ASSUME k + 1 <= m PROVE Good(k + 1)
    OBVIOUS
  <2>1. PICK f \in [0 .. k -> A] : \A n \in 0 .. k : f[n] = Value(f, n)
    BY <1>2
  <2>. DEFINE g == [n \in 0 .. k + 1 |-> Value(f, n)]
  <2>2. \A n \in 0 .. k + 1 : n # 0 => n - 1 \in 0 .. k /\ n \in 1 .. m
    OBVIOUS
  <2>3. g \in [0 .. k + 1 -> A]
    BY <2>2
  <2>4. \A n \in 0 .. k : g[n] = f[n]
    BY <2>1
  <2>5. \A n \in 0 .. k + 1 : g[n] = Value(g, n)
    BY <2>2, <2>4
  <2>. HIDE DEF g, Value
  <2>. QED
    BY <2>3, <2>5
<1>3. Nat \subseteq Done
  <2>. HIDE DEF Done
  <2>. QED
    BY <1>1, <1>2, NumberInduction
<1>4. PICK f \in [0 .. m -> A] : \A n \in 0 .. m : f[n] = Value(f, n)
  BY <1>3
<1>5. 0 \in 0 .. m /\ \A n \in 1 .. m : n \in 0 .. m /\ n # 0
  OBVIOUS
<1>6. Value(f, 0) = base /\ \A n \in 1 .. m : Value(f, n) = step[<<n, f[n - 1]>>]
  BY <1>5
<1>7. f[0] = base /\ \A n \in 1 .. m : f[n] = step[<<n, f[n - 1]>>]
  <2>. HIDE DEF Value, Good, Done
  <2>. QED
    BY <1>4, <1>5, <1>6
<1>. QED
  BY <1>7

\* The same for steps that do not depend on the number.
LEMMA RecursionExists ==
    ASSUME NEW m \in Nat, NEW A, NEW base \in A, NEW step \in [A -> A]
    PROVE  \E f \in [0 .. m -> A] : Recurs(f, base, step, m)
<1>. DEFINE stepBy == [x \in (1 .. m) \X A |-> step[x[2]]]
<1>1. stepBy \in [(1 .. m) \X A -> A]
  OBVIOUS
<1>2. \A n \in 1 .. m, a \in A : stepBy[<<n, a>>] = step[a]
  OBVIOUS
<1>. HIDE DEF stepBy
<1>3. PICK f \in [0 .. m -> A] : RecursBy(f, base, stepBy, m)
  BY <1>1, RecursionExistsBy
<1>4. \A n \in 1 .. m : f[n - 1] \in A
  OBVIOUS
<1>5. \A n \in 1 .. m : f[n] = step[f[n - 1]]
  BY <1>2, <1>3, <1>4 DEF RecursBy
<1>6. f[0] = base
  BY <1>3 DEF RecursBy
<1>. QED
  BY <1>5, <1>6 DEF Recurs

-----------------------------------------------------------------------------
(* Sums over finite sets.                                                  *)

SumOver(w, S) == MapThenSumSet(LAMBDA x : w[x], S)

\* f sums up the subsets of T, of which it takes the elements in the order of first.
SumsUp(f, first, w, T) ==
    /\ Takes(first, T)
    /\ f \in [SUBSET T -> Nat]
    /\ f[{}] = 0
    /\ \A s \in SUBSET T : s # {} => f[s] = w[first[s]] + f[s \ {first[s]}]
    /\ \A s \in SUBSET T : SumOver(w, s) = f[s]

\* A sum is computed by taking elements in whatever order CHOOSE gives them.
LEMMA SumOfChosen ==
    ASSUME NEW T, IsFiniteSet(T), NEW w \in [T -> Nat]
    PROVE  \E f, first : SumsUp(f, first, w, T)
<1>. DEFINE step == [e \in T \X Nat |-> w[e[1]] + e[2]]
            first == [s \in SUBSET T |-> IF s = {} THEN T ELSE CHOOSE x \in s : TRUE]
            IsFold(f, S) == f = [s \in SUBSET S |->
                                   IF s = {} THEN 0
                                   ELSE w[CHOOSE x \in s : TRUE] + f[s \ {CHOOSE x \in s : TRUE}]]
            iter(S) == CHOOSE f : IsFold(f, S)
<1>1. \A S : SumOver(w, S) = iter(S)[S]
  BY DEF SumOver, MapThenSumSet, MapThenFoldSet
<1>2. /\ step \in [T \X Nat -> Nat]
      /\ \A x \in T, n \in Nat : step[<<x, n>>] = w[x] + n
  OBVIOUS
<1>3. \A s \in SUBSET T : s # {} => first[s] \in s /\ first[s] = CHOOSE x \in s : TRUE
  OBVIOUS
<1>4. \A S \in SUBSET T : Takes(first, S)
  BY <1>3 DEF Takes
<1>. HIDE DEF first, step
<1>5. ASSUME NEW S \in SUBSET T
      PROVE  /\ iter(S)[{}] = 0
             /\ \A s \in SUBSET S : s # {} => iter(S)[s] = w[first[s]] + iter(S)[s \ {first[s]}]
             /\ iter(S) \in [SUBSET S -> Nat]
             /\ Folds(iter(S), 0, step, first, S)
  <2>1. IsFiniteSet(S) /\ [e \in S \X Nat |-> step[e]] \in [S \X Nat -> Nat]
    BY <1>2, FS_Subset
  <2>2. PICK f \in [SUBSET S -> Nat] : Folds(f, 0, [e \in S \X Nat |-> step[e]], first, S)
    BY <1>4, <2>1, FoldExists
  <2>3. ASSUME NEW s \in SUBSET S, s # {}
        PROVE  /\ f[s] = w[first[s]] + f[s \ {first[s]}]
               /\ first[s] = CHOOSE x \in s : TRUE
    <3>1. first[s] \in S /\ f[s \ {first[s]}] \in Nat
      BY <1>3, <2>3
    <3>. QED
      BY <1>2, <1>3, <2>2, <2>3, <3>1 DEF Folds
  <2>4. IsFold(f, S)
    BY <2>2, <2>3 DEF Folds
  <2>5. IsFold(iter(S), S)
    BY <2>4
  <2>. HIDE DEF iter
  <2>6. ASSUME NEW s \in SUBSET S, s # {}
        PROVE  iter(S)[s] = w[first[s]] + iter(S)[s \ {first[s]}]
    BY <1>3, <2>5, <2>6
  <2>7. iter(S)[{}] = 0 /\ iter(S) = [s \in SUBSET S |-> iter(S)[s]]
    BY <2>5
  <2>. DEFINE Good == {s \in SUBSET S : iter(S)[s] = f[s]}
  <2>8. {} \in Good
    BY <2>2, <2>7 DEF Folds
  <2>9. \A s \in SUBSET S : s # {} /\ s \ {first[s]} \in Good => s \in Good
    BY <2>3, <2>6
  <2>10. iter(S) \in [SUBSET S -> Nat]
    <3>1. \A R \in SUBSET S : R \in Good
      <4>. SUFFICES ASSUME NEW R \in SUBSET S PROVE R \in Good
        OBVIOUS
      <4>1. IsFiniteSet(R) /\ Takes(first, R) /\ Grows(Good, first, R)
        <5>. HIDE DEF Good
        <5>. QED
          BY <1>4, <2>1, <2>8, <2>9, FS_Subset DEF Grows
      <4>. HIDE DEF Good
      <4>. QED
        BY <4>1, FoldInduction
    <3>. QED
      BY <2>7, <3>1
  <2>11. Folds(iter(S), 0, step, first, S)
    <3>1. \A s \in SUBSET S : s # {} => first[s] \in T /\ iter(S)[s \ {first[s]}] \in Nat
      BY <1>3, <2>10
    <3>. QED
      BY <1>2, <2>6, <2>7, <3>1 DEF Folds
  <2>. QED
    BY <2>6, <2>7, <2>10, <2>11
<1>. HIDE DEF iter
<1>6. ASSUME NEW S \in SUBSET T PROVE SumOver(w, S) = iter(T)[S]
  <2>1. Folds(iter(T), 0, step, first, S) /\ Folds(iter(S), 0, step, first, S)
    BY <1>5 DEF Folds
  <2>2. IsFiniteSet(S) /\ Takes(first, S)
    BY <1>4, FS_Subset
  <2>. QED
    BY <1>1, <2>1, <2>2, FoldUnique
<1>7. SumsUp(iter(T), first, w, T)
  BY <1>4, <1>5, <1>6 DEF SumsUp
<1>. QED
  BY <1>7

\* Any element can be taken first.
LEMMA SumStep ==
    ASSUME NEW T, IsFiniteSet(T), NEW w \in [T -> Nat]
    PROVE  /\ SumOver(w, {}) = 0
           /\ \A S \in SUBSET T : SumOver(w, S) \in Nat
           /\ \A S \in SUBSET T : \A x \in S : SumOver(w, S) = w[x] + SumOver(w, S \ {x})
<1>0. PICK f, first : SumsUp(f, first, w, T)
  BY SumOfChosen
<1>1. /\ Takes(first, T)
      /\ f \in [SUBSET T -> Nat]
      /\ f[{}] = 0
      /\ \A s \in SUBSET T : s # {} => f[s] = w[first[s]] + f[s \ {first[s]}]
      /\ \A s \in SUBSET T : SumOver(w, s) = f[s]
  BY <1>0 DEF SumsUp
<1>. DEFINE Good == {S \in SUBSET T : \A x \in S : f[S] = w[x] + f[S \ {x}]}
<1>2. {} \in Good
  OBVIOUS
<1>3. \A n \in Nat : \A S \in SUBSET T : Cardinality(S) = n => S \in Good
  <2>. DEFINE Done == {n \in Nat : \A S \in SUBSET T : Cardinality(S) = n => S \in Good}
  <2>1. \A S \in SUBSET T : IsFiniteSet(S)
    BY FS_Subset
  <2>2. 0 \in Done
    BY <1>2, <2>1, FS_EmptySet
  <2>3. ASSUME NEW n \in Nat, n \in Done PROVE n + 1 \in Done
    <3>. SUFFICES ASSUME NEW S \in SUBSET T, Cardinality(S) = n + 1, NEW x \in S
                  PROVE  f[S] = w[x] + f[S \ {x}]
      OBVIOUS
    <3>. DEFINE y == first[S]
    <3>1. y \in S /\ f[S] = w[y] + f[S \ {y}]
      BY <1>1 DEF Takes
    <3>2. CASE x = y
      BY <3>1, <3>2
    <3>3. CASE x # y
      <4>. HIDE DEF y
      <4>. DEFINE R == (S \ {x}) \ {y}
      <4>0. IsFiniteSet(S) /\ x \in S /\ y \in S
        BY <2>1, <3>1
      <4>1. Cardinality(S \ {x}) = n /\ Cardinality(S \ {y}) = n
        <5>1. Cardinality(S \ {x}) = Cardinality(S) - 1
          BY <4>0, FS_RemoveElement
        <5>2. Cardinality(S \ {y}) = Cardinality(S) - 1
          BY <4>0, FS_RemoveElement
        <5>. QED
          BY <5>1, <5>2
      <4>2. S \ {x} \in Good /\ S \ {y} \in Good
        BY <2>3, <4>1
      <4>3. f[S \ {x}] = w[y] + f[R]
        BY <3>1, <3>3, <4>2
      <4>4. (S \ {y}) \ {x} = R
        OBVIOUS
      <4>5. f[S \ {y}] = w[x] + f[R]
        BY <3>3, <4>2, <4>4
      <4>6. w[x] \in Nat /\ w[y] \in Nat /\ f[R] \in Nat
        <5>1. x \in T /\ y \in T /\ R \in SUBSET T
          BY <4>0
        <5>. QED
          BY <1>1, <5>1
      <4>. QED
        BY <3>1, <4>3, <4>5, <4>6
    <3>. QED
      BY <3>2, <3>3
  <2>4. Nat \subseteq Done
    <3>. HIDE DEF Done
    <3>. QED
      BY <2>2, <2>3, NumberInduction
  <2>. QED
    BY <2>4
<1>4. \A S \in SUBSET T : S \in Good
  <2>1. \A S \in SUBSET T : Cardinality(S) \in Nat
    BY FS_Subset, FS_CardinalityType
  <2>. QED
    BY <1>3, <2>1
<1>. QED
  BY <1>1, <1>4

\* A sum of natural numbers over more elements is not less.
LEMMA SumMonotone ==
    ASSUME NEW T, IsFiniteSet(T), NEW w \in [T -> Nat], NEW U \in SUBSET T, NEW S \in SUBSET U
    PROVE  SumOver(w, S) <= SumOver(w, U)
<1>. DEFINE first == [s \in SUBSET U |-> IF s = {} THEN U ELSE CHOOSE x \in s : TRUE]
            Good == {s \in SUBSET U : \A R \in SUBSET s : SumOver(w, R) <= SumOver(w, s)}
<1>1. Takes(first, U) /\ IsFiniteSet(U)
  BY FS_Subset DEF Takes
<1>. HIDE DEF first
<1>2. {} \in Good
  <2>1. SumOver(w, {}) = 0
    BY SumStep
  <2>2. SumOver(w, {}) <= SumOver(w, {})
    BY <2>1
  <2>. QED
    BY <2>2
<1>3. ASSUME NEW s \in SUBSET U, s # {}, s \ {first[s]} \in Good PROVE s \in Good
  <2>. DEFINE x == first[s]
  <2>1. x \in s /\ x \in T /\ s \in SUBSET T
    BY <1>1, <1>3 DEF Takes
  <2>. HIDE DEF x
  <2>2. SumOver(w, s) = w[x] + SumOver(w, s \ {x})
    BY <2>1, SumStep
  <2>3. ASSUME NEW R \in SUBSET s PROVE SumOver(w, R) <= SumOver(w, s)
    <3>1. R \ {x} \in SUBSET (s \ {x}) /\ SumOver(w, R \ {x}) <= SumOver(w, s \ {x})
      BY <1>3 DEF x
    <3>2. /\ w[x] \in Nat /\ SumOver(w, R) \in Nat
          /\ SumOver(w, R \ {x}) \in Nat /\ SumOver(w, s \ {x}) \in Nat
      BY <2>1, SumStep
    <3>3. CASE x \in R
      <4>1. SumOver(w, R) = w[x] + SumOver(w, R \ {x})
        BY <2>1, <3>3, SumStep
      <4>. QED
        BY <2>2, <3>1, <3>2, <4>1
    <3>4. CASE x \notin R
      <4>1. R \ {x} = R
        BY <3>4
      <4>. QED
        BY <2>2, <3>1, <3>2, <4>1
    <3>. QED
      BY <3>3, <3>4
  <2>. QED
    BY <2>3
<1>4. Grows(Good, first, U)
  <2>. HIDE DEF Good
  <2>. QED
    BY <1>2, <1>3 DEF Grows
<1>5. U \in Good
  <2>. HIDE DEF Good
  <2>. QED
    BY <1>1, <1>4, FoldInduction
<1>. QED
  BY <1>5

\* A sum over a set is the sum over a part of it and the sum over the rest.
LEMMA SumSplit ==
    ASSUME NEW T, IsFiniteSet(T), NEW w \in [T -> Nat], NEW U \in SUBSET T, NEW P \in SUBSET U
    PROVE  SumOver(w, U) = SumOver(w, P) + SumOver(w, U \ P)
<1>. DEFINE first == [s \in SUBSET U |-> IF s = {} THEN U ELSE CHOOSE x \in s : TRUE]
            Good == {s \in SUBSET U : SumOver(w, s) = SumOver(w, s \cap P) + SumOver(w, s \ P)}
<1>1. Takes(first, U) /\ IsFiniteSet(U)
  BY FS_Subset DEF Takes
<1>. HIDE DEF first
<1>2. {} \in Good
  <2>1. SumOver(w, {}) = 0 /\ {} \cap P = {} /\ {} \ P = {}
    BY SumStep
  <2>2. SumOver(w, {}) = SumOver(w, {} \cap P) + SumOver(w, {} \ P)
    BY <2>1
  <2>. QED
    BY <2>2
<1>3. ASSUME NEW s \in SUBSET U, s # {}, s \ {first[s]} \in Good PROVE s \in Good
  <2>. DEFINE x == first[s]
              r == s \ {x}
  <2>1. x \in s /\ x \in T /\ s \in SUBSET T
    BY <1>1, <1>3 DEF Takes
  <2>2. SumOver(w, r) = SumOver(w, r \cap P) + SumOver(w, r \ P)
    BY <1>3
  <2>. HIDE DEF x
  <2>3. SumOver(w, s) = w[x] + SumOver(w, r)
    BY <2>1, SumStep
  <2>4. /\ w[x] \in Nat /\ SumOver(w, r) \in Nat
        /\ SumOver(w, r \cap P) \in Nat /\ SumOver(w, r \ P) \in Nat
    BY <2>1, SumStep
  <2>5. CASE x \in P
    <3>1. s \ P = r \ P /\ (s \cap P) \ {x} = r \cap P /\ s \cap P \in SUBSET T /\ x \in s \cap P
      BY <2>1, <2>5
    <3>2. SumOver(w, s \cap P) = w[x] + SumOver(w, (s \cap P) \ {x})
      BY <3>1, SumStep
    <3>3. SumOver(w, s \cap P) = w[x] + SumOver(w, r \cap P) /\ SumOver(w, s \ P) = SumOver(w, r \ P)
      BY <3>1, <3>2
    <3>. QED
      BY <2>2, <2>3, <2>4, <3>3
  <2>6. CASE x \notin P
    <3>1. s \cap P = r \cap P /\ (s \ P) \ {x} = r \ P /\ s \ P \in SUBSET T /\ x \in s \ P
      BY <2>1, <2>6
    <3>2. SumOver(w, s \ P) = w[x] + SumOver(w, (s \ P) \ {x})
      BY <3>1, SumStep
    <3>3. SumOver(w, s \ P) = w[x] + SumOver(w, r \ P) /\ SumOver(w, s \cap P) = SumOver(w, r \cap P)
      BY <3>1, <3>2
    <3>. QED
      BY <2>2, <2>3, <2>4, <3>3
  <2>. QED
    BY <2>5, <2>6
<1>4. Grows(Good, first, U)
  <2>. HIDE DEF Good
  <2>. QED
    BY <1>2, <1>3 DEF Grows
<1>5. U \in Good
  <2>. HIDE DEF Good
  <2>. QED
    BY <1>1, <1>4, FoldInduction
<1>6. U \cap P = P
  OBVIOUS
<1>. QED
  BY <1>5, <1>6

=============================================================================
