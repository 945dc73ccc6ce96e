------------------------ MODULE PathExtractionProofs ------------------------
(***************************************************************************)
(* The extraction of a plan from the closed lists never fails and ends,    *)
(* and the plan leads from the initial state to the goal at the cost of    *)
(* the solution: ExtractionInv is preserved by every step of a search that *)
(* extracts its plans, for every task with individual operators.           *)
(***************************************************************************)
EXTENDS SearchProofs, PathInvariant

(* Runs of operators.                                                      *)

\* The individual operators of a cost have the transitions of the merged relations, and are
\* deterministic.
LEMMA OperatorFacts ==
    ASSUME NEW c \in Costs
    PROVE  /\ c \in Nat
           /\ \A op \in Operators[c] :
                 /\ op \in SUBSET (States \X States)
                 /\ \A x, y \in op : x[1] = y[1] => x = y
                 /\ \A s, t : <<s, t>> \in op => s \in States /\ t \in States /\ Transition(s, c, t)
           /\ \A s, t : Transition(s, c, t) => \E op \in Operators[c] : <<s, t>> \in op
<1>1. /\ c \in Nat
      /\ TRs[c] \subseteq SUBSET (States \X States)
      /\ UNION Operators[c] = UNION TRs[c]
      /\ \A op \in Operators[c] : \A x, y \in op : x[1] = y[1] => x = y
  BY TaskAssumption, OperatorsAssumption
<1>2. ASSUME NEW op \in Operators[c]
      PROVE  /\ op \in SUBSET (States \X States)
             /\ \A s, t : <<s, t>> \in op => s \in States /\ t \in States /\ Transition(s, c, t)
  <2>1. \A x \in op : \E tr \in TRs[c] : x \in tr
    BY <1>1
  <2>. QED
    BY <1>1, <2>1 DEF Transition
<1>3. ASSUME NEW s, NEW t, Transition(s, c, t) PROVE \E op \in Operators[c] : <<s, t>> \in op
  BY <1>1, <1>3 DEF Transition
<1>. QED
  BY <1>1, <1>2, <1>3

LEMMA OperatorInDomain == \A c \in Costs : c \in DOMAIN Operators
BY OperatorsAssumption

LEMMA RunEmpty ==
    ASSUME NEW s \in States
    PROVE  RunTo(<<>>, s, s, 0)
<1>. DEFINE state == [i \in 0 .. 0 |-> s]
            cost == [i \in 0 .. 0 |-> 0]
<1>1. /\ Len(<<>>) = 0 /\ <<>> \in Seq(PlanOperator)
      /\ state \in [0 .. 0 -> States] /\ cost \in [0 .. 0 -> Nat]
      /\ state[0] = s /\ cost[0] = 0
  OBVIOUS
<1>. HIDE DEF state, cost
<1>. QED
  BY <1>1 DEF RunTo

\* No operators lead nowhere, and cost nothing.
LEMMA RunOfNone ==
    ASSUME NEW s, NEW t, NEW k, RunTo(<<>>, s, t, k)
    PROVE  s = t /\ k = 0
BY DEF RunTo

LEMMA RunTypes ==
    ASSUME NEW ops, NEW s, NEW t, NEW k, RunTo(ops, s, t, k)
    PROVE  /\ ops \in Seq(PlanOperator) /\ Len(ops) \in Nat
           /\ s \in States /\ t \in States /\ k \in Nat
BY DEF RunTo

LEMMA RunIs ==
    ASSUME NEW ops \in Seq(PlanOperator), NEW n, n = Len(ops),
           NEW state \in [0 .. n -> States], NEW cost \in [0 .. n -> Nat],
           cost[0] = 0,
           \A i \in 1 .. n : <<state[i - 1], state[i]>> \in ops[i][2] /\ cost[i] = cost[i - 1] + ops[i][1]
    PROVE  RunTo(ops, state[0], state[n], cost[n])
BY DEF RunTo

\* The forward walk finds operators from the last to the first.
LEMMA RunPrepended ==
    ASSUME NEW ops, NEW s, NEW t, NEW k, RunTo(ops, s, t, k),
           NEW c \in Costs, NEW op \in Operators[c], NEW r, <<r, s>> \in op
    PROVE  RunTo(<<<<c, op>>>> \o ops, r, t, k + c)
<1>. DEFINE n == Len(ops)
            next == <<<<c, op>>>> \o ops
<1>1. PICK state \in [0 .. n -> States], cost \in [0 .. n -> Nat] :
         /\ state[0] = s /\ cost[0] = 0
         /\ state[n] = t /\ cost[n] = k
         /\ \A i \in 1 .. n : /\ <<state[i - 1], state[i]>> \in ops[i][2]
                              /\ cost[i] = cost[i - 1] + ops[i][1]
  BY DEF RunTo
<1>2. ops \in Seq(PlanOperator) /\ n \in Nat
  BY DEF RunTo
<1>3. c \in Nat /\ op \in SUBSET (States \X States) /\ r \in States /\ <<c, op>> \in PlanOperator
  BY OperatorFacts DEF PlanOperator
<1>4. /\ next \in Seq(PlanOperator) /\ Len(next) = n + 1
      /\ next[1] = <<c, op>> /\ \A i \in 2 .. n + 1 : next[i] = ops[i - 1]
  BY <1>2, <1>3
<1>. DEFINE state2 == [i \in 0 .. n + 1 |-> IF i = 0 THEN r ELSE state[i - 1]]
            cost2 == [i \in 0 .. n + 1 |-> IF i = 0 THEN 0 ELSE cost[i - 1] + c]
<1>. HIDE DEF next, n
<1>5. /\ state2 \in [0 .. n + 1 -> States] /\ cost2 \in [0 .. n + 1 -> Nat]
      /\ state2[0] = r /\ cost2[0] = 0
      /\ state2[n + 1] = t /\ cost2[n + 1] = k + c
      /\ \A i \in 1 .. n + 1 : state2[i] = state[i - 1] /\ cost2[i] = cost[i - 1] + c
  BY <1>1, <1>2, <1>3
<1>. HIDE DEF state2, cost2
<1>6. ASSUME NEW i \in 1 .. n + 1
      PROVE  <<state2[i - 1], state2[i]>> \in next[i][2] /\ cost2[i] = cost2[i - 1] + next[i][1]
  <2>1. CASE i = 1
    <3>1. i - 1 = 0 /\ i \in 1 .. n + 1 /\ state2[1] = s /\ cost2[1] = c /\ next[1] = <<c, op>>
      BY <1>1, <1>2, <1>3, <1>4, <1>5, <2>1
    <3>. QED
      BY <1>3, <1>5, <2>1, <3>1
  <2>2. CASE i # 1
    <3>1. i - 1 \in 1 .. n /\ i - 2 \in 0 .. n /\ (i - 1) - 1 = i - 2 /\ next[i] = ops[i - 1]
      <4>1. i \in 2 .. n + 1 /\ i - 1 \in 1 .. n /\ i - 2 \in 0 .. n /\ (i - 1) - 1 = i - 2
        BY <1>2, <2>2
      <4>. QED
        BY <1>4, <4>1
    <3>2. /\ state2[i] = state[i - 1] /\ state2[i - 1] = state[i - 2]
          /\ cost2[i] = cost[i - 1] + c /\ cost2[i - 1] = cost[i - 2] + c
      <4>1. i \in 1 .. n + 1 /\ i - 1 \in 1 .. n + 1
        BY <1>2, <2>2
      <4>. QED
        BY <1>5, <3>1, <4>1
    <3>3. <<state[i - 2], state[i - 1]>> \in ops[i - 1][2] /\ cost[i - 1] = cost[i - 2] + ops[i - 1][1]
      BY <1>1, <3>1
    <3>4. cost[i - 2] \in Nat /\ ops[i - 1][1] \in Nat
      <4>1. ops[i - 1] \in PlanOperator
        BY <1>2, <3>1 DEF n
      <4>. QED
        BY <1>1, <3>1, <4>1, OperatorFacts DEF PlanOperator
    <3>. QED
      BY <1>3, <3>1, <3>2, <3>3, <3>4
  <2>. QED
    BY <2>1, <2>2
<1>7. RunTo(next, r, t, k + c)
  <2>1. RunTo(next, state2[0], state2[n + 1], cost2[n + 1])
    BY <1>4, <1>5, <1>6, RunIs
  <2>. QED
    BY <1>5, <2>1
<1>. QED
  BY <1>7 DEF next

\* The backward walk finds them from the first to the last.
LEMMA RunAppended ==
    ASSUME NEW ops, NEW s, NEW t, NEW k, RunTo(ops, s, t, k),
           NEW c \in Costs, NEW op \in Operators[c], NEW r, <<t, r>> \in op
    PROVE  RunTo(Append(ops, <<c, op>>), s, r, k + c)
<1>. DEFINE n == Len(ops)
            next == Append(ops, <<c, op>>)
<1>1. PICK state \in [0 .. n -> States], cost \in [0 .. n -> Nat] :
         /\ state[0] = s /\ cost[0] = 0
         /\ state[n] = t /\ cost[n] = k
         /\ \A i \in 1 .. n : /\ <<state[i - 1], state[i]>> \in ops[i][2]
                              /\ cost[i] = cost[i - 1] + ops[i][1]
  BY DEF RunTo
<1>2. ops \in Seq(PlanOperator) /\ n \in Nat
  BY DEF RunTo
<1>3. c \in Nat /\ op \in SUBSET (States \X States) /\ r \in States /\ <<c, op>> \in PlanOperator
  BY OperatorFacts DEF PlanOperator
<1>4. /\ next \in Seq(PlanOperator) /\ Len(next) = n + 1
      /\ next[n + 1] = <<c, op>> /\ \A i \in 1 .. n : next[i] = ops[i]
  BY <1>2, <1>3
<1>. DEFINE state2 == [i \in 0 .. n + 1 |-> IF i = n + 1 THEN r ELSE state[i]]
            cost2 == [i \in 0 .. n + 1 |-> IF i = n + 1 THEN k + c ELSE cost[i]]
<1>. HIDE DEF next, n
<1>5. /\ state2 \in [0 .. n + 1 -> States] /\ cost2 \in [0 .. n + 1 -> Nat]
      /\ state2[0] = s /\ cost2[0] = 0
      /\ state2[n + 1] = r /\ cost2[n + 1] = k + c
      /\ \A i \in 0 .. n : state2[i] = state[i] /\ cost2[i] = cost[i]
  BY <1>1, <1>2, <1>3
<1>. HIDE DEF state2, cost2
<1>6. ASSUME NEW i \in 1 .. n + 1
      PROVE  <<state2[i - 1], state2[i]>> \in next[i][2] /\ cost2[i] = cost2[i - 1] + next[i][1]
  <2>1. CASE i = n + 1
    <3>1. i - 1 = n /\ n \in 0 .. n
      BY <1>2, <2>1
    <3>2. state2[i - 1] = t /\ cost2[i - 1] = k /\ state2[i] = r /\ cost2[i] = k + c
      BY <1>1, <1>5, <2>1, <3>1
    <3>3. next[i] = <<c, op>>
      BY <1>4, <2>1
    <3>. QED
      BY <3>2, <3>3
  <2>2. CASE i # n + 1
    <3>1. i \in 1 .. n /\ i \in 0 .. n /\ i - 1 \in 0 .. n
      BY <1>2, <2>2
    <3>. QED
      BY <1>1, <1>4, <1>5, <3>1
  <2>. QED
    BY <2>1, <2>2
<1>7. RunTo(next, s, r, k + c)
  <2>1. RunTo(next, state2[0], state2[n + 1], cost2[n + 1])
    BY <1>4, <1>5, <1>6, RunIs
  <2>. QED
    BY <1>5, <2>1
<1>. QED
  BY <1>7 DEF next

\* The cost of operators, and the state that they lead to from the initial one, are those that
\* FoldLeft computes.
LEMMA RunReached ==
    ASSUME NEW ops, NEW start, NEW t, NEW k, RunTo(ops, start, t, k)
    PROVE  PathCost(ops) = k /\ (start = InitState => Reached(ops) = {t})
<1>. DEFINE n == Len(ops)
            S == 1 .. n
<1>1. PICK state \in [0 .. n -> States], cost \in [0 .. n -> Nat] :
         /\ state[0] = start /\ cost[0] = 0
         /\ state[n] = t /\ cost[n] = k
         /\ \A i \in 1 .. n : /\ <<state[i - 1], state[i]>> \in ops[i][2]
                              /\ cost[i] = cost[i - 1] + ops[i][1]
  BY DEF RunTo
<1>2. /\ ops \in Seq(PlanOperator) /\ n \in Nat /\ DOMAIN ops = S
      /\ \A i \in S : ops[i] \in PlanOperator
  BY DEF RunTo
<1>3. \A i \in S : /\ ops[i][1] \in Nat /\ ops[i][1] \in Costs /\ ops[i][2] \in Operators[ops[i][1]]
                   /\ i \in 0 .. n /\ i - 1 \in 0 .. n
  BY <1>2, OperatorFacts DEF PlanOperator
<1>4. ASSUME start = InitState PROVE Reached(ops) = {t}
  <2>. DEFINE A == SUBSET States
              base == {InitState}
              value == [i \in 0 .. n |-> {state[i]}]
              step == [e \in S \X A |-> Image("fw", ops[e[1]][2], e[2])]
              IsFold(f) == f = [s \in SUBSET S |->
                                  IF s = {} THEN {InitState}
                                  ELSE Image("fw", ops[Max(s)][2], f[s \ {Max(s)}])]
              iter == CHOOSE f : IsFold(f)
  <2>1. Reached(ops) = iter[S]
    BY <1>2 DEF Reached, FoldLeft, MapThenFoldSet
  <2>2. /\ value \in [0 .. n -> A] /\ value[0] = {InitState} /\ value[n] = {t}
        /\ \A i \in 0 .. n : value[i] = {state[i]}
    BY <1>1, <1>2, <1>4
  <2>3. /\ step \in [S \X A -> A]
        /\ \A i \in S, a \in A : step[<<i, a>>] = Image("fw", ops[i][2], a)
    BY DEF Image
  <2>. HIDE DEF value, step
  <2>4. ASSUME NEW i \in S PROVE value[i] = step[<<i, value[i - 1]>>]
    <3>1. value[i] = {state[i]} /\ value[i - 1] = {state[i - 1]} /\ value[i - 1] \in A
      BY <1>3, <2>2
    <3>2. step[<<i, value[i - 1]>>] = Image("fw", ops[i][2], {state[i - 1]})
      BY <2>3, <3>1
    <3>3. Image("fw", ops[i][2], {state[i - 1]}) = {state[i]}
      <4>1. <<state[i - 1], state[i]>> \in ops[i][2] /\ state[i] \in States
        BY <1>1, <1>3
      <4>2. \A x, y \in ops[i][2] : x[1] = y[1] => x = y
        BY <1>3, OperatorFacts
      <4>3. ASSUME NEW r, <<state[i - 1], r>> \in ops[i][2] PROVE r = state[i]
        <5>1. <<state[i - 1], r>> = <<state[i - 1], state[i]>>
          BY <4>1, <4>2, <4>3
        <5>. QED
          BY <5>1
      <4>. QED
        BY <4>1, <4>3 DEF Image
    <3>. QED
      BY <3>1, <3>2, <3>3
  <2>. HIDE DEF A
  <2>5. /\ \E f \in [SUBSET (1 .. n) -> A] : FoldsLast(f, base, step, A, n)
        /\ \A f : FoldsLast(f, base, step, A, n) => f[1 .. n] = value[n]
    <3>1. n \in Nat /\ value \in [0 .. n -> A] /\ step \in [(1 .. n) \X A -> A] /\ base \in A
      <4>1. base \in A
        BY TaskAssumption DEF A
      <4>. QED
        BY <1>2, <2>2, <2>3, <4>1
    <3>2. RecursBy(value, base, step, n)
      BY <2>2, <2>4 DEF RecursBy
    <3>. HIDE DEF n, S, IsFold, iter, base
    <3>3. \E f \in [SUBSET (1 .. n) -> A] : FoldsLast(f, base, step, A, n)
      BY <3>1, FoldLastExists
    <3>4. ASSUME NEW f, FoldsLast(f, base, step, A, n) PROVE f[1 .. n] = value[n]
      BY <3>1, <3>2, <3>4, FoldAlong
    <3>. QED
      BY <3>3, <3>4
  <2>6. PICK f \in [SUBSET S -> A] : FoldsLast(f, base, step, A, n)
    BY <2>5
  <2>61. /\ f[{}] = {InitState}
         /\ \A s \in SUBSET S : s # {} => Max(s) \in s /\ f[s] = step[<<Max(s), f[s \ {Max(s)}]>>]
    <3>1. \A s \in SUBSET S : f[s \ {Max(s)}] \in A
      OBVIOUS
    <3>. QED
      BY <2>6, <3>1 DEF FoldsLast
  <2>. HIDE DEF S
  <2>7. IsFold(f)
    <3>1. ASSUME NEW s \in SUBSET S, s # {}
          PROVE  f[s] = Image("fw", ops[Max(s)][2], f[s \ {Max(s)}])
      <4>1. Max(s) \in S /\ s \ {Max(s)} \in SUBSET S
        BY <2>61, <3>1
      <4>2. f[s \ {Max(s)}] \in A
        BY <4>1
      <4>. QED
        BY <2>3, <2>61, <3>1, <4>1, <4>2
    <3>. QED
      BY <2>2, <2>61, <3>1
  <2>8. IsFold(iter)
    <3>. HIDE DEF IsFold
    <3>. QED
      BY <2>7
  <2>. HIDE DEF iter
  <2>9. /\ iter[{}] = {InitState}
        /\ \A s \in SUBSET S : s # {} => iter[s] = Image("fw", ops[Max(s)][2], iter[s \ {Max(s)}])
    BY <2>8
  <2>10. iter[S] = value[n]
    <3>1. \A s \in SUBSET S : s # {} => Max(s) \in S
      BY <2>61
    <3>2. \A s \in SUBSET S : s # {} /\ iter[s \ {Max(s)}] \in A =>
             iter[s] = step[<<Max(s), iter[s \ {Max(s)}]>>]
      BY <2>3, <2>9, <3>1
    <3>3. FoldsLast(iter, base, step, A, n)
      BY <2>2, <2>9, <2>61, <3>2 DEF FoldsLast, S
    <3>4. iter[1 .. n] = value[n]
      BY <2>5, <3>3
    <3>. QED
      BY <3>4 DEF S
  <2>. QED
    BY <2>1, <2>2, <2>10
<1>5. PathCost(ops) = k
  <2>. DEFINE A == Nat
              step == [e \in S \X Nat |-> e[2] + ops[e[1]][1]]
              IsFold(f) == f = [s \in SUBSET S |->
                                  IF s = {} THEN 0
                                  ELSE f[s \ {Max(s)}] + ops[Max(s)][1]]
              iter == CHOOSE f : IsFold(f)
  <2>1. PathCost(ops) = iter[S]
    BY <1>2 DEF PathCost, FoldLeft, MapThenFoldSet
  <2>2. /\ step \in [S \X Nat -> Nat]
        /\ \A i \in S, a \in Nat : step[<<i, a>>] = a + ops[i][1]
    BY <1>3
  <2>. HIDE DEF step
  <2>3. ASSUME NEW i \in S PROVE cost[i] = step[<<i, cost[i - 1]>>]
    BY <1>1, <1>3, <2>2
  <2>4. /\ \E f \in [SUBSET (1 .. n) -> A] : FoldsLast(f, 0, step, A, n)
        /\ \A f : FoldsLast(f, 0, step, A, n) => f[1 .. n] = cost[n]
    <3>1. n \in Nat /\ cost \in [0 .. n -> A] /\ step \in [(1 .. n) \X A -> A] /\ 0 \in A
      BY <1>2, <2>2
    <3>2. RecursBy(cost, 0, step, n)
      BY <1>1, <2>3 DEF RecursBy
    <3>. HIDE DEF n, S, IsFold, iter, A
    <3>3. \E f \in [SUBSET (1 .. n) -> A] : FoldsLast(f, 0, step, A, n)
      BY <3>1, FoldLastExists
    <3>4. ASSUME NEW f, FoldsLast(f, 0, step, A, n) PROVE f[1 .. n] = cost[n]
      BY <3>1, <3>2, <3>4, FoldAlong
    <3>. QED
      BY <3>3, <3>4
  <2>5. PICK f \in [SUBSET S -> Nat] : FoldsLast(f, 0, step, A, n)
    BY <2>4
  <2>51. /\ f[{}] = 0
         /\ \A s \in SUBSET S : s # {} => Max(s) \in s /\ f[s] = step[<<Max(s), f[s \ {Max(s)}]>>]
    <3>1. \A s \in SUBSET S : f[s \ {Max(s)}] \in Nat
      OBVIOUS
    <3>. QED
      BY <2>5, <3>1 DEF FoldsLast
  <2>. HIDE DEF S
  <2>6. IsFold(f)
    <3>1. ASSUME NEW s \in SUBSET S, s # {}
          PROVE  f[s] = f[s \ {Max(s)}] + ops[Max(s)][1]
      <4>1. Max(s) \in S /\ s \ {Max(s)} \in SUBSET S
        BY <2>51, <3>1
      <4>2. f[s \ {Max(s)}] \in Nat
        BY <4>1
      <4>. QED
        BY <2>2, <2>51, <3>1, <4>1, <4>2
    <3>. QED
      BY <1>1, <2>51, <3>1
  <2>7. IsFold(iter)
    <3>. HIDE DEF IsFold
    <3>. QED
      BY <2>6
  <2>. HIDE DEF iter
  <2>8. /\ iter[{}] = 0
        /\ \A s \in SUBSET S : s # {} => iter[s] = iter[s \ {Max(s)}] + ops[Max(s)][1]
    BY <2>7
  <2>9. iter[S] = cost[n]
    <3>1. \A s \in SUBSET S : s # {} => Max(s) \in S
      BY <2>51
    <3>2. \A s \in SUBSET S : s # {} /\ iter[s \ {Max(s)}] \in Nat =>
             iter[s] = step[<<Max(s), iter[s \ {Max(s)}]>>]
      BY <2>2, <2>8, <3>1
    <3>3. FoldsLast(iter, 0, step, A, n)
      BY <1>1, <2>8, <2>51, <3>2 DEF FoldsLast, S
    <3>4. iter[1 .. n] = cost[n]
      BY <2>4, <3>3
    <3>. QED
      BY <3>4 DEF S
  <2>. QED
    BY <1>1, <2>1, <2>9
<1>. QED
  BY <1>4, <1>5

-----------------------------------------------------------------------------
(* The closed lists and their layers.                                      *)

\* What is grounded stays so when states are closed and layers are added.
LEMMA GroundedGrows ==
    ASSUME NEW old, NEW new, NEW d, NEW h, NEW s, NEW k \in Nat,
           Grounded(old, d, h, s, k),
           old.closed[d] \subseteq new.closed[d],
           \A j \in 1 .. k : LayersIn(new, d, h)[j] = LayersIn(old, d, h)[j]
    PROVE  Grounded(new, d, h, s, k)
BY DEF Grounded

\* A vector of BDDs is an order of a bucket.
LEMMA BucketInOrder ==
    ASSUME NEW bucket \in Bucket, NEW order \in SetToSeqs(bucket)
    PROVE  /\ order \in Seq(BDD)
           /\ \A i \in 1 .. Len(order) : order[i] \in bucket
           /\ \A b \in bucket : \E i \in 1 .. Len(order) : order[i] = b
<1>. DEFINE m == Cardinality(bucket)
<1>1. IsFiniteSet(bucket) /\ m \in Nat /\ bucket \subseteq BDD
  <2>1. IsFiniteSet(BDD) /\ bucket \in SUBSET BDD
    <3>1. IsFiniteSet(States)
      BY TaskAssumption
    <3>2. IsFiniteSet(SUBSET States)
      BY <3>1, FS_SUBSET
    <3>. QED
      BY <3>2 DEF BDD, Bucket
  <2>. QED
    BY <2>1, BucketFinite, FS_Subset
<1>2. order \in [1 .. m -> bucket] /\ \A i, j \in 1 .. m : i # j => order[i] # order[j]
  BY DEF SetToSeqs
<1>3. order \in Seq(BDD) /\ Len(order) = m
  BY <1>1, <1>2
<1>4. \A b \in bucket : \E i \in 1 .. m : order[i] = b
  <2>1. order \in Injection(1 .. m, bucket)
    BY <1>2 DEF Injection, IsInjective
  <2>2. IsFiniteSet(1 .. m) /\ Cardinality(1 .. m) = m
    BY <1>1, FS_Interval
  <2>3. order \in Surjection(1 .. m, bucket)
    BY <1>1, <2>1, <2>2, FS_Injection
  <2>. QED
    BY <2>3 DEF Surjection
<1>. QED
  BY <1>2, <1>3, <1>4

\* ClosedList::insert appends the BDDs of a bucket to the layers of its g-value.
LEMMA LayersAppended ==
    ASSUME ListsType(Lists), HasTransitions0, dir \in Directions,
           NEW bucket \in Bucket, NEW g \in Nat, layers' \in LayersAfter(bucket, g)
    PROVE  \E order \in Seq(BDD) :
              /\ \A i \in 1 .. Len(order) : order[i] \in bucket
              /\ \A b \in bucket : \E i \in 1 .. Len(order) : order[i] = b
              /\ DOMAIN layers' = Directions
              /\ \A d \in Directions : d # dir => layers'[d] = layers[d]
              /\ DOMAIN layers'[dir] = DOMAIN layers[dir] \cup {g}
              /\ layers'[dir][g] = LayersIn(Lists, dir, g) \o order
              /\ \A h \in DOMAIN layers[dir] : h # g => layers'[dir][h] = layers[dir][h]
<1>. DEFINE of == layers[dir]
            old == LayersIn(Lists, dir, g)
<1>1. DOMAIN layers = Directions
  BY DEF ListsType, Lists
<1>2. old = IF g \in DOMAIN of THEN of[g] ELSE <<>>
  BY DEF LayersIn, Lists
<1>3. PICK order \in SetToSeqs(bucket) :
         layers' = [layers EXCEPT ![dir] = [h \in DOMAIN of \cup {g} |->
                                               IF h = g THEN old \o order ELSE of[h]]]
  BY <1>2 DEF LayersAfter
<1>. HIDE DEF old
<1>4. /\ DOMAIN layers' = Directions
      /\ \A d \in Directions : d # dir => layers'[d] = layers[d]
      /\ layers'[dir] = [h \in DOMAIN of \cup {g} |-> IF h = g THEN old \o order ELSE of[h]]
  BY <1>1, <1>3
<1>5. /\ DOMAIN layers'[dir] = DOMAIN of \cup {g}
      /\ layers'[dir][g] = old \o order
      /\ \A h \in DOMAIN of : h # g => layers'[dir][h] = of[h]
  BY <1>4
<1>6. /\ order \in Seq(BDD)
      /\ \A i \in 1 .. Len(order) : order[i] \in bucket
      /\ \A b \in bucket : \E i \in 1 .. Len(order) : order[i] = b
  BY BucketInOrder
<1>. QED
  BY <1>4, <1>5, <1>6 DEF old

\* Popping a bucket keeps the layers in order: what it closes has a predecessor that was
\* closed before.
LEMMA PopLists ==
    ASSUME StructureInv, StructureInv', ListsInv(Lists), Pop, ClosePopped
    PROVE  ListsInv(Lists)'
<1>. DEFINE new == [closed |-> closed', layers |-> layers']
            old(h) == LayersIn(Lists, dir, h)
<1>1. PICK g \in Nat, popped \in Bucket, bucket \in Bucket : LayerPopped(g, popped, bucket)
  BY StructureTypes, PopEffect DEF StructureInv, TypeInv
<1>2. /\ TypeInv /\ dir \in Directions /\ ~ lastStepCost[dir]
      /\ frontier'[dir] = Popped(g, bucket)
      /\ closed' = [closed EXCEPT ![dir] = closed[dir] \cup ({g} \X UNION bucket)]
  <2>1. TypeInv /\ TypeInv'
    BY StructureTypes DEF TypeInv, StructureInv
  <2>2. frontier' = [frontier EXCEPT ![dir] = Popped(g, bucket)]
    BY <1>1 DEF LayerPopped
  <2>. QED
    BY <1>1, <2>1, <2>2, StateTypes, PopEffect DEF LayerPopped
<1>3. layers' \in IF bucket # {} THEN LayersAfter(bucket, g) ELSE {layers}
  BY <1>2 DEF ClosePopped, Popped
<1>4. /\ closed \in [Directions -> SUBSET (Nat \X States)]
      /\ closed' \in [Directions -> SUBSET (Nat \X States)]
      /\ \A d \in Directions : closed[d] \subseteq closed'[d]
      /\ \A d \in Directions : d # dir => closed'[d] = closed[d]
      /\ closed'[dir] = closed[dir] \cup ({g} \X UNION bucket)
  <2>1. closed \in [Directions -> SUBSET (Nat \X States)]
    BY <1>2, StateTypes
  <2>2. \A s \in UNION bucket : s \in States
    <3>1. bucket \subseteq BDD
      BY DEF Bucket
    <3>2. \A b \in bucket : b \subseteq States
      BY <3>1 DEF BDD
    <3>. QED
      BY <3>2
  <2>. QED
    BY <1>2, <2>1, <2>2
<1>5. \A s \in UNION bucket : Reconstructable(dir, g, s)
  <2>1. ASSUME NEW s \in UNION bucket PROVE Reconstructable(dir, g, s)
    <3>1. PICK entry \in open[dir] : entry[1] = g /\ s \in entry[2]
      BY <1>1, <2>1 DEF LayerPopped
    <3>. QED
      BY <1>2, <3>1 DEF StructureInv, PathsReconstructable
  <2>. QED
    BY <2>1
<1>6. /\ ListsType(Lists)
      /\ \A d \in Directions :
            /\ \A entry \in closed[d] :
                  IF HasTransitions0
                  THEN \E k \in 1 .. Len(LayersIn(Lists, d, entry[1])) :
                          entry[2] \in LayersIn(Lists, d, entry[1])[k]
                  ELSE Grounded(Lists, d, entry[1], entry[2], 0)
            /\ \A h \in DOMAIN layers[d] : \A k \in 1 .. Len(layers[d][h]) :
                  \A s \in layers[d][h][k] : Grounded(Lists, d, h, s, k - 1)
  <2>1. Lists.closed = closed /\ Lists.layers = layers
    BY DEF Lists
  <2>. QED
    BY <2>1 DEF ListsInv
<1>7. CASE bucket = {}
  <2>1. layers' = layers
    BY <1>3, <1>7
  <2>2. closed' = closed
    BY <1>4, <1>7
  <2>. QED
    BY <2>1, <2>2 DEF Lists
<1>8. CASE bucket # {} /\ ~ HasTransitions0
  <2>1. layers' = layers
    BY <1>3, <1>8 DEF LayersAfter
  <2>2. \A d, h : LayersIn(new, d, h) = LayersIn(Lists, d, h)
    BY <2>1 DEF LayersIn, Lists
  <2>3. \A d \in Directions : \A h, s : Grounded(Lists, d, h, s, 0) => Grounded(new, d, h, s, 0)
    BY <1>4, <2>2, GroundedGrows DEF Lists
  <2>4. ListsType(new) /\ \A d \in Directions : DOMAIN layers'[d] = {}
    BY <1>4, <1>6, <1>8, <2>1 DEF ListsType, Lists
  <2>5. \A s \in UNION bucket : Grounded(new, dir, g, s, 0)
    <3>1. ASSUME NEW s \in UNION bucket PROVE Grounded(new, dir, g, s, 0)
      <4>1. 0 \notin Costs
        BY <1>8 DEF HasTransitions0
      <4>. QED
        BY <1>2, <1>4, <1>5, <3>1, <4>1 DEF Grounded, Reconstructable
    <3>. QED
      BY <3>1
  <2>6. ASSUME NEW d \in Directions, NEW entry \in closed'[d]
        PROVE  Grounded(new, d, entry[1], entry[2], 0)
    <3>1. CASE entry \in closed[d]
      BY <1>6, <1>8, <2>3, <3>1
    <3>2. CASE entry \notin closed[d]
      <4>1. d = dir /\ entry[1] = g /\ entry[2] \in UNION bucket
        BY <1>4, <2>6, <3>2
      <4>. QED
        BY <2>5, <4>1
    <3>. QED
      BY <3>1, <3>2
  <2>7. ListsInv(new)
    BY <1>8, <2>4, <2>6 DEF ListsInv
  <2>. QED
    BY <2>7 DEF Lists
<1>9. CASE bucket # {} /\ HasTransitions0
  <2>1. layers' \in LayersAfter(bucket, g)
    BY <1>3, <1>9
  <2>2. PICK order \in Seq(BDD) :
           /\ \A i \in 1 .. Len(order) : order[i] \in bucket
           /\ \A b \in bucket : \E i \in 1 .. Len(order) : order[i] = b
           /\ DOMAIN layers' = Directions
           /\ \A d \in Directions : d # dir => layers'[d] = layers[d]
           /\ DOMAIN layers'[dir] = DOMAIN layers[dir] \cup {g}
           /\ layers'[dir][g] = old(g) \o order
           /\ \A h \in DOMAIN layers[dir] : h # g => layers'[dir][h] = layers[dir][h]
    BY <1>2, <1>6, <1>9, <2>1, LayersAppended
  <2>3. /\ old(g) \in Seq(BDD) /\ Len(old(g)) \in Nat /\ Len(order) \in Nat
        /\ Len(old(g) \o order) = Len(old(g)) + Len(order)
        /\ old(g) \o order \in Seq(BDD)
        /\ \A k \in 1 .. Len(old(g)) : (old(g) \o order)[k] = old(g)[k]
        /\ \A i \in 1 .. Len(order) : (old(g) \o order)[Len(old(g)) + i] = order[i]
    <3>1. old(g) \in Seq(BDD)
      BY <1>2, <1>6 DEF LayersIn, ListsType, Lists
    <3>. HIDE DEF old
    <3>. QED
      BY <3>1
  <2>4. /\ LayersIn(new, dir, g) = old(g) \o order
        /\ \A h : h # g => LayersIn(new, dir, h) = old(h)
        /\ \A d \in Directions : \A h : d # dir => LayersIn(new, d, h) = LayersIn(Lists, d, h)
    BY <2>2 DEF LayersIn, Lists
  <2>. DEFINE m == Len(old(g))
  <2>. HIDE DEF m, old
  <2>5. m \in Nat /\ m = Len(old(g))
    BY <2>3 DEF m
  <2>6. ASSUME NEW d \in Directions, NEW h, NEW k \in 1 .. Len(LayersIn(Lists, d, h))
        PROVE  /\ k \in 1 .. Len(LayersIn(new, d, h))
               /\ LayersIn(new, d, h)[k] = LayersIn(Lists, d, h)[k]
    <3>1. CASE d = dir /\ h = g
      <4>1. k \in 1 .. Len(old(g))
        BY <2>6, <3>1 DEF old
      <4>2. LayersIn(new, d, h) = old(g) \o order
        BY <2>4, <3>1
      <4>3. k \in 1 .. Len(old(g) \o order)
        BY <2>3, <4>1
      <4>. QED
        BY <2>3, <3>1, <4>1, <4>2, <4>3 DEF old
    <3>2. CASE ~ (d = dir /\ h = g)
      <4>1. LayersIn(new, d, h) = LayersIn(Lists, d, h)
        BY <2>4, <3>2 DEF old
      <4>. QED
        BY <4>1
    <3>. QED
      BY <3>1, <3>2
  <2>7. ASSUME NEW d \in Directions, NEW h, NEW s, NEW k \in Nat, k <= Len(LayersIn(Lists, d, h)),
               Len(LayersIn(Lists, d, h)) \in Nat,
               Grounded(Lists, d, h, s, k)
        PROVE  Grounded(new, d, h, s, k)
    <3>1. \A j \in 1 .. k : LayersIn(new, d, h)[j] = LayersIn(Lists, d, h)[j]
      BY <2>6, <2>7
    <3>2. Lists.closed[d] \subseteq new.closed[d]
      BY <1>4 DEF Lists
    <3>. HIDE DEF new
    <3>. QED
      BY <2>7, <3>1, <3>2, GroundedGrows
  <2>8. ListsType(new)
    <3>1. ASSUME NEW d \in Directions, NEW h \in DOMAIN layers'[d]
          PROVE  h \in Nat /\ layers'[d][h] \in Seq(BDD)
      <4>1. \A e \in Directions : \A x \in DOMAIN layers[e] : x \in Nat /\ layers[e][x] \in Seq(BDD)
        BY <1>6, <1>9 DEF ListsType, Lists
      <4>. QED
        BY <2>2, <2>3, <3>1, <4>1
    <3>. QED
      BY <1>4, <1>9, <2>2, <3>1 DEF ListsType
  <2>9. ASSUME NEW d \in Directions, NEW entry \in closed'[d]
        PROVE  \E k \in 1 .. Len(LayersIn(new, d, entry[1])) : entry[2] \in LayersIn(new, d, entry[1])[k]
    <3>1. CASE entry \in closed[d]
      <4>1. PICK k \in 1 .. Len(LayersIn(Lists, d, entry[1])) : entry[2] \in LayersIn(Lists, d, entry[1])[k]
        BY <1>6, <1>9, <3>1
      <4>. HIDE DEF new
      <4>. QED
        BY <2>6, <4>1
    <3>2. CASE entry \notin closed[d]
      <4>1. d = dir /\ entry[1] = g /\ entry[2] \in UNION bucket
        BY <1>4, <2>9, <3>2
      <4>2. PICK i \in 1 .. Len(order) : entry[2] \in order[i]
        BY <2>2, <4>1
      <4>3. m + i \in 1 .. Len(old(g) \o order) /\ (old(g) \o order)[m + i] = order[i]
        BY <2>3, <2>5
      <4>. HIDE DEF new
      <4>. QED
        BY <2>4, <4>1, <4>2, <4>3
    <3>. QED
      BY <3>1, <3>2
  <2>10. ASSUME NEW s \in UNION bucket, NEW k \in Nat, m <= k PROVE Grounded(new, dir, g, s, k)
    <3>1. CASE g = 0 /\ s \in Source(dir)
      BY <3>1 DEF Grounded
    <3>2. CASE \E entry \in closed[dir], c \in Costs : g = entry[1] + c /\ Leads(dir, entry[2], c, s)
      <4>1. PICK entry \in closed[dir], c \in Costs : g = entry[1] + c /\ Leads(dir, entry[2], c, s)
        BY <3>2
      <4>2. CASE c # 0
        <5>1. entry \in closed'[dir]
          BY <1>2, <1>4
        <5>. QED
          BY <4>1, <4>2, <5>1 DEF Grounded
      <4>3. CASE c = 0
        <5>1. entry[1] = g
          BY <1>2, <1>4, <4>1, <4>3
        <5>2. PICK j \in 1 .. Len(LayersIn(Lists, dir, g)) : entry[2] \in LayersIn(Lists, dir, g)[j]
          BY <1>2, <1>6, <1>9, <5>1
        <5>3. j \in 1 .. k /\ entry[2] \in LayersIn(new, dir, g)[j]
          <6>1. Len(LayersIn(Lists, dir, g)) = m
            BY <2>5 DEF old
          <6>2. j \in 1 .. k
            BY <2>5, <2>10, <6>1
          <6>3. LayersIn(new, dir, g)[j] = LayersIn(Lists, dir, g)[j]
            BY <1>2, <2>6
          <6>. QED
            BY <5>2, <6>2, <6>3
        <5>. QED
          BY <4>1, <4>3, <5>3 DEF Grounded
      <4>. QED
        BY <4>2, <4>3
    <3>. QED
      BY <1>5, <3>1, <3>2 DEF Reconstructable
  <2>11. ASSUME NEW d \in Directions, NEW h \in DOMAIN layers'[d], NEW k \in 1 .. Len(layers'[d][h]),
                NEW s \in layers'[d][h][k]
         PROVE  Grounded(new, d, h, s, k - 1)
    <3>1. /\ LayersIn(new, d, h) = layers'[d][h]
          /\ layers'[d][h] \in Seq(BDD) /\ Len(layers'[d][h]) \in Nat /\ k - 1 \in Nat
      <4>1. layers'[d][h] \in Seq(BDD)
        BY <2>8 DEF ListsType
      <4>. QED
        BY <4>1 DEF LayersIn
    <3>2. ASSUME h \in DOMAIN layers[d], k \in 1 .. Len(layers[d][h]), s \in layers[d][h][k]
          PROVE  Grounded(new, d, h, s, k - 1)
      <4>1. LayersIn(Lists, d, h) = layers[d][h] /\ Len(layers[d][h]) \in Nat
        <5>1. layers[d][h] \in Seq(BDD)
          BY <1>6, <3>2 DEF ListsType, Lists
        <5>. QED
          BY <3>2, <5>1 DEF LayersIn, Lists
      <4>2. Grounded(Lists, d, h, s, k - 1)
        BY <1>6, <3>2
      <4>3. k - 1 <= Len(LayersIn(Lists, d, h))
        BY <3>2, <4>1
      <4>. HIDE DEF new
      <4>. QED
        BY <2>7, <3>1, <4>1, <4>2, <4>3
    <3>3. CASE d = dir /\ h = g
      <4>1. layers'[d][h] = old(g) \o order
        BY <2>2, <3>3
      <4>2. CASE k <= m
        <5>1. k \in 1 .. Len(old(g)) /\ s \in old(g)[k]
          BY <2>3, <2>5, <2>11, <4>1, <4>2
        <5>2. g \in DOMAIN layers[dir] /\ old(g) = layers[dir][g]
          <6>1. Len(<<>>) = 0
            OBVIOUS
          <6>2. old(g) # <<>>
            BY <2>5, <4>2, <5>1, <6>1
          <6>. QED
            BY <6>2 DEF old, LayersIn, Lists
        <5>. QED
          BY <3>2, <3>3, <5>1, <5>2
      <4>3. CASE ~ (k <= m)
        <5>1. k - m \in 1 .. Len(order) /\ m + (k - m) = k
          BY <2>3, <2>5, <2>11, <4>1, <4>3
        <5>2. s \in order[k - m] /\ order[k - m] \in bucket
          BY <2>2, <2>3, <2>5, <2>11, <4>1, <5>1
        <5>3. s \in UNION bucket /\ m <= k - 1
          BY <2>5, <3>1, <4>3, <5>2
        <5>. HIDE DEF new
        <5>. QED
          BY <2>10, <3>1, <3>3, <5>3
      <4>. QED
        BY <4>2, <4>3
    <3>4. CASE ~ (d = dir /\ h = g)
      <4>1. h \in DOMAIN layers[d] /\ layers'[d][h] = layers[d][h]
        BY <2>2, <2>11, <3>4
      <4>. QED
        BY <2>11, <3>2, <4>1
    <3>. QED
      BY <3>3, <3>4
  <2>12. ListsInv(new)
    BY <1>9, <2>8, <2>9, <2>11 DEF ListsInv
  <2>. QED
    BY <2>12 DEF Lists
<1>. QED
  BY <1>7, <1>8, <1>9

-----------------------------------------------------------------------------
(* The search.                                                             *)

LEMMA SolvedTypes ==
    ASSUME solution \in SolutionType, IsSolved(solution)
    PROVE  /\ solution.g \in Nat /\ solution.h \in Nat /\ solution.cut \in BDD
           /\ UpperBound = solution.g + solution.h
           /\ \A d \in Directions : PartCost(d) \in Nat
<1>1. solution \in [g : Nat, h : Nat, cut : BDD]
  BY DEF SolutionType, NoSolution, IsSolved
<1>2. solution.g \in Nat /\ solution.h \in Nat /\ solution.cut \in BDD
  BY <1>1
<1>. QED
  BY <1>2 DEF UpperBound, UpperOf, PartCost

\* A new solution is found where the images or the popped states of a direction meet what
\* the other one has closed, and both can go back from there.
LEMMA NewSolution ==
    ASSUME StructureInv, StructureInv', [Next]_vars, solution' # solution
    PROVE  /\ IsSolved(solution') /\ solution'.cut # {}
           /\ \A d \in Directions : \A s \in solution'.cut : Reconstructable(d, PartCost(d)', s)
           /\ MetAtSource'
<1>1. /\ TypeInv /\ dir \in {"fw", "bw"} /\ Opposite(dir) \in {"fw", "bw"}
      /\ dir \in Directions /\ \A d \in Directions : d \in {"fw", "bw"}
  BY StructureTypes, StateTypes DEF Opposite
<1>2. PICK g \in Nat, bdds \in Bucket : /\ solution' \in SolutionsAfterCut(dir, g, bdds)
                                        /\ \A s \in UNION bdds : Reconstructable(dir, g, s)
  <2>1. CASE Insert
    <3>1. PICK image \in images, merged \in Bucket :
             UNION merged = UNION image[2] /\ solution' \in SolutionsAfterCut(dir, image[1], merged)
      BY <2>1, InsertEffect
    <3>2. image[1] \in Nat
      BY <1>1, StateTypes
    <3>3. \A s \in UNION merged : Reconstructable(dir, image[1], s)
      BY <3>1 DEF StructureInv, PathsReconstructable
    <3>. QED
      BY <3>1, <3>2, <3>3
  <2>2. CASE Pop
    <3>1. PICK g \in Nat, popped \in Bucket, bucket \in Bucket : LayerPopped(g, popped, bucket)
      BY <2>2, StructureTypes, PopEffect DEF StructureInv, TypeInv
    <3>2. \A s \in UNION popped : Reconstructable(dir, g, s)
      BY <1>1, <3>1 DEF LayerPopped, StructureInv, PathsReconstructable
    <3>. QED
      BY <3>1, <3>2 DEF LayerPopped
  <2>3. UNCHANGED solution
        \/ Insert \/ Pop
    <3>1. CASE (\E d \in Directions : Step(d)) \/ PrepareNext
      BY <3>1, PrepareEffect
    <3>2. CASE ExpandZero \/ ExpandCost
      BY <3>2, ExpandEffect
    <3>3. CASE Exhaust
      BY <3>3 DEF Exhaust
    <3>4. CASE ExpandTruncated \/ InsertDone \/ Finish \/ UNCHANGED vars
      BY <3>4, QuietEffect
    <3>. QED
      BY <3>1, <3>2, <3>3, <3>4 DEF Next, Terminated
  <2>. QED
    BY <2>1, <2>2, <2>3
<1>3. IsSolved(solution') /\ solution' \in SolutionType
  BY <1>1, <1>2, OppositeClosedType, SolutionAfterCut DEF TypeInv, TypeOK
<1>4. /\ solution'.cut # {}
      /\ \A s \in solution'.cut : /\ "fw" \in Directions => Reconstructable("fw", solution'.g, s)
                                  /\ "bw" \in Directions => Reconstructable("bw", solution'.h, s)
  BY <1>2, <1>3, CutReconstructable
<1>5. \A d \in Directions : \A s \in solution'.cut : Reconstructable(d, PartCost(d)', s)
  BY <1>1, <1>4 DEF PartCost
<1>6. ASSUME NEW d \in {"fw", "bw"}, d \notin Directions
      PROVE  PartCost(d)' = 0 /\ solution'.cut \subseteq Source(d)
  <2>1. PICK h, cut : /\ solution' = SymSolution(dir, g, h, cut)
                      /\ cut # {}
                      /\ \A s \in cut : s \in UNION bdds /\ <<h, s>> \in OppositeClosed(dir)
    BY <1>2, CutOfNewSolution
  <2>2. d = Opposite(dir)
    BY <1>1, <1>6 DEF Opposite
  <2>3. OppositeClosed(dir) = {0} \X Source(d)
    BY <1>6, <2>2 DEF OppositeClosed
  <2>4. h = 0 /\ cut \subseteq Source(d)
    BY <2>1, <2>3
  <2>5. PartCost(d)' = h /\ solution'.cut = cut
    BY <1>1, <2>1, <2>2 DEF PartCost, SymSolution, Opposite
  <2>. QED
    BY <2>4, <2>5
<1>. QED
  BY <1>3, <1>4, <1>5, <1>6 DEF MetAtSource

LEMMA InitExtraction == ExtractionInit => ExtractionInv
<1>. SUFFICES ASSUME ExtractionInit PROVE ExtractionInv
  OBVIOUS
<1>1. /\ ~ IsSolved(solution) /\ \A d \in Directions : closed[d] = {0} \X Source(d)
      /\ closed \in [Directions -> SUBSET (Nat \X States)]
  BY InitEffect, InitStructure, StructureTypes, StateTypes DEF ExtractionInit
<1>2. /\ walk = Idle /\ path = <<>> /\ ~ plan.found
      /\ layers = [d \in Directions |-> [h \in IF HasTransitions0 THEN {0} ELSE {} |-> <<Source(d)>>]]
  BY DEF ExtractionInit
<1>3. \A d \in Directions : Source(d) \in BDD
  BY ConstantTypes
<1>4. ListsType(Lists)
  BY <1>1, <1>2, <1>3 DEF ListsType, Lists
<1>5. \A d \in Directions, s \in States, k \in Nat : s \in Source(d) => Grounded(Lists, d, 0, s, k)
  BY DEF Grounded
<1>6. ASSUME NEW d \in Directions, NEW entry \in closed[d]
      PROVE  IF HasTransitions0
             THEN \E k \in 1 .. Len(LayersIn(Lists, d, entry[1])) :
                     entry[2] \in LayersIn(Lists, d, entry[1])[k]
             ELSE Grounded(Lists, d, entry[1], entry[2], 0)
  <2>1. entry[1] = 0 /\ entry[2] \in Source(d)
    BY <1>1, <1>6
  <2>2. CASE HasTransitions0
    <3>1. LayersIn(Lists, d, 0) = <<Source(d)>>
      BY <1>2, <2>2 DEF LayersIn, Lists
    <3>2. 1 \in 1 .. Len(<<Source(d)>>) /\ <<Source(d)>>[1] = Source(d)
      OBVIOUS
    <3>. QED
      BY <2>1, <2>2, <3>1, <3>2
  <2>3. CASE ~ HasTransitions0
    BY <2>1, <2>3 DEF Grounded
  <2>. QED
    BY <2>2, <2>3
<1>7. ASSUME NEW d \in Directions, NEW h \in DOMAIN layers[d], NEW k \in 1 .. Len(layers[d][h]),
             NEW s \in layers[d][h][k]
      PROVE  Grounded(Lists, d, h, s, k - 1)
  <2>1. h = 0 /\ layers[d][h] = <<Source(d)>>
    BY <1>2, <1>7
  <2>2. k = 1 /\ s \in Source(d)
    BY <1>7, <2>1
  <2>. QED
    BY <2>1, <2>2 DEF Grounded
<1>8. ListsInv(Lists)
  BY <1>4, <1>6, <1>7 DEF ListsInv, Lists
<1>9. plan.found = IsSolved(solution)
  <2>1. plan.found = FALSE
    BY DEF ExtractionInit
  <2>2. IsSolved(solution) = FALSE
    <3>1. IsSolved(solution) \in BOOLEAN
      BY DEF IsSolved
    <3>. QED
      BY <1>1, <3>1
  <2>. QED
    BY <2>1, <2>2
<1>10. MetAtSource /\ WalkInv /\ PlanFound
  BY <1>1, <1>2, <1>9 DEF MetAtSource, WalkInv, PlanFound, Idle
<1>. QED
  BY <1>8, <1>10 DEF ExtractionInv

\* A step of the search keeps the lists in order, and starts a walk when it has found a
\* better solution.
LEMMA SearchStepInv ==
    ASSUME StructureInv, StructureInv', ExtractionInv, SearchStep
    PROVE  ExtractionInv'
<1>1. /\ walk.phase = "idle" /\ UNCHANGED <<path, plan>> /\ path = <<>>
      /\ walk' = IF solution' = solution THEN Idle
                 ELSE IF "fw" \in Directions THEN StartWalk("fw", solution'.cut, solution'.g, Lists)
                      ELSE StartWalk("bw", solution'.cut, solution'.h, Lists)
  BY DEF SearchStep, ExtractIfBetter, ExtractionInv, PlanFound, Lists
<1>2. Next /\ \/ Pop /\ ClosePopped
              \/ UNCHANGED <<closed, layers>>
  <2>1. CASE Pop /\ ClosePopped
    BY <2>1 DEF Next
  <2>2. CASE Insert /\ UNCHANGED layers
    BY <2>2 DEF Insert, Next
  <2>3. CASE (\E d \in Directions : Step(d)) /\ UNCHANGED layers
    BY <2>3 DEF Step, Next
  <2>4. CASE (ExpandZero \/ ExpandCost \/ ExpandTruncated) /\ UNCHANGED layers
    BY <2>4 DEF ExpandZero, ExpandCost, ExpandTruncated, perDirection, Next
  <2>5. CASE (InsertDone \/ Exhaust \/ PrepareNext \/ Finish \/ Terminated) /\ UNCHANGED layers
    BY <2>5 DEF InsertDone, Exhaust, PrepareNext, Finish, Terminated, perDirection, vars, Next
  <2>. QED
    BY <2>1, <2>2, <2>3, <2>4, <2>5 DEF SearchStep
<1>3. ListsInv(Lists)'
  <2>1. CASE UNCHANGED <<closed, layers>>
    <3>1. Lists' = Lists
      BY <2>1 DEF Lists
    <3>. QED
      BY <3>1 DEF ExtractionInv
  <2>. QED
    BY <1>2, <2>1, PopLists DEF ExtractionInv
<1>4. CASE solution' = solution
  BY <1>1, <1>3, <1>4 DEF ExtractionInv, MetAtSource, WalkInv, PlanFound, Idle, PartCost,
                          UpperBound, UpperOf, IsSolved
<1>5. CASE solution' # solution
  <2>1. /\ IsSolved(solution') /\ solution'.cut # {} /\ MetAtSource'
        /\ \A d \in Directions : \A s \in solution'.cut : Reconstructable(d, PartCost(d)', s)
    BY <1>2, <1>5, NewSolution
  <2>2. /\ solution'.g \in Nat /\ solution'.h \in Nat /\ solution'.cut \in BDD
        /\ UpperBound' = solution'.g + solution'.h
    <3>1. solution' \in SolutionType
      BY StructureTypes, StateTypes DEF StructureInv, TypeInv, TypeOK
    <3>2. solution' \in [g : Nat, h : Nat, cut : BDD]
      BY <2>1, <3>1 DEF SolutionType, NoSolution, IsSolved
    <3>. QED
      BY <2>1, <3>2 DEF UpperBound, UpperOf, IsSolved
  <2>3. \A d \in Directions : \A s \in solution'.cut : ReconstructableIn(Lists, d, PartCost(d)', s)
    BY <2>1 DEF ReconstructableIn, Reconstructable, Lists
  <2>4. PICK d \in Directions : /\ d = IF "fw" \in Directions THEN "fw" ELSE "bw"
                                /\ walk' = StartWalk(d, solution'.cut, PartCost(d)', Lists)
    <3>1. "fw" \in Directions \/ "bw" \in Directions
      BY TaskAssumption
    <3>. QED
      BY <1>1, <1>5, <3>1 DEF PartCost
  <2>5. /\ walk'.phase = "locate" /\ walk'.side = d /\ walk'.cut = solution'.cut
        /\ walk'.h = PartCost(d)' /\ walk'.steps0 = 0 /\ walk'.lists = Lists
        /\ DOMAIN walk' = {"phase", "side", "cut", "h", "steps0", "lists"}
    BY <2>4 DEF StartWalk
  <2>6. WalkType'
    <3>1. PartCost(d)' \in Nat
      BY <2>2, <2>4 DEF PartCost
    <3>2. 0 \in 0 .. Len(LayersIn(Lists, d, PartCost(d)'))
      <4>1. LayersIn(Lists, d, PartCost(d)') \in Seq(BDD)
        BY DEF ExtractionInv, ListsInv, ListsType, LayersIn
      <4>2. Len(LayersIn(Lists, d, PartCost(d)')) \in Nat
        BY <4>1
      <4>. QED
        BY <4>2
    <3>. QED
      BY <2>1, <2>2, <2>5, <3>1, <3>2 DEF WalkType
  <2>7. WalkGrounded'
    BY <2>3, <2>5 DEF WalkGrounded, ExtractionInv
  <2>8. WalkFound'
    <3>1. CASE d = "fw"
      <4>1. \A s \in solution'.cut : RunTo(<<>>, s, s, 0)
        BY <2>2, RunEmpty DEF BDD
      <4>2. solution'.g - walk'.h = 0
        BY <2>2, <2>5, <3>1 DEF PartCost
      <4>. QED
        BY <1>1, <2>5, <3>1, <4>1, <4>2 DEF WalkFound
    <3>2. CASE d # "fw"
      <4>1. "fw" \notin Directions /\ d = "bw"
        BY <2>4, <3>2
      <4>2. solution'.g = 0 /\ solution'.cut \subseteq {InitState}
        BY <2>1, <4>1 DEF MetAtSource, PartCost, Source
      <4>3. /\ solution'.cut = {InitState} /\ RunTo(<<>>, InitState, InitState, 0)
            /\ InitState \in States /\ Start(InitState)
        BY <2>1, <4>2, RunEmpty, TaskAssumption DEF Start
      <4>4. UpperBound' - walk'.h = 0
        BY <2>2, <2>5, <4>1, <4>2 DEF PartCost
      <4>. QED
        BY <1>1, <2>5, <4>1, <4>3, <4>4 DEF WalkFound
    <3>. QED
      BY <3>1, <3>2
  <2>. QED
    BY <1>3, <2>1, <2>5, <2>6, <2>7, <2>8 DEF ExtractionInv, WalkInv, PlanFound
<1>. QED
  BY <1>4, <1>5

-----------------------------------------------------------------------------
(* The walk.                                                               *)

\* Layers are kept for 0-cost operators only, and their states are grounded.
LEMMA LayersOf ==
    ASSUME NEW lists, ListsInv(lists), NEW d \in Directions, NEW h
    PROVE  /\ LayersIn(lists, d, h) \in Seq(BDD) /\ Len(LayersIn(lists, d, h)) \in Nat
           /\ ~ HasTransitions0 => LayersIn(lists, d, h) = <<>>
           /\ \A k \in 1 .. Len(LayersIn(lists, d, h)) : \A s \in LayersIn(lists, d, h)[k] :
                 Grounded(lists, d, h, s, k - 1)
<1>1. CASE h \in DOMAIN lists.layers[d]
  <2>1. LayersIn(lists, d, h) = lists.layers[d][h] /\ lists.layers[d][h] \in Seq(BDD) /\ HasTransitions0
    BY <1>1 DEF ListsInv, ListsType, LayersIn
  <2>. QED
    BY <1>1, <2>1 DEF ListsInv
<1>2. CASE h \notin DOMAIN lists.layers[d]
  <2>1. LayersIn(lists, d, h) = <<>> /\ <<>> \in Seq(BDD) /\ Len(<<>>) = 0
    BY <1>2 DEF LayersIn
  <2>. QED
    BY <2>1
<1>. QED
  BY <1>1, <1>2

LEMMA LayersOfWalk == \A h : LayersAt(h) = LayersIn(walk.lists, walk.side, h)
BY DEF LayersAt, LayersIn

\* What the phases of a walk rely on.
LEMMA WalkFacts ==
    ASSUME ExtractionInv, solution \in SolutionType, walk.phase \in {"locate", "walk"}
    PROVE  /\ IsSolved(solution) /\ WalkType /\ WalkGrounded /\ WalkFound
           /\ walk.side \in Directions /\ walk.side \in {"fw", "bw"}
           /\ \A h : /\ LayersAt(h) \in Seq(BDD) /\ Len(LayersAt(h)) \in Nat
                     /\ ~ HasTransitions0 => LayersAt(h) = <<>>
                     /\ \A k \in 1 .. Len(LayersAt(h)) : \A s \in LayersAt(h)[k] :
                           Grounded(walk.lists, walk.side, h, s, k - 1)
           /\ walk.h \in Nat /\ walk.steps0 \in Nat /\ walk.steps0 <= Len(LayersAt(walk.h))
<1>1. IsSolved(solution) /\ WalkType /\ WalkGrounded /\ WalkFound
  BY DEF ExtractionInv, WalkInv
<1>2. walk.side \in Directions /\ walk.side \in {"fw", "bw"} /\ ListsInv(walk.lists)
  BY <1>1, TaskAssumption DEF WalkType, WalkGrounded
<1>3. ASSUME NEW h
      PROVE  /\ LayersAt(h) \in Seq(BDD) /\ Len(LayersAt(h)) \in Nat
             /\ ~ HasTransitions0 => LayersAt(h) = <<>>
             /\ \A k \in 1 .. Len(LayersAt(h)) : \A s \in LayersAt(h)[k] :
                   Grounded(walk.lists, walk.side, h, s, k - 1)
  BY <1>2, LayersOf, LayersOfWalk
<1>4. walk.h \in Nat /\ walk.steps0 \in 0 .. Len(LayersAt(walk.h))
  BY <1>1, LayersOfWalk DEF WalkType
<1>5. walk.steps0 \in Nat /\ walk.steps0 <= Len(LayersAt(walk.h))
  BY <1>3, <1>4
<1>. QED
  BY <1>1, <1>2, <1>3, <1>4, <1>5

\* The walk does not touch the search.
LEMMA SearchKept ==
    ASSUME ExtractionInv, UNCHANGED <<vars, layers>>
    PROVE  /\ ListsInv(Lists)' /\ MetAtSource'
           /\ IsSolved(solution)' = IsSolved(solution) /\ UpperBound' = UpperBound
           /\ solution' = solution
<1>1. UNCHANGED <<closed, layers, solution>>
  BY DEF vars, perDirection, controller
<1>2. Lists' = Lists
  BY <1>1 DEF Lists
<1>3. ListsInv(Lists)'
  BY <1>2 DEF ExtractionInv
<1>4. MetAtSource'
  BY <1>1 DEF ExtractionInv, MetAtSource, PartCost, IsSolved
<1>. QED
  BY <1>1, <1>3, <1>4 DEF UpperBound, UpperOf, IsSolved

\* The first of the layers that a BDD meets.
LEMMA FirstLayer ==
    ASSUME NEW bdd, NEW h, NEW bound \in Nat, Met(bdd, h, bound) # {}
    PROVE  /\ Min(Met(bdd, h, bound)) \in 1 .. bound
           /\ bdd \cap LayersAt(h)[Min(Met(bdd, h, bound))] # {}
<1>1. Met(bdd, h, bound) \subseteq Nat
  BY DEF Met
<1>2. Min(Met(bdd, h, bound)) \in Met(bdd, h, bound)
  BY <1>1, LeastNumber
<1>. QED
  BY <1>2 DEF Met

\* An operator leads back to the states that have its transition to the cut.
LEMMA BackLeads ==
    ASSUME walk.side \in {"fw", "bw"}, NEW op, NEW r
    PROVE  /\ r \in Back(op) => /\ r \in States
                                /\ \E s \in walk.cut : IF walk.side = "fw" THEN <<r, s>> \in op
                                                                          ELSE <<s, r>> \in op
           /\ \A c \in Costs, s \in walk.cut : Leads(walk.side, r, c, s) =>
                 \E o \in Operators[c] : r \in Back(o)
<1>1. CASE walk.side = "fw"
  <2>1. Back(op) = {s \in States : \E t \in walk.cut : <<s, t>> \in op}
    BY <1>1 DEF Back, Opposite, Image
  <2>2. ASSUME NEW c \in Costs, NEW s \in walk.cut, Leads(walk.side, r, c, s)
        PROVE  \E o \in Operators[c] : r \in Back(o)
    <3>1. PICK o \in Operators[c] : <<r, s>> \in o /\ r \in States
      BY <1>1, <2>2, OperatorFacts DEF Leads
    <3>. QED
      BY <1>1, <3>1 DEF Back, Opposite, Image
  <2>. QED
    BY <1>1, <2>1, <2>2
<1>2. CASE walk.side = "bw"
  <2>1. Back(op) = {t \in States : \E s \in walk.cut : <<s, t>> \in op}
    BY <1>2 DEF Back, Opposite, Image
  <2>2. ASSUME NEW c \in Costs, NEW s \in walk.cut, Leads(walk.side, r, c, s)
        PROVE  \E o \in Operators[c] : r \in Back(o)
    <3>1. PICK o \in Operators[c] : <<s, r>> \in o /\ r \in States
      BY <1>2, <2>2, OperatorFacts DEF Leads
    <3>. QED
      BY <1>2, <3>1 DEF Back, Opposite, Image
  <2>. QED
    BY <1>2, <2>1, <2>2
<1>. QED
  BY <1>1, <1>2

\* One operator more leads from a new cut, or to it.
LEMMA FoundBack ==
    ASSUME WalkFound, solution \in SolutionType, IsSolved(solution), solution' = solution,
           walk.side \in {"fw", "bw"}, walk.h \in Nat,
           NEW c \in Costs, NEW op \in Operators[c],
           walk'.side = walk.side, walk'.h = walk.h - c,
           walk'.cut \subseteq Back(op), walk'.cut # {},
           path' = Extended(<<c, op>>)
    PROVE  WalkFound'
<1>1. /\ c \in Nat /\ solution.g \in Nat /\ UpperBound \in Nat /\ UpperBound' = UpperBound
  BY OperatorFacts, SolvedTypes DEF UpperBound, UpperOf, IsSolved
<1>2. CASE walk.side = "fw"
  <2>1. ASSUME NEW r \in walk'.cut
        PROVE  \E t \in solution.cut : RunTo(path', r, t, solution.g - walk'.h)
    <3>1. PICK s \in walk.cut : <<r, s>> \in op
      BY <1>2, BackLeads
    <3>2. PICK t \in solution.cut : RunTo(path, s, t, solution.g - walk.h)
      BY <1>2 DEF WalkFound
    <3>3. (solution.g - walk.h) + c = solution.g - walk'.h
      BY <1>1
    <3>4. path' = <<<<c, op>>>> \o path
      BY <1>2 DEF Extended
    <3>5. RunTo(<<<<c, op>>>> \o path, r, t, (solution.g - walk.h) + c)
      BY <3>1, <3>2, RunPrepended
    <3>. QED
      BY <3>3, <3>4, <3>5
  <2>. QED
    BY <1>2, <2>1 DEF WalkFound
<1>3. CASE walk.side = "bw"
  <2>1. ASSUME NEW r \in walk'.cut
        PROVE  \E t \in States : Start(t) /\ RunTo(path', t, r, UpperBound - walk'.h)
    <3>1. PICK s \in walk.cut : <<s, r>> \in op
      BY <1>3, BackLeads
    <3>2. PICK t \in States : Start(t) /\ RunTo(path, t, s, UpperBound - walk.h)
      BY <1>3 DEF WalkFound
    <3>3. (UpperBound - walk.h) + c = UpperBound - walk'.h
      BY <1>1
    <3>4. path' = Append(path, <<c, op>>)
      BY <1>3 DEF Extended
    <3>5. RunTo(Append(path, <<c, op>>), t, r, (UpperBound - walk.h) + c)
      BY <3>1, <3>2, RunAppended
    <3>. QED
      BY <3>2, <3>3, <3>4, <3>5
  <2>. QED
    BY <1>1, <1>3, <2>1 DEF WalkFound
<1>. QED
  BY <1>2, <1>3

\* A step of the walk that keeps its side and goes on.
LEMMA WalkOn ==
    ASSUME ExtractionInv, solution \in SolutionType, UNCHANGED <<vars, layers, plan>>,
           walk.phase \in {"locate", "walk"},
           walk'.phase = "walk", walk'.side = walk.side, walk'.lists = walk.lists,
           DOMAIN walk' = DOMAIN walk, walk'.cut \in BDD, walk'.cut # {}, walk'.h \in Nat,
           walk'.steps0 \in 0 .. Len(LayersAt(walk'.h)),
           \A s \in walk'.cut : Grounded(walk.lists, walk.side, walk'.h, s, walk'.steps0),
           WalkFound'
    PROVE  ExtractionInv'
<1>1. /\ ListsInv(Lists)' /\ MetAtSource'
      /\ IsSolved(solution)' = IsSolved(solution) /\ solution' = solution
  BY SearchKept
<1>2. IsSolved(solution) /\ WalkType /\ WalkGrounded
  BY WalkFacts
<1>3. WalkType'
  BY <1>2, LayersOfWalk DEF WalkType
<1>4. WalkGrounded'
  BY <1>1, <1>2 DEF WalkGrounded, PartCost
<1>. QED
  BY <1>1, <1>2, <1>3, <1>4 DEF ExtractionInv, WalkInv, PlanFound

\* The walk begins in the first layer of its cut, or behind the last one.
LEMMA LocateInv ==
    ASSUME ExtractionInv, solution \in SolutionType, Locate
    PROVE  ExtractionInv'
<1>. DEFINE size == Len(LayersAt(walk.h))
            hits == Met(walk.cut, walk.h, size)
<1>1. /\ walk.phase = "locate" /\ UNCHANGED <<vars, layers, path, plan>>
      /\ walk' = IF hits = {} THEN [walk EXCEPT !.phase = "walk", !.steps0 = size]
                 ELSE [walk EXCEPT !.phase = "walk", !.steps0 = Min(hits) - 1,
                                   !.cut = walk.cut \cap LayersAt(walk.h)[Min(hits)]]
  BY DEF Locate
<1>2. /\ WalkType /\ WalkGrounded /\ WalkFound /\ walk.side \in Directions
      /\ walk.h \in Nat /\ size \in Nat
      /\ \A k \in 1 .. size : \A s \in LayersAt(walk.h)[k] :
            Grounded(walk.lists, walk.side, walk.h, s, k - 1)
  BY <1>1, WalkFacts
<1>. HIDE DEF size, hits
<1>3. /\ walk'.phase = "walk" /\ walk'.side = walk.side /\ walk'.lists = walk.lists
      /\ DOMAIN walk' = DOMAIN walk /\ walk'.h = walk.h
  BY <1>1, <1>2 DEF WalkType
<1>4. /\ walk'.cut \subseteq walk.cut /\ walk'.cut # {}
      /\ walk'.steps0 \in 0 .. size
      /\ \A s \in walk'.cut : Grounded(walk.lists, walk.side, walk.h, s, walk'.steps0)
  <2>1. CASE hits = {}
    <3>1. walk'.cut = walk.cut /\ walk'.steps0 = size
      BY <1>1, <1>2, <2>1 DEF WalkType
    <3>2. ASSUME NEW s \in walk.cut PROVE Grounded(walk.lists, walk.side, walk.h, s, size)
      <4>1. ReconstructableIn(walk.lists, walk.side, walk.h, s)
        BY <1>1, <1>2 DEF WalkGrounded
      <4>2. CASE walk.h = 0 /\ s \in Source(walk.side)
        BY <4>2 DEF Grounded
      <4>3. CASE \E entry \in walk.lists.closed[walk.side], c \in Costs :
                    walk.h = entry[1] + c /\ Leads(walk.side, entry[2], c, s)
        <5>1. PICK entry \in walk.lists.closed[walk.side], c \in Costs :
                 walk.h = entry[1] + c /\ Leads(walk.side, entry[2], c, s)
          BY <4>3
        <5>2. CASE c # 0
          BY <5>1, <5>2 DEF Grounded
        <5>3. CASE c = 0
          <6>1. entry[1] = walk.h /\ HasTransitions0
            <7>1. entry[1] \in Nat
              BY <1>2 DEF WalkGrounded, ListsInv, ListsType
            <7>. QED
              BY <5>1, <5>3, <7>1 DEF HasTransitions0
          <6>2. PICK k \in 1 .. Len(LayersIn(walk.lists, walk.side, walk.h)) :
                   entry[2] \in LayersIn(walk.lists, walk.side, walk.h)[k]
            BY <1>2, <6>1 DEF WalkGrounded, ListsInv
          <6>3. k \in 1 .. size
            BY LayersOfWalk DEF size
          <6>. QED
            BY <5>1, <5>3, <6>2, <6>3 DEF Grounded
        <5>. QED
          BY <5>2, <5>3
      <4>. QED
        BY <4>1, <4>2, <4>3 DEF ReconstructableIn
    <3>. QED
      BY <1>2, <3>1, <3>2 DEF WalkType
  <2>2. CASE hits # {}
    <3>1. /\ walk'.cut = walk.cut \cap LayersAt(walk.h)[Min(hits)]
          /\ walk'.steps0 = Min(hits) - 1
      BY <1>1, <1>2, <2>2 DEF WalkType
    <3>2. Min(hits) \in 1 .. size /\ walk'.cut # {}
      BY <1>2, <2>2, <3>1, FirstLayer DEF hits
    <3>. QED
      BY <1>2, <3>1, <3>2
  <2>. QED
    BY <2>1, <2>2
<1>5. WalkFound'
  <2>1. UNCHANGED <<solution, path>> /\ UpperBound' = UpperBound
    BY <1>1, SearchKept DEF vars, controller
  <2>. QED
    BY <1>2, <1>3, <1>4, <2>1 DEF WalkFound
<1>6. walk'.cut \in BDD
  BY <1>2, <1>4 DEF WalkType, BDD
<1>. QED
  BY <1>1, <1>2, <1>3, <1>4, <1>5, <1>6, WalkOn DEF size

\* A 0-cost operator leads back to an earlier layer; when there is none, a state of the cut
\* has no predecessor in one.
LEMMA ZeroStepInv ==
    ASSUME ExtractionInv, solution \in SolutionType, ZeroStep
    PROVE  /\ ExtractionInv'
           /\ walk'.phase = "walk" /\ walk'.h = walk.h /\ walk'.steps0 < walk.steps0
<1>1. /\ walk.phase = "walk" /\ walk.steps0 > 0 /\ UNCHANGED <<vars, layers, plan>>
  BY DEF ZeroStep
<1>2. /\ IsSolved(solution) /\ WalkType /\ WalkGrounded /\ WalkFound
      /\ walk.side \in Directions /\ walk.side \in {"fw", "bw"}
      /\ walk.h \in Nat /\ walk.steps0 \in Nat /\ walk.steps0 <= Len(LayersAt(walk.h))
      /\ Len(LayersAt(walk.h)) \in Nat
      /\ \A k \in 1 .. Len(LayersAt(walk.h)) : \A s \in LayersAt(walk.h)[k] :
            Grounded(walk.lists, walk.side, walk.h, s, k - 1)
  BY <1>1, WalkFacts
<1>3. solution' = solution /\ UpperBound' = UpperBound
  BY <1>1, SearchKept
<1>4. CASE \E op \in ZeroOperators :
              LET k == Min(Met(Back(op), walk.h, walk.steps0))
              IN  /\ walk' = [walk EXCEPT !.steps0 = k - 1, !.cut = Back(op) \cap LayersAt(walk.h)[k]]
                  /\ path' = Extended(<<0, op>>)
  <2>1. PICK op \in ZeroOperators :
           LET k == Min(Met(Back(op), walk.h, walk.steps0))
           IN  /\ walk' = [walk EXCEPT !.steps0 = k - 1, !.cut = Back(op) \cap LayersAt(walk.h)[k]]
               /\ path' = Extended(<<0, op>>)
    BY <1>4
  <2>. DEFINE k == Min(Met(Back(op), walk.h, walk.steps0))
  <2>2. /\ walk' = [walk EXCEPT !.steps0 = k - 1, !.cut = Back(op) \cap LayersAt(walk.h)[k]]
        /\ path' = Extended(<<0, op>>)
    BY <2>1
  <2>3. 0 \in Costs /\ op \in Operators[0] /\ Met(Back(op), walk.h, walk.steps0) # {}
    BY DEF ZeroOperators
  <2>4. k \in 1 .. walk.steps0 /\ Back(op) \cap LayersAt(walk.h)[k] # {}
    BY <1>2, <2>3, FirstLayer
  <2>. HIDE DEF k
  <2>5. /\ walk'.phase = "walk" /\ walk'.side = walk.side /\ walk'.lists = walk.lists
        /\ DOMAIN walk' = DOMAIN walk /\ walk'.h = walk.h
        /\ walk'.steps0 = k - 1 /\ walk'.cut = Back(op) \cap LayersAt(walk.h)[k]
    BY <1>1, <1>2, <2>2 DEF WalkType
  <2>6. /\ k - 1 \in 0 .. Len(LayersAt(walk.h)) /\ k \in 1 .. Len(LayersAt(walk.h))
        /\ k - 1 < walk.steps0
    BY <1>2, <2>4
  <2>7. \A s \in walk'.cut : Grounded(walk.lists, walk.side, walk.h, s, k - 1)
    BY <1>2, <2>5, <2>6
  <2>8. walk'.cut \in BDD /\ walk'.cut # {} /\ walk'.cut \subseteq Back(op)
    BY <1>2, <2>4, <2>5, BackLeads DEF BDD
  <2>9. WalkFound'
    <3>1. walk'.h = walk.h - 0
      BY <1>2, <2>5
    <3>. QED
      BY <1>2, <1>3, <2>2, <2>3, <2>5, <2>8, <3>1, FoundBack
  <2>. QED
    BY <1>1, <1>2, <2>5, <2>6, <2>7, <2>8, <2>9, WalkOn
<1>5. CASE ZeroOperators = {} /\ walk' = [walk EXCEPT !.steps0 = 0] /\ UNCHANGED path
  <2>1. /\ walk'.phase = "walk" /\ walk'.side = walk.side /\ walk'.lists = walk.lists
        /\ DOMAIN walk' = DOMAIN walk /\ walk'.h = walk.h
        /\ walk'.steps0 = 0 /\ walk'.cut = walk.cut
    BY <1>1, <1>2, <1>5 DEF WalkType
  <2>2. ASSUME NEW s \in walk.cut PROVE Grounded(walk.lists, walk.side, walk.h, s, 0)
    <3>1. Grounded(walk.lists, walk.side, walk.h, s, walk.steps0)
      BY <1>1, <1>2 DEF WalkGrounded
    <3>2. ASSUME NEW j \in 1 .. walk.steps0, NEW r \in LayersIn(walk.lists, walk.side, walk.h)[j],
                 Leads(walk.side, r, 0, s)
          PROVE  FALSE
      <4>1. 0 \in Costs
        BY <3>2 DEF Leads, Transition
      <4>2. PICK op \in Operators[0] : r \in Back(op)
        BY <1>2, <3>2, <4>1, BackLeads
      <4>3. j \in Met(Back(op), walk.h, walk.steps0)
        BY <3>2, <4>2, LayersOfWalk DEF Met
      <4>4. op \in ZeroOperators
        BY <4>1, <4>2, <4>3 DEF ZeroOperators
      <4>. QED
        BY <1>5, <4>4
    <3>. QED
      BY <3>1, <3>2 DEF Grounded
  <2>3. WalkFound'
    BY <1>2, <1>3, <1>5, <2>1 DEF WalkFound
  <2>4. 0 \in 0 .. Len(LayersAt(walk.h)) /\ 0 < walk.steps0
    BY <1>1, <1>2
  <2>5. walk.cut \in BDD /\ walk.cut # {}
    BY <1>2 DEF WalkType
  <2>. QED
    BY <1>1, <1>2, <2>1, <2>2, <2>3, <2>4, <2>5, WalkOn
<1>. QED
  BY <1>4, <1>5 DEF ZeroStep

\* A state that has a closed predecessor is found in a layer, when there are layers.
LEMMA ClosedInLayers ==
    ASSUME ExtractionInv, solution \in SolutionType, walk.phase = "walk",
           NEW h, NEW s \in ClosedBDD(h)
    PROVE  /\ h \in Nat
           /\ HasTransitions0 => \E k \in 1 .. Len(LayersAt(h)) : s \in LayersAt(h)[k]
           /\ ~ HasTransitions0 => Grounded(walk.lists, walk.side, h, s, 0)
<1>1. walk.side \in Directions /\ ListsInv(walk.lists)
  BY WalkFacts DEF WalkGrounded
<1>2. PICK entry \in walk.lists.closed[walk.side] : entry[1] = h /\ entry[2] = s
  BY DEF ClosedBDD
<1>3. h \in Nat
  BY <1>1, <1>2 DEF ListsInv, ListsType
<1>. QED
  BY <1>1, <1>2, <1>3, LayersOfWalk DEF ListsInv

\* With no earlier layer left, every state of the cut has a predecessor of a smaller value, in
\* a layer of its own, which an operator leads back to.
LEMMA CostStepInv ==
    ASSUME ExtractionInv, solution \in SolutionType, CostStep
    PROVE  /\ ExtractionInv'
           /\ walk'.phase = "walk" /\ walk'.h < walk.h
<1>1. /\ walk.phase = "walk" /\ walk.steps0 = 0 /\ walk.h > 0 /\ UNCHANGED <<vars, layers, plan>>
  BY DEF CostStep
<1>2. /\ IsSolved(solution) /\ WalkType /\ WalkGrounded /\ WalkFound
      /\ walk.side \in Directions /\ walk.side \in {"fw", "bw"} /\ walk.h \in Nat
      /\ \A h : /\ LayersAt(h) \in Seq(BDD) /\ Len(LayersAt(h)) \in Nat
                /\ ~ HasTransitions0 => LayersAt(h) = <<>>
                /\ \A k \in 1 .. Len(LayersAt(h)) : \A s \in LayersAt(h)[k] :
                      Grounded(walk.lists, walk.side, h, s, k - 1)
  BY <1>1, WalkFacts
<1>3. solution' = solution /\ UpperBound' = UpperBound
  BY <1>1, SearchKept
<1>4. BackCosts # {}
  <2>1. PICK s \in walk.cut : Grounded(walk.lists, walk.side, walk.h, s, 0)
    BY <1>1, <1>2 DEF WalkType, WalkGrounded
  <2>2. PICK entry \in walk.lists.closed[walk.side], c \in Costs \ {0} :
           walk.h = entry[1] + c /\ Leads(walk.side, entry[2], c, s)
    BY <1>1, <2>1 DEF Grounded
  <2>3. PICK op \in Operators[c] : entry[2] \in Back(op)
    BY <1>2, <2>2, BackLeads
  <2>4. entry[1] = walk.h - c
    <3>1. entry[1] \in Nat /\ c \in Nat
      BY <1>2, OperatorFacts DEF WalkGrounded, ListsInv, ListsType
    <3>. QED
      BY <2>2, <3>1
  <2>5. entry[2] \in ClosedBDD(walk.h - c)
    BY <2>4 DEF ClosedBDD
  <2>. QED
    BY <2>3, <2>5 DEF BackCosts, CostOperators
<1>. DEFINE c == Min(BackCosts)
            h == walk.h - c
<1>5. c \in Costs \ {0} /\ c \in Nat /\ c > 0 /\ CostOperators(c) # {}
  <2>1. BackCosts \subseteq Nat
    BY OperatorFacts DEF BackCosts
  <2>2. c \in BackCosts
    BY <1>4, <2>1, LeastNumber
  <2>. QED
    BY <2>1, <2>2 DEF BackCosts
<1>6. PICK op \in CostOperators(c) :
         LET cut  == Back(op) \cap ClosedBDD(h)
             hits == Met(cut, h, Len(LayersAt(h)))
         IN  /\ walk' = IF LayersAt(h) = <<>> THEN [walk EXCEPT !.h = h, !.cut = cut]
                        ELSE IF hits = {} THEN [walk EXCEPT !.phase = "failed"]
                        ELSE [walk EXCEPT !.h = h, !.steps0 = Min(hits) - 1,
                                          !.cut = cut \cap LayersAt(h)[Min(hits)]]
             /\ path' = Extended(<<c, op>>)
  BY <1>4 DEF CostStep
<1>. DEFINE cut == Back(op) \cap ClosedBDD(h)
            size == Len(LayersAt(h))
            hits == Met(cut, h, size)
<1>7. /\ walk' = IF LayersAt(h) = <<>> THEN [walk EXCEPT !.h = h, !.cut = cut]
                 ELSE IF hits = {} THEN [walk EXCEPT !.phase = "failed"]
                 ELSE [walk EXCEPT !.h = h, !.steps0 = Min(hits) - 1,
                                   !.cut = cut \cap LayersAt(h)[Min(hits)]]
      /\ path' = Extended(<<c, op>>)
  BY <1>6
<1>8. op \in Operators[c] /\ cut # {}
  BY DEF CostOperators
<1>9. /\ h \in Nat /\ h < walk.h /\ h = walk.h - c
      /\ \A s \in cut : /\ HasTransitions0 => \E k \in 1 .. size : s \in LayersAt(h)[k]
                        /\ ~ HasTransitions0 => Grounded(walk.lists, walk.side, h, s, 0)
  <2>. HIDE DEF h
  <2>1. h \in Nat
    BY <1>1, <1>8, ClosedInLayers
  <2>2. \A s \in cut : /\ HasTransitions0 => \E k \in 1 .. size : s \in LayersAt(h)[k]
                       /\ ~ HasTransitions0 => Grounded(walk.lists, walk.side, h, s, 0)
    BY <1>1, ClosedInLayers
  <2>3. h < walk.h /\ h = walk.h - c
    BY <1>2, <1>5 DEF h
  <2>. QED
    BY <2>1, <2>2, <2>3
<1>10. /\ size \in Nat /\ ~ HasTransitions0 => LayersAt(h) = <<>>
       /\ \A k \in 1 .. size : \A s \in LayersAt(h)[k] : Grounded(walk.lists, walk.side, h, s, k - 1)
  BY <1>2
<1>. HIDE DEF c, h, cut
<1>11. CASE LayersAt(h) = <<>>
  <2>1. ~ HasTransitions0 /\ size = 0
    <3>1. size = 0
      BY <1>11
    <3>. QED
      BY <1>8, <1>9, <3>1
  <2>2. /\ walk'.phase = "walk" /\ walk'.side = walk.side /\ walk'.lists = walk.lists
        /\ DOMAIN walk' = DOMAIN walk /\ walk'.h = h
        /\ walk'.steps0 = 0 /\ walk'.cut = cut
    BY <1>1, <1>2, <1>7, <1>11 DEF WalkType
  <2>3. walk'.cut \in BDD /\ walk'.cut # {} /\ walk'.cut \subseteq Back(op)
    BY <1>2, <1>8, <2>2, BackLeads DEF BDD, cut
  <2>4. WalkFound'
    BY <1>2, <1>3, <1>5, <1>7, <1>8, <1>9, <2>2, <2>3, FoundBack
  <2>5. 0 \in 0 .. Len(LayersAt(h)) /\ \A s \in cut : Grounded(walk.lists, walk.side, h, s, 0)
    BY <1>9, <1>10, <2>1
  <2>. QED
    BY <1>1, <1>9, <2>2, <2>3, <2>4, <2>5, WalkOn
<1>12. CASE LayersAt(h) # <<>>
  <2>1. HasTransitions0
    BY <1>10, <1>12
  <2>2. hits # {}
    <3>1. PICK s \in cut, k \in 1 .. size : s \in LayersAt(h)[k]
      BY <1>8, <1>9, <2>1
    <3>. QED
      BY <3>1 DEF Met
  <2>3. Min(hits) \in 1 .. size /\ cut \cap LayersAt(h)[Min(hits)] # {}
    BY <1>10, <2>2, FirstLayer
  <2>. DEFINE k == Min(hits)
  <2>4. walk' = [walk EXCEPT !.h = h, !.steps0 = k - 1, !.cut = cut \cap LayersAt(h)[k]]
    BY <1>7, <1>12, <2>2
  <2>5. k \in 1 .. size /\ k - 1 \in 0 .. size
    BY <1>10, <2>3
  <2>. HIDE DEF hits, k
  <2>6. /\ walk'.phase = "walk" /\ walk'.side = walk.side /\ walk'.lists = walk.lists
        /\ DOMAIN walk' = DOMAIN walk /\ walk'.h = h
        /\ walk'.steps0 = k - 1 /\ walk'.cut = cut \cap LayersAt(h)[k]
    BY <1>1, <1>2, <2>4 DEF WalkType
  <2>7. walk'.cut \in BDD /\ walk'.cut # {} /\ walk'.cut \subseteq Back(op)
    BY <1>2, <2>3, <2>6, BackLeads DEF BDD, cut, k
  <2>8. WalkFound'
    BY <1>2, <1>3, <1>5, <1>7, <1>8, <1>9, <2>6, <2>7, FoundBack
  <2>9. \A s \in walk'.cut : Grounded(walk.lists, walk.side, h, s, k - 1)
    BY <1>10, <2>5, <2>6
  <2>. QED
    BY <1>1, <1>9, <2>5, <2>6, <2>7, <2>8, <2>9, WalkOn
<1>. QED
  BY <1>11, <1>12

\* Without value and earlier layers, the walk is at the source.
LEMMA AtSource ==
    ASSUME ExtractionInv, solution \in SolutionType,
           walk.phase = "walk", walk.steps0 = 0, walk.h = 0
    PROVE  walk.cut \subseteq Source(walk.side)
<1>1. WalkGrounded /\ walk.side \in Directions
  BY WalkFacts
<1>2. ASSUME NEW s \in walk.cut PROVE s \in Source(walk.side)
  <2>1. Grounded(walk.lists, walk.side, 0, s, 0)
    BY <1>1 DEF WalkGrounded
  <2>2. ASSUME NEW entry \in walk.lists.closed[walk.side], NEW c \in Costs \ {0}, 0 = entry[1] + c
        PROVE  FALSE
    <3>1. entry[1] \in Nat /\ c \in Nat /\ c # 0
      BY <1>1, OperatorFacts DEF WalkGrounded, ListsInv, ListsType
    <3>. QED
      BY <2>2, <3>1
  <2>. QED
    BY <2>1, <2>2 DEF Grounded
<1>. QED
  BY <1>2

\* Paths of cost 0 stay in the initial state, when no other is reached from it at no cost.
LEMMA ZeroPath ==
    ASSUME \A t \in States : Transition(InitState, 0, t) => t = InitState,
           NEW s, PathTo("fw", 0, s)
    PROVE  s = InitState
<1>1. PICK n \in Nat : \E state \in [0 .. n -> States], cost \in [0 .. n -> Nat] :
         Path("fw", n, state, cost) /\ state[n] = s /\ cost[n] = 0
  BY DEF PathTo
<1>2. PICK state \in [0 .. n -> States], cost \in [0 .. n -> Nat] :
         Path("fw", n, state, cost) /\ state[n] = s /\ cost[n] = 0
  BY <1>1
<1>3. \A i \in 0 .. n : cost[i] = 0
  <2>1. \A i \in 0 .. n : cost[i] \in Nat /\ cost[i] <= 0
    BY <1>2 DEF Path
  <2>. QED
    BY <2>1
<1>. DEFINE Good == {i \in Nat : i <= n => state[i] = InitState}
<1>4. 0 \in Good
  BY <1>2 DEF Path, Source
<1>5. ASSUME NEW i \in Nat, i \in Good PROVE i + 1 \in Good
  <2>. SUFFICES ASSUME i + 1 <= n PROVE state[i + 1] = InitState
    OBVIOUS
  <2>1. i \in 0 .. n - 1 /\ i \in 0 .. n /\ i + 1 \in 0 .. n /\ state[i] = InitState
    BY <1>5
  <2>2. PICK c \in Costs : cost[i + 1] = cost[i] + c /\ Transition(state[i], c, state[i + 1])
    BY <1>2, <2>1 DEF Path, Leads
  <2>3. c = 0
    BY <1>3, <2>1, <2>2, OperatorFacts
  <2>. QED
    BY <2>1, <2>2, <2>3
<1>6. Nat \subseteq Good
  <2>. HIDE DEF Good
  <2>. QED
    BY <1>4, <1>5, NumberInduction
<1>. QED
  BY <1>2, <1>6

\* Where the first part of the plan has no operators, the searches met in states that are
\* reached at no cost.
LEMMA CutOfNoCost ==
    ASSUME StructureInv, PathInv, IsSolved(solution),
           Directions = {"fw", "bw"}, solution.g = 0, NEW s \in solution.cut
    PROVE  s \in States /\ Start(s)
<1>1. TypeInv /\ solution \in SolutionType
  BY StructureTypes, StateTypes
<1>2. s \in States
  BY <1>1, SolvedTypes DEF BDD
<1>3. Reconstructable("fw", 0, s)
  BY DEF StructureInv, PathsReconstructable
<1>4. PathTo("fw", 0, s)
  BY <1>1, <1>2, <1>3, PathReconstructed
<1>. QED
  BY <1>2, <1>4 DEF Start

\* The first part of the plan leads to a state of the cut, from which the second one goes on.
LEMMA SecondPart ==
    ASSUME ExtractionInv, StructureInv, PathInv, walk.phase = "walk", walk.steps0 = 0, walk.h = 0,
           walk.side = "fw", Directions = {"fw", "bw"}
    PROVE  /\ NewCut # {} /\ NewCut \subseteq solution.cut
           /\ \A s \in NewCut : \E t \in States : Start(t) /\ RunTo(path, t, s, solution.g)
<1>1. /\ solution \in SolutionType /\ IsSolved(solution)
      /\ WalkType /\ WalkFound /\ solution.cut # {} /\ solution.g \in Nat /\ solution.cut \in BDD
  BY StructureTypes, StateTypes, WalkFacts, SolvedTypes DEF StructureInv, PathsReconstructable
<1>2. walk.cut = {InitState}
  <2>1. walk.cut \subseteq {InitState}
    BY <1>1, AtSource DEF Source
  <2>. QED
    BY <1>1, <2>1 DEF WalkType
<1>3. PICK t \in solution.cut : RunTo(path, InitState, t, solution.g)
  <2>1. solution.g - walk.h = solution.g
    BY <1>1
  <2>. QED
    BY <1>1, <1>2, <2>1 DEF WalkFound
<1>4. InitState \in States /\ Start(InitState)
  BY TaskAssumption DEF Start
<1>5. CASE path # <<>>
  <2>1. NewCut = {t}
    BY <1>3, <1>5, RunReached DEF NewCut
  <2>. QED
    BY <1>3, <1>4, <2>1
<1>6. CASE path = <<>>
  <2>1. NewCut = solution.cut /\ solution.g = 0
    BY <1>3, <1>6, RunOfNone DEF NewCut
  <2>2. ASSUME NEW s \in solution.cut
        PROVE  s \in States /\ Start(s) /\ RunTo(<<>>, s, s, 0)
    BY <1>1, <2>1, CutOfNoCost, RunEmpty
  <2>. QED
    BY <1>1, <1>6, <2>1, <2>2
<1>. QED
  BY <1>5, <1>6

LEMMA SideDoneInv ==
    ASSUME ExtractionInv, StructureInv, PathInv, SideDone
    PROVE  ExtractionInv' /\ walk'.phase # "walk"
<1>1. /\ walk.phase = "walk" /\ walk.steps0 = 0 /\ walk.h = 0 /\ UNCHANGED <<vars, layers>>
      /\ IF walk.side = "fw" /\ "bw" \in Directions
         THEN /\ walk' = StartWalk("bw", NewCut, solution.h, walk.lists)
              /\ UNCHANGED <<path, plan>>
         ELSE walk' = Idle /\ path' = <<>> /\ plan' = [found |-> TRUE, ops |-> path]
  BY DEF SideDone
<1>2. /\ solution \in SolutionType /\ IsSolved(solution) /\ WalkType /\ WalkGrounded /\ WalkFound
      /\ walk.side \in Directions /\ walk.side \in {"fw", "bw"}
      /\ solution.g \in Nat /\ solution.h \in Nat /\ solution.cut \in BDD
      /\ UpperBound = solution.g + solution.h
  BY <1>1, StructureTypes, StateTypes, WalkFacts, SolvedTypes
<1>3. /\ ListsInv(Lists)' /\ MetAtSource' /\ solution' = solution /\ UpperBound' = UpperBound
      /\ IsSolved(solution)' = IsSolved(solution)
  BY <1>1, SearchKept
<1>4. walk.cut \subseteq Source(walk.side)
  BY <1>1, <1>2, AtSource
<1>5. CASE walk.side = "fw" /\ "bw" \in Directions
  <2>1. Directions = {"fw", "bw"}
    BY <1>2, <1>5, TaskAssumption
  <2>2. /\ NewCut # {} /\ NewCut \subseteq solution.cut
        /\ \A s \in NewCut : \E t \in States : Start(t) /\ RunTo(path, t, s, solution.g)
    BY <1>1, <1>5, <2>1, SecondPart
  <2>3. /\ walk'.phase = "locate" /\ walk'.side = "bw" /\ walk'.cut = NewCut
        /\ walk'.h = solution.h /\ walk'.steps0 = 0 /\ walk'.lists = walk.lists
        /\ DOMAIN walk' = {"phase", "side", "cut", "h", "steps0", "lists"}
        /\ path' = path
    BY <1>1, <1>5 DEF StartWalk
  <2>4. WalkType'
    <3>1. 0 \in 0 .. Len(LayersIn(walk.lists, "bw", solution.h))
      <4>1. Len(LayersIn(walk.lists, "bw", solution.h)) \in Nat
        BY <1>2, <1>5, LayersOf DEF WalkGrounded
      <4>. QED
        BY <4>1
    <3>2. NewCut \in BDD
      BY <1>2, <2>2 DEF BDD
    <3>. QED
      BY <1>2, <1>5, <2>2, <2>3, <3>1, <3>2 DEF WalkType
  <2>5. WalkGrounded'
    <3>1. \A s \in NewCut : ReconstructableIn(walk.lists, "bw", solution.h, s)
      BY <1>2, <1>5, <2>2 DEF WalkGrounded, PartCost
    <3>. QED
      BY <1>2, <1>3, <2>3, <3>1 DEF WalkGrounded, PartCost
  <2>6. WalkFound'
    <3>1. UpperBound - walk'.h = solution.g
      BY <1>2, <2>3
    <3>. QED
      BY <1>3, <2>2, <2>3, <3>1 DEF WalkFound
  <2>. QED
    BY <1>2, <1>3, <2>3, <2>4, <2>5, <2>6 DEF ExtractionInv, WalkInv, PlanFound
<1>6. CASE ~ (walk.side = "fw" /\ "bw" \in Directions)
  <2>1. walk'.phase = "idle" /\ path' = <<>> /\ plan'.found = TRUE /\ plan'.ops = path
    BY <1>1, <1>6 DEF Idle
  <2>2. \E t \in States, s \in Goal : Start(t) /\ RunTo(path, t, s, UpperBound)
    <3>1. CASE walk.side = "bw"
      <4>1. PICK s \in walk.cut : s \in Goal
        BY <1>2, <1>4, <3>1 DEF WalkType, Source
      <4>2. PICK t \in States : Start(t) /\ RunTo(path, t, s, UpperBound - walk.h)
        BY <1>2, <3>1 DEF WalkFound
      <4>3. UpperBound - walk.h = UpperBound
        BY <1>1, <1>2
      <4>. QED
        BY <4>1, <4>2, <4>3
    <3>2. CASE walk.side = "fw"
      <4>1. "bw" \notin Directions
        BY <1>6, <3>2
      <4>2. solution.h = 0 /\ solution.cut \subseteq Goal
        BY <1>2, <4>1 DEF ExtractionInv, MetAtSource, PartCost, Source
      <4>3. InitState \in walk.cut
        BY <1>2, <1>4, <3>2 DEF WalkType, Source
      <4>4. PICK t \in solution.cut : RunTo(path, InitState, t, solution.g - walk.h)
        BY <1>2, <3>2, <4>3 DEF WalkFound
      <4>5. t \in Goal /\ solution.g - walk.h = UpperBound
        BY <1>1, <1>2, <4>2
      <4>6. InitState \in States /\ Start(InitState)
        BY TaskAssumption DEF Start
      <4>. QED
        BY <4>4, <4>5, <4>6
    <3>. QED
      BY <1>2, <3>1, <3>2
  <2>3. IsSolved(solution') = TRUE
    <3>1. IsSolved(solution') \in BOOLEAN /\ IsSolved(solution')
      BY <1>2, <1>3 DEF IsSolved
    <3>. QED
      BY <3>1
  <2>4. PlanFound'
    BY <1>3, <2>1, <2>2, <2>3 DEF PlanFound
  <2>. QED
    BY <1>3, <2>1, <2>4 DEF ExtractionInv, WalkInv
<1>. QED
  BY <1>5, <1>6

-----------------------------------------------------------------------------
(* The theorems.                                                           *)

\* The search goes on as it does without the extraction.
LEMMA ExtractionStep ==
    ASSUME [ExtractionNext]_<<vars, extraction>>
    PROVE  [Next]_vars
<1>1. CASE SearchStep
  BY <1>1 DEF SearchStep, Next
<1>2. CASE Locate \/ ZeroStep \/ CostStep \/ SideDone
  BY <1>2 DEF Locate, ZeroStep, CostStep, SideDone
<1>. QED
  BY <1>1, <1>2 DEF ExtractionNext

THEOREM ExtractionKeepsSearch == ExtractionSpec => Spec
<1>1. ExtractionInit => Init
  BY DEF ExtractionInit
<1>. QED
  BY <1>1, ExtractionStep, PTL DEF ExtractionSpec, Spec

LEMMA ExtractionInvKept ==
    ASSUME ExtractionInv, StructureInv, StructureInv', PathInv,
           [ExtractionNext]_<<vars, extraction>>
    PROVE  ExtractionInv'
<1>1. solution \in SolutionType
  BY StructureTypes, StateTypes
<1>2. CASE SearchStep
  BY <1>2, SearchStepInv
<1>3. CASE Locate
  BY <1>1, <1>3, LocateInv
<1>4. CASE ZeroStep
  BY <1>1, <1>4, ZeroStepInv
<1>5. CASE CostStep
  BY <1>1, <1>5, CostStepInv
<1>6. CASE SideDone
  BY <1>6, SideDoneInv
<1>7. CASE UNCHANGED <<vars, extraction>>
  <2>1. UNCHANGED <<closed, solution, layers, walk, path, plan>>
    BY <1>7 DEF vars, perDirection, controller, extraction
  <2>. QED
    BY <2>1 DEF ExtractionInv, Lists, MetAtSource, WalkInv, WalkType, WalkGrounded, WalkFound,
                PlanFound, PartCost, UpperBound, UpperOf, IsSolved
<1>. QED
  BY <1>2, <1>3, <1>4, <1>5, <1>6, <1>7 DEF ExtractionNext

\* The closed lists, their layers, the walk and the plan are in order in every state of a
\* search that extracts its plans.
THEOREM ExtractionInvHolds == ExtractionSpec => [](ExtractionInv /\ StructureInv)
<1>1. ExtractionInit => ExtractionInv
  BY InitExtraction
<1>2. ASSUME ExtractionInv, StructureInv, StructureInv', PathInv,
             [ExtractionNext]_<<vars, extraction>>
      PROVE  ExtractionInv'
  BY <1>2, ExtractionInvKept
<1>. QED
  BY <1>1, <1>2, ExtractionKeepsSearch, StructureHolds, SolutionsHavePaths, PTL DEF ExtractionSpec

\* "Solution reconstruction failed" is never reached, nor the assertion on layers, whatever
\* the 0-cost operators are: every state of a cut has a predecessor to go back to.
THEOREM ReconstructionNeverFails == ExtractionSpec => [](walk.phase # "failed")
<1>1. ExtractionInv => walk.phase # "failed"
  BY DEF ExtractionInv, WalkInv, WalkType
<1>. QED
  BY <1>1, ExtractionInvHolds, PTL

\* The plan that the walk leaves behind leads to the goal, costs the upper bound, and misses no
\* operator but those of no cost from which a bidirectional search should have started.
THEOREM PlanLeadsToGoal ==
    ExtractionSpec => [](walk.phase = "idle" /\ plan.found =>
                            /\ PathCost(plan.ops) = UpperBound
                            /\ \E t \in States, s \in Goal :
                                  Start(t) /\ RunTo(plan.ops, t, s, UpperBound))
<1>1. ASSUME ExtractionInv, walk.phase = "idle", plan.found
      PROVE  /\ PathCost(plan.ops) = UpperBound
             /\ \E t \in States, s \in Goal : Start(t) /\ RunTo(plan.ops, t, s, UpperBound)
  <2>1. PICK t \in States, s \in Goal : Start(t) /\ RunTo(plan.ops, t, s, UpperBound)
    BY <1>1 DEF ExtractionInv, PlanFound
  <2>2. PathCost(plan.ops) = UpperBound
    BY <2>1, RunReached
  <2>. QED
    BY <2>1, <2>2
<1>. QED
  BY <1>1, ExtractionInvHolds, PTL

\* It leads from the initial state to the goal, when no 0-cost operator leads out of the initial
\* state of a bidirectional search.
THEOREM PlanIsValid == FirstPartKnown => (ExtractionSpec => []PlanValid)
<1>. SUFFICES ASSUME FirstPartKnown PROVE ExtractionSpec => []PlanValid
  OBVIOUS
<1>1. ASSUME ExtractionInv PROVE PlanValid
  <2>1. walk.phase # "failed"
    BY <1>1 DEF ExtractionInv, WalkInv, WalkType
  <2>2. ASSUME walk.phase = "idle", plan.found
        PROVE  /\ Reached(plan.ops) # {} /\ Reached(plan.ops) \subseteq Goal
               /\ PathCost(plan.ops) = UpperBound
    <3>1. PICK t \in States, s \in Goal : Start(t) /\ RunTo(plan.ops, t, s, UpperBound)
      BY <1>1, <2>2 DEF ExtractionInv, PlanFound
    <3>2. t = InitState
      BY <3>1, ZeroPath DEF Start, FirstPartKnown
    <3>3. Reached(plan.ops) = {s} /\ PathCost(plan.ops) = UpperBound
      BY <3>1, <3>2, RunReached
    <3>. QED
      BY <3>3
  <2>3. walk.phase = "idle" => plan.found = IsSolved(solution)
    BY <1>1 DEF ExtractionInv, PlanFound
  <2>. QED
    BY <2>1, <2>2, <2>3 DEF PlanValid
<1>. QED
  BY <1>1, ExtractionInvHolds, PTL

\* No walk goes round in 0-cost cycles: each of its steps descends to a smaller value or to an
\* earlier layer of the same value.
THEOREM WalksDescend == ExtractionSpec => WalkDescends
<1>. DEFINE Descends == walk.phase = "walk" /\ walk'.phase = "walk" =>
                           \/ walk'.h < walk.h
                           \/ walk'.h = walk.h /\ walk'.steps0 < walk.steps0
<1>1. ASSUME ExtractionInv, StructureInv, PathInv, [ExtractionNext]_<<vars, extraction>>
      PROVE  [Descends]_<<vars, extraction>>
  <2>1. solution \in SolutionType
    BY <1>1, StructureTypes, StateTypes
  <2>2. CASE SearchStep
    BY <2>2 DEF SearchStep
  <2>3. CASE Locate
    BY <2>3 DEF Locate
  <2>4. CASE ZeroStep
    BY <1>1, <2>1, <2>4, ZeroStepInv
  <2>5. CASE CostStep
    BY <1>1, <2>1, <2>5, CostStepInv
  <2>6. CASE SideDone
    BY <1>1, <2>6, SideDoneInv
  <2>. QED
    BY <1>1, <2>2, <2>3, <2>4, <2>5, <2>6 DEF ExtractionNext
<1>. QED
  BY <1>1, ExtractionInvHolds, ExtractionKeepsSearch, SolutionsHavePaths, PTL
     DEF ExtractionSpec, WalkDescends

=============================================================================
