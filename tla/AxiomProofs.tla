---------------------------- MODULE AxiomProofs ----------------------------
(***************************************************************************)
(* The axiom evaluator computes the extension of the state it is called    *)
(* with: AxiomInv is preserved by every step, for every set of stratified  *)
(* axioms whose negated axioms are harmless.                               *)
(***************************************************************************)
EXTENDS AxiomInvariant, FiniteSetTheorems, TLAPS

\* The elements of a sequence.
LEMMA SequenceElement ==
    ASSUME NEW S, NEW s \in Seq(S), NEW i \in 1 .. Len(s)
    PROVE  s[i] \in S
OBVIOUS

HeadOf(i) == <<Rules[i].var, Rules[i].val>>

\* The parts of an axiom.
LEMMA RuleParts ==
    ASSUME NEW i \in RuleIds
    PROVE  /\ Rules[i].var \in Derived /\ Rules[i].var \in Variables
           /\ Rules[i].val \in {0, 1}
           /\ Default[Rules[i].var] \in {0, 1}
           /\ Layer[Rules[i].var] \in 0 .. LastLayer
           /\ Rules[i].body \subseteq Literals
           /\ IsFiniteSet(Rules[i].body)
           /\ ConditionCount(i) \in Nat
           /\ HeadOf(i) \in Literals
           /\ HeadOf(i)[1] = Rules[i].var /\ HeadOf(i)[2] = Rules[i].val
<1>1. Rules[i] \in [var : Derived, val : {0, 1}, body : SUBSET Literals]
  BY RulesAssumption, SequenceElement DEF RuleIds
<1>2. ConditionCount(i) \in Nat
  BY FiniteBodies, FS_CardinalityType DEF ConditionCount
<1>3. HeadOf(i) \in Literals
  BY <1>1 DEF HeadOf, Literals, DomainOf, Variables
<1>. QED
  BY <1>1, <1>2, <1>3, FiniteBodies, LayersAssumption DEF Variables, HeadOf

\* The parts of a literal.
LEMMA LiteralParts ==
    ASSUME NEW l \in Literals
    PROVE  /\ l = <<l[1], l[2]>>
           /\ l[1] \in Variables
           /\ l[2] \in DomainOf(l[1])
           /\ l[1] \in Derived => /\ Layer[l[1]] \in 0 .. LastLayer
                                  /\ l[2] \in {0, 1} /\ Default[l[1]] \in {0, 1}
BY LayersAssumption DEF Literals, DomainOf

\* Derived variables are binary.
LEMMA DerivedBinary ==
    ASSUME NEW s \in Assignments, NEW v \in Derived
    PROVE  s[v] \in {0, 1} /\ Default[v] \in {0, 1} /\ Layer[v] \in 0 .. LastLayer
BY LayersAssumption DEF Assignments, Variables, DomainOf

\* The counter of an axiom is a natural number, 0 when nothing remains.
LEMMA RemainingFinite ==
    ASSUME NEW i \in RuleIds
    PROVE  /\ IsFiniteSet(Remaining(i))
           /\ Cardinality(Remaining(i)) \in 0 .. ConditionCount(i)
           /\ Cardinality(Remaining(i)) = 0 <=> Remaining(i) = {}
<1>1. Remaining(i) \in SUBSET Rules[i].body
  BY DEF Remaining
<1>2. /\ IsFiniteSet(Remaining(i))
      /\ Cardinality(Remaining(i)) <= Cardinality(Rules[i].body)
  BY <1>1, RuleParts, FS_Subset
<1>3. Cardinality(Remaining(i)) \in Nat /\ Cardinality(Rules[i].body) \in Nat
  BY <1>2, RuleParts, FS_CardinalityType
<1>. QED
  BY <1>2, <1>3, FS_EmptySet DEF ConditionCount

\* While an evaluation runs, its layer and counters are numbers.
LEMMA EvaluationTypes ==
    ASSUME TypeOK
    PROVE  /\ layer \in Nat /\ LastLayer \in Nat /\ layer <= LastLayer
           /\ Len(Rules) \in Nat /\ next \in Nat
           /\ buffer \in [Variables -> Values \cup {0, 1}]
           /\ queue \in [Literals -> Nat] /\ unsatisfied \in [RuleIds -> Int]
BY LayersAssumption, RulesAssumption DEF TypeOK, Assignments

-----------------------------------------------------------------------------
\* The head of an axiom whose conditions are all established has its value already,
\* or has its default value and is of no finished layer.
LEMMA HeadStep ==
    ASSUME NegatedRulesHarmless, TypeOK, QueueInv, SupportInv, pc # "call",
           NEW i \in RuleIds, \A l \in Rules[i].body : Known(l),
           pc = "reset" => Rules[i].body = {},
           ~Trivial(i) => layer <= Layer[Rules[i].var],
           pc = "horn" => Rules[i].body # {},
           pc \in {"reset", "horn"},
           ~Holds(buffer, HeadOf(i))
    PROVE  /\ ~Trivial(i)
           /\ buffer[Rules[i].var] = Default[Rules[i].var]
           /\ layer <= Layer[Rules[i].var]
           /\ queue[HeadOf(i)] = 0
<1>. DEFINE v == Rules[i].var
<1>1. ASSUME Trivial(i) PROVE FALSE
  <2>1. Derives(buffer, v)
    BY <1>1, RuleParts DEF Trivial, Derives, Holds, HeadOf
  <2>2. PICK j \in RuleIds : /\ ~Trivial(j) /\ Rules[j].var = v
                             /\ \A l \in Rules[j].body : Known(l)
                             /\ pc = "reset" => Rules[j].body = {}
    BY <2>1, RuleParts DEF SupportInv
  <2>3. Contradict(i, j) \/ (Rules[i].body = {} /\ Rules[j].body # {})
    BY <1>1, <2>2 DEF NegatedRulesHarmless
  <2>4. CASE Contradict(i, j)
    <3>1. PICK l \in Rules[i].body, m \in Rules[j].body : l[1] = m[1] /\ l[2] # m[2]
      BY <2>4 DEF Contradict
    <3>2. Known(l) /\ Known(m)
      BY <3>1, <2>2
    <3>. QED
      BY <3>1, <3>2 DEF Known, Holds
  <2>5. CASE Rules[i].body = {} /\ Rules[j].body # {}
    BY <2>5, <2>2
  <2>. QED
    BY <2>3, <2>4, <2>5
<1>2. buffer[v] = Default[v]
  BY <1>1, RuleParts, DerivedBinary DEF Trivial, Holds, HeadOf, TypeOK
<1>3. queue[HeadOf(i)] = 0
  <2>1. ~Known(HeadOf(i))
    BY DEF Known
  <2>2. queue[HeadOf(i)] \in Nat /\ queue[HeadOf(i)] <= 1 /\ queue[HeadOf(i)] # 1
    BY <2>1, RuleParts DEF QueueInv, TypeOK
  <2>. QED
    BY <2>2
<1>. QED
  BY <1>1, <1>2, <1>3

\* The step that sets a head for the first time.
FreshHead(i) ==
    /\ ~Trivial(i)
    /\ buffer[Rules[i].var] = Default[Rules[i].var]
    /\ layer <= Layer[Rules[i].var]
    /\ queue[HeadOf(i)] = 0
    /\ buffer' = [buffer EXCEPT ![Rules[i].var] = Rules[i].val]
    /\ queue' = Push(queue, HeadOf(i))
    /\ layer' = layer

\* What an axiom changes that derives a new value: one variable, and the queue.
LEMMA FreshHeadFacts ==
    ASSUME TypeOK, NEW i \in RuleIds, FreshHead(i)
    PROVE  /\ buffer' \in Assignments
           /\ Rules[i].val # Default[Rules[i].var]
           /\ buffer'[Rules[i].var] = Rules[i].val
           /\ \A v \in Variables : v # Rules[i].var => buffer'[v] = buffer[v]
           /\ queue' \in [Literals -> Nat]
           /\ queue'[HeadOf(i)] = 1
           /\ \A l \in Literals : l # HeadOf(i) => queue'[l] = queue[l]
           /\ \A l \in Literals : Known(l)' <=> (Known(l) \/ l = HeadOf(i))
<1>1. /\ Rules[i].var \in Derived /\ Rules[i].var \in Variables /\ Rules[i].val \in {0, 1}
      /\ HeadOf(i) \in Literals
  BY RuleParts
<1>2. Rules[i].val # Default[Rules[i].var]
  BY DEF FreshHead, Trivial
<1>3. /\ buffer'[Rules[i].var] = Rules[i].val
      /\ \A v \in Variables : v # Rules[i].var => buffer'[v] = buffer[v]
  BY <1>1 DEF FreshHead, TypeOK, Assignments
<1>4. buffer' \in Assignments
  BY <1>1, <1>3 DEF FreshHead, TypeOK, Assignments, DomainOf
<1>5. /\ queue' \in [Literals -> Nat]
      /\ queue'[HeadOf(i)] = 1
      /\ \A l \in Literals : l # HeadOf(i) => queue'[l] = queue[l]
  BY <1>1 DEF FreshHead, TypeOK, Push
<1>6. ASSUME NEW l \in Literals
      PROVE  Known(l)' <=> (Known(l) \/ l = HeadOf(i))
  <2>1. CASE l[1] # Rules[i].var
    <3>1. l # HeadOf(i)
      BY <2>1, RuleParts
    <3>2. buffer'[l[1]] = buffer[l[1]] /\ layer' = layer
      BY <2>1, <1>3, LiteralParts DEF FreshHead
    <3>. QED
      BY <3>1, <3>2 DEF Known, Holds
  <2>2. CASE l[1] = Rules[i].var
    <3>1. l = HeadOf(i) <=> l[2] = Rules[i].val
      BY <2>2, LiteralParts, RuleParts DEF HeadOf
    <3>2. ~Known(l)
      BY <2>2, <1>1, RuleParts, EvaluationTypes DEF FreshHead, Known, Holds
    <3>3. Known(l)' <=> l[2] = Rules[i].val
      BY <2>2, <1>2, <1>3 DEF Known, Holds
    <3>. QED
      BY <3>1, <3>2, <3>3
  <2>. QED
    BY <2>1, <2>2
<1>. QED
  BY <1>2, <1>3, <1>4, <1>5, <1>6

\* Both cases of SetHead for an axiom whose conditions are established.
LEMMA SetHeadCases ==
    ASSUME NegatedRulesHarmless, TypeOK, QueueInv, SupportInv, pc # "call",
           NEW i \in RuleIds, \A l \in Rules[i].body : Known(l),
           pc = "reset" => Rules[i].body = {},
           ~Trivial(i) => layer <= Layer[Rules[i].var],
           pc = "horn" => Rules[i].body # {},
           pc \in {"reset", "horn"},
           SetHead(i), layer' = layer
    PROVE  \/ Holds(buffer, HeadOf(i)) /\ UNCHANGED <<buffer, queue>>
           \/ ~Holds(buffer, HeadOf(i)) /\ FreshHead(i)
<1>1. CASE Holds(buffer, HeadOf(i))
  BY <1>1 DEF SetHead, Holds, HeadOf
<1>2. CASE ~Holds(buffer, HeadOf(i))
  <2>1. /\ ~Trivial(i)
        /\ buffer[Rules[i].var] = Default[Rules[i].var]
        /\ layer <= Layer[Rules[i].var]
        /\ queue[HeadOf(i)] = 0
    BY <1>2, HeadStep
  <2>2. /\ buffer' = [buffer EXCEPT ![Rules[i].var] = Rules[i].val]
        /\ queue' = Push(queue, HeadOf(i))
    BY <1>2 DEF SetHead, Holds, HeadOf
  <2>. QED
    BY <1>2, <2>1, <2>2 DEF FreshHead
<1>. QED
  BY <1>1, <1>2

\* A head that is set for the first time is supported, and derived by every state that
\* is closed under the axioms of its layer.
LEMMA FreshHeadSupport ==
    ASSUME TypeOK, SupportInv, pc # "call", NEW i \in RuleIds, FreshHead(i),
           \A l \in Rules[i].body : Known(l),
           pc' = "reset" => Rules[i].body = {} /\ pc = "reset"
    PROVE  SupportInv'
<1>1. SUFFICES ASSUME NEW v \in Derived, Derives(buffer', v)
               PROVE  \E j \in RuleIds : /\ ~Trivial(j) /\ Rules[j].var = v
                                         /\ \A l \in Rules[j].body : Known(l)'
                                         /\ pc' = "reset" => Rules[j].body = {}
  BY DEF SupportInv, Derives
<1>2. ASSUME NEW j \in RuleIds, \A l \in Rules[j].body : Known(l)
      PROVE  \A l \in Rules[j].body : Known(l)'
  BY <1>2, FreshHeadFacts, RuleParts
<1>3. CASE v = Rules[i].var
  BY <1>2, <1>3 DEF FreshHead
<1>4. CASE v # Rules[i].var
  <2>1. Derives(buffer, v)
    BY <1>1, <1>4, FreshHeadFacts DEF Derives, Variables
  <2>2. PICK j \in RuleIds : /\ ~Trivial(j) /\ Rules[j].var = v
                             /\ \A l \in Rules[j].body : Known(l)
                             /\ pc = "reset" => Rules[j].body = {}
    BY <2>1 DEF SupportInv
  <2>. QED
    BY <1>2, <2>2
<1>. QED
  BY <1>3, <1>4

\* A value derived from known conditions has every state that LeastInv speaks of.
LEMMA FreshHeadLeast ==
    ASSUME TypeOK, LeastInv, pc # "call", NEW i \in RuleIds, FreshHead(i),
           \A l \in Rules[i].body : Known(l)
    PROVE  LeastInv'
<1>. DEFINE h == Rules[i].var
<1>1. SUFFICES ASSUME NEW k \in 0 .. LastLayer, NEW t \in Assignments,
                      \A l \in Literals : Known(l)' /\ (l[1] \in Derived => Layer[l[1]] < k)
                                          => Holds(t, l),
                      Closed(t, k),
                      NEW v \in Derived, Layer[v] = k, Derives(buffer', v)
               PROVE  Derives(t, v)
  BY DEF LeastInv, Derives
<1>2. \A l \in Literals : Known(l) /\ (l[1] \in Derived => Layer[l[1]] < k) => Holds(t, l)
  BY <1>1, FreshHeadFacts
<1>3. \A u \in Derived : Layer[u] = k /\ Derives(buffer, u) => Derives(t, u)
  BY <1>1, <1>2 DEF LeastInv
<1>4. CASE v # h
  BY <1>1, <1>3, <1>4, FreshHeadFacts DEF Derives, Variables
<1>5. CASE v = h
  <2>1. ~Trivial(i) /\ i \in RulesOfLayer(k)
    BY <1>1, <1>5 DEF FreshHead, RulesOfLayer
  <2>2. ASSUME NEW l \in Rules[i].body
        PROVE  Holds(t, l)
    <3>1. l \in Literals /\ Known(l)
      BY RuleParts
    <3>2. StratifiedLiteral(l, k)
      BY <1>1, <1>5, <2>1, StratifiedAssumption DEF Stratified
    <3>3. CASE l[1] \in Derived /\ Layer[l[1]] = k
      <4>1. l[2] # Default[l[1]]
        BY <3>2, <3>3 DEF StratifiedLiteral
      <4>2. Derives(buffer, l[1])
        BY <3>1, <4>1 DEF Known, Holds, Derives
      <4>3. Derives(t, l[1])
        BY <1>3, <3>3, <4>2
      <4>. QED
        BY <3>1, <3>3, <4>1, <4>3, DerivedBinary, LiteralParts DEF Derives, Holds
    <3>4. CASE l[1] \in Derived /\ Layer[l[1]] # k
      BY <1>2, <3>1, <3>2, <3>4, LiteralParts DEF StratifiedLiteral
    <3>5. CASE l[1] \notin Derived
      BY <1>2, <3>1, <3>5
    <3>. QED
      BY <3>3, <3>4, <3>5
  <2>3. t[h] = Rules[i].val
    BY <1>1, <2>1, <2>2 DEF Closed, Triggers
  <2>. QED
    BY <1>5, <2>3, FreshHeadFacts DEF Derives
<1>. QED
  BY <1>4, <1>5

\* What both cases leave true of the queue: a literal is processed when it is established
\* and not in the queue, and setting a head processes none and undoes none.
LEMMA HeadEffect ==
    ASSUME TypeOK, QueueInv, NEW i \in RuleIds, layer' = layer,
           UNCHANGED <<buffer, queue>> \/ FreshHead(i)
    PROVE  /\ buffer' \in Assignments /\ queue' \in [Literals -> Nat]
           /\ \A l \in Literals : Known(l) => Known(l)'
           /\ \A l \in Literals : queue'[l] <= 1 /\ (queue'[l] = 1 => Known(l)')
           /\ \A l \in Literals : Known(l)' /\ ~Known(l) => queue'[l] = 1
           /\ \A l \in Literals : Known(l) => queue'[l] = queue[l]
<1>1. CASE UNCHANGED <<buffer, queue>>
  <2>1. \A l \in Literals : Known(l)' <=> Known(l)
    BY <1>1 DEF Known, Holds
  <2>. QED
    BY <1>1, <2>1 DEF TypeOK, QueueInv
<1>2. CASE FreshHead(i)
  <2>1. ~Known(HeadOf(i))
    BY <1>2, RuleParts, EvaluationTypes DEF FreshHead, Known, Holds, Trivial
  <2>2. /\ buffer' \in Assignments /\ queue' \in [Literals -> Nat]
        /\ queue'[HeadOf(i)] = 1
        /\ \A l \in Literals : l # HeadOf(i) => queue'[l] = queue[l]
        /\ \A l \in Literals : Known(l)' <=> (Known(l) \/ l = HeadOf(i))
    BY <1>2, FreshHeadFacts
  <2>. QED
    BY <2>1, <2>2 DEF QueueInv
<1>. QED
  BY <1>1, <1>2

\* Setting a head leaves FinishedInv true of every axiom with an unchanged counter: what
\* is false of a finished layer stays false.
LEMMA HeadFinished ==
    ASSUME TypeOK, NEW i \in RuleIds, layer' = layer,
           UNCHANGED <<buffer, queue>> \/ FreshHead(i),
           NEW j \in RuleIds, ~Trivial(j), Layer[Rules[j].var] < layer, ~Triggers(buffer, j)
    PROVE  ~Triggers(buffer', j)
<1>1. CASE UNCHANGED <<buffer, queue>>
  BY <1>1 DEF Triggers, Holds
<1>2. CASE FreshHead(i)
  <2>1. PICK l \in Rules[j].body : ~Holds(buffer, l)
    BY DEF Triggers
  <2>2. l \in Literals /\ StratifiedLiteral(l, Layer[Rules[j].var])
    BY RuleParts, StratifiedAssumption DEF Stratified
  <2>3. l[1] # Rules[i].var
    <3>1. layer <= Layer[Rules[i].var]
      BY <1>2 DEF FreshHead
    <3>2. l[1] \in Derived => Layer[l[1]] <= Layer[Rules[j].var]
      BY <2>2, LiteralParts, RuleParts DEF StratifiedLiteral
    <3>3. /\ Layer[Rules[i].var] \in Int /\ Layer[Rules[j].var] \in Int /\ layer \in Int
          /\ Rules[i].var \in Derived
      BY RuleParts, EvaluationTypes
    <3>. QED
      BY <3>1, <3>2, <3>3
  <2>4. ~Holds(buffer', l)
    BY <1>2, <2>1, <2>2, <2>3, FreshHeadFacts, LiteralParts DEF Holds
  <2>. QED
    BY <2>4 DEF Triggers
<1>. QED
  BY <1>1, <1>2

-----------------------------------------------------------------------------
(* The inner loop visits an axiom of the current literal.                  *)

\* The axiom that the inner loop visits counts the literal it is visited for.
LEMMA VisitFacts ==
    ASSUME AxiomInv, NEW i \in pending, pc = "horn"
    PROVE  /\ i \in RuleIds /\ current \in Literals
           /\ current \in Rules[i].body /\ Known(current) /\ queue[current] = 0
           /\ current \in Remaining(i)
           /\ unsatisfied[i] = Cardinality(Remaining(i))
           /\ unsatisfied[i] \in Nat \ {0}
           /\ unsatisfied[i] = 1 => Remaining(i) = {current}
           /\ unsatisfied[i] = 1 => \A l \in Rules[i].body : Known(l)
           /\ unsatisfied[i] = 1 /\ ~Trivial(i) => layer <= Layer[Rules[i].var]
<1>1. /\ i \in RuleIds /\ current \in Literals
      /\ current \in Rules[i].body /\ Known(current) /\ queue[current] = 0
  BY DEF AxiomInv, TypeOK, QueueInv, ConditionOf
<1>2. current \in Remaining(i)
  BY <1>1 DEF Remaining
<1>3. unsatisfied[i] = Cardinality(Remaining(i))
  BY <1>1 DEF AxiomInv, CounterInv, HasBeenReset
<1>4. unsatisfied[i] \in Nat \ {0}
  BY <1>1, <1>2, <1>3, RemainingFinite, RuleParts
<1>5. ASSUME unsatisfied[i] = 1
      PROVE  Remaining(i) = {current}
  <2>1. /\ IsFiniteSet(Remaining(i) \ {current})
        /\ Cardinality(Remaining(i) \ {current}) = Cardinality(Remaining(i)) - 1
    BY <1>1, <1>2, RemainingFinite, FS_RemoveElement
  <2>2. Remaining(i) \ {current} = {}
    BY <1>3, <1>5, <2>1, FS_EmptySet
  <2>. QED
    BY <1>2, <2>2
<1>6. ASSUME unsatisfied[i] = 1
      PROVE  \A l \in Rules[i].body : Known(l)
  BY <1>1, <1>5, <1>6 DEF Remaining
<1>7. ASSUME unsatisfied[i] = 1, ~Trivial(i)
      PROVE  layer <= Layer[Rules[i].var]
  <2>1. Triggers(buffer, i)
    BY <1>6, <1>7 DEF Known, Triggers
  <2>2. ~(Layer[Rules[i].var] < layer)
    BY <1>1, <1>7, <2>1 DEF AxiomInv, FinishedInv
  <2>. QED
    BY <1>1, <2>2, RuleParts, EvaluationTypes DEF AxiomInv
<1>. QED
  BY <1>1, <1>2, <1>3, <1>4, <1>5, <1>6, <1>7

\* A turn of the inner loop: the counter falls, and the axiom fires at 0.
LEMMA VisitRuleStep ==
    ASSUME AxiomInv, NegatedRulesHarmless, VisitRule
    PROVE  AxiomInv'
<1>. USE DEF AxiomInv
<1>1. PICK i \in pending :
          /\ unsatisfied' = [unsatisfied EXCEPT ![i] = @ - 1]
          /\ IF unsatisfied[i] = 1 THEN SetHead(i) ELSE UNCHANGED <<buffer, queue>>
          /\ pending' = pending \ {i}
  BY DEF VisitRule
<1>2. pc = "horn" /\ UNCHANGED <<layer, current, next, pc>>
  BY DEF VisitRule
<1>3. /\ i \in RuleIds /\ current \in Literals
      /\ current \in Rules[i].body /\ Known(current) /\ queue[current] = 0
      /\ current \in Remaining(i)
      /\ unsatisfied[i] = Cardinality(Remaining(i))
      /\ unsatisfied[i] \in Nat \ {0}
  BY <1>2, VisitFacts
<1>4. \/ UNCHANGED <<buffer, queue>> /\ (unsatisfied[i] = 1 => Holds(buffer, HeadOf(i)))
      \/ FreshHead(i) /\ unsatisfied[i] = 1
  <2>1. CASE unsatisfied[i] = 1
    <3>1. \A l \in Rules[i].body : Known(l)
      BY <1>2, <2>1, VisitFacts
    <3>2. ~Trivial(i) => layer <= Layer[Rules[i].var]
      BY <1>2, <2>1, VisitFacts
    <3>3. SetHead(i) /\ layer' = layer
      BY <1>1, <1>2, <2>1
    <3>. QED
      BY <1>2, <1>3, <2>1, <3>1, <3>2, <3>3, SetHeadCases
  <2>2. CASE unsatisfied[i] # 1
    BY <1>1, <2>2
  <2>. QED
    BY <2>1, <2>2
<1>5. /\ buffer' \in Assignments /\ queue' \in [Literals -> Nat]
      /\ \A l \in Literals : Known(l) => Known(l)'
      /\ \A l \in Literals : queue'[l] <= 1 /\ (queue'[l] = 1 => Known(l)')
      /\ \A l \in Literals : Known(l)' /\ ~Known(l) => queue'[l] = 1
      /\ \A l \in Literals : Known(l) => queue'[l] = queue[l]
  BY <1>2, <1>3, <1>4, HeadEffect
<1>6. /\ unsatisfied' \in [RuleIds -> Int]
      /\ unsatisfied'[i] = unsatisfied[i] - 1
      /\ \A j \in RuleIds : j # i => unsatisfied'[j] = unsatisfied[j]
  BY <1>1, <1>3 DEF TypeOK
<1>7. \A j \in RuleIds : Remaining(j)' = IF j = i THEN Remaining(i) \ {current} ELSE Remaining(j)
  <2>1. ASSUME NEW j \in RuleIds, NEW l \in Rules[j].body
        PROVE  (~Known(l)' \/ queue'[l] > 0) <=> (~Known(l) \/ queue[l] > 0)
    <3>1. l \in Literals /\ queue[l] \in Nat /\ queue'[l] \in Nat
      BY <1>5, RuleParts DEF TypeOK
    <3>2. queue[l] > 0 => Known(l)
      BY <3>1 DEF QueueInv
    <3>. QED
      BY <1>5, <3>1, <3>2
  <2>2. queue[current] = 0 /\ Known(current) /\ ~(queue[current] > 0)
    BY <1>3
  <2>3. ASSUME NEW j \in RuleIds, j # i
        PROVE  Remaining(j)' = Remaining(j)
    BY <1>1, <1>2, <2>1, <2>3 DEF Remaining
  <2>4. Remaining(i)' = Remaining(i) \ {current}
    BY <1>1, <1>2, <1>3, <2>1, <2>2 DEF Remaining
  <2>. QED
    BY <2>3, <2>4
<1>8. \A j \in RuleIds : unsatisfied'[j] = Cardinality(Remaining(j)')
  <2>1. Cardinality(Remaining(i) \ {current}) = Cardinality(Remaining(i)) - 1
    BY <1>3, RemainingFinite, FS_RemoveElement
  <2>2. \A j \in RuleIds : unsatisfied[j] = Cardinality(Remaining(j))
    BY <1>2 DEF CounterInv, HasBeenReset
  <2>. QED
    BY <1>3, <1>6, <1>7, <2>1, <2>2
<1>9. TypeOK'
  BY <1>1, <1>2, <1>5, <1>6 DEF TypeOK
<1>10. CountersExact'
  <2>1. \A j \in RuleIds : unsatisfied'[j] \in 0 .. ConditionCount(j)
    <3>1. unsatisfied'[i] \in 0 .. ConditionCount(i)
      BY <1>3, <1>6, RuleParts DEF CountersExact
    <3>. QED
      BY <1>3, <1>6, <3>1 DEF CountersExact
  <2>. QED
    BY <1>2, <1>5, <2>1 DEF CountersExact
<1>11. PhaseInv'
  BY <1>2 DEF PhaseInv
<1>12. QueueInv'
  <2>1. Known(current)' /\ queue'[current] = 0
    <3>1. ASSUME NEW l \in Literals, l = current
          PROVE  Known(l)' /\ queue'[l] = 0
      BY <1>3, <1>5, <3>1
    <3>. QED
      BY <1>2, <1>3, <3>1 DEF Known, Holds
  <2>2. pending' \subseteq ConditionOf(current)
    BY <1>1, <1>3 DEF QueueInv
  <2>. QED
    BY <1>2, <1>5, <2>1, <2>2 DEF QueueInv
<1>13. CounterInv'
  <2>1. ASSUME NEW j \in RuleIds, ~Trivial(j), unsatisfied'[j] = 0
        PROVE  Holds(buffer', HeadOf(j))
    <3>1. CASE j = i
      <4>1. unsatisfied[i] = 1
        BY <1>3, <1>6, <2>1, <3>1
      <4>2. CASE UNCHANGED <<buffer, queue>> /\ Holds(buffer, HeadOf(i))
        BY <3>1, <4>2 DEF Holds
      <4>3. CASE FreshHead(i)
        BY <1>3, <3>1, <4>3, FreshHeadFacts DEF Holds, HeadOf
      <4>. QED
        BY <1>4, <4>1, <4>2, <4>3
    <3>2. CASE j # i
      <4>1. Holds(buffer, HeadOf(j))
        BY <1>2, <1>6, <2>1, <3>2 DEF CounterInv, HasBeenReset, HeadOf
      <4>2. CASE UNCHANGED <<buffer, queue>>
        BY <4>1, <4>2 DEF Holds
      <4>3. CASE FreshHead(i)
        <5>1. Rules[j].var # Rules[i].var
          BY <1>3, <2>1, <4>1, <4>3, RuleParts, DerivedBinary
             DEF FreshHead, Holds, HeadOf, Trivial, TypeOK
        <5>. QED
          BY <1>3, <4>1, <4>3, <5>1, FreshHeadFacts, RuleParts DEF Holds, HeadOf
      <4>. QED
        BY <1>4, <4>2, <4>3
    <3>. QED
      BY <3>1, <3>2
  <2>. QED
    BY <1>8, <2>1 DEF CounterInv, Holds, HeadOf
<1>14. SupportInv'
  <2>1. CASE UNCHANGED <<buffer, queue>>
    BY <1>2, <2>1 DEF SupportInv, Known, Holds, Derives
  <2>2. CASE FreshHead(i) /\ unsatisfied[i] = 1
    BY <1>2, <1>3, <2>2, VisitFacts, FreshHeadSupport
  <2>. QED
    BY <1>4, <2>1, <2>2
<1>15. FinishedInv'
  <2>1. SUFFICES ASSUME NEW j \in RuleIds, ~Trivial(j), Layer[Rules[j].var] < layer,
                        unsatisfied'[j] # 0
                 PROVE  ~Triggers(buffer', j)
    BY <1>2 DEF FinishedInv, Triggers, Holds
  <2>2. unsatisfied[j] # 0
    BY <1>3, <1>6, <2>1
  <2>3. ~Triggers(buffer, j)
    BY <1>2, <2>1, <2>2 DEF FinishedInv
  <2>. QED
    BY <1>2, <1>3, <1>4, <2>1, <2>3, HeadFinished
<1>16. LeastInv'
  <2>1. CASE UNCHANGED <<buffer, queue>>
    BY <1>2, <2>1 DEF LeastInv, Known, Holds, Derives
  <2>2. CASE FreshHead(i) /\ unsatisfied[i] = 1
    BY <1>2, <1>3, <2>2, VisitFacts, FreshHeadLeast
  <2>. QED
    BY <1>4, <2>1, <2>2
<1>. QED
  BY <1>9, <1>10, <1>11, <1>12, <1>13, <1>14, <1>15, <1>16

-----------------------------------------------------------------------------
(* The loop that resets the counters and sets the heads of empty axioms.   *)

\* Before the first literal is taken every established one is queued, so that a counter
\* that has been reset counts all conditions of its axiom.
LEMMA NothingProcessed ==
    ASSUME TypeOK, pending = {}, NEW i \in RuleIds,
           \A l \in Literals : Known(l) => queue[l] = 1
    PROVE  Remaining(i) = Rules[i].body
<1>1. \A l \in Rules[i].body : l \in Literals
  BY RuleParts
<1>. QED
  BY <1>1 DEF Remaining

\* A turn of the loop that resets the counters, and applies axioms with an empty body.
LEMMA ResetRuleStep ==
    ASSUME AxiomInv, NegatedRulesHarmless, ResetRule
    PROVE  AxiomInv'
<1>. USE DEF AxiomInv
<1>. DEFINE i == next
<1>1. /\ pc = "reset" /\ i \in RuleIds
      /\ unsatisfied' = [unsatisfied EXCEPT ![i] = ConditionCount(i)]
      /\ IF ConditionCount(i) = 0 THEN SetHead(i) ELSE UNCHANGED <<buffer, queue>>
      /\ next' = i + 1
      /\ UNCHANGED <<layer, current, pending, pc>>
  BY EvaluationTypes DEF ResetRule, RuleIds, TypeOK
<1>2. pending = {} /\ layer = 0
  BY <1>1 DEF PhaseInv
<1>3. ConditionCount(i) = 0 <=> Rules[i].body = {}
  BY <1>1, RuleParts, FS_EmptySet DEF ConditionCount
<1>4. \/ UNCHANGED <<buffer, queue>> /\ (Rules[i].body = {} => Holds(buffer, HeadOf(i)))
      \/ FreshHead(i) /\ Rules[i].body = {}
  <2>1. CASE Rules[i].body = {}
    <3>1. layer <= Layer[Rules[i].var]
      BY <1>1, <1>2, RuleParts
    <3>2. SetHead(i) /\ layer' = layer
      BY <1>1, <1>3, <2>1
    <3>. QED
      BY <1>1, <2>1, <3>1, <3>2, SetHeadCases
  <2>2. CASE Rules[i].body # {}
    BY <1>1, <1>3, <2>2
  <2>. QED
    BY <2>1, <2>2
<1>5. /\ buffer' \in Assignments /\ queue' \in [Literals -> Nat]
      /\ \A l \in Literals : Known(l) => Known(l)'
      /\ \A l \in Literals : queue'[l] <= 1 /\ (queue'[l] = 1 => Known(l)')
      /\ \A l \in Literals : Known(l)' /\ ~Known(l) => queue'[l] = 1
      /\ \A l \in Literals : Known(l) => queue'[l] = queue[l]
  BY <1>1, <1>4, HeadEffect
<1>6. /\ unsatisfied' \in [RuleIds -> Int]
      /\ unsatisfied'[i] = ConditionCount(i)
      /\ \A j \in RuleIds : j # i => unsatisfied'[j] = unsatisfied[j]
  BY <1>1, RuleParts DEF TypeOK
<1>7. \A l \in Literals : Known(l)' => queue'[l] = 1
  BY <1>1, <1>5 DEF QueueInv
<1>8. \A j \in RuleIds : j <= i => unsatisfied'[j] = ConditionCount(j) /\ Remaining(j)' = Rules[j].body
  <2>1. \A j \in RuleIds : Remaining(j) = Rules[j].body
    BY <1>1, <1>2, NothingProcessed DEF QueueInv
  <2>2. \A j \in RuleIds : j < i => unsatisfied[j] = ConditionCount(j)
    BY <1>1, <2>1 DEF CounterInv, HasBeenReset, ConditionCount
  <2>3. ASSUME NEW j \in RuleIds
        PROVE  Remaining(j)' = Rules[j].body
    <3>1. \A l \in Rules[j].body : l \in Literals
      BY RuleParts
    <3>2. \A l \in Rules[j].body : ~Known(l)' \/ queue'[l] > 0
      BY <1>7, <3>1
    <3>. QED
      BY <3>2 DEF Remaining
  <2>. QED
    BY <1>1, <1>6, <2>2, <2>3 DEF RuleIds
<1>9. TypeOK'
  BY <1>1, <1>5, <1>6, EvaluationTypes DEF TypeOK, RuleIds
<1>10. CountersExact'
  <2>1. \A j \in RuleIds : unsatisfied'[j] \in 0 .. ConditionCount(j)
    <3>1. unsatisfied'[i] \in 0 .. ConditionCount(i)
      BY <1>1, <1>6, RuleParts
    <3>. QED
      BY <1>1, <1>6, <3>1 DEF CountersExact
  <2>. QED
    BY <1>1, <1>5, <2>1 DEF CountersExact
<1>11. PhaseInv'
  BY <1>1 DEF PhaseInv
<1>12. QueueInv'
  BY <1>1, <1>2, <1>5, <1>7 DEF QueueInv
<1>13. CounterInv'
  <2>1. SUFFICES ASSUME NEW j \in RuleIds, j <= i
                 PROVE  /\ unsatisfied'[j] = Cardinality(Remaining(j)')
                        /\ ~Trivial(j) /\ unsatisfied'[j] = 0 => Holds(buffer', HeadOf(j))
    BY <1>1 DEF CounterInv, HasBeenReset, HeadOf, Holds, RuleIds
  <2>2. unsatisfied'[j] = Cardinality(Remaining(j)')
    BY <1>8, <2>1 DEF ConditionCount
  <2>3. ASSUME ~Trivial(j), unsatisfied'[j] = 0
        PROVE  Holds(buffer', HeadOf(j))
    <3>1. Rules[j].body = {}
      BY <1>8, <2>1, <2>3, RuleParts, FS_EmptySet DEF ConditionCount
    <3>2. CASE UNCHANGED <<buffer, queue>> /\ (Rules[i].body = {} => Holds(buffer, HeadOf(i)))
      <4>1. Holds(buffer, HeadOf(j))
        <5>1. CASE j = i
          BY <3>1, <3>2, <5>1
        <5>2. CASE j < i
          <6>1. unsatisfied[j] = 0
            BY <1>6, <2>1, <2>3, <5>2, <1>1 DEF RuleIds
          <6>. QED
            BY <1>1, <2>1, <2>3, <5>2, <6>1 DEF CounterInv, HasBeenReset, HeadOf
        <5>. QED
          BY <1>1, <2>1, <5>1, <5>2 DEF RuleIds
      <4>. QED
        BY <3>2, <4>1 DEF Holds
    <3>3. CASE FreshHead(i)
      <4>1. CASE j = i
        BY <1>1, <3>3, <4>1, FreshHeadFacts DEF Holds, HeadOf
      <4>2. CASE j < i
        <5>1. unsatisfied[j] = 0
          BY <1>6, <2>1, <2>3, <4>2, <1>1 DEF RuleIds
        <5>2. Holds(buffer, HeadOf(j))
          BY <1>1, <2>1, <2>3, <4>2, <5>1 DEF CounterInv, HasBeenReset, HeadOf
        <5>3. Rules[j].var # Rules[i].var
          BY <1>1, <2>1, <2>3, <3>3, <5>2, RuleParts, DerivedBinary
             DEF FreshHead, Holds, HeadOf, Trivial, TypeOK
        <5>. QED
          BY <1>1, <2>1, <3>3, <5>2, <5>3, FreshHeadFacts, RuleParts DEF Holds, HeadOf
      <4>. QED
        BY <1>1, <2>1, <4>1, <4>2 DEF RuleIds
    <3>. QED
      BY <1>4, <3>2, <3>3
  <2>. QED
    BY <2>2, <2>3
<1>14. SupportInv'
  <2>1. CASE UNCHANGED <<buffer, queue>>
    BY <1>1, <2>1 DEF SupportInv, Known, Holds, Derives
  <2>2. CASE FreshHead(i) /\ Rules[i].body = {}
    BY <1>1, <2>2, FreshHeadSupport
  <2>. QED
    BY <1>4, <2>1, <2>2
<1>15. FinishedInv'
  BY <1>1, <1>2, RuleParts DEF FinishedInv
<1>16. LeastInv'
  <2>1. CASE UNCHANGED <<buffer, queue>>
    BY <1>1, <2>1 DEF LeastInv, Known, Holds, Derives
  <2>2. CASE FreshHead(i) /\ Rules[i].body = {}
    BY <1>1, <2>2, FreshHeadLeast
  <2>. QED
    BY <1>4, <2>1, <2>2
<1>. QED
  BY <1>9, <1>10, <1>11, <1>12, <1>13, <1>14, <1>15, <1>16

-----------------------------------------------------------------------------
(* The other steps.                                                        *)

\* A call starts from the default values of derived variables.
LEMMA EvaluateStep ==
    ASSUME AxiomInv, Evaluate
    PROVE  AxiomInv'
<1>. USE DEF AxiomInv
<1>1. PICK s \in [Primary -> Values] :
          /\ buffer' = [v \in Variables |-> IF v \in Derived THEN Default[v] ELSE s[v]]
          /\ queue' = [l \in Literals |->
                          queue[l] + (IF l[1] \in Primary /\ Holds(s, l) THEN 1 ELSE 0)]
  BY DEF Evaluate
<1>2. /\ layer' = 0 /\ next' = 1 /\ pc' = "reset"
      /\ UNCHANGED <<unsatisfied, current, pending>>
      /\ \A l \in Literals : queue[l] = 0
      /\ pending = {}
  BY DEF Evaluate, PhaseInv, QueueEmpty
<1>3. buffer' \in Assignments
  BY <1>1, LayersAssumption DEF Assignments, Variables, DomainOf
<1>4. \A l \in Literals : Known(l)' <=> l[1] \in Primary /\ Holds(s, l)
  <2>1. SUFFICES ASSUME NEW l \in Literals
                 PROVE  Known(l)' <=> l[1] \in Primary /\ Holds(s, l)
    OBVIOUS
  <2>2. CASE l[1] \in Derived
    <3>1. ~(Layer[l[1]] < 0)
      BY <2>2, LiteralParts
    <3>. QED
      BY <1>1, <1>2, <2>2, <3>1, LiteralParts, VariablesAssumption DEF Known, Holds
  <2>3. CASE l[1] \in Primary
    BY <1>1, <2>3, LiteralParts, VariablesAssumption DEF Known, Holds
  <2>. QED
    BY <2>2, <2>3, LiteralParts DEF Variables
<1>5. /\ queue' \in [Literals -> Nat]
      /\ \A l \in Literals : queue'[l] <= 1 /\ (queue'[l] = 1 <=> Known(l)')
  BY <1>1, <1>2, <1>4
<1>6. \A v \in Derived : ~Derives(buffer', v)
  BY <1>1 DEF Derives, Variables
<1>7. TypeOK'
  BY <1>2, <1>3, <1>5, EvaluationTypes DEF TypeOK
<1>8. CountersExact'
  BY <1>2, <1>5 DEF CountersExact
<1>9. PhaseInv'
  BY <1>2 DEF PhaseInv
<1>10. QueueInv'
  BY <1>2, <1>5 DEF QueueInv
<1>11. CounterInv'
  BY <1>2 DEF CounterInv, HasBeenReset, RuleIds
<1>12. SupportInv'
  BY <1>6 DEF SupportInv, Derives
<1>13. FinishedInv'
  BY <1>2, RuleParts DEF FinishedInv
<1>14. LeastInv'
  BY <1>6 DEF LeastInv, Derives
<1>. QED
  BY <1>7, <1>8, <1>9, <1>10, <1>11, <1>12, <1>13, <1>14

\* The counters of all axioms have been reset.
LEMMA ResetDoneStep ==
    ASSUME AxiomInv, ResetDone
    PROVE  AxiomInv'
<1>. USE DEF AxiomInv
<1>1. /\ pc = "reset" /\ pc' = "horn" /\ next = Len(Rules) + 1
      /\ UNCHANGED <<buffer, queue, unsatisfied, layer, current, pending, next>>
  BY EvaluationTypes DEF ResetDone, TypeOK
<1>2. /\ \A l : Known(l)' <=> Known(l)
      /\ \A i : Remaining(i)' = Remaining(i)
  BY <1>1 DEF Known, Holds, Remaining
<1>3. TypeOK' /\ CountersExact' /\ PhaseInv' /\ QueueInv'
  BY <1>1, <1>2, EvaluationTypes DEF TypeOK, CountersExact, PhaseInv, QueueInv
<1>4. CounterInv'
  <2>1. \A i \in RuleIds : HasBeenReset(i)
    BY <1>1, EvaluationTypes DEF HasBeenReset, RuleIds
  <2>. QED
    BY <1>1, <1>2, <2>1 DEF CounterInv, Holds
<1>5. SupportInv' /\ FinishedInv' /\ LeastInv'
  BY <1>1, <1>2 DEF SupportInv, FinishedInv, LeastInv, Derives, Triggers, Holds
<1>. QED
  BY <1>3, <1>4, <1>5

\* A literal is taken from the queue: its axioms become pending.
LEMMA PopLiteralStep ==
    ASSUME AxiomInv, PopLiteral
    PROVE  AxiomInv'
<1>. USE DEF AxiomInv
<1>1. PICK l \in Literals : /\ queue[l] > 0 /\ current' = l
                            /\ queue' = [queue EXCEPT ![l] = @ - 1]
                            /\ pending' = ConditionOf(l)
  BY DEF PopLiteral
<1>2. /\ pc = "horn" /\ pending = {}
      /\ UNCHANGED <<buffer, unsatisfied, layer, next, pc>>
  BY DEF PopLiteral
<1>3. queue[l] = 1 /\ Known(l)
  BY <1>1 DEF QueueInv, TypeOK
<1>4. \A m : Known(m)' <=> Known(m)
  BY <1>2 DEF Known, Holds
<1>5. /\ queue' \in [Literals -> Nat] /\ queue'[l] = 0
      /\ \A m \in Literals : m # l => queue'[m] = queue[m]
  BY <1>1, <1>3 DEF TypeOK
<1>6. \A i \in RuleIds : Remaining(i)' = Remaining(i)
  <2>1. SUFFICES ASSUME NEW i \in RuleIds, NEW m \in Rules[i].body
                 PROVE  m \in Remaining(i)' <=> m \in Remaining(i)
    BY DEF Remaining
  <2>2. m \in Literals
    BY RuleParts
  <2>3. CASE m = l
    BY <1>1, <1>2, <1>3, <2>3 DEF Remaining, ConditionOf
  <2>4. CASE m # l
    BY <1>1, <1>2, <1>4, <1>5, <2>2, <2>4 DEF Remaining
  <2>. QED
    BY <2>3, <2>4
<1>7. TypeOK'
  BY <1>1, <1>2, <1>5 DEF TypeOK, ConditionOf
<1>8. CountersExact' /\ PhaseInv'
  BY <1>2, <1>5 DEF CountersExact, PhaseInv
<1>9. QueueInv'
  <2>1. \A m \in Literals : queue'[m] <= 1 /\ (queue'[m] = 1 => Known(m)')
    BY <1>3, <1>4, <1>5 DEF QueueInv
  <2>2. Known(current)' /\ queue'[current'] = 0
    BY <1>1, <1>2, <1>3, <1>5 DEF Known, Holds
  <2>3. pending' \subseteq ConditionOf(current')
    BY <1>1
  <2>. QED
    BY <1>2, <2>1, <2>2, <2>3 DEF QueueInv, ConditionOf
<1>10. CounterInv'
  BY <1>2, <1>6 DEF CounterInv, HasBeenReset, Holds
<1>11. SupportInv' /\ FinishedInv' /\ LeastInv'
  BY <1>2, <1>4 DEF SupportInv, FinishedInv, LeastInv, Derives, Triggers, Holds
<1>. QED
  BY <1>7, <1>8, <1>9, <1>10, <1>11

\* When the queue is empty an axiom of the layer has fired or has a false condition: its
\* conditions of the layer are no default values, so each is established or false.
LEMMA LayerFinished ==
    ASSUME AxiomInv, pc \in {"horn", "done"}, pending = {}, QueueEmpty,
           NEW i \in RuleIds, ~Trivial(i), Layer[Rules[i].var] <= layer, unsatisfied[i] # 0
    PROVE  ~Triggers(buffer, i)
<1>. USE DEF AxiomInv
<1>1. CASE Layer[Rules[i].var] < layer
  BY <1>1 DEF FinishedInv
<1>2. CASE Layer[Rules[i].var] = layer
  <2>1. unsatisfied[i] = Cardinality(Remaining(i))
    BY DEF CounterInv, HasBeenReset
  <2>2. Remaining(i) # {}
    BY <2>1, RemainingFinite
  <2>3. PICK l \in Rules[i].body : l \in Remaining(i)
    BY <2>2 DEF Remaining
  <2>4. l \in Literals /\ StratifiedLiteral(l, layer)
    BY <1>2, RuleParts, StratifiedAssumption DEF Stratified
  <2>5. ~Known(l)
    BY <2>3, <2>4 DEF Remaining, QueueEmpty
  <2>6. ~Holds(buffer, l)
    BY <2>4, <2>5 DEF Known, StratifiedLiteral
  <2>. QED
    BY <2>6 DEF Triggers
<1>. QED
  BY <1>1, <1>2, RuleParts, EvaluationTypes

\* The end of a layer: what it has not derived is known to have its default value.
LEMMA NegationStep ==
    ASSUME AxiomInv, NegationByFailure
    PROVE  AxiomInv'
<1>. USE DEF AxiomInv
<1>1. /\ pc = "horn" /\ pending = {} /\ QueueEmpty /\ layer < LastLayer
      /\ queue' = [l \in Literals |-> IF l \in FailedLiterals THEN queue[l] + 1 ELSE queue[l]]
      /\ layer' = layer + 1
      /\ UNCHANGED <<buffer, unsatisfied, current, pending, next, pc>>
  BY DEF NegationByFailure
<1>2. ASSUME NEW l \in Literals
      PROVE  /\ Known(l)' <=> (Known(l) \/ l \in FailedLiterals)
             /\ l \in FailedLiterals => ~Known(l)
  <2>1. CASE l[1] \in Derived
    <3>1. Layer[l[1]] \in Int /\ layer \in Int
      BY <2>1, LiteralParts, EvaluationTypes
    <3>2. Layer[l[1]] < layer + 1 <=> (Layer[l[1]] < layer \/ Layer[l[1]] = layer)
      BY <3>1
    <3>3. ~(Layer[l[1]] < layer /\ Layer[l[1]] = layer)
      BY <3>1
    <3>. QED
      BY <1>1, <2>1, <3>2, <3>3 DEF Known, Holds, FailedLiterals
  <2>2. CASE l[1] \notin Derived
    BY <1>1, <2>2 DEF Known, Holds, FailedLiterals
  <2>. QED
    BY <2>1, <2>2
<1>3. /\ queue' \in [Literals -> Nat]
      /\ \A l \in Literals : queue[l] = 0
      /\ \A l \in Literals : queue'[l] = IF l \in FailedLiterals THEN 1 ELSE 0
  BY <1>1 DEF QueueEmpty
<1>4. \A i \in RuleIds : Remaining(i)' = Remaining(i)
  <2>1. SUFFICES ASSUME NEW i \in RuleIds, NEW l \in Rules[i].body
                 PROVE  l \in Remaining(i)' <=> l \in Remaining(i)
    BY DEF Remaining
  <2>2. l \in Literals
    BY RuleParts
  <2>. QED
    BY <1>1, <1>2, <1>3, <2>2 DEF Remaining
<1>5. TypeOK'
  BY <1>1, <1>3, EvaluationTypes DEF TypeOK
<1>6. CountersExact' /\ PhaseInv'
  BY <1>1, <1>3 DEF CountersExact, PhaseInv
<1>7. QueueInv'
  BY <1>1, <1>2, <1>3 DEF QueueInv
<1>8. CounterInv'
  BY <1>1, <1>4 DEF CounterInv, HasBeenReset, Holds
<1>9. SupportInv'
  <2>1. ASSUME NEW i \in RuleIds, \A l \in Rules[i].body : Known(l)
        PROVE  \A l \in Rules[i].body : Known(l)'
    BY <1>2, <2>1, RuleParts
  <2>. QED
    BY <1>1, <2>1 DEF SupportInv, Derives
<1>10. FinishedInv'
  <2>1. SUFFICES ASSUME NEW i \in RuleIds, ~Trivial(i), Layer[Rules[i].var] < layer + 1,
                        unsatisfied[i] # 0
                 PROVE  ~Triggers(buffer, i)
    BY <1>1 DEF FinishedInv, Triggers, Holds
  <2>2. Layer[Rules[i].var] <= layer
    BY <2>1, RuleParts, EvaluationTypes
  <2>. QED
    BY <1>1, <2>1, <2>2, LayerFinished
<1>11. LeastInv'
  BY <1>1, <1>2 DEF LeastInv, Derives
<1>. QED
  BY <1>5, <1>6, <1>7, <1>8, <1>9, <1>10, <1>11

\* The end of the last layer.
LEMMA ReturnStep ==
    ASSUME AxiomInv, Return
    PROVE  AxiomInv'
<1>. USE DEF AxiomInv
<1>1. /\ pc = "horn" /\ pending = {} /\ QueueEmpty /\ layer = LastLayer /\ pc' = "done"
      /\ UNCHANGED <<buffer, queue, unsatisfied, layer, current, pending, next>>
  BY DEF Return
<1>2. /\ \A l : Known(l)' <=> Known(l)
      /\ \A i : Remaining(i)' = Remaining(i)
  BY <1>1 DEF Known, Holds, Remaining
<1>3. TypeOK' /\ CountersExact' /\ PhaseInv' /\ QueueInv'
  BY <1>1, <1>2 DEF TypeOK, CountersExact, PhaseInv, QueueInv, QueueEmpty
<1>4. CounterInv' /\ SupportInv' /\ FinishedInv' /\ LeastInv'
  BY <1>1, <1>2 DEF CounterInv, HasBeenReset, SupportInv, FinishedInv, LeastInv, Derives,
                    Triggers, Holds
<1>. QED
  BY <1>3, <1>4

\* What all states share is right at every moment, for all stratified axioms: the counters
\* count the conditions not established yet, nothing is derived without support, and
\* nothing is derived that a state closed under the axioms could do without.
THEOREM AxiomInvariance == NegatedRulesHarmless => (Spec => []AxiomInv)
<1>. SUFFICES ASSUME NegatedRulesHarmless PROVE Spec => []AxiomInv
  OBVIOUS
<1>1. Init => AxiomInv
  <2>. SUFFICES ASSUME Init PROVE AxiomInv
    OBVIOUS
  <2>1. TypeOK
    <3>1. \A i \in RuleIds : ConditionCount(i) \in Int
      BY RuleParts
    <3>. QED
      BY <3>1, LayersAssumption, RulesAssumption DEF Init, TypeOK
  <2>2. CountersExact
    BY RuleParts DEF Init, CountersExact, QueueEmpty
  <2>3. PhaseInv /\ QueueInv
    BY DEF Init, PhaseInv, QueueInv, QueueEmpty
  <2>4. CounterInv /\ SupportInv /\ FinishedInv /\ LeastInv
    BY DEF Init, CounterInv, SupportInv, FinishedInv, LeastInv
  <2>. QED
    BY <2>1, <2>2, <2>3, <2>4 DEF AxiomInv
<1>2. AxiomInv /\ [Next]_vars => AxiomInv'
  <2>. SUFFICES ASSUME AxiomInv, [Next]_vars PROVE AxiomInv'
    OBVIOUS
  <2>1. CASE UNCHANGED vars
    <3>1. /\ \A l : Known(l)' <=> Known(l)
          /\ \A i : Remaining(i)' = Remaining(i)
      BY <2>1 DEF vars, Known, Holds, Remaining
    <3>2. TypeOK' /\ CountersExact' /\ PhaseInv' /\ QueueInv'
      BY <2>1, <3>1 DEF vars, AxiomInv, TypeOK, CountersExact, PhaseInv, QueueInv, QueueEmpty
    <3>3. CounterInv' /\ SupportInv' /\ FinishedInv' /\ LeastInv'
      BY <2>1, <3>1 DEF vars, AxiomInv, CounterInv, HasBeenReset, SupportInv, FinishedInv,
                        LeastInv, Derives, Triggers, Holds
    <3>. QED
      BY <3>2, <3>3 DEF AxiomInv
  <2>2. CASE Evaluate
    BY <2>2, EvaluateStep
  <2>3. CASE ResetRule
    BY <2>3, ResetRuleStep
  <2>4. CASE ResetDone
    BY <2>4, ResetDoneStep
  <2>5. CASE PopLiteral
    BY <2>5, PopLiteralStep
  <2>6. CASE VisitRule
    BY <2>6, VisitRuleStep
  <2>7. CASE NegationByFailure
    BY <2>7, NegationStep
  <2>8. CASE Return
    BY <2>8, ReturnStep
  <2>. QED
    BY <2>1, <2>2, <2>3, <2>4, <2>5, <2>6, <2>7, <2>8 DEF Next, Continue
<1>. QED
  BY <1>1, <1>2, PTL DEF Spec

-----------------------------------------------------------------------------
(* The results.                                                            *)

\* What evaluate returns is the least state, layer by layer, that is closed.
LEMMA ExtensionAtReturn ==
    ASSUME AxiomInv
    PROVE  EvaluatesToExtension
<1>. USE DEF AxiomInv
<1>1. SUFFICES ASSUME pc = "done", NEW k \in 0 .. LastLayer
               PROVE  /\ Closed(buffer, k)
                      /\ \A t \in Assignments : AgreeBelow(buffer, t, k) /\ Closed(t, k) =>
                             \A v \in Derived : Layer[v] = k /\ Derives(buffer, v) => Derives(t, v)
  BY DEF EvaluatesToExtension, IsExtension
<1>2. layer = LastLayer /\ QueueEmpty /\ pending = {}
  BY <1>1 DEF PhaseInv
<1>3. Closed(buffer, k)
  <2>1. SUFFICES ASSUME NEW i \in RuleIds, ~Trivial(i), Layer[Rules[i].var] = k,
                        Triggers(buffer, i)
                 PROVE  buffer[Rules[i].var] = Rules[i].val
    BY DEF Closed, RulesOfLayer
  <2>2. Layer[Rules[i].var] <= layer
    BY <1>2, RuleParts, EvaluationTypes
  <2>3. unsatisfied[i] = 0
    BY <1>1, <1>2, <2>1, <2>2, LayerFinished
  <2>. QED
    BY <1>1, <2>1, <2>3 DEF CounterInv, HasBeenReset, Holds
<1>4. ASSUME NEW t \in Assignments, AgreeBelow(buffer, t, k), Closed(t, k)
      PROVE  \A v \in Derived : Layer[v] = k /\ Derives(buffer, v) => Derives(t, v)
  <2>1. ASSUME NEW l \in Literals, Known(l), l[1] \in Derived => Layer[l[1]] < k
        PROVE  Holds(t, l)
    BY <1>4, <2>1, LiteralParts DEF AgreeBelow, Known, Holds
  <2>. QED
    BY <1>1, <1>4, <2>1 DEF LeastInv
<1>. QED
  BY <1>3, <1>4

\* evaluate (axioms.cc:77-150) returns the state in which every derived variable has the value
\* the stratified axioms give it, whatever the buffer held before the call.
THEOREM EvaluationIsCorrect == NegatedRulesHarmless => (Spec => []EvaluatesToExtension)
<1>1. NegatedRulesHarmless => (Spec => []AxiomInv)
  BY AxiomInvariance
<1>2. AxiomInv => EvaluatesToExtension
  BY ExtensionAtReturn
<1>. QED
  BY <1>1, <1>2, PTL

\* A step of the inner loop changes no variable of a finished layer, because the axiom whose
\* counter it brings to zero belongs to a layer that is not finished.
LEMMA NegationStaysFinal ==
    ASSUME AxiomInv, NegatedRulesHarmless, Next, pc = "horn",
           NEW v \in Derived, Layer[v] < layer
    PROVE  buffer'[v] = buffer[v]
<1>. USE DEF AxiomInv
<1>1. CASE VisitRule
  <2>1. PICK i \in pending :
            IF unsatisfied[i] = 1 THEN SetHead(i) ELSE UNCHANGED <<buffer, queue>>
    BY <1>1 DEF VisitRule
  <2>2. CASE unsatisfied[i] = 1
    <3>1. /\ i \in RuleIds /\ current \in Rules[i].body
          /\ \A l \in Rules[i].body : Known(l)
          /\ ~Trivial(i) => layer <= Layer[Rules[i].var]
      BY <2>2, VisitFacts
    <3>2. SetHead(i) /\ layer' = layer
      BY <1>1, <2>1, <2>2 DEF VisitRule
    <3>3. UNCHANGED buffer \/ FreshHead(i)
      BY <3>1, <3>2, SetHeadCases
    <3>4. CASE FreshHead(i)
      <4>1. v # Rules[i].var
        BY <3>1, <3>4, RuleParts, EvaluationTypes DEF FreshHead
      <4>. QED
        BY <3>1, <3>4, <4>1, FreshHeadFacts DEF Variables
    <3>. QED
      BY <3>3, <3>4
  <2>3. CASE unsatisfied[i] # 1
    BY <2>1, <2>3
  <2>. QED
    BY <2>2, <2>3
<1>2. CASE ~VisitRule
  BY <1>2 DEF Next, Continue, Evaluate, ResetRule, ResetDone, PopLiteral, NegationByFailure, Return
<1>. QED
  BY <1>1, <1>2

\* No default value that a higher layer has relied on is revoked later in the evaluation.
THEOREM NegationIsSound == NegatedRulesHarmless => (Spec => NegationIsFinal)
<1>. SUFFICES ASSUME NegatedRulesHarmless PROVE Spec => NegationIsFinal
  OBVIOUS
<1>1. Spec => []AxiomInv
  BY AxiomInvariance
<1>2. AxiomInv /\ [Next]_vars =>
          [pc = "horn" => \A v \in Derived : Layer[v] < layer => buffer'[v] = buffer[v]]_vars
  <2>. SUFFICES ASSUME AxiomInv, Next, pc = "horn", NEW v \in Derived, Layer[v] < layer
                PROVE  buffer'[v] = buffer[v]
    BY DEF vars
  <2>. QED
    BY NegationStaysFinal
<1>. QED
  BY <1>1, <1>2, PTL DEF Spec, NegationIsFinal

=============================================================================
