---------------------------- MODULE SymbolicProofs ----------------------------
(***************************************************************************)
(* Proofs about the symbolic axioms, for every set of stratified axioms:   *)
(* the axioms have a meaning, which does not depend on the layers that a   *)
(* stratifier chooses; both stratifiers find sound layers of the variables *)
(* and of the axioms; the worklist of create_derived_var_bdds computes for *)
(* every derived variable exactly the states in which it is derived; and   *)
(* all evaluators compute the images of the explicit search, in which the  *)
(* axioms are applied to every single state.                               *)
(***************************************************************************)
EXTENDS SymbolicAxioms, RecursionLemmas

\* The elements of a sequence.
LEMMA ElementOf ==
    ASSUME NEW S, NEW s \in Seq(S), NEW i \in 1 .. Len(s)
    PROVE  s[i] \in S
OBVIOUS

-----------------------------------------------------------------------------
(* Axioms and their layers.                                                *)

RuleIdsOf(p) == 1 .. Len(p.rules)
NonTrivial(p, i) == i \in RuleIdsOf(p) /\ p.rules[i].val # Default[p.rules[i].var]

\* An axiom needs variables of its own layer or of lower ones, and of lower ones to be false.
InOrder(p, layers, i) ==
    \A l \in p.rules[i].body : l[1] \in Derived =>
       /\ layers[l[1]] <= layers[p.rules[i].var]
       /\ l[2] = Default[l[1]] => layers[l[1]] < layers[p.rules[i].var]

SoundLayers(p, layers) ==
    /\ layers \in [Derived -> Nat]
    /\ \A i : NonTrivial(p, i) => InOrder(p, layers, i)

States ==
    {s \in [Primary \cup Derived -> Values \cup {0, 1}] :
        \A v \in Primary \cup Derived : s[v] \in IF v \in Derived THEN {0, 1} ELSE Values}

\* The body of an axiom holds in a state, and the state has what the axioms of a layer derive.
BodyHolds(p, s, i) == \A l \in p.rules[i].body : s[l[1]] = l[2]
ClosedAt(p, layers, s, k) ==
    \A i : NonTrivial(p, i) /\ layers[p.rules[i].var] = k /\ BodyHolds(p, s, i) =>
              s[p.rules[i].var] = p.rules[i].val

\* s and t agree on the primary variables and the layers below k.
SameBelow(layers, s, t, k) ==
    /\ \A v \in Primary : s[v] = t[v]
    /\ \A v \in Derived : layers[v] < k => s[v] = t[v]

\* s derives nothing in layer k but what all closed states derive.
LeastAt(p, layers, s, k) ==
    \A t \in States : SameBelow(layers, s, t, k) /\ ClosedAt(p, layers, t, k) =>
       \A v \in Derived : layers[v] = k /\ s[v] # Default[v] => t[v] # Default[v]

\* The axioms, and the layers of the translator.
LEMMA ProgramFacts ==
    ASSUME NEW p \in Programs
    PROVE  /\ Len(p.rules) \in Nat
           /\ \A i \in RuleIdsOf(p) :
                 /\ p.rules[i].var \in Derived /\ p.rules[i].val \in {0, 1}
                 /\ \A l \in p.rules[i].body :
                       /\ l[1] \in Primary \cup Derived
                       /\ l[1] \in Derived => l[2] \in {0, 1}
           /\ \A v \in Derived : Default[v] \in {0, 1}
           /\ \A v \in Derived : p.layer[v] \in Nat /\ p.layer[v] < Cardinality(Derived)
           /\ Cardinality(Derived) \in Nat
           /\ SoundLayers(p, p.layer)
<1>1. Cardinality(Derived) \in Nat
  BY ProgramsAssumption, FS_CardinalityType
<1>2. Task(p)!Literals =
         {l \in (Primary \cup Derived) \X (Values \cup {0, 1}) :
             l[2] \in IF l[1] \in Derived THEN {0, 1} ELSE Values}
  BY DEF Task!Literals, Task!Variables, Task!DomainOf
<1>3. p.rules \in Seq([var : Derived, val : {0, 1}, body : SUBSET Task(p)!Literals])
  BY ProgramsAssumption
<1>4. \A i \in RuleIdsOf(p) : p.rules[i] \in [var : Derived, val : {0, 1}, body : SUBSET Task(p)!Literals]
  BY <1>3, ElementOf DEF RuleIdsOf
<1>5. /\ Len(p.rules) \in Nat
      /\ \A i \in RuleIdsOf(p) :
            /\ p.rules[i].var \in Derived /\ p.rules[i].val \in {0, 1}
            /\ \A l \in p.rules[i].body :
                  /\ l[1] \in Primary \cup Derived
                  /\ l[1] \in Derived => l[2] \in {0, 1}
  BY <1>2, <1>3, <1>4
<1>6. p.layer \in [Derived -> 0 .. Cardinality(Derived) - 1] /\ Task(p)!Stratified
  BY ProgramsAssumption
<1>7. p.layer \in [Derived -> Nat] /\ \A v \in Derived : p.layer[v] < Cardinality(Derived)
  BY <1>1, <1>6
<1>8. ASSUME NEW i, NonTrivial(p, i) PROVE InOrder(p, p.layer, i)
  <2>1. \A l \in p.rules[i].body : l[1] \in Derived =>
           IF l[2] # Default[l[1]] THEN p.layer[l[1]] <= p.layer[p.rules[i].var]
           ELSE p.layer[l[1]] < p.layer[p.rules[i].var]
    BY <1>6, <1>8 DEF Task!Stratified, Task!StratifiedLiteral, Task!Trivial, Task!RuleIds,
                      NonTrivial, RuleIdsOf
  <2>. QED
    BY <1>5, <1>7, <1>8, <2>1 DEF InOrder, NonTrivial
<1>. QED
  BY <1>1, <1>5, <1>7, <1>8, ProgramsAssumption DEF SoundLayers

\* The instances of StratifiedAxioms in these terms.
LEMMA TaskMeaning ==
    ASSUME NEW p \in Programs
    PROVE  /\ Assignments = States
           /\ \A s : Task(p)!IsExtension(s) <=>
                 \A k \in 0 .. Cardinality(Derived) :
                    ClosedAt(p, p.layer, s, k) /\ LeastAt(p, p.layer, s, k)
<1>1. \A q \in Programs : Task(q)!Assignments = States
  BY DEF Task!Assignments, Task!Variables, Task!DomainOf, States
<1>2. Assignments = States
  BY <1>1 DEF Assignments
<1>3. ASSUME NEW s, NEW k
      PROVE  Task(p)!Closed(s, k) <=> ClosedAt(p, p.layer, s, k)
  BY DEF Task!Closed, Task!RulesOfLayer, Task!Triggers, Task!Holds, Task!Trivial, Task!RuleIds,
         ClosedAt, BodyHolds, NonTrivial, RuleIdsOf
<1>4. ASSUME NEW s, NEW t, NEW k
      PROVE  Task(p)!AgreeBelow(s, t, k) <=> SameBelow(p.layer, s, t, k)
  BY ProgramsAssumption DEF Task!AgreeBelow, Task!Variables, SameBelow
<1>5. ASSUME NEW s, NEW k
      PROVE  (\A t \in Task(p)!Assignments :
                 Task(p)!AgreeBelow(s, t, k) /\ Task(p)!Closed(t, k) =>
                    \A v \in Derived : p.layer[v] = k /\ Task(p)!Derives(s, v) => Task(p)!Derives(t, v))
             <=> LeastAt(p, p.layer, s, k)
  BY <1>1, <1>3, <1>4 DEF Task!Derives, LeastAt
<1>6. \A s : Task(p)!IsExtension(s) <=>
         \A k \in 0 .. Cardinality(Derived) :
            ClosedAt(p, p.layer, s, k) /\ LeastAt(p, p.layer, s, k)
  BY <1>3, <1>5 DEF Task!IsExtension
<1>. QED
  BY <1>2, <1>6

\* What an axiom needs is in its layer or below.
LEMMA BodyInLayers ==
    ASSUME NEW p \in Programs, NEW layers, SoundLayers(p, layers), NEW i, NonTrivial(p, i),
           NEW s \in States, NEW t \in States, SameBelow(layers, s, t, layers[p.rules[i].var] + 1)
    PROVE  BodyHolds(p, s, i) => BodyHolds(p, t, i)
<1>1. SUFFICES ASSUME NEW l \in p.rules[i].body, s[l[1]] = l[2] PROVE t[l[1]] = l[2]
  BY DEF BodyHolds
<1>2. l[1] \in Primary \cup Derived /\ p.rules[i].var \in Derived
  BY ProgramFacts DEF NonTrivial
<1>3. CASE l[1] \in Derived
  <2>1. /\ layers[l[1]] \in Nat /\ layers[p.rules[i].var] \in Nat
        /\ layers[l[1]] <= layers[p.rules[i].var]
    BY <1>2, <1>3 DEF SoundLayers, InOrder
  <2>. QED
    BY <1>1, <1>3, <2>1 DEF SameBelow
<1>. QED
  BY <1>1, <1>2, <1>3 DEF SameBelow

\* Whether a state is closed in a layer depends on this layer and those below.
LEMMA ClosedInLayers ==
    ASSUME NEW p \in Programs, NEW layers, SoundLayers(p, layers), NEW k \in Nat,
           NEW s \in States, NEW t \in States, SameBelow(layers, s, t, k + 1),
           ClosedAt(p, layers, s, k)
    PROVE  ClosedAt(p, layers, t, k)
<1>. SUFFICES ASSUME NEW i, NonTrivial(p, i), layers[p.rules[i].var] = k, BodyHolds(p, t, i)
              PROVE  t[p.rules[i].var] = p.rules[i].val
  BY DEF ClosedAt
<1>1. p.rules[i].var \in Derived
  BY ProgramFacts DEF NonTrivial
<1>2. SameBelow(layers, t, s, k + 1)
  BY DEF SameBelow
<1>3. BodyHolds(p, s, i)
  BY <1>2, BodyInLayers
<1>4. s[p.rules[i].var] = p.rules[i].val
  BY <1>3 DEF ClosedAt
<1>. QED
  BY <1>1, <1>4 DEF SameBelow

\* A derived variable that does not have its default value has the other one.
LEMMA NonDefault ==
    ASSUME NEW p \in Programs, NEW i, NonTrivial(p, i), NEW s \in States
    PROVE  s[p.rules[i].var] = p.rules[i].val <=> s[p.rules[i].var] # Default[p.rules[i].var]
<1>1. /\ p.rules[i].var \in Derived /\ p.rules[i].val \in {0, 1}
      /\ Default[p.rules[i].var] \in {0, 1} /\ p.rules[i].val # Default[p.rules[i].var]
  BY ProgramFacts DEF NonTrivial
<1>2. s[p.rules[i].var] \in {0, 1}
  BY <1>1 DEF States
<1>. QED
  BY <1>1, <1>2

\* Once the layers below k derive what they must, layer k can be made to.
LEMMA LayerExtended ==
    ASSUME NEW p \in Programs, NEW layers, SoundLayers(p, layers), NEW k \in Nat,
           NEW s \in States,
           \A j \in 0 .. k - 1 : ClosedAt(p, layers, s, j) /\ LeastAt(p, layers, s, j)
    PROVE  \E t \in States :
              /\ \A v \in Primary : t[v] = s[v]
              /\ \A j \in 0 .. k : ClosedAt(p, layers, t, j) /\ LeastAt(p, layers, t, j)
<1>. DEFINE Must(v) == \A u \in States :
                          SameBelow(layers, s, u, k) /\ ClosedAt(p, layers, u, k) => u[v] # Default[v]
            t == [v \in Primary \cup Derived |->
                     IF v \in Derived /\ layers[v] = k
                     THEN IF Must(v) THEN 1 - Default[v] ELSE Default[v]
                     ELSE s[v]]
<1>1. \A v \in Derived : layers[v] \in Nat /\ Default[v] \in {0, 1}
  BY ProgramsAssumption DEF SoundLayers
<1>2. Primary \cap Derived = {}
  BY ProgramsAssumption
<1>3. \A v \in Derived : 1 - Default[v] \in {0, 1} /\ 1 - Default[v] # Default[v]
  BY <1>1
<1>4. t \in States
  BY <1>1, <1>2, <1>3 DEF States
<1>5. /\ \A v \in Primary : t[v] = s[v]
      /\ \A v \in Derived : layers[v] # k => t[v] = s[v]
      /\ \A v \in Derived : layers[v] = k => (t[v] # Default[v] <=> Must(v))
  BY <1>2, <1>3
<1>. HIDE DEF t, Must
<1>6. \A j \in 0 .. k : SameBelow(layers, s, t, j)
  BY <1>1, <1>5 DEF SameBelow
<1>7. ASSUME NEW j \in 0 .. k, j # k
      PROVE  ClosedAt(p, layers, t, j) /\ LeastAt(p, layers, t, j)
  <2>1. ClosedAt(p, layers, s, j) /\ LeastAt(p, layers, s, j) /\ j \in Nat /\ j + 1 \in 0 .. k
    BY <1>7
  <2>2. ClosedAt(p, layers, t, j)
    BY <1>4, <1>6, <2>1, ClosedInLayers
  <2>3. SameBelow(layers, s, t, j + 1)
    BY <1>6, <2>1
  <2>4. \A u \in States : SameBelow(layers, t, u, j) => SameBelow(layers, s, u, j)
    BY <1>1, <2>3, <2>1 DEF SameBelow
  <2>5. \A v \in Derived : layers[v] = j => s[v] = t[v]
    BY <2>1, <2>3 DEF SameBelow
  <2>6. LeastAt(p, layers, t, j)
    BY <2>1, <2>4, <2>5 DEF LeastAt
  <2>. QED
    BY <2>2, <2>6
<1>8. \A u \in States : SameBelow(layers, t, u, k) <=> SameBelow(layers, s, u, k)
  BY <1>5, <1>1 DEF SameBelow
<1>9. LeastAt(p, layers, t, k)
  BY <1>5, <1>8 DEF LeastAt, Must
<1>10. ClosedAt(p, layers, t, k)
  <2>. SUFFICES ASSUME NEW i, NonTrivial(p, i), layers[p.rules[i].var] = k, BodyHolds(p, t, i)
                PROVE  t[p.rules[i].var] = p.rules[i].val
    BY DEF ClosedAt
  <2>1. p.rules[i].var \in Derived
    BY ProgramFacts DEF NonTrivial
  <2>2. ASSUME NEW u \in States, SameBelow(layers, s, u, k), ClosedAt(p, layers, u, k)
        PROVE  u[p.rules[i].var] # Default[p.rules[i].var]
    <3>1. ASSUME NEW l \in p.rules[i].body PROVE u[l[1]] = l[2]
      <4>1. /\ l[1] \in Primary \cup Derived /\ (l[1] \in Derived => l[2] \in {0, 1})
            /\ t[l[1]] = l[2]
        BY ProgramFacts DEF NonTrivial, BodyHolds
      <4>2. CASE l[1] \in Primary
        BY <1>5, <2>2, <4>1, <4>2 DEF SameBelow
      <4>3. ASSUME l[1] \in Derived, layers[l[1]] < k PROVE u[l[1]] = l[2]
        BY <1>5, <1>1, <2>2, <4>1, <4>3 DEF SameBelow
      <4>4. ASSUME l[1] \in Derived, ~ (layers[l[1]] < k) PROVE u[l[1]] = l[2]
        <5>1. layers[l[1]] <= k /\ (l[2] = Default[l[1]] => layers[l[1]] < k)
          BY <4>4 DEF SoundLayers, InOrder
        <5>2. layers[l[1]] = k /\ l[2] # Default[l[1]]
          BY <1>1, <4>4, <5>1
        <5>3. Must(l[1])
          BY <1>5, <4>1, <4>4, <5>2
        <5>4. u[l[1]] # Default[l[1]] /\ u[l[1]] \in {0, 1}
          BY <2>2, <4>4, <5>3 DEF Must, States
        <5>. QED
          BY <1>1, <4>1, <4>4, <5>2, <5>4
      <4>. QED
        BY <4>1, <4>2, <4>3, <4>4
    <3>2. u[p.rules[i].var] = p.rules[i].val
      BY <2>2, <3>1 DEF BodyHolds, ClosedAt
    <3>. QED
      BY <3>2, NonDefault
  <2>3. Must(p.rules[i].var)
    BY <2>2 DEF Must
  <2>. QED
    BY <1>4, <1>5, <2>1, <2>3, NonDefault
<1>. QED
  BY <1>4, <1>5, <1>7, <1>9, <1>10

\* The primary variables of a state.
LEMMA PrimaryParts ==
    /\ \A s \in States : PrimaryPart(s) \in PrimaryStates
    /\ \A s, t : PrimaryPart(s) = PrimaryPart(t) <=> \A v \in Primary : s[v] = t[v]
<1>1. Primary \cap Derived = {}
  BY ProgramsAssumption
<1>. QED
  BY <1>1 DEF PrimaryPart, PrimaryStates, States

\* Stratified axioms have a meaning in every primary state: layer by layer there is a state
\* that derives what is derived in all closed ones.
LEMMA ExtensionExists ==
    ASSUME NEW p \in Programs, NEW x \in PrimaryStates
    PROVE  \E s \in States :
              /\ PrimaryPart(s) = x
              /\ \A k \in 0 .. Cardinality(Derived) :
                    ClosedAt(p, p.layer, s, k) /\ LeastAt(p, p.layer, s, k)
<1>. DEFINE Good(n) == \E s \in States :
                          /\ PrimaryPart(s) = x
                          /\ \A j \in 0 .. n - 1 :
                                ClosedAt(p, p.layer, s, j) /\ LeastAt(p, p.layer, s, j)
            Bad == {n \in Nat : ~ Good(n)}
<1>1. Good(0)
  <2>. DEFINE s == [v \in Primary \cup Derived |-> IF v \in Derived THEN Default[v] ELSE x[v]]
  <2>1. s \in States /\ PrimaryPart(s) = x
    BY ProgramsAssumption DEF States, PrimaryPart, PrimaryStates
  <2>. QED
    BY <2>1
<1>2. ASSUME NEW n \in Nat, Good(n) PROVE Good(n + 1)
  <2>1. PICK s \in States :
           /\ PrimaryPart(s) = x
           /\ \A j \in 0 .. n - 1 : ClosedAt(p, p.layer, s, j) /\ LeastAt(p, p.layer, s, j)
    BY <1>2
  <2>2. PICK t \in States :
           /\ \A v \in Primary : t[v] = s[v]
           /\ \A j \in 0 .. n : ClosedAt(p, p.layer, t, j) /\ LeastAt(p, p.layer, t, j)
    BY <2>1, ProgramFacts, LayerExtended
  <2>. QED
    BY <2>1, <2>2, PrimaryParts
<1>. HIDE DEF Good
<1>3. Bad = {}
  <2>. SUFFICES ASSUME Bad # {} PROVE FALSE
    OBVIOUS
  <2>1. PICK m \in Bad : \A n \in Bad : m <= n
    BY LeastNumber
  <2>2. m # 0 /\ m - 1 \in Nat /\ m - 1 \notin Bad
    BY <1>1, <2>1
  <2>. QED
    BY <1>2, <2>1, <2>2
<1>4. Cardinality(Derived) + 1 \in Nat
  BY ProgramFacts
<1>5. Good(Cardinality(Derived) + 1)
  BY <1>3, <1>4
<1>. QED
  BY <1>5, ProgramFacts DEF Good

\* What Extended chooses is such a state.
LEMMA MeaningOfTask ==
    ASSUME NEW p \in Programs, NEW x \in PrimaryStates
    PROVE  /\ Extended[p][x] \in States
           /\ PrimaryPart(Extended[p][x]) = x
           /\ \A k \in Nat :
                 /\ ClosedAt(p, p.layer, Extended[p][x], k)
                 /\ LeastAt(p, p.layer, Extended[p][x], k)
<1>1. \E s \in Assignments : PrimaryPart(s) = x /\ Task(p)!IsExtension(s)
  BY ExtensionExists, TaskMeaning
<1>2. Extended[p][x] = CHOOSE s \in Assignments : PrimaryPart(s) = x /\ Task(p)!IsExtension(s)
  BY DEF Extended
<1>3. /\ Extended[p][x] \in Assignments
      /\ PrimaryPart(Extended[p][x]) = x /\ Task(p)!IsExtension(Extended[p][x])
  BY <1>1, <1>2
<1>4. \A k \in 0 .. Cardinality(Derived) :
         /\ ClosedAt(p, p.layer, Extended[p][x], k)
         /\ LeastAt(p, p.layer, Extended[p][x], k)
  BY <1>3, TaskMeaning
<1>5. ASSUME NEW k \in Nat, k \notin 0 .. Cardinality(Derived)
      PROVE  /\ ClosedAt(p, p.layer, Extended[p][x], k)
             /\ LeastAt(p, p.layer, Extended[p][x], k)
  <2>1. \A v \in Derived : p.layer[v] # k
    BY <1>5, ProgramFacts
  <2>2. \A i : NonTrivial(p, i) => p.rules[i].var \in Derived
    BY ProgramFacts DEF NonTrivial
  <2>. QED
    BY <2>1, <2>2 DEF ClosedAt, LeastAt
<1>. QED
  BY <1>3, <1>4, <1>5, TaskMeaning

\* Stratified axioms have a meaning, and only one: every assignment of the primary variables has
\* exactly one extension.
THEOREM AxiomsHaveMeaning ==
    \A p \in Programs : \A x \in PrimaryStates : \A s :
       s = Extended[p][x] <=> s \in Assignments /\ PrimaryPart(s) = x /\ Task(p)!IsExtension(s)
<1>. SUFFICES ASSUME NEW p \in Programs, NEW x \in PrimaryStates
              PROVE  \A s : s = Extended[p][x] <=>
                        s \in Assignments /\ PrimaryPart(s) = x /\ Task(p)!IsExtension(s)
  OBVIOUS
<1>. DEFINE t == Extended[p][x]
<1>1. /\ t \in Assignments /\ PrimaryPart(t) = x /\ Task(p)!IsExtension(t)
      /\ t \in States
      /\ \A k \in Nat : ClosedAt(p, p.layer, t, k) /\ LeastAt(p, p.layer, t, k)
  <2>1. \A k \in 0 .. Cardinality(Derived) : k \in Nat
    BY ProgramFacts
  <2>. QED
    BY <2>1, MeaningOfTask, TaskMeaning
<1>. HIDE DEF t
<1>2. ASSUME NEW s \in Assignments, PrimaryPart(s) = x, Task(p)!IsExtension(s) PROVE s = t
  <2>1. /\ s \in States
        /\ \A k \in 0 .. Cardinality(Derived) : ClosedAt(p, p.layer, s, k) /\ LeastAt(p, p.layer, s, k)
    BY <1>2, TaskMeaning
  <2>. DEFINE Layers == {p.layer[v] : v \in {w \in Derived : s[w] # t[w]}}
  <2>2. Layers \subseteq Nat
    BY ProgramFacts
  <2>3. \A v \in Primary : s[v] = t[v]
    BY <1>1, <1>2, PrimaryParts
  <2>4. Layers = {}
    <3>1. SUFFICES ASSUME Layers # {} PROVE FALSE
      OBVIOUS
    <3>2. PICK m \in Layers : \A n \in Layers : m <= n
      BY <2>2, <3>1, LeastNumber
    <3>3. PICK v \in Derived : s[v] # t[v] /\ p.layer[v] = m
      BY <3>2
    <3>4. \A w \in Derived : s[w] # t[w] => m <= p.layer[w]
      BY <3>2
    <3>5. m \in 0 .. Cardinality(Derived) /\ m \in Nat
      BY <3>3, ProgramFacts
    <3>. HIDE DEF Layers
    <3>6. SameBelow(p.layer, s, t, m) /\ SameBelow(p.layer, t, s, m)
      BY <2>3, <3>4, <3>5, ProgramFacts DEF SameBelow
    <3>7. s[v] # Default[v] <=> t[v] # Default[v]
      BY <1>1, <2>1, <3>3, <3>5, <3>6 DEF LeastAt
    <3>8. s[v] \in {0, 1} /\ t[v] \in {0, 1} /\ Default[v] \in {0, 1}
      BY <1>1, <2>1, ProgramFacts DEF States
    <3>. QED
      BY <3>3, <3>7, <3>8
  <2>5. \A v \in Derived : s[v] = t[v]
    BY <2>4
  <2>. QED
    BY <1>1, <2>1, <2>3, <2>5 DEF States
<1>. QED
  BY <1>1, <1>2 DEF t

\* The meaning of the axioms does not depend on the layers: it is derived layer by layer
\* in any sound ones.
LEMMA MeaningInLayers ==
    ASSUME NEW p \in Programs, NEW x \in PrimaryStates, NEW layers, SoundLayers(p, layers),
           NEW k \in Nat
    PROVE  /\ ClosedAt(p, layers, Extended[p][x], k)
           /\ LeastAt(p, layers, Extended[p][x], k)
<1>. DEFINE s == Extended[p][x]
<1>1. /\ s \in States
      /\ \A j \in Nat : ClosedAt(p, p.layer, s, j) /\ LeastAt(p, p.layer, s, j)
  BY MeaningOfTask
<1>. HIDE DEF s
<1>2. /\ \A v \in Derived : layers[v] \in Nat /\ p.layer[v] \in Nat /\ Default[v] \in {0, 1}
      /\ SoundLayers(p, p.layer)
  BY ProgramFacts DEF SoundLayers
<1>3. ClosedAt(p, layers, s, k)
  <2>. SUFFICES ASSUME NEW i, NonTrivial(p, i), BodyHolds(p, s, i)
                PROVE  s[p.rules[i].var] = p.rules[i].val
    BY DEF ClosedAt
  <2>1. p.layer[p.rules[i].var] \in Nat
    BY ProgramFacts DEF NonTrivial
  <2>. QED
    BY <1>1, <2>1 DEF ClosedAt
<1>4. LeastAt(p, layers, s, k)
  <2>. SUFFICES ASSUME NEW t \in States, SameBelow(layers, s, t, k), ClosedAt(p, layers, t, k)
                PROVE  \A v \in Derived : layers[v] = k /\ s[v] # Default[v] => t[v] # Default[v]
    BY DEF LeastAt
  <2>. DEFINE B == {v \in Derived : layers[v] = k /\ s[v] # Default[v] /\ t[v] = Default[v]}
              Layers == {p.layer[v] : v \in B}
  <2>. SUFFICES ASSUME B # {} PROVE FALSE
    OBVIOUS
  <2>1. PICK m \in Layers : \A n \in Layers : m <= n
    <3>1. Layers \subseteq Nat /\ Layers # {}
      BY <1>2
    <3>. QED
      BY <3>1, LeastNumber
  <2>2. m \in Nat /\ \E v \in B : p.layer[v] = m
    BY <1>2, <2>1
  <2>3. \A v \in B : m <= p.layer[v]
    BY <2>1
  <2>. HIDE DEF Layers
  <2>. DEFINE u == [v \in Primary \cup Derived |->
                       IF v \in B /\ p.layer[v] = m THEN Default[v] ELSE s[v]]
  <2>4. u \in States
    BY <1>1, <1>2, ProgramsAssumption DEF States
  <2>5. /\ \A v \in Primary : u[v] = s[v]
        /\ \A v \in Derived : ~ (v \in B /\ p.layer[v] = m) => u[v] = s[v]
        /\ \A v \in Derived : v \in B /\ p.layer[v] = m => u[v] = Default[v]
    BY ProgramsAssumption
  <2>. HIDE DEF u
  <2>6. SameBelow(p.layer, s, u, m)
    BY <1>2, <2>2, <2>5 DEF SameBelow
  <2>7. ClosedAt(p, p.layer, u, m)
    <3>. SUFFICES ASSUME NEW i, NonTrivial(p, i), p.layer[p.rules[i].var] = m, BodyHolds(p, u, i)
                  PROVE  u[p.rules[i].var] = p.rules[i].val
      BY DEF ClosedAt
    <3>1. p.rules[i].var \in Derived
      BY ProgramFacts DEF NonTrivial
    <3>2. ASSUME NEW l \in p.rules[i].body
          PROVE  s[l[1]] = l[2] /\ (l[1] \in Derived /\ l[2] # Default[l[1]] => l[1] \notin B \/ p.layer[l[1]] # m)
      <4>1. u[l[1]] = l[2] /\ l[1] \in Primary \cup Derived
        BY ProgramFacts DEF BodyHolds, NonTrivial
      <4>2. CASE l[1] \in Primary
        BY <2>5, <4>1, <4>2, ProgramsAssumption
      <4>3. CASE l[1] \in Derived
        <5>1. l[2] = Default[l[1]] => p.layer[l[1]] < m
          BY <1>2, <4>3 DEF SoundLayers, InOrder
        <5>2. p.layer[l[1]] = m => l[2] # Default[l[1]]
          BY <1>2, <2>2, <5>1
        <5>. QED
          BY <2>5, <4>1, <4>3, <5>2
      <4>. QED
        BY <4>1, <4>2, <4>3
    <3>3. BodyHolds(p, s, i)
      BY <3>2 DEF BodyHolds
    <3>4. s[p.rules[i].var] = p.rules[i].val
      BY <1>1, <2>2, <3>3 DEF ClosedAt
    <3>5. CASE p.rules[i].var \notin B
      BY <2>5, <3>1, <3>4, <3>5
    <3>6. CASE p.rules[i].var \in B
      <4>1. layers[p.rules[i].var] = k /\ t[p.rules[i].var] = Default[p.rules[i].var]
        BY <3>6
      <4>2. ASSUME NEW l \in p.rules[i].body PROVE t[l[1]] = l[2]
        <5>1. s[l[1]] = l[2] /\ l[1] \in Primary \cup Derived
          BY <3>2, ProgramFacts DEF NonTrivial
        <5>2. CASE l[1] \in Primary
          BY <5>1, <5>2 DEF SameBelow
        <5>3. CASE l[1] \in Derived
          <6>1. /\ layers[l[1]] <= k /\ (l[2] = Default[l[1]] => layers[l[1]] < k)
                /\ p.layer[l[1]] <= m
            BY <1>2, <4>1, <5>3 DEF SoundLayers, InOrder
          <6>2. CASE layers[l[1]] < k
            BY <5>1, <5>3, <6>2 DEF SameBelow
          <6>3. CASE ~ (layers[l[1]] < k)
            <7>1. layers[l[1]] = k /\ l[2] # Default[l[1]]
              BY <1>2, <5>3, <6>1, <6>3
            <7>2. l[1] \notin B
              BY <1>2, <2>2, <2>3, <3>2, <5>3, <6>1, <7>1
            <7>3. t[l[1]] # Default[l[1]]
              BY <5>1, <5>3, <7>1, <7>2
            <7>4. t[l[1]] \in {0, 1} /\ s[l[1]] \in {0, 1} /\ Default[l[1]] \in {0, 1}
              BY <1>1, <1>2, <5>3 DEF States
            <7>. QED
              BY <5>1, <7>1, <7>3, <7>4
          <6>. QED
            BY <6>2, <6>3
        <5>. QED
          BY <5>1, <5>2, <5>3
      <4>3. t[p.rules[i].var] = p.rules[i].val
        BY <4>1, <4>2 DEF ClosedAt, BodyHolds
      <4>. QED
        BY <4>1, <4>3, NonDefault
    <3>. QED
      BY <3>5, <3>6
  <2>8. \A v \in Derived : p.layer[v] = m /\ s[v] # Default[v] => u[v] # Default[v]
    BY <1>1, <2>2, <2>4, <2>6, <2>7 DEF LeastAt
  <2>. QED
    BY <2>2, <2>5, <2>8
<1>. QED
  BY <1>3, <1>4 DEF s

-----------------------------------------------------------------------------
(* The stratifier "scc": layers of the variables.                          *)

Pairs == Derived \X Derived
Orders == [needs : SUBSET Pairs, negative : SUBSET Pairs]

Needs(order, v, w) == <<v, w>> \in order.needs
NeedsFalse(order, v, w) == <<v, w>> \in order.negative

\* The order respects the layers of the translator and holds the direct dependencies, and it is
\* transitive where the variable in the middle is in s.
OrderUpto(s, order) ==
    /\ order \in Orders
    /\ \A v, w \in Derived :
          /\ Needs(Layered!DirectOrder, v, w) => Needs(order, v, w)
          /\ NeedsFalse(Layered!DirectOrder, v, w) => NeedsFalse(order, v, w)
          /\ NeedsFalse(order, v, w) => Needs(order, v, w) /\ program.layer[v] < program.layer[w]
          /\ Needs(order, v, w) => program.layer[v] <= program.layer[w]
    /\ \A u \in s : \A v, w \in Derived :
          Needs(order, v, u) /\ Needs(order, u, w) =>
             /\ Needs(order, v, w)
             /\ NeedsFalse(order, v, u) \/ NeedsFalse(order, u, w) => NeedsFalse(order, v, w)

\* The dependencies of an axiom.
LEMMA DirectOrderFacts ==
    ASSUME program \in Programs
    PROVE  /\ Layered!DirectOrder \in Orders
           /\ \A v, w \in Derived :
                 /\ NeedsFalse(Layered!DirectOrder, v, w) <=>
                       \E i : NonTrivial(program, i) /\ program.rules[i].var = w
                                 /\ <<v, Default[v]>> \in program.rules[i].body
                 /\ Needs(Layered!DirectOrder, v, w) <=>
                       \E i : NonTrivial(program, i) /\ program.rules[i].var = w
                                 /\ \/ <<v, Default[v]>> \in program.rules[i].body
                                    \/ <<v, 1 - Default[v]>> \in program.rules[i].body
BY DEF Layered!DirectOrder, Layered!NegativelyContained, Layered!PositivelyContained,
       Layered!HeadOf, Layered!Trivial, Layered!RuleIds, NonTrivial, RuleIdsOf, Needs, NeedsFalse,
       Orders, Pairs

\* Direct dependencies respect the layers.
LEMMA DirectOrderUpto ==
    ASSUME program \in Programs
    PROVE  OrderUpto({}, Layered!DirectOrder)
<1>1. ASSUME NEW v \in Derived, NEW w \in Derived
      PROVE  /\ NeedsFalse(Layered!DirectOrder, v, w) =>
                   Needs(Layered!DirectOrder, v, w) /\ program.layer[v] < program.layer[w]
             /\ Needs(Layered!DirectOrder, v, w) => program.layer[v] <= program.layer[w]
  <2>1. \A i : NonTrivial(program, i) => InOrder(program, program.layer, i)
    BY ProgramFacts DEF SoundLayers
  <2>2. ASSUME NEW i, NonTrivial(program, i), program.rules[i].var = w,
               NEW l \in program.rules[i].body, l[1] = v
        PROVE  /\ program.layer[v] <= program.layer[w]
               /\ l[2] = Default[v] => program.layer[v] < program.layer[w]
    BY <2>1, <2>2 DEF InOrder
  <2>3. ASSUME NEW i, NonTrivial(program, i), program.rules[i].var = w,
               NEW d, <<v, d>> \in program.rules[i].body
        PROVE  /\ program.layer[v] <= program.layer[w]
               /\ d = Default[v] => program.layer[v] < program.layer[w]
    BY <2>2, <2>3
  <2>4. ASSUME NeedsFalse(Layered!DirectOrder, v, w)
        PROVE  Needs(Layered!DirectOrder, v, w) /\ program.layer[v] < program.layer[w]
    <3>1. PICK i : /\ NonTrivial(program, i) /\ program.rules[i].var = w
                   /\ <<v, Default[v]>> \in program.rules[i].body
      BY <2>4, DirectOrderFacts
    <3>. QED
      BY <2>3, <3>1, DirectOrderFacts
  <2>5. ASSUME Needs(Layered!DirectOrder, v, w)
        PROVE  program.layer[v] <= program.layer[w]
    <3>1. PICK i : /\ NonTrivial(program, i) /\ program.rules[i].var = w
                   /\ \/ <<v, Default[v]>> \in program.rules[i].body
                      \/ <<v, 1 - Default[v]>> \in program.rules[i].body
      BY <2>5, DirectOrderFacts
    <3>. QED
      BY <2>3, <3>1
  <2>. QED
    BY <2>4, <2>5
<1>. QED
  BY <1>1, DirectOrderFacts DEF OrderUpto

\* What Through adds.
LEMMA ThroughFacts ==
    ASSUME NEW u \in Derived, NEW a \in Orders
    PROVE  /\ Layered!Through(u, a) \in Orders
           /\ \A v, w \in Derived :
                 /\ Needs(Layered!Through(u, a), v, w) <=>
                       Needs(a, v, w) \/ (Needs(a, v, u) /\ Needs(a, u, w))
                 /\ NeedsFalse(Layered!Through(u, a), v, w) <=>
                       \/ NeedsFalse(a, v, w)
                       \/ /\ Needs(a, v, u) /\ Needs(a, u, w)
                          /\ NeedsFalse(a, v, u) \/ NeedsFalse(a, u, w)
BY DEF Layered!Through, Needs, NeedsFalse, Orders, Pairs

\* After Through the order is transitive through one variable more.
LEMMA ThroughUpto ==
    ASSUME program \in Programs, NEW s \in SUBSET Derived, NEW u \in s, NEW a,
           OrderUpto(s \ {u}, a)
    PROVE  OrderUpto(s, Layered!Through(u, a))
<1>. DEFINE b == Layered!Through(u, a)
<1>1. a \in Orders /\ u \in Derived
  BY DEF OrderUpto
<1>2. /\ b \in Orders
      /\ \A v, w \in Derived :
            /\ Needs(b, v, w) <=> Needs(a, v, w) \/ (Needs(a, v, u) /\ Needs(a, u, w))
            /\ NeedsFalse(b, v, w) <=>
                  \/ NeedsFalse(a, v, w)
                  \/ /\ Needs(a, v, u) /\ Needs(a, u, w)
                     /\ NeedsFalse(a, v, u) \/ NeedsFalse(a, u, w)
  BY <1>1, ThroughFacts
<1>. HIDE DEF b
<1>3. \A v \in Derived : program.layer[v] \in Nat
  BY ProgramFacts
<1>4. \A v, w \in Derived :
         /\ Needs(Layered!DirectOrder, v, w) => Needs(a, v, w)
         /\ NeedsFalse(Layered!DirectOrder, v, w) => NeedsFalse(a, v, w)
         /\ NeedsFalse(a, v, w) => Needs(a, v, w) /\ program.layer[v] < program.layer[w]
         /\ Needs(a, v, w) => program.layer[v] <= program.layer[w]
  BY DEF OrderUpto
<1>5. \A x \in s \ {u} : \A v, w \in Derived :
         Needs(a, v, x) /\ Needs(a, x, w) =>
            /\ Needs(a, v, w)
            /\ NeedsFalse(a, v, x) \/ NeedsFalse(a, x, w) => NeedsFalse(a, v, w)
  BY DEF OrderUpto
<1>6. ASSUME NEW v \in Derived, NEW w \in Derived
      PROVE  /\ NeedsFalse(b, v, w) => Needs(b, v, w) /\ program.layer[v] < program.layer[w]
             /\ Needs(b, v, w) => program.layer[v] <= program.layer[w]
  BY <1>1, <1>2, <1>3, <1>4
<1>7. ~ NeedsFalse(a, u, u)
  BY <1>1, <1>3, <1>4
<1>8. ASSUME NEW v \in Derived, NEW w \in Derived, Needs(b, v, u), Needs(b, u, w)
      PROVE  /\ Needs(b, v, w)
             /\ NeedsFalse(b, v, u) \/ NeedsFalse(b, u, w) => NeedsFalse(b, v, w)
  BY <1>1, <1>2, <1>7, <1>8
<1>9. ASSUME NEW x \in s \ {u}, NEW v \in Derived, NEW w \in Derived, Needs(b, v, x), Needs(b, x, w)
      PROVE  /\ Needs(b, v, w)
             /\ NeedsFalse(b, v, x) \/ NeedsFalse(b, x, w) => NeedsFalse(b, v, w)
  <2>. x \in Derived
    OBVIOUS
  <2>1. CASE Needs(a, v, x) /\ Needs(a, x, w)
    BY <1>1, <1>2, <1>5, <1>4, <2>1
  <2>2. CASE ~ Needs(a, v, x) /\ Needs(a, x, w)
    <3>1. /\ Needs(a, v, u) /\ Needs(a, u, x) /\ Needs(a, u, w)
          /\ NeedsFalse(a, u, x) \/ NeedsFalse(a, x, w) => NeedsFalse(a, u, w)
          /\ NeedsFalse(b, v, x) => NeedsFalse(a, v, u) \/ NeedsFalse(a, u, x)
      BY <1>1, <1>2, <1>4, <1>5, <1>9, <2>2
    <3>2. NeedsFalse(b, x, w) => NeedsFalse(a, x, w) \/ NeedsFalse(a, u, w)
      <4>1. ASSUME Needs(a, x, u) PROVE ~ NeedsFalse(a, x, u)
        BY <1>1, <1>3, <1>4, <3>1, <4>1
      <4>. QED
        BY <1>1, <1>2, <4>1
    <3>. QED
      BY <1>1, <1>2, <3>1, <3>2
  <2>3. CASE Needs(a, v, x) /\ ~ Needs(a, x, w)
    <3>1. /\ Needs(a, x, u) /\ Needs(a, u, w) /\ Needs(a, v, u)
          /\ NeedsFalse(a, v, x) \/ NeedsFalse(a, x, u) => NeedsFalse(a, v, u)
          /\ NeedsFalse(b, x, w) => NeedsFalse(a, x, u) \/ NeedsFalse(a, u, w)
      BY <1>1, <1>2, <1>4, <1>5, <1>9, <2>3
    <3>2. NeedsFalse(b, v, x) => NeedsFalse(a, v, x) \/ NeedsFalse(a, v, u)
      <4>1. ASSUME Needs(a, u, x) PROVE ~ NeedsFalse(a, u, x)
        BY <1>1, <1>3, <1>4, <3>1, <4>1
      <4>. QED
        BY <1>1, <1>2, <4>1
    <3>. QED
      BY <1>1, <1>2, <3>1, <3>2
  <2>4. CASE ~ Needs(a, v, x) /\ ~ Needs(a, x, w)
    <3>1. Needs(a, v, u) /\ Needs(a, u, x) /\ Needs(a, x, u) /\ Needs(a, u, w)
      BY <1>1, <1>2, <1>9, <2>4
    <3>2. ~ NeedsFalse(a, u, x) /\ ~ NeedsFalse(a, x, u)
      BY <1>1, <1>5, <1>7, <3>1
    <3>. QED
      BY <1>1, <1>2, <1>4, <2>4, <3>1, <3>2
  <2>. QED
    BY <2>1, <2>2, <2>3, <2>4
<1>10. \A x \in s : \A v, w \in Derived :
         Needs(b, v, x) /\ Needs(b, x, w) =>
            /\ Needs(b, v, w)
            /\ NeedsFalse(b, v, x) \/ NeedsFalse(b, x, w) => NeedsFalse(b, v, w)
  BY <1>8, <1>9
<1>11. \A v, w \in Derived :
         /\ Needs(Layered!DirectOrder, v, w) => Needs(b, v, w)
         /\ NeedsFalse(Layered!DirectOrder, v, w) => NeedsFalse(b, v, w)
  BY <1>2, <1>4
<1>. QED
  BY <1>2, <1>6, <1>10, <1>11 DEF OrderUpto, b

\* The order of the derived variables: the transitive closure of the direct dependencies.
LEMMA OrderOfDerived ==
    ASSUME program \in Programs
    PROVE  OrderUpto(Derived, Layered!OrderDerived)
<1>. DEFINE step == [e \in Derived \X Orders |-> Layered!Through(e[1], e[2])]
            first == [s \in SUBSET Derived |-> CHOOSE x \in s : TRUE]
            IsFold(f) == f = [s \in SUBSET Derived |->
                                IF s = {} THEN Layered!DirectOrder
                                ELSE Layered!Through(CHOOSE x \in s : TRUE,
                                                     f[s \ {CHOOSE x \in s : TRUE}])]
            IsFirstFold(f) == f = [s \in SUBSET Derived |->
                                     IF s = {} THEN Layered!DirectOrder
                                     ELSE Layered!Through(first[s], f[s \ {first[s]}])]
            iter == CHOOSE f : IsFold(f)
<1>1. Layered!OrderDerived = iter[Derived]
  BY DEF Layered!OrderDerived, Layered!FoldSet, Layered!MapThenFoldSet
<1>2. /\ step \in [Derived \X Orders -> Orders]
      /\ \A u \in Derived, a \in Orders : step[<<u, a>>] = Layered!Through(u, a)
  BY ThroughFacts
<1>3. Layered!DirectOrder \in Orders /\ IsFiniteSet(Derived)
  BY DirectOrderFacts, ProgramsAssumption
<1>4. Takes(first, Derived)
  BY DEF Takes
<1>5. \A f : IsFold(f) <=> IsFirstFold(f)
  <2>1. \A s \in SUBSET Derived : first[s] = CHOOSE x \in s : TRUE
    OBVIOUS
  <2>. HIDE DEF first
  <2>. QED
    BY <2>1
<1>. HIDE DEF step, first, IsFold
<1>6. PICK f \in [SUBSET Derived -> Orders] :
         Folds(f, Layered!DirectOrder, step, first, Derived)
  BY <1>2, <1>3, <1>4, FoldExists
<1>7. IsFirstFold(f)
  <2>1. ASSUME NEW s \in SUBSET Derived, s # {}
        PROVE  f[s] = Layered!Through(first[s], f[s \ {first[s]}])
    <3>1. first[s] \in Derived /\ s \ {first[s]} \in SUBSET Derived
      BY <1>4, <2>1 DEF Takes
    <3>2. f[s \ {first[s]}] \in Orders
      BY <3>1
    <3>. QED
      BY <1>2, <1>6, <2>1, <3>1, <3>2 DEF Folds
  <2>. QED
    BY <1>6, <2>1 DEF Folds
<1>8. IsFirstFold(iter)
  <2>1. IsFold(iter)
    BY <1>5, <1>7
  <2>. HIDE DEF iter, IsFirstFold
  <2>. QED
    BY <1>5, <2>1
<1>. HIDE DEF iter
<1>9. /\ iter[{}] = Layered!DirectOrder
      /\ \A s \in SUBSET Derived : s # {} => iter[s] = Layered!Through(first[s], iter[s \ {first[s]}])
  BY <1>8
<1>. DEFINE Good == {s \in SUBSET Derived : OrderUpto(s, iter[s])}
<1>10. {} \in Good
  BY <1>9, DirectOrderUpto
<1>11. \A s \in SUBSET Derived : s # {} /\ s \ {first[s]} \in Good => s \in Good
  BY <1>4, <1>9, ThroughUpto DEF Takes
<1>12. Grows(Good, first, Derived)
  <2>. HIDE DEF Good
  <2>. QED
    BY <1>10, <1>11 DEF Grows
<1>13. Derived \in Good
  <2>. HIDE DEF Good
  <2>. QED
    BY <1>3, <1>4, <1>12, FoldInduction
<1>. QED
  BY <1>1, <1>13

\* Level by level: R[n] is what remains of the variables after n levels.
Stratum(order, r) == {v \in r : \A u \in r : ~ NeedsFalse(order, u, v)}
IsLevels(R, order) ==
    /\ R \in [0 .. Cardinality(Derived) -> SUBSET Derived]
    /\ R[0] = Derived
    /\ \A n \in 1 .. Cardinality(Derived) : R[n] = R[n - 1] \ Stratum(order, R[n - 1])
LevelsOf(R) == [v \in Derived |-> Cardinality({n \in 1 .. Cardinality(Derived) : v \in R[n]})]

\* The cardinalities of the instance of Stratification.
LEMMA LayeredCardinality ==
    \A S : Layered!Cardinality(S) = Cardinality(S)
BY DEF Layered!Cardinality, Cardinality

\* A set of numbers from one to the last that holds all below its members has as many elements
\* as its largest one.
LEMMA LengthOfPrefix ==
    ASSUME NEW m \in Nat, NEW A \in SUBSET (1 .. m), \A n \in A : \A k \in 1 .. n : k \in A
    PROVE  \E k \in 0 .. m : A = 1 .. k /\ Cardinality(A) = k
<1>. DEFINE Out == {n \in Nat : n + 1 \notin A}
<1>1. m \in Out
  OBVIOUS
<1>2. PICK k \in Out : \A n \in Out : k <= n
  BY <1>1, LeastNumber
<1>3. k \in 0 .. m
  BY <1>1, <1>2
<1>4. \A n \in 1 .. k : n \in A
  <2>1. ASSUME NEW n \in 1 .. k, n \notin A PROVE FALSE
    <3>1. n - 1 \in Nat /\ (n - 1) + 1 = n /\ n - 1 < k
      BY <1>3
    <3>2. n - 1 \in Out
      BY <2>1, <3>1
    <3>. QED
      BY <1>2, <1>3, <3>1, <3>2
  <2>. QED
    BY <2>1
<1>5. \A n \in A : n <= k
  <2>1. ASSUME NEW n \in A, ~ (n <= k) PROVE FALSE
    <3>1. k + 1 \in 1 .. n
      BY <1>3, <2>1
    <3>. QED
      BY <1>2, <3>1
  <2>. QED
    BY <2>1
<1>6. A = 1 .. k
  <2>1. \A n \in A : n \in Int /\ 1 <= n
    OBVIOUS
  <2>2. \A n \in A : n \in 1 .. k
    BY <1>3, <1>5, <2>1
  <2>. QED
    BY <1>4, <2>2
<1>7. Cardinality(1 .. k) = k
  BY <1>3, FS_Interval
<1>. QED
  BY <1>3, <1>6, <1>7

\* Level by level, the variables leave no later than the translator's layers say, so that all
\* have left at the end, and the levels are sound.
LEMMA StrataAreLayers ==
    ASSUME program \in Programs, NEW order, OrderUpto(Derived, order), NEW R, IsLevels(R, order)
    PROVE  /\ SoundLayers(program, LevelsOf(R))
           /\ \A v \in Derived : LevelsOf(R)[v] < Cardinality(Derived)
<1>. DEFINE N == Cardinality(Derived)
            layers == LevelsOf(R)
<1>1. /\ N \in Nat
      /\ \A v \in Derived : program.layer[v] \in Nat /\ program.layer[v] < N
  BY ProgramFacts
<1>2. /\ R \in [0 .. N -> SUBSET Derived] /\ R[0] = Derived
      /\ \A n \in 1 .. N : R[n] = R[n - 1] \ Stratum(order, R[n - 1])
  BY DEF IsLevels
<1>0. layers = [v \in Derived |-> Cardinality({n \in 1 .. N : v \in R[n]})]
  BY DEF LevelsOf
<1>. HIDE DEF N, layers
<1>3. \A n \in 0 .. N : \A v \in R[n] : n <= program.layer[v]
  <2>. DEFINE Good == {n \in Nat : n <= N => \A v \in R[n] : n <= program.layer[v]}
  <2>1. 0 \in Good
    BY <1>1, <1>2
  <2>2. ASSUME NEW n \in Nat, n \in Good PROVE n + 1 \in Good
    <3>. SUFFICES ASSUME n + 1 <= N, NEW v \in R[n + 1] PROVE n + 1 <= program.layer[v]
      OBVIOUS
    <3>1. n + 1 \in 1 .. N /\ (n + 1) - 1 = n /\ n \in 0 .. N
      BY <1>1
    <3>2. R[n + 1] = R[n] \ Stratum(order, R[n]) /\ R[n] \subseteq Derived
      BY <1>2, <3>1
    <3>3. v \in R[n] /\ v \notin Stratum(order, R[n]) /\ v \in Derived
      BY <3>2
    <3>4. PICK u \in R[n] : NeedsFalse(order, u, v)
      BY <3>3 DEF Stratum
    <3>5. program.layer[u] < program.layer[v] /\ n <= program.layer[u]
      BY <2>2, <3>1, <3>2, <3>3, <3>4 DEF OrderUpto
    <3>. QED
      BY <1>1, <3>2, <3>3, <3>4, <3>5
  <2>3. Nat \subseteq Good
    <3>. HIDE DEF Good
    <3>. QED
      BY <2>1, <2>2, NumberInduction
  <2>. QED
    BY <1>1, <2>3
<1>4. R[N] = {}
  <2>1. ASSUME NEW v \in R[N] PROVE FALSE
    <3>1. N \in 0 .. N /\ v \in Derived
      BY <1>1, <1>2
    <3>. QED
      BY <1>1, <1>3, <3>1
  <2>. QED
    BY <2>1
<1>5. ASSUME NEW v, NEW n \in 0 .. N, v \in R[n] PROVE \A k \in 0 .. n : v \in R[k]
  <2>. DEFINE Good == {d \in Nat : d <= n => v \in R[n - d]}
  <2>1. 0 \in Good
    BY <1>1, <1>5
  <2>2. ASSUME NEW d \in Nat, d \in Good PROVE d + 1 \in Good
    <3>. SUFFICES ASSUME d + 1 <= n PROVE v \in R[n - (d + 1)]
      OBVIOUS
    <3>1. n - d \in 1 .. N /\ (n - d) - 1 = n - (d + 1)
      BY <1>1
    <3>. QED
      BY <1>2, <2>2, <3>1
  <2>3. Nat \subseteq Good
    <3>. HIDE DEF Good
    <3>. QED
      BY <2>1, <2>2, NumberInduction
  <2>4. ASSUME NEW k \in 0 .. n PROVE v \in R[k]
    <3>1. n - k \in Nat /\ n - (n - k) = k /\ n - k <= n
      BY <1>1
    <3>2. n - k \in Good
      BY <2>3, <3>1
    <3>. QED
      BY <3>1, <3>2
  <2>. QED
    BY <2>4
<1>6. ASSUME NEW v \in Derived
      PROVE  /\ layers[v] \in Nat /\ layers[v] < N
             /\ v \in R[layers[v]] /\ v \in Stratum(order, R[layers[v]])
             /\ \A n \in 0 .. N : v \in R[n] => n <= layers[v]
  <2>. DEFINE A == {n \in 1 .. N : v \in R[n]}
  <2>1. \A n \in A : \A k \in 1 .. n : k \in A
    <3>1. ASSUME NEW n \in A, NEW k \in 1 .. n PROVE k \in A
      <4>1. n \in 0 .. N /\ k \in 0 .. n /\ k \in 1 .. N /\ v \in R[n]
        BY <1>1
      <4>. QED
        BY <1>5, <4>1
    <3>. QED
      BY <3>1
  <2>2. PICK k \in 0 .. N : A = 1 .. k /\ Cardinality(A) = k
    <3>1. A \in SUBSET (1 .. N)
      OBVIOUS
    <3>. HIDE DEF A
    <3>. QED
      BY <1>1, <2>1, <3>1, LengthOfPrefix
  <2>3. layers[v] = k
    BY <1>0, <2>2
  <2>4. \A n \in 1 .. N : v \in R[n] <=> n <= k
    BY <1>1, <2>2
  <2>5. k < N
    <3>1. k = N => k \in 0 .. N /\ (k # 0 => k \in 1 .. N)
      BY <1>1
    <3>. QED
      BY <1>1, <1>2, <1>4, <2>4, <3>1
  <2>6. v \in R[k]
    BY <1>1, <1>2, <2>4
  <2>7. v \in Stratum(order, R[k])
    <3>1. k + 1 \in 1 .. N /\ (k + 1) - 1 = k /\ ~ (k + 1 <= k)
      BY <1>1, <2>5
    <3>2. v \notin R[k + 1] /\ R[k + 1] = R[k] \ Stratum(order, R[k])
      BY <1>2, <2>4, <3>1
    <3>. QED
      BY <2>6, <3>2
  <2>. QED
    BY <1>1, <2>3, <2>4, <2>5, <2>6, <2>7
<1>7. ASSUME NEW v \in Derived, NEW w \in Derived, NeedsFalse(order, v, w)
      PROVE  layers[v] < layers[w]
  <2>1. v \notin R[layers[w]]
    BY <1>6, <1>7 DEF Stratum
  <2>2. layers[v] \in 0 .. N /\ layers[w] \in 0 .. N
    BY <1>1, <1>6
  <2>3. layers[w] <= layers[v] => v \in R[layers[w]]
    BY <1>1, <1>5, <1>6, <2>2
  <2>. QED
    BY <2>1, <2>2, <2>3
<1>8. ASSUME NEW v \in Derived, NEW w \in Derived, Needs(order, v, w)
      PROVE  layers[v] <= layers[w]
  <2>. SUFFICES ASSUME layers[w] < layers[v] PROVE FALSE
    BY <1>6
  <2>1. /\ layers[v] \in 0 .. N /\ layers[w] \in 0 .. layers[v] /\ layers[w] + 1 \in 0 .. layers[v]
        /\ layers[w] + 1 \in 1 .. N /\ (layers[w] + 1) - 1 = layers[w]
    BY <1>1, <1>6
  <2>2. v \in R[layers[w]] /\ v \in R[layers[w] + 1]
    BY <1>5, <1>6, <2>1
  <2>3. v \notin Stratum(order, R[layers[w]])
    BY <1>2, <2>1, <2>2
  <2>4. PICK u \in R[layers[w]] : NeedsFalse(order, u, v)
    BY <2>2, <2>3 DEF Stratum
  <2>5. u \in Derived
    <3>1. layers[w] \in 0 .. N
      BY <1>1, <1>6
    <3>2. R[layers[w]] \in SUBSET Derived
      BY <1>2, <3>1
    <3>. QED
      BY <2>4, <3>2
  <2>6. NeedsFalse(order, u, w)
    BY <1>8, <2>4, <2>5 DEF OrderUpto
  <2>. QED
    BY <1>6, <2>6 DEF Stratum
<1>9. ASSUME NEW i, NonTrivial(program, i), NEW l \in program.rules[i].body, l[1] \in Derived
      PROVE  /\ layers[l[1]] <= layers[program.rules[i].var]
             /\ l[2] = Default[l[1]] => layers[l[1]] < layers[program.rules[i].var]
  <2>. DEFINE w == program.rules[i].var
  <2>1. /\ w \in Derived /\ l[2] \in {0, 1} /\ Default[l[1]] \in {0, 1}
        /\ l = <<l[1], l[2]>>
    <3>1. i \in RuleIdsOf(program)
      BY <1>9 DEF NonTrivial
    <3>2. program.rules \in Seq([var : Derived, val : {0, 1}, body : SUBSET Task(program)!Literals])
      BY ProgramsAssumption
    <3>3. program.rules[i] \in [var : Derived, val : {0, 1}, body : SUBSET Task(program)!Literals]
      BY <3>1, <3>2, ElementOf DEF RuleIdsOf
    <3>4. l \in Task(program)!Literals
      BY <3>3
    <3>5. l = <<l[1], l[2]>>
      BY <3>4 DEF Task!Literals
    <3>. QED
      BY <1>9, <3>1, <3>5, ProgramFacts
  <2>2. l[2] = Default[l[1]] \/ l[2] = 1 - Default[l[1]]
    BY <2>1
  <2>3. CASE l[2] = Default[l[1]]
    <3>1. <<l[1], Default[l[1]]>> \in program.rules[i].body
      BY <2>1, <2>3
    <3>2. NeedsFalse(Layered!DirectOrder, l[1], w)
      BY <1>9, <2>1, <3>1, DirectOrderFacts
    <3>3. NeedsFalse(order, l[1], w)
      BY <1>9, <2>1, <3>2 DEF OrderUpto
    <3>. QED
      BY <1>6, <1>7, <1>9, <2>1, <3>3
  <2>4. CASE l[2] = 1 - Default[l[1]]
    <3>1. <<l[1], 1 - Default[l[1]]>> \in program.rules[i].body /\ l[2] # Default[l[1]]
      BY <2>1, <2>4
    <3>2. Needs(Layered!DirectOrder, l[1], w)
      BY <1>9, <2>1, <3>1, DirectOrderFacts
    <3>3. Needs(order, l[1], w)
      BY <1>9, <2>1, <3>2 DEF OrderUpto
    <3>. QED
      BY <1>8, <1>9, <2>1, <3>1, <3>3
  <2>. QED
    BY <2>2, <2>3, <2>4
<1>10. layers \in [Derived -> Nat]
  BY <1>0, <1>6
<1>11. \A i : NonTrivial(program, i) => InOrder(program, layers, i)
  BY <1>9 DEF InOrder
<1>. QED
  BY <1>6, <1>10, <1>11 DEF SoundLayers, N, layers

\* The layers that "scc" extracts from the order of the variables are sound.
LEMMA ExtractedLayers ==
    ASSUME program \in Programs
    PROVE  /\ SoundLayers(program, Layered!ExtractDerived(Layered!OrderDerived))
           /\ \A v \in Derived : Layered!ExtractDerived(Layered!OrderDerived)[v] < Cardinality(Derived)
<1>. DEFINE order == Layered!OrderDerived
            M == Layered!Cardinality(Derived)
            step == [r \in SUBSET Derived |-> r \ Stratum(order, r)]
            StratumOf(r) == {j \in r : \A i \in r : <<i, j>> \notin order.negative}
            IsRemaining(f) == f = [n \in 0 .. Layered!Cardinality(Derived) |->
                                     IF n = 0 THEN Derived
                                     ELSE f[n - 1] \ StratumOf(f[n - 1])]
            remaining == CHOOSE f : IsRemaining(f)
<1>1. Layered!ExtractDerived(order) =
         [v \in Derived |-> Layered!Cardinality({n \in 1 .. Layered!Cardinality(Derived) : v \in remaining[n]})]
  BY DEF Layered!ExtractDerived
<1>2. OrderUpto(Derived, order)
  BY OrderOfDerived
<1>. HIDE DEF order
<1>3. M = Cardinality(Derived) /\ M \in Nat
  BY ProgramFacts, LayeredCardinality
<1>4. \A r : StratumOf(r) = Stratum(order, r)
  BY DEF Stratum, NeedsFalse
<1>. HIDE DEF StratumOf, M
<1>5. \A f : IsRemaining(f) <=> f = [n \in 0 .. M |-> IF n = 0 THEN Derived
                                                     ELSE f[n - 1] \ StratumOf(f[n - 1])]
  BY DEF M
<1>. HIDE DEF IsRemaining
<1>6. step \in [SUBSET Derived -> SUBSET Derived]
  OBVIOUS
<1>7. PICK f \in [0 .. M -> SUBSET Derived] : Recurs(f, Derived, step, M)
  <2>1. Derived \in SUBSET Derived
    OBVIOUS
  <2>. HIDE DEF step
  <2>. QED
    BY <1>3, <1>6, <2>1, RecursionExists
<1>8. IsRemaining(f)
  <2>1. ASSUME NEW n \in 1 .. M
        PROVE  f[n] = f[n - 1] \ StratumOf(f[n - 1])
    <3>1. n - 1 \in 0 .. M
      BY <1>3
    <3>2. f[n - 1] \in SUBSET Derived
      BY <3>1
    <3>3. f[n] = step[f[n - 1]]
      BY <1>7 DEF Recurs
    <3>. QED
      BY <1>4, <3>2, <3>3
  <2>2. \A n \in 0 .. M : n # 0 => n \in 1 .. M
    BY <1>3
  <2>. HIDE DEF step
  <2>. QED
    BY <1>5, <1>7, <2>1, <2>2 DEF Recurs
<1>9. IsRemaining(remaining)
  BY <1>8
<1>. HIDE DEF remaining
<1>10. /\ remaining[0] = Derived
       /\ \A n \in 1 .. M : remaining[n] = remaining[n - 1] \ Stratum(order, remaining[n - 1])
       /\ remaining = [n \in 0 .. M |-> remaining[n]]
  BY <1>3, <1>4, <1>5, <1>9
<1>11. remaining \in [0 .. M -> SUBSET Derived]
  <2>. DEFINE Good == {n \in Nat : n <= M => remaining[n] \in SUBSET Derived}
  <2>1. 0 \in Good
    BY <1>10
  <2>2. ASSUME NEW n \in Nat, n \in Good PROVE n + 1 \in Good
    <3>1. n + 1 <= M => n + 1 \in 1 .. M /\ (n + 1) - 1 = n /\ n <= M
      BY <1>3
    <3>. QED
      BY <1>10, <2>2, <3>1
  <2>3. Nat \subseteq Good
    <3>. HIDE DEF Good
    <3>. QED
      BY <2>1, <2>2, NumberInduction
  <2>4. \A n \in 0 .. M : remaining[n] \in SUBSET Derived
    BY <1>3, <2>3
  <2>. QED
    BY <1>10, <2>4
<1>12. IsLevels(remaining, order)
  BY <1>3, <1>10, <1>11 DEF IsLevels
<1>13. Layered!ExtractDerived(order) = LevelsOf(remaining)
  <2>1. Layered!Cardinality(Derived) = Cardinality(Derived)
    BY LayeredCardinality
  <2>2. \A v \in Derived :
           Layered!Cardinality({n \in 1 .. Layered!Cardinality(Derived) : v \in remaining[n]})
              = Cardinality({n \in 1 .. Cardinality(Derived) : v \in remaining[n]})
    BY <2>1, LayeredCardinality
  <2>. QED
    BY <1>1, <2>2 DEF LevelsOf
<1>. QED
  BY <1>2, <1>12, <1>13, StrataAreLayers DEF order

-----------------------------------------------------------------------------
(* The worklist of create_derived_var_bdds.                                *)

Conditions == [Derived -> SUBSET PrimaryStates]

\* The primary states in which the axioms derive a variable.
Derivable(v) == {x \in PrimaryStates : Extended[program][x][v] # Default[v]}

\* The conditions are never too weak, and they are exact below layer k.
SoundBelow(bdds, k) ==
    /\ bdds \in Conditions
    /\ \A v \in Derived : bdds[v] \subseteq Derivable(v)
    /\ \A v \in Derived : varLayer[v] < k => bdds[v] = Derivable(v)

\* The axioms in these terms.
LEMMA AxiomsOfLayer ==
    ASSUME program \in Programs
    PROVE  /\ RuleIds = RuleIdsOf(program) /\ RuleIds \subseteq Nat
           /\ \A k, i : i \in AxiomsAt(k) <=>
                 NonTrivial(program, i) /\ varLayer[program.rules[i].var] = k
           /\ \A k, i : i \in AxiomsAt(k) => i \in RuleIds /\ program.rules[i].var \in Derived
           /\ \A k, i : i \in AxiomsAt(k) => Rule(i) = program.rules[i]
           /\ \A v, i : Layered!InBody(v, i) <=> \E l \in program.rules[i].body : l[1] = v
<1>1. RuleIds = RuleIdsOf(program) /\ RuleIds \subseteq Nat
  BY DEF RuleIds, Layered!RuleIds, RuleIdsOf
<1>2. ASSUME NEW k, NEW i
      PROVE  i \in AxiomsAt(k) <=> NonTrivial(program, i) /\ varLayer[program.rules[i].var] = k
  BY <1>1 DEF AxiomsAt, NonTrivial, Rule, Layered!Trivial
<1>3. ASSUME NEW k, NEW i, i \in AxiomsAt(k)
      PROVE  i \in RuleIds /\ program.rules[i].var \in Derived
  BY <1>1, <1>2, <1>3, ProgramFacts DEF NonTrivial
<1>4. ASSUME NEW v, NEW i
      PROVE  Layered!InBody(v, i) <=> \E l \in program.rules[i].body : l[1] = v
  BY DEF Layered!InBody
<1>5. \A i : Rule(i) = program.rules[i]
  BY DEF Rule
<1>. QED
  <2>1. \A k, i : i \in AxiomsAt(k) <=>
           NonTrivial(program, i) /\ varLayer[program.rules[i].var] = k
    BY <1>2
  <2>2. \A k, i : i \in AxiomsAt(k) => i \in RuleIds /\ program.rules[i].var \in Derived
    BY <1>3
  <2>3. \A v, i : Layered!InBody(v, i) <=> \E l \in program.rules[i].body : l[1] = v
    BY <1>4
  <2>. QED
    BY <1>1, <1>5, <2>1, <2>2, <2>3

\* The literals of the body of an axiom, given sound layers.
LEMMA LiteralsOfLayer ==
    ASSUME program \in Programs, SoundLayers(program, varLayer), NEW k \in Int,
           NEW i \in AxiomsAt(k), NEW l \in program.rules[i].body
    PROVE  /\ l[1] \in Primary \/ (l[1] \in Derived /\ l[1] \notin Primary)
           /\ l[1] \in Derived =>
                 /\ varLayer[l[1]] \in Nat /\ varLayer[l[1]] <= k
                 /\ l[2] \in {0, 1} /\ Default[l[1]] \in {0, 1}
                 /\ varLayer[l[1]] = k => l[2] # Default[l[1]]
<1>1. NonTrivial(program, i) /\ varLayer[program.rules[i].var] = k
  BY AxiomsOfLayer
<1>2. i \in RuleIdsOf(program) /\ InOrder(program, varLayer, i)
  BY <1>1 DEF NonTrivial, SoundLayers
<1>3. /\ l[1] \in Primary \cup Derived
      /\ l[1] \in Derived => l[2] \in {0, 1} /\ Default[l[1]] \in {0, 1}
  BY <1>2, ProgramFacts
<1>4. ASSUME l[1] \in Derived
      PROVE  /\ varLayer[l[1]] \in Nat /\ varLayer[l[1]] <= k
             /\ l[2] = Default[l[1]] => varLayer[l[1]] < k
  BY <1>1, <1>2, <1>4 DEF InOrder, SoundLayers
<1>. QED
  BY <1>3, <1>4, ProgramsAssumption

\* In a primary state in which a body holds under conditions that are not too weak, and exact
\* below its layer, the axiom derives its head.
LEMMA BodyDerives ==
    ASSUME program \in Programs, SoundLayers(program, varLayer), NEW k \in Nat, NEW bdds,
           SoundBelow(bdds, k), NEW i \in AxiomsAt(k), NEW x \in BodyBdd(bdds, i)
    PROVE  x \in Derivable(program.rules[i].var)
<1>. DEFINE s == Extended[program][x]
<1>1. x \in PrimaryStates /\ \A l \in program.rules[i].body : x \in WithLiteral(bdds, l)
  BY AxiomsOfLayer DEF BodyBdd
<1>2. s \in States /\ PrimaryPart(s) = x /\ ClosedAt(program, varLayer, s, k)
  BY <1>1, MeaningOfTask, MeaningInLayers
<1>3. \A v \in Derived : x \in bdds[v] => s[v] # Default[v]
  BY DEF SoundBelow, Derivable
<1>4. \A v \in Derived : varLayer[v] < k => (x \in bdds[v] <=> s[v] # Default[v])
  BY <1>1 DEF SoundBelow, Derivable
<1>5. \A v \in Primary : s[v] = x[v]
  BY <1>2 DEF PrimaryPart
<1>6. \A v \in Derived : s[v] \in {0, 1}
  BY <1>2 DEF States
<1>. HIDE DEF s
<1>7. ASSUME NEW l \in program.rules[i].body PROVE s[l[1]] = l[2]
  <2>1. x \in WithLiteral(bdds, l)
    BY <1>1
  <2>2. CASE l[1] \in Primary
    BY <1>5, <2>1, <2>2 DEF WithLiteral
  <2>3. CASE l[1] \in Derived /\ l[1] \notin Primary
    <3>1. /\ varLayer[l[1]] \in Nat /\ varLayer[l[1]] <= k
          /\ l[2] \in {0, 1} /\ Default[l[1]] \in {0, 1}
          /\ varLayer[l[1]] = k => l[2] # Default[l[1]]
      BY <2>3, LiteralsOfLayer
    <3>2. CASE l[2] = Default[l[1]]
      <4>1. x \notin bdds[l[1]] /\ varLayer[l[1]] < k
        BY <2>1, <2>3, <3>1, <3>2 DEF WithLiteral
      <4>. QED
        BY <1>4, <2>3, <3>2, <4>1
    <3>3. CASE l[2] # Default[l[1]]
      <4>1. x \in bdds[l[1]]
        BY <2>1, <2>3, <3>3 DEF WithLiteral
      <4>. QED
        BY <1>3, <1>6, <2>3, <3>1, <3>3, <4>1
    <3>. QED
      BY <3>2, <3>3
  <2>. QED
    BY <2>2, <2>3, LiteralsOfLayer
<1>8. NonTrivial(program, i) /\ varLayer[program.rules[i].var] = k
  BY AxiomsOfLayer
<1>9. s[program.rules[i].var] = program.rules[i].val
  BY <1>2, <1>7, <1>8 DEF ClosedAt, BodyHolds
<1>10. s[program.rules[i].var] # Default[program.rules[i].var]
  BY <1>2, <1>8, <1>9, NonDefault
<1>. QED
  BY <1>1, <1>10 DEF Derivable, s

\* Once every axiom of layer k has been followed, the conditions of the layer are exact too.
LEMMA LayerExact ==
    ASSUME program \in Programs, SoundLayers(program, varLayer), NEW k \in Int, k >= -1, NEW bdds,
           SoundBelow(bdds, k),
           \A i \in AxiomsAt(k) : BodyBdd(bdds, i) \subseteq bdds[program.rules[i].var]
    PROVE  SoundBelow(bdds, k + 1)
<1>1. \A v \in Derived : varLayer[v] \in Nat /\ Default[v] \in {0, 1}
  BY ProgramFacts DEF SoundLayers
<1>2. SUFFICES ASSUME NEW v \in Derived, varLayer[v] = k, NEW x \in Derivable(v)
               PROVE  x \in bdds[v]
  <2>1. \A v \in Derived : varLayer[v] = k => bdds[v] = Derivable(v)
    BY <1>2 DEF SoundBelow
  <2>2. \A v \in Derived : varLayer[v] < k + 1 => varLayer[v] < k \/ varLayer[v] = k
    BY <1>1
  <2>. QED
    BY <2>1, <2>2 DEF SoundBelow
<1>3. k \in Nat
  BY <1>1, <1>2
<1>. DEFINE s == Extended[program][x]
            t == [w \in Primary \cup Derived |->
                     IF w \in Derived /\ varLayer[w] = k
                     THEN IF x \in bdds[w] THEN 1 - Default[w] ELSE Default[w]
                     ELSE s[w]]
<1>4. x \in PrimaryStates /\ s[v] # Default[v]
  BY DEF Derivable
<1>5. s \in States /\ PrimaryPart(s) = x /\ LeastAt(program, varLayer, s, k)
  BY <1>3, <1>4, MeaningOfTask, MeaningInLayers
<1>6. \A w \in Derived : varLayer[w] < k => (x \in bdds[w] <=> s[w] # Default[w])
  BY <1>4 DEF SoundBelow, Derivable
<1>7. \A w \in Primary : s[w] = x[w]
  BY <1>5 DEF PrimaryPart
<1>. HIDE DEF s
<1>8. \A w \in Derived : 1 - Default[w] \in {0, 1} /\ 1 - Default[w] # Default[w]
  BY <1>1
<1>9. t \in States
  BY <1>1, <1>5, <1>8, ProgramsAssumption DEF States
<1>10. /\ \A w \in Primary : t[w] = s[w]
       /\ \A w \in Derived : varLayer[w] # k => t[w] = s[w]
       /\ \A w \in Derived : varLayer[w] = k => (t[w] # Default[w] <=> x \in bdds[w])
  BY <1>8, ProgramsAssumption
<1>. HIDE DEF t
<1>11. SameBelow(varLayer, s, t, k)
  BY <1>1, <1>3, <1>10 DEF SameBelow
<1>12. ClosedAt(program, varLayer, t, k)
  <2>. SUFFICES ASSUME NEW i, NonTrivial(program, i), varLayer[program.rules[i].var] = k,
                       BodyHolds(program, t, i)
                PROVE  t[program.rules[i].var] = program.rules[i].val
    BY DEF ClosedAt
  <2>1. i \in AxiomsAt(k) /\ program.rules[i].var \in Derived
    BY AxiomsOfLayer
  <2>2. ASSUME NEW l \in program.rules[i].body PROVE x \in WithLiteral(bdds, l)
    <3>1. t[l[1]] = l[2]
      BY DEF BodyHolds
    <3>2. CASE l[1] \in Primary
      BY <1>4, <1>7, <1>10, <3>1, <3>2 DEF WithLiteral
    <3>3. CASE l[1] \in Derived /\ l[1] \notin Primary
      <4>1. /\ varLayer[l[1]] \in Nat /\ varLayer[l[1]] <= k
            /\ l[2] \in {0, 1} /\ Default[l[1]] \in {0, 1}
        BY <2>1, <3>3, LiteralsOfLayer
      <4>2. x \in bdds[l[1]] <=> t[l[1]] # Default[l[1]]
        BY <1>3, <1>6, <1>10, <3>3, <4>1
      <4>. QED
        BY <1>4, <3>1, <3>3, <4>2 DEF WithLiteral
    <3>. QED
      BY <2>1, <3>2, <3>3, LiteralsOfLayer
  <2>3. x \in BodyBdd(bdds, i)
    BY <1>4, <2>1, <2>2, AxiomsOfLayer DEF BodyBdd
  <2>4. x \in bdds[program.rules[i].var]
    BY <2>1, <2>3
  <2>. QED
    BY <1>9, <1>10, <2>1, <2>4, NonDefault
<1>13. t[v] # Default[v]
  BY <1>2, <1>4, <1>5, <1>9, <1>11, <1>12 DEF LeastAt, s
<1>. QED
  BY <1>2, <1>10, <1>13

\* An axiom has been followed, or a queued variable of its body will make it be visited; the
\* one in front only if the axiom is in left.
Covered(bdds, queue, left, j) ==
    \/ BodyBdd(bdds, j) \subseteq bdds[program.rules[j].var]
    \/ \E n \in 1 .. Len(queue) : Layered!InBody(queue[n], j) /\ (n = 1 => j \in left)

\* The layers of the variables, once they have been computed.
LayersInv ==
    /\ program \in Programs
    /\ pc # "variables" =>
          /\ SoundLayers(program, varLayer)
          /\ \A v \in Derived : varLayer[v] < Cardinality(Derived)

StratifyPhases == {"variables", "heads", "graph", "components", "init"}
WorkPhases == {"build", "propagate"}
SearchPhases == {"start", "apply", "idle"}

\* The worklist.
WorkInv ==
    /\ layer \in Nat
    /\ SoundBelow(varBdd, layer - 1)
    /\ \A v \in Derived : varLayer[v] >= layer => varBdd[v] = {}
    /\ open \in Seq({v \in Derived : varLayer[v] = layer - 1})
    /\ \A j \in AxiomsAt(layer - 1) :
          Covered(varBdd, open, IF pc = "propagate" THEN pending ELSE AxiomsAt(layer - 1), j)
    /\ pc = "propagate" =>
          /\ open # <<>>
          /\ pending \subseteq {i \in AxiomsAt(layer - 1) : Layered!InBody(Head(open), i)}

ConditionsInv ==
    /\ LayersInv
    /\ pc \in WorkPhases => Symbolic
    /\ Symbolic => pc \in StratifyPhases \cup WorkPhases \cup SearchPhases
    /\ pc \in StratifyPhases => varBdd = [v \in Derived |-> {}] /\ open = <<>> /\ layer = 0
    /\ pc \in WorkPhases => WorkInv
    /\ Symbolic /\ pc \in SearchPhases => \A v \in Derived : varBdd[v] = Derivable(v)

\* While program and layers stay the same, so does what depends on them only.
LEMMA SameAxioms ==
    ASSUME program' = program, varLayer' = varLayer
    PROVE  /\ \A k : AxiomsAt(k)' = AxiomsAt(k)
           /\ \A v : Derivable(v)' = Derivable(v)
           /\ \A b, i : BodyBdd(b, i)' = BodyBdd(b, i)
           /\ \A b, k : SoundBelow(b, k)' <=> SoundBelow(b, k)
           /\ \A v, i : Layered!InBody(v, i)' <=> Layered!InBody(v, i)
           /\ \A b, q, s, j : Covered(b, q, s, j)' <=> Covered(b, q, s, j)
<1>1. \A k : AxiomsAt(k)' = AxiomsAt(k)
  BY DEF AxiomsAt, RuleIds, Layered!RuleIds, Layered!Trivial, Rule
<1>2. \A v : Derivable(v)' = Derivable(v)
  BY DEF Derivable
<1>3. \A b, i : BodyBdd(b, i)' = BodyBdd(b, i)
  BY DEF BodyBdd, WithLiteral, Rule
<1>4. \A b, k : SoundBelow(b, k)' <=> SoundBelow(b, k)
  BY <1>2 DEF SoundBelow
<1>5. \A v, i : Layered!InBody(v, i)' <=> Layered!InBody(v, i)
  BY DEF Layered!InBody
<1>6. \A b, q, s, j : Covered(b, q, s, j)' <=> Covered(b, q, s, j)
  BY <1>3, <1>5 DEF Covered
<1>. QED
  BY <1>1, <1>2, <1>3, <1>4, <1>5, <1>6

\* Initially.
LEMMA ConditionsInit ==
    Init => ConditionsInv
BY DEF Init, ConditionsInv, LayersInv, StratifyPhases, WorkPhases, SearchPhases

\* A sequence of SetToSeqs holds all elements of the set.
LEMMA QueueHoldsAll ==
    ASSUME NEW S, IsFiniteSet(S), NEW q \in SetToSeqs(S)
    PROVE  q \in Seq(S) /\ \A s \in S : \E n \in 1 .. Len(q) : q[n] = s
<1>. DEFINE m == Cardinality(S)
<1>1. m \in Nat
  BY FS_CardinalityType
<1>2. q \in [1 .. m -> S] /\ \A i, j \in 1 .. m : i # j => q[i] # q[j]
  BY DEF SetToSeqs
<1>3. Cardinality(1 .. m) = m
  BY <1>1, FS_Interval
<1>. HIDE DEF m
<1>4. q \in Seq(S) /\ Len(q) = m
  BY <1>1, <1>2
<1>5. q \in Injection(1 .. m, S)
  BY <1>2 DEF Injection, IsInjective
<1>6. q \in Surjection(1 .. m, S)
  BY <1>3, <1>5, FS_Injection DEF m
<1>. QED
  BY <1>4, <1>6 DEF Surjection

\* There are more layers than any variable has below it.
LEMMA LayersCounted ==
    ASSUME LayersInv, pc # "variables"
    PROVE  NumVarLayers \in Nat /\ \A v \in Derived : varLayer[v] < NumVarLayers
<1>. DEFINE M == {n \in 0 .. Cardinality(Derived) : \E v \in Derived : n <= varLayer[v]}
<1>1. /\ Cardinality(Derived) \in Nat
      /\ \A v \in Derived : varLayer[v] \in Nat /\ varLayer[v] < Cardinality(Derived)
  BY ProgramFacts DEF LayersInv, SoundLayers
<1>2. IsFiniteSet(M) /\ Cardinality(M) \in Nat
  <2>1. IsFiniteSet(0 .. Cardinality(Derived)) /\ M \in SUBSET (0 .. Cardinality(Derived))
    BY <1>1, FS_Interval
  <2>. QED
    BY <2>1, FS_Subset, FS_CardinalityType
<1>3. ASSUME NEW v \in Derived PROVE varLayer[v] < Cardinality(M)
  <2>1. 0 .. varLayer[v] \in SUBSET M
    BY <1>1
  <2>2. Cardinality(0 .. varLayer[v]) = varLayer[v] + 1
    BY <1>1, FS_Interval
  <2>3. Cardinality(0 .. varLayer[v]) <= Cardinality(M)
    BY <1>2, <2>1, FS_Subset
  <2>. HIDE DEF M
  <2>. QED
    BY <1>1, <1>2, <2>2, <2>3
<1>. QED
  BY <1>2, <1>3 DEF NumVarLayers

\* When the worklist is empty, the layer is exact.
LEMMA WorkExact ==
    ASSUME LayersInv, pc = "build", WorkInv, open = <<>>
    PROVE  SoundBelow(varBdd, layer)
<1>1. layer \in Nat /\ SoundBelow(varBdd, layer - 1)
  BY DEF WorkInv
<1>2. \A j \in AxiomsAt(layer - 1) : BodyBdd(varBdd, j) \subseteq varBdd[program.rules[j].var]
  BY DEF WorkInv, Covered
<1>3. program \in Programs /\ SoundLayers(program, varLayer)
  BY DEF LayersInv
<1>4. SoundBelow(varBdd, (layer - 1) + 1)
  BY <1>1, <1>2, <1>3, LayerExact
<1>. QED
  BY <1>1, <1>4

\* The steps of the stratifier.
LEMMA LayersStep ==
    LayersInv /\ [Next]_vars => LayersInv'
<1>. SUFFICES ASSUME LayersInv, [Next]_vars PROVE LayersInv'
  OBVIOUS
<1>. USE DEF LayersInv
<1>1. CASE StratifyVariables
  <2>1. CASE stratifier = "scc"
    BY <1>1, <2>1, ExtractedLayers DEF StratifyVariables, choice
  <2>2. CASE stratifier # "scc"
    BY <1>1, <2>2, ProgramFacts DEF StratifyVariables, choice
  <2>. QED
    BY <2>1, <2>2
<1>2. CASE ~ StratifyVariables
  <2>1. program' = program /\ varLayer' = varLayer /\ (pc' # "variables" => pc # "variables")
    BY <1>2 DEF Next, Stratify, Prepare, Apply, AxiomsByHead, BuildComponents, LayerOfComponent,
           LayerOfSingles, AssignLayer, ComponentsDone, InitAxioms, BuildLayer, PopVariable, VisitAxiom,
           VariableDone, BuildDone, Start, ApplyVarBdds, ApplyFixpoint, EnterLayer, NextRound,
           FireGroup, RoundDone, LeaveLayer, Return, ComputeImage, vars, choice, stratification, Goto
  <2>. QED
    BY <2>1
<1>. QED
  BY <1>1, <1>2

\* A layer is begun.
LEMMA BuildLayerStep ==
    ASSUME LayersInv, pc = "build", WorkInv, BuildLayer
    PROVE  WorkInv'
<1>. DEFINE k == layer
            V == {v \in Derived : varLayer[v] = k}
            New(v) == {j \in AxiomsAt(k) : Rule(j).var = v /\ BodyBelow(j, k)}
<1>1. /\ program' = program /\ varLayer' = varLayer /\ pc' = "build" /\ layer' = k + 1 /\ open = <<>>
      /\ varBdd' = [v \in Derived |-> varBdd[v] \cup UNION {BodyBdd(varBdd, i) : i \in New(v)}]
      /\ open' \in SetToSeqs(V)
  BY DEF BuildLayer, choice, stratification, search
<1>2. SoundBelow(varBdd, k) /\ k \in Nat
  BY <1>1, WorkExact DEF WorkInv
<1>3. program \in Programs /\ SoundLayers(program, varLayer) /\ \A v \in Derived : varLayer[v] \in Nat
  BY DEF LayersInv, SoundLayers
<1>4. \A i : Rule(i) = program.rules[i]
  BY DEF Rule
<1>5. \A v \in Derived : \A i \in New(v) :
         BodyBdd(varBdd, i) \subseteq Derivable(v) /\ varLayer[v] = k
  BY <1>2, <1>3, <1>4, AxiomsOfLayer, BodyDerives
<1>6. \A v \in Derived : \A i \in New(v) : BodyBdd(varBdd, i) \subseteq varBdd'[v]
  BY <1>1
<1>7. ASSUME NEW v \in Derived
      PROVE  /\ varBdd[v] \subseteq varBdd'[v] /\ varBdd'[v] \subseteq Derivable(v)
             /\ varLayer[v] # k => varBdd'[v] = varBdd[v]
  <2>1. varBdd'[v] = varBdd[v] \cup UNION {BodyBdd(varBdd, i) : i \in New(v)}
    BY <1>1
  <2>. HIDE DEF New
  <2>. QED
    BY <1>2, <1>5, <2>1 DEF SoundBelow
<1>8. varBdd' \in Conditions
  <2>1. \A v \in Derived : varBdd'[v] \in SUBSET PrimaryStates
    BY <1>7 DEF Derivable
  <2>. HIDE DEF New
  <2>. QED
    BY <1>1, <2>1 DEF Conditions
<1>9. SoundBelow(varBdd', k)
  BY <1>2, <1>3, <1>7, <1>8 DEF SoundBelow
<1>10. \A v \in Derived : varLayer[v] >= k + 1 => varBdd'[v] = {}
  <2>1. \A v \in Derived : varLayer[v] >= k => varBdd[v] = {}
    BY DEF WorkInv
  <2>. QED
    BY <1>2, <1>3, <1>7, <2>1
<1>11. open' \in Seq(V) /\ \A v \in V : \E n \in 1 .. Len(open') : open'[n] = v
  <2>1. IsFiniteSet(V)
    BY ProgramsAssumption, FS_Subset
  <2>. HIDE DEF V
  <2>. QED
    BY <1>1, <2>1, QueueHoldsAll
<1>12. ASSUME NEW j \in AxiomsAt(k) PROVE Covered(varBdd', open', AxiomsAt(k), j)
  <2>1. j \in RuleIds /\ program.rules[j].var \in Derived
    BY <1>3, AxiomsOfLayer
  <2>2. CASE BodyBelow(j, k)
    <3>1. j \in New(program.rules[j].var)
      BY <1>4, <2>2
    <3>2. BodyBdd(varBdd, j) \subseteq varBdd'[program.rules[j].var]
      BY <1>6, <2>1, <3>1
    <3>3. ASSUME NEW l \in program.rules[j].body
          PROVE  WithLiteral(varBdd', l) = WithLiteral(varBdd, l)
      <4>1. l[1] \in Derived => varLayer[l[1]] # k
        BY <1>2, <1>3, <1>4, <2>2 DEF BodyBelow
      <4>2. l[1] \in Primary \/ l[1] \in Derived
        BY <1>2, <1>3, LiteralsOfLayer
      <4>. QED
        BY <1>7, <4>1, <4>2 DEF WithLiteral
    <3>4. BodyBdd(varBdd', j) = BodyBdd(varBdd, j)
      BY <1>4, <3>3 DEF BodyBdd
    <3>. QED
      BY <3>2, <3>4 DEF Covered
  <2>3. CASE ~ BodyBelow(j, k)
    <3>1. PICK l \in program.rules[j].body : l[1] \in Derived /\ ~ (varLayer[l[1]] < k)
      BY <1>4, <2>3 DEF BodyBelow
    <3>2. varLayer[l[1]] <= k
      BY <1>2, <1>3, <3>1, LiteralsOfLayer
    <3>3. l[1] \in V
      BY <1>2, <1>3, <3>1, <3>2
    <3>4. PICK n \in 1 .. Len(open') : open'[n] = l[1]
      BY <1>11, <3>3
    <3>5. Layered!InBody(open'[n], j)
      BY <1>3, <3>4, AxiomsOfLayer
    <3>. QED
      BY <3>5 DEF Covered
  <2>. QED
    BY <2>2, <2>3
<1>13. layer' - 1 = k /\ layer' \in Nat
  BY <1>1, <1>2
<1>. HIDE DEF k, New
<1>14. SoundBelow(varBdd, layer - 1)'
  BY <1>1, <1>9, <1>13, SameAxioms
<1>15. (\A v \in Derived : varLayer[v] >= layer => varBdd[v] = {})'
  BY <1>1, <1>10
<1>16. (open \in Seq({v \in Derived : varLayer[v] = layer - 1}))'
  BY <1>1, <1>11, <1>13
<1>17. (\A j \in AxiomsAt(layer - 1) : Covered(varBdd, open, AxiomsAt(layer - 1), j))'
  BY <1>1, <1>12, <1>13, SameAxioms
<1>. QED
  BY <1>1, <1>13, <1>14, <1>15, <1>16, <1>17 DEF WorkInv

\* A variable is popped.
LEMMA PopVariableStep ==
    ASSUME LayersInv, pc = "build", WorkInv, PopVariable
    PROVE  WorkInv'
<1>1. /\ program' = program /\ varLayer' = varLayer /\ pc' = "propagate" /\ layer' = layer
      /\ varBdd' = varBdd /\ open' = open /\ open # <<>>
      /\ pending' = {i \in AxiomsAt(layer - 1) : Layered!InBody(Head(open), i)}
  BY DEF PopVariable, choice, stratification, search, Goto
<1>2. /\ layer \in Nat /\ SoundBelow(varBdd, layer - 1)
      /\ \A v \in Derived : varLayer[v] >= layer => varBdd[v] = {}
      /\ open \in Seq({v \in Derived : varLayer[v] = layer - 1})
  BY DEF WorkInv
<1>3. \A j \in AxiomsAt(layer - 1) : Covered(varBdd, open, pending', j)
  <2>1. ASSUME NEW j \in AxiomsAt(layer - 1) PROVE Covered(varBdd, open, pending', j)
    <3>1. Covered(varBdd, open, AxiomsAt(layer - 1), j)
      BY DEF WorkInv
    <3>2. Head(open) = open[1]
      BY <1>1, <1>2
    <3>. QED
      BY <1>1, <3>1, <3>2 DEF Covered
  <2>. QED
    BY <2>1
<1>4. SoundBelow(varBdd, layer - 1)'
  BY <1>1, <1>2, SameAxioms
<1>5. (\A v \in Derived : varLayer[v] >= layer => varBdd[v] = {})'
  BY <1>1, <1>2
<1>6. (open \in Seq({v \in Derived : varLayer[v] = layer - 1}))'
  BY <1>1, <1>2
<1>7. (\A j \in AxiomsAt(layer - 1) : Covered(varBdd, open, pending, j))'
  BY <1>1, <1>3, SameAxioms
<1>8. (pending \subseteq {i \in AxiomsAt(layer - 1) : Layered!InBody(Head(open), i)})'
  BY <1>1, SameAxioms
<1>. QED
  BY <1>1, <1>2, <1>4, <1>5, <1>6, <1>7, <1>8 DEF WorkInv

\* An axiom with the popped variable in the body is visited.
LEMMA VisitAxiomStep ==
    ASSUME LayersInv, pc = "propagate", WorkInv, VisitAxiom
    PROVE  WorkInv'
<1>. DEFINE k == layer - 1
            i == Min(pending)
            h == program.rules[i].var
            new == varBdd[h] \cup (BodyBdd(varBdd, i) \cap varBdd[Head(open)])
<1>1. /\ program' = program /\ varLayer' = varLayer /\ pc' = "propagate" /\ layer' = layer
      /\ varBdd' = [varBdd EXCEPT ![h] = new]
      /\ open' = IF new # varBdd[h] THEN Append(open, h) ELSE open
      /\ pending' = pending \ {i} /\ pending # {}
  BY DEF VisitAxiom, Queue, Rule, choice, stratification, search
<1>2. /\ layer \in Nat /\ SoundBelow(varBdd, k)
      /\ \A v \in Derived : varLayer[v] >= layer => varBdd[v] = {}
      /\ open \in Seq({v \in Derived : varLayer[v] = k}) /\ open # <<>>
      /\ \A j \in AxiomsAt(k) : Covered(varBdd, open, pending, j)
      /\ pending \subseteq {j \in AxiomsAt(k) : Layered!InBody(Head(open), j)}
  BY DEF WorkInv
<1>3. program \in Programs /\ SoundLayers(program, varLayer) /\ \A v \in Derived : varLayer[v] \in Nat
  BY DEF LayersInv, SoundLayers
<1>4. i \in pending /\ i \in AxiomsAt(k) /\ Layered!InBody(Head(open), i)
  <2>1. pending \subseteq Nat
    BY <1>2, <1>3, AxiomsOfLayer
  <2>. QED
    BY <1>1, <1>2, <2>1, LeastNumber
<1>5. h \in Derived /\ varLayer[h] = k /\ k \in Nat
  BY <1>3, <1>4, AxiomsOfLayer
<1>6. Head(open) = open[1] /\ Len(open) \in Nat /\ 1 \in 1 .. Len(open)
  BY <1>2
<1>7. Head(open) \in Derived /\ varLayer[Head(open)] = k
  <2>1. open[1] \in {v \in Derived : varLayer[v] = k}
    BY <1>2, <1>6, ElementOf
  <2>. QED
    BY <1>6, <2>1
<1>. HIDE DEF i, h, k
<1>8. BodyBdd(varBdd, i) \subseteq Derivable(h)
  BY <1>2, <1>3, <1>4, <1>5, BodyDerives DEF h
\* The variable is needed with its other value, so that the body implies its condition.
<1>9. BodyBdd(varBdd, i) \subseteq varBdd[Head(open)]
  <2>1. PICK l \in program.rules[i].body : l[1] = Head(open)
    BY <1>3, <1>4, AxiomsOfLayer
  <2>2. l[1] \notin Primary /\ l[2] # Default[l[1]]
    BY <1>3, <1>4, <1>5, <1>7, <2>1, LiteralsOfLayer, ProgramsAssumption
  <2>3. WithLiteral(varBdd, l) = varBdd[Head(open)]
    BY <2>1, <2>2 DEF WithLiteral
  <2>4. Rule(i) = program.rules[i]
    BY DEF Rule
  <2>. QED
    BY <2>1, <2>3, <2>4 DEF BodyBdd
<1>10. new = varBdd[h] \cup BodyBdd(varBdd, i)
  BY <1>9
<1>11. varBdd \in Conditions /\ \A v \in Derived : varBdd[v] \subseteq Derivable(v)
  BY <1>2 DEF SoundBelow
<1>12. new \subseteq Derivable(h)
  BY <1>5, <1>8, <1>10, <1>11
<1>. HIDE DEF new
<1>13. /\ varBdd'[h] = new
       /\ \A v \in Derived : v # h => varBdd'[v] = varBdd[v]
       /\ varBdd' \in Conditions
  BY <1>1, <1>5, <1>11, <1>12 DEF Conditions, Derivable
<1>14. SoundBelow(varBdd', k)
  BY <1>2, <1>5, <1>11, <1>12, <1>13 DEF SoundBelow
<1>15. \A v \in Derived : varLayer[v] >= layer => varBdd'[v] = {}
  BY <1>2, <1>3, <1>5, <1>13 DEF k
<1>16. open' \in Seq({v \in Derived : varLayer[v] = k})
  BY <1>1, <1>2, <1>5
<1>17. open' # <<>> /\ Head(open') = Head(open)
  BY <1>1, <1>2
<1>18. ASSUME NEW j \in AxiomsAt(k), ~ Layered!InBody(h, j)
       PROVE  BodyBdd(varBdd', j) = BodyBdd(varBdd, j)
  <2>1. Rule(j) = program.rules[j]
    BY DEF Rule
  <2>2. ASSUME NEW l \in program.rules[j].body
        PROVE  WithLiteral(varBdd', l) = WithLiteral(varBdd, l)
    <3>1. l[1] # h /\ (l[1] \in Primary \/ l[1] \in Derived)
      BY <1>3, <1>5, <1>18, AxiomsOfLayer, LiteralsOfLayer
    <3>. QED
      BY <1>13, <3>1 DEF WithLiteral
  <2>. QED
    BY <2>1, <2>2 DEF BodyBdd
<1>19. ASSUME NEW j \in AxiomsAt(k) PROVE Covered(varBdd', open', pending', j)
  <2>1. program.rules[j].var \in Derived
    BY <1>3, AxiomsOfLayer
  <2>2. varBdd[program.rules[j].var] \subseteq varBdd'[program.rules[j].var]
    BY <1>10, <1>13, <2>1
  <2>3. j = i => BodyBdd(varBdd, j) \subseteq varBdd'[program.rules[j].var]
    BY <1>10, <1>13 DEF h
  <2>4. CASE new # varBdd[h] /\ Layered!InBody(h, j)
    <3>1. open' = Append(open, h)
      BY <1>1, <2>4
    <3>2. /\ Len(open') = Len(open) + 1 /\ open'[Len(open) + 1] = h
          /\ Len(open) + 1 \in 1 .. Len(open') /\ Len(open) + 1 # 1
      BY <1>2, <1>6, <3>1
    <3>. QED
      BY <2>4, <3>2 DEF Covered
  <2>5. CASE ~ (new # varBdd[h] /\ Layered!InBody(h, j))
    <3>1. BodyBdd(varBdd', j) = BodyBdd(varBdd, j)
      <4>1. CASE new = varBdd[h]
        <5>1. varBdd' = varBdd
          BY <1>1, <1>5, <1>11, <4>1 DEF Conditions
        <5>. QED
          BY <5>1
      <4>2. CASE ~ Layered!InBody(h, j)
        BY <1>18, <4>2
      <4>. QED
        BY <2>5, <4>1, <4>2
    <3>2. CASE BodyBdd(varBdd, j) \subseteq varBdd[program.rules[j].var] \/ j = i
      BY <2>2, <2>3, <3>1, <3>2 DEF Covered
    <3>3. CASE ~ (BodyBdd(varBdd, j) \subseteq varBdd[program.rules[j].var]) /\ j # i
      <4>1. PICK n \in 1 .. Len(open) : Layered!InBody(open[n], j) /\ (n = 1 => j \in pending)
        BY <1>2, <3>3 DEF Covered
      <4>2. n \in 1 .. Len(open') /\ open'[n] = open[n]
        BY <1>1, <1>2
      <4>3. n = 1 => j \in pending'
        BY <1>1, <3>3, <4>1
      <4>. QED
        BY <4>1, <4>2, <4>3 DEF Covered
    <3>. QED
      BY <3>2, <3>3
  <2>. QED
    BY <2>4, <2>5
<1>20. pending' \subseteq {j \in AxiomsAt(k) : Layered!InBody(Head(open'), j)}
  BY <1>1, <1>2, <1>17
<1>21. layer' - 1 = k
  BY <1>1 DEF k
<1>22. SoundBelow(varBdd, layer - 1)'
  BY <1>1, <1>14, <1>21, SameAxioms
<1>23. (\A v \in Derived : varLayer[v] >= layer => varBdd[v] = {})'
  BY <1>1, <1>15
<1>24. (open \in Seq({v \in Derived : varLayer[v] = layer - 1}))'
  BY <1>1, <1>16, <1>21
<1>25. (\A j \in AxiomsAt(layer - 1) : Covered(varBdd, open, pending, j))'
  BY <1>1, <1>19, <1>21, SameAxioms
<1>26. (pending \subseteq {j \in AxiomsAt(layer - 1) : Layered!InBody(Head(open), j)})'
  BY <1>1, <1>20, <1>21, SameAxioms
<1>. QED
  BY <1>1, <1>2, <1>17, <1>22, <1>23, <1>24, <1>25, <1>26 DEF WorkInv

\* All axioms with the popped variable have been visited.
LEMMA VariableDoneStep ==
    ASSUME LayersInv, pc = "propagate", WorkInv, VariableDone
    PROVE  WorkInv'
<1>. DEFINE k == layer - 1
<1>1. /\ program' = program /\ varLayer' = varLayer /\ pc' = "build" /\ layer' = layer
      /\ varBdd' = varBdd /\ open' = Tail(open) /\ pending = {}
  BY DEF VariableDone, choice, stratification, evaluation, search, Goto
<1>2. /\ layer \in Nat /\ SoundBelow(varBdd, k)
      /\ \A v \in Derived : varLayer[v] >= layer => varBdd[v] = {}
      /\ open \in Seq({v \in Derived : varLayer[v] = k}) /\ open # <<>>
      /\ \A j \in AxiomsAt(k) : Covered(varBdd, open, pending, j)
  BY DEF WorkInv
<1>. HIDE DEF k
<1>3. open' \in Seq({v \in Derived : varLayer[v] = k})
  BY <1>1, <1>2
<1>4. ASSUME NEW j \in AxiomsAt(k) PROVE Covered(varBdd, open', AxiomsAt(k), j)
  <2>1. CASE BodyBdd(varBdd, j) \subseteq varBdd[program.rules[j].var]
    BY <2>1 DEF Covered
  <2>2. CASE ~ (BodyBdd(varBdd, j) \subseteq varBdd[program.rules[j].var])
    <3>1. PICK n \in 1 .. Len(open) : Layered!InBody(open[n], j) /\ (n = 1 => j \in pending)
      BY <1>2, <2>2 DEF Covered
    <3>2. n - 1 \in 1 .. Len(open') /\ open'[n - 1] = open[n]
      BY <1>1, <1>2, <3>1
    <3>. QED
      BY <3>1, <3>2 DEF Covered
  <2>. QED
    BY <2>1, <2>2
<1>5. layer' - 1 = k
  BY <1>1 DEF k
<1>6. SoundBelow(varBdd, layer - 1)'
  BY <1>1, <1>2, <1>5, SameAxioms
<1>7. (\A v \in Derived : varLayer[v] >= layer => varBdd[v] = {})'
  BY <1>1, <1>2
<1>8. (open \in Seq({v \in Derived : varLayer[v] = layer - 1}))'
  BY <1>1, <1>3, <1>5
<1>9. (\A j \in AxiomsAt(layer - 1) : Covered(varBdd, open, AxiomsAt(layer - 1), j))'
  BY <1>1, <1>4, <1>5, SameAxioms
<1>. QED
  BY <1>1, <1>2, <1>6, <1>7, <1>8, <1>9 DEF WorkInv

\* The evaluators on transitions never build conditions, the others only apply them.
LEMMA ConditionsStep ==
    ConditionsInv /\ [Next]_vars => ConditionsInv'
<1>. SUFFICES ASSUME ConditionsInv, [Next]_vars PROVE ConditionsInv'
  OBVIOUS
<1>1. LayersInv /\ LayersInv'
  BY LayersStep DEF ConditionsInv
<1>2. program \in Programs /\ \A v \in Derived : varBdd = [w \in Derived |-> {}] => varBdd[v] = {}
  BY <1>1 DEF LayersInv
<1>. USE DEF StratifyPhases, WorkPhases, SearchPhases, Symbolic, Goto
<1>3. CASE UNCHANGED vars
  <2>1. /\ program' = program /\ varLayer' = varLayer /\ pc' = pc /\ evaluator' = evaluator
        /\ varBdd' = varBdd /\ open' = open /\ layer' = layer /\ pending' = pending
    BY <1>3 DEF vars, choice, stratification, evaluation
  <2>2. pc \in WorkPhases => WorkInv'
    <3>. SUFFICES ASSUME pc \in WorkPhases PROVE WorkInv'
      OBVIOUS
    <3>1. WorkInv
      BY DEF ConditionsInv
    <3>. QED
      BY <2>1, <3>1, SameAxioms DEF WorkInv
  <2>. QED
    BY <1>1, <2>1, <2>2, SameAxioms DEF ConditionsInv
<1>4. CASE Stratify
  <2>1. /\ pc \in StratifyPhases /\ pc' \in StratifyPhases
        /\ varBdd' = varBdd /\ open' = open /\ layer' = layer
    BY <1>4 DEF Stratify, StratifyVariables, AxiomsByHead, BuildComponents, LayerOfComponent,
                LayerOfSingles, AssignLayer, ComponentsDone, evaluation
  <2>. QED
    BY <1>1, <2>1 DEF ConditionsInv
<1>5. CASE InitAxioms
  <2>1. /\ pc = "init" /\ evaluator' = evaluator /\ program' = program /\ varLayer' = varLayer
        /\ pc' = IF Symbolic THEN "build" ELSE "start"
        /\ varBdd' = [v \in Derived |-> {}] /\ open' = <<>> /\ layer' = 0
    BY <1>5 DEF InitAxioms, choice, stratification, evaluation, ConditionsInv
  <2>2. SoundLayers(program, varLayer) /\ \A v \in Derived : varLayer[v] \in Nat
    BY <1>1, <2>1 DEF LayersInv, SoundLayers
  <2>3. SoundBelow(varBdd', -1)
    BY <2>1, <2>2 DEF SoundBelow, Conditions
  <2>4. AxiomsAt(-1) = {}
    BY <1>2, <2>2, AxiomsOfLayer
  <2>5. layer' - 1 = -1
    BY <2>1
  <2>6. SoundBelow(varBdd, layer - 1)' /\ AxiomsAt(layer - 1)' = {}
    BY <2>1, <2>3, <2>4, <2>5, SameAxioms
  <2>7. CASE Symbolic
    <3>1. WorkInv'
      BY <1>1, <2>1, <2>2, <2>6, <2>7 DEF WorkInv
    <3>. QED
      BY <1>1, <2>1, <2>7, <3>1 DEF ConditionsInv
  <2>8. CASE ~ Symbolic
    BY <1>1, <2>1, <2>8 DEF ConditionsInv
  <2>. QED
    BY <2>7, <2>8
<1>6. CASE BuildLayer \/ PopVariable \/ VisitAxiom \/ VariableDone
  <2>1. pc \in WorkPhases /\ pc' \in WorkPhases /\ evaluator' = evaluator
    BY <1>6 DEF BuildLayer, PopVariable, VisitAxiom, VariableDone, choice, search
  <2>2. WorkInv /\ Symbolic
    BY <2>1 DEF ConditionsInv
  <2>3. WorkInv'
    <3>1. CASE BuildLayer
      BY <1>1, <2>2, <3>1, BuildLayerStep DEF BuildLayer
    <3>2. CASE PopVariable
      BY <1>1, <2>2, <3>2, PopVariableStep DEF PopVariable
    <3>3. CASE VisitAxiom
      BY <1>1, <2>2, <3>3, VisitAxiomStep DEF VisitAxiom
    <3>4. CASE VariableDone
      BY <1>1, <2>2, <3>4, VariableDoneStep DEF VariableDone
    <3>. QED
      BY <1>6, <3>1, <3>2, <3>3, <3>4
  <2>. QED
    BY <1>1, <2>1, <2>2, <2>3 DEF ConditionsInv
<1>7. CASE BuildDone
  <2>1. /\ pc = "build" /\ open = <<>> /\ layer = NumVarLayers /\ pc' = "start"
        /\ evaluator' = evaluator /\ program' = program /\ varLayer' = varLayer /\ varBdd' = varBdd
    BY <1>7 DEF BuildDone, choice, stratification
  <2>2. SoundBelow(varBdd, layer)
    BY <1>1, <2>1, WorkExact DEF ConditionsInv
  <2>3. \A v \in Derived : varBdd[v] = Derivable(v)
    BY <1>1, <2>1, <2>2, LayersCounted DEF SoundBelow
  <2>4. (\A v \in Derived : varBdd[v] = Derivable(v))'
    BY <2>1, <2>3, SameAxioms
  <2>. QED
    BY <1>1, <2>1, <2>4 DEF ConditionsInv
<1>8. CASE Start \/ ComputeImage \/ ApplyVarBdds
  <2>1. /\ pc \in SearchPhases /\ pc' \in SearchPhases
        /\ evaluator' = evaluator /\ program' = program /\ varLayer' = varLayer /\ varBdd' = varBdd
    BY <1>8 DEF Start, ComputeImage, ApplyVarBdds, choice, stratification
  <2>2. Symbolic => (\A v \in Derived : varBdd[v] = Derivable(v))'
    BY <2>1, SameAxioms DEF ConditionsInv
  <2>. QED
    BY <1>1, <2>1, <2>2 DEF ConditionsInv
<1>9. CASE ApplyFixpoint \/ EnterLayer \/ NextRound \/ FireGroup \/ RoundDone \/ LeaveLayer \/ Return
  <2>1. /\ evaluator' = evaluator
        /\ pc \in {"layer", "loop", "round", "once"} \/ ~ Symbolic
        /\ pc' \in {"layer", "loop", "round", "once", "idle"}
    BY <1>9 DEF ApplyFixpoint, EnterLayer, NextRound, FireGroup, RoundDone, LeaveLayer, Return,
                choice, search
  <2>2. ~ Symbolic
    BY <2>1 DEF ConditionsInv
  <2>. QED
    BY <1>1, <2>1, <2>2 DEF ConditionsInv
<1>. QED
  BY <1>3, <1>4, <1>5, <1>6, <1>7, <1>8, <1>9 DEF Next, Prepare, Apply

\* For every set of stratified axioms, every evaluator and stratifier, what the worklist of
\* create_derived_var_bdds computes for a derived variable is the set of primary states in
\* which the axioms give it its other value, for all layers that have been built, and for all
\* variables once the search begins.
THEOREM ConditionsAreExact == Spec => []ConditionsExact
<1>1. ConditionsInv => ConditionsExact
  <2>. SUFFICES ASSUME ConditionsInv,
                       (pc = "build" /\ open = <<>>) \/ (Symbolic /\ pc = "idle"),
                       NEW v \in Derived, varLayer[v] < layer
                PROVE  varBdd[v] = Derivable(v)
    BY DEF ConditionsExact, Derivable
  <2>1. CASE pc = "build" /\ open = <<>>
    <3>1. SoundBelow(varBdd, layer)
      BY <2>1, WorkExact DEF ConditionsInv, WorkPhases
    <3>. QED
      BY <3>1 DEF SoundBelow
  <2>2. CASE Symbolic /\ pc = "idle"
    BY <2>2 DEF ConditionsInv, SearchPhases
  <2>. QED
    BY <2>1, <2>2
<1>. QED
  BY <1>1, ConditionsInit, ConditionsStep, PTL DEF Spec

-----------------------------------------------------------------------------
(* The stratifier "scc": layers of the axioms.                             *)

\* One step of the transitive closure of DependencyGraph.
StepOf(nodes, k, r) == r \cup {e \in nodes \X nodes : <<e[1], k>> \in r /\ <<k, e[2]>> \in r}

Transitive(nodes, r) == \A u, v, w \in nodes : <<u, v>> \in r /\ <<v, w>> \in r => <<u, w>> \in r

\* r holds the edges, lies in T, and is transitive where the node in the middle is in s.
ClosedUpto(nodes, edges, T, s, r) ==
    /\ r \in SUBSET (nodes \X nodes) /\ edges \subseteq r /\ r \subseteq T
    /\ \A u \in s : \A v, w \in nodes : <<v, u>> \in r /\ <<u, w>> \in r => <<v, w>> \in r

\* After a step the relation is transitive through one node more.
LEMMA StepClosed ==
    ASSUME NEW nodes, NEW edges, NEW T, Transitive(nodes, T), NEW s \in SUBSET nodes, NEW k \in s,
           NEW r, ClosedUpto(nodes, edges, T, s \ {k}, r)
    PROVE  ClosedUpto(nodes, edges, T, s, StepOf(nodes, k, r))
<1>. DEFINE q == StepOf(nodes, k, r)
<1>1. /\ q \in SUBSET (nodes \X nodes) /\ r \subseteq q
      /\ \A v, w \in nodes : <<v, w>> \in q <=> <<v, w>> \in r \/ (<<v, k>> \in r /\ <<k, w>> \in r)
  BY DEF StepOf, ClosedUpto
<1>2. /\ edges \subseteq r /\ r \subseteq T /\ k \in nodes
      /\ \A u \in s \ {k} : \A v, w \in nodes : <<v, u>> \in r /\ <<u, w>> \in r => <<v, w>> \in r
  BY DEF ClosedUpto
<1>3. q \subseteq T
  <2>1. \A v, w \in nodes : <<v, w>> \in q => <<v, w>> \in T
    BY <1>1, <1>2 DEF Transitive
  <2>. HIDE DEF q
  <2>. QED
    BY <1>1, <2>1
<1>. HIDE DEF q
<1>4. ASSUME NEW u \in s, NEW v \in nodes, NEW w \in nodes, <<v, u>> \in q, <<u, w>> \in q
      PROVE  <<v, w>> \in q
  <2>1. u \in nodes
    OBVIOUS
  <2>2. CASE u = k
    BY <1>1, <1>2, <1>4, <2>2
  <2>3. CASE u # k
    BY <1>1, <1>2, <1>4, <2>1, <2>3
  <2>. QED
    BY <2>2, <2>3
<1>. QED
  BY <1>1, <1>2, <1>3, <1>4 DEF ClosedUpto, q

\* The closure holds the edges, it is transitive, and every transitive relation with the edges
\* holds it.
LEMMA ClosureFacts ==
    ASSUME NEW nodes, IsFiniteSet(nodes), NEW edges \in SUBSET (nodes \X nodes),
           NEW T, edges \subseteq T, Transitive(nodes, T)
    PROVE  ClosedUpto(nodes, edges, T, nodes, Layered!Graph!Closure(nodes, edges))
<1>. DEFINE A == SUBSET (nodes \X nodes)
            step == [e \in nodes \X A |-> StepOf(nodes, e[1], e[2])]
            first == [s \in SUBSET nodes |-> CHOOSE x \in s : TRUE]
            Chosen(s) == CHOOSE x \in s : TRUE
            Value(f, s) == IF s = {} THEN edges
                           ELSE f[s \ {Chosen(s)}] \cup
                                {e \in nodes \X nodes : /\ <<e[1], Chosen(s)>> \in f[s \ {Chosen(s)}]
                                                        /\ <<Chosen(s), e[2]>> \in f[s \ {Chosen(s)}]}
            FirstValue(f, s) == IF s = {} THEN edges ELSE StepOf(nodes, first[s], f[s \ {first[s]}])
            IsFold(f) == f = [s \in SUBSET nodes |-> Value(f, s)]
            IsFirstFold(f) == f = [s \in SUBSET nodes |-> FirstValue(f, s)]
            iter == CHOOSE f : IsFold(f)
<1>1. Layered!Graph!Closure(nodes, edges) = iter[nodes]
  BY DEF Layered!Graph!Closure, Layered!Graph!FoldSet, Layered!Graph!MapThenFoldSet
<1>2. /\ step \in [nodes \X A -> A]
      /\ \A u \in nodes, a \in A : step[<<u, a>>] = StepOf(nodes, u, a)
  BY DEF StepOf
<1>3. edges \in A /\ Takes(first, nodes)
  BY DEF Takes
<1>4. \A f : IsFold(f) <=> IsFirstFold(f)
  <2>1. ASSUME NEW f, NEW s \in SUBSET nodes PROVE Value(f, s) = FirstValue(f, s)
    <3>1. first[s] = Chosen(s)
      OBVIOUS
    <3>. HIDE DEF first, Chosen
    <3>. QED
      BY <3>1 DEF StepOf
  <2>. HIDE DEF Value, FirstValue
  <2>. QED
    BY <2>1
<1>. HIDE DEF step, first, IsFold, A
<1>5. PICK f \in [SUBSET nodes -> A] : Folds(f, edges, step, first, nodes)
  BY <1>2, <1>3, FoldExists
<1>6. IsFirstFold(f)
  <2>1. ASSUME NEW s \in SUBSET nodes, s # {}
        PROVE  f[s] = StepOf(nodes, first[s], f[s \ {first[s]}])
    <3>1. first[s] \in nodes /\ s \ {first[s]} \in SUBSET nodes
      BY <1>3, <2>1 DEF Takes
    <3>2. f[s \ {first[s]}] \in A
      BY <3>1
    <3>. QED
      BY <1>2, <1>5, <2>1, <3>1, <3>2 DEF Folds
  <2>. QED
    BY <1>5, <2>1 DEF Folds
<1>7. IsFirstFold(iter)
  <2>1. IsFold(iter)
    BY <1>4, <1>6
  <2>. HIDE DEF iter, IsFirstFold
  <2>. QED
    BY <1>4, <2>1
<1>. HIDE DEF iter
<1>8. /\ iter[{}] = edges
      /\ \A s \in SUBSET nodes : s # {} => iter[s] = StepOf(nodes, first[s], iter[s \ {first[s]}])
  BY <1>7
<1>. DEFINE Good == {s \in SUBSET nodes : ClosedUpto(nodes, edges, T, s, iter[s])}
<1>9. {} \in Good
  BY <1>8 DEF ClosedUpto
<1>10. \A s \in SUBSET nodes : s # {} /\ s \ {first[s]} \in Good => s \in Good
  <2>1. ASSUME NEW s \in SUBSET nodes, s # {}, ClosedUpto(nodes, edges, T, s \ {first[s]}, iter[s \ {first[s]}])
        PROVE  ClosedUpto(nodes, edges, T, s, iter[s])
    <3>1. first[s] \in s
      BY <1>3, <2>1 DEF Takes
    <3>2. iter[s] = StepOf(nodes, first[s], iter[s \ {first[s]}])
      BY <1>8, <2>1
    <3>. QED
      BY <2>1, <3>1, <3>2, StepClosed
  <2>. QED
    BY <2>1
<1>11. Grows(Good, first, nodes)
  <2>. HIDE DEF Good
  <2>. QED
    BY <1>9, <1>10 DEF Grows
<1>12. nodes \in Good
  <2>. HIDE DEF Good
  <2>. QED
    BY <1>3, <1>11, FoldInduction
<1>. QED
  BY <1>1, <1>12

\* An axiom enables those that have its head in the body.
Enables(i, j) == Layered!InBody(program.rules[i].var, j)

\* The components partition the axioms, the axioms of a component are of the same layer of the
\* translator, and the graph is that of the edges between components.
Partition(comps) ==
    /\ comps \in SUBSET (SUBSET RuleIds)
    /\ \A c \in comps : c # {}
    /\ \A i \in RuleIds : \E c \in comps : i \in c
    /\ \A c, d \in comps : \A i : i \in c /\ i \in d => c = d
    /\ \A c \in comps : \A i, j \in c :
          program.layer[program.rules[i].var] = program.layer[program.rules[j].var]

IsGraph(graph) ==
    /\ graph \in [DOMAIN graph -> SUBSET DOMAIN graph]
    /\ \A c, d \in DOMAIN graph :
          d \in EnabledBy(graph, c) <=> c # d /\ \E i \in d, j \in c : Enables(i, j)

\* Whatever components are left, one of them depends on none of the others.
Acyclic(graph) ==
    \A S \in SUBSET DOMAIN graph : S # {} => \E c \in S : EnabledBy(graph, c) \cap S = {}

LEMMA ComponentFacts ==
    ASSUME program \in Programs
    PROVE  /\ Partition(DOMAIN Layered!ComponentGraph)
           /\ IsGraph(Layered!ComponentGraph)
           /\ Acyclic(Layered!ComponentGraph)
<1>. DEFINE nodes == RuleIds
            edges == Layered!AxiomEdges
            cl == Layered!Graph!Closure(nodes, edges)
            Of(v) == {v} \cup {w \in nodes : <<v, w>> \in cl /\ <<w, v>> \in cl}
            comps == {Of(v) : v \in nodes}
            G == Layered!ComponentGraph
            T == {e \in nodes \X nodes :
                    program.layer[program.rules[e[1]].var] <= program.layer[program.rules[e[2]].var]}
<1>1. /\ nodes = RuleIdsOf(program) /\ Layered!RuleIds = nodes /\ IsFiniteSet(nodes)
      /\ \A v \in nodes : program.rules[v].var \in Derived
                          /\ program.layer[program.rules[v].var] \in Nat
  <2>1. nodes = RuleIdsOf(program) /\ Layered!RuleIds = nodes
    BY AxiomsOfLayer DEF RuleIds
  <2>2. IsFiniteSet(nodes)
    BY <2>1, ProgramFacts, FS_Interval DEF RuleIdsOf
  <2>. QED
    BY <2>1, <2>2, ProgramFacts
<1>2. edges = {e \in nodes \X nodes : Enables(e[1], e[2])}
  BY <1>1 DEF Layered!AxiomEdges, Layered!HeadOf, Enables
<1>3. \A v, w \in nodes : Enables(v, w) =>
         program.layer[program.rules[v].var] <= program.layer[program.rules[w].var]
  <2>1. ASSUME NEW v \in nodes, NEW w \in nodes, Enables(v, w)
        PROVE  program.layer[program.rules[v].var] <= program.layer[program.rules[w].var]
    <3>1. PICK l \in program.rules[w].body : l[1] = program.rules[v].var
      BY <2>1, AxiomsOfLayer DEF Enables
    <3>2. w \in Task(program)!RuleIds
      BY <1>1 DEF Task!RuleIds, RuleIdsOf
    <3>. QED
      BY <1>1, <3>1, <3>2, ProgramsAssumption
  <2>. QED
    BY <2>1
<1>4. Transitive(nodes, T) /\ edges \subseteq T
  <2>1. edges \subseteq T
    BY <1>2, <1>3
  <2>2. Transitive(nodes, T)
    BY <1>1 DEF Transitive
  <2>. QED
    BY <2>1, <2>2
<1>5. ClosedUpto(nodes, edges, T, nodes, cl)
  <2>1. edges \in SUBSET (nodes \X nodes) /\ edges \subseteq T /\ Transitive(nodes, T)
    BY <1>2, <1>4
  <2>2. IsFiniteSet(nodes)
    BY <1>1
  <2>. HIDE DEF edges, T, nodes
  <2>. QED
    BY <2>1, <2>2, ClosureFacts
<1>6. comps = DOMAIN G /\ \A c \in comps : G[c] = {d \in comps : c # d /\ \E v \in c, w \in d : <<v, w>> \in edges}
  <2>1. Layered!Graph!Components(Layered!RuleIds, edges) = comps
    BY <1>1 DEF Layered!Graph!Components, Layered!Graph!ComponentOf
  <2>2. G = [c \in comps |-> {e[2] : e \in {x \in Layered!Graph!ComponentEdges(comps, edges) : x[1] = c}}]
    BY <2>1 DEF Layered!ComponentGraph
  <2>. HIDE DEF comps, G, edges
  <2>3. \A c \in comps : {e[2] : e \in {x \in Layered!Graph!ComponentEdges(comps, edges) : x[1] = c}}
                         = {d \in comps : c # d /\ \E v \in c, w \in d : <<v, w>> \in edges}
    <3>. DEFINE CE == Layered!Graph!ComponentEdges(comps, edges)
            Linked(a, b) == a # b /\ \E v \in a, w \in b : <<v, w>> \in edges
    <3>0. CE = {e \in comps \X comps : Linked(e[1], e[2])}
      BY DEF Layered!Graph!ComponentEdges
    <3>. HIDE DEF Linked
    <3>1. /\ \A a, b : <<a, b>> \in CE <=> a \in comps /\ b \in comps /\ Linked(a, b)
          /\ \A e \in CE : e = <<e[1], e[2]>>
      BY <3>0
    <3>. HIDE DEF CE
    <3>2. ASSUME NEW c \in comps, NEW d
          PROVE  d \in {e[2] : e \in {x \in CE : x[1] = c}} <=> <<c, d>> \in CE
      <4>1. ASSUME NEW e \in CE, e[1] = c, d = e[2] PROVE <<c, d>> \in CE
        BY <3>1, <4>1
      <4>2. ASSUME <<c, d>> \in CE PROVE \E e \in CE : e[1] = c /\ d = e[2]
        BY <4>2
      <4>. QED
        BY <4>1, <4>2
    <3>3. ASSUME NEW c \in comps
          PROVE  {e[2] : e \in {x \in CE : x[1] = c}} = {b \in comps : Linked(c, b)}
      <4>1. ASSUME NEW d
            PROVE  d \in {e[2] : e \in {x \in CE : x[1] = c}} <=> d \in {b \in comps : Linked(c, b)}
        <5>1. d \in {e[2] : e \in {x \in CE : x[1] = c}} <=> <<c, d>> \in CE
          BY <3>2
        <5>. QED
          BY <3>1, <5>1
      <4>. HIDE DEF CE
      <4>. QED
        BY <4>1
    <3>. QED
      BY <3>3 DEF CE, Linked
  <2>. QED
    BY <2>2, <2>3
<1>7. /\ cl \in SUBSET (nodes \X nodes) /\ edges \subseteq cl
      /\ \A u, v, w \in nodes : <<v, u>> \in cl /\ <<u, w>> \in cl => <<v, w>> \in cl
      /\ \A v, w \in nodes : <<v, w>> \in cl =>
            program.layer[program.rules[v].var] <= program.layer[program.rules[w].var]
  <2>. HIDE DEF cl, nodes, edges
  <2>. QED
    BY <1>5 DEF ClosedUpto
<1>8. \A v, w \in nodes : <<v, w>> \in edges <=> Enables(v, w)
  BY <1>2
<1>. HIDE DEF cl, nodes, edges, G, T
<1>9. \A v \in nodes : v \in Of(v) /\ Of(v) \in SUBSET nodes
  OBVIOUS
<1>10. ASSUME NEW v \in nodes, NEW w \in Of(v)
       PROVE  w \in nodes /\ (w = v \/ (<<v, w>> \in cl /\ <<w, v>> \in cl)) /\ Of(w) = Of(v)
  <2>1. w \in nodes /\ (w = v \/ (<<v, w>> \in cl /\ <<w, v>> \in cl))
    OBVIOUS
  <2>2. \A u : u \in Of(v) <=> u \in Of(w)
    BY <1>7, <2>1
  <2>. QED
    BY <2>1, <2>2
<1>11. Partition(comps)
  <2>1. \A c, d \in comps : \A i : i \in c /\ i \in d => c = d
    <3>1. ASSUME NEW c \in comps, NEW d \in comps, NEW i, i \in c, i \in d PROVE c = d
      <4>1. PICK v \in nodes, w \in nodes : c = Of(v) /\ d = Of(w)
        OBVIOUS
      <4>. HIDE DEF Of
      <4>. QED
        BY <1>10, <3>1, <4>1
    <3>. QED
      BY <3>1
  <2>2. ASSUME NEW c \in comps, NEW i \in c, NEW j \in c
        PROVE  program.layer[program.rules[i].var] = program.layer[program.rules[j].var]
    <3>1. PICK v \in nodes : c = Of(v)
      OBVIOUS
    <3>2. /\ i \in nodes /\ (i = v \/ (<<v, i>> \in cl /\ <<i, v>> \in cl))
          /\ j \in nodes /\ (j = v \/ (<<v, j>> \in cl /\ <<j, v>> \in cl))
      BY <1>10, <3>1
    <3>3. program.layer[program.rules[i].var] = program.layer[program.rules[v].var]
      BY <1>1, <1>7, <3>2
    <3>4. program.layer[program.rules[j].var] = program.layer[program.rules[v].var]
      BY <1>1, <1>7, <3>2
    <3>. QED
      BY <3>3, <3>4
  <2>3. \A c \in comps : c # {} /\ c \in SUBSET nodes
    <3>. HIDE DEF Of
    <3>. QED
      BY <1>9
  <2>4. \A i \in nodes : \E c \in comps : i \in c
    <3>. HIDE DEF Of
    <3>. QED
      BY <1>9
  <2>. HIDE DEF comps
  <2>. QED
    BY <2>1, <2>2, <2>3, <2>4 DEF Partition, nodes
<1>12. ASSUME NEW c \in comps, NEW d \in comps
       PROVE  d \in EnabledBy(G, c) <=> c # d /\ \E i \in d, j \in c : Enables(i, j)
  <2>1. c \in SUBSET nodes /\ d \in SUBSET nodes
    BY <1>11 DEF Partition, nodes
  <2>. HIDE DEF comps
  <2>2. d \in EnabledBy(G, c) <=> c \in G[d]
    BY <1>6 DEF EnabledBy
  <2>3. c \in G[d] <=> d # c /\ \E v \in d, w \in c : <<v, w>> \in edges
    BY <1>6
  <2>. QED
    BY <1>8, <2>1, <2>2, <2>3
<1>13. IsGraph(G)
  <2>. HIDE DEF comps
  <2>1. \A c \in comps : G[c] \in SUBSET comps
    BY <1>6
  <2>2. G \in [comps -> SUBSET comps]
    <3>1. \E X, Y : G = [x \in X |-> Y[x]]
      <4>1. G = [c \in Layered!Graph!Components(Layered!RuleIds, edges) |->
                   {e[2] : e \in {x \in Layered!Graph!ComponentEdges(
                                     Layered!Graph!Components(Layered!RuleIds, edges), edges) : x[1] = c}}]
        BY DEF G, edges, Layered!ComponentGraph
      <4>. QED
        BY <4>1
    <3>. QED
      BY <1>6, <2>1, <3>1
  <2>. QED
    BY <1>6, <1>12, <2>2 DEF IsGraph
<1>14. ASSUME NEW S \in SUBSET comps, S # {}
       PROVE  \E c \in S : EnabledBy(G, c) \cap S = {}
  <2>. DEFINE Before(v) == {u \in nodes : u = v \/ <<u, v>> \in cl}
              U == {v \in nodes : Of(v) \in S}
              Counts == {Cardinality(Before(v)) : v \in U}
  <2>1. \A v \in nodes : IsFiniteSet(Before(v)) /\ Cardinality(Before(v)) \in Nat
    <3>1. \A v \in nodes : Before(v) \in SUBSET nodes
      OBVIOUS
    <3>. HIDE DEF Before
    <3>. QED
      BY <1>1, <3>1, FS_Subset, FS_CardinalityType
  <2>2. PICK m \in Counts : \A n \in Counts : m <= n
    <3>1. U # {}
      <4>. HIDE DEF Of
      <4>. QED
        BY <1>14
    <3>2. Counts # {} /\ Counts \subseteq Nat
      <4>. HIDE DEF Before
      <4>. QED
        BY <2>1, <3>1
    <3>. HIDE DEF Counts
    <3>. QED
      BY <3>2, LeastNumber
  <2>3. PICK w \in U : m = Cardinality(Before(w))
    OBVIOUS
  <2>4. \A v \in U : Cardinality(Before(w)) <= Cardinality(Before(v))
    <3>1. \A v \in U : Cardinality(Before(v)) \in Counts
      OBVIOUS
    <3>. HIDE DEF Before, U, Counts
    <3>. QED
      BY <2>2, <2>3, <3>1
  <2>5. SUFFICES ASSUME NEW d \in EnabledBy(G, Of(w)), d \in S PROVE FALSE
    <3>1. Of(w) \in S
      OBVIOUS
    <3>. QED
      BY <3>1
  <2>6. PICK v \in d, x \in Of(w) : Enables(v, x)
    <3>1. Of(w) \in comps /\ d \in comps
      BY <2>5
    <3>. HIDE DEF Of, comps
    <3>. QED
      BY <1>12, <2>5, <3>1
  <2>7. d # Of(w)
    <3>1. Of(w) \in comps /\ d \in comps
      BY <2>5
    <3>. HIDE DEF Of, comps
    <3>. QED
      BY <1>12, <2>5, <3>1
  <2>8. v \in nodes /\ x \in nodes /\ d = Of(v) /\ Of(x) = Of(w) /\ w \in nodes
    <3>1. PICK u \in nodes : d = Of(u)
      BY <2>5
    <3>. HIDE DEF Of
    <3>. QED
      BY <1>10, <2>6, <3>1
  <2>9. v \in U
    BY <2>5, <2>8
  <2>10. <<v, x>> \in cl /\ ~ (<<x, v>> \in cl) /\ v # x
    <3>1. <<v, x>> \in cl
      BY <1>7, <1>8, <2>6, <2>8
    <3>2. x \notin Of(v)
      <4>. HIDE DEF Of
      <4>. QED
        BY <1>10, <2>7, <2>8
    <3>. QED
      BY <2>8, <3>1, <3>2
  <2>11. Before(v) \subseteq Before(w) \ {w}
    <3>1. x = w \/ (<<w, x>> \in cl /\ <<x, w>> \in cl)
      BY <1>10, <2>6, <2>8
    <3>2. <<v, w>> \in cl /\ ~ (<<w, v>> \in cl) /\ v # w
      BY <1>7, <2>8, <2>10, <3>1
    <3>. QED
      BY <1>7, <2>8, <3>2
  <2>12. Cardinality(Before(w) \ {w}) = Cardinality(Before(w)) - 1 /\ IsFiniteSet(Before(w) \ {w})
    <3>1. w \in Before(w)
      BY <2>8
    <3>. HIDE DEF Before
    <3>. QED
      BY <2>1, <2>8, <3>1, FS_RemoveElement
  <2>13. Cardinality(Before(v)) <= Cardinality(Before(w) \ {w})
    <3>. HIDE DEF Before
    <3>. QED
      BY <2>11, <2>12, FS_Subset
  <2>. HIDE DEF Before, U
  <2>. QED
    BY <2>1, <2>4, <2>8, <2>9, <2>12, <2>13
<1>15. Acyclic(G)
  <2>. HIDE DEF comps
  <2>. QED
    BY <1>6, <1>14 DEF Acyclic
<1>. QED
  <2>. HIDE DEF comps
  <2>. QED
    BY <1>6, <1>11, <1>13, <1>15 DEF G

\* The components that have a layer.
Assigned(graph, layers) == {c \in DOMAIN graph : \A i \in c : layers[i] # -1}

\* The axioms of a component share a layer; a component has one after all that it depends on,
\* and is ready when only its own is missing; a layer without fixpoint has singletons only.
ComponentsInv ==
    /\ Partition(DOMAIN sccGraph) /\ IsGraph(sccGraph) /\ Acyclic(sccGraph)
    /\ fixpoint \in Seq(BOOLEAN)
    /\ axiomLayer \in [RuleIds -> -1 .. Len(fixpoint) - 1]
    /\ \A c \in DOMAIN sccGraph : \A i, j \in c : axiomLayer[i] = axiomLayer[j]
    /\ DOMAIN preCount = DOMAIN sccGraph
    /\ \A c \in DOMAIN sccGraph :
          preCount[c] = Cardinality(EnabledBy(sccGraph, c) \ Assigned(sccGraph, axiomLayer))
    /\ ready = {c \in DOMAIN sccGraph \ Assigned(sccGraph, axiomLayer) :
                   EnabledBy(sccGraph, c) \subseteq Assigned(sccGraph, axiomLayer)}
    /\ \A c \in Assigned(sccGraph, axiomLayer) :
          /\ \A d \in EnabledBy(sccGraph, c) :
                /\ d \in Assigned(sccGraph, axiomLayer)
                /\ \A i \in d, j \in c : axiomLayer[i] < axiomLayer[j]
          /\ \A i \in c : ~ fixpoint[axiomLayer[i] + 1] => Layered!Single(c)

\* Every axiom has a layer, and they are in order.
AxiomsLayered ==
    /\ \A i \in RuleIds : axiomLayer[i] \in 0 .. Len(fixpoint) - 1
    /\ Layered!AxiomLayersSound(axiomLayer, fixpoint)

StratificationInv ==
    /\ LayersInv
    /\ pc = "heads" => varLayer = program.layer
    /\ pc \in {"variables", "graph"} => axiomLayer = [i \in RuleIds |-> -1] /\ fixpoint = <<>>
    /\ pc = "components" => ComponentsInv
    /\ pc \notin {"variables", "heads", "graph", "components"} => AxiomsLayered

\* The graph depends on the program only.
LEMMA SameGraph ==
    ASSUME program' = program
    PROVE  /\ RuleIds' = RuleIds
           /\ \A c : Partition(c)' <=> Partition(c)
           /\ \A g : IsGraph(g)' <=> IsGraph(g)
           /\ \A a, f : Layered!AxiomLayersSound(a, f)' <=> Layered!AxiomLayersSound(a, f)
<1>1. RuleIds' = RuleIds
  BY DEF RuleIds, Layered!RuleIds
<1>2. \A c : Partition(c)' <=> Partition(c)
  BY <1>1 DEF Partition
<1>3. \A i, j : Enables(i, j)' <=> Enables(i, j)
  BY DEF Enables, Layered!InBody
<1>4. \A g : IsGraph(g)' <=> IsGraph(g)
  BY <1>3 DEF IsGraph
<1>5. \A a, f : Layered!AxiomLayersSound(a, f)' <=> Layered!AxiomLayersSound(a, f)
  BY DEF Layered!AxiomLayersSound, Layered!RuleIds, Layered!Trivial, Layered!InBody, Layered!HeadOf,
         Layered!NegativelyContained
<1>. QED
  BY <1>1, <1>2, <1>4, <1>5

\* Components that are ready get the next layer.
LEMMA AssignLayerStep ==
    ASSUME program \in Programs, ComponentsInv, NEW X \in SUBSET ready, NEW isFixpoint \in BOOLEAN,
           ~ isFixpoint => \A c \in X : Layered!Single(c),
           AssignLayer(X, isFixpoint)
    PROVE  ComponentsInv'
<1>. DEFINE C == DOMAIN sccGraph
            D == Assigned(sccGraph, axiomLayer)
            E(c) == EnabledBy(sccGraph, c)
            N == Len(fixpoint)
<1>1. /\ program' = program /\ sccGraph' = sccGraph
      /\ axiomLayer' = [i \in RuleIds |-> IF i \in UNION X THEN N ELSE axiomLayer[i]]
      /\ fixpoint' = Append(fixpoint, isFixpoint)
      /\ preCount' = [c \in DOMAIN preCount |-> preCount[c] - Cardinality(E(c) \cap X)]
      /\ ready' = (ready \ X) \cup {c \in DOMAIN preCount : E(c) \cap X # {} /\ preCount'[c] = 0}
  BY DEF AssignLayer, choice
<1>2. /\ Partition(C) /\ IsGraph(sccGraph) /\ Acyclic(sccGraph)
      /\ fixpoint \in Seq(BOOLEAN)
      /\ axiomLayer \in [RuleIds -> -1 .. N - 1]
      /\ \A c \in C : \A i, j \in c : axiomLayer[i] = axiomLayer[j]
      /\ DOMAIN preCount = C
      /\ \A c \in C : preCount[c] = Cardinality(E(c) \ D)
      /\ ready = {c \in C \ D : E(c) \subseteq D}
  BY DEF ComponentsInv
<1>3. /\ \A c \in D : \A d \in E(c) : d \in D /\ \A i \in d, j \in c : axiomLayer[i] < axiomLayer[j]
      /\ \A c \in D : \A i \in c : ~ fixpoint[axiomLayer[i] + 1] => Layered!Single(c)
  BY DEF ComponentsInv
<1>4. N \in Nat /\ Len(fixpoint') = N + 1 /\ fixpoint' \in Seq(BOOLEAN)
      /\ fixpoint'[N + 1] = isFixpoint /\ \A n \in 1 .. N : fixpoint'[n] = fixpoint[n]
  BY <1>1, <1>2
<1>5. /\ \A c \in C : c \in SUBSET RuleIds /\ c # {}
      /\ \A c, d \in C : \A i : i \in c /\ i \in d => c = d
  BY <1>2 DEF Partition
<1>6. D = {c \in C : \A i \in c : axiomLayer[i] # -1}
  BY DEF Assigned
<1>7. \A c \in C : E(c) \in SUBSET C
  BY DEF EnabledBy
<1>8. X \subseteq C /\ X \cap D = {} /\ D \subseteq C /\ \A c \in X : E(c) \subseteq D
  BY <1>2, <1>6
<1>9. ASSUME NEW c \in C
      PROVE  /\ c \in X => \A i \in c : axiomLayer'[i] = N
             /\ c \notin X => \A i \in c : axiomLayer'[i] = axiomLayer[i]
  <2>1. \A i \in c : i \in RuleIds /\ (i \in UNION X <=> c \in X)
    BY <1>5, <1>8
  <2>. QED
    BY <1>1, <2>1
<1>10. Assigned(sccGraph, axiomLayer') = D \cup X
  <2>1. ASSUME NEW c \in C PROVE (\A i \in c : axiomLayer'[i] # -1) <=> c \in D \cup X
    <3>1. CASE c \in X
      BY <1>4, <1>9, <3>1
    <3>2. CASE c \notin X
      BY <1>6, <1>9, <3>2
    <3>. QED
      BY <3>1, <3>2
  <2>2. Assigned(sccGraph, axiomLayer') = {c \in C : \A i \in c : axiomLayer'[i] # -1}
    BY DEF Assigned
  <2>. HIDE DEF C, D
  <2>. QED
    BY <1>8, <2>1, <2>2
<1>. HIDE DEF C, D, E, N
<1>11. axiomLayer' \in [RuleIds -> -1 .. (N + 1) - 1]
  <2>1. \A i \in RuleIds : axiomLayer[i] \in -1 .. N - 1
    BY <1>2
  <2>2. \A i \in RuleIds : axiomLayer[i] \in -1 .. (N + 1) - 1 /\ N \in -1 .. (N + 1) - 1
    BY <1>4, <2>1
  <2>. QED
    BY <1>1, <2>2
<1>12. \A c \in C : \A i, j \in c : axiomLayer'[i] = axiomLayer'[j]
  BY <1>2, <1>9
<1>13. \A c \in C : preCount'[c] = Cardinality(E(c) \ (D \cup X))
  <2>1. IsFiniteSet(C)
    <3>1. IsFiniteSet(RuleIds)
      BY AxiomsOfLayer, ProgramFacts, FS_Interval DEF RuleIdsOf
    <3>2. IsFiniteSet(SUBSET RuleIds) /\ C \in SUBSET (SUBSET RuleIds)
      BY <1>5, <3>1, FS_SUBSET
    <3>. QED
      BY <3>2, FS_Subset
  <2>2. ASSUME NEW c \in C PROVE preCount'[c] = Cardinality(E(c) \ (D \cup X))
    <3>1. IsFiniteSet(E(c) \ D)
      <4>1. E(c) \ D \in SUBSET C
        BY <1>7
      <4>. QED
        BY <2>1, <4>1, FS_Subset
    <3>2. (E(c) \ D) \ X = E(c) \ (D \cup X) /\ (E(c) \ D) \cap X = E(c) \cap X
      BY <1>8
    <3>3. Cardinality((E(c) \ D) \ X) = Cardinality(E(c) \ D) - Cardinality((E(c) \ D) \cap X)
      BY <3>1, FS_Difference
    <3>4. preCount'[c] = Cardinality(E(c) \ D) - Cardinality(E(c) \cap X)
      BY <1>1, <1>2
    <3>. QED
      BY <3>2, <3>3, <3>4
  <2>. QED
    BY <2>2
<1>14. \A c \in C : preCount'[c] = 0 <=> E(c) \subseteq D \cup X
  <2>1. IsFiniteSet(C)
    <3>1. IsFiniteSet(RuleIds)
      BY AxiomsOfLayer, ProgramFacts, FS_Interval DEF RuleIdsOf
    <3>2. IsFiniteSet(SUBSET RuleIds) /\ C \in SUBSET (SUBSET RuleIds)
      BY <1>5, <3>1, FS_SUBSET
    <3>. QED
      BY <3>2, FS_Subset
  <2>2. ASSUME NEW c \in C PROVE preCount'[c] = 0 <=> E(c) \subseteq D \cup X
    <3>1. IsFiniteSet(E(c) \ (D \cup X))
      <4>1. E(c) \ (D \cup X) \in SUBSET C
        BY <1>7
      <4>. QED
        BY <2>1, <4>1, FS_Subset
    <3>2. Cardinality(E(c) \ (D \cup X)) = 0 <=> E(c) \ (D \cup X) = {}
      BY <3>1, FS_EmptySet
    <3>. QED
      BY <1>13, <3>2
  <2>. QED
    BY <2>2
<1>15. ready' = {c \in C \ (D \cup X) : E(c) \subseteq D \cup X}
  <2>1. ASSUME NEW c PROVE c \in ready' <=> c \in {b \in C \ (D \cup X) : E(b) \subseteq D \cup X}
    <3>1. c \in ready' <=> \/ c \in ready /\ c \notin X
                           \/ c \in C /\ E(c) \cap X # {} /\ E(c) \subseteq D \cup X
      BY <1>1, <1>2, <1>14
    <3>2. c \in ready <=> c \in C /\ c \notin D /\ E(c) \subseteq D
      BY <1>2
    <3>3. c \in D => E(c) \subseteq D
      BY <1>3
    <3>. QED
      BY <1>8, <3>1, <3>2, <3>3
  <2>. QED
    BY <2>1
<1>16. ASSUME NEW c \in D \cup X, NEW d \in E(c)
       PROVE  d \in D \cup X /\ \A i \in d, j \in c : axiomLayer'[i] < axiomLayer'[j]
  <2>1. d \in D
    BY <1>3, <1>8
  <2>2. d \in C /\ c \in C /\ d \notin X
    BY <1>8, <2>1
  <2>3. \A i \in d : axiomLayer'[i] = axiomLayer[i] /\ axiomLayer[i] \in -1 .. N - 1
    BY <1>2, <1>5, <1>9, <2>2
  <2>4. CASE c \in X
    BY <1>4, <1>9, <2>1, <2>2, <2>3, <2>4
  <2>5. CASE c \notin X
    BY <1>3, <1>9, <2>1, <2>2, <2>3, <2>5
  <2>. QED
    BY <2>4, <2>5
<1>17. ASSUME NEW c \in D \cup X, NEW i \in c, ~ fixpoint'[axiomLayer'[i] + 1]
       PROVE  Layered!Single(c)
  <2>1. CASE c \in X
    BY <1>4, <1>8, <1>9, <1>17, <2>1
  <2>2. CASE c \notin X
    <3>1. c \in D /\ c \in C
      BY <1>8, <2>2
    <3>2. axiomLayer'[i] = axiomLayer[i] /\ axiomLayer[i] \in -1 .. N - 1 /\ axiomLayer[i] # -1
      BY <1>2, <1>5, <1>6, <1>9, <2>2, <3>1
    <3>3. axiomLayer[i] + 1 \in 1 .. N
      BY <1>4, <3>2
    <3>. QED
      BY <1>3, <1>4, <1>17, <3>1, <3>2, <3>3
  <2>. QED
    BY <2>1, <2>2
<1>18. (Partition(DOMAIN sccGraph) /\ IsGraph(sccGraph) /\ Acyclic(sccGraph))'
  <2>1. Acyclic(sccGraph)'
    BY <1>1, <1>2 DEF Acyclic
  <2>. QED
    BY <1>1, <1>2, <2>1, SameGraph DEF C
<1>19. (axiomLayer \in [RuleIds -> -1 .. Len(fixpoint) - 1])'
  BY <1>1, <1>4, <1>11, SameGraph
<1>20. DOMAIN preCount' = C
  BY <1>1, <1>2
<1>21. Assigned(sccGraph, axiomLayer)' = D \cup X
  BY <1>1, <1>10 DEF Assigned
<1>22. (\A c \in DOMAIN sccGraph :
          preCount[c] = Cardinality(EnabledBy(sccGraph, c) \ Assigned(sccGraph, axiomLayer)))'
  BY <1>1, <1>13, <1>21 DEF C, E
<1>23. (ready = {c \in DOMAIN sccGraph \ Assigned(sccGraph, axiomLayer) :
                   EnabledBy(sccGraph, c) \subseteq Assigned(sccGraph, axiomLayer)})'
  BY <1>1, <1>15, <1>21 DEF C, E
<1>24. (\A c \in Assigned(sccGraph, axiomLayer) :
          /\ \A d \in EnabledBy(sccGraph, c) :
                /\ d \in Assigned(sccGraph, axiomLayer)
                /\ \A i \in d, j \in c : axiomLayer[i] < axiomLayer[j]
          /\ \A i \in c : ~ fixpoint[axiomLayer[i] + 1] => Layered!Single(c))'
  <2>1. \A c : Layered!Single(c)' <=> Layered!Single(c)
    BY DEF Layered!Single
  <2>. QED
    BY <1>1, <1>16, <1>17, <1>21, <2>1 DEF E
<1>. QED
  BY <1>1, <1>4, <1>12, <1>18, <1>19, <1>20, <1>22, <1>23, <1>24 DEF ComponentsInv, C

\* What the searches rely on, in the terms of the run.
LEMMA LayersAgree ==
    ASSUME program \in Programs, SoundLayers(program, varLayer)
    PROVE  Layered!VariableLayersSound(varLayer)
<1>1. ASSUME NEW i \in Layered!RuleIds, ~ Layered!Trivial(i), NEW l \in program.rules[i].body, l[1] \in Derived
      PROVE  IF l[2] # Default[l[1]] THEN varLayer[l[1]] <= varLayer[program.rules[i].var]
             ELSE varLayer[l[1]] < varLayer[program.rules[i].var]
  <2>1. NonTrivial(program, i)
    BY <1>1 DEF NonTrivial, RuleIdsOf, Layered!RuleIds, Layered!Trivial
  <2>. QED
    BY <1>1, <2>1 DEF SoundLayers, InOrder
<1>. QED
  BY <1>1 DEF Layered!VariableLayersSound, Layered!HeadOf

\* When an axiom depends on another one, its layer of the translator is no lower, and higher if
\* it needs the other one's head to be false.
LEMMA HeadsInOrder ==
    ASSUME program \in Programs, NEW i \in RuleIds, NEW j \in RuleIds,
           ~ Layered!Trivial(i), ~ Layered!Trivial(j), Enables(i, j)
    PROVE  /\ program.layer[program.rules[i].var] \in Nat
           /\ program.layer[program.rules[j].var] \in Nat
           /\ program.layer[program.rules[i].var] <= program.layer[program.rules[j].var]
           /\ Layered!NegativelyContained(j, program.rules[i].var) =>
                 program.layer[program.rules[i].var] < program.layer[program.rules[j].var]
<1>1. /\ NonTrivial(program, j) /\ i \in RuleIdsOf(program) /\ j \in RuleIdsOf(program)
      /\ InOrder(program, program.layer, j)
  <2>1. NonTrivial(program, j) /\ i \in RuleIdsOf(program) /\ j \in RuleIdsOf(program)
    BY AxiomsOfLayer DEF NonTrivial, Layered!Trivial
  <2>. QED
    BY <2>1, ProgramFacts DEF SoundLayers
<1>2. /\ program.rules[i].var \in Derived /\ program.layer[program.rules[i].var] \in Nat
      /\ program.layer[program.rules[j].var] \in Nat
  BY <1>1, ProgramFacts
<1>3. PICK l \in program.rules[j].body : l[1] = program.rules[i].var
  BY AxiomsOfLayer DEF Enables
<1>4. program.layer[program.rules[i].var] <= program.layer[program.rules[j].var]
  BY <1>1, <1>2, <1>3 DEF InOrder
<1>5. ASSUME Layered!NegativelyContained(j, program.rules[i].var)
      PROVE  program.layer[program.rules[i].var] < program.layer[program.rules[j].var]
  <2>. DEFINE k == <<program.rules[i].var, Default[program.rules[i].var]>>
  <2>1. k \in program.rules[j].body /\ k[1] = program.rules[i].var /\ k[2] = Default[k[1]]
    BY <1>5 DEF Layered!NegativelyContained
  <2>. HIDE DEF k
  <2>. QED
    BY <1>1, <1>2, <2>1 DEF InOrder
<1>. QED
  BY <1>2, <1>4, <1>5

\* The layers of the stratifier "default".
LEMMA AxiomsByHeadStep ==
    ASSUME program \in Programs, varLayer = program.layer, AxiomsByHead
    PROVE  AxiomsLayered'
<1>. DEFINE lay(i) == program.layer[program.rules[i].var]
<1>1. /\ program' = program
      /\ axiomLayer' = [i \in RuleIds |-> lay(i)]
      /\ fixpoint' = [n \in 1 .. Len(program.rules) |-> TRUE]
  BY DEF AxiomsByHead, choice, Rule
<1>2. Len(program.rules) \in Nat /\ Len(fixpoint') = Len(program.rules)
  BY <1>1, ProgramFacts
<1>3. \A i \in RuleIds : lay(i) \in 0 .. Len(program.rules) - 1
  <2>1. ASSUME NEW i \in RuleIds PROVE lay(i) \in 0 .. Len(program.rules) - 1
    <3>1. i \in RuleIdsOf(program) /\ i \in Task(program)!RuleIds
      BY AxiomsOfLayer DEF RuleIdsOf, Task!RuleIds
    <3>2. lay(i) < Len(program.rules)
      BY <3>1, ProgramsAssumption
    <3>3. lay(i) \in Nat
      BY <3>1, ProgramFacts
    <3>. QED
      BY <1>2, <3>2, <3>3
  <2>. QED
    BY <2>1
<1>4. \A i \in RuleIds : fixpoint'[lay(i) + 1] = TRUE
  BY <1>1, <1>2, <1>3
<1>5. ASSUME NEW i \in RuleIds, NEW j \in RuleIds, ~ Layered!Trivial(i), ~ Layered!Trivial(j), i # j,
             Layered!InBody(Layered!HeadOf(i), j)
      PROVE  IF Layered!NegativelyContained(j, Layered!HeadOf(i)) \/ ~ fixpoint'[axiomLayer'[j] + 1]
             THEN axiomLayer'[i] < axiomLayer'[j] ELSE axiomLayer'[i] <= axiomLayer'[j]
  <2>1. Layered!HeadOf(i) = program.rules[i].var /\ Enables(i, j)
    BY <1>5 DEF Layered!HeadOf, Enables
  <2>2. axiomLayer'[i] = lay(i) /\ axiomLayer'[j] = lay(j) /\ fixpoint'[lay(j) + 1] = TRUE
    BY <1>1, <1>4
  <2>. QED
    BY <1>5, <2>1, <2>2, HeadsInOrder
<1>6. Layered!AxiomLayersSound(axiomLayer', fixpoint')
  BY <1>5 DEF Layered!AxiomLayersSound, RuleIds
<1>7. Layered!AxiomLayersSound(axiomLayer, fixpoint)'
  BY <1>1, <1>6, SameGraph
<1>8. \A i \in RuleIds : axiomLayer'[i] \in 0 .. Len(fixpoint') - 1
  BY <1>1, <1>2, <1>3
<1>. QED
  BY <1>1, <1>7, <1>8, SameGraph DEF AxiomsLayered

\* The components, before any has a layer.
LEMMA BuildComponentsStep ==
    ASSUME program \in Programs, axiomLayer = [i \in RuleIds |-> -1], fixpoint = <<>>, BuildComponents
    PROVE  ComponentsInv'
<1>. DEFINE G == Layered!ComponentGraph
            C == DOMAIN G
<1>1. /\ program' = program /\ sccGraph' = G /\ axiomLayer' = axiomLayer /\ fixpoint' = <<>>
      /\ preCount' = [c \in C |-> Cardinality(EnabledBy(G, c))]
      /\ ready' = {c \in C : EnabledBy(G, c) = {}}
  BY DEF BuildComponents, choice
<1>2. Partition(C) /\ IsGraph(G) /\ Acyclic(G)
  BY ComponentFacts
<1>. HIDE DEF G
<1>3. \A c \in C : c \in SUBSET RuleIds /\ c # {}
  BY <1>2 DEF Partition
<1>4. Assigned(G, axiomLayer') = {}
  BY <1>1, <1>3 DEF Assigned
<1>5. (Partition(DOMAIN sccGraph) /\ IsGraph(sccGraph) /\ Acyclic(sccGraph))'
  <2>1. Acyclic(sccGraph)'
    BY <1>1, <1>2 DEF Acyclic
  <2>. QED
    BY <1>1, <1>2, <2>1, SameGraph
<1>6. fixpoint' \in Seq(BOOLEAN) /\ Len(fixpoint') = 0
  BY <1>1
<1>7. (axiomLayer \in [RuleIds -> -1 .. Len(fixpoint) - 1])'
  <2>1. axiomLayer' \in [RuleIds -> -1 .. Len(fixpoint') - 1]
    BY <1>1, <1>6
  <2>. QED
    BY <1>1, <2>1, SameGraph
<1>8. (\A c \in DOMAIN sccGraph : \A i, j \in c : axiomLayer[i] = axiomLayer[j])'
  BY <1>1, <1>3
<1>9. Assigned(sccGraph, axiomLayer)' = {}
  BY <1>1, <1>4 DEF Assigned
<1>10. \A c : EnabledBy(G, c) \ {} = EnabledBy(G, c)
  OBVIOUS
<1>11. (\A c \in DOMAIN sccGraph :
          preCount[c] = Cardinality(EnabledBy(sccGraph, c) \ Assigned(sccGraph, axiomLayer)))'
  BY <1>1, <1>9, <1>10
<1>12. (ready = {c \in DOMAIN sccGraph \ Assigned(sccGraph, axiomLayer) :
                   EnabledBy(sccGraph, c) \subseteq Assigned(sccGraph, axiomLayer)})'
  BY <1>1, <1>9
<1>. QED
  BY <1>1, <1>5, <1>6, <1>7, <1>8, <1>9, <1>11, <1>12 DEF ComponentsInv

\* When no component is ready, all have a layer, and the layers are in order.
LEMMA ComponentsDoneStep ==
    ASSUME program \in Programs, ComponentsInv, ready = {}
    PROVE  AxiomsLayered
<1>. DEFINE C == DOMAIN sccGraph
            D == Assigned(sccGraph, axiomLayer)
            E(c) == EnabledBy(sccGraph, c)
<1>0. IsFiniteSet(RuleIds)
  <2>1. RuleIds = 1 .. Len(program.rules)
    BY AxiomsOfLayer DEF RuleIdsOf
  <2>2. Len(program.rules) \in Nat
    BY ProgramFacts
  <2>. QED
    BY <2>1, <2>2, FS_Interval
<1>1. /\ Partition(C) /\ IsGraph(sccGraph) /\ Acyclic(sccGraph)
      /\ axiomLayer \in [RuleIds -> -1 .. Len(fixpoint) - 1]
      /\ Len(fixpoint) \in Nat
      /\ \A c \in C : \A i, j \in c : axiomLayer[i] = axiomLayer[j]
      /\ {c \in C \ D : E(c) \subseteq D} = {}
  BY DEF ComponentsInv
<1>2. /\ \A c \in D : \A d \in E(c) : \A i \in d, j \in c : axiomLayer[i] < axiomLayer[j]
      /\ \A c \in D : \A i \in c : ~ fixpoint[axiomLayer[i] + 1] => Layered!Single(c)
  BY DEF ComponentsInv
<1>3. \A c \in C : E(c) \in SUBSET C
  BY DEF EnabledBy
<1>4. D \subseteq C
  BY DEF Assigned
<1>5. C = D
  <2>1. SUFFICES ASSUME C \ D # {} PROVE FALSE
    BY <1>4
  <2>2. C \ D \in SUBSET C
    OBVIOUS
  <2>. HIDE DEF D
  <2>3. PICK c \in C \ D : E(c) \cap (C \ D) = {}
    BY <1>1, <2>1, <2>2 DEF Acyclic
  <2>. HIDE DEF C, E
  <2>. QED
    BY <1>1, <1>3, <2>3
<1>6. \A c \in C : \A i \in c : axiomLayer[i] # -1
  BY <1>5 DEF Assigned
<1>7. /\ \A c \in C : c \in SUBSET RuleIds
      /\ \A i \in RuleIds : \E c \in C : i \in c
      /\ \A c \in C : \A i, j \in c :
            program.layer[program.rules[i].var] = program.layer[program.rules[j].var]
  BY <1>1 DEF Partition
<1>. HIDE DEF D
<1>8. \A i \in RuleIds : axiomLayer[i] \in 0 .. Len(fixpoint) - 1
  <2>1. ASSUME NEW i \in RuleIds PROVE axiomLayer[i] \in 0 .. Len(fixpoint) - 1
    <3>1. axiomLayer[i] \in -1 .. Len(fixpoint) - 1 /\ axiomLayer[i] # -1
      BY <1>1, <1>6, <1>7
    <3>. QED
      BY <1>1, <3>1
  <2>. QED
    BY <2>1
<1>. HIDE DEF C, E
<1>9. ASSUME NEW i \in RuleIds, NEW j \in RuleIds, ~ Layered!Trivial(i), ~ Layered!Trivial(j), i # j,
             Layered!InBody(Layered!HeadOf(i), j)
      PROVE  IF Layered!NegativelyContained(j, Layered!HeadOf(i)) \/ ~ fixpoint[axiomLayer[j] + 1]
             THEN axiomLayer[i] < axiomLayer[j] ELSE axiomLayer[i] <= axiomLayer[j]
  <2>1. Layered!HeadOf(i) = program.rules[i].var /\ Enables(i, j)
    BY <1>9 DEF Layered!HeadOf, Enables
  <2>2. PICK c \in C : j \in c
    BY <1>7
  <2>3. CASE i \in c
    <3>1. axiomLayer[i] = axiomLayer[j] /\ axiomLayer[i] \in Int
      BY <1>1, <1>8, <2>2, <2>3
    <3>2. ~ Layered!NegativelyContained(j, Layered!HeadOf(i))
      BY <1>7, <1>9, <2>1, <2>2, <2>3, HeadsInOrder
    <3>3. fixpoint[axiomLayer[j] + 1]
      <4>1. SUFFICES ASSUME Layered!Single(c) PROVE FALSE
        BY <1>2, <1>5, <2>2
      <4>2. Cardinality(c) = 1
        BY <4>1, LayeredCardinality DEF Layered!Single
      <4>3. IsFiniteSet(c)
        BY <1>0, <1>7, FS_Subset
      <4>4. \E x : c = {x}
        BY <4>2, <4>3, FS_Singleton
      <4>. QED
        BY <1>9, <2>2, <2>3, <4>4
    <3>. QED
      BY <3>1, <3>2, <3>3
  <2>4. CASE i \notin c
    <3>1. PICK d \in C : i \in d
      BY <1>7
    <3>2. d \in E(c)
      BY <1>1, <2>1, <2>2, <2>4, <3>1 DEF IsGraph, C, E
    <3>3. axiomLayer[i] < axiomLayer[j]
      BY <1>2, <1>5, <2>2, <3>1, <3>2
    <3>4. axiomLayer[i] \in Int /\ axiomLayer[j] \in Int
      BY <1>8
    <3>. QED
      BY <3>3, <3>4
  <2>. QED
    BY <2>3, <2>4
<1>10. Layered!AxiomLayersSound(axiomLayer, fixpoint)
  BY <1>9 DEF Layered!AxiomLayersSound, RuleIds
<1>. QED
  BY <1>8, <1>10 DEF AxiomsLayered

\* Initially.
LEMMA StratificationInit ==
    Init => StratificationInv
BY DEF Init, StratificationInv, LayersInv

\* The steps of the stratifier, which the other ones leave alone.
LEMMA StratificationStep ==
    StratificationInv /\ [Next]_vars => StratificationInv'
<1>. SUFFICES ASSUME StratificationInv, [Next]_vars PROVE StratificationInv'
  OBVIOUS
<1>1. LayersInv' /\ program \in Programs
  BY LayersStep DEF StratificationInv, LayersInv
<1>. DEFINE Stratifying == {"variables", "heads", "graph", "components"}
<1>2. CASE StratifyVariables
  <2>1. /\ pc = "variables" /\ program' = program /\ axiomLayer' = axiomLayer /\ fixpoint' = fixpoint
        /\ pc' = "graph" \/ (pc' = "heads" /\ varLayer' = program'.layer)
    BY <1>2 DEF StratifyVariables, choice, Goto
  <2>2. axiomLayer = [i \in RuleIds |-> -1] /\ fixpoint = <<>>
    BY <2>1 DEF StratificationInv
  <2>3. axiomLayer' = [i \in RuleIds' |-> -1] /\ fixpoint' = <<>>
    BY <2>1, <2>2, SameGraph
  <2>. QED
    BY <1>1, <2>1, <2>3 DEF StratificationInv
<1>3. CASE AxiomsByHead
  <2>1. AxiomsLayered' /\ pc' = "init"
    BY <1>1, <1>3, AxiomsByHeadStep DEF StratificationInv, AxiomsByHead, Goto
  <2>. QED
    BY <1>1, <2>1 DEF StratificationInv
<1>4. CASE BuildComponents
  <2>1. ComponentsInv' /\ pc' = "components"
    BY <1>1, <1>4, BuildComponentsStep DEF StratificationInv, BuildComponents, Goto
  <2>. QED
    BY <1>1, <2>1 DEF StratificationInv
<1>5. CASE LayerOfComponent
  <2>1. PICK c \in ready : AssignLayer({c}, TRUE)
    BY <1>5 DEF LayerOfComponent
  <2>2. pc = "components" /\ ComponentsInv
    BY <1>5 DEF LayerOfComponent, StratificationInv
  <2>3. ComponentsInv' /\ pc' = "components"
    BY <1>1, <2>1, <2>2, AssignLayerStep DEF AssignLayer
  <2>. QED
    BY <1>1, <2>3 DEF StratificationInv
<1>6. CASE LayerOfSingles
  <2>1. AssignLayer(ready, FALSE) /\ \A c \in ready : Layered!Single(c)
    BY <1>6 DEF LayerOfSingles
  <2>2. pc = "components" /\ ComponentsInv
    BY <1>6 DEF LayerOfSingles, StratificationInv
  <2>3. ComponentsInv' /\ pc' = "components"
    BY <1>1, <2>1, <2>2, AssignLayerStep DEF AssignLayer
  <2>. QED
    BY <1>1, <2>3 DEF StratificationInv
<1>7. CASE ComponentsDone
  <2>1. /\ pc = "components" /\ ready = {} /\ pc' = "init"
        /\ program' = program /\ axiomLayer' = axiomLayer /\ fixpoint' = fixpoint
    BY <1>7 DEF ComponentsDone, choice, stratification, Goto
  <2>2. AxiomsLayered
    BY <1>1, <2>1, ComponentsDoneStep DEF StratificationInv
  <2>3. AxiomsLayered'
    BY <2>1, <2>2, SameGraph DEF AxiomsLayered
  <2>. QED
    BY <1>1, <2>1, <2>3 DEF StratificationInv
<1>8. CASE Prepare \/ Apply \/ ComputeImage
  <2>1. /\ pc \notin Stratifying /\ pc' \notin Stratifying
        /\ program' = program /\ axiomLayer' = axiomLayer /\ fixpoint' = fixpoint
    BY <1>8 DEF Prepare, Apply, InitAxioms, BuildLayer, PopVariable, VisitAxiom, VariableDone, BuildDone,
           Start, ApplyVarBdds, ApplyFixpoint, EnterLayer, NextRound, FireGroup, RoundDone, LeaveLayer,
           Return, ComputeImage, choice, stratification, Goto
  <2>2. AxiomsLayered
    BY <2>1 DEF StratificationInv
  <2>3. AxiomsLayered'
    BY <2>1, <2>2, SameGraph DEF AxiomsLayered
  <2>. QED
    BY <1>1, <2>1, <2>3 DEF StratificationInv
<1>9. CASE UNCHANGED vars
  <2>1. /\ program' = program /\ varLayer' = varLayer /\ axiomLayer' = axiomLayer /\ fixpoint' = fixpoint
        /\ sccGraph' = sccGraph /\ preCount' = preCount /\ ready' = ready /\ pc' = pc
    BY <1>9 DEF vars, choice, stratification, components
  <2>2. RuleIds' = RuleIds /\ (AxiomsLayered => AxiomsLayered')
    BY <2>1, SameGraph DEF AxiomsLayered
  <2>3. ComponentsInv => ComponentsInv'
    <3>1. Acyclic(sccGraph)' <=> Acyclic(sccGraph)
      BY <2>1 DEF Acyclic
    <3>2. \A c : Layered!Single(c)' <=> Layered!Single(c)
      BY DEF Layered!Single
    <3>3. Assigned(sccGraph, axiomLayer)' = Assigned(sccGraph, axiomLayer)
      BY <2>1
    <3>4. Partition(DOMAIN sccGraph)' <=> Partition(DOMAIN sccGraph)
      BY <2>1, SameGraph
    <3>5. IsGraph(sccGraph)' <=> IsGraph(sccGraph)
      BY <2>1, SameGraph
    <3>. QED
      BY <2>1, <2>2, <3>1, <3>2, <3>3, <3>4, <3>5 DEF ComponentsInv
  <2>. QED
    BY <1>1, <2>1, <2>2, <2>3 DEF StratificationInv
<1>. QED
  BY <1>2, <1>3, <1>4, <1>5, <1>6, <1>7, <1>8, <1>9 DEF Next, Stratify

\* Whatever the stratifier, no axiom is applied before everything that its body needs has been
\* derived: every axiom has a layer, those of the variables order negation, and a component of
\* the axioms becomes ready only after all that it depends on.
THEOREM StratificationIsSound == Spec => []StratificationSound
<1>1. StratificationInv => StratificationSound
  <2>. SUFFICES ASSUME StratificationInv PROVE StratificationSound
    OBVIOUS
  <2>1. program \in Programs
    BY DEF StratificationInv, LayersInv
  <2>2. ASSUME pc \notin {"variables", "heads", "graph", "components"}
        PROVE  /\ Layered!VariableLayersSound(varLayer)
               /\ Layered!AxiomLayersSound(axiomLayer, fixpoint)
    BY <2>1, <2>2, LayersAgree DEF StratificationInv, LayersInv, AxiomsLayered
  <2>3. ASSUME pc = "components"
        PROVE  \A c \in ready : \A d \in EnabledBy(sccGraph, c) : \A i \in d : axiomLayer[i] # -1
    <3>1. ComponentsInv
      BY <2>3 DEF StratificationInv
    <3>2. \A c \in ready : EnabledBy(sccGraph, c) \subseteq Assigned(sccGraph, axiomLayer)
      BY <3>1 DEF ComponentsInv
    <3>. QED
      BY <3>2 DEF Assigned
  <2>4. ASSUME pc = "init" PROVE \A i \in RuleIds : axiomLayer[i] \in 0 .. Len(fixpoint) - 1
    BY <2>4 DEF StratificationInv, AxiomsLayered
  <2>. QED
    BY <2>2, <2>3, <2>4 DEF StratificationSound
<1>. QED
  BY <1>1, StratificationInit, StratificationStep, PTL DEF Spec

-----------------------------------------------------------------------------
(* The axioms on sets of states.                                           *)

\* What the axioms make of the primary variables of a state; a state on the way to that has
\* derived nothing else, and is closed under the axioms below layer k.
Ext(s) == Extended[program][PrimaryPart(s)]
ClosedBelow(s, k) ==
    \A i : NonTrivial(program, i) /\ axiomLayer[i] < k /\ BodyHolds(program, s, i) =>
              s[program.rules[i].var] = program.rules[i].val
Partial(s, k) ==
    /\ s \in States
    /\ \A v \in Derived : s[v] # Default[v] => Ext(s)[v] # Default[v]
    /\ ClosedBelow(s, k)

\* The extension is closed under all axioms.
LEMMA ExtFacts ==
    ASSUME program \in Programs, NEW s \in States
    PROVE  /\ PrimaryPart(s) \in PrimaryStates
           /\ Ext(s) \in States /\ PrimaryPart(Ext(s)) = PrimaryPart(s)
           /\ \A v \in Primary : Ext(s)[v] = s[v]
           /\ \A i : NonTrivial(program, i) /\ BodyHolds(program, Ext(s), i) =>
                 Ext(s)[program.rules[i].var] = program.rules[i].val
<1>1. PrimaryPart(s) \in PrimaryStates
  BY PrimaryParts
<1>2. /\ Ext(s) \in States /\ PrimaryPart(Ext(s)) = PrimaryPart(s)
      /\ \A k \in Nat : ClosedAt(program, program.layer, Ext(s), k)
  BY <1>1, MeaningOfTask DEF Ext
<1>3. \A v \in Primary : Ext(s)[v] = s[v]
  BY <1>2, PrimaryParts
<1>4. ASSUME NEW i, NonTrivial(program, i), BodyHolds(program, Ext(s), i)
      PROVE  Ext(s)[program.rules[i].var] = program.rules[i].val
  <2>1. program.layer[program.rules[i].var] \in Nat
    BY <1>4, ProgramFacts DEF NonTrivial
  <2>. QED
    BY <1>2, <1>4, <2>1 DEF ClosedAt
<1>. QED
  BY <1>1, <1>2, <1>3, <1>4

\* The body of axiom j needs the head of axiom i to be false.
NeedsFalseHead(i, j) ==
    <<program.rules[i].var, Default[program.rules[i].var]>> \in program.rules[j].body

\* Sound layers of the axioms, in these terms: an axiom that depends on another one comes no
\* earlier, and later if it needs the other one's head to be false or its layer has no fixpoint.
LEMMA LayersOrdered ==
    ASSUME program \in Programs, AxiomsLayered
    PROVE  /\ \A i \in RuleIds : axiomLayer[i] \in Nat /\ axiomLayer[i] < Len(fixpoint)
           /\ \A i : NonTrivial(program, i) => i \in RuleIds
           /\ \A i, j : NonTrivial(program, i) /\ NonTrivial(program, j) =>
                 /\ i # j /\ Enables(i, j) => axiomLayer[i] <= axiomLayer[j]
                 /\ i # j /\ Enables(i, j) /\ ~ fixpoint[axiomLayer[j] + 1] =>
                       axiomLayer[i] < axiomLayer[j]
                 /\ NeedsFalseHead(i, j) => i # j /\ axiomLayer[i] < axiomLayer[j]
<1>1. \A i : NonTrivial(program, i) => i \in RuleIds /\ i \in Layered!RuleIds /\ ~ Layered!Trivial(i)
  BY AxiomsOfLayer DEF NonTrivial, RuleIds, Layered!Trivial
<1>2. \A i \in RuleIds : axiomLayer[i] \in Nat /\ axiomLayer[i] < Len(fixpoint)
  BY DEF AxiomsLayered
<1>3. ASSUME NEW i, NEW j, NonTrivial(program, i), NonTrivial(program, j), i # j, Enables(i, j)
      PROVE  IF Layered!NegativelyContained(j, program.rules[i].var) \/ ~ fixpoint[axiomLayer[j] + 1]
             THEN axiomLayer[i] < axiomLayer[j] ELSE axiomLayer[i] <= axiomLayer[j]
  BY <1>1, <1>3 DEF AxiomsLayered, Layered!AxiomLayersSound, Layered!HeadOf, Enables
<1>4. ASSUME NEW i, NEW j, NonTrivial(program, i), NonTrivial(program, j),
             NeedsFalseHead(i, j)
      PROVE  i # j /\ axiomLayer[i] < axiomLayer[j]
  <2>. DEFINE l == <<program.rules[i].var, Default[program.rules[i].var]>>
  <2>1. l[1] = program.rules[i].var /\ l \in program.rules[j].body
    BY <1>4 DEF NeedsFalseHead
  <2>2. Enables(i, j)
    BY <2>1, AxiomsOfLayer DEF Enables
  <2>3. Layered!NegativelyContained(j, program.rules[i].var)
    BY <1>4 DEF NeedsFalseHead, Layered!NegativelyContained
  <2>. HIDE DEF l
  <2>4. i # j
    BY <1>1, <1>4, <2>2, <2>3, HeadsInOrder
  <2>. QED
    BY <1>3, <1>4, <2>2, <2>3, <2>4
<1>. QED
  BY <1>1, <1>2, <1>3, <1>4

\* Once all axioms for a variable are in layers that are closed, its value is final.
LEMMA KnownBelow ==
    ASSUME program \in Programs, AxiomsLayered, NEW k \in Nat, NEW s, Partial(s, k),
           NEW v \in Derived,
           \A i : NonTrivial(program, i) /\ program.rules[i].var = v => axiomLayer[i] < k
    PROVE  s[v] = Ext(s)[v]
<1>. DEFINE e == Ext(s)
            lay == program.layer
            Final(w) == \A i : NonTrivial(program, i) /\ program.rules[i].var = w => axiomLayer[i] < k
            B == {w \in Derived : Final(w) /\ e[w] # Default[w] /\ s[w] = Default[w]}
            Layers == {lay[w] : w \in B}
<1>1. /\ s \in States /\ e \in States /\ \A w \in Primary : e[w] = s[w]
      /\ \A i : NonTrivial(program, i) /\ BodyHolds(program, e, i) =>
            e[program.rules[i].var] = program.rules[i].val
      /\ \A w \in Derived : s[w] # Default[w] => e[w] # Default[w]
  BY ExtFacts DEF Partial
<1>2. /\ SoundLayers(program, lay) /\ \A w \in Derived : Default[w] \in {0, 1} /\ lay[w] \in Nat
      /\ Primary \cap Derived = {}
      /\ PrimaryPart(s) \in PrimaryStates
  BY ProgramFacts, ProgramsAssumption, ExtFacts, <1>1
<1>3. \A w \in Derived : s[w] \in {0, 1} /\ e[w] \in {0, 1}
  BY <1>1 DEF States
<1>4. B = {}
  <2>1. SUFFICES ASSUME B # {} PROVE FALSE
    OBVIOUS
  <2>2. PICK m \in Layers : \A n \in Layers : m <= n
    <3>1. Layers \subseteq Nat /\ Layers # {}
      BY <1>2, <2>1
    <3>. HIDE DEF Layers
    <3>. QED
      BY <3>1, LeastNumber
  <2>3. m \in Nat /\ (\E w \in B : lay[w] = m) /\ \A w \in B : m <= lay[w]
    BY <1>2, <2>2
  <2>. HIDE DEF Layers, e
  <2>. DEFINE u == [w \in Primary \cup Derived |-> IF w \in B /\ lay[w] = m THEN Default[w] ELSE e[w]]
  <2>4. u \in States
    BY <1>1, <1>2 DEF States
  <2>5. /\ \A w \in Primary : u[w] = e[w]
        /\ \A w \in Derived : ~ (w \in B /\ lay[w] = m) => u[w] = e[w]
        /\ \A w \in Derived : w \in B /\ lay[w] = m => u[w] = Default[w]
    BY <1>2
  <2>. HIDE DEF u
  <2>6. SameBelow(lay, e, u, m)
    BY <1>2, <2>3, <2>5 DEF SameBelow
  <2>7. ASSUME NEW i, NonTrivial(program, i), lay[program.rules[i].var] = m, BodyHolds(program, u, i)
        PROVE  u[program.rules[i].var] = program.rules[i].val
    <3>1. program.rules[i].var \in Derived /\ InOrder(program, lay, i)
      BY <1>2, <2>7, ProgramFacts DEF NonTrivial, SoundLayers
    <3>2. ASSUME NEW l \in program.rules[i].body, l[1] \in Derived
          PROVE  /\ e[l[1]] = l[2] /\ u[l[1]] = l[2]
                 /\ ~ (l[1] \in B /\ lay[l[1]] = m)
                 /\ l[2] = Default[l[1]] => lay[l[1]] < m
      <4>1. u[l[1]] = l[2] /\ (l[2] = Default[l[1]] => lay[l[1]] < m)
        BY <2>7, <3>1, <3>2 DEF BodyHolds, InOrder
      <4>2. ~ (l[1] \in B /\ lay[l[1]] = m)
        BY <1>2, <2>3, <2>5, <3>2, <4>1
      <4>. QED
        BY <2>5, <3>2, <4>1, <4>2
    <3>3. ASSUME NEW l \in program.rules[i].body, l[1] \notin Derived
          PROVE  e[l[1]] = l[2] /\ l[1] \in Primary
      <4>1. l[1] \in Primary
        BY <2>7, <3>3, ProgramFacts DEF NonTrivial
      <4>. QED
        BY <2>5, <2>7, <4>1 DEF BodyHolds
    <3>4. BodyHolds(program, e, i)
      BY <3>2, <3>3 DEF BodyHolds
    <3>5. e[program.rules[i].var] = program.rules[i].val
      BY <1>1, <2>7, <3>4
    <3>6. CASE program.rules[i].var \notin B
      BY <2>5, <3>1, <3>5, <3>6
    <3>7. CASE program.rules[i].var \in B
      <4>1. axiomLayer[i] < k
        BY <2>7, <3>7
      <4>2. i \in RuleIds /\ axiomLayer[i] \in Nat
        BY <2>7, LayersOrdered
      <4>3. ASSUME NEW l \in program.rules[i].body, l[1] \in Derived PROVE s[l[1]] = l[2]
        <5>1. e[l[1]] = l[2] /\ ~ (l[1] \in B /\ lay[l[1]] = m) /\ (l[2] = Default[l[1]] => lay[l[1]] < m)
          BY <3>2, <4>3
        <5>2. l[1] \notin B
          <6>1. lay[l[1]] <= m
            BY <2>7, <3>1, <4>3 DEF InOrder
          <6>2. lay[l[1]] \in Nat
            BY <1>2, <4>3
          <6>. QED
            BY <2>3, <5>1, <6>1, <6>2
        <5>3. Final(l[1])
          <6>1. SUFFICES ASSUME NEW j, NonTrivial(program, j), program.rules[j].var = l[1]
                         PROVE  axiomLayer[j] < k
            OBVIOUS
          <6>2. Enables(j, i)
            BY <4>3, <6>1, AxiomsOfLayer DEF Enables
          <6>3. axiomLayer[j] \in Nat /\ (i = j \/ axiomLayer[j] <= axiomLayer[i])
            BY <2>7, <6>1, <6>2, LayersOrdered
          <6>. QED
            BY <4>1, <4>2, <6>3
        <5>4. CASE l[2] # Default[l[1]]
          BY <1>2, <1>3, <4>3, <5>1, <5>2, <5>3, <5>4 DEF B
        <5>5. CASE l[2] = Default[l[1]]
          BY <1>1, <1>3, <4>3, <5>1, <5>5
        <5>. QED
          BY <5>4, <5>5
      <4>4. \A l \in program.rules[i].body : l[1] \notin Derived => s[l[1]] = l[2]
        BY <1>1, <3>3
      <4>5. BodyHolds(program, s, i)
        BY <4>3, <4>4 DEF BodyHolds
      <4>6. s[program.rules[i].var] = program.rules[i].val
        BY <2>7, <4>1, <4>5 DEF Partial, ClosedBelow
      <4>7. s[program.rules[i].var] = Default[program.rules[i].var]
        BY <3>7
      <4>. QED
        BY <2>7, <4>6, <4>7 DEF NonTrivial
    <3>. QED
      BY <3>6, <3>7
  <2>8. ClosedAt(program, lay, u, m)
    BY <2>7 DEF ClosedAt
  <2>9. LeastAt(program, lay, e, m)
    BY <1>2, <2>3, MeaningOfTask DEF e, Ext
  <2>10. PICK w \in B : lay[w] = m
    BY <2>3
  <2>11. w \in Derived /\ e[w] # Default[w] /\ u[w] = Default[w]
    BY <2>5, <2>10
  <2>. QED
    BY <2>4, <2>6, <2>8, <2>9, <2>10, <2>11 DEF LeastAt
<1>5. v \notin B /\ Final(v)
  BY <1>4
<1>. HIDE DEF e, Final
<1>6. e[v] # Default[v] => s[v] # Default[v]
  BY <1>5
<1>7. s[v] = e[v]
  BY <1>1, <1>2, <1>3, <1>6
<1>. QED
  BY <1>7 DEF e

\* An axiom of layer k that can be applied in a state closed below it derives what is derived in
\* the extension.
LEMMA FiredIsDerived ==
    ASSUME program \in Programs, AxiomsLayered, NEW k \in Nat, NEW s, Partial(s, k),
           NEW i, NonTrivial(program, i), axiomLayer[i] = k, BodyHolds(program, s, i)
    PROVE  Ext(s)[program.rules[i].var] = program.rules[i].val
<1>1. /\ s \in States /\ Ext(s) \in States /\ \A w \in Primary : Ext(s)[w] = s[w]
      /\ \A w \in Derived : s[w] # Default[w] => Ext(s)[w] # Default[w]
  BY ExtFacts DEF Partial
<1>2. \A w \in Derived : s[w] \in {0, 1} /\ Ext(s)[w] \in {0, 1} /\ Default[w] \in {0, 1}
  BY <1>1, ProgramFacts DEF States
<1>3. ASSUME NEW l \in program.rules[i].body PROVE Ext(s)[l[1]] = l[2]
  <2>1. s[l[1]] = l[2] /\ l[1] \in Primary \cup Derived
    BY ProgramFacts DEF BodyHolds, NonTrivial
  <2>2. CASE l[1] \in Primary
    BY <1>1, <2>1, <2>2
  <2>3. ASSUME l[1] \in Derived, l[2] # Default[l[1]] PROVE Ext(s)[l[1]] = l[2]
    BY <1>1, <1>2, <2>1, <2>3
  <2>4. ASSUME l[1] \in Derived, l[2] = Default[l[1]] PROVE Ext(s)[l[1]] = l[2]
    <3>1. l = <<l[1], l[2]>>
      <4>. DEFINE Records == [var : Derived, val : {0, 1}, body : SUBSET Task(program)!Literals]
      <4>1. program.rules \in Seq(Records) /\ i \in 1 .. Len(program.rules)
        BY ProgramsAssumption DEF NonTrivial, RuleIdsOf
      <4>2. program.rules[i] \in Records
        <5>. HIDE DEF Records
        <5>. QED
          BY <4>1, ElementOf
      <4>3. l \in Task(program)!Literals
        BY <4>2
      <4>. QED
        BY <4>3 DEF Task!Literals
    <3>2. ASSUME NEW j, NonTrivial(program, j), program.rules[j].var = l[1] PROVE axiomLayer[j] < k
      <4>1. NeedsFalseHead(j, i)
        BY <2>4, <3>1, <3>2 DEF NeedsFalseHead
      <4>. QED
        BY <3>2, <4>1, LayersOrdered
    <3>3. s[l[1]] = Ext(s)[l[1]]
      BY <2>4, <3>2, KnownBelow
    <3>. QED
      BY <2>1, <3>3
  <2>. QED
    BY <2>1, <2>2, <2>3, <2>4
<1>4. BodyHolds(program, Ext(s), i)
  BY <1>3 DEF BodyHolds
<1>. QED
  BY <1>1, <1>4, ExtFacts

\* t is s after axioms of layer k whose bodies hold in s have been applied.
Raises(s, t, k) ==
    /\ t \in States
    /\ \A v \in Primary : t[v] = s[v]
    /\ \A v \in Derived : t[v] = s[v] \/ (t[v] # Default[v] /\
          \E i : NonTrivial(program, i) /\ axiomLayer[i] = k /\ program.rules[i].var = v
                 /\ BodyHolds(program, s, i))

\* It derives no more than the extension, and no axiom of a lower layer becomes applicable.
LEMMA RaisesPartial ==
    ASSUME program \in Programs, AxiomsLayered, NEW k \in Nat, NEW s, Partial(s, k),
           NEW t, Raises(s, t, k)
    PROVE  Partial(t, k) /\ PrimaryPart(t) = PrimaryPart(s)
<1>1. /\ s \in States /\ t \in States /\ \A w \in Primary : t[w] = s[w]
      /\ \A w \in Derived : s[w] # Default[w] => Ext(s)[w] # Default[w]
  BY DEF Partial, Raises
<1>2. PrimaryPart(t) = PrimaryPart(s) /\ Ext(t) = Ext(s)
  BY <1>1, PrimaryParts DEF Ext
<1>3. \A w \in Derived : s[w] \in {0, 1} /\ t[w] \in {0, 1} /\ Default[w] \in {0, 1}
  BY <1>1, ProgramFacts DEF States
<1>4. ASSUME NEW v \in Derived, t[v] # Default[v] PROVE Ext(t)[v] # Default[v]
  <2>1. CASE t[v] = s[v]
    BY <1>1, <1>2, <1>4, <2>1
  <2>2. CASE t[v] # s[v]
    <3>1. PICK i : NonTrivial(program, i) /\ axiomLayer[i] = k /\ program.rules[i].var = v
                   /\ BodyHolds(program, s, i)
      BY <2>2 DEF Raises
    <3>2. Ext(s)[v] = program.rules[i].val
      BY <3>1, FiredIsDerived
    <3>. QED
      BY <1>2, <3>1, <3>2 DEF NonTrivial
  <2>. QED
    BY <2>1, <2>2
<1>5. ASSUME NEW j, NonTrivial(program, j), axiomLayer[j] < k, BodyHolds(program, t, j)
      PROVE  t[program.rules[j].var] = program.rules[j].val
  <2>1. ASSUME NEW l \in program.rules[j].body PROVE s[l[1]] = l[2]
    <3>1. t[l[1]] = l[2] /\ l[1] \in Primary \cup Derived
      BY <1>5, ProgramFacts DEF BodyHolds, NonTrivial
    <3>2. CASE l[1] \in Primary
      BY <1>1, <3>1, <3>2
    <3>3. CASE l[1] \in Derived
      <4>1. SUFFICES ASSUME t[l[1]] # s[l[1]] PROVE FALSE
        BY <3>1
      <4>2. PICK i : NonTrivial(program, i) /\ axiomLayer[i] = k /\ program.rules[i].var = l[1]
        BY <3>3, <4>1 DEF Raises
      <4>3. Enables(i, j)
        BY <4>2, AxiomsOfLayer DEF Enables
      <4>4. i # j
        BY <1>5, <4>2
      <4>5. axiomLayer[i] <= axiomLayer[j] /\ axiomLayer[j] \in Nat
        BY <1>5, <4>2, <4>3, <4>4, LayersOrdered
      <4>. QED
        BY <1>5, <4>2, <4>5
    <3>. QED
      BY <3>1, <3>2, <3>3
  <2>2. s[program.rules[j].var] = program.rules[j].val
    BY <1>5, <2>1 DEF Partial, ClosedBelow, BodyHolds
  <2>3. /\ program.rules[j].var \in Derived /\ program.rules[j].val \in {0, 1}
        /\ program.rules[j].val # Default[program.rules[j].var]
    BY <1>5, ProgramFacts DEF NonTrivial
  <2>4. t[program.rules[j].var] # Default[program.rules[j].var]
    BY <2>2, <2>3 DEF Raises
  <2>. QED
    BY <1>3, <2>3, <2>4
<1>. QED
  BY <1>1, <1>2, <1>4, <1>5 DEF Partial, ClosedBelow

\* The axioms of a layer, and when they can be applied.
LEMMA AxiomsOfFacts ==
    ASSUME program \in Programs
    PROVE  /\ \A k, i : i \in AxiomsOf(k) <=> NonTrivial(program, i) /\ axiomLayer[i] = k
           /\ \A s, i : CanFire(s, i) <=>
                 s[program.rules[i].var] # program.rules[i].val /\ BodyHolds(program, s, i)
           /\ \A i : NonTrivial(program, i) =>
                 /\ program.rules[i].var \in Derived
                 /\ program.rules[i].val = 1 - Default[program.rules[i].var]
                 /\ program.rules[i].val # Default[program.rules[i].var]
<1>1. ASSUME NEW k, NEW i PROVE i \in AxiomsOf(k) <=> NonTrivial(program, i) /\ axiomLayer[i] = k
  BY AxiomsOfLayer DEF AxiomsOf, NonTrivial, Layered!Trivial
<1>2. ASSUME NEW s, NEW i
      PROVE  CanFire(s, i) <=> s[program.rules[i].var] # program.rules[i].val /\ BodyHolds(program, s, i)
  BY DEF CanFire, Rule, BodyHolds
<1>3. ASSUME NEW i, NonTrivial(program, i)
      PROVE  /\ program.rules[i].var \in Derived
             /\ program.rules[i].val = 1 - Default[program.rules[i].var]
             /\ program.rules[i].val # Default[program.rules[i].var]
  <2>1. /\ program.rules[i].var \in Derived /\ program.rules[i].val \in {0, 1}
        /\ Default[program.rules[i].var] \in {0, 1}
        /\ program.rules[i].val # Default[program.rules[i].var]
    BY <1>3, ProgramFacts DEF NonTrivial
  <2>. QED
    BY <2>1
<1>. QED
  BY <1>1, <1>2, <1>3

\* An axiom is applied as a transition.
LEMMA FireOneRaises ==
    ASSUME program \in Programs, NEW k \in Nat, NEW s, Partial(s, k), NEW i \in AxiomsOf(k), CanFire(s, i)
    PROVE  Raises(s, FireOne(s, i), k) /\ FireOne(s, i)[program.rules[i].var] = program.rules[i].val
<1>. DEFINE head == program.rules[i].var
            t == FireOne(s, i)
<1>1. /\ NonTrivial(program, i) /\ axiomLayer[i] = k /\ BodyHolds(program, s, i)
      /\ head \in Derived /\ program.rules[i].val \in {0, 1} /\ program.rules[i].val # Default[head]
  BY AxiomsOfFacts, ProgramFacts DEF NonTrivial
<1>2. s \in States /\ Primary \cap Derived = {}
  BY ProgramsAssumption DEF Partial
<1>3. t = [s EXCEPT ![head] = program.rules[i].val]
  BY DEF FireOne, Rule
<1>. HIDE DEF t, head
<1>4. t \in States
  BY <1>1, <1>2, <1>3 DEF States
<1>5. t[head] = program.rules[i].val /\ \A v \in Primary \cup Derived : v # head => t[v] = s[v]
  BY <1>1, <1>2, <1>3 DEF States
<1>6. head \notin Primary
  BY <1>1, <1>2
<1>. QED
  BY <1>1, <1>4, <1>5, <1>6 DEF Raises, t, head

\* A set of axioms of the layer is applied as a rule.
LEMMA FireAllRaises ==
    ASSUME program \in Programs, NEW k \in Nat, NEW s, Partial(s, k), NEW g \in SUBSET AxiomsOf(k)
    PROVE  /\ Raises(s, FireAll(s, g), k)
           /\ \A i \in g : BodyHolds(program, s, i) =>
                 FireAll(s, g)[program.rules[i].var] = program.rules[i].val
<1>. DEFINE t == FireAll(s, g)
            Fired(v) == \E i \in g : program.rules[i].var = v /\ CanFire(s, i)
<1>1. /\ s \in States /\ Primary \cap Derived = {}
      /\ \A v \in Derived : Default[v] \in {0, 1} /\ 1 - Default[v] \in {0, 1} /\ 1 - Default[v] # Default[v]
  BY ProgramsAssumption, ProgramFacts DEF Partial
<1>2. t = [v \in DOMAIN s |-> IF Fired(v) THEN 1 - Default[v] ELSE s[v]] /\ DOMAIN s = Primary \cup Derived
  BY <1>1 DEF FireAll, Rule, States
<1>3. \A v : Fired(v) => /\ v \in Derived
                         /\ \E i : NonTrivial(program, i) /\ axiomLayer[i] = k /\ program.rules[i].var = v
                                   /\ BodyHolds(program, s, i)
  BY AxiomsOfFacts
<1>. HIDE DEF t, Fired
<1>4. \A v \in Primary \cup Derived : t[v] = IF Fired(v) THEN 1 - Default[v] ELSE s[v]
  BY <1>2
<1>5. t \in States
  <2>1. \A v \in Primary \cup Derived : t[v] \in Values \cup {0, 1} /\ t[v] \in IF v \in Derived THEN {0, 1} ELSE Values
    BY <1>1, <1>3, <1>4 DEF States
  <2>2. t = [v \in Primary \cup Derived |-> t[v]]
    BY <1>2
  <2>. QED
    BY <2>1, <2>2 DEF States
<1>6. Raises(s, t, k)
  BY <1>1, <1>3, <1>4, <1>5 DEF Raises
<1>7. ASSUME NEW i \in g, BodyHolds(program, s, i) PROVE t[program.rules[i].var] = program.rules[i].val
  <2>1. program.rules[i].var \in Derived /\ program.rules[i].val = 1 - Default[program.rules[i].var]
    BY AxiomsOfFacts
  <2>2. CASE CanFire(s, i)
    BY <1>4, <2>1, <2>2 DEF Fired
  <2>3. CASE ~ CanFire(s, i)
    BY <1>4, <1>7, <2>1, <2>3, AxiomsOfFacts
  <2>. QED
    BY <2>2, <2>3
<1>. QED
  BY <1>6, <1>7 DEF t

\* In a layer without fixpoint, an axiom that has been applied need not be applied again.
LEMMA AppliedOnce ==
    ASSUME program \in Programs, AxiomsLayered, NEW k \in Nat, ~ fixpoint[k + 1], NEW s, Partial(s, k),
           NEW t, Raises(s, t, k), NEW i \in AxiomsOf(k), BodyHolds(program, t, i),
           BodyHolds(program, s, i) => t[program.rules[i].var] = program.rules[i].val
    PROVE  t[program.rules[i].var] = program.rules[i].val
<1>1. /\ NonTrivial(program, i) /\ axiomLayer[i] = k
      /\ program.rules[i].var \in Derived
      /\ program.rules[i].val = 1 - Default[program.rules[i].var]
  BY AxiomsOfFacts
<1>2. /\ \A w \in Derived : t[w] \in {0, 1} /\ Default[w] \in {0, 1}
      /\ \A w \in Primary : t[w] = s[w]
  BY ProgramFacts DEF Raises, States
<1>3. CASE t[program.rules[i].var] # s[program.rules[i].var]
  BY <1>1, <1>2, <1>3 DEF Raises
<1>4. CASE t[program.rules[i].var] = s[program.rules[i].var]
  <2>1. ASSUME NEW l \in program.rules[i].body PROVE s[l[1]] = l[2]
    <3>1. t[l[1]] = l[2] /\ l[1] \in Primary \cup Derived
      BY <1>1, ProgramFacts DEF BodyHolds, NonTrivial
    <3>2. CASE l[1] \in Primary
      BY <1>2, <3>1, <3>2
    <3>3. CASE l[1] \in Derived
      <4>1. SUFFICES ASSUME t[l[1]] # s[l[1]] PROVE FALSE
        BY <3>1
      <4>2. PICK j : NonTrivial(program, j) /\ axiomLayer[j] = k /\ program.rules[j].var = l[1]
        BY <3>3, <4>1 DEF Raises
      <4>3. Enables(j, i) /\ i # j
        BY <1>4, <4>1, <4>2, AxiomsOfLayer DEF Enables
      <4>4. axiomLayer[j] < axiomLayer[i]
        BY <1>1, <4>2, <4>3, LayersOrdered
      <4>. QED
        BY <1>1, <4>2, <4>4
    <3>. QED
      BY <3>1, <3>2, <3>3
  <2>. QED
    BY <2>1 DEF BodyHolds
<1>. QED
  BY <1>3, <1>4

-----------------------------------------------------------------------------
(* Operators.                                                              *)

Facts == {l \in (Primary \cup Derived) \X (Values \cup {0, 1}) :
            l[2] \in IF l[1] \in Derived THEN {0, 1} ELSE Values}
Effects == [cond : SUBSET Facts, var : Primary, val : Values]

\* t differs from m by the effects in s whose conditions hold in m, of which the last counts.
Affected(m, effs, s, t) ==
    \A v \in Primary \cup Derived :
       LET fired == {k \in s : effs[k].var = v /\ \A l \in effs[k].cond : m[l[1]] = l[2]}
       IN  /\ fired = {} => t[v] = m[v]
           /\ \A k \in fired : (\A j \in fired : j <= k) => t[v] = effs[k].val

\* One effect more.
ApplyEffect(m, e, t) == IF \A l \in e.cond : m[l[1]] = l[2] THEN [t EXCEPT ![e.var] = e.val] ELSE t

LEMMA EffectApplied ==
    ASSUME NEW m, NEW effs \in Seq(Effects), NEW s \in SUBSET (1 .. Len(effs)), NEW k \in s,
           \A j \in s : j <= k,
           NEW t \in [Primary \cup Derived -> Values \cup {0, 1}],
           Affected(m, effs, s \ {k}, t)
    PROVE  /\ ApplyEffect(m, effs[k], t) \in [Primary \cup Derived -> Values \cup {0, 1}]
           /\ Affected(m, effs, s, ApplyEffect(m, effs[k], t))
<1>. DEFINE q == ApplyEffect(m, effs[k], t)
            Fires(j) == \A l \in effs[j].cond : m[l[1]] = l[2]
            Of(r, v) == {j \in r : effs[j].var = v /\ Fires(j)}
<1>1. effs[k].var \in Primary /\ effs[k].val \in Values
  <2>1. k \in 1 .. Len(effs)
    OBVIOUS
  <2>2. effs[k] \in Effects
    BY <2>1, ElementOf
  <2>. QED
    BY <2>2 DEF Effects
<1>2. q \in [Primary \cup Derived -> Values \cup {0, 1}]
  BY <1>1 DEF ApplyEffect
<1>3. ASSUME NEW v \in Primary \cup Derived
      PROVE  /\ Of(s, v) = {} => q[v] = m[v]
             /\ \A i \in Of(s, v) : (\A j \in Of(s, v) : j <= i) => q[v] = effs[i].val
  <2>1. /\ Of(s \ {k}, v) = {} => t[v] = m[v]
        /\ \A i \in Of(s \ {k}, v) : (\A j \in Of(s \ {k}, v) : j <= i) => t[v] = effs[i].val
    BY DEF Affected
  <2>2. q = IF Fires(k) THEN [t EXCEPT ![effs[k].var] = effs[k].val] ELSE t
    BY DEF ApplyEffect
  <2>. HIDE DEF q, Fires
  <2>3. ASSUME effs[k].var = v, Fires(k)
        PROVE  /\ Of(s, v) = {} => q[v] = m[v]
               /\ \A i \in Of(s, v) : (\A j \in Of(s, v) : j <= i) => q[v] = effs[i].val
    <3>1. q[v] = effs[k].val /\ k \in Of(s, v)
      BY <2>2, <2>3
    <3>2. ASSUME NEW i \in Of(s, v), \A j \in Of(s, v) : j <= i PROVE i = k
      <4>1. k <= i /\ i <= k /\ i \in Nat /\ k \in Nat
        BY <3>1, <3>2
      <4>. QED
        BY <4>1
    <3>. QED
      BY <3>1, <3>2
  <2>4. ASSUME ~ (effs[k].var = v /\ Fires(k))
        PROVE  /\ Of(s, v) = {} => q[v] = m[v]
               /\ \A i \in Of(s, v) : (\A j \in Of(s, v) : j <= i) => q[v] = effs[i].val
    <3>1. q[v] = t[v]
      BY <1>1, <2>2, <2>4
    <3>2. Of(s, v) = Of(s \ {k}, v)
      BY <2>4
    <3>. QED
      BY <2>1, <3>1, <3>2
  <2>. QED
    BY <2>3, <2>4
<1>. HIDE DEF q
<1>4. Affected(m, effs, s, q)
  BY <1>3 DEF Affected
<1>. QED
  BY <1>2, <1>4 DEF q

\* The effects of an operator, in order.
LEMMA EffectsInOrder ==
    ASSUME NEW m \in [Primary \cup Derived -> Values \cup {0, 1}], NEW effs \in Seq(Effects)
    PROVE  LET F == Explicit!FoldLeft(LAMBDA t, e : IF Explicit!Satisfies(m, e.cond)
                                                    THEN [t EXCEPT ![e.var] = e.val] ELSE t, m, effs)
           IN  /\ F \in [Primary \cup Derived -> Values \cup {0, 1}]
               /\ Affected(m, effs, 1 .. Len(effs), F)
<1>. DEFINE A == [Primary \cup Derived -> Values \cup {0, 1}]
            S == 1 .. Len(effs)
            F == Explicit!FoldLeft(LAMBDA t, e : IF Explicit!Satisfies(m, e.cond)
                                                 THEN [t EXCEPT ![e.var] = e.val] ELSE t, m, effs)
            step == [e \in S \X A |-> ApplyEffect(m, effs[e[1]], e[2])]
            first == [s \in SUBSET S |-> Max(s)]
            Value(f, s) == IF s = {} THEN m
                           ELSE IF Explicit!Satisfies(m, effs[Explicit!Max(s)].cond)
                                THEN [f[s \ {Explicit!Max(s)}] EXCEPT
                                         ![effs[Explicit!Max(s)].var] = effs[Explicit!Max(s)].val]
                                ELSE f[s \ {Explicit!Max(s)}]
            FirstValue(f, s) == IF s = {} THEN m ELSE ApplyEffect(m, effs[first[s]], f[s \ {first[s]}])
            IsFold(f) == f = [s \in SUBSET S |-> Value(f, s)]
            IsFirstFold(f) == f = [s \in SUBSET S |-> FirstValue(f, s)]
            iter == CHOOSE f : IsFold(f)
<1>0. Len(effs) \in Nat /\ DOMAIN effs = S
  OBVIOUS
<1>1. F = iter[S]
  BY <1>0 DEF Explicit!FoldLeft, Explicit!MapThenFoldSet
<1>2. \A k \in S : effs[k].var \in Primary /\ effs[k].val \in Values
  <2>1. \A k \in S : effs[k] \in Effects
    BY ElementOf
  <2>. QED
    BY <2>1 DEF Effects
<1>3. /\ step \in [S \X A -> A]
      /\ \A k \in S, a \in A : step[<<k, a>>] = ApplyEffect(m, effs[k], a)
  BY <1>2 DEF ApplyEffect
<1>4. /\ m \in A /\ IsFiniteSet(S)
      /\ \A s \in SUBSET S : s # {} => first[s] \in s /\ \A k \in s : k <= first[s]
      /\ Takes(first, S)
  <2>1. \A s \in SUBSET S : s # {} => first[s] \in s /\ \A k \in s : k <= first[s]
    BY <1>0, GreatestNumber
  <2>2. IsFiniteSet(S)
    BY <1>0, FS_Interval
  <2>. HIDE DEF first, S
  <2>. QED
    BY <2>1, <2>2 DEF Takes
<1>5. \A f : IsFold(f) <=> IsFirstFold(f)
  <2>1. ASSUME NEW f, NEW s \in SUBSET S PROVE Value(f, s) = FirstValue(f, s)
    <3>1. first[s] = Explicit!Max(s)
      BY DEF Explicit!Max, Max
    <3>. HIDE DEF first
    <3>. QED
      BY <3>1 DEF ApplyEffect, Explicit!Satisfies
  <2>. HIDE DEF Value, FirstValue
  <2>. QED
    BY <2>1
<1>. HIDE DEF step, first, IsFold, A, S, F
<1>6. PICK f \in [SUBSET S -> A] : Folds(f, m, step, first, S)
  BY <1>3, <1>4, FoldExists
<1>7. IsFirstFold(f)
  <2>1. ASSUME NEW s \in SUBSET S, s # {}
        PROVE  f[s] = ApplyEffect(m, effs[first[s]], f[s \ {first[s]}])
    <3>1. first[s] \in S /\ s \ {first[s]} \in SUBSET S
      BY <1>4, <2>1
    <3>2. f[s \ {first[s]}] \in A
      BY <3>1
    <3>. QED
      BY <1>3, <1>6, <2>1, <3>1, <3>2 DEF Folds
  <2>. QED
    BY <1>6, <2>1 DEF Folds
<1>8. IsFirstFold(iter)
  <2>1. IsFold(iter)
    BY <1>5, <1>7
  <2>. HIDE DEF iter, IsFirstFold
  <2>. QED
    BY <1>5, <2>1
<1>. HIDE DEF iter
<1>9. /\ iter[{}] = m
      /\ \A s \in SUBSET S : s # {} => iter[s] = ApplyEffect(m, effs[first[s]], iter[s \ {first[s]}])
  BY <1>8
<1>. DEFINE Good == {s \in SUBSET S : iter[s] \in A /\ Affected(m, effs, s, iter[s])}
<1>10. {} \in Good
  BY <1>4, <1>9 DEF Affected
<1>11. \A s \in SUBSET S : s # {} /\ s \ {first[s]} \in Good => s \in Good
  <2>1. ASSUME NEW s \in SUBSET S, s # {}, s \ {first[s]} \in Good
        PROVE  s \in Good
    <3>1. first[s] \in s /\ \A k \in s : k <= first[s]
      BY <1>4, <2>1
    <3>2. iter[s] = ApplyEffect(m, effs[first[s]], iter[s \ {first[s]}])
      BY <1>9, <2>1
    <3>. DEFINE t == iter[s \ {first[s]}]
    <3>3. t \in A /\ Affected(m, effs, s \ {first[s]}, t)
      BY <2>1
    <3>. HIDE DEF t, Good
    <3>4. s \in SUBSET (1 .. Len(effs)) /\ t \in [Primary \cup Derived -> Values \cup {0, 1}]
      BY <3>3 DEF A, S
    <3>5. /\ ApplyEffect(m, effs[first[s]], t) \in [Primary \cup Derived -> Values \cup {0, 1}]
          /\ Affected(m, effs, s, ApplyEffect(m, effs[first[s]], t))
      BY <3>1, <3>3, <3>4, EffectApplied
    <3>6. iter[s] \in A /\ Affected(m, effs, s, iter[s])
      BY <3>2, <3>5 DEF A, t
    <3>. QED
      BY <3>6 DEF Good
  <2>. QED
    BY <2>1
<1>12. Grows(Good, first, S)
  <2>. HIDE DEF Good
  <2>. QED
    BY <1>10, <1>11 DEF Grows
<1>13. S \in Good
  <2>. HIDE DEF Good
  <2>. QED
    BY <1>4, <1>12, FoldInduction
<1>14. F \in A /\ Affected(m, effs, S, F)
  BY <1>1, <1>13
<1>. QED
  BY <1>14 DEF F, A, S

\* The state that a literal of an operator or the goal is evaluated in.
Seen(s) == IF evaluator = "transform" THEN Ext(s) ELSE s
ConditionsKnown == evaluator = "transform" => \A v \in Derived : varBdd[v] = Derivable(v)

\* The primary variables after an operator.
After(m, o) ==
    Explicit!PrimaryPart(Explicit!FoldLeft(
        LAMBDA t, e : IF Explicit!Satisfies(m, e.cond) THEN [t EXCEPT ![e.var] = e.val] ELSE t,
        m, o.effs))

\* A literal is evaluated as it is in the state, or in its extension.
LEMMA HoldsMeaning ==
    ASSUME program \in Programs, ConditionsKnown, NEW s \in States, NEW l \in Facts
    PROVE  Holds(s, l) <=> Seen(s)[l[1]] = l[2]
<1>1. /\ PrimaryPart(s) \in PrimaryStates /\ Ext(s) \in States
      /\ \A v \in Primary : Ext(s)[v] = s[v]
  BY ExtFacts
<1>2. l[1] \in Primary \cup Derived /\ (l[1] \in Derived => l[2] \in {0, 1} /\ Default[l[1]] \in {0, 1})
  BY ProgramFacts DEF Facts
<1>3. CASE evaluator = "transform" /\ l[1] \in Derived
  <2>1. Holds(s, l) <=> PrimaryPart(s) \in WithLiteral(varBdd, l)
    BY <1>3 DEF Holds
  <2>2. l[1] \notin Primary
    BY <1>3, ProgramsAssumption
  <2>3. PrimaryPart(s) \in varBdd[l[1]] <=> Ext(s)[l[1]] # Default[l[1]]
    BY <1>1, <1>3 DEF ConditionsKnown, Derivable, Ext
  <2>4. PrimaryPart(s) \in WithLiteral(varBdd, l) <=>
           IF l[2] = Default[l[1]] THEN Ext(s)[l[1]] = Default[l[1]] ELSE Ext(s)[l[1]] # Default[l[1]]
    BY <1>1, <2>2, <2>3 DEF WithLiteral
  <2>5. Ext(s)[l[1]] \in {0, 1}
    BY <1>1, <1>3 DEF States
  <2>. QED
    BY <1>2, <1>3, <2>1, <2>4, <2>5 DEF Seen
<1>4. CASE ~ (evaluator = "transform" /\ l[1] \in Derived)
  BY <1>1, <1>2, <1>4 DEF Holds, Seen
<1>. QED
  BY <1>3, <1>4

LEMMA OperatorFacts ==
    /\ \A o \in Operators : /\ o.effs \in Seq(Effects) /\ o.pre \subseteq Facts
                            /\ Len(o.effs) \in Nat /\ DOMAIN o.effs = 1 .. Len(o.effs)
                            /\ \A k \in 1 .. Len(o.effs) :
                                  /\ o.effs[k].var \in Primary /\ o.effs[k].val \in Values
                                  /\ o.effs[k].cond \subseteq Facts
    /\ Initial \in PrimaryStates
    /\ Goal \subseteq Facts
<1>1. /\ Operators \subseteq [pre : SUBSET Facts, effs : Seq(Effects)]
      /\ Initial \in PrimaryStates
      /\ Goal \subseteq Facts
  BY TaskAssumption DEF Facts, Effects
<1>2. \A o \in Operators : o.effs \in Seq(Effects) /\ o.pre \subseteq Facts
  BY <1>1
<1>3. ASSUME NEW o \in Operators, NEW k \in 1 .. Len(o.effs)
      PROVE  o.effs[k].var \in Primary /\ o.effs[k].val \in Values /\ o.effs[k].cond \subseteq Facts
  <2>1. o.effs[k] \in Effects
    BY <1>2, ElementOf
  <2>. QED
    BY <2>1 DEF Effects
<1>4. ASSUME NEW o \in Operators PROVE Len(o.effs) \in Nat /\ DOMAIN o.effs = 1 .. Len(o.effs)
  BY <1>2
<1>. QED
  BY <1>1, <1>2, <1>3, <1>4

\* The effect of an operator on a state is that on the explicit state.
LEMMA TargetIsSuccessor ==
    ASSUME program \in Programs, ConditionsKnown, NEW s \in States, NEW o \in Operators
    PROVE  /\ Target(s, o) \in States
           /\ \A v \in Derived : Target(s, o)[v] = s[v]
           /\ PrimaryPart(Target(s, o)) = After(Seen(s), o)
           /\ Explicit!Successor(Seen(s), o) = Extended[program][After(Seen(s), o)]
           /\ HoldAll(s, o.pre) <=> Explicit!Applicable(Seen(s), o)
<1>. DEFINE m == Seen(s)
            q == Target(s, o)
            effs == o.effs
            F == Explicit!FoldLeft(LAMBDA t, e : IF Explicit!Satisfies(m, e.cond)
                                                 THEN [t EXCEPT ![e.var] = e.val] ELSE t, m, effs)
            fired(v) == {k \in 1 .. Len(effs) : effs[k].var = v /\ \A l \in effs[k].cond : m[l[1]] = l[2]}
<1>1. m \in States /\ \A v \in Primary : m[v] = s[v]
  BY ExtFacts DEF Seen
<1>2. /\ effs \in Seq(Effects) /\ Len(effs) \in Nat /\ DOMAIN effs = 1 .. Len(effs)
      /\ \A k \in 1 .. Len(effs) : /\ effs[k].var \in Primary /\ effs[k].val \in Values
                                   /\ effs[k].cond \subseteq Facts
  BY OperatorFacts
<1>3. F \in [Primary \cup Derived -> Values \cup {0, 1}] /\ Affected(m, effs, 1 .. Len(effs), F)
  <2>1. m \in [Primary \cup Derived -> Values \cup {0, 1}]
    BY <1>1 DEF States
  <2>. HIDE DEF m, effs
  <2>. QED
    BY <1>2, <2>1, EffectsInOrder
<1>4. /\ Explicit!Successor(m, o) = Extended[program][Explicit!PrimaryPart(F)]
      /\ After(m, o) = Explicit!PrimaryPart(F)
  BY DEF Explicit!Successor, Explicit!Extension, After
<1>5. HoldAll(s, o.pre) <=> Explicit!Applicable(m, o)
  <2>1. \A l \in o.pre : Holds(s, l) <=> m[l[1]] = l[2]
    BY OperatorFacts, HoldsMeaning
  <2>. HIDE DEF m
  <2>. QED
    BY <2>1 DEF HoldAll, Explicit!Applicable, Explicit!Satisfies
<1>6. \A k \in 1 .. Len(effs) : HoldAll(s, effs[k].cond) <=> \A l \in effs[k].cond : m[l[1]] = l[2]
  BY <1>2, HoldsMeaning DEF HoldAll
<1>. HIDE DEF F, m
<1>7. ASSUME NEW v
      PROVE  Executed(s, o, v) = {k \in fired(v) : \A j \in fired(v) : ~ (j > k)}
  <2>1. \A k : k \in EffectsOn(o, v) <=> k \in 1 .. Len(effs) /\ effs[k].var = v
    BY <1>2 DEF EffectsOn
  <2>2. \A k : k \in fired(v) <=> k \in EffectsOn(o, v) /\ HoldAll(s, effs[k].cond)
    BY <1>6, <2>1
  <2>. HIDE DEF fired
  <2>. QED
    BY <2>2 DEF Executed
<1>8. ASSUME NEW v \in Primary \cup Derived
      PROVE  q[v] = IF fired(v) = {} THEN s[v] ELSE effs[Max(fired(v))].val
  <2>1. v \in DOMAIN s
    BY DEF States
  <2>2. q[v] = IF Executed(s, o, v) = {} THEN s[v] ELSE effs[CHOOSE k \in Executed(s, o, v) : TRUE].val
    BY <2>1 DEF Target
  <2>3. fired(v) \subseteq 1 .. Len(effs)
    OBVIOUS
  <2>. HIDE DEF fired, q
  <2>4. CASE fired(v) = {}
    BY <1>7, <2>2, <2>4
  <2>5. CASE fired(v) # {}
    <3>1. Max(fired(v)) \in fired(v) /\ \A k \in fired(v) : k <= Max(fired(v))
      BY <1>2, <2>3, <2>5, GreatestNumber
    <3>2. \A k \in fired(v) : k \in Int
      BY <1>2, <2>3
    <3>3. Executed(s, o, v) = {Max(fired(v))}
      BY <1>7, <3>1, <3>2
    <3>. QED
      BY <2>2, <2>5, <3>3
  <2>. QED
    BY <2>4, <2>5
<1>9. \A v \in Derived : fired(v) = {}
  BY <1>2, ProgramsAssumption
<1>10. DOMAIN q = Primary \cup Derived
  BY DEF Target, States
<1>11. ASSUME NEW v \in Primary PROVE q[v] = F[v] /\ q[v] \in Values
  <2>1. fired(v) \subseteq 1 .. Len(effs)
    OBVIOUS
  <2>2. /\ fired(v) = {} => F[v] = m[v]
        /\ \A k \in fired(v) : (\A j \in fired(v) : j <= k) => F[v] = effs[k].val
    BY <1>3 DEF Affected
  <2>3. s[v] \in Values
    BY ProgramsAssumption DEF States
  <2>. HIDE DEF fired, q
  <2>4. CASE fired(v) = {}
    BY <1>1, <1>8, <2>2, <2>3, <2>4
  <2>5. CASE fired(v) # {}
    <3>1. Max(fired(v)) \in fired(v) /\ \A k \in fired(v) : k <= Max(fired(v))
      BY <1>2, <2>1, <2>5, GreatestNumber
    <3>. QED
      BY <1>2, <1>8, <2>1, <2>2, <2>5, <3>1
  <2>. QED
    BY <2>4, <2>5
<1>12. \A v \in Derived : q[v] = s[v] /\ q[v] \in {0, 1}
  <2>. HIDE DEF q, fired
  <2>. QED
    BY <1>8, <1>9 DEF States
<1>13. q \in States
  <2>1. q = [v \in Primary \cup Derived |-> q[v]]
    BY <1>10 DEF Target
  <2>. HIDE DEF q
  <2>2. \A v \in Primary \cup Derived :
           q[v] \in Values \cup {0, 1} /\ q[v] \in IF v \in Derived THEN {0, 1} ELSE Values
    BY <1>11, <1>12
  <2>. QED
    BY <2>1, <2>2 DEF States
<1>14. PrimaryPart(q) = Explicit!PrimaryPart(F)
  BY <1>11 DEF PrimaryPart, Explicit!PrimaryPart
<1>. QED
  BY <1>4, <1>5, <1>12, <1>13, <1>14 DEF m

\* The states whose derived variables are those of their extension; sets of states in which
\* derived variables are not constrained.
Valid(ss) == {s \in ss : s = Ext(s)}
Free(ss) == ss \subseteq States /\ \A s \in ss, t \in States : PrimaryPart(s) = PrimaryPart(t) => t \in ss

\* The state with the primary variables of s and the derived ones of t.
Mixed(s, t) == [v \in Primary \cup Derived |-> IF v \in Derived THEN t[v] ELSE s[v]]

LEMMA MixedFacts ==
    ASSUME NEW s \in States, NEW t \in States
    PROVE  /\ Mixed(s, t) \in States
           /\ PrimaryPart(Mixed(s, t)) = PrimaryPart(s)
           /\ \A v \in Derived : Mixed(s, t)[v] = t[v]
<1>. DEFINE q == Mixed(s, t)
<1>1. /\ q = [v \in Primary \cup Derived |-> q[v]]
      /\ \A v \in Primary : q[v] = s[v]
      /\ \A v \in Derived : q[v] = t[v]
  BY ProgramsAssumption DEF Mixed
<1>. HIDE DEF q
<1>2. \A v \in Primary \cup Derived :
         q[v] \in Values \cup {0, 1} /\ q[v] \in IF v \in Derived THEN {0, 1} ELSE Values
  BY <1>1, ProgramsAssumption DEF States
<1>3. q \in States
  BY <1>1, <1>2 DEF States
<1>. QED
  BY <1>1, <1>3, PrimaryParts DEF q

\* Two states with the same variables are the same.
LEMMA SameState ==
    ASSUME NEW s \in States, NEW t \in States, PrimaryPart(s) = PrimaryPart(t), \A v \in Derived : s[v] = t[v]
    PROVE  s = t
<1>1. \A v \in Primary : s[v] = t[v]
  BY PrimaryParts
<1>. QED
  BY <1>1 DEF States

\* What an operator does to an extension, with "transform": whatever the values of the derived
\* variables are, it does the same to the primary ones.
LEMMA FreeTarget ==
    ASSUME program \in Programs, ConditionsKnown, evaluator = "transform",
           NEW s \in States, NEW o \in Operators
    PROVE  /\ Ext(s) \in States /\ Ext(Ext(s)) = Ext(s)
           /\ Explicit!Successor(Ext(s), o) = Ext(Target(s, o))
           /\ HoldAll(s, o.pre) <=> Explicit!Applicable(Ext(s), o)
           /\ \A t \in States : PrimaryPart(t) = PrimaryPart(s) =>
                 /\ HoldAll(t, o.pre) <=> HoldAll(s, o.pre)
                 /\ PrimaryPart(Target(t, o)) = PrimaryPart(Target(s, o))
<1>1. Ext(s) \in States /\ PrimaryPart(Ext(s)) = PrimaryPart(s)
  BY ExtFacts
<1>2. \A t \in States : PrimaryPart(t) = PrimaryPart(s) => Seen(t) = Ext(s)
  BY DEF Seen, Ext
<1>3. Ext(Ext(s)) = Ext(s) /\ Seen(s) = Ext(s)
  BY <1>1 DEF Ext, Seen
<1>4. Explicit!Successor(Ext(s), o) = Ext(Target(s, o))
  <2>1. /\ PrimaryPart(Target(s, o)) = After(Ext(s), o)
        /\ Explicit!Successor(Ext(s), o) = Extended[program][After(Ext(s), o)]
    BY <1>3, TargetIsSuccessor
  <2>. QED
    BY <2>1 DEF Ext
<1>5. HoldAll(s, o.pre) <=> Explicit!Applicable(Ext(s), o)
  BY <1>3, TargetIsSuccessor
<1>6. ASSUME NEW t \in States, PrimaryPart(t) = PrimaryPart(s)
      PROVE  /\ HoldAll(t, o.pre) <=> HoldAll(s, o.pre)
             /\ PrimaryPart(Target(t, o)) = PrimaryPart(Target(s, o))
  <2>1. Seen(t) = Seen(s)
    BY <1>2, <1>3, <1>6
  <2>. QED
    BY <2>1, TargetIsSuccessor
<1>. QED
  BY <1>1, <1>3, <1>4, <1>5, <1>6

\* Membership in images.
LEMMA InImage ==
    \A ss, os, t : t \in Image(ss, os) <=>
       \E s \in ss, o \in os : HoldAll(s, o.pre) /\ t = Target(s, o)
<1>1. ASSUME NEW ss, NEW os, NEW t
      PROVE  t \in Image(ss, os) <=> \E s \in ss, o \in os : HoldAll(s, o.pre) /\ t = Target(s, o)
  <2>1. ASSUME t \in Image(ss, os) PROVE \E s \in ss, o \in os : HoldAll(s, o.pre) /\ t = Target(s, o)
    <3>1. PICK x \in ss \X os : HoldAll(x[1], x[2].pre) /\ t = Target(x[1], x[2])
      BY <2>1 DEF Image
    <3>. QED
      BY <3>1
  <2>2. ASSUME NEW s \in ss, NEW o \in os, HoldAll(s, o.pre), t = Target(s, o) PROVE t \in Image(ss, os)
    <3>1. <<s, o>> \in {y \in ss \X os : HoldAll(y[1], y[2].pre)}
      BY <2>2
    <3>2. t = Target(<<s, o>>[1], <<s, o>>[2])
      BY <2>2
    <3>. QED
      BY <3>1, <3>2 DEF Image
  <2>. QED
    BY <2>1, <2>2
<1>. QED
  BY <1>1

LEMMA InSuccessors ==
    \A ss, os, t : t \in Explicit!Successors(ss, os) <=>
       \E s \in ss, o \in os : Explicit!Applicable(s, o) /\ t = Explicit!Successor(s, o)
<1>1. ASSUME NEW ss, NEW os, NEW t
      PROVE  t \in Explicit!Successors(ss, os) <=>
                \E s \in ss, o \in os : Explicit!Applicable(s, o) /\ t = Explicit!Successor(s, o)
  <2>1. ASSUME t \in Explicit!Successors(ss, os)
        PROVE  \E s \in ss, o \in os : Explicit!Applicable(s, o) /\ t = Explicit!Successor(s, o)
    <3>1. PICK x \in ss \X os : Explicit!Applicable(x[1], x[2]) /\ t = Explicit!Successor(x[1], x[2])
      BY <2>1 DEF Explicit!Successors
    <3>. QED
      BY <3>1
  <2>2. ASSUME NEW s \in ss, NEW o \in os, Explicit!Applicable(s, o), t = Explicit!Successor(s, o)
        PROVE  t \in Explicit!Successors(ss, os)
    <3>1. <<s, o>> \in {y \in ss \X os : Explicit!Applicable(y[1], y[2])}
      BY <2>2
    <3>2. t = Explicit!Successor(<<s, o>>[1], <<s, o>>[2])
      BY <2>2
    <3>. QED
      BY <3>1, <3>2 DEF Explicit!Successors
  <2>. QED
    BY <2>1, <2>2
<1>. QED
  BY <1>1

\* Images without "transform": those of extensions, once the axioms have been applied.
LEMMA ImageOfExtensions ==
    ASSUME program \in Programs, evaluator # "transform", NEW ss, \A s \in ss : s \in States /\ s = Ext(s),
           NEW os \in SUBSET Operators
    PROVE  /\ Image(ss, os) \subseteq States
           /\ {Ext(t) : t \in Image(ss, os)} = Explicit!Successors(ss, os)
<1>1. ASSUME NEW s \in ss, NEW o \in os
      PROVE  /\ Target(s, o) \in States
             /\ Explicit!Successor(s, o) = Ext(Target(s, o))
             /\ HoldAll(s, o.pre) <=> Explicit!Applicable(s, o)
  <2>1. Seen(s) = s /\ ConditionsKnown /\ s \in States
    BY DEF Seen, ConditionsKnown
  <2>2. /\ Target(s, o) \in States
        /\ PrimaryPart(Target(s, o)) = After(s, o)
        /\ Explicit!Successor(s, o) = Extended[program][After(s, o)]
        /\ HoldAll(s, o.pre) <=> Explicit!Applicable(s, o)
    BY <2>1, TargetIsSuccessor
  <2>. QED
    BY <2>2 DEF Ext
<1>2. Image(ss, os) \subseteq States
  BY <1>1, InImage
<1>3. ASSUME NEW q PROVE (\E t \in Image(ss, os) : q = Ext(t)) <=> q \in Explicit!Successors(ss, os)
  BY <1>1, InImage, InSuccessors
<1>. QED
  BY <1>2, <1>3

\* Images with "transform".
LEMMA ImageOfFree ==
    ASSUME program \in Programs, ConditionsKnown, evaluator = "transform", NEW ss, Free(ss),
           NEW os \in SUBSET Operators
    PROVE  /\ Free(Image(ss, os))
           /\ Valid(Image(ss, os)) = Explicit!Successors(Valid(ss), os)
<1>1. ss \subseteq States /\ \A s \in ss, t \in States : PrimaryPart(s) = PrimaryPart(t) => t \in ss
  BY DEF Free
<1>2. ASSUME NEW q \in Image(ss, os) PROVE q \in States
  BY <1>1, <1>2, InImage, TargetIsSuccessor
<1>3. ASSUME NEW q \in Image(ss, os), NEW t \in States, PrimaryPart(q) = PrimaryPart(t)
      PROVE  t \in Image(ss, os)
  <2>1. PICK s \in ss, o \in os : HoldAll(s, o.pre) /\ q = Target(s, o)
    BY InImage
  <2>2. s \in States
    BY <1>1
  <2>. DEFINE u == Mixed(s, t)
  <2>3. u \in States /\ PrimaryPart(u) = PrimaryPart(s) /\ \A v \in Derived : u[v] = t[v]
    BY <2>2, MixedFacts
  <2>. HIDE DEF u
  <2>4. u \in ss
    BY <1>1, <2>3
  <2>5. HoldAll(u, o.pre) /\ PrimaryPart(Target(u, o)) = PrimaryPart(t)
    BY <1>3, <2>1, <2>2, <2>3, FreeTarget
  <2>6. Target(u, o) \in States /\ \A v \in Derived : Target(u, o)[v] = t[v]
    BY <2>3, TargetIsSuccessor
  <2>7. Target(u, o) = t
    BY <2>5, <2>6, SameState
  <2>. QED
    BY <2>4, <2>5, <2>7, InImage
<1>4. ASSUME NEW q, q \in Valid(Image(ss, os)) PROVE q \in Explicit!Successors(Valid(ss), os)
  <2>1. q \in Image(ss, os) /\ q = Ext(q)
    BY <1>4 DEF Valid
  <2>2. PICK s \in ss, o \in os : HoldAll(s, o.pre) /\ q = Target(s, o)
    BY <2>1, InImage
  <2>3. s \in States
    BY <1>1
  <2>4. /\ Ext(s) \in States /\ Ext(Ext(s)) = Ext(s) /\ PrimaryPart(Ext(s)) = PrimaryPart(s)
        /\ Explicit!Successor(Ext(s), o) = q /\ Explicit!Applicable(Ext(s), o)
    BY <2>1, <2>2, <2>3, FreeTarget, ExtFacts
  <2>5. Ext(s) \in Valid(ss)
    BY <1>1, <2>3, <2>4 DEF Valid
  <2>. QED
    BY <2>4, <2>5, InSuccessors
<1>5. ASSUME NEW q, q \in Explicit!Successors(Valid(ss), os) PROVE q \in Valid(Image(ss, os))
  <2>1. PICK s \in Valid(ss), o \in os : Explicit!Applicable(s, o) /\ q = Explicit!Successor(s, o)
    BY <1>5, InSuccessors
  <2>2. s \in ss /\ s = Ext(s) /\ s \in States
    BY <1>1 DEF Valid
  <2>3. HoldAll(s, o.pre) /\ q = Ext(Target(s, o)) /\ Target(s, o) \in States
    BY <2>1, <2>2, FreeTarget, TargetIsSuccessor
  <2>4. Target(s, o) \in Image(ss, os)
    BY <2>2, <2>3, InImage
  <2>5. q \in States /\ PrimaryPart(q) = PrimaryPart(Target(s, o))
    BY <2>3, ExtFacts
  <2>6. q \in Image(ss, os)
    BY <1>3, <2>4, <2>5
  <2>7. q = Ext(q)
    BY <2>3, <2>5 DEF Ext
  <2>. QED
    BY <2>6, <2>7 DEF Valid
<1>. QED
  BY <1>2, <1>3, <1>4, <1>5 DEF Free

\* Preimages with "transform".
LEMMA PreimageOfFree ==
    ASSUME program \in Programs, ConditionsKnown, evaluator = "transform", NEW ss, Free(ss),
           NEW os \in SUBSET Operators
    PROVE  /\ Free(Preimage(ss, os))
           /\ Valid(Preimage(ss, os)) = Explicit!Predecessors(Valid(ss), os)
<1>1. ss \subseteq States /\ \A s \in ss, t \in States : PrimaryPart(s) = PrimaryPart(t) => t \in ss
  BY DEF Free
<1>2. \A s : s \in Preimage(ss, os) <=>
         s \in States /\ \E o \in os : HoldAll(s, o.pre) /\ Target(s, o) \in ss
  BY TaskMeaning DEF Preimage
<1>3. ASSUME NEW s \in Preimage(ss, os), NEW t \in States, PrimaryPart(s) = PrimaryPart(t)
      PROVE  t \in Preimage(ss, os)
  <2>1. s \in States
    BY <1>2
  <2>2. PICK o \in os : HoldAll(s, o.pre) /\ Target(s, o) \in ss
    BY <1>2
  <2>3. HoldAll(t, o.pre) /\ PrimaryPart(Target(t, o)) = PrimaryPart(Target(s, o)) /\ Target(t, o) \in States
    BY <1>3, <2>1, <2>2, FreeTarget, TargetIsSuccessor
  <2>4. Target(t, o) \in ss
    BY <1>1, <2>2, <2>3
  <2>. QED
    BY <1>2, <2>3, <2>4
<1>4. ASSUME NEW s
      PROVE  s \in Valid(Preimage(ss, os)) <=> s \in Explicit!Predecessors(Valid(ss), os)
  <2>1. s \in Explicit!States <=> s \in States /\ s = Ext(s)
    <3>1. ASSUME s \in Explicit!States PROVE s \in States /\ s = Ext(s)
      <4>1. PICK x \in PrimaryStates : s = Extended[program][x]
        BY <3>1 DEF Explicit!States, Explicit!PrimaryStates, PrimaryStates
      <4>. QED
        BY <4>1, MeaningOfTask DEF Ext
    <3>2. ASSUME s \in States, s = Ext(s) PROVE s \in Explicit!States
      <4>1. PrimaryPart(s) \in Explicit!PrimaryStates /\ s = Extended[program][PrimaryPart(s)]
        BY <3>2, ExtFacts DEF Explicit!PrimaryStates, PrimaryStates, Ext
      <4>. QED
        BY <4>1 DEF Explicit!States
    <3>. QED
      BY <3>1, <3>2
  <2>2. ASSUME s \in States, s = Ext(s), NEW o \in os
        PROVE  HoldAll(s, o.pre) /\ Target(s, o) \in ss <=>
                  Explicit!Applicable(s, o) /\ Explicit!Successor(s, o) \in Valid(ss)
    <3>1. (HoldAll(s, o.pre) <=> Explicit!Applicable(s, o)) /\ Explicit!Successor(s, o) = Ext(Target(s, o))
      BY <2>2, FreeTarget
    <3>2. Target(s, o) \in States
      BY <2>2, TargetIsSuccessor
    <3>3. /\ Ext(Target(s, o)) \in States /\ PrimaryPart(Ext(Target(s, o))) = PrimaryPart(Target(s, o))
          /\ Ext(Ext(Target(s, o))) = Ext(Target(s, o))
      BY <3>2, ExtFacts DEF Ext
    <3>4. Ext(Target(s, o)) \in ss <=> Target(s, o) \in ss
      BY <1>1, <3>2, <3>3
    <3>. QED
      BY <3>1, <3>3, <3>4 DEF Valid
  <2>3. s \in Explicit!Predecessors(Valid(ss), os) <=>
           s \in Explicit!States /\ \E o \in os : Explicit!Applicable(s, o)
                                                 /\ Explicit!Successor(s, o) \in Valid(ss)
    BY DEF Explicit!Predecessors
  <2>4. s \in Valid(Preimage(ss, os)) <=>
           s \in States /\ s = Ext(s) /\ \E o \in os : HoldAll(s, o.pre) /\ Target(s, o) \in ss
    BY <1>2 DEF Valid
  <2>. QED
    BY <2>1, <2>2, <2>3, <2>4
<1>. QED
  BY <1>2, <1>3, <1>4 DEF Free

-----------------------------------------------------------------------------
(* The evaluators that run the axioms on sets of states.                   *)

\* The states that the axioms are applied to: the initial state, or the last image.
Expected ==
    IF ~ started THEN InitialBdd
    ELSE IF backward THEN Preimage(bdd, operators) ELSE Image(bdd, operators)
Sources == {PrimaryPart(s) : s \in Expected}

\* The states of ss come from those, and none of those is lost.
OnTheWay(ss, k) == \A s \in ss : Partial(s, k) /\ PrimaryPart(s) \in Sources
Covers(ss) == \A x \in Sources : \E s \in ss : PrimaryPart(s) = x

\* Of the axioms of layer k, those in done can no longer be applied in s.
Satisfied(s, done) == \A i \in done : BodyHolds(program, s, i) => s[program.rules[i].var] = program.rules[i].val

\* The evaluator on transitions has kept s as done or will go on from it, and has reached what
\* the axioms of layer k make of it, except for those in left.
Processed(s, left, k) ==
    /\ s \in curRes \/ \E i \in AxiomsOf(k) : CanFire(s, i)
    /\ \A i \in AxiomsOf(k) \ left : CanFire(s, i) => FireOne(s, i) \in closed \cup cur

\* A layer without fixpoint.
OnceInv ==
    /\ layer < Len(fixpoint) /\ ~ fixpoint[layer + 1] /\ evaluator # "interleaved"
    /\ pending \subseteq AxiomsOf(layer)
    /\ OnTheWay(cur, layer) /\ Covers(cur)
    /\ \A s \in cur : Satisfied(s, AxiomsOf(layer) \ pending)

\* A layer with one: closed are the states that the evaluator on transitions has been at.
LoopInv ==
    /\ layer < Len(fixpoint)
    /\ OnTheWay(cur, layer) /\ OnTheWay(curRes, layer)
    /\ \A s \in curRes : Satisfied(s, AxiomsOf(layer))
    /\ pc = "round" => pending \subseteq AxiomsOf(layer)
    /\ evaluator # "interleaved" => Covers(cur \cup curRes)
    /\ evaluator = "interleaved" =>
          /\ OnTheWay(closed, layer) /\ Covers(closed)
          /\ pc = "loop" => cur \subseteq closed /\ \A s \in closed \ cur : Processed(s, {}, layer)
          /\ pc = "round" => \A s \in closed : Processed(s, IF s \in cur THEN pending ELSE {}, layer)

FixpointPhases == {"layer", "loop", "round", "once"}
FixpointInv ==
    pc \in FixpointPhases =>
       /\ layer \in 0 .. Len(fixpoint)
       /\ pc = "layer" => OnTheWay(cur, layer) /\ Covers(cur)
       /\ pc = "once" => OnceInv
       /\ pc \in {"loop", "round"} => LoopInv

\* A state in which no axiom of a layer can be applied is done with that layer.
LEMMA LayerClosed ==
    ASSUME program \in Programs, AxiomsLayered, NEW k \in Nat, NEW s, Partial(s, k),
           Satisfied(s, AxiomsOf(k))
    PROVE  Partial(s, k + 1)
<1>1. ASSUME NEW i, NonTrivial(program, i), axiomLayer[i] < k + 1, BodyHolds(program, s, i)
      PROVE  s[program.rules[i].var] = program.rules[i].val
  <2>1. axiomLayer[i] \in Nat
    BY <1>1, LayersOrdered
  <2>2. CASE axiomLayer[i] < k
    BY <1>1, <2>2 DEF Partial, ClosedBelow
  <2>3. CASE axiomLayer[i] = k
    BY <1>1, <2>3, AxiomsOfFacts DEF Satisfied
  <2>. QED
    BY <1>1, <2>1, <2>2, <2>3
<1>. QED
  BY <1>1 DEF Partial, ClosedBelow

\* All axioms leave a state to its extension.
LEMMA LayersClosed ==
    ASSUME program \in Programs, AxiomsLayered, Len(fixpoint) \in Nat, NEW s, Partial(s, Len(fixpoint))
    PROVE  s = Ext(s)
<1>1. s \in States /\ Ext(s) \in States /\ PrimaryPart(Ext(s)) = PrimaryPart(s)
  BY ExtFacts DEF Partial
<1>2. \A i : NonTrivial(program, i) => axiomLayer[i] < Len(fixpoint)
  BY LayersOrdered
<1>3. \A v \in Derived : s[v] = Ext(s)[v]
  BY <1>2, KnownBelow
<1>. QED
  BY <1>1, <1>3, SameState

\* From every state, the transitions reach one in which no axiom of the layer can be applied.
LEMMA SomeIsDone ==
    ASSUME program \in Programs, NEW k \in Nat, OnTheWay(closed, k), Covers(closed), cur = {},
           \A s \in closed : Processed(s, {}, k)
    PROVE  Covers(curRes)
<1>. SUFFICES ASSUME NEW x \in Sources, \A s \in curRes : PrimaryPart(s) # x
              PROVE  FALSE
  BY DEF Covers
<1>. DEFINE Off(s) == {v \in Derived : s[v] = Default[v]}
            From == {s \in closed : PrimaryPart(s) = x}
            Counts == {Cardinality(Off(s)) : s \in From}
<1>1. \A s : IsFiniteSet(Off(s)) /\ Cardinality(Off(s)) \in Nat
  BY ProgramsAssumption, FS_Subset, FS_CardinalityType
<1>2. Counts \subseteq Nat /\ Counts # {}
  <2>1. PICK s \in closed : PrimaryPart(s) = x
    BY DEF Covers
  <2>. QED
    BY <1>1, <2>1
<1>. HIDE DEF Off
<1>3. PICK s \in From : \A t \in From : Cardinality(Off(s)) <= Cardinality(Off(t))
  <2>. HIDE DEF From
  <2>1. Min(Counts) \in Counts /\ \A n \in Counts : Min(Counts) <= n
    BY <1>2, LeastNumber
  <2>. QED
    BY <2>1
<1>4. s \in closed /\ PrimaryPart(s) = x /\ Partial(s, k) /\ s \in States
  BY <1>3 DEF OnTheWay, Partial
<1>5. PICK i \in AxiomsOf(k) : CanFire(s, i)
  BY <1>4 DEF Processed
<1>. DEFINE t == FireOne(s, i)
<1>6. Raises(s, t, k) /\ t[program.rules[i].var] = program.rules[i].val
  BY <1>4, <1>5, FireOneRaises
<1>7. t \in closed
  BY <1>4, <1>5 DEF Processed
<1>. HIDE DEF t
<1>8. t \in From
  BY <1>4, <1>7, <1>6, PrimaryParts DEF Raises
<1>9. /\ program.rules[i].var \in Derived /\ program.rules[i].val # Default[program.rules[i].var]
      /\ s[program.rules[i].var] # program.rules[i].val
      /\ program.rules[i].val \in {0, 1} /\ Default[program.rules[i].var] \in {0, 1}
  BY <1>5, AxiomsOfFacts, ProgramFacts DEF NonTrivial
<1>10. program.rules[i].var \in Off(s) \ Off(t)
  BY <1>4, <1>6, <1>9 DEF Off, States
<1>11. Off(t) \subseteq Off(s)
  BY <1>6 DEF Raises, Off
<1>12. Cardinality(Off(t)) <= Cardinality(Off(s)) /\ Cardinality(Off(t)) # Cardinality(Off(s))
  BY <1>1, <1>10, <1>11, FS_Subset
<1>. QED
  BY <1>1, <1>3, <1>8, <1>12

Chosen(S) == CHOOSE k \in S : TRUE

\* Images depend on the axioms and their conditions only.
LEMMA SameImages ==
    ASSUME UNCHANGED <<program, evaluator, varBdd>>
    PROVE  /\ \A ss, os : Image(ss, os)' = Image(ss, os)
           /\ \A ss, os : Preimage(ss, os)' = Preimage(ss, os)
<1>1. \A s, l : Holds(s, l)' <=> Holds(s, l)
  BY DEF Holds, WithLiteral
<1>2. \A s, ls : HoldAll(s, ls)' <=> HoldAll(s, ls)
  BY <1>1 DEF HoldAll
<1>3. \A s, o, v : Executed(s, o, v)' = Executed(s, o, v)
  BY <1>2 DEF Executed, EffectsOn
<1>4. \A s, o : Target(s, o)' = Target(s, o)
  <2>1. \A s, o : Target(s, o) = [v \in DOMAIN s |-> IF Executed(s, o, v) = {} THEN s[v]
                                                     ELSE o.effs[Chosen(Executed(s, o, v))].val]
    BY DEF Target, Chosen
  <2>2. \A s, o : Target(s, o)' = [v \in DOMAIN s |-> IF Executed(s, o, v)' = {} THEN s[v]
                                                      ELSE o.effs[Chosen(Executed(s, o, v)')].val]
    BY DEF Target, Chosen
  <2>. QED
    BY <1>3, <2>1, <2>2
<1>5. \A ss, os : Image(ss, os)' = Image(ss, os)
  BY <1>2, <1>4 DEF Image
<1>6. \A ss, os : Preimage(ss, os)' = Preimage(ss, os)
  BY <1>2, <1>4 DEF Preimage
<1>. QED
  BY <1>5, <1>6

\* While the axioms are applied, they and the states they are applied to stay the same.
Kept == UNCHANGED <<program, evaluator, backward, axiomLayer, fixpoint, varBdd, bdd, started, operators>>

LEMMA SameFixpoint ==
    ASSUME Kept
    PROVE  /\ Expected' = Expected
           /\ \A ss, k : OnTheWay(ss, k)' <=> OnTheWay(ss, k)
           /\ \A ss : Covers(ss)' <=> Covers(ss)
           /\ \A s, done : Satisfied(s, done)' <=> Satisfied(s, done)
           /\ \A k : AxiomsOf(k)' = AxiomsOf(k)
           /\ \A s, i : CanFire(s, i)' <=> CanFire(s, i)
           /\ \A s, i : FireOne(s, i)' = FireOne(s, i)
<1>1. Expected' = Expected
  BY SameImages DEF Kept, Expected, InitialBdd
<1>2. Sources' = Sources
  BY <1>1 DEF Sources
<1>3. \A s, k : Partial(s, k)' <=> Partial(s, k)
  BY DEF Kept, Partial, ClosedBelow, Ext
<1>4. \A ss, k : OnTheWay(ss, k)' <=> OnTheWay(ss, k)
  BY <1>2, <1>3 DEF OnTheWay
<1>5. \A ss : Covers(ss)' <=> Covers(ss)
  BY <1>2 DEF Covers
<1>6. \A s, done : Satisfied(s, done)' <=> Satisfied(s, done)
  BY DEF Kept, Satisfied
<1>7. /\ \A k : AxiomsOf(k)' = AxiomsOf(k)
      /\ \A s, i : CanFire(s, i)' <=> CanFire(s, i)
      /\ \A s, i : FireOne(s, i)' = FireOne(s, i)
  BY DEF Kept, AxiomsOf, CanFire, FireOne, Rule, RuleIds, Layered!RuleIds, Layered!Trivial
<1>. QED
  BY <1>1, <1>4, <1>5, <1>6, <1>7

\* What the lemmas above need.
AxiomsReady == program \in Programs /\ AxiomsLayered /\ fixpoint \in Seq(BOOLEAN)

\* The derived variables are set to their defaults.
LEMMA ApplyFixpointStep ==
    ASSUME AxiomsReady, ApplyFixpoint, cur = Expected, cur \subseteq States
    PROVE  FixpointInv'
<1>1. /\ Kept /\ layer' = 0 /\ pc' = "layer" /\ cur' = SetToDefault(cur) /\ fixpoint' = fixpoint
  BY DEF ApplyFixpoint, Kept, Goto, choice, stratification, search
<1>2. program \in Programs /\ Len(fixpoint) \in Nat
  BY DEF AxiomsReady
<1>3. Assignments = States
  BY <1>2, TaskMeaning
<1>4. \A i : NonTrivial(program, i) => axiomLayer[i] \in Nat
  BY LayersOrdered DEF AxiomsReady
<1>5. ASSUME NEW s \in SetToDefault(cur) PROVE Partial(s, 0) /\ PrimaryPart(s) \in Sources
  BY <1>3, <1>4, <1>5 DEF SetToDefault, WithPrimaryOf, Partial, ClosedBelow, Sources
<1>6. ASSUME NEW x \in Sources PROVE \E s \in SetToDefault(cur) : PrimaryPart(s) = x
  <2>1. PICK t \in cur : PrimaryPart(t) = x
    BY DEF Sources
  <2>. DEFINE s == [v \in Primary \cup Derived |-> IF v \in Derived THEN Default[v] ELSE t[v]]
  <2>2. t \in States /\ Primary \cap Derived = {} /\ \A v \in Derived : Default[v] \in {0, 1}
    BY ProgramsAssumption
  <2>3. s \in States /\ (\A v \in Primary : s[v] = t[v]) /\ \A v \in Derived : s[v] = Default[v]
    BY <2>2 DEF States
  <2>. HIDE DEF s
  <2>4. PrimaryPart(s) = PrimaryPart(t)
    BY <2>2, <2>3, PrimaryParts
  <2>. QED
    BY <1>3, <2>1, <2>3, <2>4 DEF SetToDefault, WithPrimaryOf
<1>7. OnTheWay(cur', 0) /\ Covers(cur')
  BY <1>1, <1>5, <1>6 DEF OnTheWay, Covers
<1>8. OnTheWay(cur, layer)' /\ Covers(cur)'
  BY <1>1, <1>7, SameFixpoint
<1>. QED
  BY <1>1, <1>2, <1>8 DEF FixpointInv

LEMMA EnterLayerStep ==
    ASSUME AxiomsReady, FixpointInv, EnterLayer
    PROVE  FixpointInv'
<1>1. /\ Kept /\ layer' = layer /\ cur' = cur /\ fixpoint' = fixpoint /\ evaluator' = evaluator
      /\ pc = "layer" /\ layer < Len(fixpoint)
  BY DEF EnterLayer, Kept, choice, stratification, search
<1>2. Len(fixpoint) \in Nat /\ layer \in 0 .. Len(fixpoint) /\ OnTheWay(cur, layer) /\ Covers(cur)
  BY <1>1 DEF AxiomsReady, FixpointInv, FixpointPhases
<1>3. OnTheWay(cur, layer)' /\ Covers(cur)'
  BY <1>1, <1>2, SameFixpoint
<1>4. CASE evaluator = "interleaved" \/ fixpoint[layer + 1]
  <2>1. /\ closed' = IF evaluator = "interleaved" THEN cur ELSE {}
        /\ curRes' = {} /\ pc' = "loop"
    BY <1>4 DEF EnterLayer, Goto
  <2>2. OnTheWay(curRes, layer)'
    BY <2>1 DEF OnTheWay
  <2>3. (\A s \in curRes : Satisfied(s, AxiomsOf(layer)))'
    BY <2>1
  <2>4. (evaluator # "interleaved" => Covers(cur \cup curRes))'
    <3>1. cur' \cup curRes' = cur'
      BY <2>1
    <3>. QED
      BY <1>3, <3>1
  <2>5. (evaluator = "interleaved" => OnTheWay(closed, layer) /\ Covers(closed))'
    BY <1>1, <1>3, <2>1
  <2>6. (evaluator = "interleaved" => cur \subseteq closed /\ \A s \in closed \ cur : Processed(s, {}, layer))'
    BY <1>1, <2>1
  <2>7. LoopInv'
    BY <1>1, <1>3, <2>1, <2>2, <2>3, <2>4, <2>5, <2>6 DEF LoopInv
  <2>. QED
    BY <1>1, <1>2, <2>1, <2>7 DEF FixpointInv
<1>5. CASE ~(evaluator = "interleaved" \/ fixpoint[layer + 1])
  <2>1. pending' = AxiomsOf(layer) /\ pc' = "once"
    BY <1>5 DEF EnterLayer, Goto
  <2>2. pending' = AxiomsOf(layer)'
    BY <1>1, <2>1, SameFixpoint
  <2>3. (\A s \in cur : Satisfied(s, AxiomsOf(layer) \ pending))'
    BY <2>2 DEF Satisfied
  <2>4. OnceInv'
    BY <1>1, <1>3, <1>5, <2>2, <2>3 DEF OnceInv
  <2>. QED
    BY <1>1, <1>2, <2>1, <2>4 DEF FixpointInv
<1>. QED
  BY <1>4, <1>5

LEMMA NextRoundStep ==
    ASSUME AxiomsReady, FixpointInv, NextRound
    PROVE  FixpointInv'
<1>1. /\ Kept /\ layer' = layer /\ fixpoint' = fixpoint /\ evaluator' = evaluator /\ closed' = closed
      /\ curRes' = curRes \cup Removed(cur)
      /\ cur' = IF evaluator = "interleaved" THEN cur ELSE cur \ Removed(cur)
      /\ pending' = IF cur' = {} THEN {} ELSE AxiomsOf(layer)
      /\ pc = "loop" /\ pc' = "round" /\ cur # {}
  BY DEF NextRound, Kept, Goto, choice, stratification, search
<1>2. LoopInv /\ layer \in 0 .. Len(fixpoint)
  BY <1>1 DEF FixpointInv, FixpointPhases
<1>3. program \in Programs
  BY DEF AxiomsReady
<1>4. /\ Removed(cur) \subseteq cur
      /\ \A s \in Removed(cur) : Satisfied(s, AxiomsOf(layer))
      /\ \A s \in cur \ Removed(cur) : \E i \in AxiomsOf(layer) : CanFire(s, i)
  BY <1>3, AxiomsOfFacts DEF Removed, Satisfied
<1>5. OnTheWay(cur', layer) /\ OnTheWay(curRes', layer) /\ \A s \in curRes' : Satisfied(s, AxiomsOf(layer))
  BY <1>1, <1>2, <1>4 DEF LoopInv, OnTheWay
<1>6. OnTheWay(cur, layer)' /\ OnTheWay(curRes, layer)' /\ (\A s \in curRes : Satisfied(s, AxiomsOf(layer)))'
  BY <1>1, <1>5, SameFixpoint
<1>7. pending' \subseteq AxiomsOf(layer)' /\ AxiomsOf(layer)' = AxiomsOf(layer)
  BY <1>1, SameFixpoint
<1>8. ASSUME evaluator # "interleaved" PROVE Covers(cur \cup curRes)'
  <2>1. cur' \cup curRes' = cur \cup curRes
    BY <1>1, <1>4, <1>8
  <2>2. Covers(cur' \cup curRes')
    BY <1>2, <1>8, <2>1 DEF LoopInv
  <2>. QED
    BY <1>1, <2>2, SameFixpoint
<1>9. ASSUME evaluator = "interleaved"
      PROVE  /\ (OnTheWay(closed, layer) /\ Covers(closed))'
             /\ (\A s \in closed : Processed(s, IF s \in cur THEN pending ELSE {}, layer))'
  <2>1. /\ OnTheWay(closed, layer) /\ Covers(closed) /\ cur \subseteq closed
        /\ \A s \in closed \ cur : Processed(s, {}, layer)
    BY <1>1, <1>2, <1>9 DEF LoopInv
  <2>2. (OnTheWay(closed, layer) /\ Covers(closed))'
    BY <1>1, <2>1, SameFixpoint
  <2>3. cur' = cur /\ pending' = AxiomsOf(layer)
    BY <1>1, <1>9
  <2>4. ASSUME NEW s \in closed
        PROVE  /\ s \in curRes' \/ \E i \in AxiomsOf(layer) : CanFire(s, i)
               /\ \A i \in AxiomsOf(layer) \ (IF s \in cur' THEN pending' ELSE {}) :
                     CanFire(s, i) => FireOne(s, i) \in closed' \cup cur'
    <3>1. CASE s \in cur
      BY <1>1, <1>4, <2>3, <3>1
    <3>2. CASE s \notin cur
      BY <1>1, <2>1, <2>3, <3>2 DEF Processed
    <3>. QED
      BY <3>1, <3>2
  <2>. QED
    BY <1>1, <2>2, <2>4, SameFixpoint DEF Processed
<1>10. LoopInv'
  BY <1>1, <1>2, <1>6, <1>7, <1>8, <1>9 DEF LoopInv
<1>. QED
  BY <1>1, <1>2, <1>10 DEF FixpointInv

\* As transitions, axioms are applied one at a time.
LEMMA FireTransitions ==
    ASSUME AxiomsReady, FixpointInv, pc = "round", evaluator = "interleaved", FireGroup
    PROVE  LoopInv'
<1>1. PICK g \in SUBSET pending : cur' = cur \cup FireSome(cur, g) /\ pending' = pending \ g
  BY DEF FireGroup
<1>2. /\ Kept /\ layer' = layer /\ fixpoint' = fixpoint /\ evaluator' = evaluator /\ closed' = closed
      /\ curRes' = curRes /\ pc' = pc
  BY DEF FireGroup, Kept, choice, stratification, search
<1>3. LoopInv /\ layer \in Nat /\ program \in Programs /\ AxiomsLayered
  BY DEF FixpointInv, FixpointPhases, AxiomsReady
<1>4. /\ OnTheWay(cur, layer) /\ OnTheWay(closed, layer) /\ Covers(closed) /\ pending \subseteq AxiomsOf(layer)
      /\ \A s \in closed : Processed(s, IF s \in cur THEN pending ELSE {}, layer)
  BY <1>3 DEF LoopInv
<1>5. \A t \in FireSome(cur, g) : \E s \in cur, i \in g : CanFire(s, i) /\ t = FireOne(s, i)
  BY DEF FireSome
<1>6. \A s \in cur, i \in g : CanFire(s, i) => FireOne(s, i) \in FireSome(cur, g)
  <2>. SUFFICES ASSUME NEW s \in cur, NEW i \in g, CanFire(s, i) PROVE FireOne(s, i) \in FireSome(cur, g)
    OBVIOUS
  <2>1. <<s, i>> \in cur \X g /\ <<s, i>>[1] = s /\ <<s, i>>[2] = i
    OBVIOUS
  <2>. QED
    BY <2>1 DEF FireSome
<1>7. OnTheWay(cur', layer)
  <2>. SUFFICES ASSUME NEW t \in FireSome(cur, g) PROVE Partial(t, layer) /\ PrimaryPart(t) \in Sources
    BY <1>1, <1>4 DEF OnTheWay
  <2>1. PICK s \in cur, i \in g : CanFire(s, i) /\ t = FireOne(s, i)
    BY <1>5
  <2>2. Partial(s, layer) /\ PrimaryPart(s) \in Sources /\ i \in AxiomsOf(layer)
    BY <1>1, <1>4 DEF OnTheWay
  <2>3. Raises(s, t, layer)
    BY <1>3, <2>1, <2>2, FireOneRaises
  <2>. QED
    BY <1>3, <2>2, <2>3, RaisesPartial
<1>8. OnTheWay(cur, layer)' /\ OnTheWay(closed, layer)' /\ Covers(closed)' /\ OnTheWay(curRes, layer)'
  BY <1>2, <1>3, <1>4, <1>7, SameFixpoint DEF LoopInv
<1>9. (\A s \in curRes : Satisfied(s, AxiomsOf(layer)))' /\ (pending \subseteq AxiomsOf(layer))'
  BY <1>1, <1>2, <1>3, <1>4, SameFixpoint DEF LoopInv
<1>10. (\A s \in closed : Processed(s, IF s \in cur THEN pending ELSE {}, layer))'
  <2>. SUFFICES ASSUME NEW s \in closed
                PROVE  /\ s \in curRes' \/ \E i \in AxiomsOf(layer) : CanFire(s, i)
                       /\ \A i \in AxiomsOf(layer) \ (IF s \in cur' THEN pending' ELSE {}) :
                             CanFire(s, i) => FireOne(s, i) \in closed' \cup cur'
    BY <1>2, SameFixpoint DEF Processed
  <2>1. s \in curRes' \/ \E i \in AxiomsOf(layer) : CanFire(s, i)
    BY <1>2, <1>4 DEF Processed
  <2>2. ASSUME NEW i \in AxiomsOf(layer) \ (IF s \in cur' THEN pending' ELSE {}), CanFire(s, i)
        PROVE  FireOne(s, i) \in closed' \cup cur'
    <3>1. CASE s \in cur
      <4>1. i \notin pending \/ i \in g
        BY <1>1, <2>2, <3>1
      <4>. QED
        BY <1>1, <1>2, <1>4, <1>6, <2>2, <3>1, <4>1 DEF Processed
    <3>2. CASE s \notin cur
      BY <1>1, <1>2, <1>4, <2>2, <3>2 DEF Processed
    <3>. QED
      BY <3>1, <3>2
  <2>. QED
    BY <2>1, <2>2
<1>. QED
  BY <1>2, <1>3, <1>8, <1>9, <1>10 DEF LoopInv

\* As rules, axioms set their heads wherever their bodies hold.
LEMMA FireRules ==
    ASSUME AxiomsReady, FixpointInv, pc \in {"round", "once"}, evaluator # "interleaved", FireGroup
    PROVE  FixpointInv'
<1>1. PICK g \in SUBSET pending : cur' = {FireAll(s, g) : s \in cur} /\ pending' = pending \ g
  BY DEF FireGroup
<1>2. /\ Kept /\ layer' = layer /\ fixpoint' = fixpoint /\ evaluator' = evaluator
      /\ curRes' = curRes /\ pc' = pc
  BY DEF FireGroup, Kept, choice, stratification, search
<1>3. /\ layer \in 0 .. Len(fixpoint) /\ layer \in Nat /\ program \in Programs /\ AxiomsLayered
      /\ pc = "round" => LoopInv
      /\ pc = "once" => OnceInv
  BY DEF FixpointInv, FixpointPhases, AxiomsReady
<1>4. OnTheWay(cur, layer) /\ pending \subseteq AxiomsOf(layer) /\ g \in SUBSET AxiomsOf(layer)
  BY <1>3 DEF LoopInv, OnceInv
<1>5. ASSUME NEW s \in cur
      PROVE  /\ Raises(s, FireAll(s, g), layer) /\ Partial(s, layer) /\ PrimaryPart(s) \in Sources
             /\ Partial(FireAll(s, g), layer) /\ PrimaryPart(FireAll(s, g)) = PrimaryPart(s)
             /\ \A i \in g : BodyHolds(program, s, i) =>
                   FireAll(s, g)[program.rules[i].var] = program.rules[i].val
  <2>1. Partial(s, layer) /\ PrimaryPart(s) \in Sources
    BY <1>4 DEF OnTheWay
  <2>2. /\ Raises(s, FireAll(s, g), layer)
        /\ \A i \in g : BodyHolds(program, s, i) =>
              FireAll(s, g)[program.rules[i].var] = program.rules[i].val
    BY <1>3, <1>4, <2>1, FireAllRaises
  <2>. QED
    BY <1>3, <2>1, <2>2, RaisesPartial
<1>6. OnTheWay(cur, layer)'
  <2>1. OnTheWay(cur', layer)
    BY <1>1, <1>5 DEF OnTheWay
  <2>. QED
    BY <1>2, <2>1, SameFixpoint
<1>7. (pending \subseteq AxiomsOf(layer))'
  BY <1>1, <1>2, <1>4, SameFixpoint
<1>8. CASE pc = "round"
  <2>1. (OnTheWay(curRes, layer) /\ \A s \in curRes : Satisfied(s, AxiomsOf(layer)))'
    BY <1>2, <1>3, <1>8, SameFixpoint DEF LoopInv
  <2>2. Covers(cur \cup curRes)
    BY <1>3, <1>8 DEF LoopInv
  <2>3. Covers(cur' \cup curRes')
    <3>. SUFFICES ASSUME NEW x \in Sources PROVE \E t \in cur' \cup curRes' : PrimaryPart(t) = x
      BY DEF Covers
    <3>1. PICK s \in cur \cup curRes : PrimaryPart(s) = x
      BY <2>2 DEF Covers
    <3>. QED
      BY <1>1, <1>2, <1>5, <3>1
  <2>4. Covers(cur \cup curRes)'
    BY <1>2, <2>3, SameFixpoint
  <2>5. LoopInv'
    BY <1>2, <1>3, <1>6, <1>7, <1>8, <2>1, <2>4 DEF LoopInv
  <2>. QED
    BY <1>2, <1>3, <1>8, <2>5 DEF FixpointInv
<1>9. CASE pc = "once"
  <2>1. Covers(cur')
    <3>. SUFFICES ASSUME NEW x \in Sources PROVE \E t \in cur' : PrimaryPart(t) = x
      BY DEF Covers
    <3>1. PICK s \in cur : PrimaryPart(s) = x
      BY <1>3, <1>9 DEF OnceInv, Covers
    <3>. QED
      BY <1>1, <1>5, <3>1
  <2>2. Covers(cur)'
    BY <1>2, <2>1, SameFixpoint
  <2>3. ASSUME NEW s \in cur PROVE Satisfied(FireAll(s, g), AxiomsOf(layer) \ pending')
    <3>. SUFFICES ASSUME NEW i \in AxiomsOf(layer), i \notin pending \/ i \in g,
                         BodyHolds(program, FireAll(s, g), i)
                  PROVE  FireAll(s, g)[program.rules[i].var] = program.rules[i].val
      BY <1>1 DEF Satisfied
    <3>1. BodyHolds(program, s, i) => FireAll(s, g)[program.rules[i].var] = program.rules[i].val
      <4>1. CASE i \in g
        BY <1>5, <4>1
      <4>2. CASE i \notin pending
        <5>. SUFFICES ASSUME BodyHolds(program, s, i)
                      PROVE  FireAll(s, g)[program.rules[i].var] = program.rules[i].val
          OBVIOUS
        <5>1. s[program.rules[i].var] = program.rules[i].val
          BY <1>3, <1>9, <4>2 DEF OnceInv, Satisfied
        <5>2. /\ program.rules[i].var \in Derived /\ program.rules[i].val # Default[program.rules[i].var]
              /\ program.rules[i].val = 1 - Default[program.rules[i].var]
              /\ \A w \in Derived : FireAll(s, g)[w] \in {0, 1} /\ Default[w] \in {0, 1}
          BY <1>3, <1>5, AxiomsOfFacts, ProgramFacts DEF Raises, States
        <5>. QED
          BY <1>5, <5>1, <5>2 DEF Raises
      <4>. QED
        BY <4>1, <4>2
    <3>. QED
      BY <1>3, <1>5, <1>9, <3>1, AppliedOnce DEF OnceInv
  <2>4. \A t \in cur' : Satisfied(t, AxiomsOf(layer) \ pending')
    BY <1>1, <2>3
  <2>5. (\A s \in cur : Satisfied(s, AxiomsOf(layer) \ pending))'
    BY <1>2, <2>4, SameFixpoint
  <2>6. OnceInv'
    BY <1>2, <1>3, <1>6, <1>7, <1>9, <2>2, <2>5 DEF OnceInv
  <2>. QED
    BY <1>2, <1>3, <1>9, <2>6 DEF FixpointInv
<1>. QED
  BY <1>8, <1>9

LEMMA FireGroupStep ==
    ASSUME AxiomsReady, FixpointInv, FireGroup
    PROVE  FixpointInv'
<1>1. pc \in {"round", "once"} /\ pc' = pc /\ layer' = layer /\ fixpoint' = fixpoint
  BY DEF FireGroup, choice, stratification
<1>2. pc = "once" => evaluator # "interleaved"
  BY DEF FixpointInv, FixpointPhases, OnceInv
<1>3. CASE evaluator = "interleaved"
  <2>1. LoopInv' /\ layer \in 0 .. Len(fixpoint)
    BY <1>1, <1>2, <1>3, FireTransitions DEF FixpointInv, FixpointPhases
  <2>. QED
    BY <1>1, <1>2, <1>3, <2>1 DEF FixpointInv
<1>4. CASE evaluator # "interleaved"
  BY <1>1, <1>4, FireRules
<1>. QED
  BY <1>3, <1>4

LEMMA RoundDoneStep ==
    ASSUME AxiomsReady, FixpointInv, RoundDone
    PROVE  FixpointInv'
<1>1. /\ Kept /\ layer' = layer /\ fixpoint' = fixpoint /\ evaluator' = evaluator /\ curRes' = curRes
      /\ pc = "round" /\ pc' = "loop" /\ pending = {}
  BY DEF RoundDone, Kept, Goto, choice, stratification, search
<1>2. LoopInv /\ layer \in 0 .. Len(fixpoint)
  BY <1>1 DEF FixpointInv, FixpointPhases
<1>3. /\ OnTheWay(cur, layer) /\ OnTheWay(curRes, layer) /\ \A s \in curRes : Satisfied(s, AxiomsOf(layer))
      /\ evaluator # "interleaved" => Covers(cur \cup curRes)
  BY <1>2 DEF LoopInv
<1>4. cur' \subseteq cur
  BY DEF RoundDone
<1>5. OnTheWay(cur', layer)
  BY <1>3, <1>4 DEF OnTheWay
<1>6. (OnTheWay(cur, layer) /\ OnTheWay(curRes, layer) /\ \A s \in curRes : Satisfied(s, AxiomsOf(layer)))'
  BY <1>1, <1>3, <1>5, SameFixpoint
<1>7. ASSUME evaluator # "interleaved" PROVE Covers(cur \cup curRes)'
  <2>1. cur' \cup curRes' = cur \cup curRes
    BY <1>1, <1>7 DEF RoundDone
  <2>. QED
    BY <1>1, <1>3, <1>7, <2>1, SameFixpoint
<1>8. ASSUME evaluator = "interleaved"
      PROVE  /\ (OnTheWay(closed, layer) /\ Covers(closed))'
             /\ (cur \subseteq closed /\ \A s \in closed \ cur : Processed(s, {}, layer))'
  <2>1. cur' = cur \ closed /\ closed' = closed \cup cur
    BY <1>8 DEF RoundDone
  <2>2. /\ OnTheWay(closed, layer) /\ Covers(closed)
        /\ \A s \in closed : Processed(s, IF s \in cur THEN pending ELSE {}, layer)
    BY <1>1, <1>2, <1>8 DEF LoopInv
  <2>3. OnTheWay(closed', layer) /\ Covers(closed')
    BY <1>3, <2>1, <2>2 DEF OnTheWay, Covers
  <2>4. OnTheWay(closed, layer)' /\ Covers(closed)'
    BY <1>1, <2>3, SameFixpoint
  <2>5. ASSUME NEW s \in closed' \ cur'
        PROVE  /\ s \in curRes' \/ \E i \in AxiomsOf(layer) : CanFire(s, i)
               /\ \A i \in AxiomsOf(layer) \ {} : CanFire(s, i) => FireOne(s, i) \in closed' \cup cur'
    <3>1. Processed(s, {}, layer)
      BY <1>1, <2>1, <2>2, <2>5
    <3>. QED
      BY <1>1, <2>1, <3>1 DEF Processed
  <2>. QED
    BY <1>1, <2>1, <2>4, <2>5, SameFixpoint DEF Processed
<1>9. LoopInv'
  BY <1>1, <1>2, <1>6, <1>7, <1>8 DEF LoopInv
<1>. QED
  BY <1>1, <1>2, <1>9 DEF FixpointInv

LEMMA LeaveLayerStep ==
    ASSUME AxiomsReady, FixpointInv, LeaveLayer
    PROVE  FixpointInv'
<1>1. /\ Kept /\ layer' = layer + 1 /\ fixpoint' = fixpoint /\ pc' = "layer"
      /\ pc \in {"loop", "once"}
  BY DEF LeaveLayer, Kept, Goto, choice, stratification, search
<1>2. /\ layer \in 0 .. Len(fixpoint) /\ program \in Programs /\ AxiomsLayered /\ Len(fixpoint) \in Nat
      /\ pc = "loop" => LoopInv
      /\ pc = "once" => OnceInv
  BY <1>1 DEF FixpointInv, FixpointPhases, AxiomsReady
<1>3. OnTheWay(cur', layer) /\ Covers(cur') /\ \A s \in cur' : Satisfied(s, AxiomsOf(layer))
  <2>1. CASE pc = "loop"
    <3>1. cur = {} /\ cur' = curRes
      BY <2>1 DEF LeaveLayer
    <3>2. Covers(curRes)
      <4>1. CASE evaluator # "interleaved"
        <5>1. cur \cup curRes = curRes
          BY <3>1
        <5>. QED
          BY <1>2, <2>1, <4>1, <5>1 DEF LoopInv
      <4>2. CASE evaluator = "interleaved"
        <5>1. OnTheWay(closed, layer) /\ Covers(closed) /\ \A s \in closed : Processed(s, {}, layer)
          BY <1>2, <2>1, <3>1, <4>2 DEF LoopInv
        <5>. QED
          BY <1>2, <3>1, <5>1, SomeIsDone
      <4>. QED
        BY <4>1, <4>2
    <3>. QED
      BY <1>2, <2>1, <3>1, <3>2 DEF LoopInv
  <2>2. CASE pc = "once"
    <3>1. pending = {} /\ cur' = cur
      BY <2>2 DEF LeaveLayer
    <3>2. AxiomsOf(layer) \ pending = AxiomsOf(layer)
      BY <3>1
    <3>. QED
      BY <1>2, <2>2, <3>1, <3>2 DEF OnceInv
  <2>. QED
    BY <1>1, <2>1, <2>2
<1>4. layer < Len(fixpoint)
  BY <1>1, <1>2 DEF LoopInv, OnceInv
<1>5. OnTheWay(cur', layer + 1)
  BY <1>2, <1>3, LayerClosed DEF OnTheWay
<1>6. OnTheWay(cur, layer)' /\ Covers(cur)'
  BY <1>1, <1>3, <1>5, SameFixpoint
<1>. QED
  BY <1>1, <1>2, <1>4, <1>6 DEF FixpointInv

\* When all layers are closed, the states are the extensions of those the axioms are applied to.
LEMMA AllLayersDone ==
    ASSUME AxiomsReady, FixpointInv, pc = "layer", layer = Len(fixpoint)
    PROVE  cur = {Ext(s) : s \in Expected}
<1>1. /\ OnTheWay(cur, Len(fixpoint)) /\ Covers(cur)
      /\ program \in Programs /\ AxiomsLayered /\ Len(fixpoint) \in Nat
  BY DEF FixpointInv, FixpointPhases, AxiomsReady
<1>2. \A s \in cur : s = Ext(s) /\ \E t \in Expected : PrimaryPart(s) = PrimaryPart(t)
  BY <1>1, LayersClosed DEF OnTheWay, Sources
<1>3. \A t \in Expected : \E s \in cur : PrimaryPart(s) = PrimaryPart(t)
  BY <1>1 DEF Covers, Sources
<1>. QED
  BY <1>2, <1>3 DEF Ext

-----------------------------------------------------------------------------
(* The searches.                                                           *)

\* The states of the task.
LEMMA ExplicitStates ==
    ASSUME program \in Programs
    PROVE  Explicit!States = Valid(States)
<1>1. ASSUME NEW x \in PrimaryStates
      PROVE  Extended[program][x] \in States /\ Extended[program][x] = Ext(Extended[program][x])
  BY MeaningOfTask DEF Ext
<1>2. ASSUME NEW s \in States, s = Ext(s) PROVE \E x \in PrimaryStates : s = Extended[program][x]
  BY <1>2, PrimaryParts DEF Ext
<1>. QED
  BY <1>1, <1>2 DEF Explicit!States, Explicit!PrimaryStates, PrimaryStates, Valid

\* The initial state.
LEMMA InitialFacts ==
    ASSUME program \in Programs
    PROVE  /\ Free(InitialBdd)
           /\ {Ext(s) : s \in InitialBdd} = {Extended[program][Initial]}
           /\ Valid(InitialBdd) = {Extended[program][Initial]}
<1>1. Assignments = States /\ Initial \in PrimaryStates
  BY TaskMeaning, OperatorFacts
<1>2. InitialBdd = {s \in States : PrimaryPart(s) = Initial}
  BY <1>1 DEF InitialBdd
<1>3. Extended[program][Initial] \in InitialBdd
  BY <1>1, <1>2, MeaningOfTask
<1>4. \A s \in InitialBdd : Ext(s) = Extended[program][Initial]
  BY <1>2 DEF Ext
<1>5. Free(InitialBdd)
  BY <1>2 DEF Free
<1>. QED
  BY <1>3, <1>4, <1>5 DEF Valid

\* The goal of a backward search.
LEMMA GoalFacts ==
    ASSUME program \in Programs, ConditionsKnown, evaluator = "transform"
    PROVE  /\ Free(GoalBdd)
           /\ Valid(GoalBdd) = {s \in Explicit!States : Explicit!Satisfies(s, Goal)}
<1>1. Assignments = States /\ Goal \subseteq Facts
  BY TaskMeaning, OperatorFacts
<1>2. \A s \in States : HoldAll(s, Goal) <=> Explicit!Satisfies(Ext(s), Goal)
  BY <1>1, HoldsMeaning DEF HoldAll, Seen, Explicit!Satisfies
<1>3. GoalBdd = {s \in States : Explicit!Satisfies(Ext(s), Goal)}
  BY <1>1, <1>2 DEF GoalBdd
<1>4. \A s, t : PrimaryPart(s) = PrimaryPart(t) => Ext(s) = Ext(t)
  BY DEF Ext
<1>5. Free(GoalBdd)
  BY <1>3, <1>4 DEF Free
<1>. QED
  BY <1>3, <1>5, ExplicitStates DEF Valid

\* The states that satisfy the conditions of the derived variables are the extensions.
LEMMA SatisfyingFacts ==
    ASSUME program \in Programs, \A v \in Derived : varBdd[v] = Derivable(v), NEW ss, ss \subseteq States
    PROVE  Satisfying(ss) = {Ext(s) : s \in ss}
<1>1. Assignments = States
  BY TaskMeaning
<1>2. \A s \in States : /\ Ext(s) \in States /\ PrimaryPart(Ext(s)) = PrimaryPart(s)
                        /\ PrimaryPart(s) \in PrimaryStates
  BY ExtFacts
<1>3. \A s \in States, v \in Derived : PrimaryPart(s) \in varBdd[v] <=> Ext(s)[v] # Default[v]
  BY <1>2 DEF Derivable, Ext
<1>4. \A s \in States, v \in Derived : s[v] \in {0, 1} /\ Default[v] \in {0, 1}
  BY ProgramFacts DEF States
<1>5. ASSUME NEW s \in Satisfying(ss) PROVE \E t \in ss : s = Ext(t)
  <2>1. /\ s \in States /\ \A v \in Derived : (s[v] # Default[v]) <=> PrimaryPart(s) \in varBdd[v]
    BY <1>1 DEF Satisfying, WithPrimaryOf
  <2>2. PICK t \in ss : PrimaryPart(s) = PrimaryPart(t)
    BY DEF Satisfying, WithPrimaryOf
  <2>3. \A v \in Derived : s[v] = Ext(s)[v]
    BY <1>2, <1>3, <1>4, <2>1
  <2>4. s = Ext(s)
    BY <1>2, <2>1, <2>3, SameState
  <2>. QED
    BY <2>2, <2>4 DEF Ext
<1>6. ASSUME NEW t \in ss PROVE Ext(t) \in Satisfying(ss)
  <2>1. Ext(t) \in WithPrimaryOf(ss)
    BY <1>1, <1>2 DEF WithPrimaryOf
  <2>2. Ext(Ext(t)) = Ext(t) /\ Ext(t) \in States
    BY <1>2 DEF Ext
  <2>. QED
    BY <1>3, <2>1, <2>2 DEF Satisfying
<1>. QED
  BY <1>5, <1>6

\* Every phase, and what is known in it.
Preparing == pc \in StratifyPhases \cup WorkPhases \cup {"start"}
SearchInv ==
    /\ fixpoint \in Seq(BOOLEAN)
    /\ pc \in StratifyPhases \cup WorkPhases \cup SearchPhases \cup FixpointPhases
    /\ started \in BOOLEAN
    /\ backward => evaluator = "transform"
    /\ Preparing => ~ started /\ bdd = {}
    /\ pc = "idle" => started
    /\ operators \in SUBSET Operators
    /\ IF evaluator = "transform" THEN Free(bdd) ELSE \A s \in bdd : s \in States /\ s = Ext(s)
    /\ pc = "apply" => cur = Expected /\ (evaluator = "transform" => started)
    /\ FixpointInv

ExplicitInv == ConditionsInv /\ StratificationInv /\ SearchInv

\* The states that the axioms are to be applied to, and what comes out.
LEMMA ExpectedFacts ==
    ASSUME ExplicitInv, pc \in {"apply"} \cup FixpointPhases
    PROVE  /\ program \in Programs
           /\ Expected \subseteq States
           /\ evaluator = "transform" =>
                 /\ started /\ Free(Expected)
                 /\ Valid(Expected) = IF backward THEN Explicit!Predecessors(Valid(bdd), operators)
                                      ELSE Explicit!Successors(Valid(bdd), operators)
           /\ evaluator # "transform" =>
                 {Ext(s) : s \in Expected} =
                     IF started THEN Explicit!Successors(bdd, operators)
                     ELSE {Extended[program][Initial]}
<1>1. program \in Programs /\ operators \in SUBSET Operators
  BY DEF ExplicitInv, SearchInv, ConditionsInv, LayersInv
<1>2. CASE evaluator = "transform"
  <2>1. Symbolic /\ pc = "apply"
    BY <1>2 DEF ExplicitInv, SearchInv, ConditionsInv, Symbolic, FixpointPhases, StratifyPhases, WorkPhases, SearchPhases
  <2>2. ConditionsKnown
    BY <2>1 DEF ExplicitInv, SearchInv, ConditionsInv, SearchPhases, ConditionsKnown
  <2>3. started /\ Free(bdd)
    BY <1>2, <2>1 DEF ExplicitInv, SearchInv
  <2>4. CASE backward
    <3>1. Expected = Preimage(bdd, operators)
      BY <2>3, <2>4 DEF Expected
    <3>. QED
      BY <1>1, <1>2, <2>2, <2>3, <2>4, <3>1, PreimageOfFree DEF Free
  <2>5. CASE ~ backward
    <3>1. Expected = Image(bdd, operators)
      BY <2>3, <2>5 DEF Expected
    <3>. QED
      BY <1>1, <1>2, <2>2, <2>3, <2>5, <3>1, ImageOfFree DEF Free
  <2>. QED
    BY <2>4, <2>5
<1>3. CASE evaluator # "transform"
  <2>1. ~ backward /\ started \in BOOLEAN /\ \A s \in bdd : s \in States /\ s = Ext(s)
    BY <1>3 DEF ExplicitInv, SearchInv
  <2>2. CASE started
    <3>1. Expected = Image(bdd, operators)
      BY <2>1, <2>2 DEF Expected
    <3>. QED
      BY <1>1, <1>3, <2>1, <2>2, <3>1, ImageOfExtensions
  <2>3. CASE ~ started
    <3>1. Expected = InitialBdd
      BY <2>3 DEF Expected
    <3>. QED
      BY <1>1, <1>3, <2>3, <3>1, InitialFacts DEF Free
  <2>. QED
    BY <2>2, <2>3
<1>. QED
  BY <1>2, <1>3

Searches == <<program, evaluator, backward, bdd, started, operators>>

\* A step that leaves the search alone.
LEMMA SearchUnchanged ==
    ASSUME UNCHANGED Searches, started => (pc' = "idle" <=> pc = "idle")
    PROVE  UNCHANGED Explicit!vars
<1>1. program' = program /\ backward' = backward /\ started' = started
  BY DEF Searches
<1>2. Meaning' = Meaning
  BY DEF Searches, Meaning
<1>3. (IF started /\ pc # "idle" THEN <<operators>> ELSE <<>>)' = IF started /\ pc # "idle" THEN <<operators>> ELSE <<>>
  BY DEF Searches
<1>. QED
  BY <1>1, <1>2, <1>3 DEF Explicit!vars

\* Up to the first image.
LEMMA PreparingStep ==
    ASSUME SearchInv, StratificationInv,
           Stratify \/ InitAxioms \/ BuildLayer \/ PopVariable \/ VisitAxiom \/ VariableDone \/ BuildDone
    PROVE  SearchInv' /\ UNCHANGED Explicit!vars
<1>1. UNCHANGED Searches
  BY DEF Searches, Stratify, StratifyVariables, AxiomsByHead, BuildComponents, LayerOfComponent, LayerOfSingles,
         AssignLayer, ComponentsDone, InitAxioms, BuildLayer, PopVariable, VisitAxiom, VariableDone, BuildDone,
         choice, search
<1>2. pc \in StratifyPhases \cup WorkPhases /\ Preparing'
  BY DEF Stratify, StratifyVariables, AxiomsByHead, BuildComponents, LayerOfComponent, LayerOfSingles,
         AssignLayer, ComponentsDone, InitAxioms, BuildLayer, PopVariable, VisitAxiom, VariableDone, BuildDone,
         Goto, Preparing, StratifyPhases, WorkPhases
<1>3. fixpoint' \in Seq(BOOLEAN)
  <2>1. CASE AxiomsByHead
    <3>1. program.rules \in Seq([var : Derived, val : {0, 1}, body : SUBSET Task(program)!Literals])
      BY ProgramsAssumption DEF StratificationInv, LayersInv
    <3>2. Len(program.rules) \in Nat
      BY <3>1
    <3>. QED
      BY <2>1, <3>2 DEF AxiomsByHead
  <2>2. CASE LayerOfComponent \/ LayerOfSingles
    <3>1. fixpoint' = Append(fixpoint, TRUE) \/ fixpoint' = Append(fixpoint, FALSE)
      BY <2>2 DEF LayerOfComponent, LayerOfSingles, AssignLayer
    <3>2. \A q \in Seq(BOOLEAN), b \in BOOLEAN : Append(q, b) \in Seq(BOOLEAN)
      OBVIOUS
    <3>. QED
      BY <3>1, <3>2 DEF SearchInv
  <2>3. CASE ~(AxiomsByHead \/ LayerOfComponent \/ LayerOfSingles)
    <3>1. fixpoint' = fixpoint
      BY <2>3 DEF Stratify, StratifyVariables, BuildComponents, ComponentsDone, InitAxioms, BuildLayer, PopVariable,
             VisitAxiom, VariableDone, BuildDone, stratification
    <3>. QED
      BY <3>1 DEF SearchInv
  <2>. QED
    BY <2>1, <2>2, <2>3
<1>4. ~ started /\ bdd = {}
  BY <1>2 DEF SearchInv, Preparing
<1>5. UNCHANGED Explicit!vars
  BY <1>1, <1>4, SearchUnchanged
<1>6. /\ pc' \in StratifyPhases \cup WorkPhases \cup SearchPhases \cup FixpointPhases
      /\ pc' # "idle" /\ pc' # "apply" /\ pc' \notin FixpointPhases
  BY <1>2 DEF Preparing, StratifyPhases, WorkPhases, SearchPhases, FixpointPhases
<1>7. (IF evaluator = "transform" THEN Free(bdd) ELSE \A s \in bdd : s \in States /\ s = Ext(s))'
  BY <1>1, <1>4 DEF Searches, Free
<1>8. FixpointInv'
  BY <1>6 DEF FixpointInv, FixpointPhases
<1>. QED
  BY <1>1, <1>3, <1>4, <1>5, <1>6, <1>7, <1>8 DEF SearchInv, Searches

\* The first states of the search.
LEMMA StartStep ==
    ASSUME ExplicitInv, Start
    PROVE  SearchInv' /\ (Explicit!Start \/ UNCHANGED Explicit!vars)
<1>1. /\ UNCHANGED <<program, evaluator, backward, varBdd, operators, fixpoint>> /\ pc = "start"
      /\ program \in Programs /\ SearchInv /\ ~ started
  BY DEF Start, choice, stratification, ExplicitInv, ConditionsInv, LayersInv, SearchInv, Preparing
<1>2. CASE evaluator = "transform"
  <2>1. bdd' = (IF backward THEN GoalBdd ELSE InitialBdd) /\ started' = TRUE /\ pc' = "idle"
    BY <1>2 DEF Start, Goto
  <2>2. ConditionsKnown
    BY <1>1, <1>2 DEF ExplicitInv, ConditionsInv, SearchPhases, ConditionsKnown, Symbolic
  <2>3. /\ Free(bdd')
        /\ Valid(bdd') = IF backward THEN {s \in Explicit!States : Explicit!Satisfies(s, Goal)}
                         ELSE {Extended[program][Initial]}
    BY <1>1, <1>2, <2>1, <2>2, InitialFacts, GoalFacts
  <2>4. Meaning' = Valid(bdd')
    BY <1>1, <1>2 DEF Meaning, Valid, Ext
  <2>5. Explicit!Start
    BY <1>1, <2>1, <2>3, <2>4 DEF Explicit!Start
  <2>6. SearchInv'
    BY <1>1, <1>2, <2>1, <2>3 DEF SearchInv, Preparing, FixpointInv, FixpointPhases, SearchPhases, StratifyPhases, WorkPhases
  <2>. QED
    BY <2>5, <2>6
<1>3. CASE evaluator # "transform"
  <2>1. ~ backward
    BY <1>1, <1>3 DEF SearchInv
  <2>2. cur' = InitialBdd /\ pc' = "apply" /\ bdd' = bdd /\ started' = started
    BY <1>3, <2>1 DEF Start, Goto
  <2>3. UNCHANGED Explicit!vars
    BY <1>1, <2>2, SearchUnchanged DEF Searches
  <2>4. bdd' = {} /\ Expected' = InitialBdd
    BY <1>1, <2>2 DEF SearchInv, Preparing, Expected, InitialBdd
  <2>5. SearchInv'
    BY <1>1, <1>3, <2>2, <2>4 DEF SearchInv, Preparing, FixpointInv, FixpointPhases, SearchPhases, StratifyPhases, WorkPhases
  <2>. QED
    BY <2>3, <2>5
<1>. QED
  BY <1>2, <1>3

\* An image, to which the axioms are yet to be applied.
LEMMA ComputeImageStep ==
    ASSUME ExplicitInv, ComputeImage
    PROVE  SearchInv' /\ Explicit!Ask
<1>1. /\ UNCHANGED <<program, evaluator, backward, varBdd, bdd, started, fixpoint>>
      /\ pc = "idle" /\ pc' = "apply" /\ operators' \in SUBSET Operators
      /\ cur' = IF backward THEN Preimage(bdd, operators') ELSE Image(bdd, operators')
      /\ SearchInv /\ started
  BY DEF ComputeImage, Goto, choice, stratification, ExplicitInv, SearchInv
<1>2. Expected' = cur'
  <2>1. Image(bdd, operators)' = Image(bdd, operators') /\ Preimage(bdd, operators)' = Preimage(bdd, operators')
    BY <1>1, SameImages
  <2>. QED
    BY <1>1, <2>1 DEF Expected
<1>3. Meaning' = Meaning
  BY <1>1 DEF Meaning
<1>4. Explicit!Ask
  BY <1>1, <1>3 DEF Explicit!Ask
<1>5. (IF evaluator = "transform" THEN Free(bdd) ELSE \A s \in bdd : s \in States /\ s = Ext(s))'
  BY <1>1 DEF SearchInv, Ext
<1>6. SearchInv'
  BY <1>1, <1>2, <1>5 DEF SearchInv, Preparing, FixpointInv, FixpointPhases, SearchPhases, StratifyPhases, WorkPhases
<1>. QED
  BY <1>4, <1>6

\* The axioms have been applied: the search has its first states, or the next ones.
LEMMA AppliedStep ==
    ASSUME ExplicitInv, pc \in {"apply"} \cup FixpointPhases,
           UNCHANGED <<program, evaluator, backward, fixpoint>>,
           started' = TRUE, operators' = {}, pc' = "idle",
           evaluator = "transform" => bdd' = Expected,
           evaluator # "transform" => bdd' = {Ext(s) : s \in Expected}
    PROVE  SearchInv' /\ (Explicit!Start \/ Explicit!Answer)
<1>1. SearchInv /\ program \in Programs /\ Expected \subseteq States
  BY ExpectedFacts DEF ExplicitInv
<1>2. Meaning' = IF evaluator = "transform" THEN Valid(Expected) ELSE {Ext(s) : s \in Expected}
  <2>1. CASE evaluator = "transform"
    BY <2>1 DEF Meaning, Valid, Ext
  <2>2. CASE evaluator # "transform"
    BY <1>1, <2>2 DEF Meaning, SearchInv
  <2>. QED
    BY <2>1, <2>2
<1>3. Explicit!Start \/ Explicit!Answer
  <2>1. pc # "idle" /\ started \in BOOLEAN
    BY <1>1 DEF FixpointPhases, SearchInv
  <2>2. CASE started
    <3>1. Meaning = IF evaluator = "transform" THEN Valid(bdd) ELSE bdd
      BY <1>1 DEF Meaning, SearchInv, Valid, Ext
    <3>2. Meaning' = IF backward THEN Explicit!Predecessors(Meaning, operators)
                     ELSE Explicit!Successors(Meaning, operators)
      <4>1. CASE evaluator = "transform"
        BY <1>2, <3>1, <4>1, ExpectedFacts
      <4>2. CASE evaluator # "transform"
        BY <1>1, <1>2, <2>2, <3>1, <4>2, ExpectedFacts DEF SearchInv
      <4>. QED
        BY <4>1, <4>2
    <3>. QED
      BY <2>1, <2>2, <3>2 DEF Explicit!Answer
  <2>3. CASE ~ started
    <3>1. evaluator # "transform" /\ ~ backward
      BY <1>1, <2>3, ExpectedFacts DEF SearchInv
    <3>2. Meaning' = {Extended[program][Initial]}
      BY <1>2, <2>3, <3>1, ExpectedFacts
    <3>. QED
      BY <2>1, <2>3, <3>1, <3>2 DEF Explicit!Start
  <2>. QED
    BY <2>1, <2>2, <2>3
<1>4. (IF evaluator = "transform" THEN Free(bdd) ELSE \A s \in bdd : s \in States /\ s = Ext(s))'
  <2>1. CASE evaluator = "transform"
    BY <2>1, ExpectedFacts DEF Free
  <2>2. CASE evaluator # "transform"
    <3>1. \A s \in Expected : Ext(s) \in States /\ Ext(s) = Ext(Ext(s))
      BY <1>1, ExtFacts DEF Ext
    <3>. QED
      BY <2>2, <3>1 DEF Ext
  <2>. QED
    BY <2>1, <2>2
<1>5. SearchInv'
  BY <1>1, <1>4 DEF SearchInv, Preparing, FixpointInv, FixpointPhases, SearchPhases, StratifyPhases, WorkPhases
<1>. QED
  BY <1>3, <1>5

LEMMA ApplyVarBddsStep ==
    ASSUME ExplicitInv, ApplyVarBdds
    PROVE  SearchInv' /\ (Explicit!Start \/ Explicit!Answer)
<1>1. /\ UNCHANGED <<program, evaluator, backward, fixpoint>> /\ pc = "apply" /\ Symbolic
      /\ started' = TRUE /\ operators' = {} /\ pc' = "idle"
      /\ bdd' = IF evaluator = "transform" THEN cur ELSE Satisfying(cur)
  BY DEF ApplyVarBdds, Goto, choice, stratification
<1>2. /\ cur = Expected /\ program \in Programs /\ Expected \subseteq States
      /\ \A v \in Derived : varBdd[v] = Derivable(v)
  BY <1>1, ExpectedFacts DEF ExplicitInv, SearchInv, ConditionsInv, SearchPhases
<1>3. Satisfying(cur) = {Ext(s) : s \in Expected}
  BY <1>2, SatisfyingFacts
<1>. QED
  BY <1>1, <1>2, <1>3, AppliedStep

LEMMA ReturnStep ==
    ASSUME ExplicitInv, Return
    PROVE  SearchInv' /\ (Explicit!Start \/ Explicit!Answer)
<1>1. /\ UNCHANGED <<program, evaluator, backward, fixpoint>> /\ pc = "layer" /\ layer = Len(fixpoint)
      /\ started' = TRUE /\ operators' = {} /\ pc' = "idle" /\ bdd' = cur
  BY DEF Return, Goto, choice, stratification
<1>2. AxiomsReady /\ FixpointInv
  BY <1>1 DEF ExplicitInv, SearchInv, StratificationInv, LayersInv, AxiomsReady
<1>3. bdd' = {Ext(s) : s \in Expected}
  BY <1>1, <1>2, AllLayersDone
<1>4. evaluator # "transform"
  BY <1>1 DEF ExplicitInv, ConditionsInv, Symbolic, StratifyPhases, WorkPhases, SearchPhases
<1>. QED
  BY <1>1, <1>3, <1>4, AppliedStep DEF FixpointPhases

\* The loops over the axioms.
LEMMA FixpointStep ==
    ASSUME ExplicitInv,
           ApplyFixpoint \/ EnterLayer \/ NextRound \/ FireGroup \/ RoundDone \/ LeaveLayer
    PROVE  SearchInv' /\ UNCHANGED Explicit!vars
<1>1. UNCHANGED Searches /\ fixpoint' = fixpoint
  BY DEF ApplyFixpoint, EnterLayer, NextRound, FireGroup, RoundDone, LeaveLayer, choice, stratification, search,
         Searches
<1>2. pc \in {"apply"} \cup FixpointPhases /\ pc' \in FixpointPhases
  BY DEF ApplyFixpoint, EnterLayer, NextRound, FireGroup, RoundDone, LeaveLayer, Goto, FixpointPhases
<1>3. AxiomsReady /\ FixpointInv /\ SearchInv
  BY <1>2 DEF ExplicitInv, SearchInv, StratificationInv, LayersInv, AxiomsReady, FixpointPhases
<1>4. FixpointInv'
  <2>1. CASE ApplyFixpoint
    <3>1. pc = "apply" /\ cur = Expected
      BY <1>3, <2>1 DEF ApplyFixpoint, SearchInv
    <3>2. cur \subseteq States
      BY <3>1, ExpectedFacts
    <3>. QED
      BY <1>3, <2>1, <3>1, <3>2, ApplyFixpointStep
  <2>. QED
    BY <1>3, <2>1, EnterLayerStep, NextRoundStep, FireGroupStep, RoundDoneStep, LeaveLayerStep
<1>5. UNCHANGED Explicit!vars
  BY <1>1, <1>2, SearchUnchanged DEF FixpointPhases
<1>6. (IF evaluator = "transform" THEN Free(bdd) ELSE \A s \in bdd : s \in States /\ s = Ext(s))'
  BY <1>1, <1>3 DEF SearchInv, Searches, Ext
<1>7. SearchInv'
  BY <1>1, <1>2, <1>3, <1>4, <1>6
  DEF SearchInv, Searches, Preparing, FixpointPhases, SearchPhases, StratifyPhases, WorkPhases
<1>. QED
  BY <1>5, <1>7

LEMMA UnchangedStep ==
    ASSUME SearchInv, UNCHANGED vars
    PROVE  SearchInv' /\ UNCHANGED Explicit!vars
<1>1. /\ Kept /\ UNCHANGED Searches
      /\ UNCHANGED <<fixpoint, evaluator, pc, layer, cur, curRes, closed, pending, bdd, program>>
  BY DEF vars, choice, stratification, evaluation, search, Searches, Kept
<1>2. UNCHANGED Explicit!vars
  BY <1>1, SearchUnchanged
<1>3. \A s, left, k : Processed(s, left, k)' <=> Processed(s, left, k)
  BY <1>1, SameFixpoint DEF Processed
<1>4. LoopInv' <=> LoopInv
  BY <1>1, <1>3, SameFixpoint DEF LoopInv
<1>5. OnceInv' <=> OnceInv
  BY <1>1, SameFixpoint DEF OnceInv
<1>6. FixpointInv'
  BY <1>1, <1>4, <1>5, SameFixpoint DEF SearchInv, FixpointInv
<1>7. (IF evaluator = "transform" THEN Free(bdd) ELSE \A s \in bdd : s \in States /\ s = Ext(s))'
  BY <1>1 DEF SearchInv, Ext
<1>8. Expected' = Expected
  BY <1>1, SameFixpoint
<1>9. SearchInv'
  BY <1>1, <1>6, <1>7, <1>8 DEF SearchInv, Searches, Preparing
<1>. QED
  BY <1>2, <1>9

LEMMA ExplicitInit ==
    ASSUME BackwardOf \subseteq {"transform"}, Init
    PROVE  ExplicitInv /\ Explicit!Init
<1>1. ConditionsInv /\ StratificationInv
  BY ConditionsInit, StratificationInit
<1>2. fixpoint = <<>> /\ <<>> \in Seq(BOOLEAN)
  BY DEF Init
<1>3. Free({}) /\ bdd = {}
  BY DEF Init, Free
<1>4. SearchInv
  BY <1>2, <1>3 DEF Init, SearchInv, Preparing, FixpointInv, FixpointPhases, StratifyPhases
<1>5. Meaning = {}
  BY <1>3 DEF Meaning
<1>6. Explicit!Init
  BY <1>5 DEF Init, Explicit!Init
<1>. QED
  BY <1>1, <1>4, <1>6 DEF ExplicitInv

LEMMA ExplicitStep ==
    ASSUME ExplicitInv, [Next]_vars
    PROVE  ExplicitInv' /\ [Explicit!Next]_(Explicit!vars)
<1>1. ConditionsInv' /\ StratificationInv'
  BY ConditionsStep, StratificationStep DEF ExplicitInv
<1>2. SearchInv' /\ [Explicit!Next]_(Explicit!vars)
  <2>1. CASE Stratify \/ InitAxioms \/ BuildLayer \/ PopVariable \/ VisitAxiom \/ VariableDone \/ BuildDone
    BY <2>1, PreparingStep DEF ExplicitInv
  <2>2. CASE Start
    BY <2>2, StartStep DEF Explicit!Next
  <2>3. CASE ComputeImage
    BY <2>3, ComputeImageStep DEF Explicit!Next
  <2>4. CASE ApplyVarBdds
    BY <2>4, ApplyVarBddsStep DEF Explicit!Next
  <2>5. CASE Return
    BY <2>5, ReturnStep DEF Explicit!Next
  <2>6. CASE ApplyFixpoint \/ EnterLayer \/ NextRound \/ FireGroup \/ RoundDone \/ LeaveLayer
    BY <2>6, FixpointStep
  <2>7. CASE UNCHANGED vars
    BY <2>7, UnchangedStep DEF ExplicitInv
  <2>. QED
    BY <2>1, <2>2, <2>3, <2>4, <2>5, <2>6, <2>7 DEF Next, Prepare, Apply
<1>. QED
  BY <1>1, <1>2 DEF ExplicitInv

\* All evaluators, with both stratifiers, compute the sets of states that the explicit semantics
\* defines: the initial state or the goal states, and the successors or predecessors of the states
\* found so far under every set of operators.  A backward search uses "transform": the others do
\* not replace derived variables in preconditions, and their images apply the axioms.
THEOREM ImagesAreExplicit ==
    BackwardOf \subseteq {"transform"} => (Spec => ImplementsExplicit)
<1>. SUFFICES ASSUME BackwardOf \subseteq {"transform"} PROVE Spec => ImplementsExplicit
  OBVIOUS
<1>1. Init => ExplicitInv /\ Explicit!Init
  BY ExplicitInit
<1>2. ExplicitInv /\ [Next]_vars => ExplicitInv' /\ [Explicit!Next]_(Explicit!vars)
  BY ExplicitStep
<1>. QED
  BY <1>1, <1>2, PTL DEF Spec, ImplementsExplicit, Explicit!Spec

=============================================================================
