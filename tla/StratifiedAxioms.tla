------------------------- MODULE StratifiedAxioms -------------------------
(***************************************************************************)
(* The axioms of a planning task and what they mean.  Every axiom sets one *)
(* derived variable.  The axioms are stratified: the derived variables     *)
(* have layers, an axiom may use variables of its own layer only with the  *)
(* value they do not have by default.  A state is the extension of its     *)
(* primary variables when, layer by layer, it derives what every state     *)
(* closed under the axioms of the layer derives, and nothing else.         *)
(***************************************************************************)
EXTENDS Integers, Sequences, FiniteSets

CONSTANTS
    Primary,    \* the variables set by operators
    Derived,    \* the variables set by axioms
    Values,     \* the values of the primary variables
    Default,    \* the value a derived variable has if no axiom derives another one
    Layer,      \* the axiom layer of a derived variable
    LastLayer,
    Rules       \* the axioms: a sequence of records var, val, body

Variables == Primary \cup Derived
DomainOf(v) == IF v \in Derived THEN {0, 1} ELSE Values
Literals == {l \in Variables \X (Values \cup {0, 1}) : l[2] \in DomainOf(l[1])}
Assignments == {s \in [Variables -> Values \cup {0, 1}] : \A v \in Variables : s[v] \in DomainOf(v)}
RuleIds == 1 .. Len(Rules)

\* An axiom that sets its variable to the default value says nothing: the translator
\* adds such axioms for the heuristics.
Trivial(i) == Rules[i].val = Default[Rules[i].var]

\* The body of a literal of a lower layer only, or of its own layer if it is not the default.
StratifiedLiteral(l, k) ==
    l[1] \in Derived => IF l[2] # Default[l[1]] THEN Layer[l[1]] <= k ELSE Layer[l[1]] < k

Stratified ==
    \A i \in RuleIds : ~Trivial(i) => \A l \in Rules[i].body : StratifiedLiteral(l, Layer[Rules[i].var])

ASSUME VariablesAssumption == Primary \cap Derived = {}
ASSUME LayersAssumption ==
    /\ Default \in [Derived -> {0, 1}]
    /\ LastLayer \in Nat
    /\ Layer \in [Derived -> 0 .. LastLayer]
    /\ \E v \in Derived : Layer[v] = LastLayer
ASSUME RulesAssumption == Rules \in Seq([var : Derived, val : {0, 1}, body : SUBSET Literals])
ASSUME FiniteBodies == \A i \in RuleIds : IsFiniteSet(Rules[i].body)
ASSUME StratifiedAssumption == Stratified

-----------------------------------------------------------------------------
Holds(s, l) == s[l[1]] = l[2]
Triggers(s, i) == \A l \in Rules[i].body : Holds(s, l)
Derives(s, v) == s[v] # Default[v]

RulesOfLayer(k) == {i \in RuleIds : ~Trivial(i) /\ Layer[Rules[i].var] = k}
Closed(s, k) == \A i \in RulesOfLayer(k) : Triggers(s, i) => s[Rules[i].var] = Rules[i].val
AgreeBelow(s, t, k) == \A v \in Variables : (v \in Derived => Layer[v] < k) => s[v] = t[v]

\* s derives the least set of variables in each layer, given the layers below.
IsExtension(s) ==
    \A k \in 0 .. LastLayer :
        /\ Closed(s, k)
        /\ \A t \in Assignments : AgreeBelow(s, t, k) /\ Closed(t, k) =>
               \A v \in Derived : Layer[v] = k /\ Derives(s, v) => Derives(t, v)

=============================================================================
