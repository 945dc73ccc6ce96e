--------------------------- MODULE Stratification ---------------------------
(***************************************************************************)
(* The stratifiers of the symbolic axiom evaluators.  "default" takes the  *)
(* layers of the translator; "scc" computes layers of the variables from   *)
(* the transitive closure of their dependencies, and layers of the axioms  *)
(* from the strongly connected components of the axioms: a component of    *)
(* several axioms is a fixpoint layer of its own, axioms that depend on no *)
(* other remaining one share a layer in which each is applied once.        *)
(***************************************************************************)
EXTENDS StratifiedAxioms, FiniteSetsExt

Graph == INSTANCE DependencyGraph

HeadOf(i) == Rules[i].var
InBody(v, i) == \E l \in Rules[i].body : l[1] = v

NegativelyContained(i, v) == <<v, Default[v]>> \in Rules[i].body
PositivelyContained(i, v) == <<v, 1 - Default[v]>> \in Rules[i].body

-----------------------------------------------------------------------------
\* <<v, w>> is in "needs" when w needs v, and in "negative" when it needs v to be false.
DirectOrder ==
    LET By(v, w, contained(_, _)) == \E i \in RuleIds : ~Trivial(i) /\ HeadOf(i) = w /\ contained(i, v)
        negative == {e \in Derived \X Derived : By(e[1], e[2], NegativelyContained)}
    IN  [needs |-> negative \cup {e \in Derived \X Derived : By(e[1], e[2], PositivelyContained)},
         negative |-> negative]

\* Paths through j; a path is negative when one of its steps is.
Through(j, order) ==
    LET paths == {e \in Derived \X Derived : <<e[1], j>> \in order.needs /\ <<j, e[2]>> \in order.needs}
    IN  [needs |-> order.needs \cup paths,
         negative |-> order.negative \cup
                         {e \in paths : <<e[1], j>> \in order.negative \/ <<j, e[2]>> \in order.negative}]

\* Wrong: only the direct dependencies.
DirectOrderOnly == DirectOrder

OrderDerived == FoldSet(Through, DirectOrder, Derived)

CanStratify(order) == \A v \in Derived : <<v, v>> \notin order.negative

\* Level by level, the variables that need no remaining one to be false.
ExtractDerived(order) ==
    LET Stratum(remaining) == {j \in remaining : \A i \in remaining : <<i, j>> \notin order.negative}
        Remaining[n \in 0 .. Cardinality(Derived)] ==
            IF n = 0 THEN Derived
            ELSE LET before == Remaining[n - 1] IN before \ Stratum(before)
    IN  [v \in Derived |-> Cardinality({n \in 1 .. Cardinality(Derived) : v \in Remaining[n]})]

-----------------------------------------------------------------------------
\* An edge from an axiom to those that have its head in the body, trivial axioms included.
AxiomEdges == {e \in RuleIds \X RuleIds : InBody(HeadOf(e[1]), e[2])}
ComponentGraph ==
    LET components == Graph!Components(RuleIds, AxiomEdges)
        edges == Graph!ComponentEdges(components, AxiomEdges)
    IN  [c \in components |-> {e[2] : e \in {x \in edges : x[1] = c}}]
Single(c) == Cardinality(c) = 1

-----------------------------------------------------------------------------
\* What makes layers of variables correct.
VariableLayersSound(layers) ==
    \A i \in RuleIds : ~Trivial(i) =>
        \A l \in Rules[i].body : l[1] \in Derived =>
            IF l[2] # Default[l[1]] THEN layers[l[1]] <= layers[HeadOf(i)]
            ELSE layers[l[1]] < layers[HeadOf(i)]

\* What makes layers of axioms correct: whatever derives a variable of the body comes no
\* later than the axiom, and earlier when the body needs the variable to be false, or when
\* the axioms of the layer are applied once only.
AxiomLayersSound(layers, fixpoint) ==
    \A i, j \in RuleIds :
        ~Trivial(i) /\ ~Trivial(j) /\ i # j /\ InBody(HeadOf(i), j) =>
            IF NegativelyContained(j, HeadOf(i)) \/ ~fixpoint[layers[j] + 1]
            THEN layers[i] < layers[j] ELSE layers[i] <= layers[j]

=============================================================================
