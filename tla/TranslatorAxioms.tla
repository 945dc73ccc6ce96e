-------------------------- MODULE TranslatorAxioms --------------------------
(***************************************************************************)
(* handle_axioms of the translator: from the derivation rules of a PDDL    *)
(* task to the axioms and the axiom layers that the search reads.          *)
(*                                                                         *)
(* The rules of a derived variable are given by their bodies, sets of      *)
(* literals; every rule derives the value that is not the default one.     *)
(* Rules that are no part of the task (their variable is not needed by an  *)
(* operator or the goal) have been pruned.                                 *)
(***************************************************************************)
EXTENDS Integers, Sequences, SequencesExt, FiniteSets

CONSTANTS
    Primary, Derived,   \* the variables
    Values,             \* the values of the primary variables
    Default,            \* the value of a derived variable that no axiom derives
    Needed              \* the derived literals in operators and in the goal

Graph == INSTANCE DependencyGraph

NonDefault(v) == 1 - Default[v]
\* The other value: literals of the translator are atoms and negated atoms.
Negate(l) == <<l[1], 1 - l[2]>>
Positive(l) == l[1] \in Derived /\ l[2] = NonDefault(l[1])
Negative(l) == l[1] \in Derived /\ l[2] = Default[l[1]]

-----------------------------------------------------------------------------
\* bodies: derived variable -> the bodies of its rules.
PositiveDependencies(bodies) ==
    {d \in Derived \X Derived : \E b \in bodies[d[1]] : <<d[2], NonDefault(d[2])>> \in b}
NegativeDependencies(bodies) ==
    {d \in Derived \X Derived : \E b \in bodies[d[1]] : <<d[2], Default[d[2]]>> \in b}
Dependencies(bodies) == PositiveDependencies(bodies) \cup NegativeDependencies(bodies)

\* The literals that are needed through the bodies of the variables of needed literals.
NecessaryLiterals(bodies) ==
    LET Derives(l) ==
            UNION {{IF l[2] = Default[l[1]] THEN Negate(m) ELSE m :
                       m \in {x \in b : x[1] \in Derived}} : b \in bodies[l[1]]}
        After[n \in 0 .. 2 * Cardinality(Derived)] ==
            IF n = 0 THEN Needed
            ELSE LET before == After[n - 1] IN before \cup UNION {Derives(l) : l \in before}
    IN  After[2 * Cardinality(Derived)]

\* The bodies without those that hold the head and those that another one dominates.
SimplifiedAxioms(head, bs) ==
    LET kept == {b \in bs : head \notin b}
    IN  {b \in kept : \A c \in kept : c \subseteq b => c = b}

Clusters(bodies) == Graph!Components(Derived, Dependencies(bodies))

\* No variable depends negatively on one of its cluster, else the task is refused.
Stratifiable(bodies) ==
    \A c \in Clusters(bodies) : NegativeDependencies(bodies) \cap (c \X c) = {}

-----------------------------------------------------------------------------
\* Strategy min: a cluster is above those it depends on negatively.
MinLayers(bodies) ==
    LET order == Graph!ComponentEdges(Clusters(bodies), Dependencies(bodies))
        NegativeChild(c, d) == NegativeDependencies(bodies) \cap (c \X d) # {}
        ClusterLayer[c \in Clusters(bodies)] ==
            LET children == {e[2] : e \in {x \in order : x[1] = c}}
                need == {0} \cup {IF NegativeChild(c, d) THEN ClusterLayer[d] + 1
                                  ELSE ClusterLayer[d] : d \in children}
            IN  CHOOSE n \in need : \A m \in need : m <= n
    IN  [v \in Derived |-> ClusterLayer[CHOOSE c \in Clusters(bodies) : v \in c]]

\* Strategy max: every cluster has a layer of its own, in any topological order.
MaxLayers(bodies) ==
    LET clusters == Clusters(bodies)
        order == Graph!ComponentEdges(clusters, Dependencies(bodies))
        ranks == {r \in [clusters -> 0 .. Cardinality(clusters) - 1] :
                     /\ \A c, d \in clusters : r[c] = r[d] => c = d
                     /\ \A e \in order : r[e[1]] > r[e[2]]}
    IN  {[v \in Derived |-> r[CHOOSE c \in clusters : v \in c]] : r \in ranks}

\* The bodies of the rules for the negation of v: one literal of each body is false.
NegatedBodies(v, bs) ==
    IF {} \in bs THEN {}
    ELSE SimplifiedAxioms(<<v, Default[v]>>,
            {{Negate(f[b]) : b \in bs} : f \in {g \in [bs -> UNION bs] : \A b \in bs : g[b] \in b}})

\* Axioms for the default value: exact ones, or an empty body for a cycle of variables.
NegativeAxioms(v, bodies, simplified) ==
    LET cluster == CHOOSE c \in Clusters(bodies) : v \in c
    IN  IF \A w \in cluster : <<w, Default[w]>> \notin NecessaryLiterals(bodies) THEN {}
        ELSE IF Cardinality(cluster) > 1 THEN {{}}
        ELSE NegatedBodies(v, simplified)

Axiom(v, x, body) == [var |-> v, val |-> x, body |-> body]

AxiomsOf(bodies) ==
    LET simplified == [v \in Derived |-> SimplifiedAxioms(<<v, NonDefault(v)>>, bodies[v])]
    IN  UNION {{Axiom(v, NonDefault(v), b) : b \in simplified[v]}
                   \cup {Axiom(v, Default[v], b) : b \in NegativeAxioms(v, bodies, simplified[v])} :
                   v \in Derived}

InSomeOrder(axioms) == FoldSet(LAMBDA x, s : Append(s, x), <<>>, axioms)

\* What the translator may write for the rules.
HandleAxioms(bodies) ==
    {[rules |-> InSomeOrder(AxiomsOf(bodies)), layer |-> l] :
        l \in {MinLayers(bodies)} \cup MaxLayers(bodies)}

=============================================================================
