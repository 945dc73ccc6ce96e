--------------------------- MODULE SymbolicAxioms ---------------------------
(***************************************************************************)
(* The symbolic axiom evaluators, and the images of a search that uses     *)
(* them.  A BDD over the variables of the task is a set of assignments,    *)
(* one of a derived variable (var_bdds) a set of assignments of the        *)
(* primary ones.                                                           *)
(*                                                                         *)
(* The stratifier computes layers when the evaluator is constructed.       *)
(* "varbdds" and "transform" then compute the condition under which each   *)
(* derived variable has its non-default value; the former conjoins the     *)
(* conditions to every image, the latter replaces derived variables in     *)
(* preconditions and the goal and leaves them unconstrained in states.     *)
(* "interleaved" and "interleaved_rules" run the axioms on every image,    *)
(* as transitions or as rules that set their head wherever the body holds. *)
(*                                                                         *)
(* Axioms of a layer are merged as far as time and size permit: the model  *)
(* applies them in groups that it chooses freely.                          *)
(***************************************************************************)
EXTENDS Integers, Sequences, SequencesExt, FiniteSets

CONSTANTS
    Primary, Derived, Values, Default,
    Operators,      \* records pre, effs: literals, and a sequence of cond, var, val
    Initial,        \* the primary variables of the initial state
    Goal,           \* literals
    Programs,       \* records rules, layer: the axioms and g_axiom_layers
    Evaluators,     \* axiom_type
    Stratifiers,    \* axiom_stratification
    BackwardOf      \* the evaluators used in backward searches

VARIABLES
    program, evaluator, stratifier, backward,
    varLayer,                                   \* variable_stratification
    axiomLayer, fixpoint,                       \* axiom_stratification
    sccGraph, preCount, ready,                  \* stratify_scc
    varBdd, open,                               \* var_bdds, open_vars
    layer,
    bdd, started,                               \* the states of the search, once it has some
    operators,                                  \* of the transition relation being applied
    cur, curRes, closed, pending,               \* apply_fixpoint
    pc

choice == <<program, evaluator, stratifier, backward>>
components == <<sccGraph, preCount, ready>>
stratification == <<varLayer, axiomLayer, fixpoint, components>>
evaluation == <<layer, cur, curRes, closed, pending>>
search == <<bdd, started, operators>>
vars == <<choice, stratification, evaluation, varBdd, open, search, pc>>

Layered == INSTANCE Stratification WITH
    Rules <- program.rules, Layer <- program.layer, LastLayer <- Cardinality(Derived)

Task(p) == INSTANCE StratifiedAxioms WITH
    Rules <- p.rules, Layer <- p.layer, LastLayer <- Cardinality(Derived)

PrimaryStates == [Primary -> Values]
PrimaryPart(s) == [v \in Primary |-> s[v]]

\* The same for all sets of axioms.
Assignments == UNION {Task(p)!Assignments : p \in Programs}

\* What the axioms mean: the only state with the given primary variables.
Extended ==
    [p \in Programs |-> [x \in PrimaryStates |->
        CHOOSE s \in Assignments : PrimaryPart(s) = x /\ Task(p)!IsExtension(s)]]

\* The axioms have a meaning for all values of the primary variables.  SymbolicProofs derives
\* this from ProgramsAssumption.
ASSUME ExtensionsExist ==
    Extended \in [Programs -> [PrimaryStates -> Assignments]]

\* What the translator writes: derived variables are binary, and numbered layers of them are
\* such that an axiom needs no higher layer, and none of its own to be false.  An axiom for a
\* default value (Trivial) has conditions of the layers of those for the other value.
ASSUME ProgramsAssumption ==
    /\ IsFiniteSet(Derived)
    /\ Primary \cap Derived = {}
    /\ Default \in [Derived -> {0, 1}]
    /\ \A p \in Programs :
          /\ p.rules \in Seq([var : Derived, val : {0, 1}, body : SUBSET Task(p)!Literals])
          /\ p.layer \in [Derived -> 0 .. Cardinality(Derived) - 1]
          /\ Task(p)!Stratified
          /\ \A i \in Task(p)!RuleIds :
                /\ p.layer[p.rules[i].var] < Len(p.rules)
                /\ \A l \in p.rules[i].body : l[1] \in Derived => p.layer[l[1]] <= p.layer[p.rules[i].var]

\* Operators set primary variables only, and all literals are facts of the task.
ASSUME TaskAssumption ==
    LET Literals == {l \in (Primary \cup Derived) \X (Values \cup {0, 1}) :
                        l[2] \in IF l[1] \in Derived THEN {0, 1} ELSE Values}
    IN  /\ Operators \subseteq [pre : SUBSET Literals,
                                effs : Seq([cond : SUBSET Literals, var : Primary, val : Values])]
        /\ Initial \in PrimaryStates
        /\ Goal \subseteq Literals

RuleIds == Layered!RuleIds
Rule(i) == program.rules[i]
Symbolic == evaluator \in {"varbdds", "transform"}
NumVarLayers == Cardinality({n \in 0 .. Cardinality(Derived) : \E v \in Derived : n <= varLayer[v]})

Goto(p) == pc' = p

-----------------------------------------------------------------------------
Init ==
    /\ program \in Programs
    /\ evaluator \in Evaluators
    /\ stratifier \in Stratifiers
    /\ backward \in {b \in BOOLEAN : b => evaluator \in BackwardOf}
    /\ varLayer = [v \in Derived |-> -1]
    /\ axiomLayer = [i \in RuleIds |-> -1]
    /\ fixpoint = <<>>
    /\ sccGraph = <<>>
    /\ preCount = <<>>
    /\ ready = {}
    /\ varBdd = [v \in Derived |-> {}]
    /\ open = <<>>
    /\ layer = 0
    /\ bdd = {}
    /\ started = FALSE
    /\ operators = {}
    /\ cur = {}
    /\ curRes = {}
    /\ closed = {}
    /\ pending = {}
    /\ pc = "variables"

StratifyVariables ==
    /\ pc = "variables"
    /\ varLayer' = IF stratifier = "scc" THEN Layered!ExtractDerived(Layered!OrderDerived)
                   ELSE program.layer
    /\ Goto(IF stratifier = "scc" THEN "graph" ELSE "heads")
    /\ UNCHANGED <<choice, axiomLayer, fixpoint, components, evaluation, varBdd, open, search>>

\* The layer of an axiom is that of its head, and every layer is a fixpoint layer.
AxiomsByHead ==
    /\ pc = "heads"
    /\ axiomLayer' = [i \in RuleIds |-> varLayer[Rule(i).var]]
    /\ fixpoint' = [n \in 1 .. Len(program.rules) |-> TRUE]
    /\ Goto("init")
    /\ UNCHANGED <<choice, varLayer, components, evaluation, varBdd, open, search>>

EnabledBy(graph, c) == {e \in DOMAIN graph : c \in graph[e]}

BuildComponents ==
    /\ pc = "graph"
    /\ sccGraph' = Layered!ComponentGraph
    /\ preCount' = [c \in DOMAIN sccGraph' |-> Cardinality(EnabledBy(sccGraph', c))]
    /\ ready' = {c \in DOMAIN sccGraph' : EnabledBy(sccGraph', c) = {}}
    /\ Goto("components")
    /\ UNCHANGED <<choice, varLayer, axiomLayer, fixpoint, evaluation, varBdd, open, search>>

\* Wrong: a component is ready when one that it depends on is done.
AssignLayerEarly(done, isFixpoint) ==
    /\ axiomLayer' = [i \in RuleIds |-> IF i \in UNION done THEN Len(fixpoint) ELSE axiomLayer[i]]
    /\ fixpoint' = Append(fixpoint, isFixpoint)
    /\ preCount' = [c \in DOMAIN preCount |-> preCount[c] - Cardinality(EnabledBy(sccGraph, c) \cap done)]
    /\ ready' = (ready \ done) \cup {c \in DOMAIN preCount : EnabledBy(sccGraph, c) \cap done # {}}
    /\ UNCHANGED <<choice, varLayer, sccGraph, evaluation, varBdd, open, search, pc>>

\* The components of done get a layer, and what they enable may become ready.
AssignLayer(done, isFixpoint) ==
    /\ axiomLayer' = [i \in RuleIds |-> IF i \in UNION done THEN Len(fixpoint) ELSE axiomLayer[i]]
    /\ fixpoint' = Append(fixpoint, isFixpoint)
    /\ preCount' = [c \in DOMAIN preCount |-> preCount[c] - Cardinality(EnabledBy(sccGraph, c) \cap done)]
    /\ ready' = (ready \ done) \cup
                {c \in DOMAIN preCount : EnabledBy(sccGraph, c) \cap done # {} /\ preCount'[c] = 0}
    /\ UNCHANGED <<choice, varLayer, sccGraph, evaluation, varBdd, open, search, pc>>

LayerOfComponent ==
    /\ pc = "components"
    /\ \E c \in ready : ~Layered!Single(c) /\ AssignLayer({c}, TRUE)

LayerOfSingles ==
    /\ pc = "components"
    /\ ready # {}
    /\ \A c \in ready : Layered!Single(c)
    /\ AssignLayer(ready, FALSE)

ComponentsDone ==
    /\ pc = "components"
    /\ ready = {}
    /\ Goto("init")
    /\ UNCHANGED <<choice, stratification, evaluation, varBdd, open, search>>

-----------------------------------------------------------------------------
\* init_axioms: the evaluators on transitions only prepare them.
InitAxioms ==
    /\ pc = "init"
    /\ Goto(IF Symbolic THEN "build" ELSE "start")
    /\ UNCHANGED <<choice, stratification, evaluation, varBdd, open, search>>

\* The primary states in which a literal, or a body, holds, given the var_bdds so far.
WithLiteral(bdds, l) ==
    IF l[1] \in Primary THEN {x \in PrimaryStates : x[l[1]] = l[2]}
    ELSE IF l[2] = Default[l[1]] THEN PrimaryStates \ bdds[l[1]] ELSE bdds[l[1]]
BodyBdd(bdds, i) == {x \in PrimaryStates : \A l \in Rule(i).body : x \in WithLiteral(bdds, l)}

BodyBelow(i, k) == \A l \in Rule(i).body : l[1] \in Derived => varLayer[l[1]] < k
AxiomsAt(k) == {i \in RuleIds : ~Layered!Trivial(i) /\ varLayer[Rule(i).var] = k}

\* The axioms that need lower layers only are added, and all variables of the layer queued.
BuildLayer ==
    /\ pc = "build" /\ open = <<>>
    /\ layer < NumVarLayers
    /\ varBdd' = [v \in Derived |-> varBdd[v] \cup
                     UNION {BodyBdd(varBdd, i) :
                               i \in {j \in AxiomsAt(layer) : Rule(j).var = v /\ BodyBelow(j, layer)}}]
    /\ open' \in SetToSeqs({v \in Derived : varLayer[v] = layer})
    /\ layer' = layer + 1
    /\ UNCHANGED <<choice, stratification, cur, curRes, closed, pending, search, pc>>

\* The popped variable stays in front while the axioms with it in the body are visited.
PopVariable ==
    /\ pc = "build" /\ open # <<>>
    /\ pending' = {i \in AxiomsAt(layer - 1) : Layered!InBody(Head(open), i)}
    /\ Goto("propagate")
    /\ UNCHANGED <<choice, stratification, layer, cur, curRes, closed, varBdd, open, search>>

\* Wrong: heads that have changed are not queued again.
QueueUnchanged(head, new) == open

\* A head whose condition has changed is queued.
Queue(head, new) == IF new # varBdd[head] THEN Append(open, head) ELSE open

VisitAxiom ==
    /\ pc = "propagate" /\ pending # {}
    /\ LET i == Min(pending)
           head == Rule(i).var
           new == varBdd[head] \cup (BodyBdd(varBdd, i) \cap varBdd[Head(open)])
       IN  /\ varBdd' = [varBdd EXCEPT ![head] = new]
           /\ open' = Queue(head, new)
           /\ pending' = pending \ {i}
    /\ UNCHANGED <<choice, stratification, layer, cur, curRes, closed, search, pc>>

VariableDone ==
    /\ pc = "propagate" /\ pending = {}
    /\ open' = Tail(open)
    /\ Goto("build")
    /\ UNCHANGED <<choice, stratification, evaluation, varBdd, search>>

BuildDone ==
    /\ pc = "build" /\ open = <<>>
    /\ layer = NumVarLayers
    /\ Goto("start")
    /\ UNCHANGED <<choice, stratification, evaluation, varBdd, open, search>>

-----------------------------------------------------------------------------
\* derived_representation: the literal of a derived variable in an operator or the goal.
Holds(s, l) ==
    IF evaluator = "transform" /\ l[1] \in Derived
    THEN PrimaryPart(s) \in WithLiteral(varBdd, l)
    ELSE s[l[1]] = l[2]
HoldAll(s, literals) == \A l \in literals : Holds(s, l)

EffectsOn(o, v) == {k \in DOMAIN o.effs : o.effs[k].var = v}

\* Wrong: the first one.
ExecutedFirst(s, o, v) ==
    {k \in EffectsOn(o, v) : HoldAll(s, o.effs[k].cond)
        /\ \A m \in EffectsOn(o, v) : m < k => ~HoldAll(s, o.effs[m].cond)}

\* Of the effects on a variable the last one whose condition holds is executed.
Executed(s, o, v) ==
    {k \in EffectsOn(o, v) : HoldAll(s, o.effs[k].cond)
        /\ \A m \in EffectsOn(o, v) : m > k => ~HoldAll(s, o.effs[m].cond)}
Target(s, o) ==
    [v \in DOMAIN s |-> IF Executed(s, o, v) = {} THEN s[v]
                        ELSE o.effs[CHOOSE k \in Executed(s, o, v) : TRUE].val]

Image(ss, os) == {Target(x[1], x[2]) : x \in {y \in ss \X os : HoldAll(y[1], y[2].pre)}}
Preimage(ss, os) == {s \in Assignments : \E o \in os : HoldAll(s, o.pre) /\ Target(s, o) \in ss}

WithPrimaryOf(ss) == {s \in Assignments : \E t \in ss : PrimaryPart(s) = PrimaryPart(t)}
InitialBdd == {s \in Assignments : PrimaryPart(s) = Initial}
GoalBdd == {s \in Assignments : HoldAll(s, Goal)}

\* The initial state passes through the axioms, the goal does not.
Start ==
    /\ pc = "start"
    /\ IF backward \/ evaluator = "transform"
       THEN /\ bdd' = IF backward THEN GoalBdd ELSE InitialBdd
            /\ started' = TRUE
            /\ Goto("idle")
            /\ UNCHANGED cur
       ELSE /\ cur' = InitialBdd
            /\ Goto("apply")
            /\ UNCHANGED <<bdd, started>>
    /\ UNCHANGED <<choice, stratification, layer, curRes, closed, pending, varBdd, open, operators>>

\* The operators of one transition relation.
ComputeImage ==
    /\ pc = "idle"
    /\ operators' \in SUBSET Operators
    /\ cur' = IF backward THEN Preimage(bdd, operators') ELSE Image(bdd, operators')
    /\ Goto("apply")
    /\ UNCHANGED <<choice, stratification, layer, curRes, closed, pending, varBdd, open, bdd, started>>

-----------------------------------------------------------------------------
Satisfying(ss) ==
    {s \in WithPrimaryOf(ss) :
        \A v \in Derived : (s[v] # Default[v]) <=> PrimaryPart(s) \in varBdd[v]}

ApplyVarBdds ==
    /\ pc = "apply" /\ Symbolic
    /\ bdd' = IF evaluator = "transform" THEN cur ELSE Satisfying(cur)
    /\ started' = TRUE
    /\ operators' = {}
    /\ Goto("idle")
    /\ UNCHANGED <<choice, stratification, evaluation, varBdd, open>>

SetToDefault(ss) == {s \in WithPrimaryOf(ss) : \A v \in Derived : s[v] = Default[v]}

ApplyFixpoint ==
    /\ pc = "apply" /\ ~Symbolic
    /\ cur' = SetToDefault(cur)
    /\ layer' = 0
    /\ Goto("layer")
    /\ UNCHANGED <<choice, stratification, curRes, closed, pending, varBdd, open, search>>

AxiomsOf(k) == {i \in RuleIds : ~Layered!Trivial(i) /\ axiomLayer[i] = k}

\* Wrong: the old value is not asked for.
CanFireAgain(s, i) == \A l \in Rule(i).body : s[l[1]] = l[2]

\* An axiom is applicable when its body holds and the head has its old value.
CanFire(s, i) == s[Rule(i).var] # Rule(i).val /\ \A l \in Rule(i).body : s[l[1]] = l[2]

\* Where no axiom of the layer is applicable.
Removed(ss) == {s \in ss : \A i \in AxiomsOf(layer) : ~CanFire(s, i)}

\* Several axioms as one transition relation, and as one rule.
FireOne(s, i) == [s EXCEPT ![Rule(i).var] = Rule(i).val]
FireSome(ss, g) == {FireOne(x[1], x[2]) : x \in {y \in ss \X g : CanFire(y[1], y[2])}}
FireAll(s, g) ==
    [v \in DOMAIN s |-> IF \E i \in g : Rule(i).var = v /\ CanFire(s, i) THEN 1 - Default[v] ELSE s[v]]

EnterLayer ==
    /\ pc = "layer"
    /\ layer < Len(fixpoint)
    /\ IF evaluator = "interleaved" \/ fixpoint[layer + 1]
       THEN /\ closed' = IF evaluator = "interleaved" THEN cur ELSE {}
            /\ curRes' = {}
            /\ Goto("loop")
            /\ UNCHANGED pending
       ELSE /\ pending' = AxiomsOf(layer)
            /\ Goto("once")
            /\ UNCHANGED <<closed, curRes>>
    /\ UNCHANGED <<choice, stratification, layer, cur, varBdd, open, search>>

\* Another round: states with no applicable axiom are done; rules forget them, else a
\* rule that fires in none of them would keep the loop going.
NextRound ==
    /\ pc = "loop" /\ cur # {}
    /\ curRes' = curRes \cup Removed(cur)
    /\ cur' = IF evaluator = "interleaved" THEN cur ELSE cur \ Removed(cur)
    /\ pending' = IF cur' = {} THEN {} ELSE AxiomsOf(layer)
    /\ Goto("round")
    /\ UNCHANGED <<choice, stratification, layer, closed, varBdd, open, search>>

FireGroup ==
    /\ pc \in {"round", "once"} /\ pending # {}
    /\ \E g \in SUBSET pending \ {{}} :
          /\ cur' = IF evaluator = "interleaved" THEN cur \cup FireSome(cur, g)
                    ELSE {FireAll(s, g) : s \in cur}
          /\ pending' = pending \ g
    /\ UNCHANGED <<choice, stratification, layer, curRes, closed, varBdd, open, search, pc>>

RoundDone ==
    /\ pc = "round" /\ pending = {}
    /\ IF evaluator = "interleaved"
       THEN cur' = cur \ closed /\ closed' = closed \cup cur
       ELSE UNCHANGED <<cur, closed>>
    /\ Goto("loop")
    /\ UNCHANGED <<choice, stratification, layer, curRes, pending, varBdd, open, search>>

LeaveLayer ==
    /\ \/ pc = "loop" /\ cur = {} /\ cur' = curRes
       \/ pc = "once" /\ pending = {} /\ UNCHANGED cur
    /\ layer' = layer + 1
    /\ Goto("layer")
    /\ UNCHANGED <<choice, stratification, curRes, closed, pending, varBdd, open, search>>

Return ==
    /\ pc = "layer"
    /\ layer = Len(fixpoint)
    /\ bdd' = cur
    /\ started' = TRUE
    /\ operators' = {}
    /\ Goto("idle")
    /\ UNCHANGED <<choice, stratification, evaluation, varBdd, open>>

-----------------------------------------------------------------------------
Stratify ==
    StratifyVariables \/ AxiomsByHead \/ BuildComponents \/ LayerOfComponent
        \/ LayerOfSingles \/ ComponentsDone
Prepare == InitAxioms \/ BuildLayer \/ PopVariable \/ VisitAxiom \/ VariableDone \/ BuildDone \/ Start
Apply ==
    ApplyVarBdds \/ ApplyFixpoint \/ EnterLayer \/ NextRound \/ FireGroup \/ RoundDone
        \/ LeaveLayer \/ Return
Next == Stratify \/ Prepare \/ Apply \/ ComputeImage

Spec == Init /\ [][Next]_vars
FairSpec == Spec /\ WF_vars(Prepare \/ Apply)

-----------------------------------------------------------------------------

\* Once the stratifier has returned, no axiom can be applied before everything its body
\* needs has been derived: the layers of the variables order negation, the layers of the
\* axioms also whatever an axiom of a layer without fixpoint needs.  Every axiom is in a layer
\* (the assertion of stratification.cc:441), and no component is enabled twice or before
\* what it depends on.
StratificationSound ==
    /\ pc \notin {"variables", "heads", "graph", "components"} =>
          /\ Layered!VariableLayersSound(varLayer)
          /\ Layered!AxiomLayersSound(axiomLayer, fixpoint)
    /\ pc = "components" => \A c \in ready : \A d \in EnabledBy(sccGraph, c) :
          \A i \in d : axiomLayer[i] # -1
    /\ pc = "init" => \A i \in RuleIds : axiomLayer[i] \in 0 .. Len(fixpoint) - 1

\* When the worklist has emptied, the condition computed for a derived variable is the one
\* under which it has its other value, for all layers that have been built.
ConditionsExact ==
    (pc = "build" /\ open = <<>>) \/ (Symbolic /\ pc = "idle") =>
        \A v \in Derived : varLayer[v] < layer =>
            varBdd[v] = {x \in PrimaryStates : Extended[program][x][v] # Default[v]}

\* Only the values of the derived variables that are those of a state count in a search
\* that leaves them open, or that has not passed through the axioms.
Meaning ==
    IF backward \/ evaluator = "transform"
    THEN {s \in bdd : s = Extended[program][PrimaryPart(s)]} ELSE bdd

\* The searches compute the sets of states that the explicit semantics defines: the image
\* of every transition relation, with the axioms, is the set of successors (predecessors).
Explicit == INSTANCE ExplicitSuccessors WITH
    reached <- Meaning,
    request <- IF started /\ pc # "idle" THEN <<operators>> ELSE <<>>
ImplementsExplicit == Explicit!Spec

\* The loops end: the worklist of var_bdds empties, and every application of the axioms
\* gives the search its states.
EvaluationReturns ==
    /\ pc = "init" ~> pc = "idle"
    /\ pc = "apply" ~> pc = "idle"

=============================================================================
