-------------------------- MODULE PathExtraction --------------------------
(***************************************************************************)
(* The plan of a solution.  Whenever the search finds a better solution,   *)
(* SymSolution::getPlan walks from the states where the searches met back  *)
(* to the initial state, and then on to the goal, through the closed lists *)
(* (ClosedList::extract_path).  States of the same g-value that 0-cost     *)
(* operators have reached one after the other are told apart by layers.    *)
(*                                                                         *)
(* The walk is part of the step that finds the solution: it sees the lists *)
(* as they were then (walk.closed, walk.layers), and the search goes on    *)
(* when it has ended.  Which of several operators it takes depends on the  *)
(* order of vectors and is left open.                                      *)
(***************************************************************************)
EXTENDS SearchCorrectness, SequencesExt

CONSTANT Operators  \* getIndividualTRs: cost -> the relations of the operators

\* The transitions of the search are those of the operators, merged.
ASSUME OperatorsAssumption ==
    /\ DOMAIN Operators = Costs
    /\ \A c \in Costs :
          /\ UNION Operators[c] = UNION TRs[c]
          /\ \A op \in Operators[c] : \A x, y \in op : x[1] = y[1] => x = y

VARIABLES
    layers,     \* ClosedList::zeroCostClosed of each direction: g -> sequence of BDDs
    walk,       \* where extract_path is
    path,       \* the operators found so far, as pairs <<cost, relation>>
    plan        \* SearchEngine::plan

extraction == <<layers, walk, path, plan>>

Idle == [phase |-> "idle"]

\* extract_path is called for one side of the solution.
StartWalk(d, cut, h, lists) ==
    [phase |-> "locate", side |-> d, cut |-> cut, h |-> h, steps0 |-> 0, lists |-> lists]

LayersAt(h) == LET of == walk.lists.layers[walk.side]
               IN  IF h \in DOMAIN of THEN of[h] ELSE <<>>
ClosedBDD(h) == {entry[2] : entry \in {e \in walk.lists.closed[walk.side] : e[1] = h}}

\* tr.preimage in the forward and tr.image in the backward search.
Back(op) == Image(Opposite(walk.side), op, walk.cut)

\* Mutant: the layer the cut is in counts as an earlier one.
MetUpTo(bdd, h, bound) == {k \in 1 .. SmallerOf(bound + 1, Len(LayersAt(h))) : bdd \cap LayersAt(h)[k] # {}}

\* The layers before the bound that share a state with the BDD.
Met(bdd, h, bound) == {k \in 1 .. bound : bdd \cap LayersAt(h)[k] # {}}

\* The forward walk finds the operators in reverse order.
Extended(op) == IF walk.side = "fw" THEN <<op>> \o path ELSE Append(path, op)

\* Where operators lead from the initial state (StateRegistry::get_successor_state).
Reached(ops) == FoldLeft(LAMBDA bdd, op : Image("fw", op[2], bdd), {InitState}, ops)

PathCost(ops) == FoldLeft(LAMBDA sum, op : sum + op[1], 0, ops)

-----------------------------------------------------------------------------

\* The first layer that contains a part of the cut, or none: the cut was found when it was
\* generated and is of no closed layer.
Locate ==
    /\ walk.phase = "locate"
    /\ LET size == Len(LayersAt(walk.h))
           hits == Met(walk.cut, walk.h, size)
       IN  walk' = IF hits = {} THEN [walk EXCEPT !.phase = "walk", !.steps0 = size]
                   ELSE [walk EXCEPT !.phase = "walk", !.steps0 = Min(hits) - 1,
                                     !.cut = @ \cap LayersAt(walk.h)[Min(hits)]]
    /\ UNCHANGED <<vars, layers, path, plan>>

\* A 0-cost operator leads to the cut from an earlier layer.
ZeroOperators ==
    {op \in UNION {Operators[c] : c \in Costs \cap {0}} : Met(Back(op), walk.h, walk.steps0) # {}}

ZeroStep ==
    /\ walk.phase = "walk" /\ walk.steps0 > 0
    /\ \/ \E op \in ZeroOperators :
             LET k == Min(Met(Back(op), walk.h, walk.steps0))
             IN  /\ walk' = [walk EXCEPT !.steps0 = k - 1, !.cut = Back(op) \cap LayersAt(walk.h)[k]]
                 /\ path' = Extended(<<0, op>>)
       \/ /\ ZeroOperators = {}
          /\ walk' = [walk EXCEPT !.steps0 = 0]
          /\ UNCHANGED path
    /\ UNCHANGED <<vars, layers, plan>>

\* The costs of the operators that lead to the cut from a closed state.
CostOperators(c) == {op \in Operators[c] : Back(op) \cap ClosedBDD(walk.h - c) # {}}
BackCosts == {c \in Costs \ {0} : CostOperators(c) # {}}

\* Without such an operator, or a layer for it, "Solution reconstruction failed".
CostStep ==
    /\ walk.phase = "walk" /\ walk.steps0 = 0 /\ walk.h > 0
    /\ IF BackCosts = {} THEN walk' = [walk EXCEPT !.phase = "failed"] /\ UNCHANGED path
       ELSE LET c == Min(BackCosts)
                h == walk.h - c
            IN  \E op \in CostOperators(c) :
                   LET cut  == Back(op) \cap ClosedBDD(h)
                       hits == Met(cut, h, Len(LayersAt(h)))
                   IN  /\ walk' = IF LayersAt(h) = <<>> THEN [walk EXCEPT !.h = h, !.cut = cut]
                                  ELSE IF hits = {} THEN [walk EXCEPT !.phase = "failed"]
                                  ELSE [walk EXCEPT !.h = h, !.steps0 = Min(hits) - 1,
                                                    !.cut = cut \cap LayersAt(h)[Min(hits)]]
                       /\ path' = Extended(<<c, op>>)
    /\ UNCHANGED <<vars, layers, plan>>

\* Mutant: the state the first part of the plan leads to is not computed.
CutOfSolution == solution.cut

\* The states the second part of the plan starts from: the one that the first part leads
\* to or, when that part is empty, the cut.
NewCut == IF path # <<>> THEN Reached(path) ELSE solution.cut

SideDone ==
    /\ walk.phase = "walk" /\ walk.steps0 = 0 /\ walk.h = 0
    /\ IF walk.side = "fw" /\ "bw" \in Directions
       THEN /\ walk' = StartWalk("bw", NewCut, solution.h, walk.lists)
            /\ UNCHANGED <<path, plan>>
       ELSE /\ walk' = Idle
            /\ path' = <<>>
            /\ plan' = [found |-> TRUE, ops |-> path]
    /\ UNCHANGED <<vars, layers>>

-----------------------------------------------------------------------------

\* Mutant: 0-cost layers are not recorded.
ClosedWithoutLayers(bucket, g) == {layers}

\* ClosedList::insert for each BDD of the popped bucket.
LayersAfter(bucket, g) ==
    IF ~ HasTransitions0 THEN {layers}
    ELSE LET of == layers[dir]
             old == IF g \in DOMAIN of THEN of[g] ELSE <<>>
         IN  {[layers EXCEPT ![dir] = [h \in DOMAIN of \cup {g} |->
                  IF h = g THEN old \o order ELSE of[h]]] : order \in SetToSeqs(bucket)}

\* The initial state is closed by init, and not a second time when it is popped.
ClosePopped ==
    LET popped == frontier'[dir]
    IN  layers' \in IF (~ lastStepCost[dir] \/ popped.g # 0) /\ popped.filter # {}
                    THEN LayersAfter(popped.filter, popped.g) ELSE {layers}

\* SymbolicSearch::new_solution extracts the plan of a better solution at once.
ExtractIfBetter ==
    /\ walk' = IF solution' = solution THEN Idle
               ELSE LET lists == [closed |-> closed, layers |-> layers]
                    IN  IF "fw" \in Directions
                        THEN StartWalk("fw", solution'.cut, solution'.g, lists)
                        ELSE StartWalk("bw", solution'.cut, solution'.h, lists)
    /\ UNCHANGED <<path, plan>>

SearchStep ==
    /\ walk.phase = "idle"
    /\ \/ Pop /\ ClosePopped
       \/ Insert /\ UNCHANGED layers
       \/ /\ \E d \in Directions : Step(d)
          /\ UNCHANGED layers
       \/ ExpandZero /\ UNCHANGED layers
       \/ ExpandCost /\ UNCHANGED layers
       \/ ExpandTruncated /\ UNCHANGED layers
       \/ InsertDone /\ UNCHANGED layers
       \/ Exhaust /\ UNCHANGED layers
       \/ PrepareNext /\ UNCHANGED layers
       \/ Finish /\ UNCHANGED layers
       \/ Terminated /\ UNCHANGED layers
    /\ ExtractIfBetter

ExtractionInit ==
    /\ Init
    /\ layers = [d \in Directions |->
                    [h \in IF HasTransitions0 THEN {0} ELSE {} |-> <<Source(d)>>]]
    /\ walk = Idle
    /\ path = <<>>
    /\ plan = [found |-> FALSE, ops |-> <<>>]

ExtractionNext == SearchStep \/ Locate \/ ZeroStep \/ CostStep \/ SideDone

ExtractionSpec == ExtractionInit /\ [][ExtractionNext]_<<vars, extraction>>
FairExtractionSpec == ExtractionSpec /\ WF_<<vars, extraction>>(ExtractionNext)

-----------------------------------------------------------------------------

\* The walk never ends without a predecessor ("Solution reconstruction failed",
\* closed_list.cc:296) or a layer (the assertion of closed_list.cc:274).  The plan leads
\* from the initial state to the goal, and costs what the search says, by which it decides
\* that the plan is optimal.
PlanValid ==
    /\ walk.phase # "failed"
    /\ walk.phase = "idle" =>
          /\ plan.found = IsSolved(solution)
          /\ plan.found => /\ Reached(plan.ops) # {}
                           /\ Reached(plan.ops) \subseteq Goal
                           /\ PathCost(plan.ops) = UpperBound

\* The walk does not go round in 0-cost cycles: each step descends to a smaller g-value or
\* to an earlier layer.
WalkDescends ==
    [][walk.phase = "walk" /\ walk'.phase = "walk" =>
          walk'.h < walk.h \/ (walk'.h = walk.h /\ walk'.steps0 < walk.steps0)]_<<vars, extraction>>

=============================================================================
