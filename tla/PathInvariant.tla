--------------------------- MODULE PathInvariant ---------------------------
(***************************************************************************)
(* Why extract_path finds a plan: what the closed lists of a direction and *)
(* their layers keep for every state, what a walk through them knows of    *)
(* the operators it has found, and what is left of it in the plan.         *)
(***************************************************************************)
EXTENDS BidirectionalInvariant, PathExtraction

\* An operator of a plan: its cost and its relation.
PlanOperator == {step \in Costs \X SUBSET (States \X States) : step[2] \in Operators[step[1]]}

\* The operators lead from state s to state t and cost k.
RunTo(ops, s, t, k) ==
    /\ ops \in Seq(PlanOperator)
    /\ \E state \in [0 .. Len(ops) -> States], cost \in [0 .. Len(ops) -> Nat] :
          /\ state[0] = s /\ cost[0] = 0
          /\ state[Len(ops)] = t /\ cost[Len(ops)] = k
          /\ \A i \in 1 .. Len(ops) : /\ <<state[i - 1], state[i]>> \in ops[i][2]
                                       /\ cost[i] = cost[i - 1] + ops[i][1]

\* Where the operators of a plan start: in the initial state or, when the first part of the
\* plan has none in a bidirectional search, in a state that is reached at no cost.
Start(t) == t = InitState \/ (Directions = {"fw", "bw"} /\ PathTo("fw", 0, t))

\* Only in the initial state: no operator leads from it to another one at no cost.
FirstPartKnown ==
    Directions = {"fw", "bw"} => \A t \in States : Transition(InitState, 0, t) => t = InitState

-----------------------------------------------------------------------------
(* The closed lists and their layers.                                      *)

LayersIn(lists, d, h) ==
    IF h \in DOMAIN lists.layers[d] THEN lists.layers[d][h] ELSE <<>>

\* Reconstructable, in the lists that a walk sees.
ReconstructableIn(lists, d, h, s) ==
    \/ h = 0 /\ s \in Source(d)
    \/ \E entry \in lists.closed[d], c \in Costs :
          h = entry[1] + c /\ Leads(d, entry[2], c, s)

\* A state of value h is the source, or has a predecessor to go back to: one that is closed
\* at a smaller value, or one in the first k layers of the same value.
Grounded(lists, d, h, s, k) ==
    \/ h = 0 /\ s \in Source(d)
    \/ \E entry \in lists.closed[d], c \in Costs \ {0} :
          h = entry[1] + c /\ Leads(d, entry[2], c, s)
    \/ \E j \in 1 .. k : \E r \in LayersIn(lists, d, h)[j] : Leads(d, r, 0, s)

ListsType(lists) ==
    /\ lists.closed \in [Directions -> SUBSET (Nat \X States)]
    /\ DOMAIN lists.layers = Directions
    /\ \A d \in Directions :
          /\ DOMAIN lists.layers[d] \subseteq IF HasTransitions0 THEN Nat ELSE {}
          /\ \A h \in DOMAIN lists.layers[d] : lists.layers[d][h] \in Seq(BDD)

\* With 0-cost operators what is closed is in a layer, and a state of a layer has a
\* predecessor in an earlier one, or of a smaller value.
ListsInv(lists) ==
    /\ ListsType(lists)
    /\ \A d \in Directions :
          /\ \A entry \in lists.closed[d] :
                IF HasTransitions0
                THEN \E k \in 1 .. Len(LayersIn(lists, d, entry[1])) :
                        entry[2] \in LayersIn(lists, d, entry[1])[k]
                ELSE Grounded(lists, d, entry[1], entry[2], 0)
          /\ \A h \in DOMAIN lists.layers[d] : \A k \in 1 .. Len(lists.layers[d][h]) :
                \A s \in lists.layers[d][h][k] : Grounded(lists, d, h, s, k - 1)

Lists == [closed |-> closed, layers |-> layers]

-----------------------------------------------------------------------------
(* The walk.                                                               *)

\* The value at which direction d meets the cut of the solution.
PartCost(d) == IF d = "fw" THEN solution.g ELSE solution.h

\* A search on its own meets the source of the other one.
MetAtSource ==
    IsSolved(solution) =>
       \A d \in {"fw", "bw"} : d \notin Directions =>
          PartCost(d) = 0 /\ solution.cut \subseteq Source(d)

WalkType ==
    /\ DOMAIN walk = {"phase", "side", "cut", "h", "steps0", "lists"}
    /\ walk.phase \in {"locate", "walk"}
    /\ walk.side \in Directions
    /\ walk.cut \in BDD /\ walk.cut # {}
    /\ walk.h \in Nat
    /\ walk.steps0 \in 0 .. Len(LayersIn(walk.lists, walk.side, walk.h))

\* A walk can go on from every state of its cut.
WalkGrounded ==
    /\ ListsInv(walk.lists)
    /\ \A d \in Directions : \A s \in solution.cut :
          ReconstructableIn(walk.lists, d, PartCost(d), s)
    /\ \A s \in walk.cut :
          IF walk.phase = "locate" THEN ReconstructableIn(walk.lists, walk.side, walk.h, s)
          ELSE Grounded(walk.lists, walk.side, walk.h, s, walk.steps0)

\* What it has found leads from the cut to a state in which the searches met or, in its
\* second part, from the start of the plan to the cut.
WalkFound ==
    IF walk.side = "fw"
    THEN \A s \in walk.cut : \E t \in solution.cut : RunTo(path, s, t, solution.g - walk.h)
    ELSE \A s \in walk.cut : \E t \in States : Start(t) /\ RunTo(path, t, s, UpperBound - walk.h)

WalkInv ==
    walk.phase # "idle" => IsSolved(solution) /\ WalkType /\ WalkGrounded /\ WalkFound

PlanFound ==
    walk.phase = "idle" =>
       /\ path = <<>>
       /\ plan.found = IsSolved(solution)
       /\ plan.found => \E t \in States, s \in Goal : Start(t) /\ RunTo(plan.ops, t, s, UpperBound)

ExtractionInv == ListsInv(Lists) /\ MetAtSource /\ WalkInv /\ PlanFound

=============================================================================
