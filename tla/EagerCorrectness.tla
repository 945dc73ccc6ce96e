-------------------------- MODULE EagerCorrectness --------------------------
(***************************************************************************)
(* What eager search promises, judged by the cheapest costs in the graph   *)
(* of the whole task.                                                      *)
(***************************************************************************)
EXTENDS EagerSearch

\* The least real cost from a state to the goal, by relaxing every transition once per state.
GoalDistance ==
    LET dist[n \in 0 .. Cardinality(States)] ==
            IF n = 0 THEN [s \in States |-> IF s \in Goal THEN 0 ELSE Infinity]
            ELSE [s \in States |->
                     Min({dist[n - 1][s]} \cup
                         {Sum(Cost[op], dist[n - 1][Successor(s, op)]) : op \in Applicable(s)})]
    IN  dist[Cardinality(States)]

\* The heuristics that overestimate no state.
Admissible ==
    config.heuristic = LmCount \/ \A s \in States : Tables[config.heuristic][s] <= GoalDistance[s]

Statuses == {"NEW", "OPEN", "CLOSED", "DEAD_END"}

-----------------------------------------------------------------------------

\* The assertion of SearchNode::close, and that no open state is forgotten: each has an
\* entry, with a key that is not above its present f-value when nodes are reopened.
OpenListComplete ==
    /\ \A i \in 1 .. Len(open) :
          status[open[i].state] \in {"OPEN", "CLOSED"} \cup IF config.mpd THEN {"DEAD_END"} ELSE {}
    /\ \A s \in States : status[s] = "OPEN" =>
          \E i \in 1 .. Len(open) :
             /\ open[i].state = s
             /\ open[i].h <= Estimate(s, reached[s])
             /\ config.reopen => open[i].key = Key(g[s], open[i].h)

\* A search that reopens never has a closed state with a successor it could improve: the
\* transitions of closed states that are not pending are relaxed or cut off.
ClosedRelaxed ==
    config.reopen =>
       \A s \in States : \A op \in Applicable(s) :
          LET t == Successor(s, op)
          IN  /\ status[s] = "CLOSED"
              /\ s \notin Goal
              /\ ~ (phase = "expand" /\ s = current /\ op \in pending)
              => \/ realG[s] + Cost[op] >= config.bound
                 \/ status[t] = "DEAD_END"
                 \/ status[t] # "NEW" /\ g[t] <= g[s] + AdjustedCost(op)

\* The edges of the task, with their costs under every cost type.
TaskEdges ==
    UNION {{<<s, AdjustedActionCost(op, type), Successor(s, op)>> : op \in Applicable(s)} :
              s \in States, type \in {"NORMAL", "ONE", "PLUSONE"}}

\* The nodes, their g-values and their parents are a shortest-path tree under construction.
Tree == INSTANCE PathTree WITH
            Nodes  <- States,
            Root   <- InitialState,
            NoNode <- NoState,
            Edges  <- TaskEdges,
            dist   <- g,
            pred   <- parent

BuildsTree == Tree!Spec

\* trace_path terminates, in whatever order nodes are reopened or updated: the parents
\* never form a cycle, not even of 0-cost operators.
NoParentCycle == Tree!NoCycle

StatesAlong(p) ==
    LET at[n \in 0 .. Len(p)] == IF n = 0 THEN InitialState ELSE Successor(at[n - 1], p[n]) IN at

CostAlong(p) ==
    LET sum[n \in 0 .. Len(p)] == IF n = 0 THEN 0 ELSE sum[n - 1] + Cost[p[n]] IN sum

\* The plan leads from the initial state to a goal state, and without a cost_type it costs
\* at most the g-value of that state and less than the bound.
PlanSound ==
    phase = "solved" =>
       /\ \A i \in 1 .. Len(plan) : plan[i] \in Applicable(StatesAlong(plan)[i - 1])
       /\ StatesAlong(plan)[Len(plan)] = current
       /\ config.costType = "NORMAL" =>
             /\ CostAlong(plan)[Len(plan)] <= g[current]
             /\ CostAlong(plan)[Len(plan)] < config.bound

\* "A*": with an admissible heuristic, consistent or not, no plan is cheaper.
OptimalPlan ==
    phase = "solved" /\ config.open = "astar" /\ config.costType = "NORMAL" /\ Admissible =>
       CostAlong(plan)[Len(plan)] = GoalDistance[InitialState]

\* "Completely explored state space -- no solution!": without a bound, or when the
\* g-values are real costs and nodes are reopened, there is no plan within the bound.
FailureIsProof ==
    /\ phase = "failed"
    /\ config.bound = Infinity \/ (config.reopen /\ config.costType = "NORMAL")
    => GoalDistance[InitialState] >= config.bound

\* The states to which a path leads from the initial state along which landmark l is never
\* true: those in every set of states that such paths cannot leave.
Avoiding(l) ==
    LET Unleavable == {X \in SUBSET States :
            /\ InitialState \in X \cup TrueIn[l]
            /\ \A s \in X : \A op \in Applicable(s) : Successor(s, op) \in X \cup TrueIn[l]}
    IN  {s \in States : \A X \in Unleavable : s \in X}

\* Operator op makes landmark l true when it is applied in s.
Achieves(s, op, l) == op \in Applicable(s) /\ s \notin TrueIn[l] /\ Successor(s, op) \in TrueIn[l]

\* What the landmark factories promise a heuristic that is to be admissible, which refuses
\* reasonable orders (landmark_count_heuristic.cc:37): landmarks are true on every plan, and
\* those of the goal at its end; achievers are all there are; a landmark becomes true only
\* after its parents have been, and right after its greedy-necessary ones.  No operator
\* pays for more than it costs (cost sharing).
LandmarksSound ==
    /\ \A l \in Landmarks :
          /\ Goal \cap Avoiding(l) = {}
          /\ l \in GoalLandmarks => Goal \subseteq TrueIn[l]
          /\ \A s \in States, op \in Operators : Achieves(s, op, l) =>
                /\ op \in PossibleAchievers[l]
                /\ op \in FirstAchievers[l] \/ s \notin Avoiding(l)
    /\ \A order \in Orders :
          /\ InitialState \notin TrueIn[order[2]]
          /\ \A s \in Avoiding(order[1]), op \in Operators : ~ Achieves(s, op, order[2])
    /\ \A order \in GreedyNecessary :
          \A s \in Avoiding(order[2]), op \in Operators :
             Achieves(s, op, order[2]) => s \in TrueIn[order[1]]
    /\ \A op \in Operators :
          MapThenSumSet(LAMBDA l : MinCost[l], {l \in Landmarks : op \in PossibleAchievers[l]}) <= Cost[op]

\* The landmark count stays admissible while the reached landmarks of a state are those
\* of the paths notified so far, some of them out of date; and no dead end has a plan,
\* be it the initial state, which is then never opened.
LandmarksAdmissible ==
    config.heuristic = LmCount =>
       \A s \in States :
          /\ status[s] \in {"OPEN", "CLOSED"} => Estimate(s, reached[s]) <= GoalDistance[s]
          /\ \/ status[s] = "DEAD_END"
             \/ s = InitialState /\ status[s] = "NEW" /\ phase # "initialize"
             => GoalDistance[s] = Infinity

\* The search ends.
SearchEnds == <>(phase \in {"solved", "failed"})

=============================================================================
