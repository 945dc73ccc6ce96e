------------------------- MODULE SearchCorrectness -------------------------
(***************************************************************************)
(* What the symbolic uniform-cost search promises, stated over the plans   *)
(* of the task.  Plans is a set of plans the search is judged against: a   *)
(* run of TLC takes those of bounded length, a theorem holds for every     *)
(* value and so for the set of all of them.                                *)
(***************************************************************************)
EXTENDS UniformCostSearch

CONSTANT Plans  \* records [len, state, g]: the i-th state and the cost to reach it

Transition(s, c, t) == c \in Costs /\ \E tr \in TRs[c] : <<s, t>> \in tr

IsPlan(p) ==
    /\ p.len \in Nat
    /\ p.state \in [0 .. p.len -> States]
    /\ p.g \in [0 .. p.len -> Nat]
    /\ p.state[0] = InitState /\ p.g[0] = 0
    /\ p.state[p.len] \in Goal
    /\ \A i \in 0 .. p.len - 1 :
          \E c \in Costs : p.g[i + 1] = p.g[i] + c /\ Transition(p.state[i], c, p.state[i + 1])

PlanCost(p) == p.g[p.len]

\* Costs are ints, and no state of a plan violates a mutex.
ASSUME PlanAssumption ==
    \A p \in Plans :
       /\ IsPlan(p)
       /\ PlanCost(p) < MaxInt
       /\ \A i \in 0 .. p.len, d \in {"fw", "bw"} : p.state[i] \in NotMutex[d]

-----------------------------------------------------------------------------

\* The transitions of direction d: u leads to v.
Leads(d, u, c, v) == IF d = "fw" THEN Transition(u, c, v) ELSE Transition(v, c, u)

FrontierType == [g : Nat, filter : Bucket, merge : Bucket, zero : Bucket, cost : Bucket]
SolutionType == {NoSolution} \cup [g : Nat, h : Nat, cut : BDD]

TypeOK ==
    /\ open \in [Directions -> SUBSET (Nat \X BDD)]
    /\ frontier \in [Directions -> FrontierType]
    /\ closed \in [Directions -> SUBSET (Nat \X States)]
    /\ hNotClosed \in [Directions -> 0 .. MaxInt]
    /\ fNotClosed \in [Directions -> 0 .. MaxInt]
    /\ lastStepCost \in [Directions -> BOOLEAN]
    /\ lowerBound \in 0 .. MaxInt
    /\ solution \in SolutionType
    /\ images \in SUBSET (Nat \X Bucket)
    /\ dir \in Directions
    /\ pc \in {"step", "expand", "insert", "pop", "finish"}
    /\ status \in {"IN_PROGRESS", "SOLVED", "FAILED", "TIMEOUT"}
    /\ truncations \in 0 .. MaxTruncations

\* The assertions of frontier.h and frontier.cc that order the four buckets:
\* bucket(), expand(), expand_zero() and prepare() may never abort.
FrontierAssertions ==
    \A d \in Directions :
       LET f == frontier[d]
       IN  /\ f.zero # {} => f.filter = {} /\ f.merge = {}
           /\ f.cost # {} => f.filter = {} /\ f.merge = {}
           /\ Cardinality(f.zero) <= 1 /\ Cardinality(f.cost) <= 1
           /\ pc = "expand" /\ dir = d => f.zero # {} \/ f.cost # {}

\* A state is closed once per direction: with the g-value of the bucket that
\* was popped first, which closed_list.cc relies on when it rebuilds a path.
ClosedOnce ==
    \A d \in Directions : \A x, y \in closed[d] : x[2] = y[2] => x[1] = y[1]

\* The searches of a bidirectional run never close a common state: checkCut
\* finds it as a solution first and prunes it.
ClosedDisjoint ==
    InitState \notin Goal =>
       \A d \in Directions : ClosedStates(closed[d]) \cap ClosedStates(OppositeClosed(d)) = {}

\* What extract_path needs to go back from a state of value g: the source, or
\* a closed state one transition closer to it.
Reconstructable(d, g, s) ==
    \/ g = 0 /\ s \in Source(d)
    \/ \E entry \in closed[d], c \in Costs :
          g = entry[1] + c /\ Leads(d, entry[2], c, s)

\* "Solution reconstruction failed" (closed_list.cc) is never reached: every
\* closed, open or just generated state, and every state of the cut of the
\* solution in both directions, has a predecessor to go back to.
PathsReconstructable ==
    /\ \A d \in Directions :
          /\ \A entry \in closed[d] : Reconstructable(d, entry[1], entry[2])
          /\ \A entry \in open[d] : \A s \in entry[2] : Reconstructable(d, entry[1], s)
    /\ \A image \in images : \A s \in UNION image[2] : Reconstructable(dir, image[1], s)
    /\ IsSolved(solution) =>
          /\ solution.cut # {}
          /\ \A s \in solution.cut :
                /\ "fw" \in Directions => Reconstructable("fw", solution.g, s)
                /\ "bw" \in Directions => Reconstructable("bw", solution.h, s)

\* The lower bound the search prints and stops by is one: no plan is cheaper.
LowerBoundAdmissible == \A p \in Plans : lowerBound <= PlanCost(p)

\* A task is reported solved with the cost of a cheapest plan, and as failed
\* only when it has no plan.
OptimalResult ==
    /\ status = "SOLVED" => \A p \in Plans : UpperBound <= PlanCost(p)
    /\ status = "FAILED" => Plans = {}

\* What a plan costs between the source of direction d and its i-th state.
CostFrom(d, p, i) == IF d = "fw" THEN p.g[i] ELSE PlanCost(p) - p.g[i]

\* hNotClosed, by which stepImage of the opposite search prunes, never exceeds
\* the cost from an unclosed state on to the end of a plan that would improve
\* the solution.
HNotClosedAdmissible ==
    \A d \in Directions, p \in Plans : PlanCost(p) < UpperBound =>
       \A i \in 0 .. p.len :
          p.state[i] \notin ClosedStates(closed[d]) => hNotClosed[d] <= CostFrom(d, p, i)

\* The sum stepImage compares with the upper bound does not overflow, although
\* an exhausted search sets hNotClosed to numeric_limits<int>::max().
FValueInRange ==
    \A image \in images : image[1] + OppositeHNotClosed(dir) <= MaxInt

-----------------------------------------------------------------------------

\* The search is an anytime planner: a lower bound no plan beats only rises, an
\* upper bound that some plan attains only falls, and the verdict is given when
\* they meet.
Planner == INSTANCE AnytimePlanner WITH
               PlanCosts <- {PlanCost(p) : p \in Plans},
               Infinity  <- MaxInt,
               lower     <- lowerBound,
               upper     <- UpperBound

ImplementsPlanner == Planner!Spec

\* The search ends, as long as its steps exceed the resource limits finitely often.
Termination == <>(status # "IN_PROGRESS")

=============================================================================
