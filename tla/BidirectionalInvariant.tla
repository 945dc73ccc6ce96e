------------------------ MODULE BidirectionalInvariant ------------------------
(***************************************************************************)
(* What every symbolic search preserves, in one direction or in both: an   *)
(* invariant that implies the safety properties of SearchCorrectness.  Its *)
(* heart is PlanProgress, that a search loses no plan that would improve   *)
(* the solution, and NoCrossing, that two searches do not both run past    *)
(* the transition at which they would have met on such a plan.             *)
(***************************************************************************)
EXTENDS UnidirectionalInvariant

\* The states of a frontier, expanded in part or not at all.
FrontierStates(f) == UNION (f.filter \cup f.merge \cup f.zero \cup f.cost)

\* The bounds have met, and the step that found it is the last one.
Over == EngineSolved /\ (pc \in {"pop", "finish"} \/ status # "IN_PROGRESS")

\* Nothing is passed to Szero and S before they are empty, and they hold one BDD each.
Shaped(f) ==
    /\ f.zero # {} => f.filter = {} /\ f.merge = {}
    /\ f.cost # {} => f.filter = {} /\ f.merge = {}
    /\ Cardinality(f.zero) <= 1 /\ Cardinality(f.cost) <= 1

\* A bucket is expanded once Frontier::prepare has emptied Sfilter and Smerge.
FrontierShape ==
    \A d \in Directions :
       /\ Shaped(frontier[d])
       /\ pc = "expand" /\ dir = d => frontier[d].filter = {} /\ frontier[d].merge = {}

\* Only closed states are in the frontier, at its g-value.
FrontierClosed ==
    \A d \in Directions : \A s \in FrontierStates(frontier[d]) : <<frontier[d].g, s>> \in closed[d]

SourceClosed == \A d \in Directions : {0} \X Source(d) \subseteq closed[d]

\* hNotClosed and fNotClosed grow alike, and beyond the costs of a run only in the last step.
NotClosedValues ==
    \A d \in Directions :
       /\ hNotClosed[d] = fNotClosed[d]
       /\ hNotClosed[d] <= MaxG + AbsMinTransitionCost \/ Over

\* What holds of the data structures of a search; no solution costs more than an int.
StructureInv ==
    /\ TypeOK /\ WithinMaxG /\ UpperBound <= MaxInt
    /\ LayerOrder
    /\ Phases
    /\ FrontierShape
    /\ FrontierClosed
    /\ SourceClosed
    /\ ClosedOnce
    /\ ClosedDisjoint
    /\ PathsReconstructable
    /\ NotClosedValues

-----------------------------------------------------------------------------
(* When a bucket is ready.                                                 *)

\* A BDD becomes the zero BDD when a mutex is filtered: of the source, which is alone, or
\* of a popped BDD with mutex_type = MUTEX_AND.
Nonzero(d, f) ==
    IF Initialization(d, f.g) THEN f.filter \subseteq {Source(d)} /\ f.merge = {}
    ELSE {} \notin f.filter \cup f.merge

NonzeroBDDs == \A d \in Directions : Nonzero(d, frontier[d])

\* Between two steps a search has a bucket to expand.
BucketReady ==
    \A d \in Directions :
       FrontierEmpty(frontier[d]) => Over \/ (dir = d /\ pc \in {"insert", "pop"})

ReadyInv == NonzeroBDDs /\ BucketReady

-----------------------------------------------------------------------------
(* The plans that would improve the solution.                              *)

ClosedAt(d, s, k) == \E entry \in closed[d] : entry[2] = s /\ entry[1] <= k

OpenAt(d, s, k) == \E entry \in open[d] : s \in entry[2] /\ entry[1] <= k

\* State s is among the images that the search is about to insert.
ImageAt(d, s, k) == dir = d /\ \E image \in images : s \in UNION image[2] /\ image[1] <= k

\* The transition to the state of plan p that is n - 1 from its end has cost c.
PlanStep(d, p, n, c) ==
    /\ Leads(d, NodeAt(d, p, n), c, NodeAt(d, p, n - 1))
    /\ CostAt(d, p, n - 1) = CostAt(d, p, n) + c

\* The state after it is still to be generated, or waits to be closed, or is closed, at
\* its cost.
NextReached(d, p, n, c) ==
    \/ NodeAt(d, p, n) \in Unexpanded(frontier[d], c)
    \/ ImageAt(d, NodeAt(d, p, n - 1), CostAt(d, p, n - 1))
    \/ OpenAt(d, NodeAt(d, p, n - 1), CostAt(d, p, n - 1))
    \/ ClosedAt(d, NodeAt(d, p, n - 1), CostAt(d, p, n - 1))

\* A search that has closed a state of a plan that would improve the solution, at its cost
\* on the plan, goes on along it.
PlanProgress ==
    \A d \in Directions, p \in Plans : PlanCost(p) < UpperBound =>
       \A n \in 1 .. p.len, c \in Costs :
          PlanStep(d, p, n, c) /\ ClosedAt(d, NodeAt(d, p, n), CostAt(d, p, n)) =>
             NextReached(d, p, n, c)

PlanInv == PlanProgress /\ HNotClosedAdmissible

\* One of the searches has still to expand its state of a transition of plan p, or to look
\* for a cut at the state of the other.
MeetingAhead(d, p, n, c) ==
    \/ NodeAt(d, p, n) \in Unexpanded(frontier[d], c)
    \/ NodeAt(d, p, n - 1) \in Unexpanded(frontier[Opposite(d)], c)
    \/ ImageAt(d, NodeAt(d, p, n - 1), CostAt(d, p, n - 1))
    \/ ImageAt(Opposite(d), NodeAt(d, p, n), PlanCost(p) - CostAt(d, p, n))

\* When the two states of a transition of such a plan are closed from both ends, the
\* searches have not yet gone past it.
NoCrossingFrom(d) ==
    \A p \in Plans : Opposite(d) \in Directions /\ PlanCost(p) < UpperBound =>
       \A n \in 1 .. p.len, c \in Costs :
          /\ PlanStep(d, p, n, c)
          /\ NodeAt(d, p, n) \in ClosedStates(closed[d])
          /\ NodeAt(d, p, n - 1) \in ClosedStates(closed[Opposite(d)])
          => MeetingAhead(d, p, n, c)

NoCrossing == \A d \in Directions : NoCrossingFrom(d)

-----------------------------------------------------------------------------
(* When the bidirectional search is optimal.                               *)

Multiple(k) == \E j \in 0 .. k : k = j * AbsMinTransitionCost

\* There are 0-cost operators, or all costs are multiples of the least one: then no plan
\* that the searches have not met on is cheaper than BidirectionalF.
EvenCosts == HasTransitions0 \/ \A c \in Costs : Multiple(c)

\* Without 0-cost operators the layers of a search are multiples of the least cost, and
\* what is open is not in the current layer.
EvenLayers ==
    HasTransitions0 \/
       /\ \A d \in Directions :
             /\ Multiple(frontier[d].g)
             /\ \A entry \in open[d] : Multiple(entry[1]) /\ frontier[d].g < entry[1]
       /\ \A image \in images : Multiple(image[1]) /\ frontier[dir].g < image[1]

\* With mutex_type = MUTEX_AND and no 0-cost operators a search may be left without a bucket
\* between two steps, and getG then skips the layer it should have.
EvenTask ==
    /\ InitState \notin Goal
    /\ EvenCosts
    /\ MutexType # "and" \/ HasTransitions0

\* The inductive invariant of a search of such a task, in one direction or in both.
BidirectionalInv ==
    /\ StructureInv
    /\ MutexType # "and" => ReadyInv
    /\ PlanInv
    /\ NoCrossing
    /\ EvenLayers
    /\ VerdictWhenBoundsMeet
    /\ LowerBoundAdmissible

-----------------------------------------------------------------------------
(* The plans that the solutions of a search stand for.                     *)

\* A path of n transitions in direction d, and what it costs up to each of its states.
Path(d, n, state, cost) ==
    /\ state[0] \in Source(d) /\ cost[0] = 0
    /\ \A i \in 0 .. n - 1 :
          \E c \in Costs : cost[i + 1] = cost[i] + c /\ Leads(d, state[i], c, state[i + 1])
    /\ \A i \in 0 .. n : cost[i] <= cost[n]

\* Direction d has a path of cost g to state s.
PathTo(d, g, s) ==
    \E n \in Nat : \E state \in [0 .. n -> States], cost \in [0 .. n -> Nat] :
       Path(d, n, state, cost) /\ state[n] = s /\ cost[n] = g

\* What is closed has been reached at its g-value, and the two halves of the solution meet
\* in a state, well below numeric_limits<int>::max().
PathInv ==
    /\ \A d \in Directions : \A entry \in closed[d] : PathTo(d, entry[1], entry[2])
    /\ IsSolved(solution) =>
          /\ UpperBound < MaxInt
          /\ \E s \in States : PathTo("fw", solution.g, s) /\ PathTo("bw", solution.h, s)

\* Plans are all the plans whose cost is an int.
AllPlans ==
    \A n \in Nat : \A p \in [len : {n}, state : [0 .. n -> States], g : [0 .. n -> Nat]] :
       IsPlan(p) /\ PlanCost(p) < MaxInt => p \in Plans

=============================================================================
