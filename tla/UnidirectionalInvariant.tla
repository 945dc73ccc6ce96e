----------------------- MODULE UnidirectionalInvariant -----------------------
(***************************************************************************)
(* Why the forward and the backward search are optimal: an invariant that  *)
(* Next preserves and that implies TypeOK, LowerBoundAdmissible and        *)
(* OptimalResult.  Its heart is SuccessorsReached: what leads out of a     *)
(* closed state is still to be expanded, or has been reached at no greater *)
(* cost, or cannot improve the solution.                                   *)
(***************************************************************************)
EXTENDS SearchCorrectness

\* What the invariant is about: sfw or sbw on a task that is not solved at once.
OneDirection == Directions # {"fw", "bw"} /\ InitState \notin Goal

\* No g-value exceeds the bound of the model.
WithinMaxG ==
    /\ \A d \in Directions :
          /\ frontier[d].g <= MaxG
          /\ \A entry \in open[d] : entry[1] <= MaxG
    /\ \A image \in images : image[1] <= MaxG

\* Layers are closed in the order of their g-values.
LayerOrder ==
    \A d \in Directions :
       /\ \A entry \in closed[d] : entry[1] <= frontier[d].g
       /\ \A entry \in open[d] : frontier[d].g <= entry[1]
       /\ dir = d => \A image \in images : frontier[d].g <= image[1]

\* What the phases of a step leave empty.
Phases ==
    /\ images # {} => pc = "insert"
    /\ status # "IN_PROGRESS" => pc = "step"
    /\ \A d \in Directions :
          /\ lastStepCost[d] => open[d] = {} /\ (dir = d => images = {})
          /\ ~ HasTransitions0 => frontier[d].zero = {}
          /\ UNION frontier[d].zero \subseteq UNION frontier[d].cost

\* A search closes its source first and never closes its target.
SourceAndTarget ==
    \A d \in Directions :
       /\ {0} \X Source(d) \subseteq closed[d]
       /\ ClosedStates(closed[d]) \cap Source(Opposite(d)) = {}

\* The states of a frontier whose transitions of cost c are not yet expanded.
Unexpanded(f, c) ==
    UNION (f.filter \cup f.merge \cup f.zero \cup (IF c = 0 THEN {} ELSE f.cost))

\* State t has been reached by direction d with a cost of at most k, or a path
\* through t that costs k up to t is no better than the solution.
ReachedAt(d, t, k) ==
    \/ \E entry \in closed[d] : entry[2] = t /\ entry[1] <= k
    \/ \E entry \in open[d] : t \in entry[2] /\ entry[1] <= k
    \/ dir = d /\ \E image \in images : t \in UNION image[2] /\ image[1] <= k
    \/ UpperBound <= k + (IF t \in Source(Opposite(d)) THEN 0 ELSE AbsMinTransitionCost)

SuccessorsReached ==
    \A d \in Directions : \A entry \in closed[d], c \in Costs, t \in NotMutex[d] :
       /\ entry[2] \in NotMutex[d]
       /\ Leads(d, entry[2], c, t)
       => \/ entry[1] = frontier[d].g /\ entry[2] \in Unexpanded(frontier[d], c)
          \/ ReachedAt(d, t, entry[1] + c)

\* The states of a plan, counted from its last one in the direction of a search,
\* and what the search pays to get there.
IndexAt(d, p, n) == IF d = "fw" THEN p.len - n ELSE n
NodeAt(d, p, n)  == p.state[IndexAt(d, p, n)]
CostAt(d, p, n)  == CostFrom(d, p, IndexAt(d, p, n))

\* A verdict is given when the bounds have met.
VerdictWhenBoundsMeet ==
    /\ status \in {"SOLVED", "FAILED"} => lowerBound >= UpperBound
    /\ status = "FAILED" => ~ IsSolved(solution)

\* The inductive invariant of a search in one direction.
UnidirectionalInv ==
    /\ TypeOK
    /\ WithinMaxG
    /\ LayerOrder
    /\ Phases
    /\ SourceAndTarget
    /\ SuccessorsReached
    /\ VerdictWhenBoundsMeet
    /\ LowerBoundAdmissible

=============================================================================
