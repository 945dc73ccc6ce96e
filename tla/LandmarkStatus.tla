--------------------------- MODULE LandmarkStatus ---------------------------
(***************************************************************************)
(* Which landmarks every path to a state has reached, and what the others  *)
(* cost: search/landmarks/landmark_status_manager.cc and the value of      *)
(* landmark_count_heuristic.cc.  A landmark is its number (get_id), and it *)
(* is true in the states of TrueIn.  The cost of a landmark is min_cost:   *)
(* what count_costs adds up, and what uniform cost sharing assigns to a    *)
(* landmark when no operator achieves two of them.                         *)
(***************************************************************************)
EXTENDS Integers, FiniteSets, FiniteSetsExt

CONSTANTS
    NumLandmarks,        \* LandmarkGraph::number_of_landmarks
    TrueIn,              \* landmark -> states that satisfy it
    Orders,              \* pairs <<parent, child>> of the landmark graph
    GreedyNecessary,     \* the orders whose type is at least greedy_necessary
    GoalLandmarks,       \* the landmarks that are goals
    FirstAchievers,      \* landmark -> operators that may reach it for the first time
    PossibleAchievers,   \* landmark -> operators that have it as an effect
    MinCost              \* landmark -> least cost of an achiever

Landmarks == 0 .. NumLandmarks - 1

ASSUME LandmarkAssumption ==
    /\ NumLandmarks \in Nat
    /\ Orders \subseteq Landmarks \X Landmarks
    /\ GreedyNecessary \subseteq Orders
    /\ GoalLandmarks \subseteq Landmarks
    /\ MinCost \in [Landmarks -> Nat]
    \* calc_achievers: the first achievers are possible ones.
    /\ \A l \in Landmarks : PossibleAchievers[l] = {} => FirstAchievers[l] = {}

Parents(l) == {p \in Landmarks : <<p, l>> \in Orders}

\* set_landmarks_for_initial_state: the landmarks without parents that are true.
InitiallyReached(s) == {l \in Landmarks : Parents(l) = {} /\ s \in TrueIn[l]}

\* update_reached_lms: one pass over the landmarks by number, in which a landmark is
\* reached once its parents are, and is dropped when another path has not reached it.
UpdateReached(ofParent, isNew, old, s) ==
    LET reached[n \in 0 .. NumLandmarks] ==
            IF n = 0 THEN ofParent
            ELSE LET l == n - 1
                     r == reached[n - 1]
                 IN  IF ~ isNew /\ l \notin old THEN r \ {l}
                     ELSE IF s \in TrueIn[l] /\ Parents(l) \subseteq r THEN r \cup {l} ELSE r
    IN  reached[NumLandmarks]

\* Mutant: whatever is false again has to be reached again.
EveryLostLandmark(reached, s) == {l \in reached : s \notin TrueIn[l]}

\* A reached landmark that is false again although the goal, or a landmark that needs it
\* right before, is still to come: check_lost_landmark_children_needed_again.
NeededAgain(reached, s) ==
    {l \in reached : /\ s \notin TrueIn[l]
                     /\ \/ l \in GoalLandmarks
                        \/ \E c \in Landmarks \ reached : <<l, c>> \in GreedyNecessary}

\* update_lm_status returns that a landmark can no longer be achieved.
LandmarkDeadEnd(reached, s) ==
    \/ \E l \in Landmarks \ reached : FirstAchievers[l] = {}
    \/ \E l \in NeededAgain(reached, s) : PossibleAchievers[l] = {}

LandmarkCost(reached, s) ==
    MapThenSumSet(LAMBDA l : MinCost[l], (Landmarks \ reached) \cup NeededAgain(reached, s))

=============================================================================
