--------------------------- MODULE AnytimePlanner ---------------------------
(***************************************************************************)
(* What a user of sfw, sbw or sbd is promised: the bounds that             *)
(* SymController prints ("BOUND: lower < upper") close in on the cost of   *)
(* an optimal plan, and the search stops when they have met.               *)
(***************************************************************************)
EXTENDS Integers

CONSTANTS
    PlanCosts,  \* the costs of the plans of the task
    Infinity    \* the upper bound as long as no plan is known

VARIABLES lower, upper, status

bounds == <<lower, upper, status>>

Sound(l, u) ==
    /\ \A cost \in PlanCosts : l <= cost
    /\ u = Infinity \/ u \in PlanCosts

Init ==
    /\ Sound(lower, upper)
    /\ upper = Infinity
    /\ status = "IN_PROGRESS"

\* The bounds only ever tighten.
Tighten ==
    /\ lower' >= lower
    /\ upper' <= upper
    /\ Sound(lower', upper')

Search ==
    /\ status = "IN_PROGRESS"
    /\ Tighten
    /\ UNCHANGED status

Stop ==
    /\ status = "IN_PROGRESS"
    /\ Tighten
    /\ lower' >= upper'
    /\ status' = IF upper' = Infinity THEN "FAILED" ELSE "SOLVED"

\* The time limit is looked at after every step, the last one included.
TimeOut ==
    /\ status = "IN_PROGRESS"
    /\ Tighten
    /\ status' = "TIMEOUT"

Spec == Init /\ [][Search \/ Stop \/ TimeOut]_bounds

=============================================================================
