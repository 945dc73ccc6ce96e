------------------------------ MODULE MCSearch ------------------------------
(***************************************************************************)
(* Planning tasks for TLC and all their plans of at most MaxPlanLength     *)
(* transitions.                                                            *)
(***************************************************************************)
EXTENDS UnidirectionalInvariant

MaxPlanLength == 6

TaskStates == 0 .. 6
MCInit == 0
MCGoal == {5}
NoMutex == [d \in {"fw", "bw"} |-> TaskStates]

\* Costs 1 and 2: two ways to the goal, a detour with a cycle, a dead end.
PositiveTRs ==
    [c \in {1, 2} |-> IF c = 1 THEN {{<<0, 1>>, <<1, 2>>, <<2, 1>>}, {<<2, 3>>, <<1, 5>>, <<4, 5>>}}
                               ELSE {{<<0, 4>>, <<3, 5>>, <<0, 6>>}}]

\* Three costs that are no multiples of the least.
UnevenTRs ==
    [c \in {3, 4, 5} |-> IF c = 3 THEN {{<<0, 1>>, <<0, 2>>, <<1, 3>>, <<3, 5>>}}
                         ELSE IF c = 4 THEN {{<<4, 5>>}} ELSE {{<<2, 5>>}}]

\* No plan: the goal is reached from 4 only, and both searches have a cycle.
UnsolvableTRs ==
    [c \in {1, 2} |-> IF c = 1 THEN {{<<0, 1>>, <<1, 2>>, <<2, 0>>}, {<<3, 5>>, <<4, 3>>}}
                               ELSE {{<<0, 2>>, <<2, 1>>}, {<<5, 4>>, <<4, 5>>}}]

\* A goal that the initial state satisfies.
GoalAtStart == {0, 5}

\* The states 6 and 7 violate a mutex and lead to the goal.  0-cost cycles, a dear plan
\* that is found first, and a cheapest one that starts with a 0-cost transition.
SpuriousStates == 0 .. 7
SpuriousZeroTRs ==
    [c \in {0, 1, 3} |-> IF c = 0 THEN {{<<0, 1>>, <<1, 4>>, <<4, 1>>, <<6, 4>>}, {<<3, 2>>, <<7, 2>>}}
                         ELSE IF c = 1 THEN {{<<6, 5>>, <<1, 2>>},
                                             {<<2, 5>>, <<7, 3>>, <<2, 0>>, <<6, 7>>}}
                         ELSE {{<<0, 3>>, <<0, 5>>}}]
SpuriousNotMutex == [d \in {"fw", "bw"} |-> 0 .. 5]

Extend(p, c, t) ==
    [len |-> p.len + 1,
     state |-> [i \in 0 .. p.len + 1 |-> IF i <= p.len THEN p.state[i] ELSE t],
     g |-> [i \in 0 .. p.len + 1 |-> IF i <= p.len THEN p.g[i] ELSE p.g[p.len] + c]]

AllPlans ==
    LET Paths[n \in 0 .. MaxPlanLength] ==
            IF n = 0 THEN {[len |-> 0, state |-> [i \in {0} |-> InitState], g |-> [i \in {0} |-> 0]]}
            ELSE {Extend(x[1], x[2], x[3]) :
                     x \in {y \in Paths[n - 1] \X Costs \X States :
                               Transition(y[1].state[n - 1], y[2], y[3])}}
    IN  {p \in UNION {Paths[n] : n \in 0 .. MaxPlanLength} : p.state[p.len] \in Goal}

\* TLC evaluates a definition without parameters once, but what a .cfg substitutes each time.
MCPlans == AllPlans

=============================================================================
