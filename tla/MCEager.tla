------------------------------- MODULE MCEager -------------------------------
(***************************************************************************)
(* A task for eager search: two ways to 5, which most plans pass, a        *)
(* 0-cost cycle, a dead end that one of the paths to it gives away, and    *)
(* heuristics of every kind.                                               *)
(***************************************************************************)
EXTENDS EagerCorrectness

MCStates == 0 .. 10
MCGoal == {6}
MCInfinity == 100

\* Nothing leads to 9.
MCSteps ==
    [op \in {"01", "02", "13", "17", "23", "25", "45", "47", "54", "58", "74", "85", "86", "96", "7a", "a8"} |->
       CASE op = "01" -> <<0, 0, 1>> [] op = "02" -> <<0, 1, 2>> [] op = "13" -> <<1, 1, 3>>
         [] op = "17" -> <<1, 1, 7>> [] op = "23" -> <<2, 1, 3>> [] op = "25" -> <<2, 1, 5>>
         [] op = "45" -> <<4, 1, 5>> [] op = "47" -> <<4, 0, 7>> [] op = "54" -> <<5, 1, 4>>
         [] op = "58" -> <<5, 0, 8>> [] op = "74" -> <<7, 2, 4>> [] op = "85" -> <<8, 0, 5>>
         [] op = "86" -> <<8, 5, 6>> [] op = "96" -> <<9, 3, 6>>
         [] op = "7a" -> <<7, 2, 10>> [] op = "a8" -> <<10, 0, 8>>]

MCOperators == DOMAIN MCSteps
MCCost == [op \in MCOperators |-> MCSteps[op][2]]
MCTransitions == [op \in MCOperators |-> {<<MCSteps[op][1], MCSteps[op][3]>>}]

\* 0: what the initial state has and no operator gives back; 1: true from 2, 4 or 7 on;
\* 2: being in 5, 8 or 10; 3: the goal.
MCNumLandmarks == 4
MCTrueIn == [l \in 0 .. 3 |-> CASE l = 0 -> {0, 1} [] l = 1 -> {2, 4, 5, 6, 7, 8, 9, 10} [] l = 2 -> {5, 8, 10} [] l = 3 -> {6}]
MCOrders == {<<0, 1>>, <<1, 2>>, <<2, 3>>}
MCGreedy == {<<0, 1>>}
MCGoalLandmarks == {1, 3}
MCAchievers == [l \in 0 .. 3 |-> CASE l = 0 -> {} [] l = 1 -> {"02", "17"} [] l = 2 -> {"25", "45", "7a"} [] l = 3 -> {"86", "96"}]
MCMinCost == [l \in 0 .. 3 |-> CASE l = 0 -> 0 [] l = 1 -> 1 [] l = 2 -> 1 [] l = 3 -> 3]

\* Admissible heuristics, many of them inconsistent, and one that is neither.
MCGuesses == [{1, 2, 5, 7} -> {0, 4}] \cup {[s \in {1, 2, 5, 7} |-> 9]}
MCTables ==
    [guess \in MCGuesses |->
        [s \in MCStates |-> CASE s \in DOMAIN guess -> guess[s] [] s = 3 -> MCInfinity [] OTHER -> 0]]

Config(openList, reopen, mpd, costType, heuristic, bound) ==
    [open |-> openList, reopen |-> reopen, mpd |-> mpd, costType |-> costType,
     heuristic |-> heuristic, bound |-> bound]

AllConfigurations ==
    {Config("astar", TRUE, mpd, "NORMAL", LmCount, bound) :
        mpd \in BOOLEAN, bound \in {7, 8, MCInfinity}}
    \cup {Config("astar", TRUE, FALSE, costType, guess, bound) :
             costType \in {"NORMAL", "PLUSONE"}, guess \in MCGuesses, bound \in {7, MCInfinity}}
    \cup {Config("single", reopen, FALSE, costType, h, bound) :
             reopen \in BOOLEAN, costType \in {"NORMAL", "ONE"},
             h \in MCGuesses \cup {LmCount}, bound \in {8, MCInfinity}}

\* TLC evaluates a definition without parameters once, but what a .cfg substitutes each time.
MCConfigurations == AllConfigurations

\* The landmarks of the task are what the proof of LandmarksAdmissible supposes.
ASSUME SoundAssumption == LandmarksSound

=============================================================================
