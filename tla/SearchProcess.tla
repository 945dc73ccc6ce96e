---------------------------- MODULE SearchProcess ----------------------------
(***************************************************************************)
(* A run of the search component: search/planner.cc with a single engine   *)
(* or with the iterated search of search_engines/iterated_search.cc, and   *)
(* the plan files that save_plan of globals.cc writes.                     *)
(*                                                                         *)
(* What an engine returns is left open, up to the bound on the real cost   *)
(* of plans.  A plan file exists from the moment it is opened and is       *)
(* incomplete until its last line is written, so that a process that is    *)
(* killed may leave it so.                                                 *)
(***************************************************************************)
EXTENDS Integers

CONSTANTS
    PlanCosts,    \* the real costs of the plans an engine may find
    GoalAtStart,  \* whether the initial state is a goal state
    Commands,     \* the command lines
    Infinity,     \* the default of the option bound
    Incomplete    \* the content of a plan file without its last line

\* A command line: whether the engine is iterated, its number of phases and options; whether
\* the engines heed the option bound; whether they treat the costs of a task with other
\* costs than 1 as 1 (cost_type); the bound; and --internal-previous-portfolio-plans.
CommandLines ==
    [iterated : BOOLEAN, phases : Nat \ {0}, passBound : BOOLEAN, repeatLast : BOOLEAN,
     continueOnFail : BOOLEAN, continueOnSolve : BOOLEAN, maxTime : BOOLEAN,
     heedsBound : BOOLEAN, unitCosts : BOOLEAN, bound : Nat,
     anytime : BOOLEAN, previousPlans : Nat]

ASSUME ProcessAssumption ==
    /\ Infinity \in Nat
    /\ PlanCosts \subseteq {c \in Nat : c < Infinity}
    /\ 0 < Infinity
    /\ GoalAtStart \in BOOLEAN
    /\ Incomplete \notin Nat
    /\ Commands \subseteq CommandLines

VARIABLES
    command,   \* the command line of the process
    pc,        \* where it is
    phase,     \* IteratedSearch::phase
    bestBound, \* IteratedSearch::best_bound
    lastFound, \* IteratedSearch::last_phase_found_solution
    found,     \* SearchEngine::solution_found, of the outermost engine
    planCost,  \* the cost of the plan that is being saved
    numPlans,  \* g_num_previously_generated_plans
    files      \* number of a plan file -> its cost or Incomplete; the file without a number is 0

process == <<command, pc, phase, bestBound, lastFound, found, planCost, numPlans>>
processVars == <<process, files>>

-----------------------------------------------------------------------------

\* The costs of the plans an engine may find under the bound b.  In a goal state the first
\* expansion ends the search, whatever the bound is.  With another cost type the real cost
\* of a node may be out of date (EagerCorrectness!PlanWithinBound).
Results(b) ==
    IF GoalAtStart THEN {0}
    ELSE {c \in PlanCosts : c < b \/ ~ command.heedsBound \/ command.unitCosts}

\* The process has parsed its command line.
Starts(c) ==
    /\ command' = c
    /\ pc' = "search"
    /\ phase' = 0
    /\ bestBound' = c.bound
    /\ lastFound' = FALSE
    /\ found' = FALSE
    /\ planCost' = 0
    /\ numPlans' = c.previousPlans

-----------------------------------------------------------------------------
(* A single engine: search, and save_plan_if_necessary.                    *)

Search ==
    /\ pc = "search"
    /\ ~ command.iterated
    /\ \/ \E c \in Results(command.bound) :
             planCost' = c /\ found' = TRUE /\ pc' = "save"
       \/ pc' = "exit" /\ UNCHANGED <<planCost, found>>
    /\ UNCHANGED <<command, phase, bestBound, lastFound, numPlans, files>>

-----------------------------------------------------------------------------
(* IteratedSearch::step.                                                   *)

\* Mutant: the last phase is repeated although it has failed.
MorePhasesAlways == phase < command.phases \/ command.repeatLast

MorePhases == phase < command.phases \/ (command.repeatLast /\ lastFound)

\* The phases are counted up to their number: beyond it, nothing tells them apart.
NextPhase == IF phase < command.phases THEN phase + 1 ELSE phase

\* create_phase returns no engine.
NoMorePhases ==
    /\ pc = "search"
    /\ command.iterated
    /\ ~ MorePhases
    /\ pc' = "exit"
    /\ UNCHANGED <<command, phase, bestBound, lastFound, found, planCost, numPlans, files>>

PhaseBound == IF command.passBound THEN bestBound ELSE Infinity

\* Mutant: a plan as good as the last one is saved, too.
ImprovesOrEquals(c) == c <= bestBound

\* Only a plan better than those before is saved.
Improves(c) == c < bestBound

PhaseFinds ==
    /\ pc = "search"
    /\ command.iterated
    /\ MorePhases
    /\ phase' = NextPhase
    /\ lastFound' = TRUE
    /\ \E c \in Results(PhaseBound) :
          IF Improves(c)
          THEN /\ planCost' = c
               /\ pc' = "save"
          ELSE pc' = "return" /\ UNCHANGED planCost
    /\ UNCHANGED <<command, bestBound, found, numPlans, files>>

PhaseFails ==
    /\ pc = "search"
    /\ command.iterated
    /\ MorePhases
    /\ phase' = NextPhase
    /\ lastFound' = FALSE
    /\ pc' = "return"
    /\ UNCHANGED <<command, bestBound, found, planCost, numPlans, files>>

GoesOn == IF lastFound THEN command.continueOnSolve ELSE command.continueOnFail

\* step_return_value, and the timer of SearchEngine::search.
StepReturns ==
    /\ pc = "return"
    /\ \/ GoesOn /\ pc' = "search"
       \/ (~ GoesOn \/ command.maxTime) /\ pc' = "exit"
    /\ UNCHANGED <<command, phase, bestBound, lastFound, found, planCost, numPlans, files>>

-----------------------------------------------------------------------------
(* save_plan.                                                              *)

\* Mutant: plans of a portfolio are numbered from 1 by every process.
PlanFileFromOne ==
    IF command.iterated \/ command.anytime THEN numPlans - command.previousPlans + 1 ELSE 0

\* Mutant: the first plan of a portfolio gets the number 0.
PlanFileFromZero == IF command.iterated \/ command.anytime THEN numPlans ELSE 0

PlanFile == IF command.iterated \/ command.anytime THEN numPlans + 1 ELSE 0

OpenPlan ==
    /\ pc = "save"
    /\ files' = [n \in DOMAIN files \cup {PlanFile} |->
                    IF n = PlanFile THEN Incomplete ELSE files[n]]
    /\ pc' = "write"
    /\ UNCHANGED <<command, phase, bestBound, lastFound, found, planCost, numPlans>>

\* Mutant: the bound of an iterated search stays what it was.
BoundKept == bestBound

\* The cost of the plan saved last, once an iterated search has saved one.
BoundAfter == IF command.iterated THEN planCost ELSE bestBound

WritePlan ==
    /\ pc = "write"
    /\ files' = [files EXCEPT ![PlanFile] = planCost]
    /\ numPlans' = numPlans + 1
    /\ bestBound' = BoundAfter
    /\ found' = TRUE
    /\ pc' = IF command.iterated THEN "return" ELSE "exit"
    /\ UNCHANGED <<command, phase, lastFound, planCost>>

\* The exit code of main.
ExitCode == IF found THEN "PLAN_FOUND" ELSE "UNSOLVED_INCOMPLETE"

Iterate == NoMorePhases \/ PhaseFinds \/ PhaseFails \/ StepReturns
Work == Search \/ Iterate \/ OpenPlan \/ WritePlan

-----------------------------------------------------------------------------
(* A process on its own, without a limit.                                  *)

ProcessInit ==
    /\ command \in Commands
    /\ pc = "search"
    /\ phase = 0
    /\ bestBound = command.bound
    /\ lastFound = FALSE
    /\ found = FALSE
    /\ planCost = 0
    /\ numPlans = command.previousPlans
    /\ files = [n \in {} |-> Incomplete]

Exited == pc = "exit" /\ UNCHANGED processVars

ProcessSpec == ProcessInit /\ [][Work \/ Exited]_processVars

\* The search component is one thread that waits for nothing, and its engines end.
FairProcessSpec == ProcessSpec /\ WF_processVars(Work)

=============================================================================
