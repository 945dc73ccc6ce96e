------------------------------ MODULE Portfolio ------------------------------
(***************************************************************************)
(* A portfolio of the driver: portfolio_runner.py with plan_manager.py,    *)
(* returncodes.py, and the time limits of limits.py and call.py.           *)
(*                                                                         *)
(* The driver runs search components one after the other.  It learns of    *)
(* them by their exit codes and their plan files, and a component may end  *)
(* or be killed at any moment: before, while and after it writes a plan.   *)
(* Time is the CPU time of the driver and its children, in ticks; only     *)
(* that of the running component counts.  No limits are imposed on the     *)
(* driver from outside.                                                    *)
(***************************************************************************)
EXTENDS SearchProcess, Sequences, FiniteSetsExt

CONSTANTS
    Portfolios,      \* what the portfolio files and the tasks may be
    LeftOver,        \* plan files that earlier runs may have left
    TimeLimit,       \* the argument time of run, in ticks
    TicksPerSecond,
    FailureCodes,    \* exit codes of components that fail, by themselves or from a lack of memory
    MaxElapsed       \* bound on the clock of components without a time limit

\* CONFIGS: each with its relative time and its command line, in which unitCosts stands for
\* S_COST_TYPE; and whether it has H_COST_TYPE, which leaves the costs of plans alone.
Configs == [time : Nat \ {0}, args : CommandLines, heuristicCosts : BOOLEAN]

\* OPTIMAL; CONFIGS; FINAL_CONFIG or FINAL_CONFIG_BUILDER; and whether the task has
\* costs other than 1.
PortfolioFiles ==
    [optimal : BOOLEAN, configs : Seq(Configs),
     final : {"none", "given", "built"}, finalArgs : CommandLines, generalCost : BOOLEAN]

\* remaining_relative_time.
RestOfTimes(p, i) == MapThenSumSet(LAMBDA j : p.configs[j].time, i .. Len(p.configs))

ASSUME PortfolioAssumption ==
    /\ Portfolios \subseteq PortfolioFiles
    /\ TimeLimit \in Nat
    /\ TicksPerSecond \in Nat \ {0}
    /\ FailureCodes \subseteq STRING \ {"PLAN_FOUND"}
    /\ MaxElapsed \in Nat
    /\ \A left \in LeftOver :
          /\ left \in [DOMAIN left -> Nat \cup {Incomplete}]
          /\ \A n \in DOMAIN left : n \in Nat /\ 1 .. n \subseteq DOMAIN left

\* A sum of positive numbers is not less than any of them.
ASSUME TimesAssumption ==
    \A p \in Portfolios : \A i \in 1 .. Len(p.configs) :
       RestOfTimes(p, i) \in Nat /\ p.configs[i].time <= RestOfTimes(p, i)

VARIABLES
    portfolio,
    stage,       \* what the driver does
    mode,        \* for which of the calls of run_sat_config
    pos,
    succeeded,   \* whether configs_next_round has an element
    realCosts,   \* changed_cost_types; search_cost_type is "normal" from then on
    planCosts,   \* PlanManager::_plan_costs
    counter,     \* of the loop of process_new_plans
    code,        \* the exit code of the last component
    exitCodes,
    elapsed,     \* get_elapsed_time, since run was called
    used,        \* the CPU time of the running component
    limit,       \* its soft limit
    exitCode     \* the exit code of the driver

clock == <<elapsed, used, limit>>
control == <<portfolio, stage, mode, pos, succeeded, realCosts, code, exitCodes, exitCode>>
manager == <<planCosts, counter>>
vars == <<processVars, clock, control, manager>>

-----------------------------------------------------------------------------

Unlimited == -1     \* resource.RLIM_INFINITY

CeilDiv(a, b) == -((-a) \div b)

RemainingTime == TimeLimit - elapsed

\* The final config is called as the only one of a list.
Args == IF mode = "final" THEN portfolio.finalArgs ELSE portfolio.configs[pos].args
RelativeTime == IF mode = "final" THEN 1 ELSE portfolio.configs[pos].time
RemainingRelativeTime == IF mode = "final" THEN 1 ELSE RestOfTimes(portfolio, pos)

\* compute_run_time, and the soft limit in seconds that it is rounded to.
SoftLimit == CeilDiv(RemainingTime * RelativeTime, RemainingRelativeTime * TicksPerSecond)

\* Mutant: setrlimit refuses every limit, and the driver goes on.
LimitRefused == Unlimited

\* setrlimit takes -1 for no limit, or refuses it because 0 is the hard limit; and other
\* negative numbers for huge ones.
LimitTicks == IF SoftLimit < 0 THEN Unlimited ELSE SoftLimit * TicksPerSecond

\* Mutant: the bound is the cost of the first plan.
FirstPlanCost == IF planCosts = << >> THEN Infinity ELSE planCosts[1]

\* get_best_plan_cost.
BestPlanCost == IF planCosts = << >> THEN Infinity ELSE planCosts[Len(planCosts)]

\* adapt_args, and the number of plans that run_sat_config adds.
AdaptedArgs ==
    IF portfolio.optimal THEN [Args EXCEPT !.unitCosts = FALSE]
    ELSE [Args EXCEPT
             !.unitCosts     = @ /\ portfolio.generalCost /\ ~ realCosts,
             !.bound         = BestPlanCost,
             !.anytime       = TRUE,
             !.previousPlans = Len(planCosts)]

Init ==
    /\ portfolio \in Portfolios
    /\ files \in LeftOver
    /\ command = portfolio.finalArgs     \* no component has run yet
    /\ pc = "exit"
    /\ phase = 0
    /\ bestBound = Infinity
    /\ lastFound = FALSE
    /\ found = FALSE
    /\ planCost = 0
    /\ numPlans = 0
    /\ stage = "start"
    /\ mode = "config"
    /\ pos = 1
    /\ succeeded = FALSE
    /\ realCosts = FALSE
    /\ planCosts = << >>
    /\ counter = 1
    /\ code = "none"
    /\ exitCodes = {}
    /\ elapsed = 0
    /\ used = 0
    /\ limit = 0
    /\ exitCode = "none"

\* get_existing_plans: without a number, and with numbers from 1 on.
ExistingPlans == {n \in DOMAIN files : n = 0 \/ 1 .. n \subseteq DOMAIN files}

DeleteExistingPlans ==
    /\ stage = "start"
    /\ files' = [n \in DOMAIN files \ ExistingPlans |-> files[n]]
    /\ stage' = "call"
    /\ UNCHANGED <<process, clock, manager, portfolio, mode, pos, succeeded, realCosts, code,
                   exitCodes, exitCode>>

-----------------------------------------------------------------------------
(* run_sat_config, and the loop of run_opt, to the start of the component. *)

ConfigLeft == mode # "config" \/ pos <= Len(portfolio.configs)

\* Mutant: the run time is not looked at.
TimeLeftAlways == TRUE

TimeLeft == portfolio.optimal \/ RemainingTime > 0

NoTimeLeft ==
    /\ stage = "call"
    /\ ConfigLeft
    /\ ~ TimeLeft
    /\ stage' = "report"
    /\ UNCHANGED <<processVars, clock, manager, portfolio, mode, pos, succeeded, realCosts, code,
                   exitCodes, exitCode>>

Start ==
    /\ stage = "call"
    /\ ConfigLeft
    /\ TimeLeft
    /\ stage' = "running"
    /\ Starts(AdaptedArgs)
    /\ used' = 0
    /\ limit' = LimitTicks
    /\ UNCHANGED <<files, elapsed, manager, portfolio, mode, pos, succeeded, realCosts, code,
                   exitCodes, exitCode>>

-----------------------------------------------------------------------------
(* The component runs.                                                     *)

Component ==
    /\ stage = "running"
    /\ Work
    /\ UNCHANGED <<clock, control, manager>>

\* It uses its time.  The kernel takes a limit of 0 for one second, or at once.
Tick ==
    /\ stage = "running"
    /\ IF limit = Unlimited THEN elapsed < MaxElapsed ELSE used < Max({limit, TicksPerSecond})
    /\ elapsed' = elapsed + 1
    /\ used' = used + 1
    /\ UNCHANGED <<processVars, limit, control, manager>>

\* The component ends, and process_new_plans begins.
Ends(c) ==
    /\ stage' = IF portfolio.optimal THEN "yield" ELSE "read"
    /\ code' = c
    /\ counter' = Len(planCosts) + 1
    /\ UNCHANGED <<processVars, clock, planCosts, portfolio, mode, pos, succeeded, realCosts,
                   exitCodes, exitCode>>

Exits == stage = "running" /\ pc = "exit" /\ Ends(ExitCode)

Fails == stage = "running" /\ \E c \in FailureCodes : Ends(c)

\* The soft limit is reached.
Killed == stage = "running" /\ limit # Unlimited /\ used >= limit /\ Ends("SIGXCPU")

-----------------------------------------------------------------------------
(* The loop of process_new_plans, one plan file per turn.                  *)

PlanFileExists == stage = "read" /\ counter \in DOMAIN files

HadIncompletePlan == counter > Len(planCosts) + 1

\* Mutant: an incomplete plan is not deleted.
FilesWithIncomplete == files

FilesWithoutIncomplete == [n \in DOMAIN files \ {counter} |-> files[n]]

DeleteIncomplete ==
    /\ PlanFileExists
    /\ ~ HadIncompletePlan
    /\ files[counter] = Incomplete
    /\ files' = FilesWithoutIncomplete
    /\ counter' = counter + 1
    /\ UNCHANGED <<process, clock, control, planCosts>>

PlanImproves == planCosts # << >> => files[counter] < planCosts[Len(planCosts)]

AcceptPlan ==
    /\ PlanFileExists
    /\ ~ HadIncompletePlan
    /\ files[counter] # Incomplete
    /\ PlanImproves
    /\ planCosts' = Append(planCosts, files[counter])
    /\ counter' = counter + 1
    /\ UNCHANGED <<processVars, clock, control>>

\* bogus_plan raises an error that nothing catches.
RejectPlan ==
    /\ PlanFileExists
    /\ HadIncompletePlan \/ (files[counter] # Incomplete /\ ~ PlanImproves)
    /\ stage' = "bogus plan"
    /\ exitCode' = "CRITICAL_ERROR"
    /\ UNCHANGED <<processVars, clock, manager, portfolio, mode, pos, succeeded, realCosts, code,
                   exitCodes>>

AllPlansRead ==
    /\ stage = "read"
    /\ counter \notin DOMAIN files
    /\ stage' = "yield"
    /\ UNCHANGED <<processVars, clock, manager, portfolio, mode, pos, succeeded, realCosts, code,
                   exitCodes, exitCode>>

-----------------------------------------------------------------------------
(* run_sat and run_opt after a component has ended.                        *)

Successful == code = "PLAN_FOUND"

\* The portfolio is over.
Last == code = "UNSOLVABLE" \/ mode = "final" \/ (portfolio.optimal /\ Successful)

\* can_change_cost_type, by one of its two placeholders, and get_problem_type.
SwitchCosts ==
    /\ ~ portfolio.optimal
    /\ mode = "config"
    /\ Successful
    /\ ~ realCosts
    /\ Args.unitCosts \/ portfolio.configs[pos].heuristicCosts
    /\ portfolio.generalCost

\* The final config is built from a successful one, after its run with real costs, if any.
BuildFinal ==
    /\ ~ portfolio.optimal
    /\ portfolio.final = "built"
    /\ mode = "rerun" \/ Successful
    /\ ~ SwitchCosts

Yields ==
    /\ stage = "yield"
    /\ exitCodes' = exitCodes \cup {code}
    /\ succeeded' = (succeeded \/ (mode = "config" /\ Successful))
    /\ UNCHANGED <<processVars, clock, manager, portfolio, code, exitCode>>

PortfolioOver ==
    /\ Yields
    /\ Last
    /\ stage' = "report"
    /\ UNCHANGED <<mode, pos, realCosts>>

\* "Switch to real costs and repeat last run."
Rerun ==
    /\ Yields
    /\ ~ Last
    /\ SwitchCosts
    /\ stage' = "call"
    /\ mode' = "rerun"
    /\ realCosts' = TRUE
    /\ UNCHANGED pos

RunFinalConfig ==
    /\ Yields
    /\ ~ Last
    /\ BuildFinal
    /\ stage' = "call"
    /\ mode' = "final"
    /\ UNCHANGED <<pos, realCosts>>

NextConfig ==
    /\ Yields
    /\ ~ Last
    /\ ~ SwitchCosts
    /\ ~ BuildFinal
    /\ stage' = "call"
    /\ mode' = "config"
    /\ pos' = pos + 1
    /\ UNCHANGED realCosts

\* The loops over the configs end: with FINAL_CONFIG, or without a successful config.
RoundOver ==
    /\ stage = "call"
    /\ ~ ConfigLeft
    /\ IF ~ portfolio.optimal /\ portfolio.final = "given"
       THEN stage' = "call" /\ mode' = "final"
       ELSE (portfolio.optimal \/ ~ succeeded) /\ stage' = "report" /\ UNCHANGED mode
    /\ UNCHANGED <<processVars, clock, manager, portfolio, pos, succeeded, realCosts, code,
                   exitCodes, exitCode>>

\* The next round takes the arguments of the successful configs for pairs of a relative
\* time and arguments, which raises an error that nothing catches.
NextRound ==
    /\ stage = "call"
    /\ ~ ConfigLeft
    /\ ~ portfolio.optimal
    /\ portfolio.final # "given"
    /\ succeeded
    /\ stage' = "type error"
    /\ exitCode' = "CRITICAL_ERROR"
    /\ UNCHANGED <<processVars, clock, manager, portfolio, mode, pos, succeeded, realCosts, code,
                   exitCodes>>

-----------------------------------------------------------------------------

Expected ==
    {"PLAN_FOUND", "UNSOLVABLE", "UNSOLVED_INCOMPLETE", "OUT_OF_MEMORY", "TIMEOUT"}

\* generate_portfolio_exitcode.
PortfolioExitCode ==
    LET codes      == {IF c = "SIGXCPU" THEN "TIMEOUT" ELSE c : c \in exitCodes}
        unexpected == codes \ Expected
    IN  IF unexpected # {}
        THEN IF \E c \in unexpected : unexpected = {c}
             THEN CHOOSE c \in unexpected : TRUE
             ELSE "CRITICAL_ERROR"
        ELSE IF "PLAN_FOUND" \in codes THEN "PLAN_FOUND"
        ELSE IF "UNSOLVABLE" \in codes THEN "UNSOLVABLE"
        ELSE IF "UNSOLVED_INCOMPLETE" \in codes THEN "UNSOLVED_INCOMPLETE"
        ELSE IF codes = {"OUT_OF_MEMORY", "TIMEOUT"} THEN "TIMEOUT_AND_MEMORY"
        ELSE IF codes = {} THEN "CRITICAL_ERROR"
        ELSE CHOOSE c \in codes : TRUE

\* The exit code of run, and of main.
Report ==
    /\ stage = "report"
    /\ stage' = "done"
    /\ exitCode' = PortfolioExitCode
    /\ UNCHANGED <<processVars, clock, manager, portfolio, mode, pos, succeeded, realCosts, code,
                   exitCodes>>

EndStages == {"done", "bogus plan", "type error"}

Ended == stage \in EndStages /\ UNCHANGED vars

-----------------------------------------------------------------------------

ReadPlans == DeleteIncomplete \/ AcceptPlan \/ RejectPlan \/ AllPlansRead

Driver ==
    \/ DeleteExistingPlans
    \/ NoTimeLeft
    \/ Start
    \/ ReadPlans
    \/ PortfolioOver
    \/ Rerun
    \/ RunFinalConfig
    \/ NextConfig
    \/ RoundOver
    \/ NextRound
    \/ Report

Next == Component \/ Tick \/ Exits \/ Fails \/ Killed \/ Driver \/ Ended

Spec == Init /\ [][Next]_vars

\* The driver is one thread, a running component uses time, and the kernel enforces its
\* limit.  That a component does something useful, or ends by itself, is not assumed.
FairSpec == Spec /\ WF_vars(Driver) /\ WF_vars(Tick) /\ WF_vars(Killed)

=============================================================================
