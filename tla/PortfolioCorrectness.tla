------------------------ MODULE PortfolioCorrectness ------------------------
(***************************************************************************)
(* What a portfolio promises.                                              *)
(***************************************************************************)
EXTENDS Portfolio

Stages == {"start", "call", "running", "read", "yield", "report"} \cup EndStages
PortfolioExitCodes == FailureCodes \cup {"none", "PLAN_FOUND", "UNSOLVED_INCOMPLETE", "SIGXCPU"}

TypeOK ==
    /\ command \in CommandLines
    /\ pc \in {"search", "return", "save", "write", "exit"}
    /\ phase \in Nat
    /\ bestBound \in Nat
    /\ lastFound \in BOOLEAN
    /\ found \in BOOLEAN
    /\ planCost \in Nat
    /\ numPlans \in Nat
    /\ files \in [DOMAIN files -> Nat \cup {Incomplete}]
    /\ DOMAIN files \subseteq Nat
    /\ portfolio \in Portfolios
    /\ stage \in Stages
    /\ mode \in {"config", "rerun", "final"}
    /\ pos \in 1 .. Len(portfolio.configs) + 1
    /\ mode = "rerun" => pos <= Len(portfolio.configs)
    /\ succeeded \in BOOLEAN
    /\ realCosts \in BOOLEAN
    /\ planCosts \in Seq(Nat)
    /\ counter \in Nat \ {0}
    /\ code \in PortfolioExitCodes
    /\ exitCodes \subseteq PortfolioExitCodes
    /\ elapsed \in Nat
    /\ used \in Nat
    /\ limit \in Nat \cup {Unlimited}

-----------------------------------------------------------------------------

\* The plans that the plan manager knows are those on disk, each cheaper than the one
\* before; and when no component runs there are no others, and none is incomplete.  So the
\* next component gets the right bound and an unused number.
PlansKnown ==
    ~ portfolio.optimal /\ stage # "start" =>
       /\ 1 .. Len(planCosts) \subseteq DOMAIN files
       /\ \A i \in 1 .. Len(planCosts) : files[i] = planCosts[i]
       /\ \A i, j \in 1 .. Len(planCosts) : i < j => planCosts[j] < planCosts[i]
       /\ stage \in {"call", "yield", "report", "done", "type error"} =>
             DOMAIN files = 1 .. Len(planCosts)

\* The command lines that the portfolio may start.
PortfolioArgs(p) == {p.configs[i].args : i \in 1 .. Len(p.configs)} \cup {p.finalArgs}

\* "plan quality has not improved" is raised only when a portfolio has gone on with unit
\* costs although it knows a plan, whatever the components do and wherever they are killed;
\* given engines that heed their bound, and an initial state that is no goal.
BogusOnlyWithUnitCosts ==
    /\ stage = "bogus plan"
    /\ ~ GoalAtStart
    /\ \A args \in PortfolioArgs(portfolio) : args.heedsBound
    => portfolio.generalCost /\ ~ realCosts

\* The driver's exit code for success: there is a plan, and it has all of its lines.
SuccessIsTrue ==
    exitCode = "PLAN_FOUND" =>
       IF portfolio.optimal
       THEN \E n \in DOMAIN files : files[n] # Incomplete
       ELSE planCosts # << >>

\* A satisficing portfolio overruns its time by less than the second that limits are
\* rounded up to, however many components it runs.
WithinTime == ~ portfolio.optimal => elapsed < TimeLimit + TicksPerSecond

\* No component, and not the driver, destroys a plan that an earlier component has completed.
PlansKept ==
    [][ ~ portfolio.optimal /\ stage # "start" =>
           \A n \in DOMAIN files : files[n] # Incomplete =>
              n \in DOMAIN files' /\ files'[n] = files[n] ]_vars

\* A satisficing portfolio comes to an end, even if its components would run forever.
PortfolioEnds == ~ portfolio.optimal => <>(stage \in EndStages)

=============================================================================
