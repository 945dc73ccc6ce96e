--------------------------- MODULE PortfolioProofs ---------------------------
(***************************************************************************)
(* Proofs about portfolios, for all of them, all components and all        *)
(* moments at which a component may be killed: the plan manager knows the  *)
(* plans on disk, no plan is lost, a component whose engines heed their    *)
(* bound never makes the driver fail, the exit code for success is true,   *)
(* and the time is overrun by less than a second.                          *)
(***************************************************************************)
EXTENDS PortfolioCorrectness, ProcessCorrectness, TLAPS

-----------------------------------------------------------------------------
(* The inductive invariant of the plan files of a satisficing portfolio.   *)

Satisficing == ~ portfolio.optimal

\* The files are numbered up to m, and only the last of them may be incomplete.
PlanFiles(m) ==
    /\ m \in Nat
    /\ Len(planCosts) <= m
    /\ DOMAIN files = 1 .. m
    /\ \A n \in 1 .. m : n < m => files[n] \in Nat

\* The plans that the plan manager knows.
PlansAgree ==
    /\ \A i \in 1 .. Len(planCosts) : files[i] = planCosts[i]
    /\ \A i, j \in 1 .. Len(planCosts) : i < j => planCosts[j] < planCosts[i]

\* Every plan is cheaper than those before.
Decreasing ==
    \A i, j \in DOMAIN files :
       i < j /\ files[i] \in Nat /\ files[j] \in Nat => files[j] < files[i]

\* When components have to find cheaper plans.
BoundHeeded ==
    /\ ~ GoalAtStart
    /\ \A args \in PortfolioArgs(portfolio) : args.heedsBound
    /\ portfolio.generalCost => realCosts

\* The files of a component: those of the portfolio, its own, and one that it writes.
FilesOfComponent ==
    /\ command.anytime
    /\ Len(planCosts) <= numPlans
    /\ PlanFiles(IF pc = "write" THEN numPlans + 1 ELSE numPlans)
    /\ \A n \in 1 .. numPlans : files[n] \in Nat
    /\ pc = "write" => files[numPlans + 1] = Incomplete
    /\ found /\ pc \notin {"save", "write"} => 1 <= numPlans

\* Its bound is the cost of the best plan, and it saves no plan that is not below.
BoundOfComponent ==
    /\ command.heedsBound
    /\ ~ command.unitCosts
    /\ Decreasing
    /\ pc # "exit" /\ 1 <= numPlans => bestBound = files[numPlans]
    /\ pc \in {"save", "write"} => planCost < bestBound
    /\ ~ command.iterated => command.bound = bestBound

Running ==
    stage = "running" => FilesOfComponent /\ (BoundHeeded => BoundOfComponent)

\* The loop of process_new_plans is at the first file that is not known, or behind an
\* incomplete one, which was the last.
Reading ==
    stage = "read" =>
       /\ \E m \in Nat :
             /\ PlanFiles(m)
             /\ counter = Len(planCosts) + 1 \/ (counter = Len(planCosts) + 2 /\ m = Len(planCosts))
       /\ BoundHeeded => Decreasing
       /\ code = "PLAN_FOUND" => 1 \in DOMAIN files /\ files[1] \in Nat

Between ==
    stage \in {"call", "yield", "report", "done", "type error"} =>
       /\ DOMAIN files = 1 .. Len(planCosts)
       /\ stage = "yield" /\ code = "PLAN_FOUND" => planCosts # << >>

Bogus == stage = "bogus plan" => 1 .. Len(planCosts) \subseteq DOMAIN files /\ ~ BoundHeeded

Started ==
    IF stage = "start"
    THEN planCosts = << >> /\ files \in LeftOver /\ exitCodes = {}
    ELSE Satisficing => PlansAgree

FilesInv ==
    /\ Started
    /\ Satisficing =>
          /\ Running
          /\ Reading
          /\ Between
          /\ Bogus
          /\ "PLAN_FOUND" \in exitCodes => planCosts # << >>

\* The plan files of an optimal portfolio are only looked at by its user.
HasPlan == \E n \in DOMAIN files : files[n] \in Nat

FoundSaved ==
    /\ pc = "write" => PlanFile \in DOMAIN files
    /\ found /\ pc \notin {"save", "write"} => HasPlan

SavedInv ==
    portfolio.optimal =>
       /\ stage = "running" => FoundSaved
       /\ stage \in {"read", "bogus plan"} => FALSE
       /\ stage = "yield" /\ code = "PLAN_FOUND" => HasPlan
       /\ "PLAN_FOUND" \in exitCodes => HasPlan /\ stage \in {"report", "done"}

ReportInv ==
    /\ exitCode = "PLAN_FOUND" => stage = "done" /\ "PLAN_FOUND" \in exitCodes
    /\ stage \in {"done", "bogus plan", "type error"} \/ exitCode = "none"

\* What the component may still use is within the time.
ClockInv ==
    Satisficing =>
       /\ elapsed < TimeLimit + TicksPerSecond
       /\ stage = "running" =>
             /\ limit \in Nat
             /\ TicksPerSecond <= limit
             /\ used <= limit
             /\ elapsed - used + limit < TimeLimit + TicksPerSecond
-----------------------------------------------------------------------------
(* The command line and the limit of a component.                          *)

\* Rounding up adds less than one unit.
LEMMA DivisionBounds ==
    ASSUME NEW a \in Int, NEW b \in Nat \ {0}
    PROVE  /\ CeilDiv(a, b) \in Int
           /\ a <= b * CeilDiv(a, b)
           /\ b * CeilDiv(a, b) < a + b
<1>1. /\ (-a) \div b \in Int
      /\ b * ((-a) \div b) <= -a
      /\ -a < b * ((-a) \div b) + b
    OBVIOUS
<1>2. b * (-((-a) \div b)) = -(b * ((-a) \div b))
    BY <1>1
<1> QED
    BY <1>1, <1>2 DEF CeilDiv

\* A share of at most the whole, rounded up to seconds.
LEMMA ShareBounds ==
    ASSUME NEW r \in Nat \ {0}, NEW t \in Nat \ {0}, NEW whole \in Nat, t <= whole,
           NEW k \in Nat \ {0}
    PROVE  /\ CeilDiv(r * t, whole * k) \in Nat \ {0}
           /\ CeilDiv(r * t, whole * k) * k < r + k
<1>. DEFINE q == CeilDiv(r * t, whole * k)
<1>1. whole \in Nat \ {0} /\ whole * k \in Nat \ {0} /\ r * t \in Nat \ {0}
    OBVIOUS
<1>2. q \in Int /\ r * t <= (whole * k) * q /\ (whole * k) * q < r * t + whole * k
    BY <1>1, DivisionBounds
<1>3. 0 < (whole * k) * q
    BY <1>1, <1>2
<1>4. q \in Nat \ {0}
    BY <1>1, <1>2, <1>3
<1>5. r * t <= r * whole
    BY <1>1
<1>6. (whole * k) * q < r * whole + whole * k
  <2>. HIDE DEF q
  <2> QED
    BY <1>1, <1>2, <1>5
<1>7. whole * (q * k) < whole * (r + k)
  <2>. HIDE DEF q
  <2> QED
    BY <1>1, <1>2, <1>6
<1>8. q * k < r + k
  <2>. HIDE DEF q
  <2>1. q * k \in Int /\ r + k \in Int
    BY <1>2
  <2> QED
    BY <1>1, <1>7, <2>1
<1> QED
    BY <1>4, <1>8

\* The greater of two numbers.
LEMMA MaxOfTwo ==
    ASSUME NEW a \in Int, NEW b \in Int
    PROVE  Max({a, b}) = IF a >= b THEN a ELSE b
<1>. DEFINE m == IF a >= b THEN a ELSE b
<1>1. m \in {a, b} /\ \A y \in {a, b} : m >= y
    OBVIOUS
<1>2. \A x \in {a, b} : (\A y \in {a, b} : x >= y) => x = m
    OBVIOUS
<1> QED
    BY <1>1, <1>2 DEF Max

\* The elements of a sequence.
LEMMA MemberOfSequence ==
    ASSUME NEW S, NEW s \in Seq(S), NEW i \in 1 .. Len(s)
    PROVE  s[i] \in S
    OBVIOUS

\* The config that is called.
LEMMA CalledConfig ==
    ASSUME TypeOK, ConfigLeft
    PROVE  /\ Args \in CommandLines
           /\ Args \in PortfolioArgs(portfolio)
           /\ RelativeTime \in Nat \ {0}
           /\ RemainingRelativeTime \in Nat \ {0}
           /\ RelativeTime <= RemainingRelativeTime
<1>1. portfolio \in PortfolioFiles
    BY PortfolioAssumption DEF TypeOK
<1>2. CASE mode = "final"
    BY <1>1, <1>2 DEF Args, RelativeTime, RemainingRelativeTime, PortfolioFiles, PortfolioArgs
<1>3. CASE mode # "final"
  <2>1. pos \in 1 .. Len(portfolio.configs)
    BY <1>3 DEF TypeOK, ConfigLeft
  <2>2. portfolio.configs \in Seq(Configs)
    BY <1>1 DEF PortfolioFiles
  <2>3. portfolio.configs[pos] \in Configs
    BY <2>1, <2>2, MemberOfSequence, Zenon
  <2>4. /\ RestOfTimes(portfolio, pos) \in Nat
        /\ portfolio.configs[pos].time <= RestOfTimes(portfolio, pos)
    BY <2>1, TimesAssumption DEF TypeOK
  <2> QED
    BY <1>3, <2>1, <2>3, <2>4 DEF Configs, Args, RelativeTime, RemainingRelativeTime, PortfolioArgs
<1> QED
    BY <1>2, <1>3

\* The bound, the cost type and the number of plans of a component.
LEMMA UpdatedTyped ==
    ASSUME NEW args \in CommandLines, NEW unit \in BOOLEAN, NEW bound \in Nat, NEW n \in Nat
    PROVE  /\ [args EXCEPT !.unitCosts = unit] \in CommandLines
           /\ [args EXCEPT !.bound = bound] \in CommandLines
           /\ [args EXCEPT !.anytime = unit] \in CommandLines
           /\ [args EXCEPT !.previousPlans = n] \in CommandLines
<1>1. [args EXCEPT !.unitCosts = unit] \in CommandLines
    BY SMT DEF CommandLines
<1>2. [args EXCEPT !.bound = bound] \in CommandLines
    BY SMT DEF CommandLines
<1>3. [args EXCEPT !.anytime = unit] \in CommandLines
    BY SMT DEF CommandLines
<1>4. [args EXCEPT !.previousPlans = n] \in CommandLines
    BY SMT DEF CommandLines
<1> QED
    BY <1>1, <1>2, <1>3, <1>4

\* The command line of a component.
LEMMA AdaptedTyped ==
    ASSUME TypeOK, ConfigLeft
    PROVE  AdaptedArgs \in CommandLines
<1>1. Args \in CommandLines
    BY CalledConfig
<1>2. BestPlanCost \in Nat
    BY ProcessAssumption DEF BestPlanCost, TypeOK
<1>3. Len(planCosts) \in Nat
    BY DEF TypeOK
<1>4. [Args EXCEPT !.unitCosts = FALSE] \in CommandLines
    BY <1>1, <1>3, UpdatedTyped
<1>5. ASSUME NEW unit \in BOOLEAN
      PROVE  [Args EXCEPT !.unitCosts = unit, !.bound = BestPlanCost, !.anytime = TRUE,
                          !.previousPlans = Len(planCosts)] \in CommandLines
  <2>1. [Args EXCEPT !.unitCosts = unit] \in CommandLines
    BY <1>1, <1>3, UpdatedTyped
  <2>2. [[Args EXCEPT !.unitCosts = unit] EXCEPT !.bound = BestPlanCost] \in CommandLines
    BY <1>2, <1>3, <2>1, UpdatedTyped
  <2>3. [[[Args EXCEPT !.unitCosts = unit] EXCEPT !.bound = BestPlanCost]
            EXCEPT !.anytime = TRUE] \in CommandLines
    BY <1>3, <2>2, UpdatedTyped
  <2>4. [[[[Args EXCEPT !.unitCosts = unit] EXCEPT !.bound = BestPlanCost]
            EXCEPT !.anytime = TRUE] EXCEPT !.previousPlans = Len(planCosts)] \in CommandLines
    BY <1>3, <2>3, UpdatedTyped
  <2> QED
    BY <2>4
<1>6. (Args.unitCosts /\ portfolio.generalCost /\ ~ realCosts) \in BOOLEAN
    OBVIOUS
<1> QED
    BY <1>4, <1>5, <1>6, Zenon DEF AdaptedArgs

\* With time left, the limit of a component is at least a second and exceeds the time that
\* is left by less than one.
LEMMA LimitBounds ==
    ASSUME TypeOK, ConfigLeft
    PROVE  /\ LimitTicks \in Nat \cup {Unlimited}
           /\ RemainingTime > 0 =>
                 /\ LimitTicks \in Nat
                 /\ TicksPerSecond <= LimitTicks
                 /\ LimitTicks < RemainingTime + TicksPerSecond
<1>1. TicksPerSecond \in Nat \ {0}
    BY PortfolioAssumption
<1>2. RemainingTime \in Int
    BY PortfolioAssumption DEF TypeOK, RemainingTime
<1>3. /\ RelativeTime \in Nat \ {0}
      /\ RemainingRelativeTime \in Nat \ {0}
      /\ RelativeTime <= RemainingRelativeTime
    BY CalledConfig
<1>4. SoftLimit \in Int
  <2>1. RemainingTime * RelativeTime \in Int
    BY <1>2, <1>3
  <2>2. RemainingRelativeTime * TicksPerSecond \in Nat \ {0}
    BY <1>1, <1>3
  <2> QED
    BY <2>1, <2>2, DivisionBounds DEF SoftLimit
<1>5. SoftLimit >= 0 => SoftLimit * TicksPerSecond \in Nat
    BY <1>1, <1>4
<1>6. ASSUME RemainingTime > 0
      PROVE  SoftLimit \in Nat \ {0} /\ SoftLimit * TicksPerSecond < RemainingTime + TicksPerSecond
  <2>1. RemainingTime \in Nat \ {0}
    BY <1>2, <1>6
  <2> QED
    BY <1>1, <1>3, <2>1, ShareBounds DEF SoftLimit
<1>7. ASSUME RemainingTime > 0
      PROVE  TicksPerSecond <= SoftLimit * TicksPerSecond
    BY <1>1, <1>6, <1>7
<1> QED
    BY <1>4, <1>5, <1>6, <1>7 DEF LimitTicks, Unlimited

-----------------------------------------------------------------------------
(* Types.                                                                  *)

\* A component runs for one of the configs.
Called == stage \in {"running", "read", "yield"} => ConfigLeft

TypeInv == TypeOK /\ Called

\* The types hold before the driver starts.
LEMMA InitTyped == Init => TypeOK
<1> SUFFICES ASSUME Init PROVE TypeOK
    OBVIOUS
<1>1. portfolio \in PortfolioFiles /\ TicksPerSecond \in Nat \ {0}
    BY PortfolioAssumption DEF Init
<1>2. command \in CommandLines /\ 1 \in 1 .. Len(portfolio.configs) + 1
    BY <1>1 DEF Init, PortfolioFiles
<1>3. files \in [DOMAIN files -> Nat \cup {Incomplete}] /\ DOMAIN files \subseteq Nat
    BY PortfolioAssumption DEF Init
<1>4. planCosts \in Seq(Nat) /\ exitCodes \subseteq PortfolioExitCodes /\ bestBound \in Nat
    BY ProcessAssumption DEF Init
<1>5. code \in PortfolioExitCodes /\ stage \in Stages
    BY DEF Init, PortfolioExitCodes, Stages
<1>6. lastFound \in BOOLEAN /\ found \in BOOLEAN /\ succeeded \in BOOLEAN /\ realCosts \in BOOLEAN
    BY Zenon DEF Init
<1>7. /\ pc \in {"search", "return", "save", "write", "exit"}
      /\ mode \in {"config", "rerun", "final"} /\ mode # "rerun"
      /\ portfolio \in Portfolios
    BY DEF Init
<1>8. phase \in Nat /\ planCost \in Nat /\ numPlans \in Nat /\ pos = 1 /\ counter \in Nat \ {0}
    BY DEF Init
<1>9. elapsed \in Nat /\ used \in Nat /\ limit \in Nat \cup {Unlimited}
    BY DEF Init
<1> QED
    BY <1>2, <1>3, <1>4, <1>5, <1>6, <1>7, <1>8, <1>9 DEF TypeOK

\* What an engine may return.
LEMMA ResultsTyped ==
    ASSUME NEW b
    PROVE  /\ Results(b) \subseteq Nat
           /\ ~ GoalAtStart /\ command.heedsBound /\ ~ command.unitCosts =>
                 \A c \in Results(b) : c < b
<1>1. CASE GoalAtStart
    BY <1>1 DEF Results
<1>2. CASE ~ GoalAtStart
    BY <1>2, ProcessAssumption DEF Results
<1> QED
    BY <1>1, <1>2

\* A step of a component keeps the types.
LEMMA WorkTyped == TypeOK /\ Work /\ UNCHANGED <<clock, control, manager>> => TypeOK'
<1> SUFFICES ASSUME TypeOK, Work, UNCHANGED <<clock, control, manager>>
             PROVE  TypeOK'
    OBVIOUS
<1>. USE DEF clock, control, manager
<1>1. PlanFile \in Nat
    BY DEF PlanFile, TypeOK
<1>2. CASE Search
    BY <1>2, ResultsTyped DEF Search, TypeOK
<1>3. CASE NoMorePhases
    BY <1>3 DEF NoMorePhases, TypeOK
<1>4. CASE PhaseFinds
  <2>1. phase' \in Nat
    BY <1>4 DEF PhaseFinds, NextPhase, TypeOK
  <2>2. planCost' \in Nat /\ pc' \in {"save", "return"}
    BY <1>4, ResultsTyped DEF PhaseFinds, TypeOK
  <2> QED
    BY <1>4, <2>1, <2>2 DEF PhaseFinds, TypeOK
<1>5. CASE PhaseFails
  <2>1. phase' \in Nat
    BY <1>5 DEF PhaseFails, NextPhase, TypeOK
  <2> QED
    BY <1>5, <2>1 DEF PhaseFails, TypeOK
<1>6. CASE StepReturns
    BY <1>6 DEF StepReturns, TypeOK
<1>7. CASE OpenPlan
    BY <1>1, <1>7 DEF OpenPlan, TypeOK
<1>8. CASE WritePlan
  <2>1. bestBound' \in Nat /\ numPlans' \in Nat
    BY <1>8 DEF WritePlan, BoundAfter, TypeOK
  <2>2. /\ DOMAIN files' = DOMAIN files
        /\ files' \in [DOMAIN files -> Nat \cup {Incomplete}]
    BY <1>8 DEF WritePlan, TypeOK
  <2>3. pc' \in {"return", "exit"}
    BY <1>8 DEF WritePlan
  <2> QED
    BY <1>8, <2>1, <2>2, <2>3 DEF WritePlan, TypeOK
<1> QED
    BY <1>2, <1>3, <1>4, <1>5, <1>6, <1>7, <1>8 DEF Work, Iterate

\* Every step keeps the types.
LEMMA NextTyped == TypeOK /\ Called /\ [Next]_vars => TypeOK'
<1> SUFFICES ASSUME TypeOK, Called, [Next]_vars
             PROVE  TypeOK'
    OBVIOUS
<1>. USE DEF processVars, process, clock, manager
<1>1. CASE DeleteExistingPlans
    BY <1>1 DEF DeleteExistingPlans, TypeOK, Stages
<1>2. CASE NoTimeLeft
    BY <1>2 DEF NoTimeLeft, TypeOK, Stages
<1>3. CASE Start
  <2>1. AdaptedArgs \in CommandLines /\ LimitTicks \in Nat \cup {Unlimited}
    BY <1>3, AdaptedTyped, LimitBounds DEF Start
  <2>2. AdaptedArgs.bound \in Nat /\ AdaptedArgs.previousPlans \in Nat
    BY <2>1 DEF CommandLines
  <2> QED
    BY <1>3, <2>1, <2>2 DEF Start, Starts, TypeOK, Stages
<1>4. CASE Component
    BY <1>4, WorkTyped DEF Component
<1>5. CASE Tick
    BY <1>5 DEF Tick, control, TypeOK
<1>6. ASSUME NEW c \in PortfolioExitCodes, Ends(c)
      PROVE  TypeOK'
    BY <1>6 DEF Ends, TypeOK, Stages
<1>7. CASE Exits
  <2>1. ExitCode \in PortfolioExitCodes
    BY DEF ExitCode, PortfolioExitCodes
  <2> QED
    BY <1>6, <1>7, <2>1 DEF Exits
<1>8. CASE Fails
    BY <1>6, <1>8 DEF Fails, PortfolioExitCodes
<1>9. CASE Killed
    BY <1>6, <1>9 DEF Killed, PortfolioExitCodes
<1>10. CASE DeleteIncomplete
    BY <1>10 DEF DeleteIncomplete, FilesWithoutIncomplete, control, TypeOK
<1>11. CASE AcceptPlan
  <2>1. files[counter] \in Nat
    BY <1>11 DEF AcceptPlan, PlanFileExists, TypeOK
  <2>2. Append(planCosts, files[counter]) \in Seq(Nat)
    BY <2>1 DEF TypeOK
  <2> QED
    BY <1>11, <2>2 DEF AcceptPlan, control, TypeOK
<1>12. CASE RejectPlan
    BY <1>12 DEF RejectPlan, TypeOK, Stages, EndStages
<1>13. CASE AllPlansRead
    BY <1>13 DEF AllPlansRead, TypeOK, Stages
<1>14. ASSUME Yields
       PROVE  exitCodes' \subseteq PortfolioExitCodes /\ succeeded' \in BOOLEAN
    BY <1>14 DEF Yields, TypeOK
<1>15. CASE PortfolioOver
    BY <1>14, <1>15 DEF PortfolioOver, Yields, TypeOK, Stages
<1>16. CASE Rerun
  <2>1. mode = "config" /\ stage = "yield"
    BY <1>16 DEF Rerun, SwitchCosts, Yields
  <2>2. pos <= Len(portfolio.configs)
    BY <2>1 DEF Called, ConfigLeft
  <2>3. pos' = pos /\ portfolio' = portfolio /\ mode' = "rerun" /\ stage' = "call" /\ realCosts'
    BY <1>16 DEF Rerun, Yields
  <2> QED
    BY <1>14, <1>16, <2>2, <2>3 DEF Rerun, Yields, TypeOK, Stages
<1>17. CASE RunFinalConfig
    BY <1>14, <1>17 DEF RunFinalConfig, Yields, TypeOK, Stages
<1>18. CASE NextConfig
  <2>1. mode \in {"config", "rerun"} /\ stage = "yield"
    BY <1>18 DEF NextConfig, Last, Yields, TypeOK
  <2>2. pos \in 1 .. Len(portfolio.configs)
    BY <2>1 DEF Called, ConfigLeft, TypeOK
  <2>3. pos' \in 1 .. Len(portfolio.configs') + 1
    BY <1>18, <2>2 DEF NextConfig, Yields
  <2> QED
    BY <1>14, <1>18, <2>3 DEF NextConfig, Yields, TypeOK, Stages
<1>19. CASE RoundOver
    BY <1>19 DEF RoundOver, TypeOK, Stages
<1>20. CASE NextRound
    BY <1>20 DEF NextRound, TypeOK, Stages, EndStages
<1>21. CASE Report
    BY <1>21 DEF Report, TypeOK, Stages, EndStages
<1>22. CASE UNCHANGED vars
    BY <1>22 DEF vars, control, TypeOK
<1> QED
    BY <1>1, <1>2, <1>3, <1>4, <1>5, <1>7, <1>8, <1>9, <1>10, <1>11, <1>12, <1>13, <1>15,
       <1>16, <1>17, <1>18, <1>19, <1>20, <1>21, <1>22
    DEF Next, Driver, ReadPlans, Ended

\* A component is called only while a config is left.
LEMMA NextCalled == TypeOK /\ Called /\ [Next]_vars => Called'
<1> SUFFICES ASSUME TypeOK, Called, [Next]_vars, stage' \in {"running", "read", "yield"}
             PROVE  ConfigLeft'
    BY DEF Called
<1>1. CASE Start
    BY <1>1 DEF Start, ConfigLeft
<1>2. ASSUME stage \in {"running", "read", "yield"}, UNCHANGED <<portfolio, mode, pos>>
      PROVE  ConfigLeft'
    BY <1>2 DEF Called, ConfigLeft
<1>3. ASSUME NEW c, stage = "running", Ends(c)
      PROVE  ConfigLeft'
    BY <1>2, <1>3 DEF Ends
<1>4. CASE Exits \/ Fails \/ Killed
    BY <1>3, <1>4 DEF Exits, Fails, Killed
<1>5. CASE Component \/ Tick \/ DeleteIncomplete \/ AcceptPlan \/ AllPlansRead
    BY <1>2, <1>5
    DEF Component, Tick, DeleteIncomplete, AcceptPlan, AllPlansRead, PlanFileExists, control
<1>6. CASE UNCHANGED vars
    BY <1>2, <1>6 DEF vars, control
<1>7. CASE PortfolioOver \/ Rerun \/ RunFinalConfig \/ NextConfig
    BY <1>7 DEF PortfolioOver, Rerun, RunFinalConfig, NextConfig
<1>8. CASE DeleteExistingPlans \/ NoTimeLeft \/ RejectPlan \/ RoundOver \/ NextRound \/ Report
    BY <1>8 DEF DeleteExistingPlans, NoTimeLeft, RejectPlan, RoundOver, NextRound, Report
<1> QED
    BY <1>1, <1>4, <1>5, <1>6, <1>7, <1>8 DEF Next, Driver, ReadPlans, Ended

\* The types hold, and a component is called only while a config is left.
LEMMA TypeInvariant == Spec => []TypeInv
<1>1. Init => TypeInv
    BY InitTyped DEF TypeInv, Called, Init
<1>2. TypeInv /\ [Next]_vars => TypeInv'
    BY NextTyped, NextCalled DEF TypeInv
<1> QED
    BY <1>1, <1>2, PTL DEF Spec

\* Every portfolio: all variables keep their types, however its components end.
THEOREM PortfolioTypeCorrect == Spec => []TypeOK
<1>1. Spec => []TypeInv
    BY TypeInvariant
<1> QED
    BY <1>1, PTL DEF TypeInv

-----------------------------------------------------------------------------
(* The clock.                                                              *)

\* Every step keeps the time.
LEMMA ClockStep == TypeInv /\ ClockInv /\ [Next]_vars => ClockInv'
<1> SUFFICES ASSUME TypeOK, Called, ClockInv, [Next]_vars, Satisficing'
             PROVE  /\ elapsed' < TimeLimit + TicksPerSecond
                    /\ stage' = "running" =>
                          /\ limit' \in Nat
                          /\ TicksPerSecond <= limit'
                          /\ used' <= limit'
                          /\ elapsed' - used' + limit' < TimeLimit + TicksPerSecond
    BY DEF ClockInv, TypeInv
<1>. USE DEF processVars, process, clock, manager
<1>1. TimeLimit \in Nat /\ TicksPerSecond \in Nat \ {0}
    BY PortfolioAssumption
<1>2. elapsed \in Nat /\ used \in Nat
    BY DEF TypeOK
<1>3. CASE Start
  <2>1. Satisficing
    BY <1>3 DEF Start, Satisficing
  <2>2. RemainingTime > 0 /\ ConfigLeft
    BY <1>3, <2>1 DEF Start, TimeLeft, Satisficing
  <2>3. /\ LimitTicks \in Nat
        /\ TicksPerSecond <= LimitTicks
        /\ LimitTicks < TimeLimit - elapsed + TicksPerSecond
    BY <2>2, LimitBounds DEF RemainingTime
  <2>4. elapsed < TimeLimit + TicksPerSecond
    BY <2>1 DEF ClockInv
  <2>5. elapsed' = elapsed /\ used' = 0 /\ limit' = LimitTicks
    BY <1>3 DEF Start
  <2> QED
    BY <1>1, <1>2, <2>3, <2>4, <2>5
<1>4. CASE Tick
  <2>1. Satisficing /\ stage = "running"
    BY <1>4 DEF Tick, control, Satisficing
  <2>2. /\ limit \in Nat
        /\ TicksPerSecond <= limit
        /\ elapsed - used + limit < TimeLimit + TicksPerSecond
    BY <2>1 DEF ClockInv
  <2>3. Max({limit, TicksPerSecond}) = limit
    BY <1>1, <2>2, MaxOfTwo
  <2>4. used < limit
    BY <1>4, <2>2, <2>3 DEF Tick, Unlimited
  <2>5. elapsed' = elapsed + 1 /\ used' = used + 1 /\ limit' = limit
    BY <1>4 DEF Tick
  <2> QED
    BY <1>1, <1>2, <2>2, <2>4, <2>5
<1>5. CASE /\ UNCHANGED <<clock, portfolio>>
           /\ stage' = "running" => stage = "running"
    BY <1>5 DEF ClockInv, Satisficing
<1>6. ASSUME NEW c, Ends(c)
      PROVE  UNCHANGED <<clock, portfolio>> /\ stage' # "running"
    BY <1>6 DEF Ends
<1>7. CASE Component \/ Exits \/ Fails \/ Killed
    BY <1>5, <1>6, <1>7 DEF Component, Exits, Fails, Killed, control
<1>8. CASE ReadPlans
    BY <1>5, <1>8
    DEF ReadPlans, DeleteIncomplete, AcceptPlan, RejectPlan, AllPlansRead, control
<1>9. CASE PortfolioOver \/ Rerun \/ RunFinalConfig \/ NextConfig
    BY <1>5, <1>9 DEF PortfolioOver, Rerun, RunFinalConfig, NextConfig, Yields
<1>10. CASE DeleteExistingPlans \/ NoTimeLeft \/ RoundOver \/ NextRound \/ Report
    BY <1>5, <1>10 DEF DeleteExistingPlans, NoTimeLeft, RoundOver, NextRound, Report
<1>11. CASE UNCHANGED vars
    BY <1>5, <1>11 DEF vars, control
<1> QED
    BY <1>3, <1>4, <1>7, <1>8, <1>9, <1>10, <1>11 DEF Next, Driver, Ended

\* For every portfolio and time limit: a satisficing portfolio overruns its time by less
\* than a second, because no limit exceeds the time left by more than its rounding.
THEOREM PortfolioWithinTime == Spec => []WithinTime
<1>1. Init => ClockInv
    BY PortfolioAssumption DEF Init, ClockInv
<1>2. ClockInv => WithinTime
    BY DEF ClockInv, WithinTime, Satisficing
<1> QED
    BY <1>1, <1>2, TypeInvariant, ClockStep, PTL DEF Spec

-----------------------------------------------------------------------------
(* The plan files of a component.                                          *)

\* All that is said of a component that a satisficing portfolio runs.
ComponentInv ==
    /\ TypeOK
    /\ PlansAgree
    /\ FilesOfComponent
    /\ BoundHeeded => BoundOfComponent

\* The files and the number of plans stay, and a plan that is to be saved is better.
LEMMA NothingSaved ==
    ASSUME ComponentInv, UNCHANGED <<control, manager>>,
           UNCHANGED <<files, numPlans, command, bestBound>>,
           pc \in {"search", "return"}, pc' \in {"search", "return", "save", "exit"},
           pc' = "save" => planCost' < bestBound \/ ~ BoundHeeded,
           found' => found \/ pc' = "save"
    PROVE  PlansAgree' /\ FilesOfComponent' /\ (BoundHeeded' => BoundOfComponent')
<1>. USE DEF control, manager, ComponentInv
<1>1. PlansAgree'
    BY DEF PlansAgree
<1>2. FilesOfComponent'
    BY DEF FilesOfComponent, PlanFiles
<1>3. ASSUME BoundHeeded'
      PROVE  BoundOfComponent'
  <2>1. BoundHeeded
    BY <1>3 DEF BoundHeeded
  <2>2. BoundOfComponent /\ Decreasing'
    BY <2>1 DEF BoundOfComponent, Decreasing
  <2> QED
    BY <2>1, <2>2 DEF BoundOfComponent
<1> QED
    BY <1>1, <1>2, <1>3

\* A component opens the file behind those it has written.
LEMMA PlanOpened ==
    ASSUME ComponentInv, UNCHANGED <<control, manager>>, OpenPlan
    PROVE  /\ PlansAgree' /\ FilesOfComponent' /\ (BoundHeeded' => BoundOfComponent')
           /\ \A n \in DOMAIN files : n \in DOMAIN files' /\ files'[n] = files[n]
<1>. USE DEF control, manager, ComponentInv
<1>1. numPlans \in Nat /\ Len(planCosts) \in Nat
    BY DEF TypeOK
<1>2. PlanFile = numPlans + 1 /\ DOMAIN files = 1 .. numPlans
    BY DEF OpenPlan, PlanFile, FilesOfComponent, PlanFiles
<1>3. DOMAIN files' = 1 .. numPlans + 1
    BY <1>1, <1>2 DEF OpenPlan
<1>4. \A n \in 1 .. numPlans : files'[n] = files[n]
    BY <1>1, <1>2 DEF OpenPlan
<1>5. files'[numPlans + 1] = Incomplete
    BY <1>1, <1>2 DEF OpenPlan
<1>6. PlansAgree'
    BY <1>1, <1>4 DEF PlansAgree, FilesOfComponent
<1>7. FilesOfComponent'
    BY <1>1, <1>3, <1>4, <1>5 DEF OpenPlan, FilesOfComponent, PlanFiles
<1>8. ASSUME BoundHeeded'
      PROVE  BoundOfComponent'
  <2>1. BoundOfComponent
    BY <1>8 DEF BoundHeeded
  <2>2. Incomplete \notin Nat
    BY ProcessAssumption
  <2>3. Decreasing'
    BY <1>1, <1>2, <1>3, <1>4, <1>5, <2>1, <2>2 DEF BoundOfComponent, Decreasing
  <2>4. 1 <= numPlans => bestBound = files'[numPlans]
    <3>1. 1 <= numPlans => bestBound = files[numPlans] /\ numPlans \in 1 .. numPlans
      BY <1>1, <2>1 DEF BoundOfComponent, OpenPlan
    <3> QED
      BY <1>4, <3>1
  <2> QED
    BY <2>1, <2>3, <2>4 DEF BoundOfComponent, OpenPlan
<1>9. \A n \in DOMAIN files : n \in DOMAIN files' /\ files'[n] = files[n]
    BY <1>1, <1>2, <1>3, <1>4
<1> QED
    BY <1>6, <1>7, <1>8, <1>9

\* A component writes the last line of its file.
LEMMA PlanWritten ==
    ASSUME ComponentInv, UNCHANGED <<control, manager>>, WritePlan
    PROVE  /\ PlansAgree' /\ FilesOfComponent' /\ (BoundHeeded' => BoundOfComponent')
           /\ \A n \in DOMAIN files : files[n] # Incomplete =>
                 n \in DOMAIN files' /\ files'[n] = files[n]
<1>. USE DEF control, manager, ComponentInv
<1>1. numPlans \in Nat /\ Len(planCosts) \in Nat /\ planCost \in Nat
    BY DEF TypeOK
<1>2. PlanFile = numPlans + 1 /\ DOMAIN files = 1 .. numPlans + 1
    BY DEF WritePlan, PlanFile, FilesOfComponent, PlanFiles
<1>3. DOMAIN files' = 1 .. numPlans + 1 /\ numPlans' = numPlans + 1
    BY <1>2 DEF WritePlan
<1>4. \A n \in 1 .. numPlans : files'[n] = files[n]
    BY <1>1, <1>2 DEF WritePlan
<1>5. files'[numPlans + 1] = planCost /\ files[numPlans + 1] = Incomplete
    BY <1>1, <1>2 DEF WritePlan, FilesOfComponent
<1>6. PlansAgree'
    BY <1>1, <1>4 DEF PlansAgree, FilesOfComponent
<1>7. pc' \in {"return", "exit"} /\ command' = command
    BY DEF WritePlan
<1>8. FilesOfComponent'
    BY <1>1, <1>3, <1>4, <1>5, <1>7 DEF FilesOfComponent, PlanFiles
<1>9. ASSUME BoundHeeded'
      PROVE  BoundOfComponent'
  <2>1. BoundOfComponent /\ pc = "write"
    BY <1>9 DEF BoundHeeded, WritePlan
  <2>2. \A n \in 1 .. numPlans : planCost < files[n]
    <3>1. SUFFICES ASSUME NEW n \in 1 .. numPlans
                   PROVE  planCost < files[n]
      OBVIOUS
    <3>2. planCost < files[numPlans]
      BY <1>1, <2>1 DEF BoundOfComponent
    <3>3. files[n] \in Nat /\ files[numPlans] \in Nat
      BY <1>1 DEF FilesOfComponent
    <3>4. n < numPlans => files[numPlans] < files[n]
      BY <1>1, <1>2, <2>1, <3>3 DEF BoundOfComponent, Decreasing
    <3> QED
      BY <1>1, <3>2, <3>3, <3>4
  <2>3. Decreasing'
    <3>1. SUFFICES ASSUME NEW i \in 1 .. numPlans + 1, NEW j \in 1 .. numPlans + 1, i < j,
                          files'[i] \in Nat, files'[j] \in Nat
                   PROVE  files'[j] < files'[i]
      BY <1>3 DEF Decreasing
    <3>2. CASE j = numPlans + 1
      BY <1>1, <1>4, <1>5, <2>2, <3>1, <3>2
    <3>3. CASE j # numPlans + 1
      BY <1>1, <1>2, <1>4, <2>1, <3>1, <3>3 DEF BoundOfComponent, Decreasing
    <3> QED
      BY <3>2, <3>3
  <2>4. pc' # "exit" => bestBound' = files'[numPlans']
    BY <1>3, <1>5 DEF WritePlan, BoundAfter
  <2>5. ~ command.iterated => command.bound = bestBound'
    BY <2>1 DEF WritePlan, BoundAfter, BoundOfComponent
  <2> QED
    BY <1>7, <2>1, <2>3, <2>4, <2>5 DEF BoundOfComponent
<1>10. \A n \in DOMAIN files : files[n] # Incomplete =>
          n \in DOMAIN files' /\ files'[n] = files[n]
  <2>1. \A n \in DOMAIN files : files[n] # Incomplete => n \in 1 .. numPlans
    BY <1>1, <1>2, <1>5
  <2> QED
    BY <1>1, <1>3, <1>4, <2>1
<1> QED
    BY <1>6, <1>8, <1>9, <1>10

\* Every step of a component keeps its files in order.
LEMMA ComponentStep ==
    ASSUME ComponentInv, UNCHANGED <<control, manager>>, Work
    PROVE  /\ PlansAgree' /\ FilesOfComponent' /\ (BoundHeeded' => BoundOfComponent')
           /\ \A n \in DOMAIN files : files[n] # Incomplete =>
                 n \in DOMAIN files' /\ files'[n] = files[n]
<1>1. CASE Search
  <2>1. pc' = "save" => planCost' < bestBound \/ ~ BoundHeeded
    <3>1. SUFFICES ASSUME pc' = "save", BoundHeeded
                   PROVE  planCost' < bestBound
      OBVIOUS
    <3>2. planCost' \in Results(command.bound) /\ ~ command.iterated
      BY <1>1, <3>1 DEF Search
    <3>3. /\ ~ GoalAtStart /\ command.heedsBound /\ ~ command.unitCosts
          /\ command.bound = bestBound
      BY <3>1, <3>2 DEF ComponentInv, BoundHeeded, BoundOfComponent
    <3> QED
      BY <3>2, <3>3, ResultsTyped
  <2>2. /\ UNCHANGED <<files, numPlans, command, bestBound>>
        /\ pc = "search"
        /\ pc' \in {"save", "exit"}
        /\ found' => found \/ pc' = "save"
    BY <1>1 DEF Search
  <2> QED
    BY <2>1, <2>2, NothingSaved
<1>2. CASE Iterate
  <2>1. pc' = "save" => planCost' < bestBound
    BY <1>2 DEF Iterate, NoMorePhases, PhaseFinds, PhaseFails, StepReturns, Improves
  <2>2. /\ UNCHANGED <<files, numPlans, command, bestBound, found>>
        /\ pc \in {"search", "return"}
        /\ pc' \in {"search", "return", "save", "exit"}
    BY <1>2 DEF Iterate, NoMorePhases, PhaseFinds, PhaseFails, StepReturns
  <2> QED
    BY <2>1, <2>2, NothingSaved
<1>3. CASE OpenPlan
    BY <1>3, PlanOpened
<1>4. CASE WritePlan
    BY <1>4, PlanWritten
<1> QED
    BY <1>1, <1>2, <1>3, <1>4 DEF Work

-----------------------------------------------------------------------------
(* The plan files of a satisficing portfolio.                              *)

\* The portfolio file is read once.
LEMMA PortfolioKept == [Next]_vars => portfolio' = portfolio
<1> SUFFICES ASSUME [Next]_vars PROVE portfolio' = portfolio
    OBVIOUS
<1>1. CASE Component \/ Tick \/ ReadPlans \/ UNCHANGED vars
    BY <1>1
    DEF Component, Tick, ReadPlans, DeleteIncomplete, AcceptPlan, RejectPlan, AllPlansRead,
        vars, control
<1>2. CASE Exits \/ Fails \/ Killed
    BY <1>2 DEF Exits, Fails, Killed, Ends
<1>3. CASE PortfolioOver \/ Rerun \/ RunFinalConfig \/ NextConfig
    BY <1>3 DEF PortfolioOver, Rerun, RunFinalConfig, NextConfig, Yields
<1>4. CASE \/ DeleteExistingPlans \/ NoTimeLeft \/ Start \/ RoundOver \/ NextRound \/ Report
    BY <1>4 DEF DeleteExistingPlans, NoTimeLeft, Start, RoundOver, NextRound, Report
<1> QED
    BY <1>1, <1>2, <1>3, <1>4 DEF Next, Driver, Ended

\* What the driver replaces in the command line of a component.
LEMMA AdaptedFields ==
    ASSUME TypeOK, ConfigLeft, Satisficing
    PROVE  /\ AdaptedArgs.anytime
           /\ AdaptedArgs.previousPlans = Len(planCosts)
           /\ AdaptedArgs.bound = BestPlanCost
           /\ BoundHeeded => AdaptedArgs.heedsBound /\ ~ AdaptedArgs.unitCosts
<1>1. Args \in CommandLines /\ Args \in PortfolioArgs(portfolio)
    BY CalledConfig
<1>2. AdaptedArgs =
         [Args EXCEPT !.unitCosts     = Args.unitCosts /\ portfolio.generalCost /\ ~ realCosts,
                      !.bound         = BestPlanCost,
                      !.anytime       = TRUE,
                      !.previousPlans = Len(planCosts)]
    BY Zenon DEF AdaptedArgs, Satisficing
<1>3. /\ AdaptedArgs.anytime
      /\ AdaptedArgs.previousPlans = Len(planCosts)
      /\ AdaptedArgs.bound = BestPlanCost
      /\ AdaptedArgs.heedsBound = Args.heedsBound
      /\ AdaptedArgs.unitCosts = (Args.unitCosts /\ portfolio.generalCost /\ ~ realCosts)
    BY <1>1, <1>2 DEF CommandLines
<1> QED
    BY <1>1, <1>3 DEF BoundHeeded

\* Between components the plans on disk are those the plan manager knows, and a component
\* gets the number of them and the cost of the best.
LEMMA ComponentStarts ==
    ASSUME TypeInv, FilesInv, Satisficing, Start
    PROVE  PlansAgree' /\ FilesOfComponent' /\ (BoundHeeded' => BoundOfComponent')
<1>. USE DEF manager
<1>1. TypeOK /\ ConfigLeft /\ Len(planCosts) \in Nat
    BY DEF TypeInv, TypeOK, Start
<1>2. PlansAgree /\ DOMAIN files = 1 .. Len(planCosts)
    BY DEF FilesInv, Started, Between, Start
<1>3. \A n \in 1 .. Len(planCosts) : files[n] \in Nat
    BY <1>1, <1>2 DEF PlansAgree, TypeOK
<1>4. /\ command' = AdaptedArgs /\ pc' = "search" /\ bestBound' = AdaptedArgs.bound
      /\ numPlans' = AdaptedArgs.previousPlans /\ ~ found'
      /\ UNCHANGED <<files, planCosts, portfolio, realCosts>>
    BY DEF Start, Starts
<1>5. numPlans' = Len(planCosts) /\ command'.anytime
    BY <1>1, <1>4, AdaptedFields
<1>6. PlansAgree'
    BY <1>2, <1>4 DEF PlansAgree
<1>7. FilesOfComponent'
    BY <1>1, <1>2, <1>3, <1>4, <1>5 DEF FilesOfComponent, PlanFiles
<1>8. ASSUME BoundHeeded'
      PROVE  BoundOfComponent'
  <2>1. BoundHeeded
    BY <1>4, <1>8 DEF BoundHeeded
  <2>2. command'.heedsBound /\ ~ command'.unitCosts /\ command'.bound = bestBound'
    BY <1>1, <1>4, <2>1, AdaptedFields
  <2>3. Decreasing'
    BY <1>2, <1>4 DEF Decreasing, PlansAgree
  <2>4. 1 <= Len(planCosts) => bestBound' = files'[numPlans']
    <3>1. SUFFICES ASSUME 1 <= Len(planCosts)
                   PROVE  bestBound' = files'[numPlans']
      OBVIOUS
    <3>2. bestBound' = BestPlanCost
      BY <1>1, <1>4, AdaptedFields
    <3>3. BestPlanCost = planCosts[Len(planCosts)]
      BY <3>1 DEF BestPlanCost
    <3> QED
      BY <1>1, <1>2, <1>4, <1>5, <3>1, <3>2, <3>3 DEF PlansAgree
  <2> QED
    BY <1>4, <1>5, <2>2, <2>3, <2>4 DEF BoundOfComponent
<1> QED
    BY <1>6, <1>7, <1>8

\* Wherever a component ends, at most the last file is incomplete.
LEMMA ComponentEnds ==
    ASSUME TypeInv, FilesInv, Satisficing, stage = "running", NEW c, Ends(c),
           c = "PLAN_FOUND" => found /\ pc = "exit"
    PROVE  stage' = "read" /\ PlansAgree' /\ Reading'
<1>. USE DEF processVars, process, Ends
<1>1. TypeOK /\ numPlans \in Nat /\ Len(planCosts) \in Nat
    BY DEF TypeInv, TypeOK
<1>2. PlansAgree /\ FilesOfComponent /\ (BoundHeeded => Decreasing)
    BY DEF FilesInv, Started, Running, BoundOfComponent
<1>3. /\ stage' = "read" /\ counter' = Len(planCosts) + 1 /\ code' = c
      /\ UNCHANGED <<files, planCosts, portfolio, realCosts>>
    BY DEF Satisficing
<1>4. PlansAgree'
    BY <1>2, <1>3 DEF PlansAgree
<1>5. \E m \in Nat : PlanFiles(m)'
  <2>1. PICK m \in Nat : PlanFiles(m)
    BY <1>1, <1>2 DEF FilesOfComponent
  <2> QED
    BY <1>3, <2>1 DEF PlanFiles
<1>6. BoundHeeded' => Decreasing'
    BY <1>2, <1>3 DEF BoundHeeded, Decreasing
<1>7. c = "PLAN_FOUND" => 1 \in DOMAIN files /\ files[1] \in Nat
    BY <1>1, <1>2 DEF FilesOfComponent, PlanFiles
<1> QED
    BY <1>3, <1>4, <1>5, <1>6, <1>7 DEF Reading

\* What the loop of process_new_plans leaves: one plan file more or less is dealt with.
LEMMA PlansRead ==
    ASSUME TypeOK, PlansAgree, Reading, stage = "read", ReadPlans
    PROVE  PlansAgree' /\ Reading' /\ Between' /\ Bogus'
<1>. DEFINE known == Len(planCosts)
<1>1. known \in Nat /\ counter \in Nat \ {0} /\ planCosts \in Seq(Nat)
    BY DEF TypeOK
<1>2. PICK m \in Nat : /\ PlanFiles(m)
                       /\ counter = known + 1 \/ (counter = known + 2 /\ m = known)
    BY DEF Reading
<1>3. /\ known <= m
      /\ DOMAIN files = 1 .. m
      /\ \A n \in 1 .. m : files[n] \in Nat \cup {Incomplete} /\ (n < m => files[n] \in Nat)
    BY <1>2 DEF PlanFiles, TypeOK
<1>4. Incomplete \notin Nat
    BY ProcessAssumption
<1>5. \A i \in 1 .. known : files[i] = planCosts[i] /\ planCosts[i] \in Nat
    BY <1>1 DEF PlansAgree
<1>6. ASSUME counter \in DOMAIN files
      PROVE  counter = known + 1 /\ known + 1 <= m
    BY <1>1, <1>2, <1>3, <1>6
<1>7. BoundHeeded => Decreasing
    BY DEF Reading
<1>8. CASE DeleteIncomplete
  <2>. USE DEF control
  <2>1. counter = known + 1 /\ m = known + 1 /\ files[counter] = Incomplete
    BY <1>1, <1>3, <1>4, <1>6, <1>8 DEF DeleteIncomplete, PlanFileExists
  <2>2. files' = [n \in DOMAIN files \ {counter} |-> files[n]]
    BY <1>8 DEF DeleteIncomplete, FilesWithoutIncomplete
  <2>3. DOMAIN files' = 1 .. known /\ \A n \in 1 .. known : files'[n] = files[n]
    BY <1>1, <1>3, <2>1, <2>2
  <2>4. /\ planCosts' = planCosts /\ counter' = known + 2 /\ stage' = "read"
        /\ UNCHANGED <<portfolio, realCosts, code>>
    BY <1>1, <1>8, <2>1 DEF DeleteIncomplete
  <2>5. PlansAgree'
    BY <1>5, <2>3, <2>4 DEF PlansAgree
  <2>6. PlanFiles(known)'
    BY <1>1, <1>5, <2>3, <2>4 DEF PlanFiles
  <2>7. BoundHeeded' => Decreasing'
    BY <1>1, <1>3, <1>7, <2>1, <2>3, <2>4 DEF BoundHeeded, Decreasing
  <2>8. code = "PLAN_FOUND" => 1 \in DOMAIN files' /\ files'[1] \in Nat
    BY <1>1, <1>3, <1>4, <2>1, <2>3 DEF Reading
  <2>9. Reading'
    BY <1>1, <2>4, <2>6, <2>7, <2>8 DEF Reading
  <2> QED
    BY <2>4, <2>5, <2>9 DEF Between, Bogus
<1>9. CASE AcceptPlan
  <2>. USE DEF control, processVars
  <2>1. counter = known + 1 /\ known + 1 <= m /\ files[counter] \in Nat
    BY <1>3, <1>6, <1>9 DEF AcceptPlan, PlanFileExists
  <2>2. /\ planCosts' = Append(planCosts, files[counter])
        /\ counter' = known + 2 /\ stage' = "read"
        /\ UNCHANGED <<files, portfolio, realCosts, code>>
    BY <1>1, <1>9, <2>1 DEF AcceptPlan
  <2>3. /\ Len(planCosts') = known + 1
        /\ planCosts'[known + 1] = files[known + 1]
        /\ \A i \in 1 .. known : planCosts'[i] = planCosts[i]
    BY <1>1, <2>1, <2>2
  <2>4. \A i \in 1 .. known : files[known + 1] < planCosts[i]
    <3>1. known # 0 => files[known + 1] < planCosts[known]
      BY <1>1, <1>9, <2>1 DEF AcceptPlan, PlanImproves
    <3>2. SUFFICES ASSUME NEW i \in 1 .. known
                   PROVE  files[known + 1] < planCosts[i]
      OBVIOUS
    <3>3. i < known => planCosts[known] < planCosts[i]
      BY <1>1 DEF PlansAgree
    <3>4. planCosts[i] \in Nat /\ planCosts[known] \in Nat /\ files[known + 1] \in Nat
      BY <1>1, <1>5, <2>1
    <3> QED
      BY <1>1, <3>1, <3>3, <3>4
  <2>5. PlansAgree'
    BY <1>1, <1>5, <2>2, <2>3, <2>4 DEF PlansAgree
  <2>6. PlanFiles(m)'
    BY <1>1, <1>3, <2>1, <2>2, <2>3 DEF PlanFiles
  <2>7. BoundHeeded' => Decreasing'
    BY <1>7, <2>2 DEF BoundHeeded, Decreasing
  <2>8. Reading'
    BY <1>1, <2>2, <2>3, <2>6, <2>7 DEF Reading
  <2> QED
    BY <2>2, <2>5, <2>8 DEF Between, Bogus
<1>10. CASE RejectPlan
  <2>. USE DEF processVars, process, manager
  <2>1. counter = known + 1 /\ known + 1 <= m
    BY <1>6, <1>10 DEF RejectPlan, PlanFileExists
  <2>2. /\ stage' = "bogus plan"
        /\ UNCHANGED <<files, planCosts, portfolio, realCosts>>
    BY <1>10 DEF RejectPlan
  <2>3. files[counter] # Incomplete /\ ~ PlanImproves
    <3>1. ~ HadIncompletePlan
      BY <1>1, <2>1 DEF HadIncompletePlan
    <3> QED
      BY <1>10, <3>1 DEF RejectPlan
  <2>4. known # 0 /\ ~ (files[known + 1] < planCosts[known])
    BY <1>1, <2>1, <2>3 DEF PlanImproves
  <2>5. ~ Decreasing
    <3>1. known \in DOMAIN files /\ known + 1 \in DOMAIN files /\ known < known + 1
      BY <1>1, <1>3, <2>1, <2>4
    <3>2. files[known] = planCosts[known] /\ files[known] \in Nat /\ files[known + 1] \in Nat
      BY <1>1, <1>3, <1>5, <2>1, <2>3, <2>4
    <3> QED
      BY <2>4, <3>1, <3>2 DEF Decreasing
  <2>6. PlansAgree'
    BY <2>2 DEF PlansAgree
  <2>7. 1 .. known \subseteq DOMAIN files
    BY <1>1, <1>3
  <2> QED
    BY <1>7, <2>2, <2>5, <2>6, <2>7 DEF Reading, Between, Bogus, BoundHeeded
<1>11. CASE AllPlansRead
  <2>. USE DEF processVars, process, manager
  <2>1. m = known
    BY <1>1, <1>2, <1>3, <1>11 DEF AllPlansRead
  <2>2. /\ stage' = "yield"
        /\ UNCHANGED <<files, planCosts, code>>
    BY <1>11 DEF AllPlansRead
  <2>3. code = "PLAN_FOUND" => planCosts # << >>
    BY <1>1, <1>3, <2>1 DEF Reading
  <2>4. PlansAgree'
    BY <2>2 DEF PlansAgree
  <2> QED
    BY <1>3, <2>1, <2>2, <2>3, <2>4 DEF Reading, Between, Bogus
<1> QED
    BY <1>8, <1>9, <1>10, <1>11 DEF ReadPlans

\* The invariant of the files holds before the driver starts.
LEMMA FilesInitial == Init => FilesInv
<1> SUFFICES ASSUME Init PROVE FilesInv
    OBVIOUS
<1>1. stage = "start" /\ planCosts = << >> /\ files \in LeftOver /\ exitCodes = {}
    BY DEF Init
<1> QED
    BY <1>1 DEF FilesInv, Started, Running, Reading, Between, Bogus

\* Nothing that the invariant is about changes, but for the stage.
LEMMA FilesStay ==
    ASSUME TypeInv, FilesInv, Satisficing, stage # "start", portfolio' = portfolio,
           UNCHANGED <<files, planCosts>>,
           stage \in {"call", "yield", "report", "done", "type error"},
           stage' \in {"call", "report", "done", "type error"},
           exitCodes' = exitCodes \/ (stage = "yield" /\ exitCodes' = exitCodes \cup {code})
    PROVE  FilesInv'
<1>1. PlansAgree' /\ Satisficing'
    BY DEF FilesInv, Started, PlansAgree, Satisficing
<1>2. DOMAIN files' = 1 .. Len(planCosts')
    BY DEF FilesInv, Between
<1>3. "PLAN_FOUND" \in exitCodes' => planCosts' # << >>
    BY DEF FilesInv, Between
<1> QED
    BY <1>1, <1>2, <1>3 DEF FilesInv, Started, Running, Reading, Between, Bogus

\* The driver does not start again.
LEMMA StartLeft == [Next]_vars /\ ~ UNCHANGED vars => stage' # "start"
<1> SUFFICES ASSUME [Next]_vars, ~ UNCHANGED vars
             PROVE  stage' # "start"
    OBVIOUS
<1>1. CASE Component \/ Tick \/ ReadPlans
    BY <1>1
    DEF Component, Tick, ReadPlans, DeleteIncomplete, AcceptPlan, RejectPlan, AllPlansRead,
        PlanFileExists, control
<1>2. CASE Exits \/ Fails \/ Killed
    BY <1>2 DEF Exits, Fails, Killed, Ends
<1>3. CASE PortfolioOver \/ Rerun \/ RunFinalConfig \/ NextConfig
    BY <1>3 DEF PortfolioOver, Rerun, RunFinalConfig, NextConfig
<1>4. CASE DeleteExistingPlans \/ NoTimeLeft \/ Start \/ RoundOver \/ NextRound \/ Report
    BY <1>4 DEF DeleteExistingPlans, NoTimeLeft, Start, RoundOver, NextRound, Report
<1> QED
    BY <1>1, <1>2, <1>3, <1>4 DEF Next, Driver, Ended

\* Every step keeps the invariant of the files.
LEMMA FilesStep == TypeInv /\ FilesInv /\ [Next]_vars => FilesInv'
<1> SUFFICES ASSUME TypeInv, FilesInv, [Next]_vars
             PROVE  FilesInv'
    OBVIOUS
<1>. USE DEF processVars, process, clock, manager
<1>1. portfolio' = portfolio /\ (Satisficing' <=> Satisficing)
    BY PortfolioKept DEF Satisficing
<1>2. CASE UNCHANGED vars
  <2>. USE <1>2 DEF vars, control
  <2>1. (PlansAgree' <=> PlansAgree) /\ (BoundHeeded' <=> BoundHeeded)
    BY DEF PlansAgree, BoundHeeded
  <2>2. Started'
    BY <1>1, <2>1 DEF FilesInv, Started
  <2>3. Satisficing => Between' /\ Bogus'
    BY <2>1 DEF FilesInv, Between, Bogus
  <2>4. Satisficing => Reading' /\ Running'
    BY DEF FilesInv, Reading, Running, PlanFiles, BoundHeeded, Decreasing, FilesOfComponent,
           BoundOfComponent
  <2> QED
    BY <1>1, <2>2, <2>3, <2>4 DEF FilesInv
<1>3. CASE ~ Satisficing /\ ~ UNCHANGED vars
    BY <1>1, <1>3, StartLeft DEF FilesInv, Started
<1>4. CASE Satisficing /\ DeleteExistingPlans
  <2>1. /\ files' = [n \in DOMAIN files \ ExistingPlans |-> files[n]]
        /\ stage = "start" /\ stage' = "call" /\ UNCHANGED <<planCosts, exitCodes>>
    BY <1>4 DEF DeleteExistingPlans
  <2>2. planCosts = << >> /\ files \in LeftOver /\ exitCodes = {}
    BY <2>1 DEF FilesInv, Started
  <2>3. DOMAIN files \subseteq ExistingPlans
    BY <2>2, PortfolioAssumption DEF ExistingPlans
  <2>4. DOMAIN files' = {}
    BY <2>1, <2>3
  <2>5. Len(planCosts') = 0
    BY <2>1, <2>2
  <2>6. PlansAgree' /\ DOMAIN files' = 1 .. Len(planCosts')
    BY <2>4, <2>5 DEF PlansAgree
  <2> QED
    BY <2>1, <2>2, <2>6 DEF FilesInv, Started, Running, Reading, Between, Bogus
<1>5. CASE Satisficing /\ Start
  <2>1. /\ stage = "call" /\ stage' = "running" /\ UNCHANGED <<planCosts, exitCodes>>
    BY <1>5 DEF Start
  <2>2. PlansAgree' /\ FilesOfComponent' /\ (BoundHeeded' => BoundOfComponent')
    BY <1>5, ComponentStarts
  <2> QED
    BY <1>5, <2>1, <2>2 DEF FilesInv, Started, Running, Reading, Between, Bogus
<1>6. CASE Satisficing /\ (Component \/ Tick)
  <2>1. /\ stage = "running" /\ stage' = "running" /\ UNCHANGED <<planCosts, exitCodes>>
    BY <1>6 DEF Component, Tick, control
  <2>2. ComponentInv
    BY <1>6, <2>1 DEF FilesInv, Started, Running, ComponentInv, TypeInv
  <2>3. PlansAgree' /\ FilesOfComponent' /\ (BoundHeeded' => BoundOfComponent')
    <3>1. CASE Component
      BY <2>2, <3>1, ComponentStep DEF Component
    <3>2. CASE Tick
      BY <2>2, <3>2
      DEF Tick, control, ComponentInv, PlansAgree, FilesOfComponent, PlanFiles, BoundHeeded,
          BoundOfComponent, Decreasing
    <3> QED
      BY <1>6, <3>1, <3>2
  <2> QED
    BY <1>6, <2>1, <2>3 DEF FilesInv, Started, Running, Reading, Between, Bogus
<1>7. CASE Satisficing /\ (Exits \/ Fails \/ Killed)
  <2>1. PICK c : /\ stage = "running" /\ Ends(c)
                 /\ c = "PLAN_FOUND" => found /\ pc = "exit"
    <3>1. CASE Exits
      BY <3>1 DEF Exits, ExitCode
    <3>2. CASE Fails
      BY <3>2, PortfolioAssumption DEF Fails
    <3>3. CASE Killed
      BY <3>3 DEF Killed
    <3> QED
      BY <1>7, <3>1, <3>2, <3>3
  <2>2. stage' = "read" /\ PlansAgree' /\ Reading'
    BY <1>7, <2>1, ComponentEnds
  <2>3. UNCHANGED <<planCosts, exitCodes>>
    BY <2>1 DEF Ends
  <2> QED
    BY <1>7, <2>2, <2>3 DEF FilesInv, Started, Running, Between, Bogus
<1>8. CASE Satisficing /\ ReadPlans
  <2>1. /\ stage = "read" /\ stage' \notin {"start", "running"} /\ exitCodes' = exitCodes
    BY <1>8
    DEF ReadPlans, DeleteIncomplete, AcceptPlan, RejectPlan, AllPlansRead, PlanFileExists, control
  <2>2. TypeOK /\ PlansAgree /\ Reading
    BY <1>8, <2>1 DEF FilesInv, Started, TypeInv
  <2>3. PlansAgree' /\ Reading' /\ Between' /\ Bogus'
    BY <1>8, <2>1, <2>2, PlansRead
  <2>4. planCosts # << >> => planCosts' # << >>
    <3>1. planCosts' = planCosts \/ planCosts' = Append(planCosts, files[counter])
      BY <1>8
      DEF ReadPlans, DeleteIncomplete, AcceptPlan, RejectPlan, AllPlansRead
    <3>2. planCosts \in Seq(Nat)
      BY <2>2 DEF TypeOK
    <3>3. Len(Append(planCosts, files[counter])) = Len(planCosts) + 1
      BY <3>2
    <3> QED
      BY <3>1, <3>2, <3>3
  <2> QED
    BY <1>8, <2>1, <2>3, <2>4 DEF FilesInv, Started, Running
<1>9. CASE Satisficing /\ (PortfolioOver \/ Rerun \/ RunFinalConfig \/ NextConfig)
    BY <1>1, <1>9, FilesStay DEF PortfolioOver, Rerun, RunFinalConfig, NextConfig, Yields
<1>10. CASE Satisficing /\ (NoTimeLeft \/ RoundOver \/ NextRound \/ Report)
    BY <1>1, <1>10, FilesStay DEF NoTimeLeft, RoundOver, NextRound, Report
<1> QED
    BY <1>2, <1>3, <1>4, <1>5, <1>6, <1>7, <1>8, <1>9, <1>10 DEF Next, Driver, Ended

\* The invariant of the files of a satisficing portfolio.
LEMMA FilesInvariant == Spec => [](TypeInv /\ FilesInv)
    BY TypeInvariant, FilesInitial, FilesStep, PTL DEF Spec

\* Wherever components are killed, the plan manager knows the plans on disk, each cheaper
\* than the one before, when the next one starts.
THEOREM PortfolioPlansKnown == Spec => []PlansKnown
<1>1. TypeInv /\ FilesInv => PlansKnown
  <2> SUFFICES ASSUME TypeInv, FilesInv, Satisficing, stage # "start"
               PROVE  /\ 1 .. Len(planCosts) \subseteq DOMAIN files
                      /\ PlansAgree
                      /\ stage \in {"call", "yield", "report", "done", "type error"} =>
                            DOMAIN files = 1 .. Len(planCosts)
    BY DEF PlansKnown, PlansAgree, Satisficing
  <2>1. stage \in Stages /\ Len(planCosts) \in Nat /\ numPlans \in Nat
    BY DEF TypeInv, TypeOK
  <2>2. PlansAgree /\ Running /\ Reading /\ Between /\ Bogus
    BY DEF FilesInv, Started
  <2>3. CASE stage = "running"
    BY <2>1, <2>2, <2>3 DEF Running, FilesOfComponent, PlanFiles
  <2>4. CASE stage = "read"
    BY <2>1, <2>2, <2>4 DEF Reading, PlanFiles
  <2>5. CASE stage = "bogus plan"
    BY <2>2, <2>5 DEF Bogus
  <2>6. CASE stage \in {"call", "yield", "report", "done", "type error"}
    BY <2>2, <2>6 DEF Between
  <2> QED
    BY <2>1, <2>2, <2>3, <2>4, <2>5, <2>6 DEF Stages, EndStages
<1> QED
    BY <1>1, FilesInvariant, PTL

\* No component, and not the driver, destroys a plan that an earlier one has completed.
THEOREM PortfolioPlansKept == Spec => PlansKept
<1>. DEFINE Kept == ~ portfolio.optimal /\ stage # "start" =>
                       \A n \in DOMAIN files : files[n] # Incomplete =>
                          n \in DOMAIN files' /\ files'[n] = files[n]
<1>1. TypeInv /\ FilesInv /\ [Next]_vars => [Kept]_vars
  <2> SUFFICES ASSUME TypeInv, FilesInv, [Next]_vars, Satisficing, stage # "start",
                      NEW n \in DOMAIN files, files[n] # Incomplete
               PROVE  n \in DOMAIN files' /\ files'[n] = files[n]
    BY DEF Satisficing
  <2>1. CASE UNCHANGED files
    BY <2>1
  <2>2. CASE Component
    <3>1. ComponentInv
      BY <2>2 DEF FilesInv, Started, Running, ComponentInv, TypeInv, Component
    <3> QED
      BY <2>2, <3>1, ComponentStep DEF Component
  <2>3. CASE DeleteIncomplete
    <3>1. files[counter] = Incomplete /\ files' = [k \in DOMAIN files \ {counter} |-> files[k]]
      BY <2>3 DEF DeleteIncomplete, FilesWithoutIncomplete
    <3> QED
      BY <3>1
  <2>4. CASE DeleteExistingPlans
    BY <2>4 DEF DeleteExistingPlans
  <2>5. CASE Exits \/ Fails \/ Killed
    BY <2>1, <2>5 DEF Exits, Fails, Killed, Ends, processVars
  <2>6. CASE PortfolioOver \/ Rerun \/ RunFinalConfig \/ NextConfig
    BY <2>1, <2>6 DEF PortfolioOver, Rerun, RunFinalConfig, NextConfig, Yields, processVars
  <2>7. CASE \/ NoTimeLeft \/ Start \/ RoundOver \/ NextRound \/ Report
             \/ Tick \/ AcceptPlan \/ RejectPlan \/ AllPlansRead \/ UNCHANGED vars
    BY <2>1, <2>7
    DEF NoTimeLeft, Start, RoundOver, NextRound, Report, Tick, AcceptPlan, RejectPlan,
        AllPlansRead, vars, processVars
  <2> QED
    BY <2>2, <2>3, <2>4, <2>5, <2>6, <2>7 DEF Next, Driver, ReadPlans, Ended
<1> QED
    BY <1>1, FilesInvariant, PTL DEF Spec, PlansKept

-----------------------------------------------------------------------------
(* The exit code.                                                          *)

\* What an optimal portfolio's component has found, it has saved when it exits.
LEMMA WorkSaves == TypeOK /\ FoundSaved /\ Work => FoundSaved'
<1> SUFFICES ASSUME TypeOK, FoundSaved, Work
             PROVE  FoundSaved'
    OBVIOUS
<1>1. CASE Search
    BY <1>1 DEF Search, FoundSaved, HasPlan
<1>2. CASE Iterate
    BY <1>2 DEF Iterate, NoMorePhases, PhaseFinds, PhaseFails, StepReturns, FoundSaved, HasPlan
<1>3. CASE OpenPlan
  <2>1. PlanFile' = PlanFile /\ PlanFile \in DOMAIN files'
    BY <1>3 DEF OpenPlan, PlanFile
  <2> QED
    BY <1>3, <2>1 DEF OpenPlan, FoundSaved
<1>4. CASE WritePlan
  <2>1. PlanFile \in DOMAIN files /\ planCost \in Nat
    BY <1>4 DEF WritePlan, FoundSaved, TypeOK
  <2>2. HasPlan'
    BY <1>4, <2>1 DEF WritePlan, HasPlan
  <2>3. pc' # "write"
    BY <1>4 DEF WritePlan
  <2> QED
    BY <2>2, <2>3 DEF FoundSaved
<1> QED
    BY <1>1, <1>2, <1>3, <1>4 DEF Work

\* Every step keeps what success says of an optimal portfolio.
LEMMA SavedStep == TypeInv /\ SavedInv /\ [Next]_vars => SavedInv'
<1> SUFFICES ASSUME TypeInv, SavedInv, [Next]_vars, portfolio.optimal
             PROVE  SavedInv'
    BY PortfolioKept DEF SavedInv
<1>. USE DEF processVars, process, clock, manager
<1>1. CASE UNCHANGED vars
    BY <1>1 DEF vars, control, SavedInv, FoundSaved, PlanFile, HasPlan
<1>2. CASE DeleteExistingPlans
    BY <1>2 DEF DeleteExistingPlans, SavedInv
<1>3. CASE Start
    BY <1>3 DEF Start, Starts, SavedInv, FoundSaved
<1>4. CASE Component
    BY <1>4, WorkSaves DEF Component, control, SavedInv, TypeInv
<1>5. CASE Tick
    BY <1>5 DEF Tick, control, SavedInv, FoundSaved, PlanFile, HasPlan
<1>6. ASSUME NEW c, stage = "running", Ends(c), c = "PLAN_FOUND" => found /\ pc = "exit"
      PROVE  SavedInv'
    BY <1>6 DEF Ends, SavedInv, FoundSaved, HasPlan
<1>7. CASE Exits
    BY <1>6, <1>7 DEF Exits, ExitCode
<1>8. CASE Fails
    BY <1>6, <1>8, PortfolioAssumption DEF Fails
<1>9. CASE Killed
    BY <1>6, <1>9 DEF Killed
<1>10. CASE ReadPlans
    BY <1>10
    DEF ReadPlans, DeleteIncomplete, AcceptPlan, RejectPlan, AllPlansRead, PlanFileExists, SavedInv
<1>11. CASE PortfolioOver
    BY <1>11 DEF PortfolioOver, Yields, SavedInv, HasPlan
<1>12. CASE Rerun \/ RunFinalConfig
    BY <1>12 DEF Rerun, RunFinalConfig, SwitchCosts, BuildFinal
<1>13. CASE NextConfig
    BY <1>13 DEF NextConfig, Yields, Last, Successful, SavedInv, HasPlan
<1>14. CASE NoTimeLeft \/ RoundOver \/ NextRound \/ Report
    BY <1>14 DEF NoTimeLeft, RoundOver, NextRound, Report, SavedInv, HasPlan
<1> QED
    BY <1>1, <1>2, <1>3, <1>4, <1>5, <1>7, <1>8, <1>9, <1>10, <1>11, <1>12, <1>13, <1>14
    DEF Next, Driver, Ended

\* Success of an optimal portfolio.
LEMMA SavedInvariant == Spec => []SavedInv
<1>1. Init => SavedInv
    BY DEF Init, SavedInv
<1> QED
    BY <1>1, TypeInvariant, SavedStep, PTL DEF Spec

\* "plan quality has not improved" is raised only when a portfolio goes on with unit costs,
\* in a task whose initial state is no goal and with engines that heed their bound.
THEOREM PortfolioBogusOnlyWithUnitCosts == Spec => []BogusOnlyWithUnitCosts
<1>1. SavedInv /\ FilesInv => BogusOnlyWithUnitCosts
  <2> SUFFICES ASSUME SavedInv, FilesInv, stage = "bogus plan", ~ GoalAtStart,
                      \A args \in PortfolioArgs(portfolio) : args.heedsBound
               PROVE  portfolio.generalCost /\ ~ realCosts
    BY DEF BogusOnlyWithUnitCosts
  <2>1. CASE Satisficing
    BY <2>1 DEF FilesInv, Bogus, BoundHeeded
  <2>2. CASE ~ Satisficing
    BY <2>2 DEF SavedInv, Satisficing
  <2> QED
    BY <2>1, <2>2
<1> QED
    BY <1>1, FilesInvariant, SavedInvariant, PTL


\* The exit code for success is that of a component.
LEMMA SuccessOfComponent == PortfolioExitCode = "PLAN_FOUND" => "PLAN_FOUND" \in exitCodes
<1>. DEFINE codes      == {IF c = "SIGXCPU" THEN "TIMEOUT" ELSE c : c \in exitCodes}
            unexpected == codes \ Expected
<1>1. SUFFICES ASSUME "PLAN_FOUND" \notin exitCodes
               PROVE  PortfolioExitCode # "PLAN_FOUND"
    OBVIOUS
<1>2. "PLAN_FOUND" \notin codes
    BY <1>1
<1>3. (\E c \in unexpected : TRUE) => (CHOOSE c \in unexpected : TRUE) # "PLAN_FOUND"
    BY <1>2
<1>4. (\E c \in codes : TRUE) => (CHOOSE c \in codes : TRUE) # "PLAN_FOUND"
    BY <1>2
<1>5. PortfolioExitCode =
         IF unexpected # {}
         THEN IF \E c \in unexpected : unexpected = {c}
              THEN CHOOSE c \in unexpected : TRUE
              ELSE "CRITICAL_ERROR"
         ELSE IF "PLAN_FOUND" \in codes THEN "PLAN_FOUND"
         ELSE IF "UNSOLVABLE" \in codes THEN "UNSOLVABLE"
         ELSE IF "UNSOLVED_INCOMPLETE" \in codes THEN "UNSOLVED_INCOMPLETE"
         ELSE IF codes = {"OUT_OF_MEMORY", "TIMEOUT"} THEN "TIMEOUT_AND_MEMORY"
         ELSE IF codes = {} THEN "CRITICAL_ERROR"
         ELSE CHOOSE c \in codes : TRUE
    BY DEF PortfolioExitCode
<1>. HIDE DEF codes, unexpected
<1> QED
    BY <1>2, <1>3, <1>4, <1>5

\* The exit code for success is reported only if a component has had it.
LEMMA ReportStep == ReportInv /\ [Next]_vars => ReportInv'
<1> SUFFICES ASSUME ReportInv, [Next]_vars
             PROVE  ReportInv'
    OBVIOUS
<1>1. CASE UNCHANGED vars
    BY <1>1 DEF vars, control, ReportInv
<1>2. CASE Report
    BY <1>2, SuccessOfComponent DEF Report, ReportInv
<1>3. CASE RejectPlan \/ NextRound
    BY <1>3 DEF RejectPlan, NextRound, ReportInv
<1>4. CASE Component \/ Tick \/ DeleteIncomplete \/ AcceptPlan \/ AllPlansRead
    BY <1>4
    DEF Component, Tick, DeleteIncomplete, AcceptPlan, AllPlansRead, PlanFileExists, control,
        ReportInv
<1>5. CASE Exits \/ Fails \/ Killed
    BY <1>5 DEF Exits, Fails, Killed, Ends, ReportInv
<1>6. CASE PortfolioOver \/ Rerun \/ RunFinalConfig \/ NextConfig
    BY <1>6 DEF PortfolioOver, Rerun, RunFinalConfig, NextConfig, Yields, ReportInv
<1>7. CASE DeleteExistingPlans \/ NoTimeLeft \/ Start \/ RoundOver
    BY <1>7 DEF DeleteExistingPlans, NoTimeLeft, Start, RoundOver, ReportInv
<1> QED
    BY <1>1, <1>2, <1>3, <1>4, <1>5, <1>6, <1>7 DEF Next, Driver, ReadPlans, Ended

\* When the driver reports success there is a plan that has all of its lines, whatever the
\* other components returned.
THEOREM PortfolioSuccessIsTrue == Spec => []SuccessIsTrue
<1>1. Init => ReportInv
    BY DEF Init, ReportInv
<1>2. TypeInv /\ FilesInv /\ SavedInv /\ ReportInv => SuccessIsTrue
  <2> SUFFICES ASSUME TypeInv, FilesInv, SavedInv, ReportInv, exitCode = "PLAN_FOUND"
               PROVE  IF portfolio.optimal
                      THEN \E n \in DOMAIN files : files[n] # Incomplete
                      ELSE planCosts # << >>
    BY DEF SuccessIsTrue
  <2>1. "PLAN_FOUND" \in exitCodes
    BY DEF ReportInv
  <2>2. portfolio.optimal => HasPlan
    BY <2>1 DEF SavedInv
  <2>3. ~ portfolio.optimal => planCosts # << >>
    BY <2>1 DEF FilesInv, Satisficing
  <2> QED
    BY <2>2, <2>3, ProcessAssumption DEF HasPlan
<1> QED
    BY <1>1, <1>2, FilesInvariant, SavedInvariant, ReportStep, PTL DEF Spec

-----------------------------------------------------------------------------
(* A component that runs on its own.                                       *)

\* The plan files of an iterated search or of an anytime portfolio are numbered.
Numbered == command.iterated \/ command.anytime

\* The files that are complete.
CompleteFiles ==
    IF Numbered THEN command.previousPlans + 1 .. numPlans
    ELSE IF numPlans = command.previousPlans THEN {} ELSE {0}

ProcessTyped ==
    /\ command \in CommandLines
    /\ pc \in {"search", "return", "save", "write", "exit"}
    /\ bestBound \in Nat
    /\ found \in BOOLEAN
    /\ planCost \in Nat
    /\ numPlans \in Nat
    /\ command.previousPlans <= numPlans

ProcessFiles ==
    /\ DOMAIN files = CompleteFiles \cup (IF pc = "write" THEN {PlanFile} ELSE {})
    /\ \A n \in CompleteFiles : files[n] \in Nat
    /\ pc = "write" => files[PlanFile] = Incomplete
    /\ \A m, n \in CompleteFiles : m < n => files[n] < files[m]

\* An iterated search saves a plan only below the cost of the one before.
IteratedInv ==
    command.iterated =>
       /\ found <=> command.previousPlans < numPlans
       /\ found => files[numPlans] = bestBound
       /\ pc \in {"save", "write"} => planCost < bestBound

\* A single engine saves one plan.
SingleInv ==
    ~ command.iterated =>
       /\ numPlans <= command.previousPlans + 1
       /\ pc = "search" => numPlans = command.previousPlans /\ ~ found
       /\ pc \in {"save", "write"} => numPlans = command.previousPlans /\ found
       /\ pc = "exit" => (found <=> command.previousPlans < numPlans)
       /\ pc # "return"

ProcessInv == ProcessTyped /\ ProcessFiles /\ IteratedInv /\ SingleInv

\* A component has no files before it saves a plan.
LEMMA ProcessInitial == ProcessInit => ProcessInv
<1> SUFFICES ASSUME ProcessInit PROVE ProcessInv
    OBVIOUS
<1>1. /\ command \in CommandLines /\ pc = "search" /\ bestBound = command.bound
      /\ found = FALSE /\ planCost = 0 /\ numPlans = command.previousPlans /\ DOMAIN files = {}
    BY ProcessAssumption DEF ProcessInit
<1>2. command.bound \in Nat /\ command.previousPlans \in Nat
    BY <1>1 DEF CommandLines
<1>3. CompleteFiles = {}
    BY <1>1, <1>2 DEF CompleteFiles
<1>4. ProcessTyped
  <2>1. bestBound \in Nat /\ numPlans \in Nat /\ command.previousPlans <= numPlans
    BY <1>1, <1>2
  <2>2. found \in BOOLEAN /\ planCost \in Nat
    BY <1>1
  <2> QED
    BY <1>1, <2>1, <2>2 DEF ProcessTyped
<1>5. ProcessFiles
    BY <1>1, <1>3 DEF ProcessFiles
<1>6. ~ (command.previousPlans < numPlans) /\ numPlans <= command.previousPlans + 1
    BY <1>1, <1>2
<1>7. IteratedInv /\ SingleInv
    BY <1>1, <1>6 DEF IteratedInv, SingleInv
<1> QED
    BY <1>4, <1>5, <1>7 DEF ProcessInv

\* Nothing happens to the files while an engine searches.
LEMMA SearchingKeeps ==
    ASSUME ProcessInv, UNCHANGED <<command, bestBound, numPlans, files>>,
           pc \notin {"save", "write"}, pc' \in {"search", "return", "save", "exit"},
           planCost' \in Nat, found' \in BOOLEAN,
           command.iterated => found' = found /\ (pc' = "save" => planCost' < bestBound),
           ~ command.iterated =>
              pc = "search" /\ pc' \in {"save", "exit"} /\ (found' <=> pc' = "save")
    PROVE  ProcessInv'
<1> USE DEF ProcessInv
<1>1. ProcessTyped'
    BY DEF ProcessTyped
<1>2. CompleteFiles' = CompleteFiles
    BY DEF CompleteFiles, Numbered
<1>3. ProcessFiles'
    BY <1>2 DEF ProcessFiles
<1>4. IteratedInv'
    BY DEF IteratedInv
<1>5. SingleInv'
  <2>1. SUFFICES ASSUME ~ command'.iterated PROVE SingleInv'
    BY Zenon DEF SingleInv
  <2>2. numPlans = command.previousPlans /\ command.previousPlans \in Nat
    BY <2>1 DEF SingleInv, ProcessTyped, CommandLines
  <2>3. numPlans <= command.previousPlans + 1 /\ ~ (command.previousPlans < numPlans)
    BY <2>2
  <2>4. pc' \in {"save", "exit"} /\ (found' <=> pc' = "save")
    BY <2>1
  <2>5. pc' = "exit" => ~ found'
    BY <2>4
  <2>6. pc' = "save" => found'
    BY <2>4
  <2> QED
    BY <2>2, <2>3, <2>4, <2>5, <2>6 DEF SingleInv
<1> QED
    BY <1>1, <1>3, <1>4, <1>5

\* The number of the next file is not that of a complete one.
LEMMA NextFile ==
    ASSUME ProcessInv, pc \in {"save", "write"}
    PROVE  /\ command.previousPlans \in Nat
           /\ PlanFile \in Nat /\ PlanFile \notin CompleteFiles
           /\ Numbered => PlanFile = numPlans + 1
           /\ ~ Numbered => CompleteFiles = {}
<1>1. command.previousPlans \in Nat /\ numPlans \in Nat
    BY DEF ProcessInv, ProcessTyped, CommandLines
<1> QED
    BY <1>1 DEF PlanFile, CompleteFiles, Numbered, ProcessInv, SingleInv

\* save_plan opens a file.
LEMMA OpenPlanKeeps == ProcessInv /\ OpenPlan => ProcessInv'
<1> SUFFICES ASSUME ProcessInv, OpenPlan PROVE ProcessInv'
    OBVIOUS
<1> USE DEF ProcessInv
<1>1. /\ pc = "save" /\ pc' = "write"
      /\ UNCHANGED <<command, phase, bestBound, lastFound, found, planCost, numPlans>>
      /\ files' = [n \in DOMAIN files \cup {PlanFile} |->
                      IF n = PlanFile THEN Incomplete ELSE files[n]]
    BY DEF OpenPlan
<1>2. PlanFile \notin CompleteFiles /\ DOMAIN files = CompleteFiles
    BY <1>1, NextFile DEF ProcessFiles
<1>3. CompleteFiles' = CompleteFiles /\ PlanFile' = PlanFile
    BY <1>1 DEF CompleteFiles, Numbered, PlanFile
<1>4. /\ DOMAIN files' = CompleteFiles \cup {PlanFile}
      /\ files'[PlanFile] = Incomplete
      /\ \A n \in CompleteFiles : files'[n] = files[n]
    BY <1>1, <1>2
<1>5. ProcessFiles'
    BY <1>1, <1>3, <1>4 DEF ProcessFiles
<1>6. ProcessTyped'
    BY <1>1 DEF ProcessTyped
<1>7. found /\ command.iterated => numPlans \in CompleteFiles
    BY DEF IteratedInv, CompleteFiles, Numbered, ProcessTyped, CommandLines
<1>8. IteratedInv'
    BY <1>1, <1>4, <1>7 DEF IteratedInv
<1>9. SingleInv'
    BY <1>1 DEF SingleInv
<1> QED
    BY <1>5, <1>6, <1>8, <1>9

\* save_plan writes the last line of the file.
LEMMA WritePlanKeeps == ProcessInv /\ WritePlan => ProcessInv'
<1> SUFFICES ASSUME ProcessInv, WritePlan PROVE ProcessInv'
    OBVIOUS
<1> USE DEF ProcessInv
<1>1. /\ pc = "write" /\ pc' = IF command.iterated THEN "return" ELSE "exit"
      /\ files' = [files EXCEPT ![PlanFile] = planCost]
      /\ numPlans' = numPlans + 1 /\ bestBound' = BoundAfter /\ found' = TRUE
      /\ UNCHANGED <<command, planCost>>
    BY DEF WritePlan
<1>2. /\ command.previousPlans \in Nat /\ numPlans \in Nat /\ planCost \in Nat
      /\ command.previousPlans <= numPlans
    BY DEF ProcessTyped, CommandLines
<1>3. /\ PlanFile \in Nat /\ PlanFile \notin CompleteFiles
      /\ Numbered => PlanFile = numPlans + 1
      /\ ~ Numbered => CompleteFiles = {} /\ PlanFile = 0
    BY <1>1, NextFile DEF PlanFile, Numbered
<1>4. CompleteFiles' = CompleteFiles \cup {PlanFile}
  <2>1. CASE Numbered
    BY <1>1, <1>2, <1>3, <2>1 DEF CompleteFiles, Numbered
  <2>2. CASE ~ Numbered
    BY <1>1, <1>2, <1>3, <2>2 DEF CompleteFiles, Numbered
  <2> QED
    BY <2>1, <2>2
<1>5. /\ DOMAIN files' = CompleteFiles \cup {PlanFile}
      /\ files'[PlanFile] = planCost
      /\ \A n \in CompleteFiles : files'[n] = files[n] /\ files[n] \in Nat
    BY <1>1, <1>3 DEF ProcessFiles
<1>6. \A n \in CompleteFiles : n < PlanFile /\ planCost < files[n]
  <2>1. SUFFICES ASSUME NEW n \in CompleteFiles PROVE n < PlanFile /\ planCost < files[n]
    OBVIOUS
  <2>2. Numbered /\ n \in command.previousPlans + 1 .. numPlans
    BY <1>3 DEF CompleteFiles
  <2>3. command.iterated
    BY <1>1, <1>2, <2>2 DEF SingleInv
  <2>4. numPlans \in CompleteFiles /\ files[numPlans] = bestBound /\ planCost < bestBound
    BY <1>1, <1>2, <2>2, <2>3 DEF IteratedInv, CompleteFiles
  <2>5. n < numPlans => files[numPlans] < files[n]
    BY <2>4 DEF ProcessFiles
  <2> QED
    BY <1>2, <1>3, <1>5, <2>2, <2>4, <2>5
<1>7. ProcessFiles'
  <2>1. DOMAIN files' = CompleteFiles'
    BY <1>4, <1>5
  <2>2. \A n \in CompleteFiles' : files'[n] \in Nat
    BY <1>2, <1>4, <1>5
  <2>3. ASSUME NEW m \in CompleteFiles', NEW n \in CompleteFiles', m < n
        PROVE  files'[n] < files'[m]
    <3>1. \A i \in CompleteFiles : i \in Int /\ ~ (PlanFile < i)
      BY <1>2, <1>3, <1>6 DEF CompleteFiles
    <3>2. m \in CompleteFiles /\ (n \in CompleteFiles \/ n = PlanFile)
      BY <1>3, <1>4, <2>3, <3>1
    <3>3. CASE n \in CompleteFiles
      BY <1>5, <2>3, <3>2, <3>3 DEF ProcessFiles
    <3>4. CASE n = PlanFile
      BY <1>5, <1>6, <3>2, <3>4
    <3> QED
      BY <3>2, <3>3, <3>4
  <2> QED
    BY <1>1, <2>1, <2>2, <2>3 DEF ProcessFiles
<1>8. ProcessTyped'
    BY <1>1, <1>2 DEF ProcessTyped, BoundAfter
<1>9. IteratedInv'
  <2>1. SUFFICES ASSUME command.iterated
                 PROVE  files'[numPlans'] = bestBound' /\ command.previousPlans < numPlans'
    BY <1>1 DEF IteratedInv
  <2>2. PlanFile = numPlans' /\ bestBound' = planCost
    BY <1>1, <1>3, <2>1 DEF Numbered, BoundAfter
  <2> QED
    BY <1>1, <1>2, <1>5, <2>2
<1>10. SingleInv'
    BY <1>1, <1>2 DEF SingleInv
<1> QED
    BY <1>7, <1>8, <1>9, <1>10

\* What a component on its own leaves behind, whatever its engines find: its plans are
\* numbered without a gap and get cheaper, and its exit code and bound agree with them.
THEOREM ComponentPlansSaved == ProcessSpec => []PlansSaved
<1>1. ProcessInv /\ [Work \/ Exited]_processVars => ProcessInv'
  <2> SUFFICES ASSUME ProcessInv, [Work \/ Exited]_processVars PROVE ProcessInv'
    OBVIOUS
  <2>1. /\ bestBound \in Nat /\ planCost \in Nat /\ command.bound \in Nat /\ found \in BOOLEAN
        /\ pc \in {"search", "return", "save", "write", "exit"}
    BY DEF ProcessInv, ProcessTyped, CommandLines
  <2>2. CASE Search
    <3>1. /\ UNCHANGED <<command, bestBound, numPlans, files>> /\ ~ command.iterated
          /\ pc = "search" /\ pc' \in {"save", "exit"}
      BY <2>2 DEF Search
    <3>2. ~ found
      BY <3>1 DEF ProcessInv, SingleInv
    <3>3. \/ planCost' \in Results(command.bound) /\ found' = TRUE /\ pc' = "save"
          \/ planCost' = planCost /\ found' = found /\ pc' = "exit"
      BY <2>2 DEF Search
    <3>4. planCost' \in Nat /\ found' \in BOOLEAN
      BY <2>1, <3>3, ResultsTyped
    <3>5. found' <=> pc' = "save"
      BY <3>2, <3>3
    <3> QED
      BY <3>1, <3>4, <3>5, SearchingKeeps
  <2>3. CASE PhaseFinds
    <3>1. PhaseBound \in Nat
      BY <2>1, ProcessAssumption DEF PhaseBound
    <3>2. planCost' \in Nat /\ (pc' = "save" => planCost' < bestBound)
      BY <2>1, <2>3, <3>1, ResultsTyped DEF PhaseFinds, Improves
    <3>3. /\ UNCHANGED <<command, bestBound, numPlans, files, found>> /\ command.iterated
          /\ pc = "search" /\ pc' \in {"save", "return"}
      BY <2>3 DEF PhaseFinds
    <3> QED
      BY <2>1, <3>2, <3>3, SearchingKeeps
  <2>4. CASE PhaseFails \/ NoMorePhases
    BY <2>1, <2>4, SearchingKeeps DEF PhaseFails, NoMorePhases
  <2>5. CASE StepReturns
    <3>1. command.iterated
      BY <2>5 DEF StepReturns, ProcessInv, SingleInv
    <3> QED
      BY <2>1, <2>5, <3>1, SearchingKeeps DEF StepReturns
  <2>6. CASE Exited \/ UNCHANGED processVars
    <3>1. UNCHANGED <<command, pc, bestBound, found, planCost, numPlans, files>>
      BY <2>6 DEF Exited, processVars, process
    <3> QED
      BY <3>1 DEF ProcessInv, ProcessTyped, ProcessFiles, IteratedInv, SingleInv,
                  CompleteFiles, Numbered, PlanFile
  <2> QED
    BY <2>2, <2>3, <2>4, <2>5, <2>6, OpenPlanKeeps, WritePlanKeeps DEF Work, Iterate
<1>2. ProcessInv => PlansSaved
  <2> SUFFICES ASSUME ProcessInv PROVE PlansSaved
    OBVIOUS
  <2>1. command.previousPlans \in Nat /\ numPlans \in Nat /\ command.previousPlans <= numPlans
    BY DEF ProcessInv, ProcessTyped, CommandLines
  <2>2. Saved = CompleteFiles
    <3>1. \A n \in CompleteFiles : n \in DOMAIN files /\ files[n] # Incomplete
      BY ProcessAssumption DEF ProcessInv, ProcessFiles
    <3>2. \A n \in DOMAIN files : n \in CompleteFiles \/ files[n] = Incomplete
      BY DEF ProcessInv, ProcessFiles
    <3> QED
      BY <3>1, <3>2 DEF Saved
  <2>3. Numbered => Saved = command.previousPlans + 1 .. numPlans
    BY <2>2 DEF CompleteFiles
  <2>4. CompleteFiles # {} <=> command.previousPlans < numPlans
    BY <2>1 DEF CompleteFiles
  <2>5. pc = "exit" => (found <=> command.previousPlans < numPlans)
    BY DEF ProcessInv, IteratedInv, SingleInv
  <2> QED
    BY <2>2, <2>3, <2>4, <2>5 DEF PlansSaved, Numbered, ProcessInv, ProcessFiles, IteratedInv
<1> QED
    BY <1>1, <1>2, ProcessInitial, PTL DEF ProcessSpec

=============================================================================
