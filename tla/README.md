# Symbolic search with axioms: a TLA+ model, its checks and its proofs

This directory specifies and verifies the core of the planner in `src/`: the
symbolic uniform-cost search of the engines `sfw` (forward), `sbw` (backward)
and `sbd` (bidirectional), the extraction of their plans, the axioms of the translator
and their symbolic and explicit evaluators, the explicit eager search with the
landmark count heuristic, iterated search, and the driver that runs portfolios of
search components.  The planner claims to be optimal; the model says what that
takes, TLC checks it on small tasks, and TLAPS proves it for every task where it
holds.

## The system

| part | state | operations | interacts with |
|---|---|---|---|
| uniform-cost search (`symbolic/uniform_cost_search.cc`, `open_list.cc`, `frontier.cc`) | open list `g -> BDDs`; the frontier with its g-value and the four buckets `Sfilter`, `Smerge`, `Szero`, `S`; `lastStepCost` | `init`, `stepImage`, `prepareBucket`, `checkCutOriginal`; `prepare`, `expand_zero`, `expand_cost`; `pop`, `insert` | reads the closed list of the opposite search, reports bounds and solutions to the controller |
| closed list (`closed_list.cc`) | closed states by g, layers of 0-cost steps, `hNotClosed`, `fNotClosed` | `insert`, `checkCut`, `setHNotClosed`, `setFNotClosed`, `extract_path` | shared by two searches |
| controller (`sym_controller.cc`, `sym_solution.cc`, `search_engines/symbolic_search.cc`) | lower bound, best solution | `new_solution`, `setLowerBound`, `step` | called back by the searches in the middle of a step |
| search loop (`search_engine.cc`) | status, plan | `search`, time limit | calls `step` |
| bidirectional search (`bidirectional_search.cc`) | the two searches | `selectBestDirection`, `stepImage`, `getF` | drives two uniform-cost searches |
| state space manager (`sym_state_space_manager.cc`) | transition relations by cost, mutex BDDs, minimum costs | images, `mergeBucket`, `filter_mutex` | called by frontier and search |
| estimation and limits (`sym_estimate.cc`, `sym_params_search.cc`) | estimates of time and nodes | `stepTaken`, `violated`, `getAllotedTime` | decides how much a step may use |
| symbolic axioms (`symbolic/sym_axiom/`) | layers of variables and axioms, `var_bdds`, axioms as relations or rules | stratification, worklist, fixpoints, transformation of literals | applied to every image, to the initial state and the goal; replace literals in transition relations |
| explicit axioms (`axioms.cc`) | queue, counters of unsatisfied conditions | `evaluate` | used by the state registry |
| transition relations (`transition_relation.cc`, `sym_variables.cc`, CUDD) | BDDs | construction from an operator, image, preimage, merge | ask the axiom evaluator for derived literals |
| translator's axioms (`translate/axiom_rules.py`) | none | `handle_axioms`: clusters, layers, axioms for negated literals | feeds both evaluators |
| eager search (`search_engines/eager_search.cc`, `search_space.cc`, `open_lists/`) | nodes with g, real g, parent, operator, status; the open list | `initialize`, `step`, `fetch_next_node`; `open`, `reopen`, `update_parent`, `close`; `trace_path` | asks heuristics, notifies them of transitions |
| landmarks (`landmark_status_manager.cc`, `landmark_count_heuristic.cc`) | reached landmarks per state | `update_reached_lms`, `update_lm_status`, the value | told of transitions by the eager search |
| search component (`planner.cc`, `search_engines/iterated_search.cc`, `save_plan` of `globals.cc`) | phase, best bound, the number of plans written | one engine, or phases with a bound on the next plan; plan files; exit code | started and killed by the driver, leaves plan files |
| driver (`driver/portfolio_runner.py`, `plan_manager.py`, `returncodes.py`, `limits.py`, `call.py`) | configs still to run, cost types, known plans, exit codes, time used | `run_sat`, `run_opt`, `process_new_plans`, time limits | learns of components by exit code and plan files |
| other heuristics, engines, state packing | inherited from Fast Downward | | not on the path of `sfw`, `sbw`, `sbd` |
| rest of the translator, preprocessor | files | PDDL to SAS+, h2 mutexes | feed the search |

The search is one thread.  What makes it hard is not parallelism but that one
logical step is interrupted and resumed: every BDD operation may exceed a limit
on time or nodes (a `BDDError`), after which a frontier is left half filtered,
half merged or unexpanded, and another direction may be advanced before it is
resumed.  Two searches read each other's closed lists and h-values meanwhile,
0-cost actions put new states on the level that is being expanded, and the
bounds by which the search stops are raised and lowered in the middle of all
that.

What must hold: the bounds are sound at every moment; the verdict is given only
when they meet; a state is closed once, with its distance; the closed lists of
the two directions stay disjoint; a solution can always be traced back, to a
plan of the task with the reported cost; no assertion fails; the search ends.
The axiom evaluator is called with whatever the last call has left in its
counters, and fires axioms of higher layers while a lower one is evaluated: it
must return the one state that the stratified axioms define.  The symbolic
evaluators must compute the same for sets of states, with layers that they
compute themselves and whatever groups of axioms the size limits merge.  Eager
search changes the parents and g-values of nodes whose descendants and open
entries are not told: the parents must stay a tree, no state may be forgotten,
and the first plan must be the cheapest when the heuristic is admissible.
The driver and a component are two processes, and the second may be killed at
any moment: between two lines of a plan file, or between its last plan and its
exit code.  The driver must know exactly the plans that are complete, lose none,
give the next component the right bound and number, report success only if there
is a plan, and keep its time whatever the components do.

## Modules

    UniformCostSearch        the state machine
      SearchCorrectness      what it promises (INSTANCEs AnytimePlanner)
        UnidirectionalInvariant   the inductive invariant of sfw and sbw
          MCSearch           the tasks TLC checks, and their plans
          BidirectionalInvariant  the invariants of a search in any direction
            SearchProofs     the types, the theorems on sfw and sbw, and on all three
    AnytimePlanner           the abstract specification
    PathExtraction           extends SearchCorrectness by the plans of solutions
      MCPaths                tasks given by their operators
      PathInvariant          the inductive invariant of the extraction (extends
                             BidirectionalInvariant as well)
        PathExtractionProofs the theorems on plans (extends SearchProofs as well)
    StratifiedAxioms         what axioms mean
      AxiomEvaluator         the explicit evaluator as a state machine
        AxiomInvariant       its inductive invariant
          MCAxioms           the axioms TLC checks
          AxiomProofs        the theorems on the evaluator
      Stratification         the stratifiers "default" and "scc"
    DependencyGraph          strongly connected components (INSTANCEd by the next two)
    TranslatorAxioms         handle_axioms: what the translator writes for rules
    SymbolicAxioms           the symbolic evaluators and the images of a search
                             (INSTANCEs Stratification and ExplicitSuccessors)
      MCSymbolic             tasks with axioms, made by TranslatorAxioms
      SymbolicProofs         the theorems on stratifiers, conditions and images
    ExplicitSuccessors       the abstract specification: sets of explicit states
    LandmarkStatus           reached landmarks, dead ends, the landmark count
      EagerSearch            the state machine
        EagerCorrectness     what it promises (INSTANCEs PathTree)
          MCEager            the task TLC checks
          EagerProofs        the theorems on eager search
    PathTree                 the abstract specification of nodes, with its theorem
    RecursionLemmas          least numbers, folds, recursive functions and sums: what
                             the modules of proofs need of data of any size
    SearchProcess            the search component: engines, phases, plan files
      ProcessCorrectness     what it leaves behind
        MCProcess            the command lines TLC checks
      Portfolio              the driver, composed with the component it runs
        PortfolioCorrectness what a portfolio promises
          MCPortfolio        the portfolios TLC checks
          PortfolioProofs    the theorems on portfolios and components

**UniformCostSearch** models the first six rows of the table.  A BDD is the set
of states it represents, a bucket (a vector of BDDs) the set of its members,
and the open and the closed list are sets of pairs with the g-value first.  The
zero BDD is kept apart from the absence of a BDD (`{{}}` and `{}`), because the
code tells them apart (`bucketReady`, `removeZero`) and one finding lives there.
Equal BDDs of a bucket are identified, which is harmless as all operations on
buckets are elementwise or unions.

One call of `SymbolicSearch::step` is a chain of actions, `pc` says where it is:

| action | code |
|---|---|
| `Step(d)` | `BidirectionalSearch::stepImage` picks a direction, `stepImage` starts with `frontier.prepare` |
| `ExpandZero`, `ExpandCost`, `ExpandTruncated` | `Frontier::expand`: the 0-cost image, the images by cost, a `BDDError` |
| `Insert`, `InsertDone` | one turn of the loop over the images: merge, cut check, new solution, insertion in open; its end |
| `Pop`, `Exhaust`, `PrepareNext` | `prepareBucket`: pop and close a bucket, or find open empty, then prepare what is ready |
| `Finish` | the end of `BidirectionalSearch::stepImage` and `SymbolicSearch::step`, and the timer of `SearchEngine::search` |
| `Terminated` | the loop of `SearchEngine::search` has ended |

The steps of the chain are separate because the controller's bounds are
observable between them; no other thread acts in between, and the only choices
are those the code leaves to its environment:

* the direction (`selectBestDirection` compares estimates that depend on time);
* whether and where a limit interrupts `prepare`, `merge`, the mutex filter or
  an image (`PrepareOutcomes`, `MergeBucket`, `PopFilterOutcomes`,
  `ExpandTruncated`);
* which of several equally good cuts of a bucket is met first (the order of a
  vector);
* whether the time limit has expired at the end of a step (`TimeLimit`).

`min_transition_cost`, the int arithmetic of `getF` and of `fVal` (`Int32`) and
the assumption that costs are ints (`BoundAssumption`) are taken as the code
has them.

**SearchCorrectness** states the properties over plans: `Plans` is a constant,
any set of plans of the task, so that TLC can take those of bounded length and
the theorems hold for all.  **AnytimePlanner** is the abstract specification:
bounds that only tighten and are sound, and a verdict when they meet.

**PathExtraction** composes the search with `SymSolution::getPlan` and
`ClosedList::extract_path`.  It adds the layers of 0-cost steps
(`ClosedList::zeroCostClosed`) to the steps that close states, and starts a walk
in each step that finds a better solution; the search goes on when the walk has
ended, which is the order of the code, where `new_solution` extracts the plan at
once.  The walk sees the closed lists as they were when the solution was found.
Operators are relations between states, and which of several matching operators
is taken is left open: the order of a vector decides in the code.

| action | code (`closed_list.cc`, `sym_solution.cc`) |
|---|---|
| `Locate` | the first layer of the g-value that shares a state with the cut |
| `ZeroStep` | one turn of the loop with `steps0 > 0`: a 0-cost operator from an earlier layer, or none |
| `CostStep` | a turn with `steps0 = 0`: the cheapest operator from a closed state, then the layer it is of; or the failure that ends the program |
| `SideDone` | the end of `extract_path`: the second part from the state the first one leads to, or the end of `getPlan` |
| `SearchStep` | a step of the search, with `ClosedList::insert` and `new_solution` |

**StratifiedAxioms** defines the state that stratified axioms derive from the
primary variables: layer by layer the least one closed under the axioms, with no
recursion, so that it can be reasoned about.  The axioms that derive a default
value (the translator adds them for the heuristics) do not count.
**AxiomEvaluator** models `AxiomEvaluator::evaluate` (`axioms.cc`) and the
tables of its constructor.

| action | code |
|---|---|
| `Evaluate` | a call: the derived variables get their default values, the primary ones are queued |
| `ResetRule`, `ResetDone` | one turn of the loop that resets the counters and applies axioms with an empty body; its end |
| `PopLiteral`, `VisitRule` | the literal taken from the queue; one turn of the loop over its axioms |
| `NegationByFailure`, `Return` | the end of a layer; the end of the last one |

Calls follow each other and share the counters and the queue, as the evaluator
is shared by all states.  The code takes the youngest literal; the model takes
any, and visits the axioms of a literal in any order, so the result is shown not
to depend on either.

**DependencyGraph**, **Stratification** and **TranslatorAxioms** are pure: the
components that both languages compute by depth-first search are defined by
reachability; `ExtractDerived` and `OrderDerived` are the two phases of
`stratify_transitive_closure`, and `HandleAxioms` is the set of results that the
translator may write (the layer strategy max takes any topological order).

**SymbolicAxioms** models the evaluators `varbdds`, `transform`, `interleaved`
and `interleaved_rules`, with both stratifiers, as one state machine, because
they share the search around them.  A BDD over the variables is a set of
assignments, one of `var_bdds` a set of assignments of the primary variables.

| action | code (`symbolic/`) |
|---|---|
| `StratifyVariables`, `AxiomsByHead` | the layers of the variables, by `stratify_transitive_closure` or from the task; the layers of the axioms by their heads |
| `BuildComponents`, `LayerOfComponent`, `LayerOfSingles`, `ComponentsDone` | `stratify_scc`: the graph and its counters, one turn of its loop, its end |
| `BuildLayer`, `PopVariable`, `VisitAxiom`, `VariableDone`, `BuildDone` | `create_derived_var_bdds`: the axioms that need lower layers only, and the worklist |
| `InitAxioms`, `Start` | `init_axioms`; the initial state or the goal, through `process_init_state` or `process_goal_state` |
| `ComputeImage` | the image or preimage of a transition relation of any operators (`TransitionRelation`, with conditional effects) |
| `ApplyVarBdds` | `apply_axioms` of the first two evaluators |
| `ApplyFixpoint`, `EnterLayer`, `NextRound`, `FireGroup`, `RoundDone`, `LeaveLayer`, `Return` | `apply_fixpoint` of the interleaved ones: defaults, a layer, a round of its loop, one merged axiom |

Which axioms of a layer a size limit leaves in one relation or rule is a choice
of `FireGroup`.  **ExplicitSuccessors** is what the images promise: `reached`
is a set of states of the task and is replaced by their successors as
`get_successor_state` defines them, effects in order and then the axioms.
`transform` leaves derived variables free in its states, so there only the
assignments whose derived values are those of the axioms count (`Meaning`).

**EagerSearch** models `EagerSearch::step` for `astar` (tie-breaking list on f
and h, reopening) and `eager_greedy` (one scalar list), with multi-path
dependence, cost types and the exclusive bound.  The open list is the sequence
of its entries in the order of insertion; the entry to remove is the oldest one
of the least key, which is what both lists compute.

| action | code (`search_engines/eager_search.cc`) |
|---|---|
| `Initialize` | `initialize` |
| `Exhausted`, `SkipClosed`, `SkipDeadEnd`, `BecomeDeadEnd`, `InsertAgain`, `Expand` | one round of the loop of `fetch_next_node`; `Expand` also does the goal test of `step` and `trace_path` |
| `SkipOperator`, `NewDeadEnd`, `OpenNew`, `Reopen`, `UpdateParent`, `NoCheaper` | one turn of the loop over the applicable operators, in any order |
| `StepDone` | the end of `step` |

A heuristic is a table over the states, or the landmark count of
**LandmarkStatus**, whose reached landmarks depend on the paths that the engine
has notified it of.  The operators of that module are the loops of
`landmark_status_manager.cc`; which states satisfy a landmark, simple,
disjunctive or conjunctive, is the constant `TrueIn`.  **PathTree** is the
abstract specification of the nodes: relax edges in any order, however often;
its theorem says that predecessors never form a cycle.

**SearchProcess** models one run of the search component: a single engine, or
`IteratedSearch::step`, and `save_plan`.  What an engine finds is left open but
for the bound (`Results`): a plan is below it, unless the engine does not look at
the option, the real costs are not those it searches with, or the initial state
is a goal, which every engine tests before it looks at the bound.

| action | code |
|---|---|
| `Search` | `SearchEngine::search` of a single engine, `save_plan_if_necessary` |
| `PhaseFinds`, `PhaseFails`, `NoMorePhases` | `IteratedSearch::step`: the phase, and its plan compared with `best_bound` |
| `StepReturns` | `step_return_value`, and the timer of `SearchEngine::search` |
| `OpenPlan`, `WritePlan` | `save_plan`: the file is opened, its last line written |

**Portfolio** extends it by the driver.  Plan files are shared: `files` maps the
number of a file to the cost in its last line, or to `Incomplete` while that line
is missing.  The driver's actions and those of the component interleave only as
the code allows, since the driver waits for the component; but the component ends
in any of its states, because it reaches its limit (`Killed`), fails (`Fails`), or
exits.

| action | code (`driver/`) |
|---|---|
| `DeleteExistingPlans` | `run_search` of `run_components.py`, `delete_existing_plans` |
| `NoTimeLeft`, `Start` | `compute_run_time` and `run_sat_config` (or the body of `run_opt`) up to `check_call`; `adapt_args`; `set_time_limit` |
| `Component`, `Tick` | the component acts; it uses CPU time |
| `Exits`, `Fails`, `Killed` | `check_call` returns with an exit code |
| `DeleteIncomplete`, `AcceptPlan`, `RejectPlan`, `AllPlansRead` | a turn of the loop of `process_new_plans`; its end |
| `PortfolioOver`, `Rerun`, `RunFinalConfig`, `NextConfig` | what `run_sat` or `run_opt` does after an exit code: return, repeat with real costs, run the final config, go on |
| `RoundOver`, `NextRound` | the end of the loops over the configs; the round after it |
| `Report` | `generate_portfolio_exitcode` |

Time is counted in ticks of CPU time, of which a second has `TicksPerSecond`, as
limits are rounded up to seconds (`SoftLimit`); `LimitTicks` is what `setrlimit`
makes of them.

## Runs

The runs of the search use `MCSearch`, those of the plans `MCPaths`: a task has
seven to nine states.  Those of the axioms use `MCAxioms` and `MCSymbolic`, that
of eager search `MCEager`, those of the driver and its components `MCPortfolio`
and `MCProcess`.

| run | task and options | shows |
|---|---|---|
| `unidirectional` | `sbw`, `mutex_and`, costs 0, 1, 3, 0-cost cycles, spurious states, a dear plan found first, three interruptions | the invariant of the proofs; admissible bounds and an optimal result although a mutex filter is applied in part |
| `bidirectional` | `sbd` with a time limit, costs 0, 1, 3, 0-cost cycles, cuts of several states | the frontier's assertions, disjoint closed lists, admissible `hNotClosed`, refinement of `AnytimePlanner`, termination; and of every plan extracted: predecessors and layers are found, the walk goes back in every step, the plan is one of the task with the cost reported |
| `bidirectional_unsolvable` | `sbd`, no plan: one search is exhausted and so ends both | types, no overflow of `fVal`, each state closed once, the verdict is reached |
| `bidirectional_uneven` | `sbd`, costs 3, 4, 5 | **violation** of `OptimalResult` |
| `forward_goal_at_start` | `sfw`, the initial state is a goal | **violation** of `OptimalResult` |
| `paths_empty_start` | `sbd`, costs 0 and 1, a 0-cost operator from the initial state | **violation** of `PlanValid` |
| `axioms_layered` | three layers, a positive cycle, negations and the translator's axioms for them | the invariant of the proofs, the extension, exact counters, final negations, termination |
| `axioms_clash` | a variable that is always true and depends on itself | **violation** of `DefaultOnlyIfNoRuleTriggers` |
| `axioms_symbolic` | all evaluators and stratifiers, forward, and backward with `transform`; five sets of rules in every way the translator may write them; conditional effects | layers are sound and complete, the conditions of derived variables exact, the images implement `ExplicitSuccessors`, every evaluation returns |
| `eager_search` | `astar` and `eager_greedy`, 218 configurations of reopening, multi-path dependence, cost type, bound and heuristic | no open state is forgotten, closed states are relaxed, parents are a tree (`PathTree`), plans are sound, below the bound and optimal where `astar` promises it, failure is a proof, landmark counts are admissible, the search ends |
| `iterated_search` | single engines and iterated search, all combinations of the options, alone and as part of a portfolio | plans are numbered without a gap and get better, the exit code and `best_bound` agree with the files, repetition of the last phase ends |
| `portfolio` | two configs with relative times 1 and 2, without, with a given and with a built final config, with `S_COST_TYPE`, `H_COST_TYPE` or both, unit and general costs, files left by earlier runs; an optimal portfolio of four configs | the driver knows the plans on disk and loses none, a component that heeds its bound never makes it fail, success means a plan, time is kept, the portfolio ends |

### Bounds

* `MaxG` (100) only blocks `ExpandCost`; no run comes near it, since a state is
  closed once and the costs are at most 5.
* `MaxTruncations` (1 to 3) is how many attempts a limit may interrupt, at any
  of the points.  One interruption leaves the frontier in each of its
  intermediate states; two or three reach interruptions of the resumed work.
* `MaxInt` is 255 instead of 2^31 - 1, larger than every sum of finite g-values,
  so that only the sums that overflow in the code wrap around.
* `MaxPlanLength` (6) bounds the plans the result is compared with.  A cheapest
  plan of a task with seven states repeats none and so is among them; the tasks
  with eight or nine states have no plan of more than six transitions without a
  repetition.
* The axioms have two binary primary variables, all states of which are
  evaluated, and five derived variables in three layers: the fewest in which an
  axiom of the last layer is applied before the first layer is finished, and a
  default value of each lower layer is used above it.  Nothing else is bounded:
  calls follow each other forever.
* `MCSymbolic` has two primary variables (four states) and four derived ones,
  one of them with default 1.  The five sets of rules have a cycle of two and one
  of three variables, negations below and above a cycle, an always-true
  variable, one that depends on itself and dominated bodies; every set of
  operators is asked for, in any sequence of images.
* `MCEager` has eleven states and sixteen operators: 0-cost edges in cycles, an
  unreachable state, a dead end that one of the paths to it gives away, and
  landmarks that are lost and needed again.  The heuristics include all
  that guess 0 or 4 for four states, most of them inconsistent, and one that is
  not admissible; the bounds are the cost of the best plan, one more and none.
* `MCPortfolio` has plans of three costs: the fewest for which two improvements
  on a first plan are possible, by one component or by several.  With a
  `TimeLimit` of four ticks and two ticks to the second, the shares 1/3 and 2/3
  are not whole seconds, a component may use up the time of the next, and three
  components may run.  `MaxElapsed` stops the clock while a component runs
  without a limit, which only optimal portfolios come to; the properties about
  time exclude them.
* `MCProcess` has one or two phases and four costs; the number of phases that a
  repetition adds is not bounded (`phase` stops counting at their number).

### Fairness

`FairSpec` is `WF_vars(Next)`: the planner is one thread that waits for nothing,
so as long as it can act it does.  Nothing is assumed about which direction is
advanced.  `Termination` does assume that finitely many steps are interrupted
(`MaxTruncations`): the code raises its limits after an interruption and
`ratio_useful` bounds them, but that they eventually suffice is a matter of
memory and time outside the model.  The fairness of the axiom evaluator is
`WF_vars(Continue)`: a call that has begun runs on, and nobody is obliged to
call.  That of the symbolic ones is `WF_vars(Prepare \/ Apply)`, for the same
reason: the search need not ask for an image.  `EagerSearch` has `WF_vars(Next)`
like the symbolic search.  A component on its own has `WF_processVars(Work)`:
one thread, whose engines return.  In a portfolio nothing is assumed of the
component, which may do nothing at all; the driver acts when it can, a running
component uses time (`WF_vars(Tick)`), and the kernel kills it at its limit
(`WF_vars(Killed)`).  A component that uses no CPU time forever would never be
killed; a search waits for nothing, so it does not.

### Violations

* *Meeting point of the bidirectional search.* `BidirectionalSearch::getF`
  returns at least `fw.g + bw.g + min cost`, and this becomes the lower bound.
  That is right when no path shorter than this can join the searches, but a
  meeting is only noticed when a generated state is in the opposite **closed**
  list.  With costs 3, 4 and 5 the search stops with a plan of cost 9 although
  one of cost 8 exists.
* *The empty plan.* `init` fills the frontier, so the first `prepareBucket` does
  not pop and does not call `checkCutOriginal`.  A task whose initial state is
  a goal (the translator emits one when it finds the goal trivially reached)
  gets a costlier plan or is reported unsolvable.
* *Cut of several states at the start.* The first part of a plan may be empty
  although the cut holds states besides the initial one, reached from it by
  0-cost operators.  `getPlan` then continues from the whole cut, and the second
  part may begin with an operator that does not apply in the initial state.  (In
  `bidirectional` no 0-cost operator applies there, and every plan is valid.)
* *Axioms that clash.* For a derived variable of a cycle that is needed
  negatively the translator adds an axiom with an empty body for the default
  value.  If simplification has left the variable with an empty axiom of its
  own, the evaluator applies both, in the order of the file, and queues both
  literals: the variable has its default value although an axiom derives the
  other, and axioms that need either value fire.

### What the properties exclude

Some properties have a hypothesis, or a run a constant, because the code does not
keep to them otherwise.

* `axioms_symbolic` has backward searches with `transform` only.  The other
  evaluators leave derived variables in preconditions and the goal; a preimage
  then gives a state the derived values of its successor, compares the
  precondition with those, and `apply_axioms` replaces them afterwards.  Nothing
  forbids the combination: the guard is commented out (`axiom_evaluator.cc:40`).
  With another member in `BackwardOf`, `ImplementsExplicit` fails.
* `FrontierAssertions` is checked with `edeletion`.  With `mutex_and` the pop may
  leave a BDD unfiltered; when `prepare` filters it and it becomes zero,
  `mergeBucket` may drop it, nothing is left to expand, and `expand_cost`
  (`frontier.cc:169`) asserts otherwise.
* `PlanSound` promises the bound for the cost type NORMAL only.  With ONE and
  PLUSONE a node keeps the real g-value of the path with the least adjusted cost;
  a search that does not reopen updates the parent of a closed state and does not
  tell the nodes below, and a plan traced back may cost more than the bound.
* A goal at the start (`GoalAtStart`).  Every engine tests it before it looks at
  the bound.  A phase that is repeated then finds a plan forever, and
  `IterationEnds` fails; the second component of a portfolio saves the empty plan
  again, and the plan manager refuses it with an error.
* `BogusOnlyWithUnitCosts` excludes a portfolio that goes on with unit costs
  although it knows a plan.  It does so when a component saves a plan, looks for
  a better one and is killed: `process_new_plans` has read the plan, but
  `run_sat` looks at the exit code only (`portfolio_runner.py:127`).
* `WithinTime` and `PortfolioEnds` are about satisficing portfolios.  `run_opt`
  starts components without looking at the time, and a negative soft limit is no
  limit (`LimitTicks`).
* `NextRound` is the end of a portfolio that comes to its second round: the
  configs of that round have been collected without their relative times
  (`portfolio_runner.py:128`), and unpacking them raises an error.

## Proofs

The theorems of `SearchProofs` hold for every
task, `MaxInt`, mutex setting and set of plans that satisfies `TaskAssumption`,
`BoundAssumption` (costs and g-values are ints that do not overflow when added)
and `PlanAssumption` (what `Plans` holds are plans whose states violate no
mutex).

| theorem | says |
|---|---|
| `TypeCorrect` | `Spec => []TypeOK`, in one direction or both |
| `UnidirectionalInvariant` | `OneDirection => (Spec => []UnidirectionalInv)` |
| `LowerBoundIsAdmissible` | the lower bound of `sfw` and `sbw` never exceeds a plan's cost |
| `SolutionIsOptimal` | `sfw` and `sbw` answer SOLVED with the cost of a cheapest plan, and FAILED only without one |

`OneDirection` excludes the bidirectional search and an initial state that is a
goal, for which TLC refutes optimality.

The argument.  `LowerBoundAdmissible` is not inductive: that the bound may rise
to the g-value of the next bucket depends on the open list and the frontier
holding everything that is still to come.  This is `SuccessorsReached`: a
transition out of a closed state leads to a state that is closed or open (or
in the images being inserted) at no greater cost, unless the transition is not
expanded yet, or a path through it would cost at least the upper bound.  From
this, the proof follows a plan from the source of the search to
the last state up to which the search has reached it at the plan's cost
(`BoundsHold`): the next g-value is at most the plan's cost there plus the
minimum cost, or the solution is already as good.  A frontier that is half
filtered or half merged is covered since `Unexpanded` looks at all of its four
buckets; an interruption moves BDDs between them and changes nothing else.  The
other conjuncts are what that needs: layers are closed in order
(`LayerOrder`), the phases of a step leave certain parts empty (`Phases`), and
the target is never closed by the search that looks for it
(`SourceAndTarget`), which is where the initial state that is a goal fails.

The other theorems of `SearchProofs` are about `sfw`, `sbw` and `sbd` alike; the
last ones have a hypothesis on the task.

| theorem | says |
|---|---|
| `StructureHolds` | `Spec => []StructureInv`: the shape of open list, frontier and closed list |
| `StatesClosedOnce`, `SearchesDisjoint`, `PathsCanBeReconstructed`, `FValueNeverOverflows` | `ClosedOnce`, `ClosedDisjoint`, `PathsReconstructable` and `FValueInRange`, without further hypothesis |
| `FrontierNeverAborts` | `FrontierAssertions`, if mutexes are not of type MUTEX_AND |
| `PlansAreKept`, `HNotClosedIsAdmissible` | a search loses no plan that would improve the solution, and `hNotClosed` never exceeds what such a plan still costs from a state that is not closed |
| `SearchesMeet` | on such a plan the two searches do not run past the transition at which they meet |
| `BidirectionalInvariantHolds`, `BidirectionalLowerBoundIsAdmissible`, `BidirectionalSolutionIsOptimal` | `EvenTask` suffices for the invariant, and so for `LowerBoundAdmissible` and `OptimalResult` in both directions |
| `SolutionsHavePaths` | whatever is closed is reached by a path of its g-value, and a solution joins two paths |
| `ImplementsAnytimePlanner` | every step tightens the bounds of `AnytimePlanner` soundly, or leaves them, if `AllPlans` and `OneDirection \/ EvenTask` |

`EvenTask` says when the meeting point of two searches is found in time: the
initial state is no goal, there are 0-cost operators or all costs are multiples
of the least one, and the mutexes are not MUTEX_AND unless there are 0-cost
operators (with MUTEX_AND and without them a search may be left without a bucket,
and `getG` then skips a layer).  Unit costs are such a task; the run
`bidirectional_uneven` shows what happens with costs 3, 4 and 5.  `AllPlans` says
that `Plans` are all plans of int cost: the planner attains its upper bound with
one of them.

The argument.  `StructureInv` is inductive by itself; of its conjuncts,
`Phases` and `FrontierShape` say what each step of a chain finds, so that an
interrupted `prepare` or `expand` can only move states between the buckets of
the frontier, and `FrontierClosed` that what is expanded has been closed at the
frontier's g-value.  `ClosedDisjoint` needs the order of the code: a bucket is cut
against the opposite closed list before it is closed, and a cut ends both
searches.  `PlanProgress` follows every plan that would improve the solution: the
next state after a closed one is still to be expanded, among the images, open or
closed at no greater cost; from this `hNotClosed` is admissible, as the least
g-value at which something still waits.  `NoCrossing` is about pairs: if the two
ends of a transition are closed from different sides, one search has still to
expand, or to look for a cut.  Then, when the lower
bound is raised to `fw.g + bw.g + min cost`, a cheaper plan would have its
meeting ahead, at a g-value that `EvenLayers` puts at the sum or above it.  For the
refinement `PathInv` turns g-values into paths, which are joined to a plan when
the cut is found.

`PathExtractionProofs` is about the search with the extraction of its plans, for
every task and every set of deterministic operators whose transitions are those
of the search (`OperatorsAssumption`), in one direction or both, with 0-cost
operators or without.

| theorem | says |
|---|---|
| `ExtractionKeepsSearch` | `ExtractionSpec => Spec`: the theorems on the search hold with the extraction |
| `ExtractionInvHolds` | `ExtractionSpec => [](ExtractionInv /\ StructureInv)` |
| `ReconstructionNeverFails` | `ExtractionSpec => [](walk.phase # "failed")`: neither "Solution reconstruction failed" nor the assertion on layers is reached |
| `PlanLeadsToGoal` | `ExtractionSpec => [](walk.phase = "idle" /\ plan.found => ...)`: the plan costs the upper bound and is a run (`RunTo`) to a goal state, from the initial state or, in a bidirectional search, from a state that is reached at no cost (`Start`) |
| `PlanIsValid` | `FirstPartKnown => (ExtractionSpec => []PlanValid)`: the plan leads from the initial state to the goal, and costs the upper bound |
| `WalksDescend` | `ExtractionSpec => WalkDescends`: no walk goes round in 0-cost cycles |

The argument.  That a closed state has a closed predecessor
(`PathsReconstructable`) is not enough: with a predecessor at the same g-value a
walk could go round.  `ListsInv` says that the layers rule this out: what is
closed is in a layer, and a state of layer k has a predecessor at a smaller
g-value or in a layer before k (`Grounded`).  A bucket that is popped keeps this,
because its states have predecessors that were closed, and so were in a layer,
before its BDDs are appended, in whatever order they come.  A walk then stands
on a cut whose states are all grounded in the layers before `steps0`, so that the
turn with no 0-cost operator left finds an operator with a cost, and the closed
states it leads back to are in a layer again.  `WalkFound` says what the
operators found so far are: a run (`RunTo`) from every state of the cut to a state
where the searches met, at the difference of the g-values; and, in the second part,
from a start of the plan (`Start`) to every state of the cut, at the upper bound
less the g-value.  `RunReached` relates a run to `FoldLeft`, by which the plan is
replayed: there operators must be deterministic.  `FirstPartKnown` is a hypothesis
of `PlanIsValid` only, the one that the finding of `paths_empty_start` shows to be
needed: in a bidirectional search no operator leads from the initial state to
another one at no cost, so that the only start is the initial state (`ZeroPath`).
Otherwise the first part of the plan may be empty although the searches met in
other states than the initial one, and the second part starts at any of them.
`PlanLeadsToGoal` needs no such hypothesis: what such a plan lacks are the
operators at no cost that lead to its start, and nothing else.

`AxiomProofs` is about every set of stratified axioms, with any number of
variables, layers and values.

| theorem | says |
|---|---|
| `AxiomInvariance` | `NegatedRulesHarmless => (Spec => []AxiomInv)` |
| `EvaluationIsCorrect` | whenever `evaluate` returns, the state is the extension of its primary variables |
| `NegationIsSound` | after negation by failure has been applied to a layer no variable of the layer changes |

`NegatedRulesHarmless` says of an axiom that derives a default value that it
contradicts each axiom deriving the other value, or has an empty body while that
one has not; the run `axioms_clash` shows what happens otherwise.

The argument.  `EvaluatesToExtension` says nothing of the states in which the
evaluator works, so `AxiomInv` says what its counters mean.  `Known` are the
literals it may rely on: a default value only once its layer is finished.  A
counter is the number of conditions that are not known, or known but still
queued or being visited (`CounterInv`); so an axiom fires exactly when all its
conditions are known.  What is derived is then supported by such an axiom
(`SupportInv`), which is why nothing derived is ever reset, and every state that
is closed under a layer's axioms and agrees with what is known below derives it
too (`LeastInv`).  This is stated for what is known and not for finished
layers, because axioms of higher layers fire early.  When the queue is empty, an
axiom of the layer with all its conditions true has fired, so the layer is
closed (`FinishedInv`), and its default values become known.

`SymbolicProofs` is about every set of axioms that the translator may write, for
any number of variables, values and operators, under `ProgramsAssumption` (finitely
many binary derived variables; stratified axioms, those for default values only on
conditions of no higher layer, and no more layers than axioms: what `axiom_rules.py`
writes, with its layers numbered from 0) and `TaskAssumption` (operators, initial
state and goal speak of values the variables have, operators set primary
variables).  The third assumption, `ExtensionsExist`, is not one: it is derived
from `ProgramsAssumption` by `AxiomsHaveMeaning`, and stands in the module so that
TLC tabulates `Extended` once.

| theorem | says |
|---|---|
| `AxiomsHaveMeaning` | every assignment of the primary variables has exactly one extension |
| `StratificationIsSound` | `Spec => []StratificationSound`: the layers of "default" and "scc" are in order, complete, and no component is ready early |
| `ConditionsAreExact` | `Spec => []ConditionsExact`: the worklist ends with the condition of every derived variable |
| `ImagesAreExplicit` | `BackwardOf \subseteq {"transform"} => (Spec => ImplementsExplicit)`: all evaluators compute the images of `ExplicitSuccessors` |

The argument.  The extension is built layer by layer, the least closed set of a
layer being the intersection of all closed ones; it is the same for all sound
layers (`MeaningInLayers`), which is why a stratifier may choose its own.  The
transitive closure that `OrderDerived` computes is a fold over variables, whose
invariant is that the order holds exactly the paths through those folded so far
(`OrderUpto`, by induction over the steps of the fold); a variable leaves the
loop of `ExtractDerived` no later than in its layer of the translator, so the
loop ends with strata (`StrataAreLayers`).  For `stratify_scc`, `ComponentsInv`
says what Kahn's counters count.  The worklist keeps `Covered`: an axiom of the
layer is satisfied, or a variable of its body is still in the queue, and the one in
front counts only for the axioms not yet visited; with an empty queue the
conditions are closed, and they never exceed the least ones.

For the images, `FixpointInv` says of every state of the loops that it is on its
way (`Partial`): it derives nothing that its extension does not, and is closed
under the layers below.  An axiom that is applied keeps that, since what its body
needs to be false is final (`KnownBelow`).  No state may be lost: an axiom applied
as a rule maps every state to one with the same primary variables; an axiom
applied as a transition leaves the state behind, so that `Processed` must follow
what it has led to, and a state of the closed set with the most derived variables
shows that one is done (`SomeIsDone`).  In a layer without fixpoint one application
suffices because nothing in it enables anything else (`AppliedOnce`).  Effects are
a fold as well: the last one whose condition holds decides (`EffectsInOrder`).
With `transform` the sets are closed under changing derived variables (`Free`).

`PathTree` is about every graph with a root (`RootedGraph`), `EagerProofs` about
every task, heuristic and configuration that satisfies `EagerAssumption` (finitely
many states, costs are natural numbers, operators deterministic, heuristic values
and bounds are ints, `astar` reopens) and `LandmarkAssumption` (what has no
achievers has no first achievers, either, `landmark_factory.cc:799`).

| theorem | says |
|---|---|
| `TreeSafe` | relaxing edges keeps `TreeInv`: a predecessor is at least as close as its edge costs, and every set of reached nodes has one whose predecessor is elsewhere |
| `EagerInvariant` | the inductive invariant of eager search: typed nodes, g-values of what is open or closed, entries of the open list, the expanded state |
| `RefinesPathTree` | `Spec => BuildsTree`: every step relaxes an edge of the task under the cost type, or leaves the tree as it is |
| `PathsEnd` | parents never form a cycle, so that `trace_path` ends |
| `OpenListIsComplete` | `Spec => []OpenListComplete`: every open state has an entry, with a key that is not above its present f-value |
| `PlansAreSound` | `Spec => []PlanSound`, unless the initial state is a goal and a bound is 0: the plan leads to the goal state, and costs at most its g-value and less than the bound |
| `LandmarkCountIsAdmissible` | `LandmarksReliable => (Spec => []LandmarksAdmissible)`: with sound landmarks the count never exceeds the distance to the goal |
| `FailuresAreProofs` | `DeadEndsReliable /\ LandmarksReliable => (Spec /\ []NothingOverflows => []FailureIsProof)` |
| `AStarIsOptimal` | `LandmarksReliable => (Spec => []OptimalPlan)`: the plan of `astar` with an admissible heuristic has the least cost |
| `RelaxesEverything` | with reopening, a transition of a closed state is still to be looked at, cut off, leads to a dead end, or its successor is at least as cheap |

The argument for the absence of cycles cannot look at g-values alone, because
operators may cost nothing: equal g-values could go round.  `NoCycle` is
therefore stated over sets of nodes.  Relaxing an edge to `n` can only close a
cycle through `n`; then `n` is an ancestor of the node it is relaxed from, so
that along the predecessors its distance is at most that node's (this is
`PredecessorsCloser`), and the edge would not improve it.  What this needs from
the engine is the strict comparison in `eager_search.cc:185`; with `>=` TLC
finds a cycle.  For `RelaxesEverything` the point is that whatever lowers the
g-value of a closed state opens it again, so the g-values of closed states that
are not being expanded are those they were expanded with.

For `OpenListIsComplete` an entry must be valid for the present h-value of its
state, which changes while it waits: reached landmarks only become fewer, and an
estimate from fewer reached landmarks is at least as high (`LandmarkCosts`, which
compares sums over sets of landmarks), so that an old entry is too low, and never
too high.  A state that becomes cheaper gets a new entry at once, and a fetch
removes only the entry of the state it closes, or an outdated one.  `PlansAreSound`
follows `trace_path`: by the pigeonhole principle a walk over more parents than
there are states would go round (`TraceEnds`), so it ends in the initial state,
the only one with neither parent nor creator (`PathInv`); read backwards, each operator
is applicable where the last one has led, and g-values grow by at least its cost.
A search that starts in a goal state returns the empty plan without looking at
the bound, which is why a bound of 0 is excluded then.

The distances that the last two theorems compare with are a recursion over the
number of transitions, and `DistanceSteps` says that the function exists.  Both
rest on `OpenOnTheWay`: by induction over the number of transitions a closed state
still has to a goal, either it or a state that it leads to is open at no greater
cost.  With reopening this follows from `ClosedRelaxed`; a transition that was cut
off or leads to a dead end is not on the way to a plan within the bound.  So a
search whose open list is empty (and complete, `OpenListIsComplete`) has no
plan left; and when `astar` closes a goal state, the entry it has just fetched had
a key no greater than that of an open state on a cheapest plan (`FirstIsCheap`),
whose estimate is admissible; consistency is not needed since states are
reopened.  No plan is cheaper than the distance (`DistanceOfPlan`), which
makes the two equal.  The hypotheses: `DeadEndsReliable` says that a table has an
infinite value only in states without a plan; `NothingOverflows`, needed only when
nodes are not reopened or real costs not minimised, that the real cost of a node
and an operator stay below the greatest int, which is the bound of a search
without one and would cut transitions off; `LandmarksReliable`, which concerns
configurations with the landmark count alone, that landmarks, orders, achievers and
shared costs are sound.

`LandmarksSound` says of the constants what the landmark factories promise, in terms
of the paths of the task: `Avoiding(l)` are the states that a path on which l is
never true can lead to, and they contain no goal; a landmark becomes true only by
its achievers, first by its first achievers, and after its parents; no operator
pays for more than it costs.  TLC evaluates it for the task of `MCEager`
(`SoundAssumption`).  The statuses cannot be compared with "the" path to a state,
since they are merged over all paths that were notified, and are not told when an
ancestor's change.  What is invariant is weaker: a landmark that is missing in the
status of a state is avoided on some path to it (`MissingAvoidable`), whichever
paths were merged.  Such a landmark is still to come on every way to the goal from
there, and so is one that is needed again (`ToCome`); a transition that makes it
true is by one of its achievers, which pays for it.  By induction over the number
of transitions to the goal the costs of the landmarks that are to come are paid by
the operators of the way.

`PortfolioProofs` is about every portfolio, every component that keeps to
`SearchProcess`, and every moment at which it may be killed, under
`ProcessAssumption`, `PortfolioAssumption` and `TimesAssumption` (a sum of relative
times is not less than its first term, which needs induction; TLC evaluates it).

| theorem | says |
|---|---|
| `PortfolioTypeCorrect` | `Spec => []TypeOK` |
| `PortfolioPlansKnown` | between components of a satisficing portfolio, the costs that the plan manager knows are the plan files, each better than the last |
| `PortfolioPlansKept` | no step of a satisficing portfolio changes or deletes a complete plan |
| `PortfolioBogusOnlyWithUnitCosts` | a plan is refused only while costs are one on a task where they are not |
| `PortfolioSuccessIsTrue` | success is reported only with a complete plan |
| `PortfolioWithinTime` | the time is overrun by less than a second |
| `ComponentPlansSaved` | `ProcessSpec => []PlansSaved`: a component on its own numbers its plans without a gap, each better than the last, and its bound and exit code agree with them |

The argument.  `PlansKnown` speaks of the moments between components; what makes
it inductive is what a component may have done when it is killed
(`FilesOfComponent`): its files continue those of the portfolio without a gap, and
only the one that it is writing, the last, may be incomplete.  The loop of
`process_new_plans` keeps that (`Reading`), and so it stops behind the last file
and has deleted at most that one.  For refused plans `BoundOfComponent` relates the
three bounds that must agree: the best cost of the plan manager, the option bound
of the component, and `best_bound`; then files get better with their numbers, and
the comparison in `process_new_plans` succeeds.  This needs real costs, engines
that heed the bound and no goal at the start: the hypotheses of the property.  For
the time, the share of a config is at most the time left and is rounded up by less than a second
(`ShareBounds`), so that the end of a component is bounded from its start
(`ClockInv`), and `run_sat_config` starts none when no time is left.

## Model-checked only

Liveness under fairness and ENABLED are beyond the proof system, as are RECURSIVE
operators; the modules with proofs use none.  The library's induction theorems
cannot be used either; where induction over numbers or the steps of a fold is
needed, `RecursionLemmas` has it for sets and functions.

* Liveness: `Termination`, `EvaluationReturns`, `PortfolioEnds`, `IterationEnds`,
  and that every explicit evaluation and every eager search ends.
* What hypotheses of the theorems exclude and runs include: optimality in one
  direction when the initial state is a goal, and with uneven costs in both (there
  TLC refutes it); axioms that clash (likewise); and a plan whose first part is
  empty although 0-cost operators lead out of the initial state (likewise).
* The inductive invariant of the bidirectional search is proved and not listed in
  a run, as its conjuncts that matter to a user are: `FrontierAssertions`,
  `ClosedDisjoint`, `ClosedOnce`, `PathsReconstructable`, `HNotClosedAdmissible`.

## Not modelled

Components marked `not_modelled` in `PROJECT.json` carry the reason.

* *Most lines of the repository.*  Of the lines of implementation in the tree the
  greatest part is vendored or inherited: CUDD with dddmp and nanotrav, `ext/`,
  and the heuristics, landmark factories, abstractions and LP code of Fast
  Downward.  The model covers the code this repository adds to it and what that
  rests on.  A BDD package is abstracted to sets, and modelling its unique table
  would say nothing about this planner; the heuristics are functions of the
  state, which the eager search takes as tables.
* *Within the symbolic search*: the option `non_stop`, abstracted state spaces,
  the mutex types restrict, npand, constrain and licomp (`MutexType` has the
  other three), the arithmetic of the estimates, statistics and output.  BDDs
  are sets, so the variable order, reordering and the node counts do not exist.
  The plan files and the exit code are those of `SearchProcess`.  No line of the
  symbolic engines reads the option `bound`, so there is nothing to model of it.
* *Within path extraction*: the abstraction of derived variables from the cut,
  and the plan of a solution that a better cut of the same bucket replaces at
  once.
* *Within the axioms*: `precomputed_evaluator`, which has no value of the option
  `axiom_type`; the merging of relations, but for the freedom of `FireGroup`;
  pruning of unneeded variables by the translator, which happens before.
* *Within eager search*: preferred operators, pruning methods other than null,
  alternation and bucket lists, several heuristics at once.
* *Within landmarks*: the exemption of derived landmarks from the dead-end test,
  the optimal cost sharing, which solves a linear program, and the factories.

* *Within the driver*: memory limits (a component may fail at any moment), limits
  imposed from outside and the interruption of the driver itself, the translator
  and preprocessor as components, validation, the parsing of arguments and plan
  files.  Limits count the CPU time of the component; that of the driver is
  taken as nothing.

## Plan

1. Done: the core above.
2. Done: `PathExtraction`.
3. Done: `AxiomEvaluator`, its invariant and its theorems.
4. Done: `Stratification`, `TranslatorAxioms`, `SymbolicAxioms` against the same
   meaning of axioms, and operators with conditional effects as relations
   against the explicit successor function.
5. Done: `EagerSearch`, `LandmarkStatus`, `PathTree` and their theorems.  Left:
   lazy search, preferred operators and alternation.
6. `StepEstimation`: the interpolation and penalties as pure operators; the
   remaining mutex types; `non_stop`; the composition of `PathExtraction` with
   the symbolic axioms.
7. Done: `SearchProcess` with iterated search, `Portfolio` and its theorems.
8. Done: the bidirectional search, the refinement of `AnytimePlanner`, the
   symbolic axioms and the refinement of `ExplicitSuccessors`, components on
   their own; the open list, the plans, the failures and the optimality of
   eager search, and the landmark count from the soundness of landmarks; the walk
   of `PathExtraction` over the closed lists.  With 0-cost operators
   that lead out of the initial state a plan of a bidirectional search is proved
   up to its start, which the code does get wrong (`paths_empty_start`).
