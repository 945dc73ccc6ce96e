------------------------- MODULE UniformCostSearch -------------------------
(***************************************************************************)
(* Symbolic uniform-cost search: search/symbolic/uniform_cost_search.cc    *)
(* with the open list, the frontier, the closed list and the bounds that   *)
(* SymController keeps, driven by SymbolicSearch::step as a forward (sfw), *)
(* backward (sbw) or bidirectional (sbd) search.                           *)
(*                                                                         *)
(* A BDD is the set of states it represents and a Bucket (a vector of      *)
(* BDDs) the set of its members, so that the empty bucket {} and the       *)
(* bucket {{}} that holds the zero BDD stay different, and equal BDDs of   *)
(* a bucket are one.  The option non_stop is off.  The limits on time      *)
(* and nodes are not computed: wherever the code catches a BDDError, or    *)
(* gives up a merge, the outcome is a nondeterministic choice.             *)
(*                                                                         *)
(* One call of SymbolicSearch::step is a sequence of actions chained by pc:*)
(*   Step -> Expand -> Insert* -> Pop* -> Prepared | Exhaust -> Finish.    *)
(***************************************************************************)
EXTENDS Integers, FiniteSets, FiniteSetsExt

CONSTANTS
    States,         \* the states of the planning task
    InitState,      \* SymStateSpaceManager::initialState
    Goal,           \* SymStateSpaceManager::goal
    TRs,            \* SymStateSpaceManager::transitions: cost -> set of relations
    Directions,     \* the searches that run: {"fw"}, {"bw"} or both
    MutexType,      \* SymParamsMgr::mutex_type
    NotMutex,       \* direction -> states that satisfy every mutex (notMutexBDDs)
    MaxInt,         \* numeric_limits<int>::max()
    TimeLimit,      \* whether the option max_time is finite
    MaxG,           \* bound on the g-values of a run
    MaxTruncations  \* bound on the number of steps that exceed a resource limit

Costs  == DOMAIN TRs
BDD    == SUBSET States
Bucket == SUBSET BDD

ASSUME TaskAssumption ==
    /\ IsFiniteSet(States)
    /\ InitState \in States
    /\ Goal \subseteq States
    /\ Costs \subseteq Nat
    /\ \A c \in Costs : TRs[c] \subseteq SUBSET (States \X States)
    /\ Directions \subseteq {"fw", "bw"}
    /\ Directions # {}
    /\ MutexType \in {"not", "edeletion", "and"}
    /\ NotMutex \in [{"fw", "bw"} -> BDD]
    /\ TimeLimit \in BOOLEAN

\* The sums of two g-values and of a cost that the search forms are ints.
ASSUME BoundAssumption ==
    /\ MaxInt \in Nat
    /\ MaxG \in Nat
    /\ MaxTruncations \in Nat
    /\ \A c \in Costs : MaxG + MaxG + c <= MaxInt
    /\ MaxG + MaxG + 1 <= MaxInt

VARIABLES
    open,           \* OpenList::open: pairs <<g, BDD>>
    frontier,       \* Frontier: its g_value and the four buckets
    closed,         \* ClosedList::closed: pairs <<g, state>>
    hNotClosed,     \* ClosedList::hNotClosed
    fNotClosed,     \* ClosedList::fNotClosed
    lastStepCost,   \* UniformCostSearch::lastStepCost
    lowerBound,     \* SymController::lower_bound
    solution,       \* SymController::solution (a set of at most one record)
    images,         \* ResultExpansion::buckets still to be inserted
    dir,            \* the direction the current step advances
    pc,             \* where in SymbolicSearch::step the search is
    status,         \* SearchEngine::status
    truncations     \* number of BDDErrors so far

perDirection == <<open, frontier, closed, hNotClosed, fNotClosed, lastStepCost>>
controller   == <<lowerBound, solution>>
vars == <<perDirection, controller, images, dir, pc, status, truncations>>

-----------------------------------------------------------------------------
(* The state space manager.                                                *)

HasTransitions0 == 0 \in Costs

\* min_transition_cost as init_transitions sets it: 1 when there are no costs.
\* (transitions.begin()++)->first is still the first cost, which may be 0.
MinTransitionCost == IF Costs = {} THEN 1 ELSE Min(Costs)

\* Mutant: the least cost of the transitions that cost something, 0-cost ones or not.
LeastPositiveCost == IF Costs \subseteq {0} THEN 1 ELSE Min(Costs \ {0})

\* getAbsoluteMinTransitionCost
AbsMinTransitionCost == IF HasTransitions0 THEN 0 ELSE MinTransitionCost

\* TransitionRelation::image, and preimage in the backward search.
Image(d, tr, bdd) ==
    IF d = "fw" THEN {t \in States : \E s \in bdd : <<s, t>> \in tr}
                ELSE {s \in States : \E t \in bdd : <<s, t>> \in tr}

ImageBucket(d, cost, bucket) == {Image(d, tr, bdd) : tr \in TRs[cost], bdd \in bucket}

\* Mutant: the states that violate a mutex are kept instead of the others.
FilterComplement(d, initialization, bdd) ==
    IF MutexType = "and" \/ (MutexType = "edeletion" /\ initialization)
    THEN bdd \ NotMutex[d] ELSE bdd

\* What filter_mutex makes of a BDD (e-deletion only filters at the start).
FilterMutex(d, initialization, bdd) ==
    IF MutexType = "and" \/ (MutexType = "edeletion" /\ initialization)
    THEN bdd \cap NotMutex[d] ELSE bdd

\* mergeBucket: groups of BDDs are replaced by their disjunction, some merges
\* may be given up, and the zero BDD is dropped.
MergeBucket(bucket) ==
    {{UNION {b \in bucket : f[b] = group} : group \in bucket} \ {{}} :
        f \in [bucket -> bucket]}

-----------------------------------------------------------------------------
(* Open list, frontier and closed list.                                    *)

SmallerOf(a, b) == IF a <= b THEN a ELSE b
LargerOf(a, b)  == IF a <= b THEN b ELSE a

\* A sum of ints that overflows wraps around (twice at most for three ints).
Int32(n) == IF n > MaxInt THEN n - 2 * (MaxInt + 1) ELSE n

Opposite(d) == IF d = "fw" THEN "bw" ELSE "fw"

\* The BDD a search starts from.
Source(d) == IF d = "fw" THEN {InitState} ELSE Goal

\* Mutant: the last bucket of the map instead of the first.
MaxKey(o) == Max({entry[1] : entry \in o})

MinG(o) == Min({entry[1] : entry \in o})

\* Frontier::set (and init): a new g-value, and a bucket still to be filtered.
Popped(g, bucket) ==
    [g |-> g, filter |-> bucket, merge |-> {}, zero |-> {}, cost |-> {}]

FrontierEmpty(f) == f.filter = {} /\ f.merge = {} /\ f.zero = {} /\ f.cost = {}

\* Mutant: a search that has nothing left reports more than the largest int.
MinNextGUnbounded(o, f) ==
    LET next_g == (IF FrontierEmpty(f) THEN MaxInt ELSE f.g) + AbsMinTransitionCost
    IN  IF o = {} THEN next_g ELSE SmallerOf(next_g, MinG(o))

\* Mutant: the open list is forgotten.
MinNextGOfFrontier(o, f) ==
    IF FrontierEmpty(f) THEN MaxInt ELSE f.g + AbsMinTransitionCost

\* OpenList::minNextG; it is also getF and getHNotClosed of a search.
MinNextG(o, f) ==
    LET next_g == IF FrontierEmpty(f) THEN MaxInt ELSE f.g + AbsMinTransitionCost
    IN  IF o = {} THEN next_g ELSE SmallerOf(next_g, MinG(o))

GetF(d) == MinNextG(open[d], frontier[d])

GetG(d) == IF ~ FrontierEmpty(frontier[d]) THEN frontier[d].g
           ELSE IF open[d] = {} THEN MaxInt ELSE MinG(open[d])

\* BidirectionalSearch::getF
BidirectionalF ==
    LargerOf(LargerOf(GetF("fw"), GetF("bw")),
             Int32(GetG("fw") + GetG("bw") + AbsMinTransitionCost))

ClosedStates(c) == {entry[2] : entry \in c}

\* perfectHeuristic: the closed list of the opposite search or, when there is
\* no such search, an OppositeFrontierFixed of its source.
OppositeClosed(d) ==
    IF Opposite(d) \in Directions THEN closed[Opposite(d)]
                                  ELSE {0} \X Source(Opposite(d))
OppositeHNotClosed(d) ==
    IF Opposite(d) \in Directions THEN hNotClosed[Opposite(d)]
                                  ELSE AbsMinTransitionCost
OppositeExhausted(d) ==
    Opposite(d) \in Directions /\ fNotClosed[Opposite(d)] = MaxInt

\* UniformCostSearch::initialization
Initialization(d, g) == g = 0 /\ lastStepCost[d]

-----------------------------------------------------------------------------
(* Bounds and solutions.                                                   *)

NoSolution     == [g |-> -1, h |-> -1, cut |-> {}]
IsSolved(sol)  == sol.g + sol.h >= 0
UpperOf(sol)   == IF IsSolved(sol) THEN sol.g + sol.h ELSE MaxInt
UpperBound     == UpperOf(solution)
EngineSolved   == lowerBound >= UpperBound

\* Mutant: the bound is raised only once there is a solution.
LowerBoundWithSolution(lower, sol) ==
    IF IsSolved(sol) THEN LargerOf(lowerBound, SmallerOf(lower, sol.g + sol.h))
                     ELSE lowerBound

\* SymController::setLowerBound
LowerBoundAfter(lower, sol) ==
    LargerOf(lowerBound, IF IsSolved(sol) THEN SmallerOf(lower, sol.g + sol.h)
                                          ELSE lower)

SymSolution(d, g, h, cut) ==
    [g |-> IF d = "fw" THEN g ELSE h, h |-> IF d = "fw" THEN h ELSE g, cut |-> cut]

\* checkCut on the BDDs of a bucket: the solutions of least h it meets.
Cuts(d, bdds) == {entry \in OppositeClosed(d) : entry[2] \in UNION bdds}

\* Mutant: the cut is the whole BDD, not its intersection with closed[h].
WholeCuts(d, g, bdds) ==
    LET h == Min({entry[1] : entry \in Cuts(d, bdds)})
    IN  {SymSolution(d, g, h, b) :
            b \in {b \in bdds : \E s \in b : <<h, s>> \in OppositeClosed(d)}}

BestCuts(d, g, bdds) ==
    LET h == Min({entry[1] : entry \in Cuts(d, bdds)})
    IN  {SymSolution(d, g, h, {s \in b : <<h, s>> \in OppositeClosed(d)}) :
            b \in {b \in bdds : \E s \in b : <<h, s>> \in OppositeClosed(d)}}

\* Mutant: the last solution found replaces the best one.
LastSolution(d, g, bdds) ==
    IF Cuts(d, bdds) = {} THEN {solution} ELSE BestCuts(d, g, bdds)

\* new_solution for each of them: a solution is only replaced by a better one.
SolutionsAfterCut(d, g, bdds) ==
    IF Cuts(d, bdds) = {} THEN {solution}
    ELSE {IF ~ IsSolved(solution) \/ sol.g + sol.h < solution.g + solution.h
          THEN sol ELSE solution : sol \in BestCuts(d, g, bdds)}

\* Mutant: what a search has closed is left in the bucket.
KeepClosed(d, bdds) == bdds

\* checkCutOriginal prunes what the opposite search has closed.
NotClosedOpposite(d, bdds) == {b \ ClosedStates(OppositeClosed(d)) : b \in bdds}

\* frontier.filter(!closed->notClosed()) drops what the search itself closed.
NotClosedOwn(d, bdds) == {b \ ClosedStates(closed[d]) : b \in bdds}

\* Once the opposite search is exhausted only states it closed can matter.
NotDeadEnd(d, bdds) ==
    IF OppositeExhausted(d) THEN {b \cap ClosedStates(OppositeClosed(d)) : b \in bdds} ELSE bdds

\* filterMutex on a popped bucket gives up after max_aux_time or max_aux_nodes,
\* having filtered some of the BDDs; the zero BDD is dropped.
PopFilterOutcomes(d, g, bdds) ==
    {((bdds \ done) \cup {FilterMutex(d, Initialization(d, g), b) : b \in done}) \ {{}} :
        done \in SUBSET bdds}

-----------------------------------------------------------------------------
(* Frontier::prepare: filter the mutexes of Sfilter, merge Smerge, and pass*)
(* the result to Szero and S.  It may give up between any two BDDs.        *)

\* Mutant: Smerge keeps its BDDs after they have been passed on.
PreparedKeepingMerge(f, merged) ==
    IF HasTransitions0
    THEN [f EXCEPT !.filter = {}, !.merge = merged, !.zero = merged,
                    !.cost = @ \cup merged]
    ELSE [f EXCEPT !.filter = {}, !.merge = merged, !.cost = merged]

Prepared(f, merged) ==
    IF HasTransitions0
    THEN [f EXCEPT !.filter = {}, !.merge = f.zero, !.zero = merged,
                    !.cost = @ \cup merged]
    ELSE [f EXCEPT !.filter = {}, !.merge = f.cost, !.cost = merged]

\* filterMutexBucket has filtered the BDDs of done and they are in Smerge.
Filtered(d, f, done) ==
    f.merge \cup {FilterMutex(d, Initialization(d, f.g), b) : b \in done}

PrepareOutcomes(d, f) ==
    LET count  == Cardinality(f.merge) + Cardinality(f.filter)
        merges == IF count > 1 THEN MergeBucket(Filtered(d, f, f.filter))
                               ELSE {Filtered(d, f, f.filter)}
    IN  IF count = 0 THEN {[ok |-> TRUE, frontier |-> f]}
        ELSE {[ok |-> FALSE, frontier |-> [f EXCEPT !.filter = @ \ done, !.merge = Filtered(d, f, done)]] :
                 done \in {done \in SUBSET f.filter : done # f.filter \/ count > 1}}
             \cup
             {IF Cardinality(merged) > 1
              THEN [ok |-> FALSE, frontier |-> [f EXCEPT !.filter = {}, !.merge = merged]]
              ELSE [ok |-> TRUE, frontier |-> Prepared(f, merged)] : merged \in merges}

\* Prepare the frontier of d, and count the attempts that fail.
Prepare(d, outcome) ==
    /\ outcome \in PrepareOutcomes(d, frontier[d])
    /\ outcome.ok \/ truncations < MaxTruncations
    /\ frontier' = [frontier EXCEPT ![d] = outcome.frontier]
    /\ truncations' = IF outcome.ok THEN truncations ELSE truncations + 1

-----------------------------------------------------------------------------
(* SymbolicSearch::initialize: both init calls, up to their last call of   *)
(* Frontier::prepare, which may already fail.                              *)

Init ==
    LET start(d) == Popped(0, {Source(d)})
        ready(d) == Prepared(start(d), {FilterMutex(d, TRUE, Source(d))})
    IN  /\ open = [d \in Directions |-> {}]
        /\ \E unprepared \in SUBSET Directions :
              frontier = [d \in Directions |->
                             IF d \in unprepared THEN start(d) ELSE ready(d)]
        /\ closed = [d \in Directions |-> {0} \X Source(d)]
        /\ hNotClosed = [d \in Directions |-> AbsMinTransitionCost]
        /\ fNotClosed = [d \in Directions |-> AbsMinTransitionCost]
        /\ lastStepCost = [d \in Directions |-> TRUE]
        /\ lowerBound = AbsMinTransitionCost
        /\ solution = NoSolution
        /\ images = {}
        /\ dir \in Directions
        /\ pc = "step"
        /\ status = "IN_PROGRESS"
        /\ truncations = 0

\* stepImage of the direction selectBestDirection picks (which one depends on
\* estimates that are not modelled), up to the end of frontier.prepare.
Step(d) ==
    /\ pc = "step"
    /\ status = "IN_PROGRESS"
    /\ \E outcome \in PrepareOutcomes(d, frontier[d]) :
          /\ Prepare(d, outcome)
          /\ pc' = IF ~ outcome.ok \/ EngineSolved THEN "finish" ELSE "expand"
    /\ dir' = d
    /\ UNCHANGED <<open, closed, hNotClosed, fNotClosed, lastStepCost, controller, images, status>>

\* Frontier::expand_zero: the 0-cost image of Szero.
ExpandZero ==
    /\ pc = "expand"
    /\ frontier[dir].zero # {}
    /\ images' = {<<frontier[dir].g, ImageBucket(dir, 0, frontier[dir].zero)>>}
    /\ frontier' = [frontier EXCEPT ![dir].zero = {}]
    /\ lastStepCost' = [lastStepCost EXCEPT ![dir] = FALSE]
    /\ pc' = "insert"
    /\ UNCHANGED <<open, closed, hNotClosed, fNotClosed, controller, dir, status, truncations>>

\* Frontier::expand_cost: the images of S, one bucket per cost.  A run stays
\* within MaxG, below which no sum overflows.
ExpandCost ==
    /\ pc = "expand"
    /\ frontier[dir].zero = {}
    /\ \A c \in Costs : frontier[dir].g + c <= MaxG
    /\ images' = {<<frontier[dir].g + c, ImageBucket(dir, c, frontier[dir].cost)>> :
                     c \in Costs \ {0}}
    /\ frontier' = [frontier EXCEPT ![dir].cost = {}]
    /\ lastStepCost' = [lastStepCost EXCEPT ![dir] = FALSE]
    /\ pc' = "insert"
    /\ UNCHANGED <<open, closed, hNotClosed, fNotClosed, controller, dir, status, truncations>>

\* A BDDError in the image: Szero and S stay as they are.
ExpandTruncated ==
    /\ pc = "expand"
    /\ truncations < MaxTruncations
    /\ truncations' = truncations + 1
    /\ pc' = "pop"
    /\ UNCHANGED <<perDirection, controller, images, dir, status>>

\* Mutant: the margin to the upper bound is one too large.
InsertedWithMargin(d, cost, bdds, upper) ==
    LET fVal == Int32(cost + OppositeHNotClosed(d))
    IN  IF fVal + 1 < upper THEN {cost} \X (NotClosedOpposite(d, bdds) \ {{}}) ELSE {}

\* What stepImage inserts in open: the states not cut whose f-value is below
\* the upper bound.
Inserted(d, cost, bdds, upper) ==
    LET fVal == Int32(cost + OppositeHNotClosed(d))
    IN  IF fVal < upper THEN {cost} \X (NotClosedOpposite(d, bdds) \ {{}}) ELSE {}

\* One turn of the loop over the images: merge the bucket, look for a cut with
\* the opposite search, and insert in open what may improve the upper bound.
Insert ==
    /\ pc = "insert"
    /\ \E image \in images :
          /\ \A other \in images : image[1] <= other[1]
          /\ \E merged \in MergeBucket(image[2]) :
                /\ solution' \in SolutionsAfterCut(dir, image[1], merged)
                /\ open' = [open EXCEPT ![dir] = @ \cup
                               Inserted(dir, image[1], merged, UpperOf(solution'))]
          /\ images' = images \ {image}
    /\ UNCHANGED <<frontier, closed, hNotClosed, fNotClosed, lastStepCost, lowerBound,
                   dir, pc, status, truncations>>

InsertDone ==
    /\ pc = "insert"
    /\ images = {}
    /\ pc' = "pop"
    /\ UNCHANGED <<perDirection, controller, images, dir, status, truncations>>

\* prepareBucket when no bucket is ready: pop the bucket of least g, look for a
\* cut, drop what either search has closed and close the rest.
Pop ==
    /\ pc = "pop"
    /\ FrontierEmpty(frontier[dir])
    /\ open[dir] # {}
    /\ LET g      == MinG(open[dir])
           popped == {entry[2] : entry \in {e \in open[dir] : e[1] = g}}
           fresh  == NotDeadEnd(dir, NotClosedOwn(dir, NotClosedOpposite(dir, popped)))
       IN  /\ solution' \in SolutionsAfterCut(dir, g, popped)
           /\ open' = [open EXCEPT ![dir] = {e \in @ : e[1] # g}]
           /\ \E bucket \in PopFilterOutcomes(dir, g, fresh) :
                 /\ frontier' = [frontier EXCEPT ![dir] = Popped(g, bucket)]
                 /\ closed' = IF ~ lastStepCost[dir] \/ g # 0
                              THEN [closed EXCEPT ![dir] = @ \cup ({g} \X UNION bucket)]
                              ELSE closed
    /\ LET f == MinNextG(open'[dir], frontier'[dir])
       IN  /\ hNotClosed' = [hNotClosed EXCEPT ![dir] = LargerOf(@, f)]
           /\ fNotClosed' = [fNotClosed EXCEPT ![dir] = LargerOf(@, f)]
           /\ lowerBound' = LowerBoundAfter(f, solution')
    /\ UNCHANGED <<lastStepCost, images, dir, pc, status, truncations>>

\* prepareBucket when there is nothing left to pop.
Exhaust ==
    /\ pc = "pop"
    /\ FrontierEmpty(frontier[dir])
    /\ open[dir] = {}
    /\ hNotClosed' = [hNotClosed EXCEPT ![dir] = MaxInt]
    /\ fNotClosed' = [fNotClosed EXCEPT ![dir] = MaxInt]
    /\ lowerBound' = LowerBoundAfter(MaxInt, solution)
    /\ pc' = "finish"
    /\ UNCHANGED <<open, frontier, closed, lastStepCost, solution, images, dir, status, truncations>>

\* The end of prepareBucket: prepare the ready bucket unless the task is solved.
\* stepImage and computeEstimation call prepareBucket several times in a row, so
\* that an attempt that fails may be repeated at once, and another bucket popped
\* when all states of this one violate a mutex.
PrepareNext ==
    /\ pc = "pop"
    /\ ~ FrontierEmpty(frontier[dir])
    /\ \/ /\ EngineSolved
          /\ pc' = "finish"
          /\ UNCHANGED <<frontier, truncations>>
       \/ /\ ~ EngineSolved
          /\ \E outcome \in PrepareOutcomes(dir, frontier[dir]) :
                /\ Prepare(dir, outcome)
                /\ pc' \in IF outcome.ok /\ ~ FrontierEmpty(outcome.frontier)
                           THEN {"finish"} ELSE {"pop", "finish"}
    /\ UNCHANGED <<open, closed, hNotClosed, fNotClosed, lastStepCost, controller, images, dir, status>>

\* Mutant: bounds that have met are not enough.
LateVerdict(lower) == IF lower <= UpperBound THEN "IN_PROGRESS"
                      ELSE IF IsSolved(solution) THEN "SOLVED" ELSE "FAILED"

\* What SymbolicSearch::step returns.
Verdict(lower) == IF lower < UpperBound THEN "IN_PROGRESS"
                  ELSE IF IsSolved(solution) THEN "SOLVED" ELSE "FAILED"

\* The end of BidirectionalSearch::stepImage and of SymbolicSearch::step, and
\* the timer that SearchEngine::search looks at after each step.
Finish ==
    /\ pc = "finish"
    /\ lowerBound' = IF Directions = {"fw", "bw"}
                     THEN LowerBoundAfter(BidirectionalF, solution) ELSE lowerBound
    /\ \/ status' = Verdict(lowerBound')
       \/ TimeLimit /\ status' = "TIMEOUT"
    /\ pc' = "step"
    /\ UNCHANGED <<perDirection, solution, images, dir, truncations>>

\* SearchEngine::search has left its loop.
Terminated ==
    /\ status # "IN_PROGRESS"
    /\ UNCHANGED vars

Next ==
    \/ \E d \in Directions : Step(d)
    \/ ExpandZero
    \/ ExpandCost
    \/ ExpandTruncated
    \/ Insert
    \/ InsertDone
    \/ Pop
    \/ Exhaust
    \/ PrepareNext
    \/ Finish
    \/ Terminated

Spec == Init /\ [][Next]_vars

\* The planner runs one thread that never waits for anything.
FairSpec == Spec /\ WF_vars(Next)

=============================================================================
