---------------------------- MODULE SearchProofs ----------------------------
(***************************************************************************)
(* What holds of every symbolic search: its types, so that every g-value   *)
(* and bound is an int that has not overflowed; that it is optimal in one  *)
(* direction (UnidirectionalInv); in one direction or in both the          *)
(* structure of its open, frontier and closed lists, and that it loses no  *)
(* plan that would improve the solution; and that the bidirectional search *)
(* is optimal when there are 0-cost operators or all costs are multiples   *)
(* of the least one.  All that for every task, every choice of the BDDs    *)
(* that are merged or left unfiltered, and any number of truncated steps.  *)
(***************************************************************************)
EXTENDS BidirectionalInvariant, RecursionLemmas

\* getAbsoluteMinTransitionCost is a lower bound of all costs, and the sums of
\* stepImage and of minNextG stay within an int.
LEMMA AbsMinBounds ==
    /\ AbsMinTransitionCost \in Nat
    /\ \A c \in Costs : AbsMinTransitionCost <= c
    /\ MaxG + MaxG + AbsMinTransitionCost <= MaxInt
<1>1. /\ Costs \subseteq Nat
      /\ MaxInt \in Nat
      /\ MaxG \in Nat
      /\ \A c \in Costs : MaxG + MaxG + c <= MaxInt
      /\ MaxG + MaxG + 1 <= MaxInt
  BY TaskAssumption, BoundAssumption
<1>2. CASE Costs = {}
  BY <1>1, <1>2 DEF AbsMinTransitionCost, MinTransitionCost, HasTransitions0
<1>3. CASE HasTransitions0
  <2>1. AbsMinTransitionCost = 0
    BY <1>3 DEF AbsMinTransitionCost
  <2>. QED
    BY <1>1, <2>1
<1>4. CASE ~ HasTransitions0 /\ Costs # {}
  <2>1. /\ Min(Costs) \in Costs
        /\ \A c \in Costs : Min(Costs) <= c
    BY <1>1, <1>4, LeastNumber
  <2>2. AbsMinTransitionCost = Min(Costs)
    BY <1>4 DEF AbsMinTransitionCost, MinTransitionCost
  <2>. QED
    BY <1>1, <2>1, <2>2
<1>. QED
  BY <1>2, <1>3, <1>4

\* mergeBucket represents the same states before and after.
LEMMA MergeKeepsStates ==
    ASSUME NEW bucket \in Bucket, NEW merged \in MergeBucket(bucket)
    PROVE  merged \in Bucket /\ UNION merged = UNION bucket
<1>1. PICK f \in [bucket -> bucket] :
          merged = {UNION {b \in bucket : f[b] = group} : group \in bucket} \ {{}}
  BY DEF MergeBucket
<1>2. \A s : s \in UNION bucket => s \in UNION merged
  <2>. SUFFICES ASSUME NEW s, NEW b \in bucket, s \in b
                PROVE  \E m \in merged : s \in m
    OBVIOUS
  <2>1. s \in UNION {a \in bucket : f[a] = f[b]}
    OBVIOUS
  <2>2. UNION {a \in bucket : f[a] = f[b]} \in merged
    BY <1>1, <2>1
  <2>. QED
    BY <2>1, <2>2
<1>3. \A s : s \in UNION merged => s \in UNION bucket
  BY <1>1
<1>4. merged \in Bucket
  BY <1>1 DEF Bucket, BDD
<1>. QED
  BY <1>2, <1>3, <1>4

\* filter_mutex removes states, but none that satisfies every mutex.
LEMMA FilterMutexKeeps ==
    ASSUME NEW d, NEW initialization, NEW bdd
    PROVE  /\ FilterMutex(d, initialization, bdd) \subseteq bdd
           /\ \A s \in bdd : s \in NotMutex[d] => s \in FilterMutex(d, initialization, bdd)
BY DEF FilterMutex

\* A state of Smerge, or one of Sfilter that satisfies every mutex, is still in
\* Smerge once the BDDs of a set done have been filtered.
LEMMA FilteredKeepsStates ==
    ASSUME NEW d \in Directions, NEW f \in FrontierType, NEW done \in SUBSET f.filter
    PROVE  /\ Filtered(d, f, done) \in Bucket
           /\ UNION f.merge \subseteq UNION Filtered(d, f, done)
           /\ \A s \in NotMutex[d] : s \in UNION done => s \in UNION Filtered(d, f, done)
<1>. DEFINE bucket == Filtered(d, f, done)
<1>1. f.merge \in Bucket /\ f.filter \in Bucket
  BY DEF FrontierType
<1>2. \A b \in done : FilterMutex(d, Initialization(d, f.g), b) \in BDD
  BY <1>1, FilterMutexKeeps DEF Bucket, BDD
<1>3. bucket \in Bucket
  BY <1>1, <1>2 DEF Bucket, Filtered
<1>4. \A s \in NotMutex[d] : s \in UNION done => s \in UNION bucket
  <2>. SUFFICES ASSUME NEW s \in NotMutex[d], NEW b \in done, s \in b
                PROVE  s \in UNION bucket
    OBVIOUS
  <2>1. s \in FilterMutex(d, Initialization(d, f.g), b)
    BY FilterMutexKeeps
  <2>2. FilterMutex(d, Initialization(d, f.g), b) \in bucket
    BY DEF Filtered
  <2>. QED
    BY <2>1, <2>2
<1>5. UNION f.merge \subseteq UNION bucket
  BY DEF Filtered
<1>. QED
  BY <1>3, <1>4, <1>5

\* Frontier::prepare loses no state that satisfies every mutex, whether it
\* succeeds or gives up.
LEMMA PrepareKeepsStates ==
    ASSUME NEW d \in Directions, NEW f \in FrontierType, NEW outcome \in PrepareOutcomes(d, f)
    PROVE  /\ outcome.frontier \in FrontierType
           /\ outcome.frontier.g = f.g
           /\ \A c \in Costs, s \in NotMutex[d] :
                 s \in Unexpanded(f, c) => s \in Unexpanded(outcome.frontier, c)
           /\ /\ ~ HasTransitions0 => f.zero = {}
              /\ UNION f.zero \subseteq UNION f.cost
              => /\ ~ HasTransitions0 => outcome.frontier.zero = {}
                 /\ UNION outcome.frontier.zero \subseteq UNION outcome.frontier.cost
<1>. DEFINE count == Cardinality(f.merge) + Cardinality(f.filter)
            merges == IF count > 1 THEN MergeBucket(Filtered(d, f, f.filter))
                                   ELSE {Filtered(d, f, f.filter)}
            next == outcome.frontier
            Partial(done) == [f EXCEPT !.filter = @ \ done, !.merge = Filtered(d, f, done)]
            Unmerged(merged) == [f EXCEPT !.filter = {}, !.merge = merged]
<1>1. f \in [g : Nat, filter : Bucket, merge : Bucket, zero : Bucket, cost : Bucket]
  BY DEF FrontierType
<1>2. \/ outcome = [ok |-> TRUE, frontier |-> f]
      \/ \E done \in SUBSET f.filter : outcome = [ok |-> FALSE, frontier |-> Partial(done)]
      \/ \E merged \in merges : outcome = [ok |-> FALSE, frontier |-> Unmerged(merged)]
      \/ \E merged \in merges : outcome = [ok |-> TRUE, frontier |-> Prepared(f, merged)]
  BY DEF PrepareOutcomes
<1>3. \A merged \in merges :
         /\ merged \in Bucket
         /\ UNION f.merge \subseteq UNION merged
         /\ \A s \in NotMutex[d] : s \in UNION f.filter => s \in UNION merged
  <2>1. /\ Filtered(d, f, f.filter) \in Bucket
        /\ UNION f.merge \subseteq UNION Filtered(d, f, f.filter)
        /\ \A s \in NotMutex[d] : s \in UNION f.filter => s \in UNION Filtered(d, f, f.filter)
    BY FilteredKeepsStates
  <2>. QED
    BY <2>1, MergeKeepsStates
<1>. HIDE DEF merges
<1>4. CASE outcome = [ok |-> TRUE, frontier |-> f]
  BY <1>1, <1>4
<1>5. ASSUME NEW done \in SUBSET f.filter,
             outcome = [ok |-> FALSE, frontier |-> Partial(done)]
      PROVE  /\ next \in FrontierType
             /\ next.g = f.g /\ next.zero = f.zero /\ next.cost = f.cost
             /\ next.filter = f.filter \ done
             /\ UNION f.merge \subseteq UNION next.merge
             /\ \A s \in NotMutex[d] : s \in UNION done => s \in UNION next.merge
  <2>1. next = Partial(done)
    BY <1>5
  <2>2. /\ Filtered(d, f, done) \in Bucket
        /\ UNION f.merge \subseteq UNION Filtered(d, f, done)
        /\ \A s \in NotMutex[d] : s \in UNION done => s \in UNION Filtered(d, f, done)
    BY FilteredKeepsStates
  <2>3. f.filter \ done \in Bucket
    BY <1>1 DEF Bucket
  <2>. QED
    BY <1>1, <2>1, <2>2, <2>3 DEF FrontierType
<1>6. ASSUME NEW merged \in merges,
             outcome = [ok |-> FALSE, frontier |-> Unmerged(merged)]
      PROVE  /\ next \in FrontierType
             /\ next.g = f.g /\ next.zero = f.zero /\ next.cost = f.cost
             /\ next.filter = {}
             /\ next.merge = merged
  <2>1. next = Unmerged(merged)
    BY <1>6
  <2>2. {} \in Bucket
    BY DEF Bucket
  <2>. QED
    BY <1>1, <1>3, <2>1, <2>2 DEF FrontierType
<1>7. ASSUME NEW merged \in merges,
             outcome = [ok |-> TRUE, frontier |-> Prepared(f, merged)]
      PROVE  /\ next \in FrontierType
             /\ next.g = f.g
             /\ next.filter = {}
             /\ HasTransitions0 => /\ next.merge = f.zero
                                   /\ next.zero = merged
                                   /\ next.cost = f.cost \cup merged
             /\ ~ HasTransitions0 => /\ next.merge = f.cost
                                     /\ next.zero = f.zero
                                     /\ next.cost = merged
  <2>1. next = Prepared(f, merged)
    BY <1>7
  <2>2. {} \in Bucket /\ f.cost \cup merged \in Bucket
    BY <1>1, <1>3 DEF Bucket
  <2>. QED
    BY <1>1, <1>3, <2>1, <2>2 DEF FrontierType, Prepared
<1>8. next \in FrontierType /\ next.g = f.g
  BY <1>2, <1>4, <1>5, <1>6, <1>7
<1>9. ASSUME NEW c \in Costs, NEW s \in NotMutex[d], s \in Unexpanded(f, c)
       PROVE  s \in Unexpanded(next, c)
  <2>1. \/ s \in UNION f.filter \/ s \in UNION f.merge \/ s \in UNION f.zero
        \/ c # 0 /\ s \in UNION f.cost
    BY <1>9 DEF Unexpanded
  <2>2. SUFFICES \/ s \in UNION next.filter \/ s \in UNION next.merge \/ s \in UNION next.zero
                 \/ c # 0 /\ s \in UNION next.cost
    BY DEF Unexpanded
  <2>3. c = 0 => HasTransitions0
    BY DEF HasTransitions0
  <2>4. CASE outcome = [ok |-> TRUE, frontier |-> f]
    BY <2>1, <2>4
  <2>5. ASSUME NEW done \in SUBSET f.filter,
               outcome = [ok |-> FALSE, frontier |-> Partial(done)]
        PROVE  \/ s \in UNION next.filter \/ s \in UNION next.merge \/ s \in UNION next.zero
               \/ c # 0 /\ s \in UNION next.cost
    <3>1. s \in UNION f.filter => s \in UNION (f.filter \ done) \/ s \in UNION done
      OBVIOUS
    <3>. HIDE DEF next
    <3>. QED
      BY <1>5, <2>1, <2>5, <3>1
  <2>6. ASSUME NEW merged \in merges,
               outcome = [ok |-> FALSE, frontier |-> Unmerged(merged)]
        PROVE  \/ s \in UNION next.filter \/ s \in UNION next.merge \/ s \in UNION next.zero
               \/ c # 0 /\ s \in UNION next.cost
    BY <1>3, <1>6, <2>1, <2>6
  <2>7. ASSUME NEW merged \in merges,
               outcome = [ok |-> TRUE, frontier |-> Prepared(f, merged)]
        PROVE  \/ s \in UNION next.filter \/ s \in UNION next.merge \/ s \in UNION next.zero
               \/ c # 0 /\ s \in UNION next.cost
    BY <1>3, <1>7, <2>1, <2>3, <2>7
  <2>. QED
    BY <1>2, <2>4, <2>5, <2>6, <2>7
<1>10. ASSUME ~ HasTransitions0 => f.zero = {}, UNION f.zero \subseteq UNION f.cost
       PROVE  /\ ~ HasTransitions0 => next.zero = {}
              /\ UNION next.zero \subseteq UNION next.cost
  BY <1>2, <1>4, <1>5, <1>6, <1>7, <1>10
<1>. QED
  BY <1>8, <1>9, <1>10

\* The first key of the open list.
LEMMA MinGIsLeast ==
    ASSUME NEW o \in SUBSET (Nat \X BDD), o # {}
    PROVE  /\ MinG(o) \in Nat
           /\ \E entry \in o : entry[1] = MinG(o)
           /\ \A entry \in o : MinG(o) <= entry[1]
<1>. DEFINE keys == {entry[1] : entry \in o}
<1>1. keys \subseteq Nat /\ keys # {}
  OBVIOUS
<1>2. Min(keys) \in keys /\ \A k \in keys : Min(keys) <= k
  BY <1>1, LeastNumber
<1>. QED
  BY <1>1, <1>2 DEF MinG

\* minNextG is an int, which is the largest one only when a search has ended.
LEMMA MinNextGRange ==
    ASSUME NEW o \in SUBSET (Nat \X BDD), \A entry \in o : entry[1] <= MaxG,
           NEW f \in FrontierType, f.g <= MaxG
    PROVE  MinNextG(o, f) \in 0 .. MaxInt
<1>1. MaxG \in Nat /\ MaxInt \in Nat /\ MaxG <= MaxInt
  BY BoundAssumption
<1>. DEFINE next_g == IF FrontierEmpty(f) THEN MaxInt ELSE f.g + AbsMinTransitionCost
<1>2. next_g \in 0 .. MaxInt
  <2>1. f.g \in Nat
    BY DEF FrontierType
  <2>. QED
    BY <1>1, <2>1, AbsMinBounds
<1>3. o # {} => MinG(o) \in 0 .. MaxInt
  BY <1>1, MinGIsLeast
<1>4. MinNextG(o, f) = IF o = {} THEN next_g ELSE SmallerOf(next_g, MinG(o))
  BY DEF MinNextG
<1>. HIDE DEF next_g
<1>. QED
  BY <1>2, <1>3, <1>4 DEF SmallerOf

\* A solution is either none, or an upper bound that is a natural number.
LEMMA UpperOfSolution ==
    ASSUME NEW sol \in SolutionType
    PROVE  /\ UpperOf(sol) \in Nat
           /\ ~ IsSolved(sol) => UpperOf(sol) = MaxInt
           /\ IsSolved(sol) => /\ sol.g \in Nat /\ sol.h \in Nat
                               /\ UpperOf(sol) = sol.g + sol.h
BY BoundAssumption DEF SolutionType, UpperOf, IsSolved, NoSolution

\* setLowerBound keeps the bound an int, never lowers it, and does not raise it
\* above both the new value and the upper bound.
LEMMA LowerBoundAfterRange ==
    ASSUME NEW lower \in 0 .. MaxInt, NEW sol \in SolutionType, lowerBound \in 0 .. MaxInt
    PROVE  /\ LowerBoundAfter(lower, sol) \in 0 .. MaxInt
           /\ \/ LowerBoundAfter(lower, sol) = lowerBound
              \/ /\ LowerBoundAfter(lower, sol) <= lower
                 /\ LowerBoundAfter(lower, sol) <= UpperOf(sol)
<1>1. MaxInt \in Nat
  BY BoundAssumption
<1>2. CASE IsSolved(sol)
  BY <1>1, <1>2, UpperOfSolution DEF LowerBoundAfter, LargerOf, SmallerOf
<1>3. CASE ~ IsSolved(sol)
  BY <1>1, <1>3, UpperOfSolution DEF LowerBoundAfter, LargerOf, SmallerOf
<1>. QED
  BY <1>2, <1>3

\* What checkCut and new_solution leave as the solution: it is no worse than the
\* last one nor than any meeting of the bucket with the opposite closed list.
LEMMA SolutionAfterCut ==
    ASSUME NEW d \in {"fw", "bw"}, NEW g \in Nat, NEW bdds \in Bucket,
           OppositeClosed(d) \in SUBSET (Nat \X States),
           solution \in SolutionType,
           NEW sol \in SolutionsAfterCut(d, g, bdds)
    PROVE  /\ sol \in SolutionType
           /\ \/ sol = solution
              \/ /\ IsSolved(sol)
                 /\ IsSolved(solution) => UpperOf(sol) <= UpperOf(solution)
                 /\ \E entry \in OppositeClosed(d) : UpperOf(sol) = g + entry[1]
           /\ \A entry \in OppositeClosed(d) :
                 entry[2] \in UNION bdds => IsSolved(sol) /\ UpperOf(sol) <= g + entry[1]
<1>1. CASE Cuts(d, bdds) = {}
  BY <1>1 DEF SolutionsAfterCut, Cuts
<1>2. CASE Cuts(d, bdds) # {}
  <2>. DEFINE keys == {entry[1] : entry \in Cuts(d, bdds)}
              h == Min(keys)
  <2>1. keys \subseteq Nat /\ keys # {}
    BY <1>2 DEF Cuts
  <2>2. h \in keys /\ \A k \in keys : h <= k
    BY <2>1, LeastNumber
  <2>. HIDE DEF h
  <2>3. /\ h \in Nat
        /\ \E entry \in OppositeClosed(d) : entry[1] = h
        /\ \A entry \in OppositeClosed(d) : entry[2] \in UNION bdds => h <= entry[1]
    BY <2>1, <2>2 DEF Cuts
  <2>4. PICK best \in BestCuts(d, g, bdds) :
           sol = IF ~ IsSolved(solution) \/ best.g + best.h < solution.g + solution.h
                 THEN best ELSE solution
    BY <1>2 DEF SolutionsAfterCut
  <2>5. PICK b \in bdds :
           best = SymSolution(d, g, h, {s \in b : <<h, s>> \in OppositeClosed(d)})
    BY <2>4 DEF BestCuts, h
  <2>. DEFINE cut == {s \in b : <<h, s>> \in OppositeClosed(d)}
  <2>6. cut \in BDD
    BY DEF Bucket, BDD
  <2>. HIDE DEF cut
  <2>7. /\ best \in [g : Nat, h : Nat, cut : BDD]
        /\ best.g + best.h = g + h
    BY <2>3, <2>5, <2>6 DEF SymSolution, cut
  <2>8. /\ best \in SolutionType
        /\ IsSolved(best)
        /\ UpperOf(best) = g + h
    BY <2>3, <2>7 DEF SolutionType, IsSolved, UpperOf
  <2>9. CASE sol = best
    <3>1. IsSolved(solution) => UpperOf(best) <= UpperOf(solution)
      <4>. SUFFICES ASSUME IsSolved(solution), UpperOf(solution) < UpperOf(best) PROVE FALSE
        BY <2>3, <2>8, UpperOfSolution
      <4>1. ~ (best.g + best.h < solution.g + solution.h)
        BY <2>3, <2>7, <2>8, UpperOfSolution
      <4>2. solution = best
        BY <2>4, <2>9, <4>1
      <4>. QED
        BY <2>8, <4>2, UpperOfSolution
    <3>. QED
      BY <2>3, <2>8, <2>9, <3>1
  <2>10. CASE sol # best
    <3>1. /\ sol = solution
          /\ IsSolved(solution)
          /\ ~ (best.g + best.h < solution.g + solution.h)
      BY <2>4, <2>10
    <3>2. UpperOf(solution) <= g + h
      BY <2>3, <2>7, <3>1, UpperOfSolution
    <3>3. \A entry \in OppositeClosed(d) :
             entry[2] \in UNION bdds => UpperOf(solution) <= g + entry[1]
      BY <2>3, <3>2, UpperOfSolution
    <3>. QED
      BY <3>1, <3>3
  <2>. QED
    BY <2>9, <2>10
<1>. QED
  BY <1>1, <1>2

\* A bucket is a vector of finitely many BDDs.
LEMMA BucketFinite ==
    ASSUME NEW bucket \in Bucket
    PROVE  /\ Cardinality(bucket) \in Nat
           /\ Cardinality(bucket) = 0 <=> bucket = {}
           /\ (Cardinality(bucket) = 1) <=> (\E b : bucket = {b})
<1>1. IsFiniteSet(SUBSET States)
  BY TaskAssumption, FS_SUBSET
<1>2. bucket \in SUBSET (SUBSET States)
  BY DEF Bucket, BDD
<1>3. IsFiniteSet(bucket)
  BY <1>1, <1>2, FS_Subset
<1>. QED
  BY <1>3, FS_CardinalityType, FS_EmptySet, FS_Singleton

\* mergeBucket keeps a BDD of a bucket that holds no zero BDD.
LEMMA MergeKeepsBDDs ==
    ASSUME NEW bucket \in Bucket, bucket # {}, {} \notin bucket,
           NEW merged \in MergeBucket(bucket)
    PROVE  merged # {} /\ {} \notin merged
<1>1. PICK b \in bucket : b # {}
  OBVIOUS
<1>2. UNION merged = UNION bucket
  BY MergeKeepsStates
<1>3. UNION merged # {}
  BY <1>1, <1>2
<1>. QED
  BY <1>3 DEF MergeBucket

\* Frontier::prepare keeps the order of the four buckets and adds no state, and it
\* has emptied Sfilter and Smerge when it succeeds.
LEMMA PrepareKeepsShape ==
    ASSUME NEW d \in Directions, NEW f \in FrontierType, NEW outcome \in PrepareOutcomes(d, f),
           Shaped(f)
    PROVE  /\ Shaped(outcome.frontier)
           /\ FrontierStates(outcome.frontier) \subseteq FrontierStates(f)
           /\ outcome.ok => outcome.frontier.filter = {} /\ outcome.frontier.merge = {}
<1>. DEFINE count == Cardinality(f.merge) + Cardinality(f.filter)
            merges == IF count > 1 THEN MergeBucket(Filtered(d, f, f.filter))
                                   ELSE {Filtered(d, f, f.filter)}
            next == outcome.frontier
            Partial(done) == [f EXCEPT !.filter = @ \ done, !.merge = Filtered(d, f, done)]
            Unmerged(merged) == [f EXCEPT !.filter = {}, !.merge = merged]
<1>1. /\ f \in [g : Nat, filter : Bucket, merge : Bucket, zero : Bucket, cost : Bucket]
      /\ f.merge \in Bucket /\ f.filter \in Bucket
      /\ Cardinality(f.merge) \in Nat /\ Cardinality(f.filter) \in Nat
      /\ Cardinality(f.merge) = 0 <=> f.merge = {}
      /\ Cardinality(f.filter) = 0 <=> f.filter = {}
  BY BucketFinite DEF FrontierType
<1>2. \/ count = 0 /\ outcome = [ok |-> TRUE, frontier |-> f]
      \/ count # 0 /\ \E done \in SUBSET f.filter : outcome = [ok |-> FALSE, frontier |-> Partial(done)]
      \/ count # 0 /\ \E merged \in merges : outcome = [ok |-> FALSE, frontier |-> Unmerged(merged)]
      \/ count # 0 /\ \E merged \in merges : /\ outcome = [ok |-> TRUE, frontier |-> Prepared(f, merged)]
                                             /\ ~ (Cardinality(merged) > 1)
  BY DEF PrepareOutcomes
<1>3. \A done \in SUBSET f.filter : /\ Filtered(d, f, done) \in Bucket
                                    /\ UNION Filtered(d, f, done) \subseteq UNION (f.merge \cup f.filter)
  <2>. SUFFICES ASSUME NEW done \in SUBSET f.filter
                PROVE  /\ Filtered(d, f, done) \in Bucket
                       /\ UNION Filtered(d, f, done) \subseteq UNION (f.merge \cup f.filter)
    OBVIOUS
  <2>1. \A b : FilterMutex(d, Initialization(d, f.g), b) \subseteq b
    BY FilterMutexKeeps
  <2>2. UNION Filtered(d, f, done) \subseteq UNION (f.merge \cup f.filter)
    BY <2>1 DEF Filtered
  <2>. QED
    BY <2>2, FilteredKeepsStates
<1>4. \A merged \in merges : merged \in Bucket /\ UNION merged \subseteq UNION (f.merge \cup f.filter)
  BY <1>3, MergeKeepsStates
<1>5. count # 0 => f.zero = {} /\ f.cost = {}
  BY <1>1 DEF Shaped
<1>6. count = 0 => f.filter = {} /\ f.merge = {}
  BY <1>1
<1>7. Cardinality({}) <= 1
  BY FS_EmptySet
<1>8. ASSUME next.zero = {}, next.cost = {},
              UNION (next.filter \cup next.merge) \subseteq UNION (f.merge \cup f.filter)
       PROVE  Shaped(next) /\ FrontierStates(next) \subseteq FrontierStates(f)
  <2>1. Shaped(next)
    BY <1>8, <1>7 DEF Shaped
  <2>2. FrontierStates(next) = UNION (next.filter \cup next.merge)
    BY <1>8 DEF FrontierStates
  <2>3. UNION (f.merge \cup f.filter) \subseteq FrontierStates(f)
    BY DEF FrontierStates
  <2>. QED
    BY <1>8, <2>1, <2>2, <2>3
<1>. HIDE DEF merges, count
<1>9. CASE count = 0 /\ outcome = [ok |-> TRUE, frontier |-> f]
  BY <1>6, <1>9
<1>10. ASSUME count # 0, NEW done \in SUBSET f.filter,
             outcome = [ok |-> FALSE, frontier |-> Partial(done)]
      PROVE  Shaped(next) /\ FrontierStates(next) \subseteq FrontierStates(f) /\ ~ outcome.ok
  <2>1. /\ next.zero = {} /\ next.cost = {}
        /\ next.filter = f.filter \ done /\ next.merge = Filtered(d, f, done)
    BY <1>1, <1>5, <1>10
  <2>2. UNION (next.filter \cup next.merge) \subseteq UNION (f.merge \cup f.filter)
    BY <1>3, <1>10, <2>1
  <2>. QED
    BY <1>10, <1>8, <2>1, <2>2
<1>11. ASSUME count # 0, NEW merged \in merges,
             outcome = [ok |-> FALSE, frontier |-> Unmerged(merged)]
      PROVE  Shaped(next) /\ FrontierStates(next) \subseteq FrontierStates(f) /\ ~ outcome.ok
  <2>1. /\ next.zero = {} /\ next.cost = {}
        /\ next.filter = {} /\ next.merge = merged
    BY <1>1, <1>5, <1>11
  <2>2. UNION (next.filter \cup next.merge) \subseteq UNION (f.merge \cup f.filter)
    BY <1>4, <1>11, <2>1
  <2>. QED
    BY <1>11, <1>8, <2>1, <2>2
<1>12. ASSUME count # 0, NEW merged \in merges, ~ (Cardinality(merged) > 1),
              outcome = [ok |-> TRUE, frontier |-> Prepared(f, merged)]
       PROVE  /\ Shaped(next)
              /\ FrontierStates(next) \subseteq FrontierStates(f)
              /\ next.filter = {} /\ next.merge = {}
  <2>1. Cardinality(merged) <= 1
    BY <1>4, <1>12, BucketFinite
  <2>2. /\ next.filter = {} /\ next.merge = {}
        /\ next.zero \in {merged, {}} /\ next.cost = merged
    BY <1>1, <1>5, <1>12 DEF Prepared
  <2>3. Shaped(next)
    BY <1>7, <2>1, <2>2 DEF Shaped
  <2>4. FrontierStates(next) \subseteq UNION merged
    BY <2>2 DEF FrontierStates
  <2>5. UNION (f.merge \cup f.filter) \subseteq FrontierStates(f)
    BY DEF FrontierStates
  <2>. QED
    BY <1>4, <2>2, <2>3, <2>4, <2>5
<1>. QED
  BY <1>2, <1>9, <1>10, <1>11, <1>12

\* Unless mutexes are filtered from every BDD, Frontier::prepare makes no zero BDD of
\* one that has been popped, and so never leaves an empty frontier.
LEMMA PrepareKeepsBDDs ==
    ASSUME NEW d \in Directions, NEW f \in FrontierType, NEW outcome \in PrepareOutcomes(d, f),
           Shaped(f), Nonzero(d, f), MutexType # "and"
    PROVE  /\ Nonzero(d, outcome.frontier)
           /\ FrontierEmpty(outcome.frontier) => FrontierEmpty(f)
<1>. DEFINE count == Cardinality(f.merge) + Cardinality(f.filter)
            merges == IF count > 1 THEN MergeBucket(Filtered(d, f, f.filter))
                                   ELSE {Filtered(d, f, f.filter)}
            next == outcome.frontier
            Partial(done) == [f EXCEPT !.filter = @ \ done, !.merge = Filtered(d, f, done)]
            Unmerged(merged) == [f EXCEPT !.filter = {}, !.merge = merged]
<1>1. /\ f \in [g : Nat, filter : Bucket, merge : Bucket, zero : Bucket, cost : Bucket]
      /\ f.merge \in Bucket /\ f.filter \in Bucket
      /\ Cardinality(f.merge) \in Nat /\ Cardinality(f.filter) \in Nat
      /\ Cardinality(f.merge) = 0 <=> f.merge = {}
      /\ Cardinality(f.filter) = 0 <=> f.filter = {}
  BY BucketFinite DEF FrontierType
<1>2. \/ outcome = [ok |-> TRUE, frontier |-> f]
      \/ count # 0 /\ \E done \in SUBSET f.filter :
                         /\ done # f.filter \/ count > 1
                         /\ outcome = [ok |-> FALSE, frontier |-> Partial(done)]
      \/ count # 0 /\ \E merged \in merges : /\ outcome = [ok |-> FALSE, frontier |-> Unmerged(merged)]
                                             /\ Cardinality(merged) > 1
      \/ count # 0 /\ \E merged \in merges : outcome = [ok |-> TRUE, frontier |-> Prepared(f, merged)]
  BY DEF PrepareOutcomes
<1>3. next.g = f.g
  BY PrepareKeepsStates
<1>4. count # 0 => /\ f.zero = {} /\ f.cost = {}
                   /\ f.filter # {} \/ f.merge # {}
  BY <1>1 DEF Shaped
<1>5. CASE outcome = [ok |-> TRUE, frontier |-> f]
  BY <1>5
<1>6. CASE Initialization(d, f.g)
  <2>1. f.filter \subseteq {Source(d)} /\ f.merge = {}
    BY <1>6 DEF Nonzero
  <2>2. f.filter = {} \/ f.filter = {Source(d)}
    BY <2>1
  <2>3. ~ (count > 1) /\ (count # 0 => f.filter = {Source(d)})
    BY <1>1, <2>1, <2>2, BucketFinite, FS_EmptySet
  <2>4. \A merged \in merges : merged = Filtered(d, f, f.filter)
    BY <2>3, <1>1
  <2>5. f.filter # {} => Filtered(d, f, f.filter) # {}
    BY DEF Filtered
  <2>6. ~ (Cardinality(Filtered(d, f, f.filter)) > 1)
    <3>1. \/ Filtered(d, f, f.filter) = {}
          \/ Filtered(d, f, f.filter) = {FilterMutex(d, Initialization(d, f.g), Source(d))}
      BY <2>1, <2>2 DEF Filtered
    <3>2. \A x : Cardinality({x}) = 1
      BY FS_Singleton
    <3>3. Cardinality({}) = 0
      BY FS_EmptySet
    <3>4. \/ Cardinality(Filtered(d, f, f.filter)) = 0
          \/ Cardinality(Filtered(d, f, f.filter)) = 1
      BY <3>1, <3>2, <3>3, Zenon
    <3>. QED
      BY <3>4
  <2>. HIDE DEF merges, count
  <2>7. CASE \E done \in SUBSET f.filter :
                /\ done # f.filter /\ count # 0
                /\ outcome = [ok |-> FALSE, frontier |-> Partial(done)]
    <3>1. PICK done \in SUBSET f.filter :
                /\ done # f.filter /\ count # 0
                /\ outcome = [ok |-> FALSE, frontier |-> Partial(done)]
      BY <2>7
    <3>2. done = {}
      BY <2>1, <3>1
    <3>3. Filtered(d, f, {}) = {}
      BY <2>1 DEF Filtered
    <3>4. next.filter = f.filter /\ next.merge = {}
      BY <1>1, <3>1, <3>2, <3>3
    <3>. QED
      BY <1>3, <1>6, <2>1, <2>3, <3>1, <3>4 DEF Nonzero, FrontierEmpty
  <2>8. CASE count # 0 /\ \E merged \in merges : outcome = [ok |-> TRUE, frontier |-> Prepared(f, merged)]
    <3>1. PICK merged \in merges : outcome = [ok |-> TRUE, frontier |-> Prepared(f, merged)]
      BY <2>8
    <3>2. merged # {}
      BY <2>3, <2>4, <2>5, <2>8
    <3>3. next.filter = {} /\ next.merge = {} /\ next.cost # {}
      BY <1>1, <1>4, <2>8, <3>1, <3>2 DEF Prepared
    <3>. QED
      BY <1>3, <1>6, <3>3 DEF Nonzero, FrontierEmpty
  <2>9. \A merged \in merges : ~ (Cardinality(merged) > 1)
    BY <2>4, <2>6
  <2>. QED
    BY <1>2, <1>5, <2>3, <2>7, <2>8, <2>9
<1>7. CASE ~ Initialization(d, f.g)
  <2>1. {} \notin f.filter \cup f.merge
    BY <1>7 DEF Nonzero
  <2>2. \A done \in SUBSET f.filter : Filtered(d, f, done) = f.merge \cup done
    BY <1>7 DEF Filtered, FilterMutex
  <2>3. count # 0 => \A merged \in merges : merged # {} /\ {} \notin merged
    <3>1. /\ Filtered(d, f, f.filter) = f.merge \cup f.filter
          /\ Filtered(d, f, f.filter) \in Bucket
      BY <2>2, FilteredKeepsStates
    <3>. QED
      BY <1>4, <2>1, <3>1, MergeKeepsBDDs
  <2>. HIDE DEF merges, count
  <2>4. CASE \E done \in SUBSET f.filter :
                count # 0 /\ outcome = [ok |-> FALSE, frontier |-> Partial(done)]
    <3>1. PICK done \in SUBSET f.filter : outcome = [ok |-> FALSE, frontier |-> Partial(done)]
      BY <2>4
    <3>2. next.filter = f.filter \ done /\ next.merge = f.merge \cup done
      BY <1>1, <2>2, <3>1
    <3>. QED
      BY <1>3, <1>4, <1>7, <2>1, <2>4, <3>2 DEF Nonzero, FrontierEmpty
  <2>5. CASE count # 0 /\ \E merged \in merges : outcome = [ok |-> FALSE, frontier |-> Unmerged(merged)]
    <3>1. PICK merged \in merges : outcome = [ok |-> FALSE, frontier |-> Unmerged(merged)]
      BY <2>5
    <3>2. next.filter = {} /\ next.merge = merged
      BY <1>1, <3>1
    <3>. QED
      BY <1>3, <1>7, <2>3, <2>5, <3>2 DEF Nonzero, FrontierEmpty
  <2>6. CASE count # 0 /\ \E merged \in merges : outcome = [ok |-> TRUE, frontier |-> Prepared(f, merged)]
    <3>1. PICK merged \in merges : outcome = [ok |-> TRUE, frontier |-> Prepared(f, merged)]
      BY <2>6
    <3>2. next.filter = {} /\ next.merge = {} /\ next.cost # {}
      BY <1>1, <1>4, <2>3, <2>6, <3>1 DEF Prepared
    <3>. QED
      BY <1>3, <1>7, <3>2 DEF Nonzero, FrontierEmpty
  <2>. QED
    BY <1>2, <1>5, <2>4, <2>5, <2>6
<1>. QED
  BY <1>6, <1>7

\* A new solution is a nonempty cut of the bucket with a layer of the opposite search.
LEMMA CutOfNewSolution ==
    ASSUME NEW d, NEW g, NEW bdds, NEW sol \in SolutionsAfterCut(d, g, bdds), sol # solution
    PROVE  \E h, cut : /\ sol = SymSolution(d, g, h, cut)
                       /\ cut # {}
                       /\ \A s \in cut : s \in UNION bdds /\ <<h, s>> \in OppositeClosed(d)
<1>. DEFINE h == Min({entry[1] : entry \in Cuts(d, bdds)})
<1>1. sol \in BestCuts(d, g, bdds)
  BY DEF SolutionsAfterCut
<1>2. PICK b \in bdds : /\ \E s \in b : <<h, s>> \in OppositeClosed(d)
                        /\ sol = SymSolution(d, g, h, {s \in b : <<h, s>> \in OppositeClosed(d)})
  BY <1>1 DEF BestCuts
<1>. DEFINE cut == {s \in b : <<h, s>> \in OppositeClosed(d)}
<1>3. cut # {} /\ \A s \in cut : s \in UNION bdds /\ <<h, s>> \in OppositeClosed(d)
  BY <1>2
<1>. HIDE DEF h, cut
<1>4. sol = SymSolution(d, g, h, cut)
  BY <1>2 DEF cut
<1>. QED
  BY <1>3, <1>4

\* setLowerBound never lowers the bound, and lifts it to the upper bound at the end.
LEMMA LowerBoundRises ==
    ASSUME NEW lower \in 0 .. MaxInt, NEW sol \in SolutionType, lowerBound \in 0 .. MaxInt
    PROVE  /\ LowerBoundAfter(lower, sol) >= lowerBound
           /\ lower = MaxInt => LowerBoundAfter(lower, sol) >= SmallerOf(MaxInt, UpperOf(sol))
<1>. USE DEF LowerBoundAfter, LargerOf, SmallerOf
<1>1. MaxInt \in Nat
  BY BoundAssumption
<1>2. CASE IsSolved(sol)
  BY <1>1, <1>2, UpperOfSolution
<1>3. CASE ~ IsSolved(sol)
  BY <1>1, <1>3, UpperOfSolution
<1>. QED
  BY <1>2, <1>3

-----------------------------------------------------------------------------
(* Type correctness.                                                       *)


\* TypeOK is not inductive alone: no g-value is greater than MaxG either, so that
\* the sums of Next are ints.
TypeInv == TypeOK /\ WithinMaxG

\* The constants of the task, and the BDDs the searches start from.
LEMMA ConstantTypes ==
    /\ MaxInt \in Nat /\ MaxG \in Nat /\ MaxTruncations \in Nat
    /\ MaxG <= MaxInt
    /\ Costs \subseteq Nat
    /\ Directions \subseteq {"fw", "bw"}
    /\ \A d : Source(d) \in BDD
    /\ \A d : {0} \X Source(d) \in SUBSET (Nat \X States)
BY TaskAssumption, BoundAssumption DEF Source, BDD

\* perfectHeuristic is a map from g-values to states, whichever class it is of.
LEMMA OppositeClosedType ==
    ASSUME TypeOK, NEW d
    PROVE  OppositeClosed(d) \in SUBSET (Nat \X States)
<1>1. CASE Opposite(d) \in Directions
  BY <1>1 DEF OppositeClosed, TypeOK
<1>2. CASE Opposite(d) \notin Directions
  BY <1>2, ConstantTypes DEF OppositeClosed
<1>. QED
  BY <1>1, <1>2

\* An image or preimage is a set of states of the task.
LEMMA ImageBucketType ==
    ASSUME NEW d, NEW c, NEW bucket \in Bucket
    PROVE  ImageBucket(d, c, bucket) \in Bucket
<1>1. \A tr, bdd : Image(d, tr, bdd) \in BDD
  BY DEF Image, BDD
<1>. QED
  BY <1>1 DEF ImageBucket, Bucket

\* The state that both calls of UniformCostSearch::init leave.
LEMMA InitType == Init => TypeInv
<1>. SUFFICES ASSUME Init PROVE TypeInv
  OBVIOUS
<1>. DEFINE start(d) == Popped(0, {Source(d)})
            ready(d) == Prepared(start(d), {FilterMutex(d, TRUE, Source(d))})
<1>1. \A d \in Directions : start(d) \in FrontierType /\ start(d).g = 0
  BY ConstantTypes DEF Popped, FrontierType, Bucket
<1>2. \A d \in Directions : ready(d) \in FrontierType /\ ready(d).g = 0
  <2>. SUFFICES ASSUME NEW d \in Directions
                PROVE  ready(d) \in FrontierType /\ ready(d).g = 0
    OBVIOUS
  <2>1. Source(d) \in BDD /\ FilterMutex(d, TRUE, Source(d)) \in BDD
    BY ConstantTypes, FilterMutexKeeps DEF BDD
  <2>2. {FilterMutex(d, TRUE, Source(d))} \in Bucket /\ {Source(d)} \in Bucket /\ {} \in Bucket
    BY <2>1 DEF Bucket
  <2>. QED
    BY <2>2 DEF Prepared, Popped, FrontierType
<1>3. PICK unprepared \in SUBSET Directions :
         frontier = [d \in Directions |-> IF d \in unprepared THEN start(d) ELSE ready(d)]
  BY DEF Init
<1>. HIDE DEF start, ready
<1>4. /\ frontier \in [Directions -> FrontierType]
      /\ \A d \in Directions : frontier[d].g = 0
  BY <1>1, <1>2, <1>3
<1>5. /\ open = [d \in Directions |-> {}]
      /\ closed = [d \in Directions |-> {0} \X Source(d)]
      /\ hNotClosed = [d \in Directions |-> AbsMinTransitionCost]
      /\ fNotClosed = [d \in Directions |-> AbsMinTransitionCost]
      /\ lastStepCost = [d \in Directions |-> TRUE]
      /\ lowerBound = AbsMinTransitionCost
      /\ solution = NoSolution
      /\ images = {}
      /\ dir \in Directions
      /\ pc = "step"
      /\ status = "IN_PROGRESS"
      /\ truncations = 0
  BY DEF Init
<1>6. AbsMinTransitionCost \in 0 .. MaxInt
  BY AbsMinBounds, ConstantTypes
<1>7. TypeOK
  BY <1>4, <1>5, <1>6, ConstantTypes DEF TypeOK, SolutionType
<1>8. WithinMaxG
  BY <1>4, <1>5, ConstantTypes DEF WithinMaxG
<1>. QED
  BY <1>7, <1>8 DEF TypeInv

\* Frontier::prepare, called by stepImage and by prepareBucket.
LEMMA PrepareType ==
    ASSUME TypeInv, NEW d \in Directions, NEW outcome \in PrepareOutcomes(d, frontier[d]),
           Prepare(d, outcome)
    PROVE  /\ frontier' \in [Directions -> FrontierType]
           /\ \A e \in Directions : frontier'[e].g = frontier[e].g
           /\ truncations' \in 0 .. MaxTruncations
<1>1. /\ frontier[d] \in FrontierType
      /\ frontier \in [Directions -> FrontierType]
      /\ truncations \in 0 .. MaxTruncations
  BY DEF TypeInv, TypeOK
<1>2. /\ outcome.frontier \in FrontierType
      /\ outcome.frontier.g = frontier[d].g
  BY <1>1, PrepareKeepsStates
<1>3. frontier' = [frontier EXCEPT ![d] = outcome.frontier]
  BY DEF Prepare
<1>4. truncations' \in 0 .. MaxTruncations
  BY <1>1, ConstantTypes DEF Prepare
<1>. QED
  BY <1>1, <1>2, <1>3, <1>4

\* The steps that end in Frontier::prepare.
LEMMA PrepareStepType ==
    ASSUME TypeInv,
           \/ \E d \in Directions : Step(d)
           \/ PrepareNext
    PROVE  TypeInv'
<1>1. /\ frontier' \in [Directions -> FrontierType]
      /\ \A e \in Directions : frontier'[e].g = frontier[e].g
      /\ truncations' \in 0 .. MaxTruncations
      /\ dir' \in Directions
      /\ pc' \in {"step", "expand", "insert", "pop", "finish"}
      /\ UNCHANGED <<open, closed, hNotClosed, fNotClosed, lastStepCost, lowerBound, solution,
                     images, status>>
  <2>1. CASE \E d \in Directions : Step(d)
    <3>1. PICK d \in Directions : Step(d)
      BY <2>1
    <3>2. PICK outcome \in PrepareOutcomes(d, frontier[d]) :
             /\ Prepare(d, outcome)
             /\ pc' = IF ~ outcome.ok \/ EngineSolved THEN "finish" ELSE "expand"
      BY <3>1 DEF Step
    <3>3. pc' \in {"step", "expand", "insert", "pop", "finish"}
      BY <3>2
    <3>. QED
      BY <3>1, <3>2, <3>3, PrepareType DEF Step, controller
  <2>2. CASE PrepareNext /\ EngineSolved
    BY <2>2 DEF PrepareNext, controller, TypeInv, TypeOK
  <2>3. CASE PrepareNext /\ ~ EngineSolved
    <3>1. dir \in Directions
      BY DEF TypeInv, TypeOK
    <3>2. PICK outcome \in PrepareOutcomes(dir, frontier[dir]) : Prepare(dir, outcome)
      BY <2>3 DEF PrepareNext
    <3>. QED
      BY <2>3, <3>1, <3>2, PrepareType DEF PrepareNext, controller
  <2>. QED
    BY <2>1, <2>2, <2>3
<1>2. TypeOK'
  BY <1>1 DEF TypeInv, TypeOK
<1>3. WithinMaxG'
  BY <1>1 DEF TypeInv, WithinMaxG
<1>. QED
  BY <1>2, <1>3 DEF TypeInv

\* expand_zero and expand_cost: below MaxG no g-value of an image overflows.
LEMMA ExpandType ==
    ASSUME TypeInv, ExpandZero \/ ExpandCost \/ ExpandTruncated
    PROVE  TypeInv'
<1>. USE DEF perDirection, controller
<1>1. /\ dir \in Directions
      /\ frontier \in [Directions -> FrontierType]
      /\ frontier[dir] \in [g : Nat, filter : Bucket, merge : Bucket, zero : Bucket, cost : Bucket]
      /\ {} \in Bucket
      /\ frontier[dir].g <= MaxG
  BY DEF TypeInv, TypeOK, WithinMaxG, FrontierType, Bucket
<1>2. CASE ExpandTruncated
  <2>1. truncations' \in 0 .. MaxTruncations
    BY <1>2, ConstantTypes DEF ExpandTruncated, TypeInv, TypeOK
  <2>2. TypeOK'
    BY <1>2, <2>1 DEF ExpandTruncated, TypeInv, TypeOK
  <2>3. WithinMaxG'
    BY <1>2 DEF ExpandTruncated, TypeInv, WithinMaxG
  <2>. QED
    BY <2>2, <2>3 DEF TypeInv
<1>3. CASE ExpandZero \/ ExpandCost
  <2>1. /\ frontier' \in [Directions -> FrontierType]
        /\ \A d \in Directions : frontier'[d].g = frontier[d].g
    <3>1. CASE ExpandZero
      <4>1. frontier' = [frontier EXCEPT ![dir] = [frontier[dir] EXCEPT !.zero = {}]]
        BY <3>1 DEF ExpandZero
      <4>2. [frontier[dir] EXCEPT !.zero = {}] \in FrontierType
        BY <1>1 DEF FrontierType
      <4>. QED
        BY <1>1, <4>1, <4>2
    <3>2. CASE ExpandCost
      <4>1. frontier' = [frontier EXCEPT ![dir] = [frontier[dir] EXCEPT !.cost = {}]]
        BY <3>2 DEF ExpandCost
      <4>2. [frontier[dir] EXCEPT !.cost = {}] \in FrontierType
        BY <1>1 DEF FrontierType
      <4>. QED
        BY <1>1, <4>1, <4>2
    <3>. QED
      BY <1>3, <3>1, <3>2
  <2>2. /\ images' \in SUBSET (Nat \X Bucket)
        /\ \A image \in images' : image[1] <= MaxG
    <3>1. CASE ExpandZero
      BY <1>1, <3>1, ImageBucketType DEF ExpandZero
    <3>2. CASE ExpandCost
      <4>1. \A c \in Costs : frontier[dir].g + c \in Nat /\ frontier[dir].g + c <= MaxG
        BY <1>1, <3>2, ConstantTypes DEF ExpandCost
      <4>2. \A c : ImageBucket(dir, c, frontier[dir].cost) \in Bucket
        BY <1>1, ImageBucketType
      <4>. QED
        BY <3>2, <4>1, <4>2 DEF ExpandCost
    <3>. QED
      BY <1>3, <3>1, <3>2
  <2>3. /\ lastStepCost' \in [Directions -> BOOLEAN]
        /\ pc' = "insert"
        /\ UNCHANGED <<open, closed, hNotClosed, fNotClosed, lowerBound, solution, dir, status,
                       truncations>>
    BY <1>3 DEF ExpandZero, ExpandCost, TypeInv, TypeOK
  <2>4. TypeOK'
    BY <2>1, <2>2, <2>3 DEF TypeInv, TypeOK
  <2>5. WithinMaxG'
    BY <2>1, <2>2, <2>3 DEF TypeInv, WithinMaxG
  <2>. QED
    BY <2>4, <2>5 DEF TypeInv
<1>. QED
  BY <1>2, <1>3

\* The loop of stepImage over the images.
LEMMA InsertType ==
    ASSUME TypeInv, Insert \/ InsertDone
    PROVE  TypeInv'
<1>. USE DEF perDirection, controller
<1>1. CASE InsertDone
  <2>1. TypeOK'
    BY <1>1 DEF InsertDone, TypeInv, TypeOK
  <2>2. WithinMaxG'
    BY <1>1 DEF InsertDone, TypeInv, WithinMaxG
  <2>. QED
    BY <2>1, <2>2 DEF TypeInv
<1>2. CASE Insert
  <2>0. PICK image \in images :
           /\ \E merged \in MergeBucket(image[2]) :
                 /\ solution' \in SolutionsAfterCut(dir, image[1], merged)
                 /\ open' = [open EXCEPT ![dir] = @ \cup
                                Inserted(dir, image[1], merged, UpperOf(solution'))]
           /\ images' = images \ {image}
    BY <1>2 DEF Insert
  <2>1. PICK merged \in MergeBucket(image[2]) :
           /\ solution' \in SolutionsAfterCut(dir, image[1], merged)
           /\ open' = [open EXCEPT ![dir] = @ \cup
                          Inserted(dir, image[1], merged, UpperOf(solution'))]
    BY <2>0
  <2>2. /\ dir \in Directions /\ dir \in {"fw", "bw"}
        /\ image[1] \in Nat /\ image[2] \in Bucket
        /\ image[1] <= MaxG
        /\ solution \in SolutionType
        /\ open \in [Directions -> SUBSET (Nat \X BDD)]
    BY ConstantTypes DEF TypeInv, TypeOK, WithinMaxG
  <2>3. merged \in Bucket
    BY <2>2, MergeKeepsStates
  <2>4. solution' \in SolutionType
    BY <2>1, <2>2, <2>3, SolutionAfterCut, OppositeClosedType DEF TypeInv
  <2>5. \A upper : /\ Inserted(dir, image[1], merged, upper) \in SUBSET (Nat \X BDD)
                   /\ \A entry \in Inserted(dir, image[1], merged, upper) : entry[1] <= MaxG
    <3>1. NotClosedOpposite(dir, merged) \in Bucket
      BY <2>3 DEF NotClosedOpposite, Bucket, BDD
    <3>. QED
      BY <2>2, <3>1 DEF Inserted, Bucket
  <2>6. /\ open' \in [Directions -> SUBSET (Nat \X BDD)]
        /\ \A d \in Directions : \A entry \in open'[d] : entry[1] <= MaxG
    <3>1. \A d \in Directions : \A entry \in open[d] : entry[1] <= MaxG
      BY DEF TypeInv, WithinMaxG
    <3>. QED
      BY <2>1, <2>2, <2>5, <3>1
  <2>7. UNCHANGED <<frontier, closed, hNotClosed, fNotClosed, lastStepCost, lowerBound,
                    dir, pc, status, truncations>>
    BY <1>2 DEF Insert
  <2>8. TypeOK'
    BY <2>0, <2>4, <2>6, <2>7 DEF TypeInv, TypeOK
  <2>9. WithinMaxG'
    BY <2>0, <2>6, <2>7 DEF TypeInv, WithinMaxG
  <2>. QED
    BY <2>8, <2>9 DEF TypeInv
<1>. QED
  BY <1>1, <1>2

\* The buckets a pop may leave: no new BDD, and no state that was not popped.
LEMMA PopFilterKeepsStates ==
    ASSUME NEW d \in Directions, NEW g, NEW bdds \in Bucket,
           NEW bucket \in PopFilterOutcomes(d, g, bdds)
    PROVE  /\ bucket \in Bucket
           /\ UNION bucket \subseteq UNION bdds
           /\ \A s \in NotMutex[d] : s \in UNION bdds => s \in UNION bucket
           /\ {} \notin bucket
<1>1. PICK done \in SUBSET bdds :
         bucket = ((bdds \ done) \cup {FilterMutex(d, Initialization(d, g), b) : b \in done}) \ {{}}
  BY DEF PopFilterOutcomes
<1>. DEFINE Image1(b) == FilterMutex(d, Initialization(d, g), b)
<1>2. \A b \in bdds : Image1(b) \subseteq b /\ Image1(b) \in BDD
  BY FilterMutexKeeps DEF Bucket, BDD
<1>3. bucket \in Bucket
  BY <1>1, <1>2 DEF Bucket
<1>4. \A m \in bucket : \E b \in bdds : m \subseteq b
  BY <1>1, <1>2
<1>5. ASSUME NEW s \in NotMutex[d], NEW b \in bdds, s \in b
      PROVE  \E m \in bucket : s \in m
  <2>1. CASE b \in done
    <3>1. s \in Image1(b)
      BY <1>5, FilterMutexKeeps
    <3>2. Image1(b) \in bucket
      BY <1>1, <2>1, <3>1
    <3>. QED
      BY <3>1, <3>2
  <2>2. CASE b \notin done
    BY <1>1, <1>5, <2>2
  <2>. QED
    BY <2>1, <2>2
<1>. QED
  BY <1>1, <1>3, <1>4, <1>5

\* What checkCutOriginal and frontier.filter prune are sets of states.
LEMMA PruningType ==
    ASSUME NEW d, NEW bdds \in Bucket
    PROVE  /\ NotClosedOpposite(d, bdds) \in Bucket
           /\ NotClosedOwn(d, bdds) \in Bucket
           /\ NotDeadEnd(d, bdds) \in Bucket
BY DEF NotClosedOpposite, NotClosedOwn, NotDeadEnd, Bucket, BDD

\* setHNotClosed and setFNotClosed keep their values ints.
LEMMA LargerOfType ==
    ASSUME NEW n \in 0 .. MaxInt, NEW m \in 0 .. MaxInt
    PROVE  LargerOf(n, m) \in 0 .. MaxInt
BY DEF LargerOf

\* prepareBucket when it pops a bucket.
LEMMA PopType ==
    ASSUME TypeInv, Pop
    PROVE  TypeInv'
<1>. DEFINE g == MinG(open[dir])
            popped == {entry[2] : entry \in {e \in open[dir] : e[1] = g}}
            fresh == NotDeadEnd(dir, NotClosedOwn(dir, NotClosedOpposite(dir, popped)))
            f == MinNextG(open'[dir], frontier'[dir])
<1>1. /\ dir \in Directions /\ dir \in {"fw", "bw"}
      /\ open \in [Directions -> SUBSET (Nat \X BDD)]
      /\ frontier \in [Directions -> FrontierType]
      /\ closed \in [Directions -> SUBSET (Nat \X States)]
      /\ hNotClosed \in [Directions -> 0 .. MaxInt]
      /\ fNotClosed \in [Directions -> 0 .. MaxInt]
      /\ lowerBound \in 0 .. MaxInt
      /\ solution \in SolutionType
      /\ \A d \in Directions : \A entry \in open[d] : entry[1] <= MaxG
      /\ \A d \in Directions : frontier[d].g <= MaxG
  BY ConstantTypes DEF TypeInv, TypeOK, WithinMaxG
<1>2. /\ open[dir] # {}
      /\ solution' \in SolutionsAfterCut(dir, g, popped)
      /\ open' = [open EXCEPT ![dir] = {e \in open[dir] : e[1] # g}]
      /\ \E bucket \in PopFilterOutcomes(dir, g, fresh) :
            /\ frontier' = [frontier EXCEPT ![dir] = Popped(g, bucket)]
            /\ closed' = IF ~ lastStepCost[dir] \/ g # 0
                         THEN [closed EXCEPT ![dir] = @ \cup ({g} \X UNION bucket)]
                         ELSE closed
      /\ hNotClosed' = [hNotClosed EXCEPT ![dir] = LargerOf(@, f)]
      /\ fNotClosed' = [fNotClosed EXCEPT ![dir] = LargerOf(@, f)]
      /\ lowerBound' = LowerBoundAfter(f, solution')
      /\ UNCHANGED <<lastStepCost, images, dir, pc, status, truncations>>
  BY DEF Pop
<1>3. /\ g \in Nat /\ g <= MaxG
      /\ popped \in Bucket
  <2>1. open[dir] \in SUBSET (Nat \X BDD)
    BY <1>1
  <2>2. g \in Nat /\ \E entry \in open[dir] : entry[1] = g
    BY <1>2, <2>1, MinGIsLeast
  <2>3. popped \in Bucket
    BY <2>1 DEF Bucket
  <2>. QED
    BY <1>1, <2>2, <2>3
<1>4. fresh \in Bucket
  BY <1>3, PruningType
<1>. HIDE DEF g, popped, fresh
<1>5. PICK bucket \in PopFilterOutcomes(dir, g, fresh) :
            /\ frontier' = [frontier EXCEPT ![dir] = Popped(g, bucket)]
            /\ closed' = IF ~ lastStepCost[dir] \/ g # 0
                         THEN [closed EXCEPT ![dir] = @ \cup ({g} \X UNION bucket)]
                         ELSE closed
  BY <1>2
<1>6. bucket \in Bucket
  BY <1>1, <1>4, <1>5, PopFilterKeepsStates
<1>7. /\ frontier' \in [Directions -> FrontierType]
      /\ \A d \in Directions : frontier'[d].g <= MaxG
  <2>1. Popped(g, bucket) \in FrontierType /\ Popped(g, bucket).g = g
    BY <1>3, <1>6 DEF Popped, FrontierType, Bucket
  <2>. QED
    BY <1>1, <1>3, <1>5, <2>1
<1>8. closed' \in [Directions -> SUBSET (Nat \X States)]
  <2>1. {g} \X UNION bucket \in SUBSET (Nat \X States)
    BY <1>3, <1>6 DEF Bucket, BDD
  <2>2. closed[dir] \cup ({g} \X UNION bucket) \in SUBSET (Nat \X States)
    BY <1>1, <2>1
  <2>. QED
    BY <1>1, <1>5, <2>2
<1>9. /\ open' \in [Directions -> SUBSET (Nat \X BDD)]
      /\ \A d \in Directions : \A entry \in open'[d] : entry[1] <= MaxG
  BY <1>1, <1>2
<1>10. solution' \in SolutionType
  BY <1>1, <1>2, <1>3, SolutionAfterCut, OppositeClosedType DEF TypeInv
<1>11. f \in 0 .. MaxInt
  BY <1>1, <1>7, <1>9, MinNextGRange
<1>. HIDE DEF f
<1>12. /\ hNotClosed' \in [Directions -> 0 .. MaxInt]
       /\ fNotClosed' \in [Directions -> 0 .. MaxInt]
  BY <1>1, <1>2, <1>11, LargerOfType
<1>13. lowerBound' \in 0 .. MaxInt
  BY <1>1, <1>2, <1>10, <1>11, LowerBoundAfterRange
<1>14. TypeOK'
  BY <1>2, <1>7, <1>8, <1>9, <1>10, <1>12, <1>13 DEF TypeInv, TypeOK
<1>15. WithinMaxG'
  BY <1>2, <1>7, <1>9 DEF TypeInv, WithinMaxG
<1>. QED
  BY <1>14, <1>15 DEF TypeInv

\* prepareBucket when there is nothing left to pop.
LEMMA ExhaustType ==
    ASSUME TypeInv, Exhaust
    PROVE  TypeInv'
<1>1. MaxInt \in 0 .. MaxInt
  BY ConstantTypes
<1>2. lowerBound' \in 0 .. MaxInt
  BY <1>1, LowerBoundAfterRange DEF Exhaust, TypeInv, TypeOK
<1>3. /\ hNotClosed' \in [Directions -> 0 .. MaxInt]
      /\ fNotClosed' \in [Directions -> 0 .. MaxInt]
  BY <1>1 DEF Exhaust, TypeInv, TypeOK
<1>4. TypeOK'
  BY <1>2, <1>3 DEF Exhaust, TypeInv, TypeOK
<1>5. WithinMaxG'
  BY DEF Exhaust, TypeInv, WithinMaxG
<1>. QED
  BY <1>4, <1>5 DEF TypeInv

\* BidirectionalSearch::getF wraps around at most once, so it is never more than
\* the largest int.
LEMMA BidirectionalFRange ==
    ASSUME TypeInv, Directions = {"fw", "bw"}
    PROVE  BidirectionalF \in 0 .. MaxInt
<1>1. \A d \in Directions :
         /\ open[d] \in SUBSET (Nat \X BDD)
         /\ \A entry \in open[d] : entry[1] <= MaxG
         /\ frontier[d] \in FrontierType
         /\ frontier[d].g \in 0 .. MaxG
  BY DEF TypeInv, TypeOK, WithinMaxG, FrontierType
<1>2. \A d \in Directions : GetF(d) \in 0 .. MaxInt
  BY <1>1, MinNextGRange DEF GetF
<1>3. \A d \in Directions : GetG(d) \in 0 .. MaxInt
  <2>. SUFFICES ASSUME NEW d \in Directions PROVE GetG(d) \in 0 .. MaxInt
    OBVIOUS
  <2>1. open[d] # {} => MinG(open[d]) \in 0 .. MaxG
    BY <1>1, MinGIsLeast, ConstantTypes
  <2>. QED
    BY <1>1, <2>1, ConstantTypes DEF GetG
<1>. DEFINE sum == GetG("fw") + GetG("bw") + AbsMinTransitionCost
<1>4. sum \in Nat /\ sum <= MaxInt + MaxInt + MaxInt
  BY <1>3, AbsMinBounds, ConstantTypes
<1>5. Int32(sum) \in Int /\ Int32(sum) <= MaxInt
  BY <1>3, <1>4, AbsMinBounds, ConstantTypes DEF Int32
<1>. HIDE DEF sum
<1>6. BidirectionalF = LargerOf(LargerOf(GetF("fw"), GetF("bw")), Int32(sum))
  BY DEF BidirectionalF, sum
<1>7. LargerOf(GetF("fw"), GetF("bw")) \in 0 .. MaxInt
  BY <1>2, LargerOfType
<1>. QED
  BY <1>5, <1>6, <1>7, ConstantTypes DEF LargerOf

\* The lower bound and the verdict at the end of a step.
LEMMA FinishType ==
    ASSUME TypeInv, Finish
    PROVE  TypeInv'
<1>. USE DEF perDirection
<1>1. lowerBound' \in 0 .. MaxInt
  BY BidirectionalFRange, LowerBoundAfterRange DEF Finish, TypeInv, TypeOK
<1>2. status' \in {"IN_PROGRESS", "SOLVED", "FAILED", "TIMEOUT"}
  BY DEF Finish, Verdict
<1>3. TypeOK'
  BY <1>1, <1>2 DEF Finish, TypeInv, TypeOK
<1>4. WithinMaxG'
  BY DEF Finish, TypeInv, WithinMaxG
<1>. QED
  BY <1>3, <1>4 DEF TypeInv

\* A step that changes nothing.
LEMMA UnchangedType ==
    ASSUME TypeInv, UNCHANGED vars
    PROVE  TypeInv'
BY DEF TypeInv, TypeOK, WithinMaxG, vars, perDirection, controller

\* Every step of a search preserves the types of its state.
LEMMA NextType ==
    ASSUME TypeInv, [Next]_vars
    PROVE  TypeInv'
<1>1. CASE (\E d \in Directions : Step(d)) \/ PrepareNext
  BY <1>1, PrepareStepType
<1>2. CASE ExpandZero \/ ExpandCost \/ ExpandTruncated
  BY <1>2, ExpandType
<1>3. CASE Insert \/ InsertDone
  BY <1>3, InsertType
<1>4. CASE Pop
  BY <1>4, PopType
<1>5. CASE Exhaust
  BY <1>5, ExhaustType
<1>6. CASE Finish
  BY <1>6, FinishType
<1>7. CASE Terminated \/ UNCHANGED vars
  BY <1>7, UnchangedType DEF Terminated
<1>. QED
  BY <1>1, <1>2, <1>3, <1>4, <1>5, <1>6, <1>7 DEF Next

\* No step of a search, in one direction or in both, leaves the types of its
\* state: no g-value, bound or key is negative or exceeds an int.
THEOREM TypeCorrect == Spec => []TypeOK
<1>1. TypeInv => TypeOK
  BY DEF TypeInv
<1>. QED
  BY InitType, NextType, <1>1, PTL DEF Spec

-----------------------------------------------------------------------------
(* One direction.                                                          *)

\* The search of the other direction does not run: its closed list is the source
\* it would start from (OppositeFrontierFixed).
LEMMA OneDirectionFacts ==
    ASSUME OneDirection, NEW d \in Directions
    PROVE  /\ Directions = {d}
           /\ d \in {"fw", "bw"}
           /\ OppositeClosed(d) = {0} \X Source(Opposite(d))
           /\ OppositeHNotClosed(d) = AbsMinTransitionCost
           /\ ~ OppositeExhausted(d)
           /\ Source(d) \cap Source(Opposite(d)) = {}
<1>1. d \in {"fw", "bw"} /\ Directions = {d}
  BY TaskAssumption DEF OneDirection
<1>2. Opposite(d) \notin Directions
  BY <1>1 DEF Opposite
<1>. QED
  BY <1>1, <1>2 DEF OppositeClosed, OppositeHNotClosed, OppositeExhausted, Source, Opposite,
                    OneDirection

-----------------------------------------------------------------------------
(* Plans.                                                                  *)

\* A plan, read backwards from its end in the direction of a search, leads from
\* its target to its source over transitions and states that violate no mutex.
LEMMA PlanNodes ==
    ASSUME NEW p \in Plans, NEW d \in {"fw", "bw"}
    PROVE  /\ p.len \in Nat
           /\ PlanCost(p) \in Nat /\ PlanCost(p) < MaxInt
           /\ \A n \in 0 .. p.len : /\ CostAt(d, p, n) \in Int
                                    /\ NodeAt(d, p, n) \in NotMutex[d]
           /\ NodeAt(d, p, p.len) \in Source(d) /\ CostAt(d, p, p.len) = 0
           /\ NodeAt(d, p, 0) \in Source(Opposite(d)) /\ CostAt(d, p, 0) = PlanCost(p)
           /\ \A n \in 1 .. p.len : \E c \in Costs :
                 /\ CostAt(d, p, n - 1) = CostAt(d, p, n) + c
                 /\ Leads(d, NodeAt(d, p, n), c, NodeAt(d, p, n - 1))
<1>1. /\ IsPlan(p)
      /\ PlanCost(p) < MaxInt
      /\ \A i \in 0 .. p.len : p.state[i] \in NotMutex[d]
  BY PlanAssumption
<1>2. /\ p.len \in Nat
      /\ p.g \in [0 .. p.len -> Nat]
      /\ p.state[0] = InitState /\ p.g[0] = 0
      /\ p.state[p.len] \in Goal
      /\ \A i \in 0 .. p.len - 1 : \E c \in Costs :
            p.g[i + 1] = p.g[i] + c /\ Transition(p.state[i], c, p.state[i + 1])
  BY <1>1 DEF IsPlan
<1>3. \A n \in 0 .. p.len : IndexAt(d, p, n) \in 0 .. p.len
  BY <1>2 DEF IndexAt
<1>4. PlanCost(p) \in Nat
  BY <1>2 DEF PlanCost
<1>5. \A n \in 0 .. p.len : CostAt(d, p, n) \in Int /\ NodeAt(d, p, n) \in NotMutex[d]
  <2>. SUFFICES ASSUME NEW n \in 0 .. p.len
                PROVE  CostAt(d, p, n) \in Int /\ NodeAt(d, p, n) \in NotMutex[d]
    OBVIOUS
  <2>1. IndexAt(d, p, n) \in 0 .. p.len
    BY <1>3
  <2>2. p.g[IndexAt(d, p, n)] \in Nat
    BY <1>2, <2>1
  <2>3. CostAt(d, p, n) \in Int
    BY <1>4, <2>2 DEF CostAt, CostFrom
  <2>. QED
    BY <1>1, <2>1, <2>3 DEF NodeAt
<1>6. NodeAt(d, p, p.len) \in Source(d) /\ CostAt(d, p, p.len) = 0
  BY <1>2, <1>4 DEF NodeAt, CostAt, CostFrom, IndexAt, Source, PlanCost
<1>7. NodeAt(d, p, 0) \in Source(Opposite(d)) /\ CostAt(d, p, 0) = PlanCost(p)
  <2>1. CASE d = "fw"
    <3>1. IndexAt(d, p, 0) = p.len
      BY <1>2, <2>1 DEF IndexAt
    <3>. QED
      BY <1>2, <2>1, <3>1 DEF NodeAt, CostAt, CostFrom, Source, Opposite, PlanCost
  <2>2. CASE d = "bw"
    <3>1. IndexAt(d, p, 0) = 0
      BY <2>2 DEF IndexAt
    <3>. QED
      BY <1>2, <1>4, <2>2, <3>1 DEF NodeAt, CostAt, CostFrom, Source, Opposite
  <2>. QED
    BY <2>1, <2>2
<1>8. ASSUME NEW n \in 1 .. p.len
      PROVE  \E c \in Costs : /\ CostAt(d, p, n - 1) = CostAt(d, p, n) + c
                              /\ Leads(d, NodeAt(d, p, n), c, NodeAt(d, p, n - 1))
  <2>1. CASE d = "fw"
    <3>1. p.len - n \in 0 .. p.len - 1 /\ p.len - n + 1 = p.len - (n - 1)
      BY <1>2
    <3>2. PICK c \in Costs : /\ p.g[p.len - n + 1] = p.g[p.len - n] + c
                             /\ Transition(p.state[p.len - n], c, p.state[p.len - n + 1])
      BY <1>2, <3>1
    <3>. QED
      BY <2>1, <3>1, <3>2 DEF NodeAt, CostAt, CostFrom, IndexAt, Leads
  <2>2. CASE d = "bw"
    <3>1. n - 1 \in 0 .. p.len - 1 /\ n - 1 + 1 = n
      BY <1>2
    <3>2. PICK c \in Costs : /\ p.g[n] = p.g[n - 1] + c
                             /\ Transition(p.state[n - 1], c, p.state[n])
      BY <1>2, <3>1
    <3>3. p.g[n] \in Nat /\ p.g[n - 1] \in Nat /\ c \in Nat
      <4>1. n \in 0 .. p.len /\ n - 1 \in 0 .. p.len
        BY <1>2, <3>1
      <4>. QED
        BY <1>2, <4>1, <3>2, ConstantTypes
    <3>4. PlanCost(p) - p.g[n - 1] = PlanCost(p) - p.g[n] + c
      BY <1>4, <3>2, <3>3
    <3>. QED
      BY <2>2, <3>2, <3>4 DEF NodeAt, CostAt, CostFrom, IndexAt, Leads
  <2>. QED
    BY <2>1, <2>2
<1>. QED
  BY <1>1, <1>2, <1>4, <1>5, <1>6, <1>7, <1>8

\* What a search pays up to a state of a plan is at most the cost of the plan.
LEMMA PlanCostMonotone ==
    ASSUME NEW p \in Plans, NEW d \in {"fw", "bw"}, NEW n \in 0 .. p.len
    PROVE  CostAt(d, p, n) <= PlanCost(p)
<1>. DEFINE dearer == {m \in 0 .. p.len : CostAt(d, p, m) > PlanCost(p)}
<1>. SUFFICES ASSUME dearer # {} PROVE FALSE
  BY PlanNodes
<1>1. dearer \subseteq Nat
  BY PlanNodes
<1>2. Min(dearer) \in dearer /\ \A m \in dearer : Min(dearer) <= m
  BY <1>1, LeastNumber
<1>3. PICK m \in dearer : \A k \in dearer : m <= k
  BY <1>2
<1>4. m \in 1 .. p.len
  BY PlanNodes
<1>5. PICK c \in Costs : CostAt(d, p, m - 1) = CostAt(d, p, m) + c
  BY <1>4, PlanNodes
<1>6. m - 1 \in dearer
  BY <1>4, <1>5, PlanNodes, ConstantTypes
<1>. QED
  BY <1>1, <1>3, <1>6

-----------------------------------------------------------------------------
(* The value MinNextG by which the lower bound rises is one.               *)

\* MinNextG is at most every key of the open list, and at most the next cost of a
\* frontier that is not empty.
LEMMA MinNextGBounds ==
    ASSUME NEW o \in SUBSET (Nat \X BDD), NEW f \in FrontierType
    PROVE  /\ MinNextG(o, f) \in Nat
           /\ \A entry \in o : MinNextG(o, f) <= entry[1]
           /\ ~ FrontierEmpty(f) => MinNextG(o, f) <= f.g + AbsMinTransitionCost
           /\ FrontierEmpty(f) /\ o = {} => MinNextG(o, f) = MaxInt
<1>. DEFINE next_g == IF FrontierEmpty(f) THEN MaxInt ELSE f.g + AbsMinTransitionCost
<1>1. next_g \in Nat
  BY ConstantTypes, AbsMinBounds DEF FrontierType
<1>2. MinNextG(o, f) = IF o = {} THEN next_g ELSE SmallerOf(next_g, MinG(o))
  BY DEF MinNextG
<1>3. /\ MinNextG(o, f) \in Nat
      /\ \A entry \in o : MinNextG(o, f) <= entry[1]
      /\ MinNextG(o, f) <= next_g
  <2>. HIDE DEF next_g
  <2>1. CASE o = {}
    BY <1>1, <1>2, <2>1
  <2>2. CASE o # {}
    <3>1. MinG(o) \in Nat /\ \A entry \in o : entry[1] \in Nat /\ MinG(o) <= entry[1]
      BY <2>2, MinGIsLeast
    <3>2. MinNextG(o, f) = SmallerOf(next_g, MinG(o))
      BY <1>2, <2>2
    <3>. QED
      BY <1>1, <3>1, <3>2 DEF SmallerOf
  <2>. QED
    BY <2>1, <2>2
<1>. QED
  BY <1>2, <1>3

\* Between two insertions every plan either is no better than the solution, or has
\* a state that is still to be expanded, and then getF is no greater than its cost.
BetweenInsertions ==
    /\ OneDirection
    /\ TypeOK
    /\ SourceAndTarget
    /\ SuccessorsReached
    /\ images = {}

NoBetterPlan ==
    \A d \in Directions, p \in Plans : UpperBound <= PlanCost(p) \/ GetF(d) <= PlanCost(p)

\* Otherwise take the last state of the plan that is closed at its cost: by
\* SuccessorsReached the next one is closed too, or open, or not worth reaching.
LEMMA BoundsHold == BetweenInsertions => NoBetterPlan
<1>. SUFFICES ASSUME BetweenInsertions, NEW d \in Directions, NEW p \in Plans,
                     ~ (UpperBound <= PlanCost(p)), ~ (GetF(d) <= PlanCost(p))
              PROVE  FALSE
  BY DEF NoBetterPlan
<1>. USE DEF BetweenInsertions
<1>1. d \in {"fw", "bw"}
  BY ConstantTypes
<1>2. /\ open[d] \in SUBSET (Nat \X BDD)
      /\ frontier[d] \in FrontierType /\ frontier[d].g \in Nat
      /\ closed[d] \in SUBSET (Nat \X States)
      /\ UpperBound \in Nat
  BY UpperOfSolution DEF TypeOK, FrontierType, UpperBound
<1>3. /\ GetF(d) \in Nat
      /\ \A entry \in open[d] : GetF(d) <= entry[1]
      /\ ~ FrontierEmpty(frontier[d]) => GetF(d) <= frontier[d].g + AbsMinTransitionCost
      /\ FrontierEmpty(frontier[d]) /\ open[d] = {} => GetF(d) = MaxInt
  BY <1>2, MinNextGBounds DEF GetF
<1>. DEFINE Reached(n) == \E entry \in closed[d] :
                             entry[2] = NodeAt(d, p, n) /\ entry[1] <= CostAt(d, p, n)
            reached == {n \in 0 .. p.len : Reached(n)}
<1>4. p.len \in Nat /\ PlanCost(p) \in Nat
  BY <1>1, PlanNodes
<1>5. p.len \in reached
  <2>1. <<0, NodeAt(d, p, p.len)>> \in closed[d]
    BY <1>1, PlanNodes DEF SourceAndTarget
  <2>. QED
    BY <1>1, <1>4, <2>1, PlanNodes
<1>6. PICK m \in reached : \A n \in reached : m <= n
  <2>1. reached \subseteq Nat
    BY <1>4
  <2>. QED
    BY <1>5, <2>1, LeastNumber
<1>7. m # 0
  <2>1. NodeAt(d, p, 0) \notin ClosedStates(closed[d])
    BY <1>1, PlanNodes DEF SourceAndTarget
  <2>. QED
    BY <1>6, <2>1 DEF ClosedStates
<1>8. m \in 1 .. p.len /\ m - 1 \in 0 .. p.len
  BY <1>4, <1>6, <1>7
<1>9. PICK entry \in closed[d] :
         entry[2] = NodeAt(d, p, m) /\ entry[1] <= CostAt(d, p, m)
  BY <1>6
<1>10. PICK c \in Costs : /\ CostAt(d, p, m - 1) = CostAt(d, p, m) + c
                          /\ Leads(d, NodeAt(d, p, m), c, NodeAt(d, p, m - 1))
  BY <1>1, <1>8, PlanNodes
<1>11. /\ entry[1] \in Nat /\ c \in Nat
       /\ AbsMinTransitionCost \in Nat /\ AbsMinTransitionCost <= c
       /\ CostAt(d, p, m) \in Int /\ CostAt(d, p, m - 1) \in Int
       /\ CostAt(d, p, m - 1) <= PlanCost(p)
  BY <1>1, <1>2, <1>8, ConstantTypes, AbsMinBounds, PlanNodes, PlanCostMonotone
<1>12. entry[1] + c <= CostAt(d, p, m - 1)
  BY <1>9, <1>10, <1>11
<1>13. \/ /\ entry[1] = frontier[d].g
          /\ entry[2] \in Unexpanded(frontier[d], c)
       \/ ReachedAt(d, NodeAt(d, p, m - 1), entry[1] + c)
  <2>1. NodeAt(d, p, m) \in NotMutex[d] /\ NodeAt(d, p, m - 1) \in NotMutex[d]
    BY <1>1, <1>8, PlanNodes
  <2>. QED
    BY <1>9, <1>10, <2>1 DEF SuccessorsReached
<1>14. CASE entry[1] = frontier[d].g /\ entry[2] \in Unexpanded(frontier[d], c)
  <2>1. ~ FrontierEmpty(frontier[d])
    BY <1>14 DEF Unexpanded, FrontierEmpty
  <2>2. GetF(d) <= frontier[d].g + AbsMinTransitionCost
    BY <1>3, <2>1
  <2>. QED
    BY <1>2, <1>3, <1>4, <1>11, <1>12, <1>14, <2>2
<1>15. CASE ReachedAt(d, NodeAt(d, p, m - 1), entry[1] + c)
  <2>1. CASE \E e \in closed[d] : e[2] = NodeAt(d, p, m - 1) /\ e[1] <= entry[1] + c
    <3>1. m - 1 \in reached
      BY <1>2, <1>8, <1>11, <1>12, <2>1
    <3>. QED
      BY <1>4, <1>6, <3>1
  <2>2. CASE \E e \in open[d] : e[1] <= entry[1] + c
    <3>1. PICK e \in open[d] : e[1] <= entry[1] + c
      BY <2>2
    <3>2. e[1] \in Nat /\ GetF(d) <= e[1]
      BY <1>2, <1>3
    <3>. QED
      BY <1>3, <1>4, <1>11, <1>12, <3>1, <3>2
  <2>3. CASE UpperBound <= entry[1] + c + (IF NodeAt(d, p, m - 1) \in Source(Opposite(d))
                                           THEN 0 ELSE AbsMinTransitionCost)
    <3>1. CASE NodeAt(d, p, m - 1) \in Source(Opposite(d))
      BY <1>2, <1>4, <1>11, <1>12, <2>3, <3>1
    <3>2. CASE NodeAt(d, p, m - 1) \notin Source(Opposite(d))
      <4>1. m - 1 # 0
        BY <1>1, <3>2, PlanNodes
      <4>2. m - 1 \in 1 .. p.len /\ m - 1 - 1 \in 0 .. p.len
        BY <1>4, <1>8, <4>1
      <4>3. PICK e \in Costs : CostAt(d, p, m - 1 - 1) = CostAt(d, p, m - 1) + e
        BY <1>1, <4>2, PlanNodes
      <4>4. /\ e \in Nat /\ AbsMinTransitionCost <= e
            /\ CostAt(d, p, m - 1 - 1) \in Int
            /\ CostAt(d, p, m - 1 - 1) <= PlanCost(p)
        BY <1>1, <4>2, ConstantTypes, AbsMinBounds, PlanNodes, PlanCostMonotone
      <4>. QED
        BY <1>2, <1>4, <1>11, <1>12, <2>3, <3>2, <4>3, <4>4
    <3>. QED
      BY <3>1, <3>2
  <2>. QED
    BY <1>15, <2>1, <2>2, <2>3 DEF ReachedAt
<1>. QED
  BY <1>13, <1>14, <1>15

-----------------------------------------------------------------------------
(* The steps.  Rest is what UnidirectionalInv adds to TypeInv.             *)

Rest ==
    /\ LayerOrder
    /\ Phases
    /\ SourceAndTarget
    /\ SuccessorsReached
    /\ VerdictWhenBoundsMeet
    /\ LowerBoundAdmissible

\* The types of the one search that runs.
LEMMA SearchTypes ==
    ASSUME OneDirection, TypeInv
    PROVE  /\ dir \in Directions /\ dir \in {"fw", "bw"}
           /\ \A d \in Directions : d = dir
           /\ open \in [Directions -> SUBSET (Nat \X BDD)]
           /\ frontier \in [Directions -> FrontierType]
           /\ frontier[dir] \in [g : Nat, filter : Bucket, merge : Bucket, zero : Bucket, cost : Bucket]
           /\ frontier[dir].g \in Nat /\ frontier[dir].g <= MaxG
           /\ closed \in [Directions -> SUBSET (Nat \X States)]
           /\ images \in SUBSET (Nat \X Bucket)
           /\ solution \in SolutionType
           /\ lowerBound \in 0 .. MaxInt
           /\ UpperBound \in Nat
<1>1. dir \in Directions /\ \A d \in Directions : d = dir
  BY OneDirectionFacts DEF TypeInv, TypeOK
<1>. QED
  BY <1>1, ConstantTypes, UpperOfSolution DEF TypeInv, TypeOK, WithinMaxG, FrontierType, UpperBound

\* What changes only the frontier, and loses none of its states, preserves what
\* is said of the closed states.
LEMMA FrontierStep ==
    ASSUME OneDirection, TypeInv, Rest,
           UNCHANGED <<open, closed, solution, lowerBound, status>>,
           images = {}, images' = {}, dir' \in Directions,
           frontier' \in [Directions -> FrontierType],
           \A d \in Directions : frontier'[d].g = frontier[d].g,
           \A d \in Directions : \A c \in Costs, s \in NotMutex[d] :
              s \in Unexpanded(frontier[d], c) => s \in Unexpanded(frontier'[d], c)
    PROVE  /\ LayerOrder'
           /\ SourceAndTarget'
           /\ SuccessorsReached'
           /\ VerdictWhenBoundsMeet'
           /\ LowerBoundAdmissible'
<1>1. LayerOrder'
  BY DEF Rest, LayerOrder
<1>2. SourceAndTarget'
  BY DEF Rest, SourceAndTarget
<1>3. UpperBound' = UpperBound
  BY DEF UpperBound, UpperOf, IsSolved
<1>4. SuccessorsReached'
  <2>. SUFFICES ASSUME NEW d \in Directions, NEW entry \in closed[d], NEW c \in Costs,
                       NEW t \in NotMutex[d],
                       entry[2] \in NotMutex[d], Leads(d, entry[2], c, t)
                PROVE  \/ entry[1] = frontier'[d].g /\ entry[2] \in Unexpanded(frontier'[d], c)
                       \/ ReachedAt(d, t, entry[1] + c)'
    BY DEF SuccessorsReached
  <2>1. \/ entry[1] = frontier[d].g /\ entry[2] \in Unexpanded(frontier[d], c)
        \/ ReachedAt(d, t, entry[1] + c)
    BY DEF Rest, SuccessorsReached
  <2>2. ReachedAt(d, t, entry[1] + c) => ReachedAt(d, t, entry[1] + c)'
    BY <1>3 DEF ReachedAt
  <2>. QED
    BY <2>1, <2>2
<1>5. VerdictWhenBoundsMeet'
  BY <1>3 DEF Rest, VerdictWhenBoundsMeet, IsSolved
<1>6. LowerBoundAdmissible'
  BY DEF Rest, LowerBoundAdmissible
<1>. QED
  BY <1>1, <1>2, <1>4, <1>5, <1>6

\* Frontier::prepare in stepImage and in prepareBucket.
LEMMA PrepareSteps ==
    ASSUME OneDirection, TypeInv, Rest,
           \/ \E d \in Directions : Step(d)
           \/ PrepareNext
    PROVE  Rest'
<1>1. /\ UNCHANGED <<open, closed, lastStepCost, solution, lowerBound, images, status>>
      /\ pc # "insert"
      /\ status = "IN_PROGRESS"
      /\ dir' \in Directions
      /\ \/ UNCHANGED frontier
         \/ \E d \in Directions : \E outcome \in PrepareOutcomes(d, frontier[d]) :
               frontier' = [frontier EXCEPT ![d] = outcome.frontier]
  <2>1. CASE \E d \in Directions : Step(d)
    BY <2>1 DEF Step, Prepare, controller
  <2>2. CASE PrepareNext
    BY <2>2 DEF PrepareNext, Prepare, controller, Rest, Phases, TypeInv, TypeOK
  <2>. QED
    BY <2>1, <2>2
<1>2. images = {} /\ images' = {}
  BY <1>1 DEF Rest, Phases
<1>3. frontier \in [Directions -> FrontierType]
  BY DEF TypeInv, TypeOK
<1>4. /\ frontier' \in [Directions -> FrontierType]
      /\ \A d \in Directions :
            /\ frontier'[d].g = frontier[d].g
            /\ \A c \in Costs, s \in NotMutex[d] :
                  s \in Unexpanded(frontier[d], c) => s \in Unexpanded(frontier'[d], c)
            /\ ~ HasTransitions0 => frontier'[d].zero = {}
            /\ UNION frontier'[d].zero \subseteq UNION frontier'[d].cost
  <2>1. \A d \in Directions : /\ ~ HasTransitions0 => frontier[d].zero = {}
                              /\ UNION frontier[d].zero \subseteq UNION frontier[d].cost
    BY DEF Rest, Phases
  <2>2. CASE UNCHANGED frontier
    BY <1>3, <2>1, <2>2
  <2>3. ASSUME NEW d \in Directions, NEW outcome \in PrepareOutcomes(d, frontier[d]),
               frontier' = [frontier EXCEPT ![d] = outcome.frontier]
        PROVE  /\ frontier' \in [Directions -> FrontierType]
               /\ \A e \in Directions :
                     /\ frontier'[e].g = frontier[e].g
                     /\ \A c \in Costs, s \in NotMutex[e] :
                           s \in Unexpanded(frontier[e], c) => s \in Unexpanded(frontier'[e], c)
                     /\ ~ HasTransitions0 => frontier'[e].zero = {}
                     /\ UNION frontier'[e].zero \subseteq UNION frontier'[e].cost
    <3>1. frontier[d] \in FrontierType
      BY <1>3
    <3>2. /\ outcome.frontier \in FrontierType
          /\ outcome.frontier.g = frontier[d].g
          /\ \A c \in Costs, s \in NotMutex[d] :
                s \in Unexpanded(frontier[d], c) => s \in Unexpanded(outcome.frontier, c)
          /\ ~ HasTransitions0 => outcome.frontier.zero = {}
          /\ UNION outcome.frontier.zero \subseteq UNION outcome.frontier.cost
      BY <2>1, <3>1, PrepareKeepsStates
    <3>. QED
      BY <1>3, <2>1, <2>3, <3>2
  <2>. QED
    BY <1>1, <2>2, <2>3
<1>5. Phases'
  BY <1>1, <1>2, <1>4 DEF Rest, Phases
<1>. QED
  BY <1>1, <1>2, <1>4, <1>5, FrontierStep DEF Rest

\* The states a transition relation leads to are in the image.
LEMMA ImageOfTransition ==
    ASSUME NEW d \in {"fw", "bw"}, NEW u, NEW c \in Costs, NEW t \in NotMutex[d],
           Leads(d, u, c, t),
           NEW bucket \in Bucket, u \in UNION bucket
    PROVE  t \in UNION ImageBucket(d, c, bucket)
<1>1. t \in States
  BY TaskAssumption DEF BDD
<1>2. PICK b \in bucket : u \in b
  OBVIOUS
<1>3. PICK tr \in TRs[c] : IF d = "fw" THEN <<u, t>> \in tr ELSE <<t, u>> \in tr
  BY DEF Leads, Transition
<1>4. t \in Image(d, tr, b)
  BY <1>1, <1>2, <1>3 DEF Image
<1>. QED
  BY <1>4 DEF ImageBucket

\* The images: what leaves the frontier has its successors in the images.
LEMMA ExpandSteps ==
    ASSUME OneDirection, TypeInv, Rest, ExpandZero \/ ExpandCost
    PROVE  Rest'
<1>. DEFINE f == frontier[dir]
<1>1. /\ pc = "expand"
      /\ UNCHANGED <<open, closed, solution, lowerBound, dir, status>>
      /\ lastStepCost' = [lastStepCost EXCEPT ![dir] = FALSE]
      /\ pc' = "insert"
  BY DEF ExpandZero, ExpandCost, controller
<1>2. images = {} /\ status = "IN_PROGRESS"
  BY <1>1 DEF Rest, Phases, TypeInv, TypeOK
<1>3. /\ ~ HasTransitions0 => f.zero = {}
      /\ UNION f.zero \subseteq UNION f.cost
  BY SearchTypes DEF Rest, Phases
<1>4. UpperBound' = UpperBound
  BY <1>1 DEF UpperBound, UpperOf, IsSolved
<1>5. \/ /\ ExpandZero
         /\ frontier' = [frontier EXCEPT ![dir] = [f EXCEPT !.zero = {}]]
         /\ images' = {<<f.g, ImageBucket(dir, 0, f.zero)>>}
      \/ /\ ExpandCost
         /\ f.zero = {}
         /\ frontier' = [frontier EXCEPT ![dir] = [f EXCEPT !.cost = {}]]
         /\ images' = {<<f.g + c, ImageBucket(dir, c, f.cost)>> : c \in Costs \ {0}}
  BY DEF ExpandZero, ExpandCost
<1>6. /\ frontier'[dir].g = f.g
      /\ frontier'[dir].filter = f.filter
      /\ frontier'[dir].merge = f.merge
      /\ frontier'[dir].zero = {}
      /\ ExpandZero => frontier'[dir].cost = f.cost
      /\ \A image \in images' : f.g <= image[1]
  <2>1. \A c \in Costs : f.g <= f.g + c
    BY SearchTypes, ConstantTypes
  <2>2. CASE ExpandZero
    <3>1. frontier'[dir] = [f EXCEPT !.zero = {}]
      BY <1>5, <2>2, SearchTypes DEF ExpandZero
    <3>2. images' = {<<f.g, ImageBucket(dir, 0, f.zero)>>}
      BY <2>2 DEF ExpandZero
    <3>. QED
      BY <2>1, <3>1, <3>2, SearchTypes
  <2>3. CASE ~ ExpandZero
    <3>1. /\ f.zero = {}
          /\ frontier'[dir] = [f EXCEPT !.cost = {}]
      BY <1>5, <2>3, SearchTypes
    <3>. QED
      BY <1>5, <2>1, <2>3, <3>1, SearchTypes
  <2>. QED
    BY <2>2, <2>3
<1>7. LayerOrder'
  BY <1>1, <1>6, SearchTypes DEF Rest, LayerOrder
<1>8. Phases'
  <2>1. lastStepCost'[dir] = FALSE
    BY <1>1, SearchTypes DEF TypeInv, TypeOK
  <2>. QED
    BY <1>1, <1>2, <1>6, <2>1, SearchTypes DEF Phases
<1>9. SourceAndTarget'
  BY <1>1 DEF Rest, SourceAndTarget
<1>10. SuccessorsReached'
  <2>. SUFFICES ASSUME NEW entry \in closed[dir], NEW c \in Costs, NEW t \in NotMutex[dir],
                       entry[2] \in NotMutex[dir], Leads(dir, entry[2], c, t)
                PROVE  \/ /\ entry[1] = frontier'[dir].g
                          /\ entry[2] \in Unexpanded(frontier'[dir], c)
                       \/ ReachedAt(dir, t, entry[1] + c)'
    BY <1>1, SearchTypes DEF SuccessorsReached
  <2>1. \/ entry[1] = f.g /\ entry[2] \in Unexpanded(f, c)
        \/ ReachedAt(dir, t, entry[1] + c)
    BY SearchTypes DEF Rest, SuccessorsReached
  <2>2. CASE ReachedAt(dir, t, entry[1] + c)
    BY <1>1, <1>2, <1>4, <2>2 DEF ReachedAt
  <2>3. CASE entry[1] = f.g /\ entry[2] \in UNION (f.filter \cup f.merge)
    BY <1>6, <2>3 DEF Unexpanded
  <2>4. CASE entry[1] = f.g /\ entry[2] \in UNION f.cost /\ c # 0
    <3>1. CASE ExpandZero
      BY <1>6, <2>4, <3>1 DEF Unexpanded
    <3>2. CASE ExpandCost
      <4>1. t \in UNION ImageBucket(dir, c, f.cost)
        BY <2>4, SearchTypes, ImageOfTransition
      <4>2. <<f.g + c, ImageBucket(dir, c, f.cost)>> \in images'
        BY <1>5, <2>4, <3>2 DEF ExpandZero, ExpandCost
      <4>3. f.g + c <= entry[1] + c
        BY <2>4, SearchTypes, ConstantTypes
      <4>4. \E image \in images' : t \in UNION image[2] /\ image[1] <= entry[1] + c
        BY <4>1, <4>2, <4>3
      <4>. QED
        BY <1>1, <4>4 DEF ReachedAt
    <3>. QED
      BY <1>5, <3>1, <3>2
  <2>5. CASE entry[1] = f.g /\ entry[2] \in UNION f.zero /\ c = 0
    <3>1. ExpandZero
      BY <1>5, <2>5
    <3>2. t \in UNION ImageBucket(dir, 0, f.zero)
      BY <2>5, SearchTypes, ImageOfTransition
    <3>3. <<f.g, ImageBucket(dir, 0, f.zero)>> \in images'
      BY <3>1 DEF ExpandZero
    <3>4. f.g <= entry[1] + c
      BY <2>5, SearchTypes
    <3>5. \E image \in images' : t \in UNION image[2] /\ image[1] <= entry[1] + c
      BY <3>2, <3>3, <3>4
    <3>. QED
      BY <1>1, <3>5 DEF ReachedAt
  <2>6. entry[2] \in Unexpanded(f, c) =>
           \/ entry[2] \in UNION (f.filter \cup f.merge)
           \/ entry[2] \in UNION f.cost /\ c # 0
           \/ entry[2] \in UNION f.zero /\ c = 0
    BY <1>3 DEF Unexpanded
  <2>. QED
    BY <2>1, <2>2, <2>3, <2>4, <2>5, <2>6
<1>11. VerdictWhenBoundsMeet' /\ LowerBoundAdmissible'
  BY <1>1, <1>2 DEF Rest, VerdictWhenBoundsMeet, LowerBoundAdmissible
<1>. QED
  BY <1>7, <1>8, <1>9, <1>10, <1>11 DEF Rest

\* checkCut against the source of the search that does not run: the upper bound
\* never rises, and is at most g when a bucket of value g meets that source.
LEMMA CutWithSource ==
    ASSUME OneDirection, TypeInv, NEW g \in Nat, g <= MaxG, NEW bdds \in Bucket,
           solution' \in SolutionsAfterCut(dir, g, bdds)
    PROVE  /\ UpperBound' \in Nat
           /\ UpperBound' <= UpperBound
           /\ \A t \in Source(Opposite(dir)) : t \in UNION bdds => UpperBound' <= g
<1>1. OppositeClosed(dir) = {0} \X Source(Opposite(dir))
  BY SearchTypes, OneDirectionFacts
<1>2. OppositeClosed(dir) \in SUBSET (Nat \X States)
  BY OppositeClosedType DEF TypeInv
<1>3. /\ solution' \in SolutionType
      /\ \/ solution' = solution
         \/ /\ IsSolved(solution')
            /\ IsSolved(solution) => UpperOf(solution') <= UpperOf(solution)
            /\ \E entry \in OppositeClosed(dir) : UpperOf(solution') = g + entry[1]
      /\ \A entry \in OppositeClosed(dir) :
            entry[2] \in UNION bdds => IsSolved(solution') /\ UpperOf(solution') <= g + entry[1]
  BY <1>2, SearchTypes, SolutionAfterCut
<1>4. UpperBound' = UpperOf(solution') /\ UpperBound = UpperOf(solution)
  BY DEF UpperBound, UpperOf, IsSolved
<1>5. /\ UpperOf(solution') \in Nat
      /\ UpperOf(solution) \in Nat
      /\ ~ IsSolved(solution) => UpperOf(solution) = MaxInt
  BY <1>3, SearchTypes, UpperOfSolution
<1>6. UpperOf(solution') <= UpperOf(solution)
  BY <1>1, <1>3, <1>5, ConstantTypes
<1>7. ASSUME NEW t \in Source(Opposite(dir)), t \in UNION bdds
      PROVE  UpperOf(solution') <= g
  <2>1. <<0, t>> \in OppositeClosed(dir)
    BY <1>1
  <2>2. UpperOf(solution') <= g + 0
    BY <1>3, <1>7, <2>1
  <2>. QED
    BY <2>2
<1>. QED
  BY <1>4, <1>5, <1>6, <1>7

\* The states of the closed list that stands for a search that does not run.
LEMMA ClosedStatesOfSource ==
    ASSUME NEW S
    PROVE  ClosedStates({0} \X S) = S
<1>1. \A x \in S : <<0, x>> \in {0} \X S /\ <<0, x>>[2] = x
  OBVIOUS
<1>2. S \subseteq {entry[2] : entry \in {0} \X S}
  BY <1>1
<1>. QED
  BY <1>2 DEF ClosedStates

\* The loop of stepImage over the images: a state is inserted, or is the target,
\* or cannot improve the solution.
LEMMA InsertStep ==
    ASSUME OneDirection, TypeInv, Rest, Insert
    PROVE  Rest'
<1>1. PICK image \in images :
         /\ \E merged \in MergeBucket(image[2]) :
               /\ solution' \in SolutionsAfterCut(dir, image[1], merged)
               /\ open' = [open EXCEPT ![dir] = @ \cup
                              Inserted(dir, image[1], merged, UpperOf(solution'))]
         /\ images' = images \ {image}
  BY DEF Insert
<1>2. PICK merged \in MergeBucket(image[2]) :
         /\ solution' \in SolutionsAfterCut(dir, image[1], merged)
         /\ open' = [open EXCEPT ![dir] = @ \cup
                        Inserted(dir, image[1], merged, UpperOf(solution'))]
  BY <1>1
<1>3. /\ UNCHANGED <<frontier, closed, lastStepCost, lowerBound, dir, pc, status>>
      /\ pc = "insert"
      /\ status = "IN_PROGRESS"
  BY DEF Insert, Rest, Phases, TypeInv, TypeOK
<1>4. image[1] \in Nat /\ image[1] <= MaxG /\ image[2] \in Bucket
  BY SearchTypes DEF TypeInv, WithinMaxG
<1>5. merged \in Bucket /\ UNION merged = UNION image[2]
  BY <1>4, MergeKeepsStates
<1>6. /\ UpperBound' \in Nat
      /\ UpperBound' <= UpperBound
      /\ \A t \in Source(Opposite(dir)) : t \in UNION merged => UpperBound' <= image[1]
  BY <1>2, <1>4, <1>5, CutWithSource
<1>7. UpperBound' = UpperOf(solution')
  BY DEF UpperBound, UpperOf, IsSolved
<1>. DEFINE inserted == Inserted(dir, image[1], merged, UpperOf(solution'))
<1>8. /\ \A entry \in inserted : entry[1] = image[1]
      /\ \A t \in UNION merged :
            \/ \E entry \in inserted : t \in entry[2] /\ entry[1] = image[1]
            \/ t \in Source(Opposite(dir))
            \/ UpperBound' <= image[1] + AbsMinTransitionCost
  <2>1. /\ OppositeHNotClosed(dir) = AbsMinTransitionCost
        /\ ClosedStates(OppositeClosed(dir)) = Source(Opposite(dir))
    BY SearchTypes, OneDirectionFacts, ClosedStatesOfSource
  <2>2. Int32(image[1] + OppositeHNotClosed(dir)) = image[1] + AbsMinTransitionCost
    BY <1>4, <2>1, AbsMinBounds, ConstantTypes DEF Int32
  <2>3. ASSUME NEW t \in UNION merged, t \notin Source(Opposite(dir)),
               image[1] + AbsMinTransitionCost < UpperBound'
        PROVE  \E entry \in inserted : t \in entry[2] /\ entry[1] = image[1]
    <3>1. inserted = {image[1]} \X (NotClosedOpposite(dir, merged) \ {{}})
      BY <1>7, <2>2, <2>3 DEF Inserted
    <3>2. PICK b \in NotClosedOpposite(dir, merged) : t \in b
      <4>1. PICK b \in merged : t \in b
        BY <2>3
      <4>2. t \in b \ ClosedStates(OppositeClosed(dir))
        BY <2>1, <2>3, <4>1
      <4>. QED
        BY <4>2 DEF NotClosedOpposite
    <3>3. <<image[1], b>> \in inserted
      BY <3>1, <3>2
    <3>. QED
      BY <3>2, <3>3
  <2>4. \A entry \in inserted : entry[1] = image[1]
    BY DEF Inserted
  <2>. QED
    BY <1>4, <1>6, <2>3, <2>4, AbsMinBounds
<1>. HIDE DEF inserted
<1>9. open'[dir] = open[dir] \cup inserted
  BY <1>2, SearchTypes DEF inserted
<1>10. LayerOrder'
  BY <1>1, <1>3, <1>8, <1>9, SearchTypes DEF Rest, LayerOrder
<1>11. Phases'
  BY <1>1, <1>3, SearchTypes DEF Rest, Phases
<1>12. SourceAndTarget'
  BY <1>3 DEF Rest, SourceAndTarget
<1>13. SuccessorsReached'
  <2>. SUFFICES ASSUME NEW entry \in closed[dir], NEW c \in Costs, NEW t \in NotMutex[dir],
                       entry[2] \in NotMutex[dir], Leads(dir, entry[2], c, t),
                       ReachedAt(dir, t, entry[1] + c)
                PROVE  ReachedAt(dir, t, entry[1] + c)'
    BY <1>3, SearchTypes DEF Rest, SuccessorsReached
  <2>1. entry[1] + c \in Nat
    BY SearchTypes, ConstantTypes
  <2>. DEFINE k == entry[1] + c
  <2>. HIDE DEF k
  <2>2. CASE \E e \in closed[dir] : e[2] = t /\ e[1] <= k
    BY <1>3, <2>2 DEF ReachedAt, k
  <2>3. CASE \E e \in open[dir] : t \in e[2] /\ e[1] <= k
    BY <1>3, <1>9, <2>3 DEF ReachedAt, k
  <2>4. CASE \E i \in images : t \in UNION i[2] /\ i[1] <= k
    <3>1. CASE \E i \in images' : t \in UNION i[2] /\ i[1] <= k
      BY <1>3, <3>1 DEF ReachedAt, k
    <3>2. CASE ~ \E i \in images' : t \in UNION i[2] /\ i[1] <= k
      <4>1. t \in UNION merged /\ image[1] <= k
        BY <1>1, <1>5, <2>4, <3>2
      <4>2. \/ \E e \in open'[dir] : t \in e[2] /\ e[1] = image[1]
            \/ t \in Source(Opposite(dir)) /\ UpperBound' <= image[1]
            \/ UpperBound' <= image[1] + AbsMinTransitionCost /\ t \notin Source(Opposite(dir))
        BY <1>6, <1>8, <1>9, <4>1
      <4>3. CASE \E e \in open'[dir] : t \in e[2] /\ e[1] = image[1]
        BY <1>3, <4>1, <4>3 DEF ReachedAt, k
      <4>4. CASE t \in Source(Opposite(dir)) /\ UpperBound' <= image[1]
        <5>1. UpperBound' <= k + 0
          BY <1>4, <1>6, <2>1, <4>1, <4>4 DEF k
        <5>. QED
          BY <1>3, <4>4, <5>1 DEF ReachedAt, k
      <4>5. CASE UpperBound' <= image[1] + AbsMinTransitionCost /\ t \notin Source(Opposite(dir))
        <5>1. UpperBound' <= k + AbsMinTransitionCost
          BY <1>4, <1>6, <2>1, <4>1, <4>5, AbsMinBounds DEF k
        <5>. QED
          BY <1>3, <4>5, <5>1 DEF ReachedAt, k
      <4>. QED
        BY <4>2, <4>3, <4>4, <4>5
    <3>. QED
      BY <3>1, <3>2
  <2>5. CASE UpperBound <= k + (IF t \in Source(Opposite(dir)) THEN 0 ELSE AbsMinTransitionCost)
    <3>1. UpperBound' <= k + (IF t \in Source(Opposite(dir)) THEN 0 ELSE AbsMinTransitionCost)
      BY <1>6, <2>1, <2>5, SearchTypes, AbsMinBounds DEF k
    <3>. QED
      BY <1>3, <3>1 DEF ReachedAt, k
  <2>. QED
    BY <2>2, <2>3, <2>4, <2>5 DEF ReachedAt, k
<1>14. VerdictWhenBoundsMeet' /\ LowerBoundAdmissible'
  BY <1>3 DEF Rest, VerdictWhenBoundsMeet, LowerBoundAdmissible
<1>. QED
  BY <1>10, <1>11, <1>12, <1>13, <1>14 DEF Rest

\* prepareBucket pops the layer of least g-value: what it drops is the target,
\* or has been closed before, or violates a mutex.
LEMMA PopStep ==
    ASSUME OneDirection, TypeInv, TypeInv', Rest, Pop
    PROVE  Rest'
<1>. DEFINE g == MinG(open[dir])
            popped == {entry[2] : entry \in {e \in open[dir] : e[1] = g}}
            fresh == NotDeadEnd(dir, NotClosedOwn(dir, NotClosedOpposite(dir, popped)))
            f == MinNextG(open'[dir], frontier'[dir])
<1>1. /\ open[dir] # {}
      /\ FrontierEmpty(frontier[dir])
      /\ pc = "pop"
      /\ solution' \in SolutionsAfterCut(dir, g, popped)
      /\ open' = [open EXCEPT ![dir] = {e \in open[dir] : e[1] # g}]
      /\ \E bucket \in PopFilterOutcomes(dir, g, fresh) :
            /\ frontier' = [frontier EXCEPT ![dir] = Popped(g, bucket)]
            /\ closed' = IF ~ lastStepCost[dir] \/ g # 0
                         THEN [closed EXCEPT ![dir] = @ \cup ({g} \X UNION bucket)]
                         ELSE closed
      /\ lowerBound' = LowerBoundAfter(f, solution')
      /\ UNCHANGED <<lastStepCost, images, dir, pc, status>>
  BY DEF Pop
<1>2. images = {} /\ status = "IN_PROGRESS" /\ ~ lastStepCost[dir]
  BY <1>1, SearchTypes DEF Rest, Phases, TypeInv, TypeOK
<1>3. /\ g \in Nat /\ g <= MaxG
      /\ \A entry \in open[dir] : g <= entry[1]
      /\ \E entry \in open[dir] : entry[1] = g
      /\ popped \in Bucket
  <2>1. open[dir] \in SUBSET (Nat \X BDD)
    BY SearchTypes
  <2>2. /\ g \in Nat
        /\ \A entry \in open[dir] : g <= entry[1]
        /\ \E entry \in open[dir] : entry[1] = g
    BY <1>1, <2>1, MinGIsLeast
  <2>3. \A entry \in open[dir] : entry[1] <= MaxG
    BY SearchTypes DEF TypeInv, WithinMaxG
  <2>4. popped \in Bucket
    BY <2>1 DEF Bucket
  <2>. QED
    BY <2>2, <2>3, <2>4
<1>4. \A t : t \in UNION fresh <=> /\ t \in UNION popped
                                   /\ t \notin Source(Opposite(dir))
                                   /\ t \notin ClosedStates(closed[dir])
  <2>1. /\ ~ OppositeExhausted(dir)
        /\ OppositeClosed(dir) = {0} \X Source(Opposite(dir))
    BY SearchTypes, OneDirectionFacts
  <2>2. ClosedStates(OppositeClosed(dir)) = Source(Opposite(dir))
    BY <2>1, ClosedStatesOfSource
  <2>3. fresh = NotClosedOwn(dir, NotClosedOpposite(dir, popped))
    BY <2>1 DEF NotDeadEnd
  <2>4. \A b \in popped : (b \ Source(Opposite(dir))) \ ClosedStates(closed[dir]) \in fresh
    BY <2>2, <2>3 DEF NotClosedOwn, NotClosedOpposite
  <2>5. \A a \in fresh : \E b \in popped :
           a = (b \ Source(Opposite(dir))) \ ClosedStates(closed[dir])
    BY <2>2, <2>3 DEF NotClosedOwn, NotClosedOpposite
  <2>. HIDE DEF fresh, popped
  <2>6. ASSUME NEW t, t \in UNION fresh
        PROVE  /\ t \in UNION popped
               /\ t \notin Source(Opposite(dir))
               /\ t \notin ClosedStates(closed[dir])
    BY <2>5, <2>6
  <2>7. ASSUME NEW t, t \in UNION popped, t \notin Source(Opposite(dir)),
               t \notin ClosedStates(closed[dir])
        PROVE  t \in UNION fresh
    <3>1. PICK b \in popped : t \in b
      BY <2>7
    <3>2. t \in (b \ Source(Opposite(dir))) \ ClosedStates(closed[dir])
      BY <2>7, <3>1
    <3>. QED
      BY <2>4, <3>2
  <2>. QED
    BY <2>6, <2>7
<1>5. fresh \in Bucket
  BY <1>3, PruningType
<1>6. \A entry \in open[dir] : entry[1] = g => entry[2] \subseteq UNION popped
  OBVIOUS
<1>. HIDE DEF popped, fresh
<1>7. PICK bucket \in PopFilterOutcomes(dir, g, fresh) :
         /\ frontier' = [frontier EXCEPT ![dir] = Popped(g, bucket)]
         /\ closed' = [closed EXCEPT ![dir] = @ \cup ({g} \X UNION bucket)]
  BY <1>1, <1>2
<1>8. /\ UNION bucket \subseteq UNION fresh
      /\ \A s \in NotMutex[dir] : s \in UNION fresh => s \in UNION bucket
  BY <1>5, <1>7, SearchTypes, PopFilterKeepsStates
<1>9. /\ open'[dir] = {e \in open[dir] : e[1] # g}
      /\ frontier'[dir] = Popped(g, bucket)
      /\ closed'[dir] = closed[dir] \cup ({g} \X UNION bucket)
  BY <1>1, <1>7, SearchTypes
<1>10. /\ frontier'[dir].g = g
       /\ frontier'[dir].zero = {} /\ frontier'[dir].cost = {}
       /\ \A c : UNION bucket \subseteq Unexpanded(frontier'[dir], c)
  BY <1>9 DEF Popped, Unexpanded
<1>. HIDE DEF g
<1>11. /\ UpperBound' \in Nat
       /\ UpperBound' <= UpperBound
       /\ \A t \in Source(Opposite(dir)) : t \in UNION popped => UpperBound' <= g
  BY <1>1, <1>3, CutWithSource
<1>12. \A entry \in closed[dir] : entry[1] <= g
  <2>1. frontier[dir].g <= g
    BY <1>3, SearchTypes DEF Rest, LayerOrder
  <2>2. \A entry \in closed[dir] : entry[1] \in Nat /\ entry[1] <= frontier[dir].g
    BY SearchTypes DEF Rest, LayerOrder
  <2>. QED
    BY <1>3, <2>1, <2>2, SearchTypes
<1>13. LayerOrder'
  BY <1>1, <1>2, <1>3, <1>9, <1>10, <1>12, SearchTypes DEF LayerOrder
<1>14. Phases'
  BY <1>1, <1>2, <1>10, SearchTypes DEF Rest, Phases
<1>15. SourceAndTarget'
  <2>1. ClosedStates(closed'[dir]) \cap Source(Opposite(dir)) = {}
    <3>1. ClosedStates(closed[dir]) \cap Source(Opposite(dir)) = {}
      BY SearchTypes DEF Rest, SourceAndTarget
    <3>2. \A t \in ClosedStates(closed'[dir]) :
             t \in ClosedStates(closed[dir]) \/ t \in UNION bucket
      BY <1>9 DEF ClosedStates
    <3>. QED
      BY <1>4, <1>8, <3>1, <3>2
  <2>. QED
    BY <1>1, <1>9, <2>1, SearchTypes DEF Rest, SourceAndTarget
<1>16. SuccessorsReached'
  <2>. SUFFICES ASSUME NEW entry \in closed'[dir], NEW c \in Costs, NEW t \in NotMutex[dir],
                       entry[2] \in NotMutex[dir], Leads(dir, entry[2], c, t)
                PROVE  \/ /\ entry[1] = frontier'[dir].g
                          /\ entry[2] \in Unexpanded(frontier'[dir], c)
                       \/ ReachedAt(dir, t, entry[1] + c)'
    BY <1>1, SearchTypes DEF SuccessorsReached
  <2>1. CASE entry \in {g} \X UNION bucket
    BY <1>10, <2>1
  <2>2. CASE entry \in closed[dir]
    <3>. DEFINE k == entry[1] + c
    <3>1. k \in Nat
      BY <2>2, SearchTypes, ConstantTypes
    <3>2. ReachedAt(dir, t, k)
      <4>1. ~ (entry[2] \in Unexpanded(frontier[dir], c))
        BY <1>1 DEF Unexpanded, FrontierEmpty
      <4>. QED
        BY <2>2, <4>1, SearchTypes DEF Rest, SuccessorsReached
    <3>. HIDE DEF k
    <3>3. CASE \E e \in closed[dir] : e[2] = t /\ e[1] <= k
      BY <1>1, <1>9, <3>3 DEF ReachedAt, k
    <3>4. CASE \E e \in open[dir] : e[1] # g /\ t \in e[2] /\ e[1] <= k
      BY <1>1, <1>9, <3>4 DEF ReachedAt, k
    <3>5. CASE \E e \in open[dir] : e[1] = g /\ t \in e[2] /\ e[1] <= k
      <4>1. t \in UNION popped /\ g <= k
        BY <1>6, <3>5
      <4>2. CASE t \in Source(Opposite(dir))
        <5>1. UpperBound' <= k + 0
          BY <1>3, <1>11, <3>1, <4>1, <4>2
        <5>. QED
          BY <1>1, <4>2, <5>1 DEF ReachedAt, k
      <4>3. CASE t \in ClosedStates(closed[dir])
        <5>1. PICK e \in closed[dir] : e[2] = t
          BY <4>3 DEF ClosedStates
        <5>2. e[1] <= k
          BY <1>3, <1>12, <3>1, <4>1, <5>1, SearchTypes
        <5>. QED
          BY <1>1, <1>9, <5>1, <5>2 DEF ReachedAt, k
      <4>4. CASE t \notin Source(Opposite(dir)) /\ t \notin ClosedStates(closed[dir])
        <5>1. t \in UNION bucket
          BY <1>4, <1>8, <4>1, <4>4
        <5>2. <<g, t>> \in closed'[dir]
          BY <1>9, <5>1
        <5>3. \E e \in closed'[dir] : e[2] = t /\ e[1] <= k
          BY <4>1, <5>2
        <5>. QED
          BY <1>1, <5>3 DEF ReachedAt, k
      <4>. QED
        BY <4>2, <4>3, <4>4
    <3>6. CASE UpperBound <= k + (IF t \in Source(Opposite(dir)) THEN 0 ELSE AbsMinTransitionCost)
      <4>1. UpperBound' <= k + (IF t \in Source(Opposite(dir)) THEN 0 ELSE AbsMinTransitionCost)
        BY <1>11, <3>1, <3>6, SearchTypes, AbsMinBounds
      <4>. QED
        BY <1>1, <4>1 DEF ReachedAt, k
    <3>. QED
      BY <1>2, <3>2, <3>3, <3>4, <3>5, <3>6 DEF ReachedAt
  <2>. QED
    BY <1>9, <2>1, <2>2
<1>17. VerdictWhenBoundsMeet'
  BY <1>1, <1>2 DEF VerdictWhenBoundsMeet
<1>18. LowerBoundAdmissible'
  <2>1. NoBetterPlan'
    <3>1. BetweenInsertions'
      BY <1>1, <1>2, <1>15, <1>16 DEF BetweenInsertions, TypeInv, OneDirection
    <3>. QED
      BY <3>1, BoundsHold, PTL
  <2>2. f \in 0 .. MaxInt
    BY SearchTypes, MinNextGRange, <1>1 DEF TypeInv, TypeOK, WithinMaxG
  <2>3. solution' \in SolutionType
    BY DEF TypeInv, TypeOK
  <2>4. \/ lowerBound' = lowerBound
        \/ lowerBound' <= f /\ lowerBound' <= UpperOf(solution')
    BY <1>1, <2>2, <2>3, SearchTypes, LowerBoundAfterRange
  <2>5. UpperOf(solution') = UpperBound' /\ GetF(dir)' = f
    BY <1>1 DEF UpperBound, UpperOf, IsSolved, GetF, MinNextG
  <2>. SUFFICES ASSUME NEW p \in Plans PROVE lowerBound' <= PlanCost(p)
    BY DEF LowerBoundAdmissible
  <2>6. \/ UpperOf(solution') <= PlanCost(p)
        \/ f <= PlanCost(p)
    BY <1>1, <2>1, <2>5, SearchTypes DEF NoBetterPlan
  <2>7. lowerBound <= PlanCost(p)
    BY DEF Rest, LowerBoundAdmissible
  <2>8. lowerBound' \in Nat /\ PlanCost(p) \in Nat
    BY SearchTypes, PlanNodes DEF TypeInv, TypeOK
  <2>. QED
    BY <1>11, <2>2, <2>4, <2>5, <2>6, <2>7, <2>8
<1>. QED
  BY <1>13, <1>14, <1>15, <1>16, <1>17, <1>18 DEF Rest

\* prepareBucket with nothing left to pop: every plan is no better than the solution.
LEMMA ExhaustStep ==
    ASSUME OneDirection, TypeInv, Rest, Exhaust
    PROVE  Rest'
<1>1. /\ FrontierEmpty(frontier[dir])
      /\ open[dir] = {}
      /\ pc = "pop"
      /\ lowerBound' = LowerBoundAfter(MaxInt, solution)
      /\ UNCHANGED <<open, frontier, closed, lastStepCost, solution, images, dir, status>>
  BY DEF Exhaust
<1>2. images = {} /\ status = "IN_PROGRESS"
  BY <1>1 DEF Rest, Phases, TypeInv, TypeOK
<1>3. Phases'
  BY <1>1, <1>2 DEF Rest, Phases
<1>4. /\ LayerOrder'
      /\ SourceAndTarget'
      /\ VerdictWhenBoundsMeet'
  BY <1>1, <1>2 DEF Rest, LayerOrder, SourceAndTarget, VerdictWhenBoundsMeet
<1>5. SuccessorsReached'
  BY <1>1 DEF Rest, SuccessorsReached, ReachedAt, Unexpanded, UpperBound, UpperOf, IsSolved
<1>6. LowerBoundAdmissible'
  <2>. SUFFICES ASSUME NEW p \in Plans PROVE lowerBound' <= PlanCost(p)
    BY DEF LowerBoundAdmissible
  <2>1. GetF(dir) = MaxInt
    BY <1>1, SearchTypes, MinNextGBounds DEF GetF
  <2>2. PlanCost(p) \in Nat /\ PlanCost(p) < MaxInt
    BY SearchTypes, PlanNodes
  <2>3. NoBetterPlan
    BY <1>2, BoundsHold DEF BetweenInsertions, Rest, TypeInv
  <2>4. UpperBound <= PlanCost(p)
    BY <2>1, <2>2, <2>3, SearchTypes, ConstantTypes DEF NoBetterPlan
  <2>5. lowerBound' \in 0 .. MaxInt /\ (lowerBound' = lowerBound \/ lowerBound' <= UpperBound)
    BY <1>1, SearchTypes, ConstantTypes, LowerBoundAfterRange DEF UpperBound
  <2>6. lowerBound <= PlanCost(p)
    BY DEF Rest, LowerBoundAdmissible
  <2>. QED
    BY <2>2, <2>4, <2>5, <2>6, SearchTypes
<1>. QED
  BY <1>3, <1>4, <1>5, <1>6 DEF Rest

\* The steps that touch neither the layers nor the bounds.
LEMMA OtherSteps ==
    ASSUME OneDirection, TypeInv, Rest,
           \/ ExpandTruncated
           \/ InsertDone
           \/ Finish
           \/ UNCHANGED vars
    PROVE  Rest'
<1>1. /\ UNCHANGED <<open, frontier, closed, lastStepCost, lowerBound, solution, images, dir>>
      /\ images = {} \/ UNCHANGED pc
      /\ \/ UNCHANGED status /\ status = "IN_PROGRESS"
         \/ UNCHANGED <<pc, status>>
         \/ /\ pc' = "step"
            /\ status' = Verdict(lowerBound) \/ status' = "TIMEOUT"
  <2>1. CASE ExpandTruncated
    BY <2>1 DEF ExpandTruncated, perDirection, controller, Rest, Phases, TypeInv, TypeOK
  <2>2. CASE InsertDone
    BY <2>2 DEF InsertDone, perDirection, controller, Rest, Phases, TypeInv, TypeOK
  <2>3. CASE Finish
    BY <2>3 DEF Finish, perDirection, OneDirection, Rest, Phases, TypeInv, TypeOK
  <2>4. CASE UNCHANGED vars
    BY <2>4 DEF vars, perDirection, controller
  <2>. QED
    BY <2>1, <2>2, <2>3, <2>4
<1>2. Phases'
  BY <1>1 DEF Rest, Phases
<1>3. /\ LayerOrder'
      /\ SourceAndTarget'
      /\ LowerBoundAdmissible'
  BY <1>1 DEF Rest, LayerOrder, SourceAndTarget, LowerBoundAdmissible
<1>4. SuccessorsReached'
  BY <1>1 DEF Rest, SuccessorsReached, ReachedAt, Unexpanded, UpperBound, UpperOf, IsSolved
<1>5. VerdictWhenBoundsMeet'
  <2>1. UpperBound' = UpperBound /\ (IsSolved(solution') <=> IsSolved(solution))
    BY <1>1 DEF UpperBound, UpperOf, IsSolved
  <2>2. CASE status' = Verdict(lowerBound)
    BY <1>1, <2>1, <2>2, SearchTypes DEF Verdict, VerdictWhenBoundsMeet
  <2>. QED
    BY <1>1, <2>1, <2>2 DEF Rest, VerdictWhenBoundsMeet
<1>. QED
  BY <1>2, <1>3, <1>4, <1>5 DEF Rest

\* The initial states: only the source is closed, and it is still to be expanded.
LEMMA InitRest ==
    ASSUME OneDirection, TypeInv, Init
    PROVE  Rest
<1>. DEFINE start(d) == Popped(0, {Source(d)})
            ready(d) == Prepared(start(d), {FilterMutex(d, TRUE, Source(d))})
<1>1. /\ open[dir] = {}
      /\ frontier[dir] = start(dir) \/ frontier[dir] = ready(dir)
      /\ closed[dir] = {0} \X Source(dir)
      /\ lowerBound = AbsMinTransitionCost
      /\ images = {}
      /\ status = "IN_PROGRESS"
      /\ dir \in Directions /\ \A d \in Directions : d = dir
  BY SearchTypes DEF Init
<1>2. /\ frontier[dir].g = 0
      /\ ~ HasTransitions0 => frontier[dir].zero = {}
      /\ UNION frontier[dir].zero \subseteq UNION frontier[dir].cost
      /\ \A c \in Costs, s \in NotMutex[dir] :
            s \in Source(dir) => s \in Unexpanded(frontier[dir], c)
  <2>1. \A s \in NotMutex[dir] :
           s \in Source(dir) => s \in FilterMutex(dir, TRUE, Source(dir))
    BY FilterMutexKeeps
  <2>2. CASE frontier[dir] = start(dir)
    BY <2>2 DEF Popped, Unexpanded
  <2>3. CASE frontier[dir] = ready(dir) /\ HasTransitions0
    <3>1. /\ frontier[dir].g = 0
          /\ frontier[dir].zero = {FilterMutex(dir, TRUE, Source(dir))}
          /\ frontier[dir].cost = frontier[dir].zero
      BY <2>3 DEF Popped, Prepared
    <3>2. \A c : UNION frontier[dir].zero \subseteq Unexpanded(frontier[dir], c)
      BY DEF Unexpanded
    <3>. QED
      BY <2>1, <2>3, <3>1, <3>2
  <2>4. CASE frontier[dir] = ready(dir) /\ ~ HasTransitions0
    BY <2>1, <2>4 DEF Popped, Prepared, Unexpanded, HasTransitions0
  <2>. QED
    BY <1>1, <2>2, <2>3, <2>4
<1>3. LayerOrder /\ Phases /\ VerdictWhenBoundsMeet
  BY <1>1, <1>2 DEF LayerOrder, Phases, VerdictWhenBoundsMeet
<1>4. SourceAndTarget
  BY <1>1, OneDirectionFacts, ClosedStatesOfSource DEF SourceAndTarget
<1>5. SuccessorsReached
  BY <1>1, <1>2 DEF SuccessorsReached
<1>6. LowerBoundAdmissible
  <2>. SUFFICES ASSUME NEW p \in Plans PROVE AbsMinTransitionCost <= PlanCost(p)
    BY <1>1 DEF LowerBoundAdmissible
  <2>1. p.len # 0
    BY SearchTypes, OneDirectionFacts, PlanNodes
  <2>2. p.len \in 1 .. p.len /\ p.len - 1 \in 0 .. p.len
    BY <2>1, SearchTypes, PlanNodes
  <2>3. PICK c \in Costs : CostAt(dir, p, p.len - 1) = CostAt(dir, p, p.len) + c
    BY <2>2, SearchTypes, PlanNodes
  <2>4. CostAt(dir, p, p.len - 1) <= PlanCost(p) /\ CostAt(dir, p, p.len) = 0
    BY <2>2, SearchTypes, PlanNodes, PlanCostMonotone
  <2>. QED
    BY <2>3, <2>4, SearchTypes, PlanNodes, AbsMinBounds, ConstantTypes
<1>. QED
  BY <1>3, <1>4, <1>5, <1>6 DEF Rest

\* Every step of a search in one direction preserves its invariant.
LEMMA UnidirectionalStep ==
    ASSUME OneDirection, TypeInv, Rest, [Next]_vars
    PROVE  TypeInv' /\ Rest'
<1>1. TypeInv'
  BY NextType
<1>2. CASE (\E d \in Directions : Step(d)) \/ PrepareNext
  BY <1>1, <1>2, PrepareSteps
<1>3. CASE ExpandZero \/ ExpandCost
  BY <1>1, <1>3, ExpandSteps
<1>4. CASE Insert
  BY <1>1, <1>4, InsertStep
<1>5. CASE Pop
  BY <1>1, <1>5, PopStep
<1>6. CASE Exhaust
  BY <1>1, <1>6, ExhaustStep
<1>7. CASE ExpandTruncated \/ InsertDone \/ Finish \/ Terminated \/ UNCHANGED vars
  BY <1>1, <1>7, OtherSteps DEF Terminated
<1>. QED
  BY <1>2, <1>3, <1>4, <1>5, <1>6, <1>7 DEF Next

-----------------------------------------------------------------------------

\* A verdict that is given when the bounds have met is right, if the lower one is.
LEMMA VerdictIsOptimal ==
    TypeOK /\ VerdictWhenBoundsMeet /\ LowerBoundAdmissible => OptimalResult
<1>. SUFFICES ASSUME TypeOK, VerdictWhenBoundsMeet, LowerBoundAdmissible,
                     status \in {"SOLVED", "FAILED"}, NEW p \in Plans
              PROVE  UpperBound <= PlanCost(p) /\ status # "FAILED"
  BY DEF OptimalResult
<1>1. /\ UpperBound <= lowerBound
      /\ status = "FAILED" => ~ IsSolved(solution)
      /\ lowerBound <= PlanCost(p)
      /\ lowerBound \in Nat /\ solution \in SolutionType
  BY DEF VerdictWhenBoundsMeet, LowerBoundAdmissible, TypeOK
<1>2. /\ UpperBound \in Nat
      /\ ~ IsSolved(solution) => UpperBound = MaxInt
  BY <1>1, UpperOfSolution DEF UpperBound
<1>3. PlanCost(p) \in Nat /\ PlanCost(p) < MaxInt
  BY PlanNodes
<1>. QED
  BY <1>1, <1>2, <1>3, ConstantTypes

\* The inductive invariant of sfw and sbw holds in every state of every run.
THEOREM UnidirectionalInvariant ==
    ASSUME OneDirection
    PROVE  Spec => []UnidirectionalInv
<1>1. Init => TypeInv /\ Rest
  BY InitType, InitRest
<1>2. TypeInv /\ Rest /\ [Next]_vars => TypeInv' /\ Rest'
  BY UnidirectionalStep
<1>3. TypeInv /\ Rest => UnidirectionalInv
  BY DEF TypeInv, Rest, UnidirectionalInv
<1>. QED
  BY <1>1, <1>2, <1>3, PTL DEF Spec

\* The lower bound that sfw and sbw print never exceeds the cost of a plan.
THEOREM LowerBoundIsAdmissible ==
    ASSUME OneDirection
    PROVE  Spec => []LowerBoundAdmissible
<1>1. UnidirectionalInv => LowerBoundAdmissible
  BY DEF UnidirectionalInv
<1>. QED
  BY <1>1, UnidirectionalInvariant, PTL

\* sfw and sbw report a task solved with the cost of a cheapest plan, and failed
\* only when it has no plan.
THEOREM SolutionIsOptimal ==
    ASSUME OneDirection
    PROVE  Spec => []OptimalResult
<1>1. UnidirectionalInv => OptimalResult
  BY VerdictIsOptimal DEF UnidirectionalInv
<1>. QED
  BY <1>1, UnidirectionalInvariant, PTL

-----------------------------------------------------------------------------
(* One direction or both.                                                  *)

\* The types of a search, for each direction that runs.
LEMMA StateTypes ==
    ASSUME TypeInv
    PROVE  /\ dir \in Directions
           /\ open \in [Directions -> SUBSET (Nat \X BDD)]
           /\ frontier \in [Directions -> FrontierType]
           /\ closed \in [Directions -> SUBSET (Nat \X States)]
           /\ hNotClosed \in [Directions -> 0 .. MaxInt]
           /\ fNotClosed \in [Directions -> 0 .. MaxInt]
           /\ lastStepCost \in [Directions -> BOOLEAN]
           /\ \A d \in Directions :
                 /\ d \in {"fw", "bw"}
                 /\ frontier[d] \in [g : Nat, filter : Bucket, merge : Bucket, zero : Bucket, cost : Bucket]
                 /\ frontier[d].g \in Nat /\ frontier[d].g <= MaxG
                 /\ \A entry \in open[d] : entry[1] \in Nat /\ entry[1] <= MaxG /\ entry[2] \in BDD
                 /\ \A entry \in closed[d] : entry[1] \in Nat
           /\ images \in SUBSET (Nat \X Bucket)
           /\ \A image \in images : image[1] \in Nat /\ image[1] <= MaxG /\ image[2] \in Bucket
           /\ solution \in SolutionType
           /\ lowerBound \in 0 .. MaxInt
           /\ UpperBound \in Nat
<1>1. UpperBound \in Nat
  BY UpperOfSolution DEF TypeInv, TypeOK, UpperBound
<1>2. \A d \in Directions :
         frontier[d] \in [g : Nat, filter : Bucket, merge : Bucket, zero : Bucket, cost : Bucket]
  BY DEF TypeInv, TypeOK, FrontierType
<1>3. \A d \in Directions : d \in {"fw", "bw"}
  BY ConstantTypes
<1>. QED
  BY <1>1, <1>2, <1>3 DEF TypeInv, TypeOK, WithinMaxG

\* StructureInv contains the types.
LEMMA StructureTypes == StructureInv => TypeInv
BY DEF StructureInv, TypeInv

\* What the opposite search has closed is within the bound of the model.
LEMMA OppositeClosedBounds ==
    ASSUME StructureInv, NEW d \in {"fw", "bw"}, NEW entry \in OppositeClosed(d)
    PROVE  entry[1] \in Nat /\ entry[1] <= MaxG /\ entry[2] \in States
<1>1. TypeInv /\ OppositeClosed(d) \in SUBSET (Nat \X States)
  BY StructureTypes, OppositeClosedType DEF TypeInv
<1>2. CASE Opposite(d) \in Directions
  <2>1. /\ entry \in closed[Opposite(d)]
        /\ entry[1] <= frontier[Opposite(d)].g
    BY <1>2 DEF OppositeClosed, StructureInv, LayerOrder
  <2>2. /\ frontier[Opposite(d)].g \in Nat
        /\ frontier[Opposite(d)].g <= MaxG
        /\ MaxG \in Nat
    BY <1>1, <1>2, StateTypes, ConstantTypes
  <2>3. entry[1] \in Nat /\ entry[2] \in States
    BY <1>1
  <2>. QED
    BY <2>1, <2>2, <2>3
<1>3. CASE Opposite(d) \notin Directions
  <2>1. entry[1] = 0
    BY <1>3 DEF OppositeClosed
  <2>. QED
    BY <1>1, <2>1, ConstantTypes
<1>. QED
  BY <1>2, <1>3

-----------------------------------------------------------------------------
(* What the steps do, in the terms of the invariants.                      *)

\* stepImage and prepareBucket when they only prepare a frontier.
LEMMA PrepareEffect ==
    ASSUME StructureInv,
           \/ \E d \in Directions : Step(d)
           \/ PrepareNext
    PROVE  /\ UNCHANGED <<open, closed, hNotClosed, fNotClosed, lastStepCost, lowerBound,
                          solution, images, status>>
           /\ UpperBound' = UpperBound
           /\ images = {} /\ status = "IN_PROGRESS"
           /\ dir' \in Directions
           /\ \/ pc = "step" /\ pc' \in {"expand", "finish"}
              \/ pc = "pop" /\ pc' \in {"pop", "finish"} /\ dir' = dir
           /\ frontier' \in [Directions -> FrontierType]
           /\ \A d \in Directions :
                 /\ frontier'[d].g = frontier[d].g
                 /\ Shaped(frontier'[d])
                 /\ FrontierStates(frontier'[d]) \subseteq FrontierStates(frontier[d])
                 /\ \A c \in Costs, s \in NotMutex[d] :
                       s \in Unexpanded(frontier[d], c) => s \in Unexpanded(frontier'[d], c)
                 /\ ~ HasTransitions0 => frontier'[d].zero = {}
                 /\ UNION frontier'[d].zero \subseteq UNION frontier'[d].cost
                 /\ pc' = "expand" /\ dir' = d => frontier'[d].filter = {} /\ frontier'[d].merge = {}
<1>1. /\ TypeInv /\ dir \in Directions
      /\ frontier \in [Directions -> FrontierType]
      /\ \A d \in Directions : /\ Shaped(frontier[d])
                               /\ ~ HasTransitions0 => frontier[d].zero = {}
                               /\ UNION frontier[d].zero \subseteq UNION frontier[d].cost
  BY StructureTypes, StateTypes DEF StructureInv, FrontierShape, Phases
<1>2. ASSUME NEW d \in Directions, NEW outcome \in PrepareOutcomes(d, frontier[d]),
             frontier' = [frontier EXCEPT ![d] = outcome.frontier]
      PROVE  /\ frontier' \in [Directions -> FrontierType]
             /\ \A e \in Directions :
                   /\ frontier'[e].g = frontier[e].g
                   /\ Shaped(frontier'[e])
                   /\ FrontierStates(frontier'[e]) \subseteq FrontierStates(frontier[e])
                   /\ \A c \in Costs, s \in NotMutex[e] :
                         s \in Unexpanded(frontier[e], c) => s \in Unexpanded(frontier'[e], c)
                   /\ ~ HasTransitions0 => frontier'[e].zero = {}
                   /\ UNION frontier'[e].zero \subseteq UNION frontier'[e].cost
             /\ outcome.ok => frontier'[d].filter = {} /\ frontier'[d].merge = {}
  <2>1. frontier[d] \in FrontierType
    BY <1>1
  <2>2. /\ outcome.frontier \in FrontierType
        /\ outcome.frontier.g = frontier[d].g
        /\ Shaped(outcome.frontier)
        /\ FrontierStates(outcome.frontier) \subseteq FrontierStates(frontier[d])
        /\ \A c \in Costs, s \in NotMutex[d] :
              s \in Unexpanded(frontier[d], c) => s \in Unexpanded(outcome.frontier, c)
        /\ ~ HasTransitions0 => outcome.frontier.zero = {}
        /\ UNION outcome.frontier.zero \subseteq UNION outcome.frontier.cost
        /\ outcome.ok => outcome.frontier.filter = {} /\ outcome.frontier.merge = {}
    BY <1>1, <2>1, PrepareKeepsStates, PrepareKeepsShape
  <2>3. frontier'[d] = outcome.frontier /\ \A e \in Directions : e # d => frontier'[e] = frontier[e]
    BY <1>1, <1>2
  <2>. QED
    BY <1>1, <1>2, <2>2, <2>3
<1>3. ASSUME NEW d \in Directions, Step(d)
      PROVE  /\ UNCHANGED <<open, closed, hNotClosed, fNotClosed, lastStepCost, lowerBound,
                            solution, images, status>>
             /\ status = "IN_PROGRESS" /\ dir' = d
             /\ pc = "step" /\ pc' \in {"expand", "finish"}
             /\ \E outcome \in PrepareOutcomes(d, frontier[d]) :
                   /\ frontier' = [frontier EXCEPT ![d] = outcome.frontier]
                   /\ pc' = "expand" => outcome.ok
  BY <1>3 DEF Step, Prepare, controller
<1>4. ASSUME PrepareNext
      PROVE  /\ UNCHANGED <<open, closed, hNotClosed, fNotClosed, lastStepCost, lowerBound,
                            solution, images, status>>
             /\ dir' = dir
             /\ pc = "pop" /\ pc' \in {"pop", "finish"}
             /\ \/ UNCHANGED frontier
                \/ \E outcome \in PrepareOutcomes(dir, frontier[dir]) :
                      frontier' = [frontier EXCEPT ![dir] = outcome.frontier]
  BY <1>4 DEF PrepareNext, Prepare, controller
<1>5. images = {} /\ status = "IN_PROGRESS"
  BY <1>1, <1>3, <1>4 DEF StructureInv, Phases, TypeOK
<1>6. UpperBound' = UpperBound
  BY <1>3, <1>4 DEF UpperBound, UpperOf, IsSolved
<1>7. CASE \E d \in Directions : Step(d)
  <2>1. PICK d \in Directions : Step(d)
    BY <1>7
  <2>2. PICK outcome \in PrepareOutcomes(d, frontier[d]) :
           /\ frontier' = [frontier EXCEPT ![d] = outcome.frontier]
           /\ pc' = "expand" => outcome.ok
    BY <1>3, <2>1
  <2>. QED
    BY <1>2, <1>3, <1>5, <1>6, <2>1, <2>2
<1>8. CASE PrepareNext
  BY <1>1, <1>2, <1>4, <1>5, <1>6, <1>8
<1>. QED
  BY <1>7, <1>8

\* expand_zero and expand_cost: a state that leaves the frontier has its successors of
\* cost c in an image, and an image holds only successors of states of the frontier.
LEMMA ExpandEffect ==
    ASSUME StructureInv, ExpandZero \/ ExpandCost
    PROVE  /\ UNCHANGED <<open, closed, hNotClosed, fNotClosed, lowerBound, solution, dir, status>>
           /\ UpperBound' = UpperBound
           /\ pc = "expand" /\ pc' = "insert" /\ images = {} /\ status = "IN_PROGRESS"
           /\ lastStepCost' = [lastStepCost EXCEPT ![dir] = FALSE]
           /\ \A d \in Directions : d # dir => frontier'[d] = frontier[d]
           /\ frontier'[dir].g = frontier[dir].g
           /\ frontier'[dir].filter = {} /\ frontier'[dir].merge = {} /\ frontier'[dir].zero = {}
           /\ Shaped(frontier'[dir])
           /\ FrontierStates(frontier'[dir]) \subseteq FrontierStates(frontier[dir])
           /\ \A c \in Costs : \A s \in Unexpanded(frontier[dir], c) :
                 \/ s \in Unexpanded(frontier'[dir], c)
                 \/ \A t \in NotMutex[dir] : Leads(dir, s, c, t) =>
                       \E image \in images' : t \in UNION image[2] /\ image[1] = frontier[dir].g + c
           /\ \A image \in images' : \E c \in Costs :
                 /\ image[1] = frontier[dir].g + c
                 /\ ~ HasTransitions0 => c # 0
                 /\ \A t \in UNION image[2] : \E s \in FrontierStates(frontier[dir]) : Leads(dir, s, c, t)
<1>. DEFINE f == frontier[dir]
<1>1. /\ UNCHANGED <<open, closed, hNotClosed, fNotClosed, lowerBound, solution, dir, status>>
      /\ pc = "expand" /\ pc' = "insert"
      /\ lastStepCost' = [lastStepCost EXCEPT ![dir] = FALSE]
  BY DEF ExpandZero, ExpandCost, controller
<1>2. /\ TypeInv
      /\ dir \in Directions /\ dir \in {"fw", "bw"}
      /\ frontier \in [Directions -> FrontierType]
      /\ f \in [g : Nat, filter : Bucket, merge : Bucket, zero : Bucket, cost : Bucket]
      /\ f.g \in Nat
  BY StructureTypes, StateTypes
<1>3. /\ images = {} /\ status = "IN_PROGRESS"
      /\ f.filter = {} /\ f.merge = {}
      /\ Shaped(f)
      /\ ~ HasTransitions0 => f.zero = {}
  BY <1>1, <1>2 DEF StructureInv, Phases, FrontierShape, TypeOK
<1>4. UpperBound' = UpperBound
  BY <1>1 DEF UpperBound, UpperOf, IsSolved
<1>5. \/ /\ f.zero # {}
         /\ frontier' = [frontier EXCEPT ![dir] = [f EXCEPT !.zero = {}]]
         /\ images' = {<<f.g, ImageBucket(dir, 0, f.zero)>>}
      \/ /\ f.zero = {}
         /\ frontier' = [frontier EXCEPT ![dir] = [f EXCEPT !.cost = {}]]
         /\ images' = {<<f.g + c, ImageBucket(dir, c, f.cost)>> : c \in Costs \ {0}}
  BY DEF ExpandZero, ExpandCost
<1>6. /\ \A d \in Directions : d # dir => frontier'[d] = frontier[d]
      /\ \/ frontier'[dir] = [f EXCEPT !.zero = {}] /\ f.zero # {}
         \/ frontier'[dir] = [f EXCEPT !.cost = {}] /\ f.zero = {}
  BY <1>2, <1>5
<1>7. /\ frontier'[dir].g = f.g
      /\ frontier'[dir].filter = {} /\ frontier'[dir].merge = {} /\ frontier'[dir].zero = {}
      /\ \/ frontier'[dir].cost = f.cost /\ f.zero # {}
         \/ frontier'[dir].cost = {} /\ f.zero = {}
  BY <1>2, <1>3, <1>6
<1>8. Shaped(frontier'[dir]) /\ FrontierStates(frontier'[dir]) \subseteq FrontierStates(f)
  <2>1. Cardinality(frontier'[dir].zero) <= 1 /\ Cardinality(frontier'[dir].cost) <= 1
    <3>1. Cardinality({}) <= 1
      BY FS_EmptySet
    <3>2. Cardinality(f.cost) <= 1
      BY <1>3 DEF Shaped
    <3>. QED
      BY <1>7, <3>1, <3>2
  <2>2. Shaped(frontier'[dir])
    BY <1>7, <2>1 DEF Shaped
  <2>3. frontier'[dir].cost \subseteq f.cost
    BY <1>7
  <2>. QED
    BY <1>7, <2>2, <2>3 DEF FrontierStates
<1>9. ASSUME NEW c \in Costs, NEW s \in Unexpanded(f, c),
             ~ (s \in Unexpanded(frontier'[dir], c)),
             NEW t \in NotMutex[dir], Leads(dir, s, c, t)
      PROVE  \E image \in images' : t \in UNION image[2] /\ image[1] = f.g + c
  <2>1. s \in UNION f.zero \/ (c # 0 /\ s \in UNION f.cost)
    BY <1>3, <1>9 DEF Unexpanded
  <2>2. CASE f.zero # {}
    <3>1. ~ (c # 0 /\ s \in UNION f.cost)
      BY <1>7, <1>9, <2>2 DEF Unexpanded
    <3>2. s \in UNION f.zero /\ UNION f.zero \subseteq UNION f.cost
      BY <1>2, <2>1, <3>1 DEF StructureInv, Phases
    <3>3. c = 0
      BY <3>1, <3>2
    <3>4. t \in UNION ImageBucket(dir, 0, f.zero)
      BY <1>2, <1>9, <3>2, <3>3, ImageOfTransition
    <3>5. <<f.g, ImageBucket(dir, 0, f.zero)>> \in images' /\ f.g = f.g + c
      BY <1>2, <1>5, <2>2, <3>3
    <3>. QED
      BY <3>4, <3>5
  <2>3. CASE f.zero = {}
    <3>1. c # 0 /\ s \in UNION f.cost
      BY <2>1, <2>3
    <3>2. t \in UNION ImageBucket(dir, c, f.cost)
      BY <1>2, <1>9, <3>1, ImageOfTransition
    <3>3. <<f.g + c, ImageBucket(dir, c, f.cost)>> \in images'
      BY <1>5, <2>3, <3>1
    <3>. QED
      BY <3>2, <3>3
  <2>. QED
    BY <2>2, <2>3
<1>10. \A c \in Costs, bucket \in Bucket : \A t \in UNION ImageBucket(dir, c, bucket) :
          \E s \in UNION bucket : Leads(dir, s, c, t)
  <2>. SUFFICES ASSUME NEW c \in Costs, NEW bucket \in Bucket,
                       NEW t \in UNION ImageBucket(dir, c, bucket)
                PROVE  \E s \in UNION bucket : Leads(dir, s, c, t)
    OBVIOUS
  <2>1. PICK tr \in TRs[c], b \in bucket : t \in Image(dir, tr, b)
    BY DEF ImageBucket
  <2>2. PICK s \in b : IF dir = "fw" THEN <<s, t>> \in tr ELSE <<t, s>> \in tr
    BY <2>1 DEF Image
  <2>. QED
    BY <2>1, <2>2 DEF Leads, Transition
<1>11. ASSUME NEW image \in images'
       PROVE  \E c \in Costs :
                 /\ image[1] = f.g + c
                 /\ ~ HasTransitions0 => c # 0
                 /\ \A t \in UNION image[2] : \E s \in FrontierStates(f) : Leads(dir, s, c, t)
  <2>1. UNION f.zero \subseteq FrontierStates(f) /\ UNION f.cost \subseteq FrontierStates(f)
    BY DEF FrontierStates
  <2>2. CASE f.zero # {}
    <3>1. 0 \in Costs /\ image[1] = f.g + 0 /\ image[2] = ImageBucket(dir, 0, f.zero)
      BY <1>2, <1>3, <1>5, <2>2 DEF HasTransitions0
    <3>. QED
      BY <1>2, <1>3, <1>10, <2>1, <2>2, <3>1
  <2>3. CASE f.zero = {}
    <3>1. PICK c \in Costs \ {0} : image = <<f.g + c, ImageBucket(dir, c, f.cost)>>
      BY <1>5, <2>3
    <3>. QED
      BY <1>2, <1>10, <2>1, <3>1
  <2>. QED
    BY <2>2, <2>3
<1>. QED
  BY <1>1, <1>3, <1>4, <1>6, <1>7, <1>8, <1>9, <1>11

\* The sum that stepImage compares with the upper bound is an int: hNotClosed is beyond
\* the costs of a run only in the last step, which inserts nothing any more.
LEMMA FValueBound ==
    ASSUME StructureInv
    PROVE  /\ FValueInRange
           /\ images # {} => OppositeHNotClosed(dir) \in Nat
<1>1. TypeInv /\ dir \in Directions /\ dir \in {"fw", "bw"}
  BY StructureTypes, StateTypes
<1>2. ASSUME images # {}
      PROVE  /\ OppositeHNotClosed(dir) \in Nat
             /\ OppositeHNotClosed(dir) <= MaxG + AbsMinTransitionCost
  <2>1. CASE Opposite(dir) \in Directions
    <3>1. pc = "insert" /\ status = "IN_PROGRESS"
      BY <1>2 DEF StructureInv, Phases
    <3>2. ~ Over
      BY <3>1 DEF Over
    <3>3. hNotClosed[Opposite(dir)] <= MaxG + AbsMinTransitionCost
      BY <2>1, <3>2 DEF StructureInv, NotClosedValues
    <3>4. hNotClosed[Opposite(dir)] \in Nat
      <4>1. hNotClosed \in [Directions -> 0 .. MaxInt] /\ MaxInt \in Nat
        BY <1>1, StateTypes, ConstantTypes
      <4>. QED
        BY <2>1, <4>1
    <3>. QED
      BY <2>1, <3>3, <3>4 DEF OppositeHNotClosed
  <2>2. CASE Opposite(dir) \notin Directions
    BY <2>2, AbsMinBounds, ConstantTypes DEF OppositeHNotClosed
  <2>. QED
    BY <2>1, <2>2
<1>3. \A image \in images : image[1] \in Nat /\ image[1] <= MaxG
  BY <1>1, StateTypes
<1>. QED
  BY <1>2, <1>3, AbsMinBounds, ConstantTypes DEF FValueInRange

\* checkCut and new_solution: the upper bound never rises, and is at most the cost of any
\* meeting of the bucket with what the opposite search has closed.
LEMMA CutEffect ==
    ASSUME StructureInv, NEW g \in Nat, g <= MaxG, NEW bdds \in Bucket,
           solution' \in SolutionsAfterCut(dir, g, bdds)
    PROVE  /\ solution' \in SolutionType
           /\ UpperBound' = UpperOf(solution')
           /\ UpperBound' \in Nat
           /\ UpperBound' <= UpperBound /\ UpperBound' <= MaxInt
           /\ \A entry \in OppositeClosed(dir) :
                 entry[2] \in UNION bdds => UpperBound' <= g + entry[1]
<1>1. TypeInv /\ dir \in {"fw", "bw"} /\ solution \in SolutionType
  BY StructureTypes, StateTypes
<1>2. OppositeClosed(dir) \in SUBSET (Nat \X States)
  BY <1>1, OppositeClosedType DEF TypeInv
<1>3. /\ solution' \in SolutionType
      /\ \/ solution' = solution
         \/ /\ IsSolved(solution')
            /\ IsSolved(solution) => UpperOf(solution') <= UpperOf(solution)
            /\ \E entry \in OppositeClosed(dir) : UpperOf(solution') = g + entry[1]
      /\ \A entry \in OppositeClosed(dir) :
            entry[2] \in UNION bdds => IsSolved(solution') /\ UpperOf(solution') <= g + entry[1]
  BY <1>1, <1>2, SolutionAfterCut
<1>4. UpperBound' = UpperOf(solution') /\ UpperBound = UpperOf(solution)
  BY DEF UpperBound, UpperOf, IsSolved
<1>5. /\ UpperOf(solution') \in Nat
      /\ UpperOf(solution) \in Nat /\ UpperOf(solution) <= MaxInt
      /\ ~ IsSolved(solution) => UpperOf(solution) = MaxInt
  BY <1>1, <1>3, <1>4, UpperOfSolution DEF StructureInv
<1>6. \A entry \in OppositeClosed(dir) : g + entry[1] <= MaxInt
  <2>1. \A entry \in OppositeClosed(dir) : entry[1] \in Nat /\ entry[1] <= MaxG
    BY <1>1, OppositeClosedBounds
  <2>. QED
    BY <2>1, BoundAssumption
<1>7. UpperOf(solution') <= UpperOf(solution)
  BY <1>3, <1>5, <1>6, ConstantTypes
<1>8. UpperOf(solution') <= MaxInt
  BY <1>5, <1>7, ConstantTypes
<1>. QED
  BY <1>3, <1>4, <1>5, <1>7, <1>8

\* One turn of the loop over the images: a state of the image is inserted, or met by the
\* opposite search, or cannot improve the solution.
LEMMA InsertEffect ==
    ASSUME StructureInv, Insert
    PROVE  /\ UNCHANGED <<frontier, closed, hNotClosed, fNotClosed, lastStepCost, lowerBound,
                          dir, pc, status>>
           /\ pc = "insert" /\ status = "IN_PROGRESS"
           /\ UpperBound' \in Nat /\ UpperBound' <= UpperBound /\ UpperBound' <= MaxInt
           /\ \A d \in Directions : d # dir => open'[d] = open[d]
           /\ open[dir] \subseteq open'[dir]
           /\ \E image \in images, merged \in Bucket :
                 /\ images' = images \ {image}
                 /\ UNION merged = UNION image[2]
                 /\ solution' \in SolutionsAfterCut(dir, image[1], merged)
                 /\ \A entry \in OppositeClosed(dir) :
                       entry[2] \in UNION image[2] => UpperBound' <= image[1] + entry[1]
                 /\ \A entry \in open'[dir] :
                       \/ entry \in open[dir]
                       \/ entry[1] = image[1] /\ entry[2] \subseteq UNION image[2]
                 /\ \A t \in UNION image[2] :
                       \/ \E entry \in open'[dir] : t \in entry[2] /\ entry[1] = image[1]
                       \/ t \in ClosedStates(OppositeClosed(dir))
                       \/ UpperBound' <= image[1] + OppositeHNotClosed(dir)
<1>1. /\ UNCHANGED <<frontier, closed, hNotClosed, fNotClosed, lastStepCost, lowerBound,
                     dir, pc, status>>
      /\ pc = "insert"
  BY DEF Insert
<1>2. /\ TypeInv /\ dir \in Directions
      /\ open \in [Directions -> SUBSET (Nat \X BDD)]
      /\ status = "IN_PROGRESS"
  BY <1>1, StructureTypes, StateTypes DEF StructureInv, Phases
<1>3. PICK image \in images :
         /\ \E merged \in MergeBucket(image[2]) :
               /\ solution' \in SolutionsAfterCut(dir, image[1], merged)
               /\ open' = [open EXCEPT ![dir] = @ \cup
                              Inserted(dir, image[1], merged, UpperOf(solution'))]
         /\ images' = images \ {image}
  BY DEF Insert
<1>4. PICK merged \in MergeBucket(image[2]) :
         /\ solution' \in SolutionsAfterCut(dir, image[1], merged)
         /\ open' = [open EXCEPT ![dir] = @ \cup
                        Inserted(dir, image[1], merged, UpperOf(solution'))]
  BY <1>3
<1>5. image[1] \in Nat /\ image[1] <= MaxG /\ image[2] \in Bucket
  BY <1>2, StateTypes
<1>6. merged \in Bucket /\ UNION merged = UNION image[2]
  BY <1>5, MergeKeepsStates
<1>7. /\ UpperBound' = UpperOf(solution')
      /\ UpperBound' \in Nat /\ UpperBound' <= UpperBound /\ UpperBound' <= MaxInt
      /\ \A entry \in OppositeClosed(dir) :
            entry[2] \in UNION merged => UpperBound' <= image[1] + entry[1]
  BY <1>4, <1>5, <1>6, CutEffect
<1>. DEFINE inserted == Inserted(dir, image[1], merged, UpperOf(solution'))
<1>8. Int32(image[1] + OppositeHNotClosed(dir)) = image[1] + OppositeHNotClosed(dir)
  <2>1. /\ OppositeHNotClosed(dir) \in Nat
        /\ image[1] + OppositeHNotClosed(dir) <= MaxInt
    BY FValueBound DEF FValueInRange
  <2>. QED
    BY <1>5, <2>1, ConstantTypes DEF Int32
<1>9. /\ \A entry \in inserted : entry[1] = image[1] /\ entry[2] \subseteq UNION merged
      /\ \A t \in UNION merged :
            \/ \E entry \in inserted : t \in entry[2] /\ entry[1] = image[1]
            \/ t \in ClosedStates(OppositeClosed(dir))
            \/ UpperBound' <= image[1] + OppositeHNotClosed(dir)
  <2>1. \A b \in NotClosedOpposite(dir, merged) : b \subseteq UNION merged
    BY DEF NotClosedOpposite
  <2>2. \A entry \in inserted : entry[1] = image[1] /\ entry[2] \subseteq UNION merged
    BY <2>1 DEF Inserted
  <2>3. ASSUME NEW t \in UNION merged, t \notin ClosedStates(OppositeClosed(dir)),
               image[1] + OppositeHNotClosed(dir) < UpperBound'
        PROVE  \E entry \in inserted : t \in entry[2] /\ entry[1] = image[1]
    <3>1. inserted = {image[1]} \X (NotClosedOpposite(dir, merged) \ {{}})
      BY <1>7, <1>8, <2>3 DEF Inserted
    <3>2. PICK b \in NotClosedOpposite(dir, merged) : t \in b
      <4>1. PICK b \in merged : t \in b
        OBVIOUS
      <4>2. t \in b \ ClosedStates(OppositeClosed(dir))
        BY <2>3, <4>1
      <4>. QED
        BY <4>2 DEF NotClosedOpposite
    <3>3. <<image[1], b>> \in inserted
      BY <3>1, <3>2
    <3>. QED
      BY <3>2, <3>3
  <2>4. OppositeHNotClosed(dir) \in Nat
    BY FValueBound
  <2>. QED
    BY <1>5, <1>7, <2>2, <2>3, <2>4
<1>. HIDE DEF inserted
<1>10. /\ open'[dir] = open[dir] \cup inserted
       /\ \A d \in Directions : d # dir => open'[d] = open[d]
  BY <1>2, <1>4 DEF inserted
<1>11. /\ \A entry \in OppositeClosed(dir) :
             entry[2] \in UNION image[2] => UpperBound' <= image[1] + entry[1]
       /\ \A entry \in open'[dir] :
             \/ entry \in open[dir]
             \/ entry[1] = image[1] /\ entry[2] \subseteq UNION image[2]
       /\ \A t \in UNION image[2] :
             \/ \E entry \in open'[dir] : t \in entry[2] /\ entry[1] = image[1]
             \/ t \in ClosedStates(OppositeClosed(dir))
             \/ UpperBound' <= image[1] + OppositeHNotClosed(dir)
  BY <1>6, <1>7, <1>9, <1>10
<1>. QED
  BY <1>1, <1>2, <1>3, <1>4, <1>6, <1>7, <1>10, <1>11

\* What a pop does with the layer of value g: the BDDs that are popped, and those that
\* become the bucket to expand.
LayerPopped(g, popped, bucket) ==
    /\ g <= MaxG /\ frontier[dir].g <= g
    /\ \E entry \in open[dir] : entry[1] = g
    /\ \A entry \in open[dir] : /\ g <= entry[1]
                                /\ entry[1] = g => entry[2] \subseteq UNION popped
    /\ \A t \in UNION popped : \E entry \in open[dir] : entry[1] = g /\ t \in entry[2]
    /\ solution' \in SolutionsAfterCut(dir, g, popped)
    /\ \A entry \in OppositeClosed(dir) :
          entry[2] \in UNION popped => UpperBound' <= g + entry[1]
    /\ open' = [open EXCEPT ![dir] = {e \in open[dir] : e[1] # g}]
    /\ frontier' = [frontier EXCEPT ![dir] = Popped(g, bucket)]
    /\ closed' = [closed EXCEPT ![dir] = closed[dir] \cup ({g} \X UNION bucket)]
    /\ {} \notin bucket
    /\ \A t \in UNION bucket : /\ t \in UNION popped
                               /\ t \notin ClosedStates(closed[dir])
                               /\ t \notin ClosedStates(OppositeClosed(dir))
    /\ \A t \in NotMutex[dir] : t \in UNION popped =>
          \/ t \in UNION bucket
          \/ t \in ClosedStates(closed[dir])
          \/ t \in ClosedStates(OppositeClosed(dir))
          \/ OppositeExhausted(dir)

\* The layer that prepareBucket pops: what it drops has been closed by one of the
\* searches, or violates a mutex, or is out of reach of an exhausted opposite search.
LEMMA PopEffect ==
    ASSUME StructureInv, TypeInv', Pop
    PROVE  /\ UNCHANGED <<lastStepCost, images, dir, pc, status>>
           /\ pc = "pop" /\ status = "IN_PROGRESS" /\ images = {} /\ ~ lastStepCost[dir]
           /\ FrontierEmpty(frontier[dir])
           /\ UpperBound' \in Nat /\ UpperBound' <= UpperBound /\ UpperBound' <= MaxInt
           /\ hNotClosed' = [hNotClosed EXCEPT ![dir] = LargerOf(@, GetF(dir)')]
           /\ fNotClosed' = [fNotClosed EXCEPT ![dir] = LargerOf(@, GetF(dir)')]
           /\ GetF(dir)' \in 0 .. MaxInt
           /\ lowerBound' = LowerBoundAfter(GetF(dir)', solution')
           /\ \E g \in Nat, popped \in Bucket, bucket \in Bucket : LayerPopped(g, popped, bucket)
<1>. DEFINE g == MinG(open[dir])
            popped == {entry[2] : entry \in {e \in open[dir] : e[1] = g}}
            fresh == NotDeadEnd(dir, NotClosedOwn(dir, NotClosedOpposite(dir, popped)))
            f == MinNextG(open'[dir], frontier'[dir])
<1>1. /\ open[dir] # {}
      /\ FrontierEmpty(frontier[dir])
      /\ pc = "pop"
      /\ solution' \in SolutionsAfterCut(dir, g, popped)
      /\ open' = [open EXCEPT ![dir] = {e \in open[dir] : e[1] # g}]
      /\ \E bucket \in PopFilterOutcomes(dir, g, fresh) :
            /\ frontier' = [frontier EXCEPT ![dir] = Popped(g, bucket)]
            /\ closed' = IF ~ lastStepCost[dir] \/ g # 0
                         THEN [closed EXCEPT ![dir] = @ \cup ({g} \X UNION bucket)]
                         ELSE closed
      /\ hNotClosed' = [hNotClosed EXCEPT ![dir] = LargerOf(@, f)]
      /\ fNotClosed' = [fNotClosed EXCEPT ![dir] = LargerOf(@, f)]
      /\ lowerBound' = LowerBoundAfter(f, solution')
      /\ UNCHANGED <<lastStepCost, images, dir, pc, status>>
  BY DEF Pop
<1>2. /\ TypeInv /\ dir \in Directions /\ dir \in {"fw", "bw"}
      /\ open \in [Directions -> SUBSET (Nat \X BDD)]
      /\ frontier[dir].g \in Nat
  BY StructureTypes, StateTypes
<1>3. images = {} /\ status = "IN_PROGRESS" /\ ~ lastStepCost[dir]
  BY <1>1, <1>2 DEF StructureInv, Phases, TypeOK
<1>4. /\ g \in Nat /\ g <= MaxG /\ frontier[dir].g <= g
      /\ \A entry \in open[dir] : g <= entry[1]
      /\ \E entry \in open[dir] : entry[1] = g
      /\ popped \in Bucket
  <2>1. open[dir] \in SUBSET (Nat \X BDD)
    BY <1>2
  <2>2. /\ g \in Nat
        /\ \A entry \in open[dir] : g <= entry[1]
        /\ \E entry \in open[dir] : entry[1] = g
    BY <1>1, <2>1, MinGIsLeast
  <2>3. \A entry \in open[dir] : entry[1] <= MaxG /\ frontier[dir].g <= entry[1]
    BY <1>2, StateTypes DEF StructureInv, LayerOrder
  <2>4. popped \in Bucket
    BY <2>1 DEF Bucket
  <2>. QED
    BY <2>2, <2>3, <2>4
<1>5. \A entry \in open[dir] : entry[1] = g => entry[2] \subseteq UNION popped
  OBVIOUS
<1>6. \A t \in UNION popped : \E entry \in open[dir] : entry[1] = g /\ t \in entry[2]
  OBVIOUS
<1>7. fresh \in Bucket
  BY <1>4, PruningType
<1>8. \A t \in UNION fresh : /\ t \in UNION popped
                             /\ t \notin ClosedStates(closed[dir])
                             /\ t \notin ClosedStates(OppositeClosed(dir))
  <2>. HIDE DEF popped
  <2>. QED
    BY DEF NotDeadEnd, NotClosedOwn, NotClosedOpposite
<1>9. ASSUME NEW t \in UNION popped, t \notin ClosedStates(closed[dir]),
             t \notin ClosedStates(OppositeClosed(dir)), ~ OppositeExhausted(dir)
      PROVE  t \in UNION fresh
  <2>. HIDE DEF popped
  <2>1. PICK b \in popped : t \in b
    OBVIOUS
  <2>2. t \in (b \ ClosedStates(OppositeClosed(dir))) \ ClosedStates(closed[dir])
    BY <1>9, <2>1
  <2>3. (b \ ClosedStates(OppositeClosed(dir))) \ ClosedStates(closed[dir]) \in fresh
    BY <1>9 DEF NotDeadEnd, NotClosedOwn, NotClosedOpposite
  <2>. QED
    BY <2>2, <2>3
<1>. HIDE DEF g, popped, fresh
<1>10. PICK bucket \in PopFilterOutcomes(dir, g, fresh) :
         /\ frontier' = [frontier EXCEPT ![dir] = Popped(g, bucket)]
         /\ closed' = [closed EXCEPT ![dir] = closed[dir] \cup ({g} \X UNION bucket)]
  BY <1>1, <1>3
<1>11. /\ bucket \in Bucket
       /\ {} \notin bucket
       /\ UNION bucket \subseteq UNION fresh
       /\ \A s \in NotMutex[dir] : s \in UNION fresh => s \in UNION bucket
  BY <1>2, <1>7, <1>10, PopFilterKeepsStates
<1>12. GetF(dir)' = f
  BY <1>1 DEF GetF, MinNextG
<1>13. f \in 0 .. MaxInt
  <2>1. /\ open'[dir] \in SUBSET (Nat \X BDD)
        /\ \A entry \in open'[dir] : entry[1] <= MaxG
        /\ frontier'[dir] \in FrontierType /\ frontier'[dir].g <= MaxG
    BY <1>2 DEF TypeInv, TypeOK, WithinMaxG
  <2>. QED
    BY <2>1, MinNextGRange
<1>14. /\ UpperBound' \in Nat /\ UpperBound' <= UpperBound /\ UpperBound' <= MaxInt
       /\ \A entry \in OppositeClosed(dir) :
             entry[2] \in UNION popped => UpperBound' <= g + entry[1]
  BY <1>1, <1>4, CutEffect
<1>15. /\ \A t \in UNION bucket : /\ t \in UNION popped
                                  /\ t \notin ClosedStates(closed[dir])
                                  /\ t \notin ClosedStates(OppositeClosed(dir))
       /\ \A t \in NotMutex[dir] : t \in UNION popped =>
             \/ t \in UNION bucket
             \/ t \in ClosedStates(closed[dir])
             \/ t \in ClosedStates(OppositeClosed(dir))
             \/ OppositeExhausted(dir)
  BY <1>8, <1>9, <1>11
<1>. HIDE DEF f
<1>16. /\ hNotClosed' = [hNotClosed EXCEPT ![dir] = LargerOf(@, GetF(dir)')]
       /\ fNotClosed' = [fNotClosed EXCEPT ![dir] = LargerOf(@, GetF(dir)')]
       /\ lowerBound' = LowerBoundAfter(GetF(dir)', solution')
       /\ GetF(dir)' \in 0 .. MaxInt
  BY <1>1, <1>12, <1>13
<1>17. LayerPopped(g, popped, bucket)
  BY <1>1, <1>4, <1>5, <1>6, <1>10, <1>11, <1>14, <1>15 DEF LayerPopped
<1>. QED
  BY <1>1, <1>3, <1>4, <1>11, <1>14, <1>16, <1>17

\* The steps that touch neither the layers nor the solution.
LEMMA QuietEffect ==
    ASSUME StructureInv,
           \/ ExpandTruncated
           \/ InsertDone
           \/ Finish
           \/ UNCHANGED vars
    PROVE  /\ UNCHANGED <<open, frontier, closed, hNotClosed, fNotClosed, lastStepCost,
                          solution, images, dir>>
           /\ UpperBound' = UpperBound
           /\ images # {} => UNCHANGED pc
           /\ \/ pc \in {"expand", "insert"} /\ pc' = "pop" /\ UNCHANGED <<status, lowerBound>>
              \/ pc = "finish" /\ Finish
              \/ UNCHANGED <<pc, status, lowerBound>>
           /\ lowerBound' \in Int /\ lowerBound <= lowerBound'
           /\ ~ Finish => UNCHANGED lowerBound
           /\ Finish => /\ pc = "finish" /\ pc' = "step" /\ images = {} /\ status = "IN_PROGRESS"
                        /\ status' = Verdict(lowerBound') \/ status' = "TIMEOUT"
<1>1. TypeInv /\ lowerBound \in 0 .. MaxInt /\ solution \in SolutionType
  BY StructureTypes, StateTypes
<1>2. CASE ExpandTruncated
  <2>1. pc = "expand" /\ images = {}
    BY <1>2 DEF ExpandTruncated, StructureInv, Phases
  <2>2. ~ Finish
    BY <2>1 DEF Finish
  <2>. QED
    BY <1>1, <1>2, <2>1, <2>2 DEF ExpandTruncated, perDirection, controller, UpperBound, UpperOf, IsSolved
<1>3. CASE InsertDone
  <2>1. pc = "insert" /\ images = {}
    BY <1>3 DEF InsertDone
  <2>2. ~ Finish
    BY <2>1 DEF Finish
  <2>. QED
    BY <1>1, <1>3, <2>1, <2>2 DEF InsertDone, perDirection, controller, UpperBound, UpperOf, IsSolved
<1>4. CASE Finish
  <2>1. lowerBound' \in Int /\ lowerBound <= lowerBound'
    BY <1>1, <1>4, BidirectionalFRange, LowerBoundRises, LowerBoundAfterRange DEF Finish
  <2>2. images = {} /\ status = "IN_PROGRESS"
    BY <1>1, <1>4 DEF Finish, StructureInv, Phases, TypeInv, TypeOK
  <2>. QED
    BY <1>4, <2>1, <2>2 DEF Finish, perDirection, UpperBound, UpperOf, IsSolved
<1>5. CASE UNCHANGED vars /\ ~ Finish
  BY <1>1, <1>5 DEF vars, perDirection, controller, UpperBound, UpperOf, IsSolved
<1>. QED
  BY <1>2, <1>3, <1>4, <1>5

-----------------------------------------------------------------------------
(* The structure of the lists.                                             *)

\* extract_path can go back from a state for ever after, for nothing is removed from closed.
LEMMA ReconstructableGrows ==
    ASSUME \A d \in Directions : closed[d] \subseteq closed'[d],
           NEW d \in Directions, NEW g, NEW s, Reconstructable(d, g, s)
    PROVE  Reconstructable(d, g, s)'
<1>1. CASE g = 0 /\ s \in Source(d)
  BY <1>1 DEF Reconstructable
<1>2. CASE ~ (g = 0 /\ s \in Source(d))
  <2>1. PICK entry \in closed[d], c \in Costs : g = entry[1] + c /\ Leads(d, entry[2], c, s)
    BY <1>2 DEF Reconstructable
  <2>2. entry \in closed'[d]
    OBVIOUS
  <2>. QED
    BY <2>1, <2>2 DEF Reconstructable
<1>. QED
  BY <1>1, <1>2

\* From both sides of a new cut there is a way back.
LEMMA CutReconstructable ==
    ASSUME StructureInv, NEW g, NEW bdds, solution' \in SolutionsAfterCut(dir, g, bdds),
           \A s \in UNION bdds : Reconstructable(dir, g, s),
           IsSolved(solution')
    PROVE  /\ solution'.cut # {}
           /\ \A s \in solution'.cut :
                 /\ "fw" \in Directions => Reconstructable("fw", solution'.g, s)
                 /\ "bw" \in Directions => Reconstructable("bw", solution'.h, s)
<1>1. TypeInv /\ dir \in Directions /\ dir \in {"fw", "bw"}
  BY StructureTypes, StateTypes
<1>2. CASE solution' = solution
  BY <1>2 DEF StructureInv, PathsReconstructable, IsSolved
<1>3. CASE solution' # solution
  <2>1. PICK h, cut : /\ solution' = SymSolution(dir, g, h, cut)
                      /\ cut # {}
                      /\ \A s \in cut : s \in UNION bdds /\ <<h, s>> \in OppositeClosed(dir)
    BY <1>3, CutOfNewSolution
  <2>2. \A s \in cut : /\ Reconstructable(dir, g, s)
                       /\ Opposite(dir) \in Directions => Reconstructable(Opposite(dir), h, s)
    <3>. SUFFICES ASSUME NEW s \in cut, Opposite(dir) \in Directions
                  PROVE  Reconstructable(Opposite(dir), h, s)
      BY <2>1
    <3>1. <<h, s>> \in closed[Opposite(dir)]
      BY <2>1 DEF OppositeClosed
    <3>2. Reconstructable(Opposite(dir), <<h, s>>[1], <<h, s>>[2])
      BY <3>1 DEF StructureInv, PathsReconstructable
    <3>. QED
      BY <3>2
  <2>3. solution'.cut = cut
    BY <2>1 DEF SymSolution
  <2>4. CASE dir = "fw"
    <3>1. solution'.g = g /\ solution'.h = h /\ Opposite(dir) = "bw"
      BY <2>1, <2>4 DEF SymSolution, Opposite
    <3>. QED
      BY <2>1, <2>2, <2>3, <2>4, <3>1
  <2>5. CASE dir = "bw"
    <3>1. solution'.g = h /\ solution'.h = g /\ Opposite(dir) = "fw"
      BY <2>1, <2>5 DEF SymSolution, Opposite
    <3>. QED
      BY <2>1, <2>2, <2>3, <2>5, <3>1
  <2>. QED
    BY <1>1, <2>4, <2>5
<1>. QED
  BY <1>2, <1>3

\* Frontier::prepare keeps the structure: no state enters a bucket.
LEMMA PrepareStructure ==
    ASSUME StructureInv, TypeInv',
           \/ \E d \in Directions : Step(d)
           \/ PrepareNext
    PROVE  StructureInv'
<1>1. /\ UNCHANGED <<open, closed, hNotClosed, fNotClosed, lastStepCost, lowerBound,
                     solution, images, status>>
      /\ UpperBound' = UpperBound
      /\ images = {} /\ status = "IN_PROGRESS"
      /\ dir' \in Directions
      /\ \/ pc = "step" /\ pc' \in {"expand", "finish"}
         \/ pc = "pop" /\ pc' \in {"pop", "finish"} /\ dir' = dir
      /\ \A d \in Directions :
            /\ frontier'[d].g = frontier[d].g
            /\ Shaped(frontier'[d])
            /\ FrontierStates(frontier'[d]) \subseteq FrontierStates(frontier[d])
            /\ ~ HasTransitions0 => frontier'[d].zero = {}
            /\ UNION frontier'[d].zero \subseteq UNION frontier'[d].cost
            /\ pc' = "expand" /\ dir' = d => frontier'[d].filter = {} /\ frontier'[d].merge = {}
  BY PrepareEffect
<1>. USE DEF StructureInv
<1>2. UpperBound' <= MaxInt
  BY <1>1
<1>3. LayerOrder'
  BY <1>1 DEF LayerOrder
<1>4. Phases'
  BY <1>1 DEF Phases
<1>5. FrontierShape'
  BY <1>1 DEF FrontierShape, Shaped
<1>6. FrontierClosed'
  BY <1>1 DEF FrontierClosed, FrontierStates
<1>7. SourceClosed' /\ ClosedOnce' /\ ClosedDisjoint'
  BY <1>1 DEF SourceClosed, ClosedOnce, ClosedDisjoint, OppositeClosed
<1>8. PathsReconstructable'
  BY <1>1 DEF PathsReconstructable, Reconstructable, IsSolved
<1>9. NotClosedValues'
  <2>1. Over => Over'
    BY <1>1 DEF Over, EngineSolved
  <2>. QED
    BY <1>1, <2>1 DEF NotClosedValues
<1>. QED
  BY <1>2, <1>3, <1>4, <1>5, <1>6, <1>7, <1>8, <1>9 DEF TypeInv

\* The images of closed states can be reconstructed.
LEMMA ExpandStructure ==
    ASSUME StructureInv, TypeInv', ExpandZero \/ ExpandCost
    PROVE  StructureInv'
<1>1. /\ UNCHANGED <<open, closed, hNotClosed, fNotClosed, lowerBound, solution, dir, status>>
      /\ UpperBound' = UpperBound
      /\ pc = "expand" /\ pc' = "insert" /\ images = {} /\ status = "IN_PROGRESS"
      /\ lastStepCost' = [lastStepCost EXCEPT ![dir] = FALSE]
      /\ \A d \in Directions : d # dir => frontier'[d] = frontier[d]
      /\ frontier'[dir].g = frontier[dir].g
      /\ frontier'[dir].filter = {} /\ frontier'[dir].merge = {} /\ frontier'[dir].zero = {}
      /\ Shaped(frontier'[dir])
      /\ FrontierStates(frontier'[dir]) \subseteq FrontierStates(frontier[dir])
      /\ \A image \in images' : \E c \in Costs :
            /\ image[1] = frontier[dir].g + c
            /\ \A t \in UNION image[2] : \E s \in FrontierStates(frontier[dir]) : Leads(dir, s, c, t)
  BY ExpandEffect
<1>2. /\ TypeInv /\ dir \in Directions
      /\ frontier[dir].g \in Nat
      /\ lastStepCost'[dir] = FALSE
      /\ \A d \in Directions : d # dir => lastStepCost'[d] = lastStepCost[d]
  BY <1>1, StructureTypes, StateTypes
<1>. USE DEF StructureInv
<1>3. UpperBound' <= MaxInt
  BY <1>1
<1>4. LayerOrder'
  <2>1. \A image \in images' : frontier[dir].g <= image[1]
    <3>1. \A image \in images' : \E c \in Costs : image[1] = frontier[dir].g + c
      BY <1>1
    <3>2. \A c \in Costs : c \in Nat
      BY ConstantTypes
    <3>. QED
      BY <1>2, <3>1, <3>2
  <2>. QED
    BY <1>1, <1>2, <2>1 DEF LayerOrder
<1>5. Phases'
  BY <1>1, <1>2 DEF Phases
<1>6. FrontierShape'
  <2>1. \A d \in Directions : Shaped(frontier'[d])
    BY <1>1 DEF FrontierShape
  <2>. QED
    BY <1>1, <2>1 DEF FrontierShape, Shaped
<1>7. FrontierClosed'
  <2>1. \A d \in Directions : /\ frontier'[d].g = frontier[d].g
                              /\ FrontierStates(frontier'[d]) \subseteq FrontierStates(frontier[d])
    BY <1>1
  <2>. QED
    BY <1>1, <2>1 DEF FrontierClosed, FrontierStates
<1>8. SourceClosed' /\ ClosedOnce' /\ ClosedDisjoint'
  BY <1>1 DEF SourceClosed, ClosedOnce, ClosedDisjoint, OppositeClosed
<1>9. PathsReconstructable'
  <2>1. ASSUME NEW image \in images', NEW s \in UNION image[2]
        PROVE  Reconstructable(dir, image[1], s)
    <3>1. PICK c \in Costs, r \in FrontierStates(frontier[dir]) :
             image[1] = frontier[dir].g + c /\ Leads(dir, r, c, s)
      BY <1>1
    <3>2. <<frontier[dir].g, r>> \in closed[dir]
      BY <1>2 DEF FrontierClosed
    <3>. QED
      BY <3>1, <3>2 DEF Reconstructable
  <2>. QED
    BY <1>1, <2>1 DEF PathsReconstructable, Reconstructable, IsSolved
<1>10. NotClosedValues'
  <2>1. ~ Over
    BY <1>1 DEF Over
  <2>. QED
    BY <1>1, <2>1 DEF NotClosedValues
<1>. QED
  BY <1>3, <1>4, <1>5, <1>6, <1>7, <1>8, <1>9, <1>10 DEF TypeInv

\* What is inserted in open is not below the current layer.
LEMMA InsertStructure ==
    ASSUME StructureInv, TypeInv', Insert
    PROVE  StructureInv'
<1>1. /\ UNCHANGED <<frontier, closed, hNotClosed, fNotClosed, lastStepCost, lowerBound,
                     dir, pc, status>>
      /\ pc = "insert" /\ status = "IN_PROGRESS"
      /\ UpperBound' <= MaxInt
      /\ \A d \in Directions : d # dir => open'[d] = open[d]
  BY InsertEffect
<1>2. PICK image \in images, merged \in Bucket :
         /\ images' = images \ {image}
         /\ UNION merged = UNION image[2]
         /\ solution' \in SolutionsAfterCut(dir, image[1], merged)
         /\ \A entry \in open'[dir] :
               \/ entry \in open[dir]
               \/ entry[1] = image[1] /\ entry[2] \subseteq UNION image[2]
  BY InsertEffect
<1>3. /\ dir \in Directions
      /\ frontier[dir].g <= image[1]
      /\ \A d \in Directions : lastStepCost[d] => open[d] = {} /\ d # dir
  BY StructureTypes, StateTypes DEF StructureInv, LayerOrder, Phases
<1>. USE DEF StructureInv
<1>4. LayerOrder'
  BY <1>1, <1>2, <1>3 DEF LayerOrder
<1>5. Phases'
  BY <1>1, <1>2, <1>3 DEF Phases
<1>6. FrontierShape' /\ FrontierClosed'
  BY <1>1 DEF FrontierShape, FrontierClosed, FrontierStates, Shaped
<1>7. SourceClosed' /\ ClosedOnce' /\ ClosedDisjoint'
  BY <1>1 DEF SourceClosed, ClosedOnce, ClosedDisjoint, OppositeClosed
<1>8. PathsReconstructable'
  <2>1. \A s \in UNION image[2] : Reconstructable(dir, image[1], s)
    BY DEF PathsReconstructable
  <2>2. IsSolved(solution') =>
           /\ solution'.cut # {}
           /\ \A s \in solution'.cut :
                 /\ "fw" \in Directions => Reconstructable("fw", solution'.g, s)
                 /\ "bw" \in Directions => Reconstructable("bw", solution'.h, s)
    BY <1>2, <2>1, CutReconstructable
  <2>3. \A d \in Directions : \A entry \in open'[d] : \A s \in entry[2] : Reconstructable(d, entry[1], s)
    <3>. SUFFICES ASSUME NEW d \in Directions, NEW entry \in open'[d], NEW s \in entry[2]
                  PROVE  Reconstructable(d, entry[1], s)
      OBVIOUS
    <3>1. CASE entry \in open[d]
      BY <3>1 DEF PathsReconstructable
    <3>2. CASE entry \notin open[d]
      <4>1. d = dir /\ entry[1] = image[1] /\ s \in UNION image[2]
        BY <1>1, <1>2, <3>2
      <4>. QED
        BY <2>1, <4>1
    <3>. QED
      BY <3>1, <3>2
  <2>4. /\ \A d \in Directions : \A entry \in closed[d] : Reconstructable(d, entry[1], entry[2])
        /\ \A i \in images' : \A s \in UNION i[2] : Reconstructable(dir, i[1], s)
    BY <1>2 DEF PathsReconstructable
  <2>5. \A d, g, s : Reconstructable(d, g, s)' <=> Reconstructable(d, g, s)
    BY <1>1 DEF Reconstructable
  <2>6. IsSolved(solution)' <=> IsSolved(solution')
    BY DEF IsSolved
  <2>. QED
    BY <1>1, <2>2, <2>3, <2>4, <2>5, <2>6 DEF PathsReconstructable
<1>9. NotClosedValues'
  <2>1. ~ Over
    BY <1>1 DEF Over
  <2>. QED
    BY <1>1, <2>1 DEF NotClosedValues
<1>. QED
  BY <1>1, <1>4, <1>5, <1>6, <1>7, <1>8, <1>9 DEF TypeInv

\* When minNextG is beyond the costs of a run, nothing is open and the bounds meet.
LEMMA NextGWhenOpen ==
    ASSUME NEW o \in SUBSET (Nat \X BDD), \A entry \in o : entry[1] <= MaxG,
           NEW f \in FrontierType, f.g <= MaxG
    PROVE  \/ MinNextG(o, f) <= MaxG + AbsMinTransitionCost
           \/ MinNextG(o, f) = MaxInt
<1>1. /\ MinNextG(o, f) \in Nat
      /\ \A entry \in o : MinNextG(o, f) <= entry[1]
      /\ ~ FrontierEmpty(f) => MinNextG(o, f) <= f.g + AbsMinTransitionCost
      /\ FrontierEmpty(f) /\ o = {} => MinNextG(o, f) = MaxInt
  BY MinNextGBounds
<1>2. f.g \in Nat /\ AbsMinTransitionCost \in Nat /\ MaxG \in Nat
  BY AbsMinBounds, ConstantTypes DEF FrontierType
<1>3. ASSUME NEW entry \in o
      PROVE  MinNextG(o, f) <= MaxG + AbsMinTransitionCost
  BY <1>1, <1>2
<1>. QED
  BY <1>1, <1>2, <1>3

\* Bounds that have met stay met.
LEMMA OverLasts ==
    ASSUME StructureInv, TypeInv', lowerBound <= lowerBound', UpperBound' <= UpperBound,
           pc' \in {"pop", "finish"} \/ status' # "IN_PROGRESS", Over
    PROVE  Over'
<1>1. lowerBound \in Int /\ lowerBound' \in Int /\ UpperBound \in Int /\ UpperBound' \in Int
  <2>1. TypeInv => lowerBound \in Int /\ UpperBound \in Int
    BY StateTypes, ConstantTypes
  <2>2. (TypeInv => lowerBound \in Int /\ UpperBound \in Int)'
    BY UpperOfSolution, ConstantTypes DEF TypeInv, TypeOK, UpperBound
  <2>. QED
    BY <2>1, <2>2, StructureTypes
<1>. QED
  BY <1>1 DEF Over, EngineSolved

\* A layer is closed after all layers before it, at the g-value that it is popped with.
LEMMA PopStructure ==
    ASSUME StructureInv, TypeInv', Pop
    PROVE  StructureInv' /\ (Over => Over')
<1>1. /\ UNCHANGED <<lastStepCost, images, dir, pc, status>>
      /\ pc = "pop" /\ status = "IN_PROGRESS" /\ images = {} /\ ~ lastStepCost[dir]
      /\ UpperBound' \in Nat /\ UpperBound' <= UpperBound /\ UpperBound' <= MaxInt
      /\ hNotClosed' = [hNotClosed EXCEPT ![dir] = LargerOf(@, GetF(dir)')]
      /\ fNotClosed' = [fNotClosed EXCEPT ![dir] = LargerOf(@, GetF(dir)')]
      /\ GetF(dir)' \in 0 .. MaxInt
      /\ lowerBound' = LowerBoundAfter(GetF(dir)', solution')
  BY PopEffect
<1>2. PICK g \in Nat, popped \in Bucket, bucket \in Bucket : LayerPopped(g, popped, bucket)
  BY PopEffect
<1>3. /\ g <= MaxG /\ frontier[dir].g <= g
      /\ \A entry \in open[dir] : g <= entry[1]
      /\ \A t \in UNION popped : \E entry \in open[dir] : entry[1] = g /\ t \in entry[2]
      /\ solution' \in SolutionsAfterCut(dir, g, popped)
      /\ open' = [open EXCEPT ![dir] = {e \in open[dir] : e[1] # g}]
      /\ frontier' = [frontier EXCEPT ![dir] = Popped(g, bucket)]
      /\ closed' = [closed EXCEPT ![dir] = closed[dir] \cup ({g} \X UNION bucket)]
      /\ \A t \in UNION bucket : /\ t \in UNION popped
                                 /\ t \notin ClosedStates(closed[dir])
                                 /\ t \notin ClosedStates(OppositeClosed(dir))
  BY <1>2 DEF LayerPopped
<1>4. /\ TypeInv /\ dir \in Directions /\ dir \in {"fw", "bw"}
      /\ open \in [Directions -> SUBSET (Nat \X BDD)]
      /\ frontier \in [Directions -> FrontierType]
      /\ closed \in [Directions -> SUBSET (Nat \X States)]
      /\ hNotClosed \in [Directions -> 0 .. MaxInt]
      /\ fNotClosed \in [Directions -> 0 .. MaxInt]
      /\ frontier[dir].g \in Nat
      /\ \A entry \in closed[dir] : entry[1] \in Nat
  BY StructureTypes, StateTypes
<1>5. /\ \A d \in Directions : d # dir => /\ open'[d] = open[d] /\ frontier'[d] = frontier[d]
                                          /\ closed'[d] = closed[d]
                                          /\ hNotClosed'[d] = hNotClosed[d]
                                          /\ fNotClosed'[d] = fNotClosed[d]
      /\ open'[dir] = {e \in open[dir] : e[1] # g}
      /\ closed'[dir] = closed[dir] \cup ({g} \X UNION bucket)
      /\ hNotClosed'[dir] = LargerOf(hNotClosed[dir], GetF(dir)')
      /\ fNotClosed'[dir] = LargerOf(fNotClosed[dir], GetF(dir)')
  BY <1>1, <1>3, <1>4
<1>6. /\ frontier'[dir].g = g
      /\ frontier'[dir].filter = bucket /\ frontier'[dir].merge = {}
      /\ frontier'[dir].zero = {} /\ frontier'[dir].cost = {}
      /\ FrontierStates(frontier'[dir]) = UNION bucket
  <2>1. frontier'[dir] = Popped(g, bucket)
    BY <1>3, <1>4
  <2>. QED
    BY <2>1 DEF Popped, FrontierStates
<1>7. lowerBound <= lowerBound'
  <2>1. solution' \in SolutionType /\ lowerBound \in 0 .. MaxInt
    BY <1>4, StateTypes DEF TypeInv, TypeOK
  <2>2. LowerBoundAfter(GetF(dir)', solution') >= lowerBound
    BY <1>1, <2>1, LowerBoundRises
  <2>3. lowerBound \in Int /\ lowerBound' \in Int
    BY <2>1, ConstantTypes DEF TypeInv, TypeOK
  <2>. QED
    BY <1>1, <2>2, <2>3
<1>. USE DEF StructureInv
<1>8. LayerOrder'
  <2>1. \A entry \in closed[dir] : entry[1] <= g
    <3>1. \A entry \in closed[dir] : entry[1] <= frontier[dir].g
      BY <1>4 DEF LayerOrder
    <3>. QED
      BY <1>3, <1>4, <3>1
  <2>2. /\ \A entry \in closed'[dir] : entry[1] <= g
        /\ \A entry \in open'[dir] : g <= entry[1]
    BY <1>3, <1>5, <2>1
  <2>. QED
    BY <1>1, <1>5, <1>6, <2>2 DEF LayerOrder
<1>9. Phases'
  BY <1>1, <1>5, <1>6 DEF Phases
<1>10. FrontierShape'
  <2>1. Cardinality({}) <= 1
    BY FS_EmptySet
  <2>2. Shaped(frontier'[dir])
    BY <1>6, <2>1 DEF Shaped
  <2>3. \A d \in Directions : Shaped(frontier'[d])
    BY <1>5, <2>2 DEF FrontierShape
  <2>. QED
    BY <1>1, <2>3 DEF FrontierShape, Shaped
<1>11. FrontierClosed'
  <2>1. \A s \in UNION bucket : <<g, s>> \in closed'[dir]
    BY <1>5
  <2>2. ASSUME NEW d \in Directions, NEW s \in FrontierStates(frontier'[d])
        PROVE  <<frontier'[d].g, s>> \in closed'[d]
    <3>1. CASE d = dir
      BY <1>6, <2>1, <2>2, <3>1
    <3>2. CASE d # dir
      BY <1>5, <2>2, <3>2 DEF FrontierClosed
    <3>. QED
      BY <3>1, <3>2
  <2>. QED
    BY <2>2 DEF FrontierClosed, FrontierStates
<1>12. \A d \in Directions : closed[d] \subseteq closed'[d]
  BY <1>5
<1>13. SourceClosed'
  BY <1>12 DEF SourceClosed
<1>14. ClosedOnce'
  <2>1. ASSUME NEW x \in closed'[dir], NEW y \in closed'[dir], x[2] = y[2]
        PROVE  x[1] = y[1]
    <3>1. CASE x \in closed[dir] /\ y \in closed[dir]
      BY <1>4, <2>1, <3>1 DEF ClosedOnce
    <3>2. CASE x \in {g} \X UNION bucket /\ y \in {g} \X UNION bucket
      BY <3>2
    <3>3. \A z \in closed[dir] : ~ (z[2] \in UNION bucket)
      BY <1>3 DEF ClosedStates
    <3>. QED
      BY <1>5, <2>1, <3>1, <3>2, <3>3
  <2>. QED
    BY <1>5, <2>1 DEF ClosedOnce
<1>15. \A s \in ClosedStates(closed'[dir]) : s \in ClosedStates(closed[dir]) \/ s \in UNION bucket
  BY <1>5 DEF ClosedStates
<1>16. ASSUME NEW d \in Directions, d = dir
       PROVE  OppositeClosed(d)' = OppositeClosed(d)
  <2>1. Opposite(d) # d
    BY <1>4, <1>16 DEF Opposite
  <2>. QED
    BY <1>5, <1>16, <2>1 DEF OppositeClosed
<1>17. ClosedDisjoint'
  <2>. SUFFICES ASSUME InitState \notin Goal, NEW d \in Directions
                PROVE  ClosedStates(closed'[d]) \cap ClosedStates(OppositeClosed(d)') = {}
    BY DEF ClosedDisjoint, ClosedStates, OppositeClosed
  <2>1. ClosedStates(closed'[dir]) \cap ClosedStates(OppositeClosed(dir)) = {}
    <3>1. ClosedStates(closed[dir]) \cap ClosedStates(OppositeClosed(dir)) = {}
      BY <1>4 DEF ClosedDisjoint
    <3>2. \A t \in UNION bucket : t \notin ClosedStates(OppositeClosed(dir))
      BY <1>3
    <3>. QED
      BY <1>15, <3>1, <3>2
  <2>2. CASE d = dir
    BY <1>16, <2>1, <2>2
  <2>3. CASE d # dir
    <3>1. d = Opposite(dir) /\ dir = Opposite(d)
      BY <1>4, <2>3, ConstantTypes DEF Opposite
    <3>2. OppositeClosed(d)' = closed'[dir] /\ OppositeClosed(dir) = closed[d]
      BY <1>4, <3>1 DEF OppositeClosed
    <3>. QED
      BY <1>5, <2>1, <2>3, <3>2
  <2>. QED
    BY <2>2, <2>3
<1>18. PathsReconstructable'
  <2>1. \A s \in UNION popped : Reconstructable(dir, g, s)
    <3>1. \A entry \in open[dir] : \A s \in entry[2] : Reconstructable(dir, entry[1], s)
      BY <1>4 DEF PathsReconstructable
    <3>2. \A s \in UNION popped : \E entry \in open[dir] : entry[1] = g /\ s \in entry[2]
      BY <1>3
    <3>. QED
      BY <3>1, <3>2
  <2>2. IsSolved(solution') =>
           /\ solution'.cut # {}
           /\ \A s \in solution'.cut :
                 /\ "fw" \in Directions => Reconstructable("fw", solution'.g, s)
                 /\ "bw" \in Directions => Reconstructable("bw", solution'.h, s)
    BY <1>3, <2>1, CutReconstructable
  <2>3. \A d \in Directions : \A entry \in closed'[d] : Reconstructable(d, entry[1], entry[2])
    <3>. SUFFICES ASSUME NEW d \in Directions, NEW entry \in closed'[d]
                  PROVE  Reconstructable(d, entry[1], entry[2])
      OBVIOUS
    <3>1. CASE entry \in closed[d]
      BY <3>1 DEF PathsReconstructable
    <3>2. CASE entry \notin closed[d]
      <4>1. d = dir /\ entry[1] = g /\ entry[2] \in UNION popped
        BY <1>3, <1>5, <3>2
      <4>. QED
        BY <2>1, <4>1
    <3>. QED
      BY <3>1, <3>2
  <2>4. \A d \in Directions : \A entry \in open'[d] : \A s \in entry[2] : Reconstructable(d, entry[1], s)
    BY <1>5 DEF PathsReconstructable
  <2>5. \A d \in Directions : \A k, s : Reconstructable(d, k, s) => Reconstructable(d, k, s)'
    BY <1>12, ReconstructableGrows
  <2>6. IsSolved(solution)' <=> IsSolved(solution')
    BY DEF IsSolved
  <2>. QED
    BY <1>1, <2>2, <2>3, <2>4, <2>5, <2>6 DEF PathsReconstructable
<1>19. Over => Over'
  BY <1>1, <1>7, OverLasts
<1>20. NotClosedValues'
  <2>1. CASE Over
    BY <1>5, <1>19, <2>1 DEF NotClosedValues
  <2>2. CASE ~ Over
    <3>1. \A d \in Directions : /\ hNotClosed[d] = fNotClosed[d]
                                /\ hNotClosed[d] <= MaxG + AbsMinTransitionCost
      BY <2>2 DEF NotClosedValues
    <3>2. GetF(dir)' <= MaxG + AbsMinTransitionCost \/ GetF(dir)' = MaxInt
      <4>1. /\ open'[dir] \in SUBSET (Nat \X BDD)
            /\ \A entry \in open'[dir] : entry[1] <= MaxG
            /\ frontier'[dir] \in FrontierType /\ frontier'[dir].g <= MaxG
        BY <1>4 DEF TypeInv, TypeOK, WithinMaxG
      <4>2. GetF(dir)' = MinNextG(open'[dir], frontier'[dir])
        BY <1>1 DEF GetF, MinNextG
      <4>. QED
        BY <4>1, <4>2, NextGWhenOpen
    <3>3. GetF(dir)' = MaxInt => Over'
      <4>1. /\ solution' \in SolutionType
            /\ UpperBound' = UpperOf(solution')
        BY <1>3, CutEffect
      <4>2. lowerBound' \in 0 .. MaxInt
        BY DEF TypeInv, TypeOK
      <4>3. GetF(dir)' = MaxInt => lowerBound' >= SmallerOf(MaxInt, UpperOf(solution'))
        BY <1>1, <1>4, <4>1, LowerBoundRises, StateTypes
      <4>. QED
        BY <1>1, <4>1, <4>2, <4>3, ConstantTypes DEF SmallerOf, Over, EngineSolved
    <3>4. hNotClosed'[dir] <= MaxG + AbsMinTransitionCost \/ Over'
      <4>1. hNotClosed'[dir] \in {hNotClosed[dir], GetF(dir)'}
        BY <1>5 DEF LargerOf
      <4>. QED
        BY <1>4, <3>1, <3>2, <3>3, <4>1
    <3>5. \A d \in Directions : hNotClosed'[d] = fNotClosed'[d]
      BY <1>5, <3>1
    <3>6. \A d \in Directions : hNotClosed'[d] <= MaxG + AbsMinTransitionCost \/ Over'
      BY <1>5, <3>1, <3>4
    <3>. QED
      BY <3>5, <3>6 DEF NotClosedValues
  <2>. QED
    BY <2>1, <2>2
<1>. QED
  BY <1>1, <1>8, <1>9, <1>10, <1>11, <1>13, <1>14, <1>17, <1>18, <1>19, <1>20 DEF TypeInv

\* A search with nothing left to pop has nothing left to do.
LEMMA ExhaustStructure ==
    ASSUME StructureInv, TypeInv', Exhaust
    PROVE  StructureInv' /\ Over'
<1>1. /\ UNCHANGED <<open, frontier, closed, lastStepCost, solution, images, dir, status>>
      /\ pc = "pop" /\ pc' = "finish"
      /\ hNotClosed' = [hNotClosed EXCEPT ![dir] = MaxInt]
      /\ fNotClosed' = [fNotClosed EXCEPT ![dir] = MaxInt]
      /\ lowerBound' = LowerBoundAfter(MaxInt, solution)
  BY DEF Exhaust
<1>2. /\ TypeInv /\ dir \in Directions
      /\ hNotClosed \in [Directions -> 0 .. MaxInt]
      /\ fNotClosed \in [Directions -> 0 .. MaxInt]
      /\ solution \in SolutionType /\ lowerBound \in 0 .. MaxInt
      /\ MaxInt \in Nat
  BY StructureTypes, StateTypes, ConstantTypes
<1>3. images = {} /\ status = "IN_PROGRESS"
  BY <1>1, <1>2 DEF StructureInv, Phases, TypeInv, TypeOK
<1>4. UpperBound' = UpperBound /\ UpperBound = UpperOf(solution)
  BY <1>1 DEF UpperBound, UpperOf, IsSolved
<1>5. Over'
  <2>1. lowerBound' >= SmallerOf(MaxInt, UpperBound)
    BY <1>1, <1>2, <1>4, LowerBoundRises
  <2>2. UpperBound \in Nat /\ UpperBound <= MaxInt
    BY <1>2, StateTypes DEF StructureInv
  <2>. QED
    BY <1>1, <1>2, <1>4, <2>1, <2>2 DEF SmallerOf, Over, EngineSolved
<1>. USE DEF StructureInv
<1>6. LayerOrder' /\ Phases'
  BY <1>1, <1>3 DEF LayerOrder, Phases
<1>7. FrontierShape' /\ FrontierClosed'
  BY <1>1 DEF FrontierShape, Shaped, FrontierClosed, FrontierStates
<1>8. SourceClosed' /\ ClosedOnce' /\ ClosedDisjoint'
  BY <1>1 DEF SourceClosed, ClosedOnce, ClosedDisjoint, OppositeClosed
<1>9. PathsReconstructable'
  BY <1>1 DEF PathsReconstructable, Reconstructable, IsSolved
<1>10. NotClosedValues'
  BY <1>1, <1>2, <1>5 DEF NotClosedValues
<1>. QED
  BY <1>4, <1>5, <1>6, <1>7, <1>8, <1>9, <1>10 DEF TypeInv

\* The other steps leave the lists alone, and a verdict is given when the bounds have met.
LEMMA QuietStructure ==
    ASSUME StructureInv, TypeInv',
           \/ ExpandTruncated
           \/ InsertDone
           \/ Finish
           \/ UNCHANGED vars
    PROVE  StructureInv' /\ (Over => Over')
<1>1. /\ UNCHANGED <<open, frontier, closed, hNotClosed, fNotClosed, lastStepCost,
                     solution, images, dir>>
      /\ UpperBound' = UpperBound
      /\ images # {} => UNCHANGED pc
      /\ \/ pc \in {"expand", "insert"} /\ pc' = "pop" /\ UNCHANGED <<status, lowerBound>>
         \/ pc = "finish" /\ Finish
         \/ UNCHANGED <<pc, status, lowerBound>>
      /\ lowerBound' \in Int /\ lowerBound <= lowerBound'
      /\ Finish => /\ pc' = "step"
                   /\ status' = Verdict(lowerBound') \/ status' = "TIMEOUT"
  BY QuietEffect
<1>2. TypeInv /\ lowerBound \in Int /\ UpperBound \in Int
  BY StructureTypes, StateTypes, ConstantTypes
<1>3. Over => Over'
  <2>1. CASE Finish
    <3>1. Over => lowerBound' >= UpperBound /\ Verdict(lowerBound') # "IN_PROGRESS"
      BY <1>1, <1>2 DEF Over, EngineSolved, Verdict
    <3>. QED
      BY <1>1, <2>1, <3>1 DEF Over, EngineSolved
  <2>2. CASE ~ Finish
    BY <1>1, <2>2 DEF Over, EngineSolved
  <2>. QED
    BY <2>1, <2>2
<1>. USE DEF StructureInv
<1>4. LayerOrder'
  BY <1>1 DEF LayerOrder
<1>5. Phases'
  BY <1>1 DEF Phases
<1>6. FrontierShape' /\ FrontierClosed'
  BY <1>1 DEF FrontierShape, Shaped, FrontierClosed, FrontierStates
<1>7. SourceClosed' /\ ClosedOnce' /\ ClosedDisjoint'
  BY <1>1 DEF SourceClosed, ClosedOnce, ClosedDisjoint, OppositeClosed
<1>8. PathsReconstructable'
  BY <1>1 DEF PathsReconstructable, Reconstructable, IsSolved
<1>9. NotClosedValues'
  BY <1>1, <1>3 DEF NotClosedValues
<1>10. UpperBound' <= MaxInt
  BY <1>1
<1>. QED
  BY <1>3, <1>4, <1>5, <1>6, <1>7, <1>8, <1>9, <1>10 DEF TypeInv

\* What the initial states look like.
LEMMA InitEffect ==
    ASSUME Init
    PROVE  /\ images = {} /\ solution = NoSolution /\ ~ IsSolved(solution) /\ UpperBound = MaxInt
           /\ status = "IN_PROGRESS" /\ pc = "step" /\ dir \in Directions
           /\ lowerBound = AbsMinTransitionCost
           /\ \A d \in Directions :
                 /\ open[d] = {}
                 /\ closed[d] = {0} \X Source(d)
                 /\ hNotClosed[d] = AbsMinTransitionCost
                 /\ fNotClosed[d] = AbsMinTransitionCost
                 /\ lastStepCost[d]
                 /\ frontier[d].g = 0
                 /\ Shaped(frontier[d])
                 /\ FrontierStates(frontier[d]) \subseteq Source(d)
                 /\ ~ HasTransitions0 => frontier[d].zero = {}
                 /\ UNION frontier[d].zero \subseteq UNION frontier[d].cost
                 /\ \A c \in Costs, s \in NotMutex[d] :
                       s \in Source(d) => s \in Unexpanded(frontier[d], c)
                 /\ Nonzero(d, frontier[d]) /\ ~ FrontierEmpty(frontier[d])
<1>. DEFINE start(d) == Popped(0, {Source(d)})
            ready(d) == Prepared(start(d), {FilterMutex(d, TRUE, Source(d))})
<1>1. \A d \in Directions : frontier[d] = start(d) \/ frontier[d] = ready(d)
  BY DEF Init
<1>2. ASSUME NEW d \in Directions
      PROVE  /\ frontier[d].g = 0
             /\ Shaped(frontier[d])
             /\ FrontierStates(frontier[d]) \subseteq Source(d)
             /\ ~ HasTransitions0 => frontier[d].zero = {}
             /\ UNION frontier[d].zero \subseteq UNION frontier[d].cost
             /\ \A c \in Costs, s \in NotMutex[d] :
                   s \in Source(d) => s \in Unexpanded(frontier[d], c)
             /\ Nonzero(d, frontier[d]) /\ ~ FrontierEmpty(frontier[d])
  <2>. DEFINE b == FilterMutex(d, TRUE, Source(d))
  <2>1. b \subseteq Source(d) /\ \A s \in NotMutex[d] : s \in Source(d) => s \in b
    BY FilterMutexKeeps
  <2>. HIDE DEF b
  <2>2. Cardinality({}) <= 1 /\ Cardinality({b}) <= 1
    <3>1. Cardinality({}) <= 1
      BY FS_EmptySet
    <3>2. Cardinality({b}) = 1
      BY FS_Singleton
    <3>. QED
      BY <3>1, <3>2
  <2>3. Initialization(d, 0)
    BY DEF Initialization, Init
  <2>4. CASE frontier[d] = start(d)
    <3>1. /\ frontier[d].g = 0 /\ frontier[d].filter = {Source(d)} /\ frontier[d].merge = {}
          /\ frontier[d].zero = {} /\ frontier[d].cost = {}
      BY <2>4 DEF Popped
    <3>. QED
      BY <2>2, <2>3, <3>1 DEF Shaped, FrontierStates, Unexpanded, Nonzero, FrontierEmpty
  <2>5. CASE frontier[d] = ready(d)
    <3>1. /\ frontier[d].g = 0 /\ frontier[d].filter = {} /\ frontier[d].merge = {}
          /\ frontier[d].zero = IF HasTransitions0 THEN {b} ELSE {}
          /\ frontier[d].cost = {b}
      BY <2>5 DEF Popped, Prepared, b
    <3>2. Shaped(frontier[d])
      BY <2>2, <3>1 DEF Shaped
    <3>3. FrontierStates(frontier[d]) = b
      BY <3>1 DEF FrontierStates
    <3>4. \A c \in Costs : Unexpanded(frontier[d], c) = b
      BY <3>1 DEF Unexpanded, HasTransitions0
    <3>. QED
      BY <2>1, <2>3, <3>1, <3>2, <3>3, <3>4 DEF Nonzero, FrontierEmpty
  <2>. QED
    BY <1>1, <2>4, <2>5
<1>3. ~ IsSolved(NoSolution)
  BY DEF IsSolved, NoSolution
<1>. QED
  BY <1>2, <1>3 DEF Init, UpperBound, UpperOf

\* Only the sources are closed at the start, and nothing is open.
LEMMA InitStructure == Init => StructureInv
<1>. SUFFICES ASSUME Init PROVE StructureInv
  OBVIOUS
<1>1. TypeInv
  BY InitType
<1>2. /\ images = {} /\ ~ IsSolved(solution) /\ UpperBound = MaxInt
      /\ status = "IN_PROGRESS" /\ pc = "step"
      /\ \A d \in Directions :
            /\ open[d] = {}
            /\ closed[d] = {0} \X Source(d)
            /\ hNotClosed[d] = AbsMinTransitionCost
            /\ fNotClosed[d] = AbsMinTransitionCost
            /\ frontier[d].g = 0
            /\ Shaped(frontier[d])
            /\ FrontierStates(frontier[d]) \subseteq Source(d)
            /\ ~ HasTransitions0 => frontier[d].zero = {}
            /\ UNION frontier[d].zero \subseteq UNION frontier[d].cost
  BY InitEffect
<1>3. UpperBound <= MaxInt
  BY <1>2, ConstantTypes
<1>4. LayerOrder /\ Phases
  BY <1>2 DEF LayerOrder, Phases
<1>5. FrontierShape /\ SourceClosed /\ ClosedOnce
  BY <1>2 DEF FrontierShape, SourceClosed, ClosedOnce
<1>6. FrontierClosed
  BY <1>2 DEF FrontierClosed
<1>7. ClosedDisjoint
  <2>. SUFFICES ASSUME InitState \notin Goal, NEW d \in Directions
                PROVE  ClosedStates(closed[d]) \cap ClosedStates(OppositeClosed(d)) = {}
    BY DEF ClosedDisjoint
  <2>1. ClosedStates(closed[d]) = Source(d)
    BY <1>2, ClosedStatesOfSource
  <2>2. ClosedStates(OppositeClosed(d)) = Source(Opposite(d))
    BY <1>2, ClosedStatesOfSource DEF OppositeClosed
  <2>3. d = "fw" \/ d = "bw"
    BY ConstantTypes
  <2>. QED
    BY <2>1, <2>2, <2>3 DEF Source, Opposite
<1>8. PathsReconstructable
  BY <1>2 DEF PathsReconstructable, Reconstructable
<1>9. NotClosedValues
  BY <1>2, AbsMinBounds, ConstantTypes DEF NotClosedValues
<1>. QED
  BY <1>1, <1>3, <1>4, <1>5, <1>6, <1>7, <1>8, <1>9 DEF StructureInv, TypeInv

\* Every step of every search preserves the structure of the lists.
LEMMA StructureStep ==
    ASSUME StructureInv, [Next]_vars
    PROVE  StructureInv'
<1>1. TypeInv'
  BY StructureTypes, NextType
<1>2. CASE (\E d \in Directions : Step(d)) \/ PrepareNext
  BY <1>1, <1>2, PrepareStructure
<1>3. CASE ExpandZero \/ ExpandCost
  BY <1>1, <1>3, ExpandStructure
<1>4. CASE Insert
  BY <1>1, <1>4, InsertStructure
<1>5. CASE Pop
  BY <1>1, <1>5, PopStructure
<1>6. CASE Exhaust
  BY <1>1, <1>6, ExhaustStructure
<1>7. CASE ExpandTruncated \/ InsertDone \/ Finish \/ Terminated \/ UNCHANGED vars
  BY <1>1, <1>7, QuietStructure DEF Terminated
<1>. QED
  BY <1>2, <1>3, <1>4, <1>5, <1>6, <1>7 DEF Next

\* The structure of the lists holds in every state of every search.
THEOREM StructureHolds == Spec => []StructureInv
BY InitStructure, StructureStep, PTL DEF Spec

\* A state is closed once per direction, with the g-value it was first popped with.
THEOREM StatesClosedOnce == Spec => []ClosedOnce
<1>1. StructureInv => ClosedOnce
  BY DEF StructureInv
<1>. QED
  BY <1>1, StructureHolds, PTL

\* The two searches never close a common state, unless the task is solved at the start.
THEOREM SearchesDisjoint == Spec => []ClosedDisjoint
<1>1. StructureInv => ClosedDisjoint
  BY DEF StructureInv
<1>. QED
  BY <1>1, StructureHolds, PTL

\* The reconstruction of a plan never fails: from every closed, open or just generated
\* state, and from the cut of the solution, there is a way back to the source.
THEOREM PathsCanBeReconstructed == Spec => []PathsReconstructable
<1>1. StructureInv => PathsReconstructable
  BY DEF StructureInv
<1>. QED
  BY <1>1, StructureHolds, PTL

\* The f-value by which stepImage prunes never overflows an int.
THEOREM FValueNeverOverflows == Spec => []FValueInRange
<1>1. StructureInv => FValueInRange
  BY FValueBound
<1>. QED
  BY <1>1, StructureHolds, PTL

-----------------------------------------------------------------------------
(* When a bucket is ready.                                                 *)

\* Frontier::prepare never turns the last BDD of a bucket into the zero BDD.
LEMMA PrepareReady ==
    ASSUME MutexType # "and", StructureInv, ReadyInv,
           \/ \E d \in Directions : Step(d)
           \/ PrepareNext
    PROVE  ReadyInv'
<1>1. /\ UNCHANGED <<lastStepCost, lowerBound>>
      /\ UpperBound' = UpperBound
      /\ status = "IN_PROGRESS"
      /\ \/ pc = "step" /\ pc' \in {"expand", "finish"}
         \/ pc = "pop" /\ pc' \in {"pop", "finish"} /\ dir' = dir
  BY PrepareEffect
<1>2. TypeInv /\ frontier \in [Directions -> FrontierType] /\ dir \in Directions
  BY StructureTypes, StateTypes
<1>3. ASSUME NEW d \in Directions, NEW outcome \in PrepareOutcomes(d, frontier[d]),
             frontier' = [frontier EXCEPT ![d] = outcome.frontier]
      PROVE  /\ NonzeroBDDs'
             /\ \A e \in Directions : FrontierEmpty(frontier'[e]) => FrontierEmpty(frontier[e])
  <2>1. frontier[d] \in FrontierType /\ Shaped(frontier[d]) /\ Nonzero(d, frontier[d])
    BY <1>2 DEF StructureInv, FrontierShape, ReadyInv, NonzeroBDDs
  <2>2. Nonzero(d, outcome.frontier) /\ (FrontierEmpty(outcome.frontier) => FrontierEmpty(frontier[d]))
    BY <2>1, PrepareKeepsBDDs
  <2>3. frontier'[d] = outcome.frontier /\ \A e \in Directions : e # d => frontier'[e] = frontier[e]
    BY <1>2, <1>3
  <2>4. \A e \in Directions : Nonzero(e, frontier'[e])
    BY <2>2, <2>3 DEF ReadyInv, NonzeroBDDs
  <2>. QED
    BY <1>1, <2>2, <2>3, <2>4 DEF NonzeroBDDs, Nonzero, Initialization
<1>4. \/ \E d \in Directions : \E outcome \in PrepareOutcomes(d, frontier[d]) :
            frontier' = [frontier EXCEPT ![d] = outcome.frontier]
      \/ UNCHANGED frontier
  BY <1>2 DEF Step, PrepareNext, Prepare
<1>5. /\ NonzeroBDDs'
      /\ \A e \in Directions : FrontierEmpty(frontier'[e]) => FrontierEmpty(frontier[e])
  BY <1>1, <1>3, <1>4 DEF ReadyInv, NonzeroBDDs, Nonzero, Initialization
<1>6. CASE pc = "step"
  <2>1. \A e \in Directions : ~ FrontierEmpty(frontier'[e])
    BY <1>1, <1>5, <1>6 DEF ReadyInv, BucketReady, Over
  <2>. QED
    BY <1>5, <2>1 DEF ReadyInv, BucketReady, FrontierEmpty
<1>7. CASE pc = "pop"
  <2>1. ~ FrontierEmpty(frontier[dir])
    BY <1>7 DEF Step, PrepareNext
  <2>2. Over => Over'
    BY <1>1, <1>7 DEF Over, EngineSolved
  <2>. QED
    BY <1>1, <1>5, <1>7, <2>1, <2>2 DEF ReadyInv, BucketReady, FrontierEmpty
<1>. QED
  BY <1>1, <1>6, <1>7

\* Only the search that a step advances is ever without a bucket, and only until
\* prepareBucket has popped one; a pop drops the zero BDD.
LEMMA ReadyStep ==
    ASSUME MutexType # "and", StructureInv, StructureInv', ReadyInv, [Next]_vars
    PROVE  ReadyInv'
<1>. USE DEF ReadyInv
<1>1. TypeInv /\ TypeInv' /\ dir \in Directions
  <2>1. (StructureInv => TypeInv)'
    BY StructureTypes, PTL
  <2>. QED
    BY <2>1, StructureTypes, StateTypes
<1>2. CASE (\E d \in Directions : Step(d)) \/ PrepareNext
  BY <1>2, PrepareReady
<1>3. CASE ExpandZero \/ ExpandCost
  <2>1. /\ UNCHANGED dir
        /\ pc = "expand" /\ pc' = "insert" /\ status = "IN_PROGRESS"
        /\ lastStepCost' = [lastStepCost EXCEPT ![dir] = FALSE]
        /\ \A d \in Directions : d # dir => frontier'[d] = frontier[d]
        /\ frontier'[dir].filter = {} /\ frontier'[dir].merge = {}
    BY <1>3, ExpandEffect
  <2>2. \A d \in Directions : d # dir => lastStepCost'[d] = lastStepCost[d]
    BY <1>1, <2>1, StateTypes
  <2>3. NonzeroBDDs'
    BY <2>1, <2>2 DEF NonzeroBDDs, Nonzero, Initialization
  <2>4. \A d \in Directions : d # dir => ~ FrontierEmpty(frontier[d])
    BY <2>1 DEF BucketReady, Over
  <2>5. BucketReady'
    BY <2>1, <2>4 DEF BucketReady, FrontierEmpty
  <2>. QED
    BY <2>3, <2>5
<1>4. CASE Insert
  <2>1. UNCHANGED <<frontier, lastStepCost, dir, pc>> /\ pc = "insert" /\ status = "IN_PROGRESS"
    BY <1>4, InsertEffect
  <2>. QED
    BY <2>1 DEF NonzeroBDDs, Nonzero, Initialization, BucketReady, FrontierEmpty, Over
<1>5. CASE Pop
  <2>1. /\ UNCHANGED <<lastStepCost, dir, pc>>
        /\ pc = "pop" /\ ~ lastStepCost[dir]
    BY <1>1, <1>5, PopEffect
  <2>2. PICK g \in Nat, popped \in Bucket, bucket \in Bucket : LayerPopped(g, popped, bucket)
    BY <1>1, <1>5, PopEffect
  <2>3. {} \notin bucket /\ frontier' = [frontier EXCEPT ![dir] = Popped(g, bucket)]
    BY <2>2 DEF LayerPopped
  <2>4. /\ frontier'[dir] = Popped(g, bucket)
        /\ \A d \in Directions : d # dir => frontier'[d] = frontier[d]
    BY <1>1, <2>3, StateTypes
  <2>5. \A d \in Directions : Nonzero(d, frontier'[d])
    BY <2>1, <2>3, <2>4 DEF NonzeroBDDs, Nonzero, Initialization, Popped
  <2>6. NonzeroBDDs'
    BY <2>1, <2>5 DEF NonzeroBDDs, Nonzero, Initialization
  <2>7. Over => Over'
    BY <1>1, <1>5, PopStructure
  <2>8. BucketReady'
    BY <2>1, <2>4, <2>7 DEF BucketReady, FrontierEmpty
  <2>. QED
    BY <2>6, <2>8
<1>6. CASE Exhaust
  <2>1. Over'
    BY <1>1, <1>6, ExhaustStructure
  <2>2. UNCHANGED <<frontier, lastStepCost>>
    BY <1>6 DEF Exhaust
  <2>. QED
    BY <2>1, <2>2 DEF NonzeroBDDs, Nonzero, Initialization, BucketReady
<1>7. CASE ExpandTruncated \/ InsertDone \/ Finish \/ UNCHANGED vars
  <2>1. /\ UNCHANGED <<frontier, lastStepCost, dir>>
        /\ \/ pc \in {"expand", "insert"} /\ pc' = "pop"
           \/ pc = "finish"
           \/ UNCHANGED pc
    BY <1>7, QuietEffect
  <2>2. Over => Over'
    BY <1>1, <1>7, QuietStructure
  <2>3. NonzeroBDDs'
    BY <2>1 DEF NonzeroBDDs, Nonzero, Initialization
  <2>4. BucketReady'
    BY <2>1, <2>2 DEF BucketReady, FrontierEmpty
  <2>. QED
    BY <2>3, <2>4
<1>. QED
  BY <1>2, <1>3, <1>4, <1>5, <1>6, <1>7 DEF Next, Terminated

\* Between two steps every search has a bucket to expand, unless mutexes filter every image.
THEOREM BucketsReady == Spec => [](MutexType # "and" => ReadyInv)
<1>1. Init => (MutexType # "and" => ReadyInv)
  BY InitEffect DEF ReadyInv, NonzeroBDDs, BucketReady
<1>2. /\ StructureInv /\ StructureInv'
      /\ MutexType # "and" => ReadyInv
      /\ [Next]_vars
      => (MutexType # "and" => ReadyInv)'
  BY ReadyStep
<1>. QED
  BY <1>1, <1>2, StructureHolds, PTL DEF Spec

\* The assertions of frontier.h and frontier.cc hold, unless mutexes filter every image.
THEOREM FrontierNeverAborts ==
    ASSUME MutexType # "and"
    PROVE  Spec => []FrontierAssertions
<1>1. StructureInv /\ (MutexType # "and" => ReadyInv) => FrontierAssertions
  <2>. SUFFICES ASSUME StructureInv, ReadyInv, NEW d \in Directions
                PROVE  /\ Shaped(frontier[d])
                       /\ pc = "expand" /\ dir = d => frontier[d].zero # {} \/ frontier[d].cost # {}
    BY DEF FrontierAssertions, Shaped
  <2>1. Shaped(frontier[d])
    BY DEF StructureInv, FrontierShape
  <2>2. ASSUME pc = "expand", dir = d
        PROVE  frontier[d].zero # {} \/ frontier[d].cost # {}
    <3>1. frontier[d].filter = {} /\ frontier[d].merge = {}
      BY <2>2 DEF StructureInv, FrontierShape
    <3>2. ~ Over
      BY <2>2 DEF StructureInv, Phases, Over
    <3>3. ~ FrontierEmpty(frontier[d])
      BY <2>2, <3>2 DEF ReadyInv, BucketReady
    <3>. QED
      BY <3>1, <3>3 DEF FrontierEmpty
  <2>. QED
    BY <2>1, <2>2
<1>. QED
  BY <1>1, StructureHolds, BucketsReady, PTL

-----------------------------------------------------------------------------
(* Plans, from both ends.                                                  *)

\* The states of a plan, counted from either end.
LEMMA PlanIndex ==
    ASSUME NEW p \in Plans, NEW d \in {"fw", "bw"}, NEW n \in 0 .. p.len
    PROVE  IndexAt(d, p, n) \in 0 .. p.len /\ IndexAt(d, p, IndexAt(d, p, n)) = n
BY PlanNodes DEF IndexAt

\* A search pays less for the states of a plan that are nearer to its source, and nothing
\* less than 0.
LEMMA CostsRise ==
    ASSUME NEW p \in Plans, NEW d \in {"fw", "bw"}, NEW n \in 0 .. p.len, NEW k \in n .. p.len
    PROVE  0 <= CostAt(d, p, k) /\ CostAt(d, p, k) <= CostAt(d, p, n)
<1>1. ASSUME NEW i \in 0 .. p.len, NEW j \in i .. p.len
      PROVE  CostAt(d, p, j) <= CostAt(d, p, i)
  <2>. DEFINE dearer == {m \in i .. p.len : CostAt(d, p, m) > CostAt(d, p, i)}
  <2>. SUFFICES ASSUME dearer # {} PROVE FALSE
    BY <1>1, PlanNodes
  <2>1. dearer \subseteq Nat
    BY PlanNodes
  <2>2. PICK m \in dearer : \A x \in dearer : m <= x
    BY <2>1, LeastNumber
  <2>3. m \in 1 .. p.len /\ m - 1 \in i .. p.len
    BY <2>2, PlanNodes
  <2>4. PICK c \in Costs : CostAt(d, p, m - 1) = CostAt(d, p, m) + c
    BY <2>3, PlanNodes
  <2>5. m - 1 \in dearer
    BY <2>2, <2>3, <2>4, PlanNodes, ConstantTypes
  <2>. QED
    BY <2>1, <2>2, <2>5
<1>2. p.len \in Nat /\ CostAt(d, p, p.len) = 0
  BY PlanNodes
<1>3. k \in 0 .. p.len /\ p.len \in k .. p.len
  BY <1>2
<1>. QED
  BY <1>1, <1>2, <1>3

\* The last states of a plan for one search are the first ones for the other.
LEMMA PlanReversed ==
    ASSUME NEW p \in Plans, NEW d \in {"fw", "bw"}, NEW n \in 0 .. p.len
    PROVE  /\ Opposite(d) \in {"fw", "bw"} /\ Opposite(Opposite(d)) = d
           /\ p.len - n \in 0 .. p.len
           /\ NodeAt(Opposite(d), p, p.len - n) = NodeAt(d, p, n)
           /\ CostAt(Opposite(d), p, p.len - n) = PlanCost(p) - CostAt(d, p, n)
<1>1. p.len \in Nat /\ PlanCost(p) \in Nat
  BY PlanNodes
<1>2. p.len - n \in 0 .. p.len /\ p.len - (p.len - n) = n
  BY <1>1
<1>3. \A i \in 0 .. p.len : p.g[i] \in Nat
  BY PlanAssumption DEF IsPlan
<1>4. \A i \in 0 .. p.len : PlanCost(p) - (PlanCost(p) - p.g[i]) = p.g[i]
  BY <1>1, <1>3
<1>5. CASE d = "fw"
  <2>1. Opposite(d) = "bw"
    BY <1>5 DEF Opposite
  <2>. QED
    BY <1>2, <1>5, <2>1 DEF NodeAt, CostAt, CostFrom, IndexAt, Opposite
<1>6. CASE d = "bw"
  <2>1. Opposite(d) = "fw"
    BY <1>6 DEF Opposite
  <2>. QED
    BY <1>2, <1>4, <1>6, <2>1 DEF NodeAt, CostAt, CostFrom, IndexAt, Opposite
<1>. QED
  BY <1>5, <1>6

\* A transition of a plan is one of both searches.
LEMMA StepReversed ==
    ASSUME NEW p \in Plans, NEW d \in {"fw", "bw"}, NEW n \in 1 .. p.len, NEW c \in Costs,
           PlanStep(d, p, n, c)
    PROVE  /\ p.len - n + 1 \in 1 .. p.len
           /\ PlanStep(Opposite(d), p, p.len - n + 1, c)
<1>. DEFINE e == Opposite(d)
            m == p.len - n + 1
<1>1. /\ p.len \in Nat /\ PlanCost(p) \in Nat
      /\ n \in 0 .. p.len /\ n - 1 \in 0 .. p.len
      /\ m \in 1 .. p.len
      /\ m = p.len - (n - 1) /\ m - 1 = p.len - n
  BY PlanNodes
<1>2. /\ NodeAt(e, p, m) = NodeAt(d, p, n - 1) /\ NodeAt(e, p, m - 1) = NodeAt(d, p, n)
      /\ CostAt(e, p, m) = PlanCost(p) - CostAt(d, p, n - 1)
      /\ CostAt(e, p, m - 1) = PlanCost(p) - CostAt(d, p, n)
  BY <1>1, PlanReversed
<1>3. Leads(e, NodeAt(e, p, m), c, NodeAt(e, p, m - 1))
  <2>1. Leads(d, NodeAt(d, p, n), c, NodeAt(d, p, n - 1))
    BY DEF PlanStep
  <2>2. Leads(e, NodeAt(d, p, n - 1), c, NodeAt(d, p, n))
    BY <2>1 DEF Leads, Opposite
  <2>. QED
    BY <1>2, <2>2
<1>4. CostAt(e, p, m - 1) = CostAt(e, p, m) + c
  <2>1. CostAt(d, p, n - 1) = CostAt(d, p, n) + c
    BY DEF PlanStep
  <2>2. CostAt(d, p, n) \in Int /\ CostAt(d, p, n - 1) \in Int /\ c \in Int
    BY <1>1, PlanNodes, ConstantTypes
  <2>. QED
    BY <1>1, <1>2, <2>1, <2>2
<1>. QED
  BY <1>1, <1>3, <1>4 DEF PlanStep

\* HNotClosedAdmissible, of the states counted as a search meets them.
LEMMA HNotClosedOfPlan ==
    ASSUME NEW d \in {"fw", "bw"}, NEW p \in Plans, NEW h, NEW states
    PROVE  (\A i \in 0 .. p.len : p.state[i] \notin states => h <= CostFrom(d, p, i))
           <=> (\A n \in 0 .. p.len : NodeAt(d, p, n) \notin states => h <= CostAt(d, p, n))
<1>1. ASSUME \A i \in 0 .. p.len : p.state[i] \notin states => h <= CostFrom(d, p, i),
             NEW n \in 0 .. p.len
      PROVE  NodeAt(d, p, n) \notin states => h <= CostAt(d, p, n)
  BY <1>1, PlanIndex DEF NodeAt, CostAt
<1>2. ASSUME \A n \in 0 .. p.len : NodeAt(d, p, n) \notin states => h <= CostAt(d, p, n),
             NEW i \in 0 .. p.len
      PROVE  p.state[i] \notin states => h <= CostFrom(d, p, i)
  BY <1>2, PlanIndex DEF NodeAt, CostAt
<1>. QED
  BY <1>1, <1>2

-----------------------------------------------------------------------------
(* No search loses a plan that would improve the solution.                 *)

\* Where a search has not closed a state of such a plan at its cost, it is still on the way
\* there: a state nearer to its source is to be expanded, inserted or popped.
LEMMA PlanWaits ==
    ASSUME StructureInv, PlanProgress,
           NEW d \in Directions, NEW p \in Plans, PlanCost(p) < UpperBound,
           NEW n \in 0 .. p.len, ~ ClosedAt(d, NodeAt(d, p, n), CostAt(d, p, n))
    PROVE  \E m \in n + 1 .. p.len, c \in Costs :
              /\ PlanStep(d, p, m, c)
              /\ \/ NodeAt(d, p, m) \in Unexpanded(frontier[d], c) /\ frontier[d].g <= CostAt(d, p, m)
                 \/ ImageAt(d, NodeAt(d, p, m - 1), CostAt(d, p, m - 1))
                 \/ OpenAt(d, NodeAt(d, p, m - 1), CostAt(d, p, m - 1))
<1>1. /\ TypeInv /\ d \in {"fw", "bw"} /\ p.len \in Nat
      /\ frontier[d].g \in Nat
      /\ \A entry \in closed[d] : entry[1] \in Nat
  BY StructureTypes, StateTypes, ConstantTypes, PlanNodes
<1>. DEFINE reached == {m \in n .. p.len : ClosedAt(d, NodeAt(d, p, m), CostAt(d, p, m))}
<1>2. p.len \in reached
  <2>1. NodeAt(d, p, p.len) \in Source(d) /\ CostAt(d, p, p.len) = 0
    BY <1>1, PlanNodes
  <2>2. <<0, NodeAt(d, p, p.len)>> \in closed[d]
    BY <2>1 DEF StructureInv, SourceClosed
  <2>3. ClosedAt(d, NodeAt(d, p, p.len), CostAt(d, p, p.len))
    BY <2>1, <2>2 DEF ClosedAt
  <2>. QED
    BY <1>1, <2>3
<1>3. PICK m \in reached : \A k \in reached : m <= k
  <2>1. reached \subseteq Nat
    BY <1>1
  <2>. QED
    BY <1>2, <2>1, LeastNumber
<1>4. m \in n + 1 .. p.len /\ m \in 1 .. p.len /\ m - 1 \in n .. p.len
  <2>1. m # n
    BY <1>3
  <2>. QED
    BY <1>1, <1>3, <2>1
<1>5. PICK c \in Costs : PlanStep(d, p, m, c)
  BY <1>1, <1>4, PlanNodes DEF PlanStep
<1>6. ~ ClosedAt(d, NodeAt(d, p, m - 1), CostAt(d, p, m - 1))
  <2>1. m - 1 \notin reached
    BY <1>1, <1>3, <1>4
  <2>. QED
    BY <1>4, <2>1
<1>7. ClosedAt(d, NodeAt(d, p, m), CostAt(d, p, m))
  BY <1>3
<1>8. NextReached(d, p, m, c)
  BY <1>4, <1>5, <1>7 DEF PlanProgress
<1>9. ASSUME NodeAt(d, p, m) \in Unexpanded(frontier[d], c)
      PROVE  frontier[d].g <= CostAt(d, p, m)
  <2>1. <<frontier[d].g, NodeAt(d, p, m)>> \in closed[d]
    BY <1>9 DEF StructureInv, FrontierClosed, FrontierStates, Unexpanded
  <2>2. PICK entry \in closed[d] : entry[2] = NodeAt(d, p, m) /\ entry[1] <= CostAt(d, p, m)
    BY <1>7 DEF ClosedAt
  <2>3. entry[1] = frontier[d].g
    BY <2>1, <2>2 DEF StructureInv, ClosedOnce
  <2>. QED
    BY <2>2, <2>3
<1>. QED
  BY <1>4, <1>5, <1>6, <1>8, <1>9 DEF NextReached

\* The layers of a search never run past such a plan: what it has closed of it is closed
\* at no greater cost than on the plan.
LEMMA ClosedOptimal ==
    ASSUME StructureInv, PlanProgress,
           NEW d \in Directions, NEW p \in Plans, PlanCost(p) < UpperBound,
           NEW n \in 0 .. p.len, NEW entry \in closed[d], entry[2] = NodeAt(d, p, n)
    PROVE  entry[1] <= CostAt(d, p, n)
<1>1. /\ TypeInv /\ d \in {"fw", "bw"} /\ p.len \in Nat
      /\ frontier[d].g \in Nat
      /\ \A e \in closed[d] : e[1] \in Nat
      /\ \A e \in open[d] : e[1] \in Nat
      /\ \A image \in images : image[1] \in Nat
  BY StructureTypes, StateTypes, ConstantTypes, PlanNodes
<1>2. CASE ClosedAt(d, NodeAt(d, p, n), CostAt(d, p, n))
  <2>1. PICK e \in closed[d] : e[2] = NodeAt(d, p, n) /\ e[1] <= CostAt(d, p, n)
    BY <1>2 DEF ClosedAt
  <2>2. e[1] = entry[1]
    BY <2>1 DEF StructureInv, ClosedOnce
  <2>. QED
    BY <2>1, <2>2
<1>3. CASE ~ ClosedAt(d, NodeAt(d, p, n), CostAt(d, p, n))
  <2>1. PICK m \in n + 1 .. p.len, c \in Costs :
           \/ NodeAt(d, p, m) \in Unexpanded(frontier[d], c) /\ frontier[d].g <= CostAt(d, p, m)
           \/ ImageAt(d, NodeAt(d, p, m - 1), CostAt(d, p, m - 1))
           \/ OpenAt(d, NodeAt(d, p, m - 1), CostAt(d, p, m - 1))
    BY <1>3, PlanWaits
  <2>2. m \in n .. p.len /\ m - 1 \in n .. p.len
    BY <1>1
  <2>3. /\ CostAt(d, p, m) <= CostAt(d, p, n)
        /\ CostAt(d, p, m - 1) <= CostAt(d, p, n)
        /\ CostAt(d, p, m) \in Int /\ CostAt(d, p, m - 1) \in Int /\ CostAt(d, p, n) \in Int
    BY <1>1, <2>2, CostsRise, PlanNodes
  <2>4. CASE frontier[d].g <= CostAt(d, p, m)
    BY <1>1, <2>3, <2>4 DEF StructureInv, LayerOrder
  <2>5. CASE ImageAt(d, NodeAt(d, p, m - 1), CostAt(d, p, m - 1))
    <3>1. PICK image \in images : dir = d /\ image[1] <= CostAt(d, p, m - 1)
      BY <2>5 DEF ImageAt
    <3>2. frontier[d].g <= image[1] /\ entry[1] <= frontier[d].g
      BY <3>1 DEF StructureInv, LayerOrder
    <3>. QED
      BY <1>1, <2>3, <3>1, <3>2
  <2>6. CASE OpenAt(d, NodeAt(d, p, m - 1), CostAt(d, p, m - 1))
    <3>1. PICK e \in open[d] : e[1] <= CostAt(d, p, m - 1)
      BY <2>6 DEF OpenAt
    <3>2. frontier[d].g <= e[1] /\ entry[1] <= frontier[d].g
      BY DEF StructureInv, LayerOrder
    <3>. QED
      BY <1>1, <2>3, <3>1, <3>2
  <2>. QED
    BY <2>1, <2>4, <2>5, <2>6
<1>. QED
  BY <1>2, <1>3

\* minNextG is a lower bound on what such a plan pays up to a state that is not closed.
NextGAdmissible ==
    images = {} =>
       \A d \in Directions, p \in Plans : PlanCost(p) < UpperBound =>
          \A n \in 0 .. p.len :
             NodeAt(d, p, n) \notin ClosedStates(closed[d]) => GetF(d) <= CostAt(d, p, n)

\* The next layer to expand is at most the cost at which a plan leaves the closed states.
LEMMA NextGBoundsPlans == StructureInv /\ PlanProgress => NextGAdmissible
<1>. SUFFICES ASSUME StructureInv, PlanProgress, images = {},
                     NEW d \in Directions, NEW p \in Plans, PlanCost(p) < UpperBound,
                     NEW n \in 0 .. p.len, NodeAt(d, p, n) \notin ClosedStates(closed[d])
              PROVE  GetF(d) <= CostAt(d, p, n)
  BY DEF NextGAdmissible
<1>1. /\ TypeInv /\ d \in {"fw", "bw"} /\ p.len \in Nat
      /\ frontier[d].g \in Nat /\ frontier[d] \in FrontierType
      /\ open[d] \in SUBSET (Nat \X BDD)
      /\ \A entry \in open[d] : entry[1] \in Nat
  BY StructureTypes, StateTypes, ConstantTypes, PlanNodes
<1>2. /\ GetF(d) \in Nat
      /\ \A entry \in open[d] : GetF(d) <= entry[1]
      /\ ~ FrontierEmpty(frontier[d]) => GetF(d) <= frontier[d].g + AbsMinTransitionCost
  BY <1>1, MinNextGBounds DEF GetF
<1>3. ~ ClosedAt(d, NodeAt(d, p, n), CostAt(d, p, n))
  BY DEF ClosedAt, ClosedStates
<1>4. PICK m \in n + 1 .. p.len, c \in Costs :
         /\ PlanStep(d, p, m, c)
         /\ \/ NodeAt(d, p, m) \in Unexpanded(frontier[d], c) /\ frontier[d].g <= CostAt(d, p, m)
            \/ ImageAt(d, NodeAt(d, p, m - 1), CostAt(d, p, m - 1))
            \/ OpenAt(d, NodeAt(d, p, m - 1), CostAt(d, p, m - 1))
  BY <1>3, PlanWaits
<1>5. m \in 0 .. p.len /\ m - 1 \in n .. p.len
  BY <1>1
<1>6. /\ CostAt(d, p, m - 1) <= CostAt(d, p, n)
      /\ CostAt(d, p, m) \in Int /\ CostAt(d, p, m - 1) \in Int /\ CostAt(d, p, n) \in Int
  BY <1>1, <1>5, CostsRise, PlanNodes
<1>7. CASE NodeAt(d, p, m) \in Unexpanded(frontier[d], c) /\ frontier[d].g <= CostAt(d, p, m)
  <2>1. ~ FrontierEmpty(frontier[d])
    BY <1>7 DEF Unexpanded, FrontierEmpty
  <2>2. CostAt(d, p, m - 1) = CostAt(d, p, m) + c /\ c \in Nat /\ AbsMinTransitionCost <= c
    BY <1>4, AbsMinBounds, ConstantTypes DEF PlanStep
  <2>. QED
    BY <1>1, <1>2, <1>6, <1>7, <2>1, <2>2, AbsMinBounds
<1>8. CASE OpenAt(d, NodeAt(d, p, m - 1), CostAt(d, p, m - 1))
  <2>1. PICK entry \in open[d] : entry[1] <= CostAt(d, p, m - 1)
    BY <1>8 DEF OpenAt
  <2>. QED
    BY <1>1, <1>2, <1>6, <2>1
<1>. QED
  BY <1>4, <1>7, <1>8 DEF ImageAt

\* What a search takes for the cost of the rest of such a plan, perfectHeuristic, never
\* exceeds it.
LEMMA OppositeAdmissible ==
    ASSUME StructureInv, PlanInv,
           NEW d \in Directions, NEW p \in Plans, PlanCost(p) < UpperBound, NEW n \in 0 .. p.len
    PROVE  /\ \A entry \in OppositeClosed(d) :
                 entry[2] = NodeAt(d, p, n) => entry[1] <= PlanCost(p) - CostAt(d, p, n)
           /\ NodeAt(d, p, n) \notin ClosedStates(OppositeClosed(d)) =>
                 OppositeHNotClosed(d) <= PlanCost(p) - CostAt(d, p, n)
<1>1. /\ d \in {"fw", "bw"} /\ Opposite(d) \in {"fw", "bw"}
      /\ p.len \in Nat /\ PlanCost(p) \in Nat /\ CostAt(d, p, n) \in Int
      /\ p.len - n \in 0 .. p.len
      /\ NodeAt(Opposite(d), p, p.len - n) = NodeAt(d, p, n)
      /\ CostAt(Opposite(d), p, p.len - n) = PlanCost(p) - CostAt(d, p, n)
  BY ConstantTypes, PlanNodes, PlanReversed
<1>2. CASE Opposite(d) \in Directions
  <2>1. OppositeClosed(d) = closed[Opposite(d)] /\ OppositeHNotClosed(d) = hNotClosed[Opposite(d)]
    BY <1>2 DEF OppositeClosed, OppositeHNotClosed
  <2>2. \A entry \in closed[Opposite(d)] :
           entry[2] = NodeAt(d, p, n) => entry[1] <= PlanCost(p) - CostAt(d, p, n)
    BY <1>1, <1>2, ClosedOptimal DEF PlanInv
  <2>3. NodeAt(d, p, n) \notin ClosedStates(closed[Opposite(d)]) =>
           hNotClosed[Opposite(d)] <= PlanCost(p) - CostAt(d, p, n)
    <3>1. \A i \in 0 .. p.len : p.state[i] \notin ClosedStates(closed[Opposite(d)]) =>
             hNotClosed[Opposite(d)] <= CostFrom(Opposite(d), p, i)
      BY <1>2 DEF PlanInv, HNotClosedAdmissible
    <3>. QED
      BY <1>1, <3>1, HNotClosedOfPlan
  <2>. QED
    BY <2>1, <2>2, <2>3
<1>3. CASE Opposite(d) \notin Directions
  <2>1. OppositeClosed(d) = {0} \X Source(Opposite(d)) /\ OppositeHNotClosed(d) = AbsMinTransitionCost
    BY <1>3 DEF OppositeClosed, OppositeHNotClosed
  <2>2. n \in 0 .. n /\ 0 \in 0 .. p.len /\ n \in 0 .. p.len
    BY <1>1
  <2>3. CostAt(d, p, n) <= PlanCost(p)
    BY <1>1, PlanCostMonotone
  <2>4. ASSUME NodeAt(d, p, n) \notin ClosedStates(OppositeClosed(d))
        PROVE  AbsMinTransitionCost <= PlanCost(p) - CostAt(d, p, n)
    <3>1. ClosedStates(OppositeClosed(d)) = Source(Opposite(d))
      BY <2>1, ClosedStatesOfSource
    <3>2. n # 0
      BY <1>1, <2>4, <3>1, PlanNodes
    <3>3. n \in 1 .. p.len /\ n - 1 \in 0 .. p.len
      BY <1>1, <3>2
    <3>4. PICK c \in Costs : CostAt(d, p, n - 1) = CostAt(d, p, n) + c
      BY <1>1, <3>3, PlanNodes
    <3>5. CostAt(d, p, n - 1) <= PlanCost(p) /\ CostAt(d, p, n - 1) \in Int
      BY <1>1, <3>3, PlanNodes, PlanCostMonotone
    <3>. QED
      BY <1>1, <3>4, <3>5, AbsMinBounds, ConstantTypes
  <2>. QED
    BY <1>1, <2>1, <2>3, <2>4
<1>. QED
  BY <1>2, <1>3

\* What a search pays up to a state, and the least it takes the rest to cost, is no more
\* than such a plan: so the state is neither a better solution nor pruned by the bound.
LEMMA StateIsWorthIt ==
    ASSUME StructureInv, PlanInv,
           NEW d \in Directions, NEW p \in Plans, PlanCost(p) < UpperBound, NEW n \in 0 .. p.len,
           NEW k \in Nat, k <= CostAt(d, p, n)
    PROVE  /\ \A entry \in OppositeClosed(d) :
                 entry[2] = NodeAt(d, p, n) => k + entry[1] <= PlanCost(p)
           /\ OppositeHNotClosed(d) \in Nat /\ NodeAt(d, p, n) \notin ClosedStates(OppositeClosed(d)) =>
                 k + OppositeHNotClosed(d) <= PlanCost(p)
<1>1. /\ PlanCost(p) \in Nat /\ CostAt(d, p, n) \in Int /\ d \in {"fw", "bw"}
  BY ConstantTypes, PlanNodes
<1>2. /\ \A entry \in OppositeClosed(d) :
            entry[2] = NodeAt(d, p, n) => entry[1] <= PlanCost(p) - CostAt(d, p, n)
      /\ NodeAt(d, p, n) \notin ClosedStates(OppositeClosed(d)) =>
            OppositeHNotClosed(d) <= PlanCost(p) - CostAt(d, p, n)
  BY OppositeAdmissible
<1>3. \A entry \in OppositeClosed(d) : entry[1] \in Nat
  BY <1>1, OppositeClosedBounds
<1>. QED
  BY <1>1, <1>2, <1>3

\* Preparing a frontier, or expanding one, moves a plan on.
LEMMA PrepareProgress ==
    ASSUME StructureInv, PlanProgress,
           \/ \E d \in Directions : Step(d)
           \/ PrepareNext
    PROVE  PlanProgress'
<1>1. /\ UNCHANGED <<open, closed, images>>
      /\ UpperBound' = UpperBound
      /\ images = {}
      /\ \A d \in Directions : \A c \in Costs, s \in NotMutex[d] :
            s \in Unexpanded(frontier[d], c) => s \in Unexpanded(frontier'[d], c)
  BY PrepareEffect
<1>. SUFFICES ASSUME NEW d \in Directions, NEW p \in Plans, PlanCost(p) < UpperBound,
                     NEW n \in 1 .. p.len, NEW c \in Costs,
                     PlanStep(d, p, n, c), ClosedAt(d, NodeAt(d, p, n), CostAt(d, p, n))
              PROVE  NextReached(d, p, n, c)'
  BY <1>1 DEF PlanProgress, ClosedAt
<1>2. NextReached(d, p, n, c)
  BY DEF PlanProgress
<1>3. NodeAt(d, p, n) \in NotMutex[d]
  BY ConstantTypes, PlanNodes
<1>. QED
  BY <1>1, <1>2, <1>3 DEF NextReached, ImageAt, OpenAt, ClosedAt, Unexpanded

\* What an expansion takes from the frontier has its successors among the images.
LEMMA ExpandProgress ==
    ASSUME StructureInv, PlanProgress, ExpandZero \/ ExpandCost
    PROVE  PlanProgress'
<1>1. /\ UNCHANGED <<open, closed, dir>>
      /\ UpperBound' = UpperBound
      /\ images = {}
      /\ \A d \in Directions : d # dir => frontier'[d] = frontier[d]
      /\ \A c \in Costs : \A s \in Unexpanded(frontier[dir], c) :
            \/ s \in Unexpanded(frontier'[dir], c)
            \/ \A t \in NotMutex[dir] : Leads(dir, s, c, t) =>
                  \E image \in images' : t \in UNION image[2] /\ image[1] = frontier[dir].g + c
  BY ExpandEffect
<1>. SUFFICES ASSUME NEW d \in Directions, NEW p \in Plans, PlanCost(p) < UpperBound,
                     NEW n \in 1 .. p.len, NEW c \in Costs,
                     PlanStep(d, p, n, c), ClosedAt(d, NodeAt(d, p, n), CostAt(d, p, n))
              PROVE  NextReached(d, p, n, c)'
  BY <1>1 DEF PlanProgress, ClosedAt
<1>2. NextReached(d, p, n, c)
  BY DEF PlanProgress
<1>3. CASE d = dir /\ NodeAt(d, p, n) \in Unexpanded(frontier[d], c)
  <2>1. <<frontier[d].g, NodeAt(d, p, n)>> \in closed[d]
    BY <1>3 DEF StructureInv, FrontierClosed, FrontierStates, Unexpanded
  <2>2. PICK entry \in closed[d] : entry[2] = NodeAt(d, p, n) /\ entry[1] <= CostAt(d, p, n)
    BY DEF ClosedAt
  <2>3. frontier[d].g <= CostAt(d, p, n)
    BY <2>1, <2>2 DEF StructureInv, ClosedOnce
  <2>4. /\ NodeAt(d, p, n - 1) \in NotMutex[d]
        /\ CostAt(d, p, n) \in Int
    BY ConstantTypes, PlanNodes
  <2>5. frontier[d].g \in Nat /\ c \in Nat
    BY StructureTypes, StateTypes, ConstantTypes
  <2>6. \/ NodeAt(d, p, n) \in Unexpanded(frontier'[d], c)
        \/ \E image \in images' : NodeAt(d, p, n - 1) \in UNION image[2] /\ image[1] = frontier[d].g + c
    BY <1>1, <1>3, <2>4 DEF PlanStep
  <2>7. ASSUME NEW image \in images', NodeAt(d, p, n - 1) \in UNION image[2],
               image[1] = frontier[d].g + c
        PROVE  ImageAt(d, NodeAt(d, p, n - 1), CostAt(d, p, n - 1))'
    <3>1. image[1] <= CostAt(d, p, n - 1)
      BY <2>3, <2>4, <2>5, <2>7 DEF PlanStep
    <3>. QED
      BY <1>1, <1>3, <2>7, <3>1 DEF ImageAt
  <2>. QED
    BY <2>6, <2>7 DEF NextReached, Unexpanded
<1>4. CASE ~ (d = dir /\ NodeAt(d, p, n) \in Unexpanded(frontier[d], c))
  BY <1>1, <1>2, <1>4 DEF NextReached, ImageAt, OpenAt, ClosedAt, Unexpanded
<1>. QED
  BY <1>3, <1>4

\* stepImage inserts the state of a plan that would still improve the solution.
LEMMA InsertProgress ==
    ASSUME StructureInv, PlanInv, Insert
    PROVE  PlanProgress'
<1>1. /\ UNCHANGED <<frontier, closed, dir>>
      /\ UpperBound' \in Nat /\ UpperBound' <= UpperBound
      /\ \A d \in Directions : d # dir => open'[d] = open[d]
      /\ open[dir] \subseteq open'[dir]
      /\ images # {}
  BY InsertEffect DEF Insert
<1>2. PICK image \in images :
         /\ images' = images \ {image}
         /\ \A entry \in OppositeClosed(dir) :
               entry[2] \in UNION image[2] => UpperBound' <= image[1] + entry[1]
         /\ \A t \in UNION image[2] :
               \/ \E entry \in open'[dir] : t \in entry[2] /\ entry[1] = image[1]
               \/ t \in ClosedStates(OppositeClosed(dir))
               \/ UpperBound' <= image[1] + OppositeHNotClosed(dir)
  BY InsertEffect
<1>3. /\ TypeInv /\ dir \in Directions /\ UpperBound \in Nat /\ image[1] \in Nat
      /\ OppositeHNotClosed(dir) \in Nat
  BY <1>1, StructureTypes, StateTypes, FValueBound
<1>. SUFFICES ASSUME NEW d \in Directions, NEW p \in Plans, PlanCost(p) < UpperBound',
                     NEW n \in 1 .. p.len, NEW c \in Costs,
                     PlanStep(d, p, n, c), ClosedAt(d, NodeAt(d, p, n), CostAt(d, p, n))
              PROVE  NextReached(d, p, n, c)'
  BY <1>1 DEF PlanProgress, ClosedAt
<1>. DEFINE t == NodeAt(d, p, n - 1)
            k == CostAt(d, p, n - 1)
<1>4. /\ p.len \in Nat /\ PlanCost(p) \in Nat /\ PlanCost(p) < UpperBound
      /\ n - 1 \in 0 .. p.len /\ k \in Int
  BY <1>1, <1>3, ConstantTypes, PlanNodes
<1>5. NextReached(d, p, n, c)
  BY <1>4 DEF PlanInv, PlanProgress
<1>6. CASE d = dir /\ t \in UNION image[2] /\ image[1] <= k
  <2>1. /\ \A entry \in OppositeClosed(dir) : entry[2] = t => image[1] + entry[1] <= PlanCost(p)
        /\ t \notin ClosedStates(OppositeClosed(dir)) => image[1] + OppositeHNotClosed(dir) <= PlanCost(p)
    BY <1>3, <1>4, <1>6, StateIsWorthIt
  <2>2. t \notin ClosedStates(OppositeClosed(dir))
    <3>. SUFFICES ASSUME NEW entry \in OppositeClosed(dir), entry[2] = t
                  PROVE  FALSE
      BY DEF ClosedStates
    <3>1. UpperBound' <= image[1] + entry[1] /\ image[1] + entry[1] <= PlanCost(p)
      BY <1>2, <1>6, <2>1
    <3>2. entry[1] \in Nat
      BY ConstantTypes, <1>3, OppositeClosedBounds
    <3>. QED
      BY <1>1, <1>3, <1>4, <3>1, <3>2
  <2>3. ~ (UpperBound' <= image[1] + OppositeHNotClosed(dir))
    BY <1>1, <1>3, <1>4, <2>1, <2>2
  <2>4. PICK entry \in open'[dir] : t \in entry[2] /\ entry[1] = image[1]
    BY <1>2, <1>6, <2>2, <2>3
  <2>5. OpenAt(d, t, k)'
    BY <1>6, <2>4 DEF OpenAt
  <2>. QED
    BY <2>5 DEF NextReached
<1>7. CASE ~ (d = dir /\ t \in UNION image[2] /\ image[1] <= k)
  <2>1. ImageAt(d, t, k) => ImageAt(d, t, k)'
    BY <1>1, <1>2, <1>7 DEF ImageAt
  <2>2. open[d] \subseteq open'[d]
    BY <1>1
  <2>3. OpenAt(d, t, k) => OpenAt(d, t, k)'
    BY <2>2 DEF OpenAt
  <2>. QED
    BY <1>1, <1>5, <2>1, <2>3 DEF NextReached, ClosedAt, Unexpanded
<1>. QED
  BY <1>6, <1>7

\* prepareBucket closes it, unless it has been closed before.
LEMMA PopProgress ==
    ASSUME StructureInv, TypeInv', PlanInv, Pop
    PROVE  PlanProgress'
<1>1. /\ UNCHANGED <<images, dir>>
      /\ images = {} /\ FrontierEmpty(frontier[dir])
      /\ UpperBound' \in Nat /\ UpperBound' <= UpperBound
  BY PopEffect
<1>2. PICK g \in Nat, popped \in Bucket, bucket \in Bucket : LayerPopped(g, popped, bucket)
  BY PopEffect
<1>3. /\ frontier[dir].g <= g
      /\ \A entry \in open[dir] : entry[1] = g => entry[2] \subseteq UNION popped
      /\ \A entry \in OppositeClosed(dir) :
            entry[2] \in UNION popped => UpperBound' <= g + entry[1]
      /\ open' = [open EXCEPT ![dir] = {e \in open[dir] : e[1] # g}]
      /\ frontier' = [frontier EXCEPT ![dir] = Popped(g, bucket)]
      /\ closed' = [closed EXCEPT ![dir] = closed[dir] \cup ({g} \X UNION bucket)]
      /\ \A t \in NotMutex[dir] : t \in UNION popped =>
            \/ t \in UNION bucket
            \/ t \in ClosedStates(closed[dir])
            \/ t \in ClosedStates(OppositeClosed(dir))
            \/ OppositeExhausted(dir)
  BY <1>2 DEF LayerPopped
<1>4. /\ TypeInv /\ dir \in Directions /\ dir \in {"fw", "bw"} /\ UpperBound \in Nat
      /\ open \in [Directions -> SUBSET (Nat \X BDD)]
      /\ frontier \in [Directions -> FrontierType]
      /\ closed \in [Directions -> SUBSET (Nat \X States)]
      /\ frontier[dir].g \in Nat
      /\ \A entry \in closed[dir] : entry[1] \in Nat
  BY StructureTypes, StateTypes
<1>5. /\ \A d \in Directions : d # dir => /\ open'[d] = open[d] /\ frontier'[d] = frontier[d]
                                          /\ closed'[d] = closed[d]
      /\ open'[dir] = {e \in open[dir] : e[1] # g}
      /\ closed'[dir] = closed[dir] \cup ({g} \X UNION bucket)
      /\ frontier'[dir] = Popped(g, bucket)
  BY <1>3, <1>4
<1>6. /\ \A c \in Costs : ~ \E s : s \in Unexpanded(frontier[dir], c)
      /\ \A c \in Costs : UNION bucket \subseteq Unexpanded(frontier'[dir], c)
  BY <1>1, <1>5 DEF FrontierEmpty, Unexpanded, Popped
<1>. SUFFICES ASSUME NEW d \in Directions, NEW p \in Plans, PlanCost(p) < UpperBound',
                     NEW n \in 1 .. p.len, NEW c \in Costs,
                     PlanStep(d, p, n, c), ClosedAt(d, NodeAt(d, p, n), CostAt(d, p, n))'
              PROVE  NextReached(d, p, n, c)'
  BY <1>1 DEF PlanProgress, PlanStep
<1>. DEFINE t == NodeAt(d, p, n - 1)
            k == CostAt(d, p, n - 1)
<1>7. /\ p.len \in Nat /\ PlanCost(p) \in Nat /\ PlanCost(p) < UpperBound /\ PlanCost(p) < MaxInt
      /\ n - 1 \in 0 .. p.len /\ k \in Int
      /\ t \in NotMutex[d]
  BY <1>1, <1>4, ConstantTypes, PlanNodes
<1>8. CASE d # dir
  <2>1. NextReached(d, p, n, c)
    BY <1>5, <1>7, <1>8 DEF PlanInv, PlanProgress, ClosedAt
  <2>. QED
    BY <1>1, <1>5, <1>8, <2>1 DEF NextReached, ImageAt, OpenAt, ClosedAt, Unexpanded
<1>9. CASE d = dir /\ NodeAt(d, p, n) \in UNION bucket
  BY <1>6, <1>9 DEF NextReached, Unexpanded
<1>10. CASE d = dir /\ NodeAt(d, p, n) \notin UNION bucket
  <2>1. ClosedAt(d, NodeAt(d, p, n), CostAt(d, p, n))
    BY <1>5, <1>10 DEF ClosedAt
  <2>2. OpenAt(d, t, k) \/ ClosedAt(d, t, k)
    BY <1>1, <1>6, <1>7, <1>10, <2>1 DEF PlanInv, PlanProgress, NextReached, ImageAt
  <2>3. ClosedAt(d, t, k) => ClosedAt(d, t, k)'
    BY <1>5, <1>10 DEF ClosedAt
  <2>4. ASSUME OpenAt(d, t, k)
        PROVE  OpenAt(d, t, k)' \/ ClosedAt(d, t, k)'
    <3>1. PICK e \in open[d] : t \in e[2] /\ e[1] <= k
      BY <2>4 DEF OpenAt
    <3>2. CASE e[1] # g
      BY <1>5, <1>10, <3>1, <3>2 DEF OpenAt
    <3>3. CASE e[1] = g
      <4>1. t \in UNION popped /\ g <= k
        BY <1>3, <1>10, <3>1, <3>3
      <4>2. /\ \A entry \in OppositeClosed(dir) : entry[2] = t => g + entry[1] <= PlanCost(p)
            /\ OppositeHNotClosed(dir) \in Nat /\ t \notin ClosedStates(OppositeClosed(dir)) =>
                  g + OppositeHNotClosed(dir) <= PlanCost(p)
        BY <1>7, <1>10, <4>1, StateIsWorthIt
      <4>3. t \notin ClosedStates(OppositeClosed(dir))
        <5>. SUFFICES ASSUME NEW entry \in OppositeClosed(dir), entry[2] = t
                      PROVE  FALSE
          BY DEF ClosedStates
        <5>1. UpperBound' <= g + entry[1] /\ g + entry[1] <= PlanCost(p)
          BY <1>3, <4>1, <4>2
        <5>2. entry[1] \in Nat
          BY <1>4, OppositeClosedBounds
        <5>. QED
          BY <1>1, <1>7, <5>1, <5>2
      <4>4. ~ OppositeExhausted(dir)
        <5>. SUFFICES ASSUME Opposite(dir) \in Directions, fNotClosed[Opposite(dir)] = MaxInt
                      PROVE  FALSE
          BY DEF OppositeExhausted
        <5>1. OppositeHNotClosed(dir) = MaxInt
          BY DEF OppositeHNotClosed, StructureInv, NotClosedValues
        <5>. QED
          BY <1>7, <4>2, <4>3, <5>1, ConstantTypes
      <4>5. t \in UNION bucket \/ t \in ClosedStates(closed[dir])
        BY <1>3, <1>7, <1>10, <4>1, <4>3, <4>4
      <4>6. CASE t \in UNION bucket
        <5>1. <<g, t>> \in closed'[dir]
          BY <1>5, <4>6
        <5>. QED
          BY <1>10, <4>1, <5>1 DEF ClosedAt
      <4>7. CASE t \in ClosedStates(closed[dir])
        <5>1. PICK entry \in closed[dir] : entry[2] = t
          BY <4>7 DEF ClosedStates
        <5>2. entry[1] <= frontier[dir].g /\ entry[1] \in Nat
          BY <1>4 DEF StructureInv, LayerOrder
        <5>3. entry[1] <= k
          BY <1>3, <1>4, <1>7, <4>1, <5>2
        <5>. QED
          BY <1>5, <1>10, <5>1, <5>3 DEF ClosedAt
      <4>. QED
        BY <4>5, <4>6, <4>7
    <3>. QED
      BY <3>2, <3>3
  <2>. QED
    BY <2>2, <2>3, <2>4 DEF NextReached
<1>. QED
  BY <1>8, <1>9, <1>10

\* Where nothing that PlanProgress is about changes, it is kept.
LEMMA ProgressKept ==
    ASSUME PlanProgress, UNCHANGED <<open, frontier, closed, images, dir>>, UpperBound' = UpperBound
    PROVE  PlanProgress'
<1>. SUFFICES ASSUME NEW d \in Directions, NEW p \in Plans, PlanCost(p) < UpperBound,
                     NEW n \in 1 .. p.len, NEW c \in Costs,
                     PlanStep(d, p, n, c), ClosedAt(d, NodeAt(d, p, n), CostAt(d, p, n))
              PROVE  NextReached(d, p, n, c)'
  BY DEF PlanProgress, ClosedAt
<1>1. NextReached(d, p, n, c)
  BY DEF PlanProgress
<1>. QED
  BY <1>1 DEF NextReached, ImageAt, OpenAt, ClosedAt, Unexpanded

\* hNotClosed stays a bound where it does not change: closed lists grow, and fewer plans
\* would improve a better solution.
LEMMA HNotClosedKept ==
    ASSUME HNotClosedAdmissible,
           UpperBound \in Int, UpperBound' \in Int, UpperBound' <= UpperBound,
           \A d \in Directions : closed[d] \subseteq closed'[d],
           NEW d \in Directions, hNotClosed'[d] = hNotClosed[d],
           NEW p \in Plans, PlanCost(p) < UpperBound',
           NEW i \in 0 .. p.len, p.state[i] \notin ClosedStates(closed'[d])
    PROVE  hNotClosed'[d] <= CostFrom(d, p, i)
<1>1. p.state[i] \notin ClosedStates(closed[d])
  BY DEF ClosedStates
<1>2. PlanCost(p) \in Int
  BY ConstantTypes, PlanNodes
<1>3. PlanCost(p) < UpperBound
  BY <1>2
<1>. QED
  BY <1>1, <1>3 DEF HNotClosedAdmissible

\* prepareBucket raises hNotClosed to minNextG, which is a bound too.
LEMMA PopPlanInv ==
    ASSUME StructureInv, StructureInv', PlanInv, Pop
    PROVE  PlanInv'
<1>1. /\ UNCHANGED dir
      /\ images' = {}
      /\ UpperBound' \in Nat /\ UpperBound' <= UpperBound
      /\ hNotClosed' = [hNotClosed EXCEPT ![dir] = LargerOf(@, GetF(dir)')]
  <2>1. TypeInv'
    BY DEF StructureInv, TypeInv
  <2>. QED
    BY <2>1, PopEffect
<1>2. TypeInv' /\ TypeInv
  BY DEF StructureInv, TypeInv
<1>3. PICK g \in Nat, popped \in Bucket, bucket \in Bucket : LayerPopped(g, popped, bucket)
  BY <1>2, PopEffect
<1>4. /\ dir \in Directions
      /\ closed \in [Directions -> SUBSET (Nat \X States)]
      /\ hNotClosed \in [Directions -> 0 .. MaxInt]
      /\ UpperBound \in Nat
  BY <1>2, StateTypes
<1>5. \A d \in Directions : closed[d] \subseteq closed'[d]
  BY <1>3, <1>4 DEF LayerPopped
<1>6. PlanProgress'
  BY <1>2, PopProgress
<1>7. NextGAdmissible'
  BY <1>6, NextGBoundsPlans, PTL
<1>8. HNotClosedAdmissible'
  <2>. SUFFICES ASSUME NEW d \in Directions, NEW p \in Plans, PlanCost(p) < UpperBound',
                       NEW i \in 0 .. p.len, p.state[i] \notin ClosedStates(closed'[d])
                PROVE  hNotClosed'[d] <= CostFrom(d, p, i)
    BY DEF HNotClosedAdmissible
  <2>1. CASE hNotClosed'[d] = hNotClosed[d]
    BY <1>1, <1>4, <1>5, <2>1, HNotClosedKept DEF PlanInv
  <2>2. CASE hNotClosed'[d] # hNotClosed[d]
    <3>1. d = dir /\ hNotClosed'[d] = GetF(dir)'
      BY <1>1, <1>4, <2>2 DEF LargerOf
    <3>2. \A n \in 0 .. p.len :
             NodeAt(d, p, n) \notin ClosedStates(closed'[d]) => hNotClosed'[d] <= CostAt(d, p, n)
      BY <1>1, <1>7, <3>1 DEF NextGAdmissible
    <3>3. d \in {"fw", "bw"}
      BY ConstantTypes
    <3>. QED
      BY <3>2, <3>3, HNotClosedOfPlan
  <2>. QED
    BY <2>1, <2>2
<1>. QED
  BY <1>6, <1>8 DEF PlanInv

\* When a search is exhausted, it has closed every state of such a plan.
LEMMA ExhaustPlanInv ==
    ASSUME StructureInv, PlanInv, Exhaust
    PROVE  PlanInv'
<1>1. /\ UNCHANGED <<open, frontier, closed, solution, images, dir, status>>
      /\ FrontierEmpty(frontier[dir]) /\ open[dir] = {}
      /\ pc = "pop"
      /\ hNotClosed' = [hNotClosed EXCEPT ![dir] = MaxInt]
  BY DEF Exhaust
<1>2. /\ TypeInv /\ dir \in Directions /\ UpperBound \in Nat
      /\ hNotClosed \in [Directions -> 0 .. MaxInt]
      /\ open[dir] \in SUBSET (Nat \X BDD) /\ frontier[dir] \in FrontierType
  BY StructureTypes, StateTypes
<1>3. UpperBound' = UpperBound
  BY <1>1 DEF UpperBound, UpperOf, IsSolved
<1>4. PlanProgress'
  BY <1>1, <1>3, ProgressKept DEF PlanInv
<1>5. images = {}
  BY <1>1 DEF StructureInv, Phases
<1>6. GetF(dir) = MaxInt
  BY <1>1, <1>2, MinNextGBounds DEF GetF
<1>7. NextGAdmissible
  BY NextGBoundsPlans DEF PlanInv
<1>8. HNotClosedAdmissible'
  <2>. SUFFICES ASSUME NEW d \in Directions, NEW p \in Plans, PlanCost(p) < UpperBound',
                       NEW i \in 0 .. p.len, p.state[i] \notin ClosedStates(closed'[d])
                PROVE  hNotClosed'[d] <= CostFrom(d, p, i)
    BY DEF HNotClosedAdmissible
  <2>1. CASE d = dir
    <3>1. d \in {"fw", "bw"}
      BY ConstantTypes
    <3>2. \A n \in 0 .. p.len :
             NodeAt(d, p, n) \notin ClosedStates(closed[d]) => MaxInt <= CostAt(d, p, n)
      BY <1>3, <1>5, <1>6, <1>7, <2>1 DEF NextGAdmissible
    <3>3. MaxInt <= CostFrom(d, p, i)
      BY <1>1, <3>1, <3>2, HNotClosedOfPlan
    <3>4. hNotClosed'[d] = MaxInt
      BY <1>1, <1>2, <2>1
    <3>. QED
      BY <3>3, <3>4
  <2>2. CASE d # dir
    <3>1. hNotClosed'[d] = hNotClosed[d]
      BY <1>1, <1>2, <2>2
    <3>. QED
      BY <1>1, <1>2, <1>3, <3>1, HNotClosedKept DEF PlanInv
  <2>. QED
    BY <2>1, <2>2
<1>. QED
  BY <1>4, <1>8 DEF PlanInv

\* Every step of every search preserves PlanInv.
LEMMA PlanStepKeeps ==
    ASSUME StructureInv, StructureInv', PlanInv, [Next]_vars
    PROVE  PlanInv'
<1>1. TypeInv /\ TypeInv' /\ UpperBound \in Nat
  <2>1. TypeInv /\ TypeInv'
    BY DEF StructureInv, TypeInv
  <2>. QED
    BY <2>1, StateTypes
<1>2. ASSUME PlanProgress', UNCHANGED <<closed, hNotClosed>>, UpperBound' \in Int, UpperBound' <= UpperBound
      PROVE  PlanInv'
  <2>. SUFFICES ASSUME NEW d \in Directions, NEW p \in Plans, PlanCost(p) < UpperBound',
                       NEW i \in 0 .. p.len, p.state[i] \notin ClosedStates(closed'[d])
                PROVE  hNotClosed'[d] <= CostFrom(d, p, i)
    BY <1>2 DEF PlanInv, HNotClosedAdmissible
  <2>. QED
    BY <1>1, <1>2, HNotClosedKept DEF PlanInv
<1>3. CASE (\E d \in Directions : Step(d)) \/ PrepareNext
  <2>1. UNCHANGED <<closed, hNotClosed>> /\ UpperBound' = UpperBound
    BY <1>3, PrepareEffect
  <2>2. PlanProgress'
    BY <1>3, PrepareProgress DEF PlanInv
  <2>. QED
    BY <1>1, <1>2, <2>1, <2>2
<1>4. CASE ExpandZero \/ ExpandCost
  <2>1. UNCHANGED <<closed, hNotClosed>> /\ UpperBound' = UpperBound
    BY <1>4, ExpandEffect
  <2>2. PlanProgress'
    BY <1>4, ExpandProgress DEF PlanInv
  <2>. QED
    BY <1>1, <1>2, <2>1, <2>2
<1>5. CASE Insert
  <2>1. UNCHANGED <<closed, hNotClosed>> /\ UpperBound' \in Nat /\ UpperBound' <= UpperBound
    BY <1>5, InsertEffect
  <2>2. PlanProgress'
    BY <1>5, InsertProgress
  <2>. QED
    BY <1>1, <1>2, <2>1, <2>2
<1>6. CASE Pop
  BY <1>6, PopPlanInv
<1>7. CASE Exhaust
  BY <1>7, ExhaustPlanInv
<1>8. CASE ExpandTruncated \/ InsertDone \/ Finish \/ UNCHANGED vars
  <2>1. /\ UNCHANGED <<open, frontier, closed, hNotClosed, images, dir>>
        /\ UpperBound' = UpperBound
    BY <1>8, QuietEffect
  <2>2. PlanProgress'
    BY <2>1, ProgressKept DEF PlanInv
  <2>. QED
    BY <1>1, <1>2, <2>1, <2>2
<1>. QED
  BY <1>3, <1>4, <1>5, <1>6, <1>7, <1>8 DEF Next, Terminated

\* At the start a search is about to expand its source, and nothing costs less than the
\* least operator.
LEMMA InitPlanInv == Init => PlanInv
<1>. SUFFICES ASSUME Init PROVE PlanInv
  OBVIOUS
<1>1. \A d \in Directions :
         /\ closed[d] = {0} \X Source(d)
         /\ hNotClosed[d] = AbsMinTransitionCost
         /\ \A c \in Costs, s \in NotMutex[d] :
               s \in Source(d) => s \in Unexpanded(frontier[d], c)
  BY InitEffect
<1>2. PlanProgress
  <2>. SUFFICES ASSUME NEW d \in Directions, NEW p \in Plans,
                       NEW n \in 1 .. p.len, NEW c \in Costs,
                       ClosedAt(d, NodeAt(d, p, n), CostAt(d, p, n))
                PROVE  NodeAt(d, p, n) \in Unexpanded(frontier[d], c)
    BY DEF PlanProgress, NextReached
  <2>1. NodeAt(d, p, n) \in Source(d)
    BY <1>1 DEF ClosedAt
  <2>2. NodeAt(d, p, n) \in NotMutex[d]
    BY ConstantTypes, PlanNodes
  <2>. QED
    BY <1>1, <2>1, <2>2
<1>3. HNotClosedAdmissible
  <2>. SUFFICES ASSUME NEW d \in Directions, NEW p \in Plans
                PROVE  \A i \in 0 .. p.len : p.state[i] \notin ClosedStates(closed[d]) =>
                          hNotClosed[d] <= CostFrom(d, p, i)
    BY DEF HNotClosedAdmissible
  <2>1. d \in {"fw", "bw"}
    BY ConstantTypes
  <2>2. ASSUME NEW n \in 0 .. p.len, NodeAt(d, p, n) \notin ClosedStates(closed[d])
        PROVE  hNotClosed[d] <= CostAt(d, p, n)
    <3>1. ClosedStates(closed[d]) = Source(d)
      BY <1>1, ClosedStatesOfSource
    <3>2. n # p.len
      BY <2>1, <2>2, <3>1, PlanNodes
    <3>3. p.len \in Nat /\ n + 1 \in 1 .. p.len /\ n + 1 \in 0 .. p.len /\ n + 1 - 1 = n
      BY <2>1, <3>2, PlanNodes
    <3>4. PICK c \in Costs : CostAt(d, p, n + 1 - 1) = CostAt(d, p, n + 1) + c
      BY <2>1, <3>3, PlanNodes
    <3>5. n + 1 \in (n + 1) .. p.len /\ 0 <= CostAt(d, p, n + 1) /\ CostAt(d, p, n + 1) \in Int
      BY <2>1, <3>3, CostsRise, PlanNodes
    <3>. QED
      BY <1>1, <3>3, <3>4, <3>5, AbsMinBounds, ConstantTypes
  <2>. QED
    BY <2>1, <2>2, HNotClosedOfPlan
<1>. QED
  BY <1>2, <1>3 DEF PlanInv

\* No search loses a plan that would improve the solution.
THEOREM PlansAreKept == Spec => []PlanInv
<1>1. StructureInv /\ StructureInv' /\ PlanInv /\ [Next]_vars => PlanInv'
  BY PlanStepKeeps
<1>. QED
  BY <1>1, InitPlanInv, StructureHolds, PTL DEF Spec

\* hNotClosed never exceeds the cost from an unclosed state to the end of such a plan.
THEOREM HNotClosedIsAdmissible == Spec => []HNotClosedAdmissible
<1>1. PlanInv => HNotClosedAdmissible
  BY DEF PlanInv
<1>. QED
  BY <1>1, PlansAreKept, PTL

-----------------------------------------------------------------------------
(* Two searches do not run past each other.                                *)

\* Seen from the other end, NoCrossing says the same.
LEMMA CrossingSeenFrom == (\E d \in Directions : NoCrossingFrom(d)) => NoCrossing
<1>. SUFFICES ASSUME NEW e \in Directions, NoCrossingFrom(e)
              PROVE  NoCrossing
  OBVIOUS
<1>. SUFFICES ASSUME NEW d \in Directions, d # e, NEW p \in Plans,
                     Opposite(d) \in Directions, PlanCost(p) < UpperBound,
                     NEW n \in 1 .. p.len, NEW c \in Costs,
                     PlanStep(d, p, n, c),
                     NodeAt(d, p, n) \in ClosedStates(closed[d]),
                     NodeAt(d, p, n - 1) \in ClosedStates(closed[Opposite(d)])
              PROVE  MeetingAhead(d, p, n, c)
  BY DEF NoCrossing, NoCrossingFrom
<1>. DEFINE m == p.len - n + 1
<1>1. /\ d \in {"fw", "bw"}
      /\ Opposite(d) = e /\ Opposite(e) = d
  BY ConstantTypes DEF Opposite
<1>2. m \in 1 .. p.len /\ PlanStep(e, p, m, c)
  BY <1>1, StepReversed
<1>3. /\ p.len \in Nat /\ PlanCost(p) \in Nat
      /\ n \in 0 .. p.len /\ n - 1 \in 0 .. p.len
      /\ m = p.len - (n - 1) /\ m - 1 = p.len - n
      /\ CostAt(d, p, n) \in Int /\ CostAt(d, p, n - 1) \in Int
  BY <1>1, PlanNodes
<1>4. /\ NodeAt(e, p, m) = NodeAt(d, p, n - 1) /\ NodeAt(e, p, m - 1) = NodeAt(d, p, n)
      /\ CostAt(e, p, m) = PlanCost(p) - CostAt(d, p, n - 1)
      /\ CostAt(e, p, m - 1) = PlanCost(p) - CostAt(d, p, n)
  BY <1>1, <1>3, PlanReversed
<1>5. MeetingAhead(e, p, m, c)
  BY <1>1, <1>2, <1>4 DEF NoCrossingFrom
<1>6. PlanCost(p) - CostAt(e, p, m) = CostAt(d, p, n - 1)
  BY <1>3, <1>4
<1>. QED
  BY <1>1, <1>4, <1>5, <1>6 DEF MeetingAhead

\* The state of a plan that a search expands is on the other side of the transition then.
LEMMA ExpandCrossing ==
    ASSUME StructureInv, PlanProgress, NoCrossing, ExpandZero \/ ExpandCost
    PROVE  NoCrossing'
<1>1. /\ UNCHANGED <<closed, dir>>
      /\ UpperBound' = UpperBound
      /\ images = {}
      /\ \A d \in Directions : d # dir => frontier'[d] = frontier[d]
      /\ \A c \in Costs : \A s \in Unexpanded(frontier[dir], c) :
            \/ s \in Unexpanded(frontier'[dir], c)
            \/ \A t \in NotMutex[dir] : Leads(dir, s, c, t) =>
                  \E image \in images' : t \in UNION image[2] /\ image[1] = frontier[dir].g + c
  BY ExpandEffect
<1>2. dir \in Directions /\ dir \in {"fw", "bw"} /\ Opposite(dir) # dir /\ frontier[dir].g \in Nat
  BY StructureTypes, StateTypes DEF Opposite
<1>3. ASSUME NEW d \in Directions, d = dir
      PROVE  NoCrossingFrom(d)'
  <2>. SUFFICES ASSUME NEW p \in Plans, Opposite(d) \in Directions, PlanCost(p) < UpperBound,
                       NEW n \in 1 .. p.len, NEW c \in Costs,
                       PlanStep(d, p, n, c),
                       NodeAt(d, p, n) \in ClosedStates(closed[d]),
                       NodeAt(d, p, n - 1) \in ClosedStates(closed[Opposite(d)])
                PROVE  MeetingAhead(d, p, n, c)'
    BY <1>1 DEF NoCrossingFrom, ClosedStates
  <2>1. MeetingAhead(d, p, n, c)
    BY <1>3, <1>2 DEF NoCrossing, NoCrossingFrom
  <2>2. CASE NodeAt(d, p, n) \in Unexpanded(frontier[d], c)
    <3>1. <<frontier[d].g, NodeAt(d, p, n)>> \in closed[d]
      BY <1>3, <1>2, <2>2 DEF StructureInv, FrontierClosed, FrontierStates, Unexpanded
    <3>2. n \in 0 .. p.len
      BY <1>3, <1>2, PlanNodes
    <3>3. frontier[d].g <= CostAt(d, p, n)
      BY <1>3, <1>2, <3>1, <3>2, ClosedOptimal
    <3>4. NodeAt(d, p, n - 1) \in NotMutex[d] /\ CostAt(d, p, n) \in Int /\ c \in Nat
      BY <1>3, <1>2, PlanNodes, ConstantTypes
    <3>5. frontier[d].g + c <= CostAt(d, p, n - 1)
      BY <1>3, <1>2, <3>3, <3>4 DEF PlanStep
    <3>6. \/ NodeAt(d, p, n) \in Unexpanded(frontier'[d], c)
          \/ \E image \in images' : /\ NodeAt(d, p, n - 1) \in UNION image[2]
                                    /\ image[1] = frontier[d].g + c
      BY <1>3, <1>1, <2>2, <3>4 DEF PlanStep
    <3>. QED
      BY <1>3, <1>1, <3>5, <3>6 DEF MeetingAhead, ImageAt
  <2>3. CASE NodeAt(d, p, n) \notin Unexpanded(frontier[d], c)
    BY <1>3, <1>1, <1>2, <2>1, <2>3 DEF MeetingAhead, ImageAt
  <2>. QED
    BY <1>3, <2>2, <2>3
<1>4. ((\E d \in Directions : NoCrossingFrom(d)) => NoCrossing)'
  BY CrossingSeenFrom, PTL
<1>. QED
  BY <1>2, <1>3, <1>4

\* stepImage looks for a cut at every state that the other search has closed.
LEMMA InsertCrossing ==
    ASSUME StructureInv, PlanInv, NoCrossing, Insert
    PROVE  NoCrossing'
<1>1. /\ UNCHANGED <<frontier, closed, dir>>
      /\ UpperBound' \in Nat /\ UpperBound' <= UpperBound
  BY InsertEffect
<1>2. PICK image \in images :
         /\ images' = images \ {image}
         /\ \A entry \in OppositeClosed(dir) :
               entry[2] \in UNION image[2] => UpperBound' <= image[1] + entry[1]
  BY InsertEffect
<1>3. /\ dir \in Directions /\ dir \in {"fw", "bw"} /\ Opposite(dir) # dir
      /\ UpperBound \in Nat /\ image[1] \in Nat
  BY StructureTypes, StateTypes DEF Opposite
<1>4. ASSUME NEW d \in Directions, d = dir
      PROVE  NoCrossingFrom(d)'
  <2>. SUFFICES ASSUME NEW p \in Plans, Opposite(d) \in Directions, PlanCost(p) < UpperBound',
                       NEW n \in 1 .. p.len, NEW c \in Costs,
                       PlanStep(d, p, n, c),
                       NodeAt(d, p, n) \in ClosedStates(closed[d]),
                       NodeAt(d, p, n - 1) \in ClosedStates(closed[Opposite(d)])
                PROVE  MeetingAhead(d, p, n, c)'
    BY <1>1 DEF NoCrossingFrom
  <2>1. /\ PlanCost(p) \in Nat /\ PlanCost(p) < UpperBound
        /\ n - 1 \in 0 .. p.len
    BY <1>4, <1>1, <1>3, PlanNodes
  <2>2. MeetingAhead(d, p, n, c)
    BY <1>4, <1>3, <2>1 DEF NoCrossing, NoCrossingFrom
  <2>3. ~ (NodeAt(d, p, n - 1) \in UNION image[2] /\ image[1] <= CostAt(d, p, n - 1))
    <3>. SUFFICES ASSUME NodeAt(d, p, n - 1) \in UNION image[2], image[1] <= CostAt(d, p, n - 1)
                  PROVE  FALSE
      OBVIOUS
    <3>1. PICK entry \in OppositeClosed(d) : entry[2] = NodeAt(d, p, n - 1)
      BY <1>4, <1>4 DEF OppositeClosed, ClosedStates
    <3>2. image[1] + entry[1] <= PlanCost(p)
      BY <1>4, <1>3, <2>1, <3>1, StateIsWorthIt
    <3>3. UpperBound' <= image[1] + entry[1] /\ entry[1] \in Nat
      BY <1>4, <1>2, <1>3, <3>1, OppositeClosedBounds
    <3>. QED
      BY <1>4, <1>1, <1>3, <2>1, <3>2, <3>3
  <2>. QED
    BY <1>1, <1>4, <1>2, <1>3, <2>2, <2>3 DEF MeetingAhead, ImageAt
<1>5. ((\E d \in Directions : NoCrossingFrom(d)) => NoCrossing)'
  BY CrossingSeenFrom, PTL
<1>. QED
  BY <1>3, <1>4, <1>5

\* What prepareBucket closes is still to be expanded.
LEMMA PopCrossing ==
    ASSUME StructureInv, TypeInv', PlanProgress, NoCrossing, Pop
    PROVE  NoCrossing'
<1>1. /\ UNCHANGED <<images, dir>>
      /\ images = {} /\ FrontierEmpty(frontier[dir])
      /\ UpperBound' \in Nat /\ UpperBound' <= UpperBound
  BY PopEffect
<1>2. PICK g \in Nat, popped \in Bucket, bucket \in Bucket : LayerPopped(g, popped, bucket)
  BY PopEffect
<1>3. /\ dir \in Directions /\ dir \in {"fw", "bw"} /\ Opposite(dir) # dir /\ UpperBound \in Nat
      /\ frontier \in [Directions -> FrontierType]
      /\ closed \in [Directions -> SUBSET (Nat \X States)]
  BY StructureTypes, StateTypes DEF Opposite
<1>4. /\ \A d \in Directions : d # dir => frontier'[d] = frontier[d] /\ closed'[d] = closed[d]
      /\ closed'[dir] = closed[dir] \cup ({g} \X UNION bucket)
      /\ frontier'[dir] = Popped(g, bucket)
  BY <1>2, <1>3 DEF LayerPopped
<1>5. /\ \A c \in Costs : ~ \E s : s \in Unexpanded(frontier[dir], c)
      /\ \A c \in Costs : UNION bucket \subseteq Unexpanded(frontier'[dir], c)
  BY <1>1, <1>4 DEF FrontierEmpty, Unexpanded, Popped
<1>6. ASSUME NEW d \in Directions, d = dir
      PROVE  NoCrossingFrom(d)'
  <2>. SUFFICES ASSUME NEW p \in Plans, Opposite(d) \in Directions, PlanCost(p) < UpperBound',
                       NEW n \in 1 .. p.len, NEW c \in Costs,
                       PlanStep(d, p, n, c),
                       NodeAt(d, p, n) \in ClosedStates(closed'[d]),
                       NodeAt(d, p, n - 1) \in ClosedStates(closed'[Opposite(d)])
                PROVE  MeetingAhead(d, p, n, c)'
    BY DEF NoCrossingFrom, ClosedStates
  <2>1. PlanCost(p) < UpperBound
    BY <1>6, <1>1, <1>3, PlanNodes
  <2>2. CASE NodeAt(d, p, n) \in UNION bucket
    BY <1>6, <1>5, <2>2 DEF MeetingAhead
  <2>3. CASE NodeAt(d, p, n) \notin UNION bucket
    <3>1. NodeAt(d, p, n) \in ClosedStates(closed[d])
      BY <1>6, <1>4, <2>3 DEF ClosedStates
    <3>2. MeetingAhead(d, p, n, c)
      BY <1>6, <1>3, <1>4, <2>1, <3>1 DEF NoCrossing, NoCrossingFrom
    <3>. QED
      BY <1>6, <1>1, <1>3, <1>4, <1>5, <3>2 DEF MeetingAhead, ImageAt
  <2>. QED
    BY <1>6, <2>2, <2>3
<1>7. ((\E d \in Directions : NoCrossingFrom(d)) => NoCrossing)'
  BY CrossingSeenFrom, PTL
<1>. QED
  BY <1>3, <1>6, <1>7

\* The other steps leave the states that are to be expanded where they are.
LEMMA OtherCrossing ==
    ASSUME NoCrossing, UNCHANGED closed, UpperBound' = UpperBound,
           images = {} \/ UNCHANGED <<images, dir>>,
           \A d \in Directions : \A c \in Costs, s \in NotMutex[d] :
              s \in Unexpanded(frontier[d], c) => s \in Unexpanded(frontier'[d], c)
    PROVE  NoCrossing'
<1>. SUFFICES ASSUME NEW d \in Directions, NEW p \in Plans,
                     Opposite(d) \in Directions, PlanCost(p) < UpperBound,
                     NEW n \in 1 .. p.len, NEW c \in Costs,
                     PlanStep(d, p, n, c),
                     NodeAt(d, p, n) \in ClosedStates(closed[d]),
                     NodeAt(d, p, n - 1) \in ClosedStates(closed[Opposite(d)])
              PROVE  MeetingAhead(d, p, n, c)'
  BY DEF NoCrossing, NoCrossingFrom, ClosedStates
<1>1. MeetingAhead(d, p, n, c)
  BY DEF NoCrossing, NoCrossingFrom
<1>2. NodeAt(d, p, n) \in NotMutex[d] /\ NodeAt(d, p, n - 1) \in NotMutex[Opposite(d)]
  <2>1. d \in {"fw", "bw"} /\ Opposite(d) \in {"fw", "bw"}
    BY ConstantTypes
  <2>2. n \in 0 .. p.len /\ n - 1 \in 0 .. p.len
    BY <2>1, PlanNodes
  <2>3. NodeAt(Opposite(d), p, p.len - (n - 1)) = NodeAt(d, p, n - 1) /\ p.len - (n - 1) \in 0 .. p.len
    BY <2>1, <2>2, PlanReversed
  <2>4. NodeAt(Opposite(d), p, p.len - (n - 1)) \in NotMutex[Opposite(d)]
    BY <2>1, <2>3, PlanNodes
  <2>. QED
    BY <2>1, <2>2, <2>3, <2>4, PlanNodes
<1>. QED
  BY <1>1, <1>2 DEF MeetingAhead, ImageAt, Unexpanded

\* Two searches do not run past the transition of a plan at which they would meet.
LEMMA CrossingStep ==
    ASSUME StructureInv, StructureInv', PlanInv, NoCrossing, [Next]_vars
    PROVE  NoCrossing'
<1>1. TypeInv'
  BY DEF StructureInv, TypeInv
<1>2. CASE (\E d \in Directions : Step(d)) \/ PrepareNext
  <2>1. /\ UNCHANGED closed
        /\ UpperBound' = UpperBound
        /\ images = {}
        /\ \A d \in Directions : \A c \in Costs, s \in NotMutex[d] :
              s \in Unexpanded(frontier[d], c) => s \in Unexpanded(frontier'[d], c)
    BY <1>2, PrepareEffect
  <2>. QED
    BY <2>1, OtherCrossing
<1>3. CASE ExpandZero \/ ExpandCost
  BY <1>3, ExpandCrossing DEF PlanInv
<1>4. CASE Insert
  BY <1>4, InsertCrossing
<1>5. CASE Pop
  BY <1>1, <1>5, PopCrossing DEF PlanInv
<1>6. CASE Exhaust
  <2>1. UNCHANGED <<closed, frontier, images, dir, solution>>
    BY <1>6 DEF Exhaust
  <2>2. UpperBound' = UpperBound
    BY <2>1 DEF UpperBound, UpperOf, IsSolved
  <2>. QED
    BY <2>1, <2>2, OtherCrossing
<1>7. CASE ExpandTruncated \/ InsertDone \/ Finish \/ UNCHANGED vars
  <2>1. UNCHANGED <<closed, frontier, images, dir>> /\ UpperBound' = UpperBound
    BY <1>7, QuietEffect
  <2>. QED
    BY <2>1, OtherCrossing
<1>. QED
  BY <1>2, <1>3, <1>4, <1>5, <1>6, <1>7 DEF Next, Terminated

\* At the start the sources are still to be expanded.
LEMMA InitCrossing == Init => NoCrossing
<1>. SUFFICES ASSUME Init, NEW d \in Directions, NEW p \in Plans,
                     NEW n \in 1 .. p.len, NEW c \in Costs,
                     NodeAt(d, p, n) \in ClosedStates(closed[d])
              PROVE  NodeAt(d, p, n) \in Unexpanded(frontier[d], c)
  BY DEF NoCrossing, NoCrossingFrom, MeetingAhead
<1>1. /\ closed[d] = {0} \X Source(d)
      /\ \A s \in NotMutex[d] : s \in Source(d) => s \in Unexpanded(frontier[d], c)
  BY InitEffect
<1>2. NodeAt(d, p, n) \in Source(d)
  BY <1>1, ClosedStatesOfSource
<1>3. NodeAt(d, p, n) \in NotMutex[d]
  BY ConstantTypes, PlanNodes
<1>. QED
  BY <1>1, <1>2, <1>3

\* Two searches meet on every plan that would improve the solution.
THEOREM SearchesMeet == Spec => []NoCrossing
<1>1. StructureInv /\ StructureInv' /\ PlanInv /\ NoCrossing /\ [Next]_vars => NoCrossing'
  BY CrossingStep
<1>. QED
  BY <1>1, InitCrossing, StructureHolds, PlansAreKept, PTL DEF Spec

-----------------------------------------------------------------------------
(* When the bidirectional search is optimal.                               *)

\* Two different multiples of a number are that number apart.
LEMMA ProductGap ==
    ASSUME NEW a \in Nat, NEW i \in Nat, NEW j \in Nat, j * a < i * a
    PROVE  j * a + a <= i * a
<1>1. j < i
  <2>. SUFFICES ASSUME i <= j PROVE FALSE
    OBVIOUS
  <2>1. j = i + (j - i) /\ j - i \in Nat
    OBVIOUS
  <2>2. PICK m \in Nat : j = i + m
    BY <2>1
  <2>3. j * a = i * a + m * a /\ m * a \in Nat /\ i * a \in Nat
    BY <2>2
  <2>. QED
    BY <2>3
<1>2. PICK m \in Nat : i = j + 1 + m
  <2>1. i = j + 1 + (i - j - 1) /\ i - j - 1 \in Nat
    BY <1>1
  <2>. QED
    BY <2>1
<1>3. i * a = j * a + a + m * a /\ m * a \in Nat /\ j * a \in Nat
  BY <1>2
<1>. QED
  BY <1>3

\* The multiples of the least cost are closed under addition, and at least it apart.
LEMMA Multiples ==
    ASSUME NEW k \in Nat, Multiple(k), NEW n \in Nat, Multiple(n)
    PROVE  /\ Multiple(k + n)
           /\ k < n => k + AbsMinTransitionCost <= n
<1>. DEFINE a == AbsMinTransitionCost
<1>1. PICK i \in 0 .. k : k = i * a
  BY DEF Multiple
<1>2. PICK j \in 0 .. n : n = j * a
  BY DEF Multiple
<1>3. a \in Nat /\ i \in Nat /\ j \in Nat
  BY AbsMinBounds
<1>. HIDE DEF a
<1>4. Multiple(k + n)
  <2>1. k + n = (i + j) * a
    BY <1>1, <1>2, <1>3
  <2>2. i + j \in 0 .. (k + n)
    OBVIOUS
  <2>. QED
    BY <2>1, <2>2 DEF Multiple, a
<1>5. k < n => k + a <= n
  BY <1>1, <1>2, <1>3, ProductGap
<1>. QED
  BY <1>4, <1>5 DEF a

\* The layers of a search with even costs stay multiples of the least cost.
LEMMA EvenStep ==
    ASSUME EvenCosts, StructureInv, StructureInv', EvenLayers, [Next]_vars
    PROVE  EvenLayers'
<1>. SUFFICES ASSUME ~ HasTransitions0
              PROVE  /\ \A d \in Directions :
                           /\ Multiple(frontier'[d].g)
                           /\ \A entry \in open'[d] : /\ Multiple(entry[1])
                                                      /\ frontier'[d].g < entry[1]
                     /\ \A image \in images' : /\ Multiple(image[1])
                                               /\ frontier'[dir'].g < image[1]
  BY DEF EvenLayers
<1>1. /\ \A c \in Costs : Multiple(c) /\ c \in Nat
      /\ \A d \in Directions :
            /\ Multiple(frontier[d].g)
            /\ \A entry \in open[d] : Multiple(entry[1]) /\ frontier[d].g < entry[1]
      /\ \A image \in images : Multiple(image[1]) /\ frontier[dir].g < image[1]
  BY ConstantTypes DEF EvenCosts, EvenLayers
<1>2. TypeInv'
  BY DEF StructureInv, TypeInv
<1>3. CASE (\E d \in Directions : Step(d)) \/ PrepareNext
  <2>1. /\ UNCHANGED <<open, images>> /\ images = {}
        /\ \A d \in Directions : frontier'[d].g = frontier[d].g
    BY <1>3, PrepareEffect
  <2>. QED
    BY <1>1, <2>1
<1>4. CASE ExpandZero \/ ExpandCost
  <2>1. /\ UNCHANGED <<open, dir>>
        /\ \A d \in Directions : d # dir => frontier'[d] = frontier[d]
        /\ frontier'[dir].g = frontier[dir].g
        /\ \A image \in images' : \E c \in Costs : image[1] = frontier[dir].g + c /\ c # 0
    BY <1>4, ExpandEffect
  <2>2. dir \in Directions /\ frontier[dir].g \in Nat
    BY StructureTypes, StateTypes
  <2>3. ASSUME NEW image \in images'
        PROVE  Multiple(image[1]) /\ frontier[dir].g < image[1]
    <3>1. PICK c \in Costs : image[1] = frontier[dir].g + c /\ c # 0
      BY <2>1
    <3>2. c \in Nat /\ Multiple(c) /\ Multiple(frontier[dir].g)
      BY <1>1, <2>2
    <3>3. Multiple(frontier[dir].g + c)
      BY <2>2, <3>2, Multiples
    <3>. QED
      BY <2>2, <3>1, <3>2, <3>3
  <2>. QED
    BY <1>1, <2>1, <2>2, <2>3
<1>5. CASE Insert
  <2>1. /\ UNCHANGED <<frontier, dir>>
        /\ \A d \in Directions : d # dir => open'[d] = open[d]
    BY <1>5, InsertEffect
  <2>2. PICK image \in images :
           /\ images' = images \ {image}
           /\ \A entry \in open'[dir] : entry \in open[dir] \/ entry[1] = image[1]
    BY <1>5, InsertEffect
  <2>. QED
    BY <1>1, <2>1, <2>2
<1>6. CASE Pop
  <2>1. UNCHANGED <<images, dir>> /\ images = {}
    BY <1>2, <1>6, PopEffect
  <2>2. PICK g \in Nat, popped \in Bucket, bucket \in Bucket : LayerPopped(g, popped, bucket)
    BY <1>2, <1>6, PopEffect
  <2>3. /\ dir \in Directions
        /\ frontier \in [Directions -> FrontierType]
        /\ open \in [Directions -> SUBSET (Nat \X BDD)]
        /\ \A entry \in open[dir] : entry[1] \in Nat
    BY StructureTypes, StateTypes
  <2>4. /\ \A d \in Directions : d # dir => frontier'[d] = frontier[d] /\ open'[d] = open[d]
        /\ open'[dir] = {e \in open[dir] : e[1] # g}
        /\ frontier'[dir].g = g
    BY <2>2, <2>3 DEF LayerPopped, Popped
  <2>5. /\ \E entry \in open[dir] : entry[1] = g
        /\ \A entry \in open[dir] : g <= entry[1]
    BY <2>2 DEF LayerPopped
  <2>. QED
    BY <1>1, <2>1, <2>3, <2>4, <2>5
<1>7. CASE Exhaust
  BY <1>1, <1>7 DEF Exhaust
<1>8. CASE ExpandTruncated \/ InsertDone \/ Finish \/ UNCHANGED vars
  <2>1. UNCHANGED <<open, frontier, images, dir>>
    BY <1>8, QuietEffect
  <2>. QED
    BY <1>1, <2>1
<1>. QED
  BY <1>3, <1>4, <1>5, <1>6, <1>7, <1>8 DEF Next, Terminated

\* The layers of a search with even costs are multiples of the least cost.
LEMMA EvenLayersHold ==
    ASSUME EvenCosts
    PROVE  Spec => []EvenLayers
<1>1. Init => EvenLayers
  <2>. SUFFICES ASSUME Init PROVE EvenLayers
    OBVIOUS
  <2>1. images = {} /\ \A d \in Directions : open[d] = {} /\ frontier[d].g = 0
    BY InitEffect
  <2>2. Multiple(0)
    BY AbsMinBounds DEF Multiple
  <2>. QED
    BY <2>1, <2>2 DEF EvenLayers
<1>2. StructureInv /\ StructureInv' /\ EvenLayers /\ [Next]_vars => EvenLayers'
  BY EvenStep
<1>. QED
  BY <1>1, <1>2, StructureHolds, PTL DEF Spec

\* A search never closes its target, the source of the other.
LEMMA TargetUnclosed ==
    ASSUME StructureInv, InitState \notin Goal, NEW d \in Directions,
           NEW s \in Source(Opposite(d))
    PROVE  s \notin ClosedStates(closed[d])
<1>1. s \in ClosedStates(OppositeClosed(d))
  <2>1. <<0, s>> \in OppositeClosed(d)
    BY DEF OppositeClosed, StructureInv, SourceClosed
  <2>. QED
    BY <2>1 DEF ClosedStates
<1>. QED
  BY <1>1 DEF StructureInv, ClosedDisjoint

\* The f-value of each search alone is a lower bound on the plans that would improve the
\* solution.
LEMMA NextGBoundsTask ==
    InitState \notin Goal /\ StructureInv /\ PlanProgress /\ images = {} => NoBetterPlan
<1>. SUFFICES ASSUME InitState \notin Goal, StructureInv, PlanProgress, images = {},
                     NEW d \in Directions, NEW p \in Plans, ~ (UpperBound <= PlanCost(p))
              PROVE  GetF(d) <= PlanCost(p)
  BY DEF NoBetterPlan
<1>1. /\ d \in {"fw", "bw"} /\ PlanCost(p) \in Nat /\ UpperBound \in Nat
      /\ 0 \in 0 .. p.len
      /\ NodeAt(d, p, 0) \in Source(Opposite(d)) /\ CostAt(d, p, 0) = PlanCost(p)
  BY StructureTypes, StateTypes, ConstantTypes, PlanNodes
<1>2. NodeAt(d, p, 0) \notin ClosedStates(closed[d])
  BY <1>1, TargetUnclosed
<1>3. NextGAdmissible
  BY NextGBoundsPlans
<1>. QED
  BY <1>1, <1>2, <1>3 DEF NextGAdmissible

\* getG is a lower bound on getF.
LEMMA GBelowF ==
    ASSUME StructureInv, NEW d \in Directions
    PROVE  GetG(d) \in Nat /\ GetF(d) \in Nat /\ GetG(d) <= GetF(d)
<1>1. /\ TypeInv
      /\ frontier[d].g \in Nat /\ frontier[d] \in FrontierType
      /\ open[d] \in SUBSET (Nat \X BDD)
      /\ \A entry \in open[d] : entry[1] \in Nat /\ entry[1] <= MaxG /\ frontier[d].g <= entry[1]
      /\ MaxG \in Nat /\ MaxInt \in Nat /\ MaxG <= MaxInt /\ AbsMinTransitionCost \in Nat
  BY StructureTypes, StateTypes, ConstantTypes, AbsMinBounds DEF StructureInv, LayerOrder
<1>2. CASE open[d] = {}
  BY <1>1, <1>2 DEF GetG, GetF, MinNextG
<1>3. CASE open[d] # {}
  <2>1. /\ MinG(open[d]) \in Nat /\ MinG(open[d]) <= MaxInt
        /\ frontier[d].g <= MinG(open[d])
    BY <1>1, <1>3, MinGIsLeast
  <2>. QED
    BY <1>1, <1>3, <2>1 DEF GetG, GetF, MinNextG, SmallerOf
<1>. QED
  BY <1>2, <1>3

\* A state that is still to be expanded costs getG, and no more than on the plan.
LEMMA LeadingEdge ==
    ASSUME StructureInv, PlanProgress,
           NEW d \in Directions, NEW p \in Plans, PlanCost(p) < UpperBound,
           NEW n \in 0 .. p.len, NEW c, NodeAt(d, p, n) \in Unexpanded(frontier[d], c)
    PROVE  GetG(d) = frontier[d].g /\ GetG(d) <= CostAt(d, p, n)
<1>1. <<frontier[d].g, NodeAt(d, p, n)>> \in closed[d]
  BY DEF StructureInv, FrontierClosed, FrontierStates, Unexpanded
<1>2. frontier[d].g <= CostAt(d, p, n)
  BY <1>1, ClosedOptimal
<1>3. ~ FrontierEmpty(frontier[d])
  BY DEF Unexpanded, FrontierEmpty
<1>. QED
  BY <1>2, <1>3 DEF GetG

\* Between two steps, what a search has closed of a plan is getG and the least cost away
\* from the rest: this is where the costs have to be even.
LEMMA PaidBeyond ==
    ASSUME StructureInv, PlanProgress, EvenLayers, images = {},
           NEW d \in Directions, NEW p \in Plans, PlanCost(p) < UpperBound,
           NEW n \in 1 .. p.len, NEW c \in Costs, PlanStep(d, p, n, c),
           NodeAt(d, p, n) \in ClosedStates(closed[d]),
           NodeAt(d, p, n - 1) \notin ClosedStates(closed[d]),
           HasTransitions0 \/ ~ FrontierEmpty(frontier[d])
    PROVE  GetG(d) + AbsMinTransitionCost <= CostAt(d, p, n - 1)
<1>1. /\ TypeInv /\ d \in {"fw", "bw"} /\ p.len \in Nat
      /\ n \in 0 .. p.len /\ n - 1 \in 0 .. p.len
      /\ frontier[d].g \in Nat /\ open[d] \in SUBSET (Nat \X BDD)
      /\ \A entry \in open[d] : entry[1] \in Nat /\ frontier[d].g <= entry[1]
      /\ CostAt(d, p, n) \in Int /\ CostAt(d, p, n - 1) \in Int
      /\ GetG(d) \in Nat /\ AbsMinTransitionCost \in Nat
      /\ c \in Nat /\ AbsMinTransitionCost <= c
  BY StructureTypes, StateTypes, ConstantTypes, PlanNodes, AbsMinBounds, GBelowF
     DEF StructureInv, LayerOrder
<1>2. PICK entry \in closed[d] : entry[2] = NodeAt(d, p, n)
  BY DEF ClosedStates
<1>3. ClosedAt(d, NodeAt(d, p, n), CostAt(d, p, n))
  BY <1>1, <1>2, ClosedOptimal DEF ClosedAt
<1>4. NextReached(d, p, n, c)
  BY <1>3 DEF PlanProgress
<1>5. ~ ClosedAt(d, NodeAt(d, p, n - 1), CostAt(d, p, n - 1))
  BY DEF ClosedAt, ClosedStates
<1>6. CASE NodeAt(d, p, n) \in Unexpanded(frontier[d], c)
  <2>1. GetG(d) <= CostAt(d, p, n)
    BY <1>1, <1>6, LeadingEdge
  <2>. QED
    BY <1>1, <2>1 DEF PlanStep
<1>7. CASE OpenAt(d, NodeAt(d, p, n - 1), CostAt(d, p, n - 1))
  <2>1. PICK e \in open[d] : e[1] <= CostAt(d, p, n - 1)
    BY <1>7 DEF OpenAt
  <2>2. CASE HasTransitions0
    <3>1. MinG(open[d]) <= e[1] /\ MinG(open[d]) \in Nat
      BY <1>1, <2>1, MinGIsLeast
    <3>2. GetG(d) <= e[1]
      BY <1>1, <2>1, <3>1 DEF GetG
    <3>. QED
      BY <1>1, <2>1, <2>2, <3>2 DEF AbsMinTransitionCost
  <2>3. CASE ~ HasTransitions0
    <3>1. GetG(d) = frontier[d].g
      BY <2>3 DEF GetG
    <3>2. Multiple(frontier[d].g) /\ Multiple(e[1]) /\ frontier[d].g < e[1]
      BY <2>1, <2>3 DEF EvenLayers
    <3>3. frontier[d].g + AbsMinTransitionCost <= e[1]
      BY <1>1, <2>1, <3>2, Multiples
    <3>. QED
      BY <1>1, <2>1, <3>1, <3>3
  <2>. QED
    BY <2>2, <2>3
<1>. QED
  BY <1>4, <1>5, <1>6, <1>7 DEF NextReached, ImageAt

\* The two searches together: take the transition of the plan at which the forward search
\* leaves what it has closed.
LEMMA MeetingBound ==
    ASSUME StructureInv, PlanProgress, NoCrossing, EvenLayers, images = {},
           InitState \notin Goal, Directions = {"fw", "bw"},
           \A d \in Directions : HasTransitions0 \/ ~ FrontierEmpty(frontier[d]),
           NEW p \in Plans, PlanCost(p) < UpperBound
    PROVE  GetG("fw") + GetG("bw") + AbsMinTransitionCost <= PlanCost(p)
<1>. DEFINE fw == "fw"
            bw == "bw"
            reached == {m \in 0 .. p.len : NodeAt(fw, p, m) \in ClosedStates(closed[fw])}
<1>1. /\ TypeInv /\ fw \in Directions /\ bw \in Directions
      /\ Opposite(fw) = bw /\ Opposite(bw) = fw
      /\ p.len \in Nat /\ PlanCost(p) \in Nat /\ AbsMinTransitionCost \in Nat
      /\ GetG(fw) \in Nat /\ GetG(bw) \in Nat /\ GetF(bw) \in Nat /\ GetG(bw) <= GetF(bw)
  BY StructureTypes, ConstantTypes, PlanNodes, AbsMinBounds, GBelowF DEF Opposite
<1>. HIDE DEF fw, bw
<1>2. p.len \in reached
  <2>1. NodeAt(fw, p, p.len) \in Source(fw)
    BY <1>1, ConstantTypes, PlanNodes
  <2>2. <<0, NodeAt(fw, p, p.len)>> \in closed[fw]
    BY <1>1, <2>1 DEF StructureInv, SourceClosed
  <2>. QED
    BY <1>1, <2>2 DEF ClosedStates
<1>3. PICK n \in reached : \A k \in reached : n <= k
  <2>1. reached \subseteq Nat
    BY <1>1
  <2>. QED
    BY <1>2, <2>1, LeastNumber
<1>4. n \in 1 .. p.len /\ n - 1 \in 0 .. p.len /\ n \in 0 .. p.len
  <2>1. NodeAt(fw, p, 0) \in Source(bw)
    BY <1>1, ConstantTypes, PlanNodes
  <2>2. 0 \notin reached
    BY <1>1, <2>1, TargetUnclosed
  <2>. QED
    BY <1>1, <1>3, <2>2
<1>5. /\ NodeAt(fw, p, n) \in ClosedStates(closed[fw])
      /\ NodeAt(fw, p, n - 1) \notin ClosedStates(closed[fw])
  <2>1. n - 1 \notin reached
    BY <1>1, <1>3, <1>4
  <2>. QED
    BY <1>3, <1>4, <2>1
<1>6. PICK c \in Costs : PlanStep(fw, p, n, c)
  BY <1>1, <1>4, ConstantTypes, PlanNodes DEF PlanStep
<1>. DEFINE m == p.len - n + 1
<1>7. /\ m \in 1 .. p.len /\ m \in 0 .. p.len /\ PlanStep(bw, p, m, c)
      /\ NodeAt(bw, p, m) = NodeAt(fw, p, n - 1) /\ NodeAt(bw, p, m - 1) = NodeAt(fw, p, n)
      /\ CostAt(bw, p, m) = PlanCost(p) - CostAt(fw, p, n - 1)
      /\ CostAt(bw, p, m - 1) = PlanCost(p) - CostAt(fw, p, n)
      /\ CostAt(fw, p, n) \in Int /\ CostAt(fw, p, n - 1) \in Int
  <2>1. m \in 1 .. p.len /\ PlanStep(bw, p, m, c)
    BY <1>1, <1>4, <1>6, ConstantTypes, StepReversed
  <2>2. m = p.len - (n - 1) /\ m - 1 = p.len - n /\ m \in 0 .. p.len
    BY <1>1, <1>4, <2>1
  <2>. QED
    BY <1>1, <1>4, <2>1, <2>2, ConstantTypes, PlanNodes, PlanReversed
<1>. HIDE DEF m
<1>8. GetG(fw) + AbsMinTransitionCost <= CostAt(fw, p, n - 1)
  BY <1>1, <1>4, <1>5, <1>6, PaidBeyond
<1>9. CASE NodeAt(fw, p, n - 1) \notin ClosedStates(closed[bw])
  <2>1. NextGAdmissible
    BY NextGBoundsPlans
  <2>2. GetF(bw) <= CostAt(bw, p, m)
    BY <1>1, <1>7, <1>9, <2>1 DEF NextGAdmissible
  <2>. QED
    BY <1>1, <1>7, <1>8, <2>2 DEF fw, bw
<1>10. CASE NodeAt(fw, p, n - 1) \in Unexpanded(frontier[bw], c)
  <2>1. GetG(bw) <= CostAt(bw, p, m)
    BY <1>1, <1>7, <1>10, LeadingEdge
  <2>. QED
    BY <1>1, <1>7, <1>8, <2>1 DEF fw, bw
<1>11. CASE /\ NodeAt(fw, p, n - 1) \in ClosedStates(closed[bw])
            /\ NodeAt(fw, p, n) \in Unexpanded(frontier[fw], c)
  <2>1. GetG(fw) <= CostAt(fw, p, n)
    BY <1>1, <1>4, <1>11, LeadingEdge
  <2>2. NodeAt(fw, p, n) \notin ClosedStates(closed[bw])
    BY <1>1, <1>5 DEF StructureInv, ClosedDisjoint, OppositeClosed
  <2>3. GetG(bw) + AbsMinTransitionCost <= CostAt(bw, p, m - 1)
    BY <1>1, <1>7, <1>11, <2>2, PaidBeyond
  <2>. QED
    BY <1>1, <1>7, <2>1, <2>3 DEF fw, bw
<1>12. CASE NodeAt(fw, p, n - 1) \in ClosedStates(closed[bw])
  <2>1. MeetingAhead(fw, p, n, c)
    BY <1>1, <1>4, <1>5, <1>6, <1>12 DEF NoCrossing, NoCrossingFrom
  <2>. QED
    BY <1>1, <1>10, <1>11, <1>12, <2>1 DEF MeetingAhead, ImageAt
<1>. QED
  BY <1>9, <1>12

\* The bidirectional lower bound, by the maximum of three, is a lower bound on such plans.
LEMMA BidirectionalFAdmissible ==
    ASSUME EvenTask, StructureInv, PlanInv, NoCrossing, EvenLayers, LowerBoundAdmissible,
           MutexType # "and" => ReadyInv,
           Directions = {"fw", "bw"}, pc = "finish",
           NEW p \in Plans, PlanCost(p) < UpperBound
    PROVE  BidirectionalF <= PlanCost(p)
<1>1. /\ "fw" \in Directions /\ "bw" \in Directions
      /\ PlanProgress /\ images = {} /\ InitState \notin Goal
      /\ PlanCost(p) \in Nat /\ PlanCost(p) < MaxInt /\ UpperBound \in Nat /\ lowerBound \in Nat
      /\ GetF("fw") \in Nat /\ GetF("bw") \in Nat
      /\ GetG("fw") \in Nat /\ GetG("bw") \in Nat /\ AbsMinTransitionCost \in Nat /\ MaxInt \in Nat
  BY StructureTypes, StateTypes, ConstantTypes, PlanNodes, GBelowF, AbsMinBounds
     DEF StructureInv, Phases, PlanInv, EvenTask
<1>2. GetF("fw") <= PlanCost(p) /\ GetF("bw") <= PlanCost(p)
  <2>1. NoBetterPlan
    BY <1>1, NextGBoundsTask
  <2>. QED
    BY <1>1, <2>1 DEF NoBetterPlan
<1>3. \A d \in Directions : HasTransitions0 \/ ~ FrontierEmpty(frontier[d])
  <2>. SUFFICES ASSUME ~ HasTransitions0, NEW d \in Directions, FrontierEmpty(frontier[d])
                PROVE  FALSE
    OBVIOUS
  <2>1. EngineSolved
    BY DEF EvenTask, ReadyInv, BucketReady, Over
  <2>. QED
    BY <1>1, <2>1 DEF EngineSolved, LowerBoundAdmissible
<1>4. EvenLayers /\ GetG("fw") + GetG("bw") + AbsMinTransitionCost <= PlanCost(p)
  BY <1>1, <1>3, MeetingBound
<1>5. Int32(GetG("fw") + GetG("bw") + AbsMinTransitionCost) <= PlanCost(p)
  BY <1>1, <1>4 DEF Int32
<1>. QED
  BY <1>1, <1>2, <1>5 DEF BidirectionalF, LargerOf

\* Raising the lower bound to a bound on the plans that would improve the solution.
LEMMA RaisedAdmissible ==
    ASSUME NEW lower \in 0 .. MaxInt, NEW sol \in SolutionType,
           lowerBound \in 0 .. MaxInt, LowerBoundAdmissible,
           NEW p \in Plans, PlanCost(p) < UpperOf(sol) => lower <= PlanCost(p)
    PROVE  LowerBoundAfter(lower, sol) <= PlanCost(p)
<1>1. /\ PlanCost(p) \in Nat /\ lowerBound <= PlanCost(p) /\ UpperOf(sol) \in Nat
      /\ LowerBoundAfter(lower, sol) \in 0 .. MaxInt /\ MaxInt \in Nat
  BY PlanNodes, UpperOfSolution, LowerBoundAfterRange, ConstantTypes DEF LowerBoundAdmissible
<1>2. \/ LowerBoundAfter(lower, sol) = lowerBound
      \/ /\ LowerBoundAfter(lower, sol) <= lower
         /\ LowerBoundAfter(lower, sol) <= UpperOf(sol)
  BY LowerBoundAfterRange
<1>. QED
  BY <1>1, <1>2

\* The lower bound rises when a bucket is popped, when there is none, and after the step.
LEMMA LowerBoundStep ==
    ASSUME EvenTask, StructureInv, StructureInv', PlanInv, PlanInv', NoCrossing, EvenLayers,
           MutexType # "and" => ReadyInv,
           LowerBoundAdmissible, [Next]_vars
    PROVE  LowerBoundAdmissible'
<1>1. /\ TypeInv' /\ InitState \notin Goal
      /\ lowerBound \in 0 .. MaxInt /\ solution \in SolutionType /\ MaxInt \in Nat
      /\ dir \in Directions
  BY StructureTypes, StateTypes, ConstantTypes DEF StructureInv, TypeInv, EvenTask
<1>2. CASE UNCHANGED lowerBound
  BY <1>2 DEF LowerBoundAdmissible
<1>3. CASE Pop
  <2>1. /\ UNCHANGED <<dir, images>> /\ images = {}
        /\ GetF(dir)' \in 0 .. MaxInt
        /\ lowerBound' = LowerBoundAfter(GetF(dir)', solution')
    BY <1>1, <1>3, PopEffect
  <2>2. NoBetterPlan'
    <3>1. (InitState \notin Goal /\ StructureInv /\ PlanProgress /\ images = {} => NoBetterPlan)'
      BY NextGBoundsTask, PTL
    <3>. QED
      BY <1>1, <2>1, <3>1 DEF PlanInv
  <2>3. solution' \in SolutionType /\ UpperBound' = UpperOf(solution') /\ UpperBound' \in Nat
    BY <1>1, UpperOfSolution DEF TypeInv, TypeOK, UpperBound
  <2>4. ASSUME NEW p \in Plans
        PROVE  lowerBound' <= PlanCost(p)
    <3>1. PlanCost(p) < UpperOf(solution') => GetF(dir)' <= PlanCost(p)
      <4>1. UpperBound' <= PlanCost(p) \/ GetF(dir)' <= PlanCost(p)
        BY <1>1, <2>1, <2>2 DEF NoBetterPlan, GetF
      <4>. QED
        BY <2>3, <4>1, PlanNodes
    <3>. QED
      BY <1>1, <2>1, <2>3, <3>1, RaisedAdmissible
  <2>. QED
    BY <2>4 DEF LowerBoundAdmissible
<1>4. CASE Exhaust
  <2>1. /\ GetF(dir) = MaxInt /\ images = {}
        /\ lowerBound' = LowerBoundAfter(MaxInt, solution)
    <3>1. FrontierEmpty(frontier[dir]) /\ open[dir] = {} /\ pc = "pop"
      BY <1>4 DEF Exhaust
    <3>2. frontier[dir] \in FrontierType /\ open[dir] \in SUBSET (Nat \X BDD)
      BY <1>1, StructureTypes, StateTypes
    <3>. QED
      BY <1>4, <3>1, <3>2, MinNextGBounds DEF Exhaust, GetF, StructureInv, Phases
  <2>2. NoBetterPlan
    BY <1>1, <2>1, NextGBoundsTask DEF PlanInv
  <2>3. ASSUME NEW p \in Plans
        PROVE  lowerBound' <= PlanCost(p)
    <3>1. PlanCost(p) < UpperOf(solution) => MaxInt <= PlanCost(p)
      <4>1. UpperBound <= PlanCost(p) \/ GetF(dir) <= PlanCost(p)
        BY <1>1, <2>2 DEF NoBetterPlan
      <4>2. UpperBound = UpperOf(solution) /\ UpperBound \in Nat /\ PlanCost(p) \in Nat
        BY <1>1, UpperOfSolution, PlanNodes DEF UpperBound
      <4>. QED
        BY <2>1, <4>1, <4>2
    <3>. QED
      BY <1>1, <2>1, <3>1, RaisedAdmissible
  <2>. QED
    BY <2>3 DEF LowerBoundAdmissible
<1>5. CASE Finish /\ Directions = {"fw", "bw"}
  <2>1. pc = "finish" /\ lowerBound' = LowerBoundAfter(BidirectionalF, solution)
    BY <1>5 DEF Finish
  <2>2. BidirectionalF \in 0 .. MaxInt
    BY <1>5, StructureTypes, BidirectionalFRange
  <2>3. ASSUME NEW p \in Plans
        PROVE  lowerBound' <= PlanCost(p)
    <3>1. PlanCost(p) < UpperOf(solution) => BidirectionalF <= PlanCost(p)
      BY <1>5, <2>1, BidirectionalFAdmissible DEF UpperBound
    <3>. QED
      BY <1>1, <2>1, <2>2, <3>1, RaisedAdmissible
  <2>. QED
    BY <2>3 DEF LowerBoundAdmissible
<1>6. CASE (\E d \in Directions : Step(d)) \/ PrepareNext
  BY <1>2, <1>6, PrepareEffect
<1>7. CASE ExpandZero \/ ExpandCost
  BY <1>2, <1>7, ExpandEffect
<1>8. CASE Insert
  BY <1>2, <1>8, InsertEffect
<1>9. CASE ExpandTruncated \/ InsertDone \/ UNCHANGED vars
  BY <1>2, <1>9 DEF ExpandTruncated, InsertDone, vars, controller
<1>10. CASE Finish /\ Directions # {"fw", "bw"}
  BY <1>2, <1>10 DEF Finish
<1>. QED
  BY <1>3, <1>4, <1>5, <1>6, <1>7, <1>8, <1>9, <1>10 DEF Next, Terminated

\* Only the end of SymbolicSearch::step gives a verdict.
LEMMA VerdictStep ==
    ASSUME StructureInv, StructureInv', VerdictWhenBoundsMeet, [Next]_vars
    PROVE  VerdictWhenBoundsMeet'
<1>1. TypeInv' /\ lowerBound' \in Nat /\ UpperBound \in Nat
  BY StructureTypes, StateTypes DEF StructureInv, TypeInv, TypeOK
<1>2. CASE status = "IN_PROGRESS" /\ UNCHANGED status
  BY <1>2 DEF VerdictWhenBoundsMeet
<1>3. CASE ExpandTruncated \/ InsertDone \/ Finish \/ UNCHANGED vars
  <2>1. /\ UpperBound' = UpperBound /\ UNCHANGED solution
        /\ \/ UNCHANGED <<status, lowerBound>>
           \/ status' = Verdict(lowerBound') \/ status' = "TIMEOUT"
    BY <1>3, QuietEffect
  <2>2. IsSolved(solution') <=> IsSolved(solution)
    BY <2>1 DEF IsSolved
  <2>3. CASE status' = Verdict(lowerBound')
    BY <1>1, <2>1, <2>2, <2>3 DEF Verdict, VerdictWhenBoundsMeet
  <2>. QED
    BY <2>1, <2>2, <2>3 DEF VerdictWhenBoundsMeet
<1>4. CASE (\E d \in Directions : Step(d)) \/ PrepareNext
  BY <1>2, <1>4, PrepareEffect
<1>5. CASE ExpandZero \/ ExpandCost
  BY <1>2, <1>5, ExpandEffect
<1>6. CASE Insert
  BY <1>2, <1>6, InsertEffect
<1>7. CASE Pop
  BY <1>1, <1>2, <1>7, PopEffect
<1>8. CASE Exhaust
  BY <1>2, <1>8 DEF Exhaust, StructureInv, Phases, TypeOK
<1>. QED
  BY <1>3, <1>4, <1>5, <1>6, <1>7, <1>8 DEF Next, Terminated

\* The inductive invariant of a symbolic search in any direction holds in every state.
THEOREM BidirectionalInvariantHolds ==
    ASSUME EvenTask
    PROVE  Spec => []BidirectionalInv
<1>1. EvenCosts
  BY DEF EvenTask
<1>2. Init => VerdictWhenBoundsMeet /\ LowerBoundAdmissible
  <2>. SUFFICES ASSUME Init PROVE VerdictWhenBoundsMeet /\ LowerBoundAdmissible
    OBVIOUS
  <2>1. status = "IN_PROGRESS" /\ lowerBound = AbsMinTransitionCost
    BY InitEffect
  <2>2. ASSUME NEW p \in Plans
        PROVE  AbsMinTransitionCost <= PlanCost(p)
    <3>1. /\ "fw" \in {"fw", "bw"} /\ p.len \in Nat
          /\ NodeAt("fw", p, p.len) = InitState /\ NodeAt("fw", p, 0) \in Goal
          /\ CostAt("fw", p, p.len) = 0 /\ CostAt("fw", p, 0) = PlanCost(p)
      BY PlanNodes DEF Source, Opposite
    <3>2. 1 \in 1 .. p.len /\ 1 \in 0 .. p.len
      BY <3>1 DEF EvenTask
    <3>3. PICK c \in Costs : CostAt("fw", p, 1 - 1) = CostAt("fw", p, 1) + c
      BY <3>1, <3>2, PlanNodes
    <3>4. 0 <= CostAt("fw", p, 1) /\ CostAt("fw", p, 1) \in Int /\ c \in Nat
      BY <3>1, <3>2, CostsRise, PlanNodes, ConstantTypes
    <3>. QED
      BY <3>1, <3>3, <3>4, AbsMinBounds
  <2>. QED
    BY <2>1, <2>2 DEF VerdictWhenBoundsMeet, LowerBoundAdmissible
<1>3. /\ StructureInv /\ StructureInv' /\ PlanInv /\ PlanInv' /\ NoCrossing /\ EvenLayers
      /\ (MutexType # "and" => ReadyInv)
      /\ VerdictWhenBoundsMeet /\ LowerBoundAdmissible
      /\ [Next]_vars
      => VerdictWhenBoundsMeet' /\ LowerBoundAdmissible'
  BY LowerBoundStep, VerdictStep
<1>4. Spec => []EvenLayers
  BY <1>1, EvenLayersHold
<1>5. /\ StructureInv /\ PlanInv /\ NoCrossing /\ EvenLayers
      /\ (MutexType # "and" => ReadyInv)
      /\ VerdictWhenBoundsMeet /\ LowerBoundAdmissible
      => BidirectionalInv
  BY DEF BidirectionalInv
<1>. QED
  BY <1>2, <1>3, <1>4, <1>5, StructureHolds, PlansAreKept, SearchesMeet, BucketsReady, PTL DEF Spec

\* The lower bound of the bidirectional search never exceeds the cost of a plan.
THEOREM BidirectionalLowerBoundIsAdmissible ==
    ASSUME EvenTask
    PROVE  Spec => []LowerBoundAdmissible
<1>1. BidirectionalInv => LowerBoundAdmissible
  BY DEF BidirectionalInv
<1>. QED
  BY <1>1, BidirectionalInvariantHolds, PTL

\* The bidirectional search reports a task solved with the cost of a cheapest plan, and
\* failed only when it has no plan.
THEOREM BidirectionalSolutionIsOptimal ==
    ASSUME EvenTask
    PROVE  Spec => []OptimalResult
<1>1. BidirectionalInv => OptimalResult
  <2>1. BidirectionalInv => TypeOK /\ VerdictWhenBoundsMeet /\ LowerBoundAdmissible
    BY DEF BidirectionalInv, StructureInv
  <2>. QED
    BY <2>1, VerdictIsOptimal
<1>. QED
  BY <1>1, BidirectionalInvariantHolds, PTL

-----------------------------------------------------------------------------
(* The symbolic search is an anytime planner.                              *)

\* The path to a source has no transition.
LEMMA PathToSource ==
    ASSUME NEW d, NEW s \in Source(d)
    PROVE  PathTo(d, 0, s)
<1>. DEFINE state == [i \in 0 .. 0 |-> s]
            cost  == [i \in 0 .. 0 |-> 0]
<1>1. s \in States
  BY ConstantTypes DEF BDD
<1>2. state \in [0 .. 0 -> States] /\ cost \in [0 .. 0 -> Nat]
  BY <1>1
<1>3. Path(d, 0, state, cost) /\ state[0] = s /\ cost[0] = 0
  BY DEF Path
<1>. QED
  BY <1>2, <1>3 DEF PathTo

\* One transition makes it longer.
LEMMA PathExtended ==
    ASSUME NEW d, NEW g \in Nat, NEW s, PathTo(d, g, s),
           NEW c \in Costs, NEW t \in States, Leads(d, s, c, t)
    PROVE  PathTo(d, g + c, t)
<1>1. PICK n \in Nat : \E state \in [0 .. n -> States], cost \in [0 .. n -> Nat] :
         Path(d, n, state, cost) /\ state[n] = s /\ cost[n] = g
  BY DEF PathTo
<1>2. PICK state \in [0 .. n -> States], cost \in [0 .. n -> Nat] :
         Path(d, n, state, cost) /\ state[n] = s /\ cost[n] = g
  BY <1>1
<1>. DEFINE longer == [i \in 0 .. n + 1 |-> IF i = n + 1 THEN t ELSE state[i]]
            dearer == [i \in 0 .. n + 1 |-> IF i = n + 1 THEN g + c ELSE cost[i]]
<1>3. c \in Nat /\ n + 1 \in Nat
  BY ConstantTypes
<1>4. \A i \in 0 .. n + 1 : i # n + 1 => i \in 0 .. n
  OBVIOUS
<1>5. longer \in [0 .. n + 1 -> States] /\ dearer \in [0 .. n + 1 -> Nat]
  BY <1>2, <1>3, <1>4
<1>6. /\ longer[n + 1] = t /\ dearer[n + 1] = g + c
      /\ \A i \in 0 .. n : longer[i] = state[i] /\ dearer[i] = cost[i]
  BY <1>3
<1>. HIDE DEF longer, dearer
<1>7. ASSUME NEW i \in 0 .. (n + 1) - 1
      PROVE  \E e \in Costs : /\ dearer[i + 1] = dearer[i] + e
                              /\ Leads(d, longer[i], e, longer[i + 1])
  <2>1. i \in 0 .. n
    OBVIOUS
  <2>2. CASE i = n
    <3>1. longer[i] = s /\ dearer[i] = g /\ longer[i + 1] = t /\ dearer[i + 1] = g + c
      BY <1>2, <1>6, <2>1, <2>2
    <3>. QED
      BY <3>1
  <2>3. CASE i # n
    <3>1. i \in 0 .. n - 1 /\ i + 1 \in 0 .. n
      BY <2>1, <2>3
    <3>2. PICK e \in Costs : cost[i + 1] = cost[i] + e /\ Leads(d, state[i], e, state[i + 1])
      BY <1>2, <3>1 DEF Path
    <3>3. /\ longer[i] = state[i] /\ dearer[i] = cost[i]
          /\ longer[i + 1] = state[i + 1] /\ dearer[i + 1] = cost[i + 1]
      BY <1>6, <2>1, <3>1
    <3>. QED
      BY <3>2, <3>3
  <2>. QED
    BY <2>2, <2>3
<1>8. ASSUME NEW i \in 0 .. n + 1
      PROVE  dearer[i] <= dearer[n + 1]
  <2>1. CASE i = n + 1
    BY <1>3, <1>6, <2>1
  <2>2. CASE i \in 0 .. n
    <3>1. dearer[i] = cost[i] /\ cost[i] <= g /\ cost[i] \in Nat
      BY <1>2, <1>6, <2>2 DEF Path
    <3>. QED
      BY <1>3, <1>6, <3>1
  <2>. QED
    BY <1>4, <2>1, <2>2
<1>9. longer[0] \in Source(d) /\ dearer[0] = 0
  <2>1. 0 \in 0 .. n
    OBVIOUS
  <2>. QED
    BY <1>2, <1>6, <2>1 DEF Path
<1>10. Path(d, n + 1, longer, dearer)
  BY <1>7, <1>8, <1>9 DEF Path
<1>. QED
  BY <1>3, <1>5, <1>6, <1>10 DEF PathTo

\* What can be reconstructed has a path.
LEMMA PathReconstructed ==
    ASSUME TypeInv, PathInv, NEW d \in Directions, NEW g \in Nat, NEW s \in States,
           Reconstructable(d, g, s)
    PROVE  PathTo(d, g, s)
<1>1. CASE g = 0 /\ s \in Source(d)
  BY <1>1, PathToSource
<1>2. CASE ~ (g = 0 /\ s \in Source(d))
  <2>1. PICK entry \in closed[d], c \in Costs : g = entry[1] + c /\ Leads(d, entry[2], c, s)
    BY <1>2 DEF Reconstructable
  <2>2. entry[1] \in Nat /\ PathTo(d, entry[1], entry[2])
    BY StateTypes DEF PathInv
  <2>. QED
    BY <2>1, <2>2, PathExtended
<1>. QED
  BY <1>1, <1>2

\* Two paths that meet make a plan.
LEMMA PathsMeet ==
    ASSUME NEW g \in Nat, NEW h \in Nat, NEW s,
           PathTo("fw", g, s), PathTo("bw", h, s)
    PROVE  \E n \in Nat : \E p \in [len : {n}, state : [0 .. n -> States], g : [0 .. n -> Nat]] :
              IsPlan(p) /\ PlanCost(p) = g + h
<1>1. PICK n \in Nat : \E state \in [0 .. n -> States], cost \in [0 .. n -> Nat] :
         Path("fw", n, state, cost) /\ state[n] = s /\ cost[n] = g
  BY DEF PathTo
<1>2. PICK state \in [0 .. n -> States], cost \in [0 .. n -> Nat] :
         Path("fw", n, state, cost) /\ state[n] = s /\ cost[n] = g
  BY <1>1
<1>3. PICK m \in Nat : \E back \in [0 .. m -> States], rest \in [0 .. m -> Nat] :
         Path("bw", m, back, rest) /\ back[m] = s /\ rest[m] = h
  BY DEF PathTo
<1>4. PICK back \in [0 .. m -> States], rest \in [0 .. m -> Nat] :
         Path("bw", m, back, rest) /\ back[m] = s /\ rest[m] = h
  BY <1>3
<1>. DEFINE len    == n + m
            states == [i \in 0 .. len |-> IF i <= n THEN state[i] ELSE back[len - i]]
            costs  == [i \in 0 .. len |-> IF i <= n THEN cost[i] ELSE g + h - rest[len - i]]
            p      == [len |-> len, state |-> states, g |-> costs]
<1>5. /\ \A i \in 0 .. n : state[i] \in States /\ cost[i] \in Nat
      /\ \A i \in 0 .. m : back[i] \in States /\ rest[i] \in Nat /\ rest[i] <= h
  BY <1>2, <1>4 DEF Path
<1>6. /\ len \in Nat /\ n <= len
      /\ \A i \in 0 .. len : IF i <= n THEN i \in 0 .. n ELSE len - i \in 0 .. m
  OBVIOUS
<1>7. /\ \A i \in 0 .. n : i \in 0 .. len /\ states[i] = state[i] /\ costs[i] = cost[i]
      /\ \A i \in 0 .. m : /\ len - i \in 0 .. len
                           /\ states[len - i] = back[i] /\ costs[len - i] = g + h - rest[i]
  <2>1. \A i \in 0 .. n : i \in 0 .. len /\ states[i] = state[i] /\ costs[i] = cost[i]
    BY <1>6
  <2>2. ASSUME NEW i \in 0 .. m
        PROVE  len - i \in 0 .. len /\ states[len - i] = back[i] /\ costs[len - i] = g + h - rest[i]
    <3>1. len - i \in 0 .. len /\ len - (len - i) = i /\ (len - i <= n <=> i = m) /\ len - m = n
      BY <1>6
    <3>2. CASE i = m
      <4>1. states[len - i] = state[n] /\ costs[len - i] = cost[n]
        BY <3>1, <3>2
      <4>. QED
        BY <1>2, <1>4, <3>1, <3>2, <4>1
    <3>3. CASE i # m
      BY <3>1, <3>3
    <3>. QED
      BY <3>2, <3>3
  <2>. QED
    BY <2>1, <2>2
<1>8. states \in [0 .. len -> States] /\ costs \in [0 .. len -> Nat]
  <2>1. \A i \in 0 .. len : /\ (IF i <= n THEN state[i] ELSE back[len - i]) \in States
                            /\ (IF i <= n THEN cost[i] ELSE g + h - rest[len - i]) \in Nat
    BY <1>5, <1>6
  <2>. QED
    BY <2>1
<1>. HIDE DEF states, costs
<1>9. states[0] = InitState /\ costs[0] = 0
  <2>1. 0 \in 0 .. n
    OBVIOUS
  <2>. QED
    BY <1>2, <1>7, <2>1 DEF Path, Source
<1>10. states[len] \in Goal /\ costs[len] = g + h
  <2>1. 0 \in 0 .. m /\ len - 0 = len
    BY <1>6
  <2>2. back[0] \in Goal /\ rest[0] = 0
    BY <1>4 DEF Path, Source
  <2>3. states[len - 0] = back[0] /\ costs[len - 0] = g + h - rest[0]
    BY <1>7, <2>1
  <2>. QED
    BY <2>1, <2>2, <2>3
<1>11. ASSUME NEW i \in 0 .. len - 1
       PROVE  \E c \in Costs : costs[i + 1] = costs[i] + c /\ Transition(states[i], c, states[i + 1])
  <2>1. CASE i < n
    <3>1. i \in 0 .. n - 1 /\ i \in 0 .. n /\ i + 1 \in 0 .. n
      BY <1>6, <2>1
    <3>2. PICK c \in Costs : cost[i + 1] = cost[i] + c /\ Leads("fw", state[i], c, state[i + 1])
      BY <1>2, <3>1 DEF Path
    <3>. QED
      BY <1>7, <3>1, <3>2 DEF Leads
  <2>2. CASE n <= i
    <3>. DEFINE k == len - (i + 1)
    <3>1. k \in 0 .. m - 1 /\ k \in 0 .. m /\ k + 1 \in 0 .. m /\ i = len - (k + 1) /\ i + 1 = len - k
      BY <1>6, <2>2
    <3>. HIDE DEF k
    <3>2. PICK c \in Costs : rest[k + 1] = rest[k] + c /\ Leads("bw", back[k], c, back[k + 1])
      BY <1>4, <3>1 DEF Path
    <3>3. /\ states[i] = back[k + 1] /\ costs[i] = g + h - rest[k + 1]
          /\ states[i + 1] = back[k] /\ costs[i + 1] = g + h - rest[k]
      BY <1>7, <3>1
    <3>4. c \in Nat /\ rest[k] \in Nat /\ rest[k + 1] \in Nat
      BY <1>5, <3>1, ConstantTypes
    <3>5. costs[i + 1] = costs[i] + c
      <4>1. \A a \in Nat : g + h - a = (g + h - (a + c)) + c
        BY <3>4
      <4>2. g + h - rest[k] = (g + h - (rest[k] + c)) + c
        BY <3>4, <4>1
      <4>. QED
        BY <3>2, <3>3, <4>2
    <3>6. Transition(back[k + 1], c, back[k])
      BY <3>2 DEF Leads
    <3>7. Transition(states[i], c, states[i + 1])
      BY <3>3, <3>6
    <3>. QED
      BY <3>5, <3>7
  <2>. QED
    BY <2>1, <2>2, <1>6
<1>12. IsPlan(p) /\ PlanCost(p) = g + h
  BY <1>6, <1>8, <1>9, <1>10, <1>11 DEF IsPlan, PlanCost
<1>13. p \in [len : {len}, state : [0 .. len -> States], g : [0 .. len -> Nat]]
  BY <1>6, <1>8
<1>. QED
  BY <1>6, <1>12, <1>13

\* The halves of a new solution have paths, to the state where the two searches meet or to
\* the other end.
LEMMA CutHasPaths ==
    ASSUME StructureInv, PathInv, NEW g \in Nat, g <= MaxG, NEW bdds \in Bucket,
           solution' \in SolutionsAfterCut(dir, g, bdds),
           \A s \in UNION bdds : Reconstructable(dir, g, s),
           IsSolved(solution')
    PROVE  /\ UpperBound' < MaxInt
           /\ \E s \in States : PathTo("fw", solution'.g, s) /\ PathTo("bw", solution'.h, s)
<1>1. /\ TypeInv /\ dir \in Directions /\ dir \in {"fw", "bw"} /\ Opposite(dir) \in {"fw", "bw"}
      /\ MaxG \in Nat /\ MaxInt \in Nat
  BY StructureTypes, StateTypes, ConstantTypes DEF Opposite
<1>2. CASE solution' = solution
  <2>1. UpperBound' = UpperBound /\ IsSolved(solution)
    BY <1>2 DEF UpperBound, UpperOf, IsSolved
  <2>. QED
    BY <1>2, <2>1 DEF PathInv
<1>3. CASE solution' # solution
  <2>1. PICK h, cut : /\ solution' = SymSolution(dir, g, h, cut)
                      /\ cut # {}
                      /\ \A s \in cut : s \in UNION bdds /\ <<h, s>> \in OppositeClosed(dir)
    BY <1>3, CutOfNewSolution
  <2>2. PICK s \in cut : s \in UNION bdds /\ <<h, s>> \in OppositeClosed(dir)
    BY <2>1
  <2>3. h \in Nat /\ h <= MaxG /\ s \in States
    BY <1>1, <2>2, OppositeClosedBounds
  <2>4. PathTo(dir, g, s)
    BY <1>1, <2>2, <2>3, PathReconstructed
  <2>5. PathTo(Opposite(dir), h, s)
    <3>1. CASE Opposite(dir) \in Directions
      BY <2>2, <3>1 DEF OppositeClosed, PathInv
    <3>2. CASE Opposite(dir) \notin Directions
      <4>1. h = 0 /\ s \in Source(Opposite(dir))
        BY <2>2, <3>2 DEF OppositeClosed
      <4>. QED
        BY <4>1, PathToSource
    <3>. QED
      BY <3>1, <3>2
  <2>6. PathTo("fw", solution'.g, s) /\ PathTo("bw", solution'.h, s)
    <3>1. CASE dir = "fw"
      BY <2>1, <2>4, <2>5, <3>1 DEF SymSolution, Opposite
    <3>2. CASE dir = "bw"
      BY <2>1, <2>4, <2>5, <3>2 DEF SymSolution, Opposite
    <3>. QED
      BY <1>1, <3>1, <3>2
  <2>7. UpperBound' = g + h
    <3>1. solution'.g + solution'.h = g + h
      BY <1>1, <2>1, <2>3 DEF SymSolution
    <3>. QED
      BY <3>1 DEF UpperBound, UpperOf, IsSolved
  <2>8. MaxG + MaxG + 1 <= MaxInt
    BY BoundAssumption
  <2>. QED
    BY <1>1, <2>3, <2>6, <2>7, <2>8
<1>. QED
  BY <1>2, <1>3

\* What is popped and closed has a path.
LEMMA PathStep ==
    ASSUME StructureInv, StructureInv', PathInv, [Next]_vars
    PROVE  PathInv'
<1>1. TypeInv /\ TypeInv' /\ dir \in Directions
  BY StructureTypes, StateTypes DEF StructureInv, TypeInv
<1>2. CASE UNCHANGED <<closed, solution>>
  <2>1. UpperBound' = UpperBound /\ (IsSolved(solution') <=> IsSolved(solution))
    BY <1>2 DEF UpperBound, UpperOf, IsSolved
  <2>. QED
    BY <1>2, <2>1 DEF PathInv
<1>3. CASE Insert
  <2>1. UNCHANGED closed
    BY <1>3, InsertEffect
  <2>2. PICK image \in images, merged \in Bucket :
           UNION merged = UNION image[2] /\ solution' \in SolutionsAfterCut(dir, image[1], merged)
    BY <1>3, InsertEffect
  <2>3. image[1] \in Nat /\ image[1] <= MaxG
    BY <1>1, StateTypes
  <2>4. \A s \in UNION merged : Reconstructable(dir, image[1], s)
    BY <2>2 DEF StructureInv, PathsReconstructable
  <2>5. IsSolved(solution') =>
           /\ UpperBound' < MaxInt
           /\ \E s \in States : PathTo("fw", solution'.g, s) /\ PathTo("bw", solution'.h, s)
    BY <2>2, <2>3, <2>4, CutHasPaths
  <2>. QED
    BY <2>1, <2>5 DEF PathInv
<1>4. CASE Pop
  <2>1. PICK g \in Nat, popped \in Bucket, bucket \in Bucket : LayerPopped(g, popped, bucket)
    BY <1>1, <1>4, PopEffect
  <2>2. /\ g <= MaxG /\ solution' \in SolutionsAfterCut(dir, g, popped)
        /\ UNION bucket \subseteq UNION popped
        /\ UNION popped \subseteq States
    BY <2>1 DEF LayerPopped, Bucket, BDD
  <2>3. \A s \in UNION popped : Reconstructable(dir, g, s)
    BY <1>1, <2>1 DEF LayerPopped, StructureInv, PathsReconstructable
  <2>4. IsSolved(solution') =>
           /\ UpperBound' < MaxInt
           /\ \E s \in States : PathTo("fw", solution'.g, s) /\ PathTo("bw", solution'.h, s)
    BY <2>2, <2>3, CutHasPaths
  <2>5. closed \in [Directions -> SUBSET (Nat \X States)]
    BY <1>1, StateTypes
  <2>6. ASSUME NEW d \in Directions, NEW entry \in closed'[d]
        PROVE  PathTo(d, entry[1], entry[2])
    <3>1. CASE entry \in closed[d]
      BY <3>1 DEF PathInv
    <3>2. CASE entry \notin closed[d]
      <4>1. d = dir /\ entry[1] = g /\ entry[2] \in UNION bucket
        BY <2>1, <2>5, <3>2 DEF LayerPopped
      <4>2. entry[2] \in States /\ Reconstructable(dir, g, entry[2])
        BY <2>2, <2>3, <4>1
      <4>. QED
        BY <1>1, <4>1, <4>2, PathReconstructed
    <3>. QED
      BY <3>1, <3>2
  <2>. QED
    BY <2>4, <2>6 DEF PathInv
<1>5. CASE (\E d \in Directions : Step(d)) \/ PrepareNext
  BY <1>2, <1>5, PrepareEffect
<1>6. CASE ExpandZero \/ ExpandCost
  BY <1>2, <1>6, ExpandEffect
<1>7. CASE Exhaust
  BY <1>2, <1>7 DEF Exhaust
<1>8. CASE ExpandTruncated \/ InsertDone \/ Finish \/ UNCHANGED vars
  BY <1>2, <1>8, QuietEffect
<1>. QED
  BY <1>3, <1>4, <1>5, <1>6, <1>7, <1>8 DEF Next, Terminated

\* What a search has closed it has reached, at its g-value, and every solution it finds is
\* made of two paths that meet.
THEOREM SolutionsHavePaths == Spec => []PathInv
<1>1. Init => PathInv
  <2>. SUFFICES ASSUME Init PROVE PathInv
    OBVIOUS
  <2>1. ~ IsSolved(solution) /\ \A d \in Directions : closed[d] = {0} \X Source(d)
    BY InitEffect
  <2>2. ASSUME NEW d \in Directions, NEW entry \in closed[d]
        PROVE  PathTo(d, entry[1], entry[2])
    <3>1. entry[1] = 0 /\ entry[2] \in Source(d)
      BY <2>1, <2>2
    <3>. QED
      BY <3>1, PathToSource
  <2>. QED
    BY <2>1, <2>2 DEF PathInv
<1>2. StructureInv /\ StructureInv' /\ PathInv /\ [Next]_vars => PathInv'
  BY PathStep
<1>. QED
  BY <1>1, <1>2, StructureHolds, PTL DEF Spec

\* Some plan attains the upper bound.
LEMMA UpperBoundAttained ==
    AllPlans /\ TypeOK /\ PathInv =>
       UpperBound = MaxInt \/ UpperBound \in {PlanCost(p) : p \in Plans}
<1>. SUFFICES ASSUME AllPlans, TypeOK, PathInv, IsSolved(solution)
              PROVE  \E p \in Plans : UpperBound = PlanCost(p)
  BY DEF UpperBound, UpperOf
<1>1. /\ solution.g \in Nat /\ solution.h \in Nat
      /\ UpperBound = solution.g + solution.h
      /\ UpperBound < MaxInt
  BY UpperOfSolution DEF TypeOK, UpperBound, PathInv
<1>2. PICK s \in States : PathTo("fw", solution.g, s) /\ PathTo("bw", solution.h, s)
  BY DEF PathInv
<1>3. PICK n \in Nat : \E p \in [len : {n}, state : [0 .. n -> States], g : [0 .. n -> Nat]] :
         IsPlan(p) /\ PlanCost(p) = solution.g + solution.h
  BY <1>1, <1>2, PathsMeet
<1>4. PICK p \in [len : {n}, state : [0 .. n -> States], g : [0 .. n -> Nat]] :
         IsPlan(p) /\ PlanCost(p) = solution.g + solution.h
  BY <1>3
<1>5. p \in Plans
  BY <1>1, <1>4 DEF AllPlans
<1>. QED
  BY <1>1, <1>4, <1>5

\* What a step does to the bounds, and to the verdict.
LEMMA BoundsTighten ==
    ASSUME StructureInv, StructureInv', [Next]_vars
    PROVE  /\ lowerBound' >= lowerBound /\ UpperBound' <= UpperBound
           /\ \/ UNCHANGED <<lowerBound, UpperBound, status>>
              \/ status = "IN_PROGRESS" /\ UNCHANGED status
              \/ /\ status = "IN_PROGRESS" /\ UNCHANGED solution
                 /\ status' = Verdict(lowerBound') \/ status' = "TIMEOUT"
<1>1. /\ TypeInv' /\ lowerBound \in 0 .. MaxInt /\ UpperBound \in Nat /\ MaxInt \in Nat
      /\ solution \in SolutionType /\ solution' \in SolutionType
  BY StructureTypes, StateTypes, ConstantTypes DEF StructureInv, TypeInv, TypeOK
<1>2. CASE Pop
  <2>1. /\ status = "IN_PROGRESS" /\ UNCHANGED status
        /\ UpperBound' <= UpperBound
        /\ GetF(dir)' \in 0 .. MaxInt
        /\ lowerBound' = LowerBoundAfter(GetF(dir)', solution')
    BY <1>1, <1>2, PopEffect
  <2>. QED
    BY <1>1, <2>1, LowerBoundRises
<1>3. CASE Exhaust
  <2>1. /\ UNCHANGED <<solution, status>> /\ pc = "pop"
        /\ lowerBound' = LowerBoundAfter(MaxInt, solution)
    BY <1>3 DEF Exhaust
  <2>2. status = "IN_PROGRESS"
    BY <2>1 DEF StructureInv, Phases
  <2>3. UpperBound' = UpperBound
    BY <2>1 DEF UpperBound, UpperOf, IsSolved
  <2>4. MaxInt \in 0 .. MaxInt
    BY <1>1
  <2>. QED
    BY <1>1, <2>1, <2>2, <2>3, <2>4, LowerBoundRises
<1>4. CASE (\E d \in Directions : Step(d)) \/ PrepareNext
  BY <1>1, <1>4, PrepareEffect
<1>5. CASE ExpandZero \/ ExpandCost
  BY <1>1, <1>5, ExpandEffect
<1>6. CASE Insert
  BY <1>1, <1>6, InsertEffect
<1>7. CASE ExpandTruncated \/ InsertDone \/ Finish \/ UNCHANGED vars
  <2>1. /\ UpperBound' = UpperBound /\ UNCHANGED solution
        /\ lowerBound' \in Int /\ lowerBound <= lowerBound'
        /\ Finish => status = "IN_PROGRESS" /\ (status' = Verdict(lowerBound') \/ status' = "TIMEOUT")
        /\ ~ Finish => UNCHANGED <<status, lowerBound>>
    BY <1>7, QuietEffect
  <2>. QED
    BY <1>1, <2>1
<1>. QED
  BY <1>2, <1>3, <1>4, <1>5, <1>6, <1>7 DEF Next, Terminated

\* A step of the search is a step of the planner, or none.
LEMMA PlannerStep ==
    ASSUME AllPlans,
           StructureInv, StructureInv', PathInv', LowerBoundAdmissible', [Next]_vars
    PROVE  [Planner!Search \/ Planner!Stop \/ Planner!TimeOut]_(Planner!bounds)
<1>1. /\ lowerBound' >= lowerBound /\ UpperBound' <= UpperBound
      /\ \/ UNCHANGED <<lowerBound, UpperBound, status>>
         \/ status = "IN_PROGRESS" /\ UNCHANGED status
         \/ /\ status = "IN_PROGRESS" /\ UNCHANGED solution
            /\ status' = Verdict(lowerBound') \/ status' = "TIMEOUT"
  BY BoundsTighten
<1>2. /\ lowerBound' \in Nat /\ UpperBound \in Nat /\ UpperBound' \in Nat /\ MaxInt \in Nat
      /\ solution \in SolutionType
  BY StructureTypes, StateTypes, ConstantTypes, UpperOfSolution
     DEF StructureInv, TypeOK, UpperBound
<1>3. Planner!Tighten
  <2>1. \A cost \in {PlanCost(p) : p \in Plans} : lowerBound' <= cost
    BY DEF LowerBoundAdmissible
  <2>2. (AllPlans /\ TypeOK /\ PathInv =>
            UpperBound = MaxInt \/ UpperBound \in {PlanCost(p) : p \in Plans})'
    BY UpperBoundAttained, PTL
  <2>3. UpperBound' = MaxInt \/ UpperBound' \in {PlanCost(p) : p \in Plans}
    BY <2>2 DEF StructureInv, AllPlans, PlanCost, IsPlan, Transition
  <2>. QED
    BY <1>1, <2>1, <2>3 DEF Planner!Tighten, Planner!Sound
<1>4. CASE UNCHANGED <<lowerBound, UpperBound, status>>
  BY <1>4 DEF Planner!bounds
<1>5. CASE status = "IN_PROGRESS" /\ UNCHANGED status
  BY <1>3, <1>5 DEF Planner!Search
<1>6. CASE status = "IN_PROGRESS" /\ status' = "TIMEOUT"
  BY <1>3, <1>6 DEF Planner!TimeOut
<1>7. CASE status = "IN_PROGRESS" /\ UNCHANGED solution /\ status' = Verdict(lowerBound')
  <2>1. UpperBound' = UpperBound
    BY <1>7 DEF UpperBound, UpperOf, IsSolved
  <2>2. IsSolved(solution) <=> UpperBound' # MaxInt
    <3>1. IsSolved(solution') => UpperBound' < MaxInt
      BY DEF PathInv
    <3>. QED
      BY <1>2, <1>7, <2>1, <3>1, UpperOfSolution DEF UpperBound, IsSolved
  <2>3. CASE lowerBound' < UpperBound
    BY <1>5, <1>7, <2>3 DEF Verdict
  <2>4. CASE ~ (lowerBound' < UpperBound)
    BY <1>2, <1>3, <1>7, <2>1, <2>2, <2>4 DEF Verdict, Planner!Stop
  <2>. QED
    BY <2>3, <2>4
<1>. QED
  BY <1>1, <1>4, <1>5, <1>6, <1>7

\* The symbolic search closes in on the cost of an optimal plan from both sides, and stops
\* when the bounds have met.
THEOREM ImplementsAnytimePlanner ==
    ASSUME AllPlans, OneDirection \/ EvenTask
    PROVE  Spec => ImplementsPlanner
<1>1. Spec => []LowerBoundAdmissible
  BY LowerBoundIsAdmissible, BidirectionalLowerBoundIsAdmissible
<1>2. Init /\ LowerBoundAdmissible => Planner!Init
  <2>. SUFFICES ASSUME Init, LowerBoundAdmissible PROVE Planner!Init
    OBVIOUS
  <2>1. UpperBound = MaxInt /\ status = "IN_PROGRESS"
    BY InitEffect
  <2>2. \A cost \in {PlanCost(p) : p \in Plans} : lowerBound <= cost
    BY DEF LowerBoundAdmissible
  <2>. QED
    BY <2>1, <2>2 DEF Planner!Init, Planner!Sound
<1>3. /\ StructureInv /\ StructureInv' /\ PathInv' /\ LowerBoundAdmissible'
      /\ [Next]_vars
      => [Planner!Search \/ Planner!Stop \/ Planner!TimeOut]_(Planner!bounds)
  BY PlannerStep
<1>. QED
  BY <1>1, <1>2, <1>3, StructureHolds, SolutionsHavePaths, PTL
     DEF Spec, ImplementsPlanner, Planner!Spec

=============================================================================
