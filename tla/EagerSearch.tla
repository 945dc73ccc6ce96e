----------------------------- MODULE EagerSearch -----------------------------
(***************************************************************************)
(* Eager best-first search: search/search_engines/eager_search.cc with the *)
(* nodes of search_space.cc, the open lists of tiebreaking_open_list.cc    *)
(* (astar) and standard_scalar_open_list.cc (eager_greedy), and a          *)
(* heuristic that is a function of the state or the landmark count, which  *)
(* depends on the paths that reached the state.                            *)
(*                                                                         *)
(* The engine runs with null pruning and no preferred operators.  One call *)
(* of EagerSearch::step is a sequence of actions: the rounds of the loop   *)
(* of fetch_next_node, and one action per applicable operator, in any      *)
(* order (the successor generator fixes one).                              *)
(***************************************************************************)
EXTENDS LandmarkStatus, Sequences

CONSTANTS
    States,
    InitialState,
    Goal,
    Operators,
    Cost,            \* operator -> its real cost
    Transitions,     \* operator -> the pairs <<state, successor>>
    Tables,          \* name -> values of a heuristic that only depends on the state
    LmCount,         \* the name of the landmark count heuristic
    Configurations,  \* records [open, reopen, mpd, costType, heuristic, bound]
    Infinity,        \* EvaluationResult::INFTY, and the bound of a run without one
    NoState,         \* StateID::no_state
    NoOperator

ASSUME EagerAssumption ==
    /\ IsFiniteSet(States)
    /\ InitialState \in States
    /\ Goal \subseteq States
    /\ Cost \in [Operators -> Nat]
    /\ Infinity \in Nat /\ Infinity > 0
    /\ \A name \in DOMAIN Tables : Tables[name] \in [States -> 0 .. Infinity]
    /\ LandmarkCost({}, NoState) <= Infinity     \* the count is an int
    /\ NoState \notin States
    /\ NoOperator \notin Operators
    /\ \A op \in Operators :
          /\ Transitions[op] \subseteq States \X States
          /\ \A x, y \in Transitions[op] : x[1] = y[1] => x = y
    /\ \A c \in Configurations :
          /\ c.open \in {"astar", "single"}
          /\ c.reopen \in BOOLEAN
          /\ c.mpd \in BOOLEAN
          /\ c.costType \in {"NORMAL", "ONE", "PLUSONE"}
          /\ c.heuristic \in DOMAIN Tables \cup {LmCount}
          /\ c.bound \in 0 .. Infinity
          /\ c.open = "astar" => c.reopen     \* _parse_astar
          /\ c.mpd => c.open = "astar"

VARIABLES
    config,    \* the options of the engine
    status,    \* state -> SearchNodeInfo::status
    g,         \* state -> SearchNodeInfo::g
    realG,     \* state -> SearchNodeInfo::real_g
    parent,    \* state -> SearchNodeInfo::parent_state_id
    creator,   \* state -> SearchNodeInfo::creating_operator
    reached,   \* state -> LandmarkStatusManager::reached_lms
    open,      \* the entries of the open list in the order of their insertion
    current,   \* the state that is expanded
    pending,   \* the applicable operators that have not been looked at
    phase,     \* where in the loop of SearchEngine::search the engine is
    plan       \* SearchEngine::plan

node == <<status, g, realG, parent, creator>>
vars == <<config, node, reached, open, current, pending, phase, plan>>

-----------------------------------------------------------------------------

Applicable(s) == {op \in Operators : \E x \in Transitions[op] : x[1] = s}
Successor(s, op) == (CHOOSE x \in Transitions[op] : x[1] = s)[2]

\* get_adjusted_action_cost, and that of the engine.
AdjustedActionCost(op, costType) ==
    IF costType = "NORMAL" THEN Cost[op]
    ELSE IF costType = "ONE" \/ \A o \in Operators : Cost[o] = 1 THEN 1
    ELSE Cost[op] + 1

AdjustedCost(op) == AdjustedActionCost(op, config.costType)

\* The heuristic, given what it knows of the paths to s.  It is cached, and
\* notify_state_transition invalidates what it changes.
Estimate(s, lms) ==
    IF config.heuristic # LmCount THEN Tables[config.heuristic][s]
    ELSE IF s \in Goal THEN 0
    ELSE IF LandmarkDeadEnd(lms, s) THEN Infinity
    ELSE LandmarkCost(lms, s)

Sum(x, y) == IF x = Infinity \/ y = Infinity THEN Infinity ELSE x + y

\* Mutant: h decides and f breaks the ties.
KeySwapped(value, h) == IF config.open = "astar" THEN <<h, Sum(value, h)>> ELSE <<h>>

\* The key of an open list: f and h, or h.
Key(value, h) == IF config.open = "astar" THEN <<Sum(value, h), h>> ELSE <<h>>

Smaller(k1, k2) ==
    \/ k1[1] < k2[1]
    \/ k1[1] = k2[1] /\ Len(k1) = 2 /\ k1[2] < k2[2]

Entry(s, value, lms) ==
    LET h == Estimate(s, lms) IN [key |-> Key(value, h), h |-> h, state |-> s]

\* remove_min: the oldest entry of the bucket with the least key.
First(i) ==
    /\ i \in 1 .. Len(open)
    /\ \A j \in 1 .. Len(open) :
          /\ ~ Smaller(open[j].key, open[i].key)
          /\ j < i => open[j].key # open[i].key

\* Mutant: the whole bucket of the entry is erased.
RemovedBucket(i) == SelectSeq(open, LAMBDA e : e.key # open[i].key)

Removed(i) == [j \in 1 .. Len(open) - 1 |-> IF j < i THEN open[j] ELSE open[j + 1]]

\* notify_state_transition is called for new states and, under mpd, for every transition;
\* it does nothing for one that does not change the state.
Notified(s, t) ==
    IF config.heuristic = LmCount /\ s # t /\ (status[t] = "NEW" \/ config.mpd)
    THEN [reached EXCEPT ![t] = UpdateReached(reached[s], status[t] = "NEW", reached[t], t)]
    ELSE reached

-----------------------------------------------------------------------------

Init ==
    /\ config \in Configurations
    /\ status = [s \in States |-> "NEW"]
    /\ g = [s \in States |-> -1]
    /\ realG = [s \in States |-> -1]
    /\ parent = [s \in States |-> NoState]
    /\ creator = [s \in States |-> NoOperator]
    /\ reached = [s \in States |-> {}]
    /\ open = << >>
    /\ current = NoState
    /\ pending = {}
    /\ phase = "initialize"
    /\ plan = << >>

\* initialize: a dead end is not opened, so that the first step fails.
Initialize ==
    /\ phase = "initialize"
    /\ reached' = [reached EXCEPT ![InitialState] = InitiallyReached(InitialState)]
    /\ phase' = "fetch"
    /\ IF Estimate(InitialState, reached'[InitialState]) = Infinity
       THEN UNCHANGED <<node, open>>
       ELSE /\ status' = [status EXCEPT ![InitialState] = "OPEN"]
            /\ g' = [g EXCEPT ![InitialState] = 0]
            /\ realG' = [realG EXCEPT ![InitialState] = 0]
            /\ open' = << Entry(InitialState, 0, reached'[InitialState]) >>
            /\ UNCHANGED <<parent, creator>>
    /\ UNCHANGED <<config, current, pending, plan>>

-----------------------------------------------------------------------------
(* fetch_next_node.                                                        *)

\* The open list is empty: the step returns FAILED.
Exhausted ==
    /\ phase = "fetch"
    /\ open = << >>
    /\ phase' = "failed"
    /\ UNCHANGED <<config, node, reached, open, current, pending, plan>>

\* A closed state has been expanded with this entry or a better one.
SkipClosed ==
    /\ phase = "fetch"
    /\ \E i \in 1 .. Len(open) :
          /\ First(i)
          /\ status[open[i].state] = "CLOSED"
          /\ open' = Removed(i)
    /\ UNCHANGED <<config, node, reached, current, pending, phase, plan>>

\* Under mpd, states that are dead ends are skipped ...
SkipDeadEnd ==
    /\ phase = "fetch"
    /\ config.mpd
    /\ \E i \in 1 .. Len(open) :
          /\ First(i)
          /\ status[open[i].state] = "DEAD_END"
          /\ open' = Removed(i)
    /\ UNCHANGED <<config, node, reached, current, pending, phase, plan>>

\* ... and become ones when the heuristic has learned so since they were inserted.
BecomeDeadEnd ==
    /\ phase = "fetch"
    /\ config.mpd
    /\ \E i \in 1 .. Len(open) :
          LET s == open[i].state
          IN  /\ First(i)
              /\ status[s] \notin {"CLOSED", "DEAD_END"}
              /\ Estimate(s, reached[s]) = Infinity
              /\ status' = [status EXCEPT ![s] = "DEAD_END"]
              /\ open' = Removed(i)
    /\ UNCHANGED <<config, g, realG, parent, creator, reached, current, pending, phase, plan>>

\* Mutant: an entry whose value has not changed is inserted again, too.
OutdatedOrSame(i) == open[i].h <= Estimate(open[i].state, reached[open[i].state])

\* pushed_h is less than the value by now.
Outdated(i) == open[i].h < Estimate(open[i].state, reached[open[i].state])

InsertAgain ==
    /\ phase = "fetch"
    /\ config.mpd
    /\ \E i \in 1 .. Len(open) :
          LET s == open[i].state
          IN  /\ First(i)
              /\ status[s] \notin {"CLOSED", "DEAD_END"}
              /\ Estimate(s, reached[s]) # Infinity
              /\ Outdated(i)
              /\ open' = Append(Removed(i), Entry(s, g[s], reached[s]))
    /\ UNCHANGED <<config, node, reached, current, pending, phase, plan>>

\* trace_path follows the parents; no path without a cycle is longer than this.
Ancestor(s) ==
    LET up[n \in 0 .. Cardinality(States)] ==
            IF n = 0 THEN s ELSE IF up[n - 1] = NoState THEN NoState ELSE parent[up[n - 1]]
    IN  up

\* Mutant: the creator of the initial state is pushed, too.
TracePathFromRoot(s) ==
    LET up     == Ancestor(s)
        length == CHOOSE n \in 0 .. Cardinality(States) :
                     up[n] # NoState /\ creator[up[n]] = NoOperator
    IN  [i \in 1 .. length + 1 |-> creator[up[length + 1 - i]]]

TracePath(s) ==
    LET up     == Ancestor(s)
        length == CHOOSE n \in 0 .. Cardinality(States) :
                     up[n] # NoState /\ creator[up[n]] = NoOperator
    IN  [i \in 1 .. length |-> creator[up[length - i]]]

\* A node is closed and, unless it is a goal state, expanded.
Expand ==
    /\ phase = "fetch"
    /\ \E i \in 1 .. Len(open) :
          LET s == open[i].state
          IN  /\ First(i)
              /\ status[s] # "CLOSED"
              /\ config.mpd => /\ status[s] # "DEAD_END"
                               /\ Estimate(s, reached[s]) # Infinity
                               /\ ~ Outdated(i)
              /\ status' = [status EXCEPT ![s] = "CLOSED"]
              /\ open' = Removed(i)
              /\ current' = s
              /\ IF s \in Goal
                 THEN phase' = "solved" /\ plan' = TracePath(s) /\ UNCHANGED pending
                 ELSE phase' = "expand" /\ pending' = Applicable(s) /\ UNCHANGED plan
    /\ UNCHANGED <<config, g, realG, parent, creator, reached>>

-----------------------------------------------------------------------------
(* The loop over the applicable operators.                                 *)

\* Mutant: the bound itself is within the bound.
CutoffAbove(op) == realG[current] + Cost[op] > config.bound

\* Mutant: a path that stays below the bound by one is cut off.
CutoffTooEarly(op) == realG[current] + Cost[op] + 1 >= config.bound

Cutoff(op) == realG[current] + Cost[op] >= config.bound

\* Mutant: a path as good as the known one replaces it.
AsGood(op, t) == g[t] >= g[current] + AdjustedCost(op)

Cheaper(op, t) == g[t] > g[current] + AdjustedCost(op)

Look(op) == phase = "expand" /\ op \in pending /\ pending' = pending \ {op}

\* The real cost reaches the bound, or the successor is a dead end already.
SkipOperator(op) ==
    /\ Look(op)
    /\ Cutoff(op) \/ status[Successor(current, op)] = "DEAD_END"
    /\ UNCHANGED <<config, node, reached, open, current, phase, plan>>

\* Mutant: a node that is reached again keeps its parent.
SetPathOnly(t, op) ==
    /\ g' = [g EXCEPT ![t] = g[current] + AdjustedCost(op)]
    /\ realG' = [realG EXCEPT ![t] = realG[current] + Cost[op]]
    /\ parent' = [parent EXCEPT ![t] = IF @ = NoState THEN current ELSE @]
    /\ creator' = [creator EXCEPT ![t] = IF @ = NoOperator THEN op ELSE @]

\* open, reopen and update_parent of a node: all but its status.
SetPath(t, op) ==
    /\ g' = [g EXCEPT ![t] = g[current] + AdjustedCost(op)]
    /\ realG' = [realG EXCEPT ![t] = realG[current] + Cost[op]]
    /\ parent' = [parent EXCEPT ![t] = current]
    /\ creator' = [creator EXCEPT ![t] = op]

\* Mutant: reopening leaves a closed node closed.
Unchanged(t) == status

\* The status after reopen.
Opened(t) == [status EXCEPT ![t] = "OPEN"]

NewDeadEnd(op) ==
    /\ Look(op)
    /\ ~ Cutoff(op)
    /\ LET t == Successor(current, op)
       IN  /\ status[t] = "NEW"
           /\ reached' = Notified(current, t)
           /\ Estimate(t, reached'[t]) = Infinity
           /\ status' = [status EXCEPT ![t] = "DEAD_END"]
    /\ UNCHANGED <<config, g, realG, parent, creator, open, current, phase, plan>>

OpenNew(op) ==
    /\ Look(op)
    /\ ~ Cutoff(op)
    /\ LET t == Successor(current, op)
       IN  /\ status[t] = "NEW"
           /\ reached' = Notified(current, t)
           /\ Estimate(t, reached'[t]) # Infinity
           /\ status' = [status EXCEPT ![t] = "OPEN"]
           /\ SetPath(t, op)
           /\ open' = Append(open, Entry(t, g'[t], reached'[t]))
    /\ UNCHANGED <<config, current, phase, plan>>

\* A cheaper path to an open or closed state.
Reopen(op) ==
    /\ Look(op)
    /\ ~ Cutoff(op)
    /\ config.reopen
    /\ LET t == Successor(current, op)
       IN  /\ status[t] \in {"OPEN", "CLOSED"}
           /\ Cheaper(op, t)
           /\ reached' = Notified(current, t)
           /\ status' = Opened(t)
           /\ SetPath(t, op)
           /\ open' = Append(open, Entry(t, g'[t], reached'[t]))
    /\ UNCHANGED <<config, current, phase, plan>>

\* The same without reopening: only the node changes.
UpdateParent(op) ==
    /\ Look(op)
    /\ ~ Cutoff(op)
    /\ ~ config.reopen
    /\ LET t == Successor(current, op)
       IN  /\ status[t] \in {"OPEN", "CLOSED"}
           /\ Cheaper(op, t)
           /\ SetPath(t, op)
    /\ UNCHANGED <<config, status, reached, open, current, phase, plan>>

NoCheaper(op) ==
    /\ Look(op)
    /\ ~ Cutoff(op)
    /\ LET t == Successor(current, op)
       IN  /\ status[t] \in {"OPEN", "CLOSED"}
           /\ ~ Cheaper(op, t)
           /\ reached' = Notified(current, t)
    /\ UNCHANGED <<config, node, open, current, phase, plan>>

\* step returns IN_PROGRESS and is called again.
StepDone ==
    /\ phase = "expand"
    /\ pending = {}
    /\ phase' = "fetch"
    /\ UNCHANGED <<config, node, reached, open, current, pending, plan>>

Terminated ==
    /\ phase \in {"solved", "failed"}
    /\ UNCHANGED vars

Fetch == Exhausted \/ SkipClosed \/ SkipDeadEnd \/ BecomeDeadEnd \/ InsertAgain \/ Expand

Generate(op) ==
    SkipOperator(op) \/ NewDeadEnd(op) \/ OpenNew(op) \/ Reopen(op) \/ UpdateParent(op)
        \/ NoCheaper(op)

Next ==
    \/ Initialize
    \/ Fetch
    \/ \E op \in Operators : Generate(op)
    \/ StepDone
    \/ Terminated

Spec == Init /\ [][Next]_vars

\* The engine runs in one thread that never waits.
FairSpec == Spec /\ WF_vars(Next)

=============================================================================
