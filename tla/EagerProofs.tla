----------------------------- MODULE EagerProofs -----------------------------
(***************************************************************************)
(* Proofs about eager search for every task, heuristic and configuration:  *)
(* its nodes build a shortest-path tree in which the parents never form a  *)
(* cycle, a search that reopens leaves no transition unrelaxed, no open    *)
(* state is missing from the open list, the plan leads to the goal, A* is  *)
(* optimal, and a search fails only if there is no plan.                   *)
(***************************************************************************)
EXTENDS EagerCorrectness, RecursionLemmas

-----------------------------------------------------------------------------
(* The inductive invariant.                                                *)

NodesTyped ==
    /\ config \in Configurations
    /\ status \in [States -> Statuses]
    /\ g \in [States -> Nat \cup {-1}]
    /\ realG \in [States -> Nat \cup {-1}]
    /\ parent \in [States -> States \cup {NoState}]
    /\ pending \subseteq Operators

\* A node has a g-value once it is open, and none before that.
OpenNodesReached ==
    \A s \in States : /\ status[s] \in {"OPEN", "CLOSED"} => g[s] \in Nat /\ realG[s] \in Nat
                      /\ status[s] = "NEW" => g[s] = -1

\* The entries of the open list are states that have been opened; a dead end is among
\* them only under mpd.
EntriesOpened ==
    /\ \E S : open \in Seq(S)
    /\ \A i \in 1 .. Len(open) :
          /\ open[i].state \in States
          /\ status[open[i].state] \in {"OPEN", "CLOSED", "DEAD_END"}
          /\ status[open[i].state] = "DEAD_END" => config.mpd

\* The state that is expanded stays closed.
CurrentClosed ==
    phase = "expand" =>
       /\ current \in States
       /\ status[current] = "CLOSED"
       /\ pending \subseteq Applicable(current)

NothingYet == phase = "initialize" => \A s \in States : status[s] = "NEW"

EagerInv ==
    NodesTyped /\ OpenNodesReached /\ EntriesOpened /\ CurrentClosed /\ NothingYet

-----------------------------------------------------------------------------
(* Operators and sequences.                                                *)

\* How large the state space is, and the largest number of all.
LEMMA SizeOfStates == Cardinality(States) \in Nat /\ Infinity \in Nat /\ Infinity > 0
    BY EagerAssumption, FS_CardinalityType

\* The successor of a state is a state.
LEMMA SuccessorInTask ==
    ASSUME NEW s \in States, NEW op \in Applicable(s)
    PROVE  /\ op \in Operators
           /\ Successor(s, op) \in States
           /\ \A type : AdjustedActionCost(op, type) \in Nat
           /\ Cost[op] \in Nat
<1>1. op \in Operators /\ Cost[op] \in Nat
    BY EagerAssumption DEF Applicable
<1>2. PICK x \in Transitions[op] : x[1] = s
    BY DEF Applicable
<1>3. Transitions[op] \subseteq States \X States
    BY <1>1, EagerAssumption
<1>4. (CHOOSE y \in Transitions[op] : y[1] = s) \in Transitions[op]
    BY <1>2
<1>5. Successor(s, op) \in States
    BY <1>3, <1>4 DEF Successor
<1> QED
    BY <1>1, <1>5 DEF AdjustedActionCost

\* An entry is inserted at the end of the open list.
LEMMA AppendFacts ==
    ASSUME NEW S, NEW o \in Seq(S), NEW e
    PROVE  /\ Append(o, e) \in Seq(S \cup {e})
           /\ \A i \in 1 .. Len(Append(o, e)) :
                 Append(o, e)[i] = e \/ \E k \in 1 .. Len(o) : Append(o, e)[i] = o[k]
<1>1. o \in Seq(S \cup {e})
    OBVIOUS
<1> QED
    BY <1>1

\* The entries left when one is removed.
LEMMA RemovedFacts ==
    ASSUME NEW S, open \in Seq(S), NEW i \in 1 .. Len(open)
    PROVE  /\ Removed(i) \in Seq(S)
           /\ \A j \in 1 .. Len(Removed(i)) : \E k \in 1 .. Len(open) : Removed(i)[j] = open[k]
<1>1. Len(open) \in Nat /\ Len(open) - 1 \in Nat
    OBVIOUS
<1>2. \A j \in 1 .. Len(open) - 1 : Removed(i)[j] \in S
    BY <1>1 DEF Removed
<1>3. Removed(i) \in [1 .. Len(open) - 1 -> S]
    BY <1>2 DEF Removed
<1>4. Removed(i) \in Seq(S) /\ Len(Removed(i)) = Len(open) - 1
    BY <1>1, <1>3
<1>5. \A j \in 1 .. Len(open) - 1 : Removed(i)[j] = open[j] \/ Removed(i)[j] = open[j + 1]
    BY DEF Removed
<1>6. \A j \in 1 .. Len(open) - 1 : j \in 1 .. Len(open) /\ j + 1 \in 1 .. Len(open)
    BY <1>1
<1>7. ASSUME NEW j \in 1 .. Len(open) - 1
      PROVE  \E k \in 1 .. Len(open) : Removed(i)[j] = open[k]
    BY <1>5, <1>6
<1> QED
    BY <1>4, <1>7

\* Opened stays opened: what the status of a state may become in one step.
StatusesKept ==
    \A s \in States : status[s] # "NEW" =>
       /\ status'[s] \in {"OPEN", "CLOSED", "DEAD_END"}
       /\ status'[s] = "DEAD_END" => status[s] = "DEAD_END" \/ config.mpd

\* The entries that are left are still of opened states.
LEMMA EntriesLeft ==
    ASSUME EntriesOpened, StatusesKept, config' = config,
           open' = open \/ \E i \in 1 .. Len(open) : open' = Removed(i)
    PROVE  EntriesOpened'
<1>1. PICK S : open \in Seq(S)
    BY DEF EntriesOpened
<1>2. /\ open' \in Seq(S)
      /\ \A j \in 1 .. Len(open') : \E k \in 1 .. Len(open) : open'[j] = open[k]
  <2>1. CASE open' = open
    BY <1>1, <2>1
  <2>2. CASE \E i \in 1 .. Len(open) : open' = Removed(i)
    <3>1. PICK i \in 1 .. Len(open) : open' = Removed(i)
      BY <2>2
    <3> QED
      BY <1>1, <3>1, RemovedFacts
  <2> QED
    BY <2>1, <2>2
<1>3. ASSUME NEW j \in 1 .. Len(open')
      PROVE  /\ open'[j].state \in States
             /\ status'[open'[j].state] \in {"OPEN", "CLOSED", "DEAD_END"}
             /\ status'[open'[j].state] = "DEAD_END" => config.mpd
  <2>1. PICK k \in 1 .. Len(open) : open'[j] = open[k]
    BY <1>2
  <2>2. /\ open[k].state \in States
        /\ status[open[k].state] \in {"OPEN", "CLOSED", "DEAD_END"}
        /\ status[open[k].state] = "DEAD_END" => config.mpd
    BY DEF EntriesOpened
  <2> QED
    BY <2>1, <2>2 DEF StatusesKept
<1> QED
    BY <1>2, <1>3 DEF EntriesOpened

\* An entry of an open state may join them.
LEMMA EntriesJoined ==
    ASSUME EntriesOpened, StatusesKept, config' = config,
           NEW e, e.state \in States, status'[e.state] = "OPEN",
           \/ open' = Append(open, e)
           \/ \E i \in 1 .. Len(open) : open' = Append(Removed(i), e)
    PROVE  EntriesOpened'
<1>1. PICK S : open \in Seq(S)
    BY DEF EntriesOpened
<1>2. PICK o \in Seq(S) : /\ open' = Append(o, e)
                          /\ \A j \in 1 .. Len(o) : \E k \in 1 .. Len(open) : o[j] = open[k]
  <2>1. CASE open' = Append(open, e)
    BY <1>1, <2>1
  <2>2. CASE \E i \in 1 .. Len(open) : open' = Append(Removed(i), e)
    <3>1. PICK i \in 1 .. Len(open) : open' = Append(Removed(i), e)
      BY <2>2
    <3>2. /\ Removed(i) \in Seq(S)
          /\ \A j \in 1 .. Len(Removed(i)) : \E k \in 1 .. Len(open) : Removed(i)[j] = open[k]
      BY <1>1, RemovedFacts
    <3> QED
      BY <3>1, <3>2
  <2> QED
    BY <2>1, <2>2
<1>3. open' \in Seq(S \cup {e})
    BY <1>2, AppendFacts
<1>4. \A j \in 1 .. Len(open') :
         open'[j] = e \/ \E k \in 1 .. Len(open) : open'[j] = open[k]
  <2>1. \A j \in 1 .. Len(open') : open'[j] = e \/ \E k \in 1 .. Len(o) : open'[j] = o[k]
    BY <1>2, AppendFacts
  <2>2. \A k \in 1 .. Len(o) : \E l \in 1 .. Len(open) : o[k] = open[l]
    BY <1>2
  <2>3. ASSUME NEW j \in 1 .. Len(open'), NEW k \in 1 .. Len(o), open'[j] = o[k]
        PROVE  \E l \in 1 .. Len(open) : open'[j] = open[l]
    BY <2>2, <2>3
  <2> QED
    BY <2>1, <2>3
<1>5. ASSUME NEW j \in 1 .. Len(open')
      PROVE  /\ open'[j].state \in States
             /\ status'[open'[j].state] \in {"OPEN", "CLOSED", "DEAD_END"}
             /\ status'[open'[j].state] = "DEAD_END" => config.mpd
  <2>1. CASE open'[j] = e
    BY <2>1
  <2>2. CASE \E k \in 1 .. Len(open) : open'[j] = open[k]
    <3>1. PICK k \in 1 .. Len(open) : open'[j] = open[k]
      BY <2>2
    <3>2. /\ open[k].state \in States
          /\ status[open[k].state] \in {"OPEN", "CLOSED", "DEAD_END"}
          /\ status[open[k].state] = "DEAD_END" => config.mpd
      BY DEF EntriesOpened
    <3> QED
      BY <3>1, <3>2 DEF StatusesKept
  <2> QED
    BY <2>1, <2>2, <1>4
<1> QED
    BY <1>3, <1>5 DEF EntriesOpened

-----------------------------------------------------------------------------
(* Every action keeps the invariant.                                       *)

\* The invariant of eager search holds before it is initialized.
LEMMA InitInvariant == Init => EagerInv
<1> SUFFICES ASSUME Init PROVE EagerInv
    OBVIOUS
<1>1. << >> \in Seq({}) /\ Len(<< >>) = 0
    OBVIOUS
<1>2. EntriesOpened
    BY <1>1 DEF Init, EntriesOpened
<1> QED
    BY <1>2 DEF Init, EagerInv, NodesTyped, Statuses, OpenNodesReached, CurrentClosed, NothingYet

\* The initial state is opened with cost 0.
LEMMA InitializeKeeps == EagerInv /\ Initialize => EagerInv'
<1> SUFFICES ASSUME EagerInv, Initialize PROVE EagerInv'
    OBVIOUS
<1>1. config' = config /\ phase' = "fetch" /\ UNCHANGED <<pending, parent, current>>
    BY DEF Initialize, node
<1>2. CurrentClosed' /\ NothingYet'
    BY <1>1 DEF CurrentClosed, NothingYet
<1>3. CASE UNCHANGED <<node, open>>
    BY <1>1, <1>2, <1>3
    DEF node, EagerInv, NodesTyped, OpenNodesReached, EntriesOpened
<1>4. CASE /\ status' = [status EXCEPT ![InitialState] = "OPEN"]
           /\ g' = [g EXCEPT ![InitialState] = 0]
           /\ realG' = [realG EXCEPT ![InitialState] = 0]
           /\ open' = << Entry(InitialState, 0, reached'[InitialState]) >>
  <2>1. InitialState \in States
    BY EagerAssumption
  <2>2. NodesTyped'
    BY <1>1, <1>4, <2>1 DEF EagerInv, NodesTyped, Statuses
  <2>3. OpenNodesReached'
    BY <1>4, <2>1 DEF EagerInv, NodesTyped, OpenNodesReached
  <2>4. Entry(InitialState, 0, reached'[InitialState]).state = InitialState
    BY DEF Entry
  <2> DEFINE e == Entry(InitialState, 0, reached'[InitialState])
  <2>5. open' \in Seq({e}) /\ Len(open') = 1 /\ open'[1] = e
    BY <1>4
  <2>6. status'[InitialState] = "OPEN"
    BY <1>4, <2>1 DEF EagerInv, NodesTyped
  <2>7. EntriesOpened'
    BY <2>1, <2>4, <2>5, <2>6 DEF EntriesOpened
  <2> QED
    BY <1>2, <2>2, <2>3, <2>7 DEF EagerInv
<1> QED
    BY <1>3, <1>4 DEF Initialize

\* The rounds of fetch_next_node that only touch the open list.
LEMMA FetchKeeps ==
    EagerInv /\ (Exhausted \/ SkipClosed \/ SkipDeadEnd \/ InsertAgain) => EagerInv'
<1> SUFFICES ASSUME EagerInv, Exhausted \/ SkipClosed \/ SkipDeadEnd \/ InsertAgain
             PROVE  EagerInv'
    OBVIOUS
<1>1. UNCHANGED <<config, status, g, realG, parent, pending, current>>
      /\ phase = "fetch" /\ phase' \in {"fetch", "failed"}
    BY DEF Exhausted, SkipClosed, SkipDeadEnd, InsertAgain, node
<1>2. NodesTyped' /\ OpenNodesReached' /\ CurrentClosed' /\ NothingYet'
    BY <1>1 DEF EagerInv, NodesTyped, OpenNodesReached, CurrentClosed, NothingYet
<1>3. StatusesKept
    BY <1>1 DEF StatusesKept, EagerInv, NodesTyped, Statuses
<1>4. EntriesOpened'
  <2>1. CASE open' = open \/ \E i \in 1 .. Len(open) : open' = Removed(i)
    BY <1>1, <1>3, <2>1, EntriesLeft DEF EagerInv
  <2>2. CASE InsertAgain
    <3>1. PICK i \in 1 .. Len(open) :
             /\ status[open[i].state] \notin {"CLOSED", "DEAD_END"}
             /\ open' = Append(Removed(i),
                               Entry(open[i].state, g[open[i].state], reached[open[i].state]))
      BY <2>2 DEF InsertAgain
    <3>2. open[i].state \in States /\ status[open[i].state] = "OPEN"
      BY <3>1 DEF EagerInv, EntriesOpened
    <3> DEFINE e == Entry(open[i].state, g[open[i].state], reached[open[i].state])
    <3>3. e.state = open[i].state
      BY DEF Entry
    <3>4. open' = Append(Removed(i), e) /\ status'[e.state] = "OPEN" /\ e.state \in States
      BY <3>1, <3>2, <3>3, <1>1
    <3> HIDE DEF e
    <3> QED
      BY <3>4, <1>1, <1>3, EntriesJoined DEF EagerInv
  <2> QED
    BY <2>1, <2>2 DEF Exhausted, SkipClosed, SkipDeadEnd
<1> QED
    BY <1>2, <1>4 DEF EagerInv

\* A state whose heuristic value has become infinite is not expanded.
LEMMA BecomeDeadEndKeeps == EagerInv /\ BecomeDeadEnd => EagerInv'
<1> SUFFICES ASSUME EagerInv, BecomeDeadEnd PROVE EagerInv'
    OBVIOUS
<1>1. PICK i \in 1 .. Len(open) :
         /\ status[open[i].state] \notin {"CLOSED", "DEAD_END"}
         /\ status' = [status EXCEPT ![open[i].state] = "DEAD_END"]
         /\ open' = Removed(i)
    BY DEF BecomeDeadEnd
<1>2. UNCHANGED <<config, g, realG, parent, pending, current, phase>>
      /\ phase = "fetch" /\ config.mpd
    BY DEF BecomeDeadEnd
<1>3. open[i].state \in States
    BY DEF EagerInv, EntriesOpened
<1>4. status' \in [States -> Statuses]
    BY <1>1, <1>3 DEF EagerInv, NodesTyped, Statuses
<1>5. NodesTyped' /\ OpenNodesReached' /\ CurrentClosed' /\ NothingYet'
    BY <1>1, <1>2, <1>3, <1>4
    DEF EagerInv, NodesTyped, OpenNodesReached, CurrentClosed, NothingYet
<1>6. StatusesKept
    BY <1>1, <1>2, <1>3 DEF StatusesKept, EagerInv, NodesTyped, Statuses
<1>7. EntriesOpened'
    BY <1>1, <1>2, <1>6, EntriesLeft DEF EagerInv
<1> QED
    BY <1>5, <1>7 DEF EagerInv

\* The state of the least entry is closed, to be expanded.
LEMMA ExpandKeeps == EagerInv /\ Expand => EagerInv'
<1> SUFFICES ASSUME EagerInv, Expand PROVE EagerInv'
    OBVIOUS
<1>1. PICK i \in 1 .. Len(open) :
         LET s == open[i].state
         IN  /\ status[s] # "CLOSED"
             /\ config.mpd => status[s] # "DEAD_END"
             /\ status' = [status EXCEPT ![s] = "CLOSED"]
             /\ open' = Removed(i)
             /\ current' = s
             /\ \/ phase' = "solved" /\ UNCHANGED pending
                \/ phase' = "expand" /\ pending' = Applicable(s)
    BY DEF Expand
<1> DEFINE s == open[i].state
<1>2. UNCHANGED <<config, g, realG, parent>>
    BY DEF Expand
<1>3. s \in States /\ status[s] = "OPEN"
    BY <1>1 DEF EagerInv, EntriesOpened
<1>4. status' = [status EXCEPT ![s] = "CLOSED"] /\ current' = s
    BY <1>1
<1>5. Applicable(s) \subseteq Operators
    BY DEF Applicable
<1> HIDE DEF s
<1>6. pending' \subseteq Operators /\ (phase' = "expand" => pending' = Applicable(s))
      /\ phase' \in {"solved", "expand"}
    BY <1>1, <1>5 DEF s, EagerInv, NodesTyped
<1>7. NodesTyped'
    BY <1>2, <1>3, <1>4, <1>6 DEF EagerInv, NodesTyped, Statuses
<1>8. OpenNodesReached'
    BY <1>2, <1>3, <1>4 DEF EagerInv, NodesTyped, OpenNodesReached
<1>9. Applicable(current)' = Applicable(s)
    BY <1>4 DEF Applicable
<1>10. CurrentClosed' /\ NothingYet'
    BY <1>3, <1>4, <1>6, <1>9 DEF EagerInv, NodesTyped, CurrentClosed, NothingYet
<1>11. StatusesKept
    BY <1>3, <1>4 DEF StatusesKept, EagerInv, NodesTyped, Statuses
<1>12. EntriesOpened'
    BY <1>1, <1>2, <1>11, EntriesLeft DEF EagerInv
<1> QED
    BY <1>7, <1>8, <1>10, <1>12 DEF EagerInv

\* What an operator that is looked at adds up to.
LEMMA LookFacts ==
    ASSUME EagerInv, NEW op \in Operators, Look(op)
    PROVE  /\ current \in States
           /\ status[current] = "CLOSED"
           /\ g[current] \in Nat /\ realG[current] \in Nat
           /\ op \in Applicable(current)
           /\ Successor(current, op) \in States
           /\ AdjustedCost(op) \in Nat /\ Cost[op] \in Nat
           /\ pending' = pending \ {op}
<1>1. current \in States /\ status[current] = "CLOSED" /\ op \in Applicable(current)
    BY DEF Look, EagerInv, CurrentClosed
<1>2. g[current] \in Nat /\ realG[current] \in Nat
    BY <1>1 DEF EagerInv, OpenNodesReached
<1> QED
    BY <1>1, <1>2, SuccessorInTask DEF Look, AdjustedCost

\* Steps that change no path.
LEMMA PathsUnchangedKeeps ==
    ASSUME EagerInv, NEW op \in Operators, SkipOperator(op) \/ NewDeadEnd(op) \/ NoCheaper(op)
    PROVE  EagerInv'
<1> DEFINE t == Successor(current, op)
<1>1. Look(op) /\ phase = "expand" /\ UNCHANGED <<config, g, realG, parent, open, current, phase>>
    BY DEF SkipOperator, NewDeadEnd, NoCheaper, node, Look
<1>2. /\ t \in States /\ current \in States /\ status[current] = "CLOSED"
      /\ pending' = pending \ {op}
    BY <1>1, LookFacts
<1>3. status' = status \/ (status[t] = "NEW" /\ status' = [status EXCEPT ![t] = "DEAD_END"])
    BY DEF SkipOperator, NewDeadEnd, NoCheaper, node
<1> HIDE DEF t
<1>4. NodesTyped'
    BY <1>1, <1>2, <1>3 DEF EagerInv, NodesTyped, Statuses
<1>5. OpenNodesReached'
    BY <1>1, <1>2, <1>3 DEF EagerInv, NodesTyped, OpenNodesReached
<1>6. Applicable(current)' = Applicable(current)
    BY <1>1 DEF Applicable
<1>7. status'[current] = "CLOSED"
    BY <1>2, <1>3 DEF EagerInv, NodesTyped
<1>8. CurrentClosed' /\ NothingYet'
    BY <1>1, <1>2, <1>6, <1>7 DEF EagerInv, CurrentClosed, NothingYet
<1>9. StatusesKept
    BY <1>2, <1>3 DEF StatusesKept, EagerInv, NodesTyped, Statuses
<1>10. EntriesOpened'
    BY <1>1, <1>9, EntriesLeft DEF EagerInv
<1> QED
    BY <1>4, <1>5, <1>8, <1>10 DEF EagerInv

\* Steps that give the successor a path.
LEMMA PathChangedKeeps ==
    ASSUME EagerInv, NEW op \in Operators, OpenNew(op) \/ Reopen(op) \/ UpdateParent(op)
    PROVE  EagerInv'
<1> DEFINE t == Successor(current, op)
<1>1. Look(op) /\ phase = "expand" /\ UNCHANGED <<config, current, phase>> /\ SetPath(t, op)
    BY DEF OpenNew, Reopen, UpdateParent, Look
<1>2. /\ t \in States /\ current \in States /\ status[current] = "CLOSED"
      /\ g[current] \in Nat /\ realG[current] \in Nat
      /\ AdjustedCost(op) \in Nat /\ Cost[op] \in Nat
      /\ pending' = pending \ {op}
    BY <1>1, LookFacts
<1>3. /\ g' = [g EXCEPT ![t] = g[current] + AdjustedCost(op)]
      /\ realG' = [realG EXCEPT ![t] = realG[current] + Cost[op]]
      /\ parent' = [parent EXCEPT ![t] = current]
    BY <1>1 DEF SetPath
<1>4. \/ status[t] \in {"OPEN", "CLOSED"} /\ status' = status
      \/ /\ status[t] \in {"NEW", "OPEN", "CLOSED"}
         /\ status' = [status EXCEPT ![t] = "OPEN"]
    BY DEF OpenNew, Reopen, UpdateParent, Opened
<1>5. \/ open' = open
      \/ open' = Append(open, Entry(t, g'[t], reached'[t])) /\ status' = [status EXCEPT ![t] = "OPEN"]
    BY DEF OpenNew, Reopen, UpdateParent, Opened
<1>6. t # current
    BY <1>2 DEF OpenNew, Reopen, UpdateParent, Cheaper
<1>7. Entry(t, g'[t], reached'[t]).state = t
    BY DEF Entry
<1> DEFINE e == Entry(t, g'[t], reached'[t])
<1> HIDE DEF t
<1>8. NodesTyped'
    BY <1>1, <1>2, <1>3, <1>4 DEF EagerInv, NodesTyped, Statuses
<1>9. OpenNodesReached'
    BY <1>2, <1>3, <1>4 DEF EagerInv, NodesTyped, OpenNodesReached
<1>10. Applicable(current)' = Applicable(current)
    BY <1>1 DEF Applicable
<1>11. status'[current] = "CLOSED"
    BY <1>2, <1>4, <1>6 DEF EagerInv, NodesTyped
<1>12. CurrentClosed' /\ NothingYet'
    BY <1>1, <1>2, <1>10, <1>11 DEF EagerInv, CurrentClosed, NothingYet
<1>13. StatusesKept
    BY <1>2, <1>4 DEF StatusesKept, EagerInv, NodesTyped, Statuses
<1>14. EntriesOpened'
  <2>1. CASE open' = open
    BY <1>1, <1>13, <2>1, EntriesLeft DEF EagerInv
  <2>2. CASE open' = Append(open, e) /\ status' = [status EXCEPT ![t] = "OPEN"]
    <3>1. e.state \in States /\ status'[e.state] = "OPEN"
      BY <1>2, <1>7, <2>2 DEF EagerInv, NodesTyped
    <3> HIDE DEF e
    <3> QED
      BY <1>1, <1>13, <2>2, <3>1, EntriesJoined DEF EagerInv
  <2> QED
    BY <1>5, <2>1, <2>2
<1> QED
    BY <1>8, <1>9, <1>12, <1>14 DEF EagerInv

\* The end of a step, or no step.
LEMMA StutterKeeps == EagerInv /\ (StepDone \/ UNCHANGED vars) => EagerInv'
<1> SUFFICES ASSUME EagerInv, StepDone \/ UNCHANGED vars PROVE EagerInv'
    OBVIOUS
<1>1. UNCHANGED <<config, status, g, realG, parent, open, current, pending>>
      /\ (phase' = phase \/ phase' = "fetch")
    BY DEF StepDone, vars, node
<1>2. Applicable(current)' = Applicable(current)
    BY <1>1 DEF Applicable
<1> QED
    BY <1>1, <1>2 DEF EagerInv, NodesTyped, OpenNodesReached, EntriesOpened, CurrentClosed, NothingYet

\* Every step of the engine keeps the invariant.
LEMMA NextKeeps == EagerInv /\ [Next]_vars => EagerInv'
BY InitializeKeeps, FetchKeeps, BecomeDeadEndKeeps, ExpandKeeps, PathsUnchangedKeeps,
   PathChangedKeeps, StutterKeeps
DEF Next, Fetch, Generate, Terminated

\* In every reachable state the nodes on the open list have been opened, and opened nodes
\* have g-values.
THEOREM EagerInvariant == Spec => []EagerInv
BY NextKeeps, InitInvariant, PTL DEF Spec

-----------------------------------------------------------------------------
(* The refinement, and what it buys.                                       *)

\* The edges that are relaxed are those of the task.
LEMMA TreeOfTask == TaskEdges \subseteq States \X Nat \X States
<1> SUFFICES ASSUME NEW s \in States, NEW type, NEW op \in Applicable(s)
             PROVE  <<s, AdjustedActionCost(op, type), Successor(s, op)>> \in States \X Nat \X States
    BY DEF TaskEdges
<1> QED
    BY SuccessorInTask

\* A cheaper path is an edge relaxed.
LEMMA PathChangeRelaxes ==
    ASSUME EagerInv, NEW op \in Operators, OpenNew(op) \/ Reopen(op) \/ UpdateParent(op)
    PROVE  Tree!Next
<1> DEFINE t == Successor(current, op)
<1>1. Look(op) /\ SetPath(t, op)
    BY DEF OpenNew, Reopen, UpdateParent
<1>2. /\ t \in States /\ current \in States /\ status[current] = "CLOSED"
      /\ g[current] \in Nat
      /\ AdjustedCost(op) \in Nat
      /\ op \in Applicable(current)
    BY <1>1, LookFacts
<1>3. <<current, AdjustedCost(op), t>> \in TaskEdges
  <2>1. config.costType \in {"NORMAL", "ONE", "PLUSONE"}
    BY EagerAssumption DEF EagerInv, NodesTyped
  <2>2. ASSUME NEW type \in {"NORMAL", "ONE", "PLUSONE"}
        PROVE  <<current, AdjustedActionCost(op, type), t>> \in TaskEdges
    <3> DEFINE From(s, k) == {<<s, AdjustedActionCost(o, k), Successor(s, o)>> : o \in Applicable(s)}
    <3>1. <<current, AdjustedActionCost(op, type), t>> \in From(current, type)
      BY <1>2
    <3>2. TaskEdges = UNION {From(s, k) : s \in States, k \in {"NORMAL", "ONE", "PLUSONE"}}
      BY DEF TaskEdges
    <3> HIDE DEF From
    <3>3. From(current, type) \in {From(s, k) : s \in States, k \in {"NORMAL", "ONE", "PLUSONE"}}
      BY <1>2
    <3> QED
      BY <3>1, <3>2, <3>3
  <2> QED
    BY <2>1, <2>2 DEF AdjustedCost
<1>4. status[t] = "NEW" \/ Cheaper(op, t)
    BY DEF OpenNew, Reopen, UpdateParent
<1>5. g[t] \in Nat \cup {-1} /\ (g[t] >= 0 => g[current] + AdjustedCost(op) < g[t])
    BY <1>2, <1>4 DEF Cheaper, EagerInv, OpenNodesReached, NodesTyped
<1>6. Tree!Relax(current, AdjustedCost(op), t)
    BY <1>1, <1>2, <1>5 DEF Tree!Relax, Tree!Reached, SetPath
<1> QED
    BY <1>3, <1>6 DEF Tree!Next

\* Eager search does nothing with its g-values and parents but relax edges of the task,
\* whatever it does to its open list, its statuses and its landmarks.
THEOREM RefinesPathTree == Spec => BuildsTree
<1>1. Init => Tree!Init
    BY DEF Init, Tree!Init
<1>2. EagerInv /\ [Next]_vars => [Tree!Next]_(Tree!tree)
  <2> SUFFICES ASSUME EagerInv, [Next]_vars PROVE [Tree!Next]_(Tree!tree)
    OBVIOUS
  <2>1. CASE Initialize
    <3>1. CASE UNCHANGED <<node, open>>
      BY <3>1 DEF node, Tree!tree
    <3>2. CASE g' = [g EXCEPT ![InitialState] = 0] /\ UNCHANGED <<parent, creator>>
      <4>1. g[InitialState] = -1
        BY <2>1, EagerAssumption
        DEF Initialize, EagerInv, NothingYet, OpenNodesReached
      <4> QED
        BY <3>2, <4>1 DEF Tree!Next, Tree!Start
    <3> QED
      BY <2>1, <3>1, <3>2 DEF Initialize
  <2>2. CASE Fetch \/ StepDone \/ Terminated \/ UNCHANGED vars
    BY <2>2 DEF Fetch, Exhausted, SkipClosed, SkipDeadEnd, BecomeDeadEnd, InsertAgain, Expand,
                StepDone, Terminated, vars, node, Tree!tree
  <2>3. ASSUME NEW op \in Operators, Generate(op) PROVE [Tree!Next]_(Tree!tree)
    <3>1. CASE SkipOperator(op) \/ NewDeadEnd(op) \/ NoCheaper(op)
      BY <3>1 DEF SkipOperator, NewDeadEnd, NoCheaper, node, Tree!tree
    <3>2. CASE OpenNew(op) \/ Reopen(op) \/ UpdateParent(op)
      BY <3>2, PathChangeRelaxes
    <3> QED
      BY <2>3, <3>1, <3>2 DEF Generate
  <2> QED
    BY <2>1, <2>2, <2>3 DEF Next
<1> QED
    BY <1>1, <1>2, EagerInvariant, PTL DEF Spec, BuildsTree, Tree!Spec

\* trace_path ends at every moment of every search.
THEOREM PathsEnd == Spec => []NoParentCycle
<1>1. Tree!RootedGraph
    BY TreeOfTask, EagerAssumption DEF Tree!RootedGraph
<1>2. BuildsTree => []Tree!TreeInv
    BY <1>1, Tree!TreeSafe DEF BuildsTree
<1>3. Tree!TreeInv => NoParentCycle
    BY DEF Tree!TreeInv, NoParentCycle
<1> QED
    BY <1>2, <1>3, RefinesPathTree, PTL

-----------------------------------------------------------------------------
(* Nothing a search that reopens has expanded is left to be improved.      *)

\* The transition has been looked at since s was closed the last time ...
Due(s, op) ==
    /\ status[s] = "CLOSED"
    /\ s \notin Goal
    /\ ~ (phase = "expand" /\ s = current /\ op \in pending)

\* ... and there was nothing to do or it was done.
Done(s, op) ==
    LET t == Successor(s, op)
    IN  \/ realG[s] + Cost[op] >= config.bound
        \/ status[t] = "DEAD_END"
        \/ status[t] # "NEW" /\ g[t] <= g[s] + AdjustedCost(op)

\* When a closed state is relaxed.
LEMMA RelaxedMeaning ==
    ClosedRelaxed <=>
       (config.reopen => \A s \in States : \A op \in Applicable(s) : Due(s, op) => Done(s, op))
BY DEF ClosedRelaxed, Due, Done

\* What is done stays done while s keeps its g-value, as those of others only fall.
LEMMA DoneStays ==
    ASSUME EagerInv, EagerInv', NEW s \in States, NEW op \in Applicable(s), Done(s, op),
           status[s] = "CLOSED", config' = config, g'[s] = g[s], realG'[s] = realG[s],
           status[Successor(s, op)] = "DEAD_END" => status'[Successor(s, op)] = "DEAD_END",
           status[Successor(s, op)] \in {"OPEN", "CLOSED"} =>
              \/ status'[Successor(s, op)] = "DEAD_END"
              \/ /\ status'[Successor(s, op)] # "NEW"
                 /\ g'[Successor(s, op)] <= g[Successor(s, op)]
    PROVE  Done(s, op)'
<1> DEFINE t == Successor(s, op)
<1>1. /\ t \in States /\ AdjustedCost(op) \in Nat /\ AdjustedCost(op)' = AdjustedCost(op)
      /\ g[s] \in Nat /\ g[t] \in Nat \cup {-1} /\ g'[t] \in Nat \cup {-1}
      /\ status[t] \in Statuses
    BY SuccessorInTask DEF AdjustedCost, EagerInv, OpenNodesReached, NodesTyped
<1> HIDE DEF t
<1>2. \/ realG[s] + Cost[op] >= config.bound
      \/ status[t] = "DEAD_END"
      \/ status[t] # "NEW" /\ g[t] <= g[s] + AdjustedCost(op)
    BY DEF Done, t
<1>3. \/ realG'[s] + Cost[op] >= config'.bound
      \/ status'[t] = "DEAD_END"
      \/ status'[t] # "NEW" /\ g'[t] <= g'[s] + AdjustedCost(op)'
    BY <1>1, <1>2 DEF Statuses, t
<1> QED
    BY <1>3 DEF Done, t

\* No turn of the loop of fetch_next_node leaves a closed state unrelaxed.
LEMMA FetchKeepsRelaxed ==
    ASSUME EagerInv, EagerInv', ClosedRelaxed, Initialize \/ Fetch \/ StepDone \/ UNCHANGED vars
    PROVE  ClosedRelaxed'
<1> SUFFICES ASSUME config'.reopen, NEW s \in States, NEW op \in Applicable(s), Due(s, op)'
             PROVE  Done(s, op)'
    BY RelaxedMeaning DEF ClosedRelaxed, Due, Done
<1> DEFINE t == Successor(s, op)
<1>1. t \in States /\ status \in [States -> Statuses] /\ g \in [States -> Nat \cup {-1}]
    BY SuccessorInTask DEF EagerInv, NodesTyped
<1>2. config' = config
    BY DEF Initialize, Fetch, Exhausted, SkipClosed, SkipDeadEnd, BecomeDeadEnd, InsertAgain,
           Expand, StepDone, vars
<1>3. ~ Initialize
    BY <1>1 DEF Initialize, EagerInv, NothingYet, Due, node
<1>4. g' = g /\ realG' = realG
    BY <1>3 DEF Fetch, Exhausted, SkipClosed, SkipDeadEnd, BecomeDeadEnd, InsertAgain,
                Expand, StepDone, vars, node
<1>5. ASSUME Due(s, op),
             status[t] = "DEAD_END" => status'[t] = "DEAD_END",
             status[t] # "NEW" => status'[t] # "NEW"
      PROVE  Done(s, op)'
  <2>1. Done(s, op)
    BY <1>2, <1>5, RelaxedMeaning
  <2> QED
    BY <1>1, <1>2, <1>4, <1>5, <2>1, DoneStays DEF Due
<1>6. CASE Exhausted \/ SkipClosed \/ SkipDeadEnd \/ InsertAgain \/ StepDone \/ UNCHANGED vars
  <2>1. status' = status /\ current' = current /\ pending' = pending
        /\ (phase' = phase \/ phase # "expand" \/ pending = {})
    BY <1>6 DEF Exhausted, SkipClosed, SkipDeadEnd, InsertAgain, StepDone, vars, node
  <2>2. Due(s, op)
    BY <2>1 DEF Due
  <2> QED
    BY <1>5, <2>1, <2>2
<1>7. CASE BecomeDeadEnd
  <2>1. PICK x \in States : status[x] \notin {"CLOSED", "DEAD_END"}
                            /\ status' = [status EXCEPT ![x] = "DEAD_END"]
    BY <1>7 DEF BecomeDeadEnd, EagerInv, EntriesOpened
  <2>2. phase = "fetch" /\ UNCHANGED <<current, pending, phase>>
    BY <1>7 DEF BecomeDeadEnd
  <2>3. Due(s, op)
    BY <1>1, <2>1, <2>2 DEF Due
  <2> QED
    BY <1>1, <1>5, <2>1, <2>3
<1>8. CASE Expand
  <2>1. PICK x \in States : /\ status[x] = "OPEN"
                            /\ status' = [status EXCEPT ![x] = "CLOSED"]
                            /\ current' = x
                            /\ x \notin Goal => phase' = "expand" /\ pending' = Applicable(x)
    <3>1. PICK i \in 1 .. Len(open) :
             LET x == open[i].state
             IN  /\ status[x] # "CLOSED"
                 /\ config.mpd => status[x] # "DEAD_END"
                 /\ status' = [status EXCEPT ![x] = "CLOSED"]
                 /\ current' = x
                 /\ x \notin Goal => phase' = "expand" /\ pending' = Applicable(x)
      BY <1>8 DEF Expand
    <3>2. open[i].state \in States /\ status[open[i].state] = "OPEN"
      BY <3>1 DEF EagerInv, EntriesOpened
    <3> QED
      BY <3>1, <3>2
  <2>2. phase = "fetch"
    BY <1>8 DEF Expand
  <2>3. s # x
    BY <2>1 DEF Due
  <2>4. Due(s, op)
    BY <1>1, <2>1, <2>2, <2>3 DEF Due
  <2> QED
    BY <1>1, <1>5, <2>1, <2>4
<1> QED
    BY <1>3, <1>6, <1>7, <1>8 DEF Fetch

\* No turn of the loop over the operators leaves a closed state unrelaxed.
LEMMA GenerateKeepsRelaxed ==
    ASSUME EagerInv, EagerInv', ClosedRelaxed, NEW o \in Operators, Generate(o)
    PROVE  ClosedRelaxed'
<1> SUFFICES ASSUME config'.reopen, NEW s \in States, NEW op \in Applicable(s), Due(s, op)'
             PROVE  Done(s, op)'
    BY RelaxedMeaning DEF ClosedRelaxed, Due, Done
<1> DEFINE t == Successor(s, op)  u == Successor(current, o)
<1>1. /\ t \in States /\ status \in [States -> Statuses]
      /\ g \in [States -> Nat \cup {-1}] /\ realG \in [States -> Nat \cup {-1}]
    BY SuccessorInTask DEF EagerInv, NodesTyped
<1>2. Look(o) /\ UNCHANGED <<config, current, phase>>
    BY DEF Generate, SkipOperator, NewDeadEnd, OpenNew, Reopen, UpdateParent, NoCheaper, Look
<1>3. /\ current \in States /\ status[current] = "CLOSED" /\ phase = "expand"
      /\ g[current] \in Nat /\ u \in States
      /\ AdjustedCost(o) \in Nat /\ pending' = pending \ {o}
    BY <1>2, LookFacts DEF Look
<1>4. AdjustedCost(o)' = AdjustedCost(o)
    BY <1>2 DEF AdjustedCost
<1>5. ~ UpdateParent(o)
    BY <1>2 DEF UpdateParent
\* What the step does to the node of the successor.
<1>6. \/ /\ UNCHANGED <<status, g, realG>>
         /\ \/ Cutoff(o) \/ status[u] = "DEAD_END"
            \/ status[u] \in {"OPEN", "CLOSED"} /\ ~ Cheaper(o, u)
      \/ /\ status[u] = "NEW" /\ status' = [status EXCEPT ![u] = "DEAD_END"]
         /\ UNCHANGED <<g, realG>>
      \/ /\ status[u] = "NEW" \/ (status[u] \in {"OPEN", "CLOSED"} /\ Cheaper(o, u))
         /\ status' = [status EXCEPT ![u] = "OPEN"]
         /\ SetPath(u, o)
    BY <1>5 DEF Generate, SkipOperator, NewDeadEnd, NoCheaper, OpenNew, Reopen, Opened, node
<1>7. u = current => ~ Cheaper(o, u)
    BY <1>3 DEF Cheaper
<1>8. g'[current] = g[current] /\ realG'[current] = realG[current]
    BY <1>1, <1>3, <1>6, <1>7 DEF SetPath
<1>9. CASE s = current /\ op = o
  <2>1. t = u
    BY <1>9
  <2>2. CASE Cutoff(o)
    BY <1>2, <1>8, <1>9, <2>2 DEF Cutoff, Done
  <2>3. CASE status'[u] = "DEAD_END"
    BY <1>9, <2>3 DEF Done
  <2>4. CASE status'[u] # "NEW" /\ g'[u] <= g'[current] + AdjustedCost(o)
    BY <1>4, <1>9, <2>4 DEF Done
  <2>5. ~ Cheaper(o, u) => g[u] <= g[current] + AdjustedCost(o)
    BY <1>1, <1>3 DEF Cheaper
  <2>6. SetPath(u, o) => g'[u] = g[current] + AdjustedCost(o)
    BY <1>1, <1>3 DEF SetPath
  <2> QED
    BY <1>1, <1>3, <1>6, <1>8, <2>2, <2>3, <2>4, <2>5, <2>6
<1>10. CASE ~ (s = current /\ op = o)
  <2>1. status[s] = "CLOSED" /\ (SetPath(u, o) /\ status'[u] = "OPEN" => s # u)
    BY <1>1, <1>3, <1>6 DEF Due
  <2>2. Due(s, op)
    BY <1>2, <1>3, <1>10, <2>1 DEF Due
  <2>3. Done(s, op)
    BY <1>2, <2>2, RelaxedMeaning
  <2>4. g'[s] = g[s] /\ realG'[s] = realG[s]
    BY <1>1, <1>3, <1>6, <2>1 DEF SetPath
  <2>5. status[t] = "DEAD_END" => status'[t] = "DEAD_END"
    BY <1>1, <1>3, <1>6
  <2>6. status[t] \in {"OPEN", "CLOSED"} => status'[t] # "NEW" /\ g'[t] <= g[t]
    <3>1. CASE t # u \/ UNCHANGED <<status, g, realG>>
      BY <1>1, <1>3, <1>6, <3>1 DEF SetPath
    <3>2. CASE t = u /\ Cheaper(o, u) /\ SetPath(u, o) /\ status' = [status EXCEPT ![u] = "OPEN"]
      BY <1>1, <1>3, <3>2 DEF SetPath, Cheaper
    <3> QED
      BY <1>6, <3>1, <3>2
  <2> QED
    BY <1>2, <2>1, <2>3, <2>4, <2>5, <2>6, DoneStays
<1> QED
    BY <1>9, <1>10

\* A search that reopens relaxes every transition of its closed states, though it may
\* expand a state before it has found a shortest path to it.
THEOREM RelaxesEverything == Spec => []ClosedRelaxed
<1>1. Init => ClosedRelaxed
    BY DEF Init, ClosedRelaxed
<1>2. EagerInv /\ EagerInv' /\ ClosedRelaxed /\ [Next]_vars => ClosedRelaxed'
    BY FetchKeepsRelaxed, GenerateKeepsRelaxed DEF Next, Terminated
<1> QED
    BY <1>1, <1>2, EagerInvariant, PTL DEF Spec

-----------------------------------------------------------------------------
(* The open list.                                                          *)

\* UpdateReached is one pass over the landmarks: another path to a state can only take
\* landmarks from those that all paths before have reached.
LEMMA UpdateReachedFacts ==
    ASSUME NEW ofParent \in SUBSET Landmarks, NEW isNew \in BOOLEAN, NEW old, NEW s
    PROVE  /\ UpdateReached(ofParent, isNew, old, s) \in SUBSET Landmarks
           /\ ~ isNew => UpdateReached(ofParent, isNew, old, s) \subseteq old
           /\ \A l \in Landmarks \ UpdateReached(ofParent, isNew, old, s) :
                 \/ ~ isNew /\ l \notin old
                 \/ /\ l \notin ofParent
                    /\ \/ s \notin TrueIn[l]
                       \/ \E p \in Parents(l) : p \notin ofParent \/ (~ isNew /\ p \notin old)
<1> DEFINE Kept(l) == l \in ofParent /\ (isNew \/ l \in old)
           Missed(l) == \/ ~ isNew /\ l \notin old
                        \/ /\ l \notin ofParent
                           /\ s \notin TrueIn[l] \/ \E p \in Parents(l) : ~ Kept(p)
           Visit(l, r) == IF ~ isNew /\ l \notin old THEN r \ {l}
                          ELSE IF s \in TrueIn[l] /\ Parents(l) \subseteq r THEN r \cup {l} ELSE r
           step == [x \in (1 .. NumLandmarks) \X SUBSET Landmarks |-> Visit(x[1] - 1, x[2])]
           IsPass(f) == f = [n \in 0 .. NumLandmarks |->
                               IF n = 0 THEN ofParent ELSE Visit(n - 1, f[n - 1])]
           pass == CHOOSE f : IsPass(f)
<1>1. UpdateReached(ofParent, isNew, old, s) = pass[NumLandmarks]
    BY DEF UpdateReached
<1>2. NumLandmarks \in Nat /\ \A n \in 1 .. NumLandmarks : n - 1 \in Landmarks /\ n - 1 \in 0 .. NumLandmarks
    BY LandmarkAssumption DEF Landmarks
<1>3. \A l \in Landmarks : \A r \in SUBSET Landmarks :
         /\ Visit(l, r) \in SUBSET Landmarks
         /\ \A k \in Landmarks \ {l} : k \in Visit(l, r) <=> k \in r
         /\ l \in Visit(l, r) => isNew \/ l \in old
         /\ l \in Visit(l, r) \/ (~ isNew /\ l \notin old)
               \/ (l \notin r /\ (s \notin TrueIn[l] \/ ~ (Parents(l) \subseteq r)))
    OBVIOUS
<1>4. step \in [(1 .. NumLandmarks) \X SUBSET Landmarks -> SUBSET Landmarks]
    BY <1>2, <1>3
<1>5. \A n \in 1 .. NumLandmarks : \A r \in SUBSET Landmarks : step[<<n, r>>] = Visit(n - 1, r)
    OBVIOUS
<1> HIDE DEF step, Visit
<1>6. PICK f \in [0 .. NumLandmarks -> SUBSET Landmarks] : RecursBy(f, ofParent, step, NumLandmarks)
    BY <1>2, <1>4, RecursionExistsBy
<1>7. IsPass(f)
  <2>1. f[0] = ofParent /\ \A n \in 1 .. NumLandmarks : f[n] = Visit(n - 1, f[n - 1])
    BY <1>2, <1>5, <1>6 DEF RecursBy
  <2>2. \A n \in 0 .. NumLandmarks : n = 0 \/ n \in 1 .. NumLandmarks
    BY <1>2
  <2> QED
    BY <2>1, <2>2
<1>8. IsPass(pass)
    BY <1>7
<1> HIDE DEF pass
<1>9. /\ pass[0] = ofParent
      /\ \A n \in 1 .. NumLandmarks : pass[n] = Visit(n - 1, pass[n - 1])
    BY <1>2, <1>8
<1> DEFINE After(n) == /\ pass[n] \in SUBSET Landmarks
                       /\ \A l \in Landmarks : /\ l >= n => (l \in pass[n] <=> l \in ofParent)
                                               /\ Kept(l) => l \in pass[n]
                                               /\ l < n /\ l \in pass[n] => isNew \/ l \in old
                                               /\ l < n /\ l \notin pass[n] => Missed(l)
           Good == {n \in Nat : n <= NumLandmarks => After(n)}
<1>10. 0 \in Good
  <2>1. \A l \in Landmarks : ~ (l < 0)
    BY <1>2 DEF Landmarks
  <2>2. \A l \in Landmarks : Kept(l) => l \in ofParent
    OBVIOUS
  <2> HIDE DEF Kept, Missed
  <2>3. After(0)
    BY <1>9, <2>1, <2>2
  <2> QED
    BY <2>3
<1>11. ASSUME NEW n \in Nat, n \in Good PROVE n + 1 \in Good
  <2> SUFFICES ASSUME n + 1 <= NumLandmarks PROVE After(n + 1)
    OBVIOUS
  <2>1. n + 1 \in 1 .. NumLandmarks /\ (n + 1) - 1 = n /\ n \in Landmarks
    BY <1>2
  <2>2. pass[n + 1] = Visit(n, pass[n])
    BY <1>9, <2>1
  <2>3. After(n)
    BY <1>2, <1>11
  <2>4. /\ \A k \in Landmarks \ {n} : k \in pass[n + 1] <=> k \in pass[n]
        /\ n \in pass[n + 1] => isNew \/ n \in old
        /\ n \in pass[n + 1] \/ (~ isNew /\ n \notin old)
              \/ (n \notin pass[n] /\ (s \notin TrueIn[n] \/ ~ (Parents(n) \subseteq pass[n])))
        /\ pass[n + 1] \in SUBSET Landmarks
    BY <1>3, <2>1, <2>2, <2>3
  <2>5. \A l \in Landmarks : l \in Int /\ (l >= n + 1 => l # n /\ l >= n) /\ (l < n + 1 => l = n \/ l < n)
    BY DEF Landmarks
  <2>6. n \notin pass[n + 1] => Missed(n)
    <3> SUFFICES ASSUME n \notin pass[n + 1], ~ (~ isNew /\ n \notin old) PROVE Missed(n)
      OBVIOUS
    <3>1. n \notin ofParent
      BY <2>1, <2>3, <2>4
    <3>2. ASSUME NEW p \in Parents(n), p \notin pass[n] PROVE ~ Kept(p)
      BY <2>3, <3>2 DEF Parents
    <3> QED
      BY <2>4, <3>1, <3>2
  <2>7. Kept(n) => n \in pass[n + 1]
    BY <2>1, <2>3, <2>4
  <2> HIDE DEF Kept, Missed
  <2>8. ASSUME NEW l \in Landmarks
        PROVE  /\ l >= n + 1 => (l \in pass[n + 1] <=> l \in ofParent)
               /\ Kept(l) => l \in pass[n + 1]
               /\ l < n + 1 /\ l \in pass[n + 1] => isNew \/ l \in old
               /\ l < n + 1 /\ l \notin pass[n + 1] => Missed(l)
    <3>1. CASE l = n
      BY <2>4, <2>5, <2>6, <2>7, <3>1
    <3>2. CASE l # n
      BY <2>3, <2>4, <2>5, <3>2
    <3> QED
      BY <3>1, <3>2
  <2> QED
    BY <2>4, <2>8
<1>12. After(NumLandmarks)
  <2>1. Nat \subseteq Good
    <3> HIDE DEF Good
    <3> QED
      BY <1>10, <1>11, NumberInduction
  <2> QED
    BY <1>2, <2>1
<1>13. \A l \in Landmarks : l < NumLandmarks
    BY <1>2 DEF Landmarks
<1> QED
    BY <1>1, <1>12, <1>13

\* There are finitely many landmarks, each with a cost.
LEMMA LandmarksFinite == IsFiniteSet(Landmarks) /\ MinCost \in [Landmarks -> Nat]
<1>1. NumLandmarks \in Nat /\ NumLandmarks - 1 \in Int
    BY LandmarkAssumption
<1>2. IsFiniteSet(0 .. NumLandmarks - 1)
    BY <1>1, FS_Interval
<1> QED
    BY <1>2, LandmarkAssumption DEF Landmarks

\* The costs of landmarks: those of more of them are not less, and those of all are an int.
LEMMA LandmarkCosts ==
    ASSUME NEW U \in SUBSET Landmarks, NEW S \in SUBSET U
    PROVE  LET cost(T) == MapThenSumSet(LAMBDA l : MinCost[l], T)
           IN  cost(S) \in Nat /\ cost(U) \in Nat /\ cost(S) <= cost(U) /\ cost(U) <= Infinity
<1>1. IsFiniteSet(Landmarks) /\ MinCost \in [Landmarks -> Nat]
    BY LandmarksFinite
<1>2. /\ SumOver(MinCost, S) <= SumOver(MinCost, U)
      /\ SumOver(MinCost, U) <= SumOver(MinCost, Landmarks)
  <2>1. SumOver(MinCost, S) <= SumOver(MinCost, U)
    BY <1>1, SumMonotone
  <2>2. Landmarks \in SUBSET Landmarks /\ U \in SUBSET Landmarks
    OBVIOUS
  <2> QED
    BY <1>1, <2>1, <2>2, SumMonotone
<1>3. SumOver(MinCost, Landmarks) <= Infinity
  <2>1. (Landmarks \ {}) \cup NeededAgain({}, NoState) = Landmarks
    BY DEF NeededAgain
  <2>2. LandmarkCost({}, NoState) = SumOver(MinCost, Landmarks)
    BY <2>1 DEF LandmarkCost, SumOver
  <2> QED
    BY <2>2, EagerAssumption
<1>4. \A T \in SUBSET Landmarks : SumOver(MinCost, T) \in Nat
    BY <1>1, SumStep
<1>5. /\ SumOver(MinCost, S) = MapThenSumSet(LAMBDA l : MinCost[l], S)
      /\ SumOver(MinCost, U) = MapThenSumSet(LAMBDA l : MinCost[l], U)
    BY DEF SumOver
<1>6. /\ SumOver(MinCost, S) \in Nat /\ SumOver(MinCost, U) \in Nat
      /\ SumOver(MinCost, Landmarks) \in Nat /\ Infinity \in Nat
    BY <1>4, EagerAssumption
<1>7. SumOver(MinCost, U) <= Infinity
    BY <1>2, <1>3, <1>6
<1> QED
    BY <1>2, <1>5, <1>6, <1>7

\* An estimate is an int, and it is no less when fewer landmarks are reached: the landmarks
\* that are unreached or needed again stay so, and dead ends stay dead ends.
LEMMA EstimateFacts ==
    ASSUME config \in Configurations, NEW s \in States,
           NEW old \in SUBSET Landmarks, NEW r \in SUBSET old
    PROVE  /\ Estimate(s, old) \in 0 .. Infinity
           /\ Estimate(s, r) \in 0 .. Infinity
           /\ Estimate(s, old) <= Estimate(s, r)
<1>1. Infinity \in Nat
    BY EagerAssumption
<1>2. CASE config.heuristic # LmCount
  <2>1. Tables[config.heuristic][s] \in 0 .. Infinity
    BY <1>2, EagerAssumption
  <2> QED
    BY <1>2, <2>1 DEF Estimate
<1>3. CASE config.heuristic = LmCount
  <2> DEFINE ToCome(x) == (Landmarks \ x) \cup NeededAgain(x, s)
             cost(T) == MapThenSumSet(LAMBDA l : MinCost[l], T)
  <2>1. NeededAgain(old, s) \ NeededAgain(r, s) \subseteq Landmarks \ r
    BY DEF NeededAgain
  <2>2. ToCome(old) \in SUBSET ToCome(r) /\ ToCome(r) \in SUBSET Landmarks
    BY <2>1 DEF NeededAgain
  <2>3. /\ cost(ToCome(old)) \in Nat /\ cost(ToCome(r)) \in Nat
        /\ cost(ToCome(old)) <= cost(ToCome(r)) /\ cost(ToCome(r)) <= Infinity
    <3> HIDE DEF ToCome
    <3> QED
      BY <2>2, LandmarkCosts
  <2>4. \A x : LandmarkCost(x, s) = cost(ToCome(x))
    BY DEF LandmarkCost
  <2>5. LandmarkDeadEnd(old, s) => LandmarkDeadEnd(r, s)
    <3>1. ASSUME NEW l \in Landmarks \ old, FirstAchievers[l] = {} PROVE LandmarkDeadEnd(r, s)
      BY <3>1 DEF LandmarkDeadEnd
    <3>2. ASSUME NEW l \in NeededAgain(old, s), PossibleAchievers[l] = {}
          PROVE  LandmarkDeadEnd(r, s)
      <4>1. l \in Landmarks /\ FirstAchievers[l] = {}
        BY <3>2, LandmarkAssumption DEF NeededAgain
      <4>2. l \in NeededAgain(r, s) \/ l \in Landmarks \ r
        BY <2>1, <3>2
      <4> QED
        BY <3>2, <4>1, <4>2 DEF LandmarkDeadEnd
    <3> QED
      BY <3>1, <3>2 DEF LandmarkDeadEnd
  <2> HIDE DEF cost, ToCome
  <2>6. LandmarkCost(old, s) \in Nat /\ LandmarkCost(r, s) \in Nat
        /\ LandmarkCost(old, s) <= LandmarkCost(r, s) /\ LandmarkCost(r, s) <= Infinity
    BY <2>3, <2>4
  <2>7. LandmarkCost(old, s) <= Infinity
    BY <1>1, <2>6
  <2> QED
    BY <1>1, <1>3, <2>5, <2>6, <2>7 DEF Estimate
<1> QED
    BY <1>2, <1>3

\* The open list of an open state holds an entry that is not out of date; what an entry
\* says of a state was true when it was inserted, and g-values only fall.
ReachedTyped == reached \in [States -> SUBSET Landmarks]

UpToDate(e, s) ==
    /\ e.state = s
    /\ e.h <= Estimate(s, reached[s])
    /\ config.reopen => e.key = Key(g[s], e.h)

OpenHasEntry ==
    \A s \in States : status[s] = "OPEN" => \E i \in 1 .. Len(open) : UpToDate(open[i], s)

EntriesValued ==
    \A i \in 1 .. Len(open) :
       /\ open[i].h \in Nat
       /\ \E v \in Nat : g[open[i].state] <= v /\ open[i].key = Key(v, open[i].h)

QueueInv == ReachedTyped /\ OpenHasEntry /\ EntriesValued

\* An entry of a state with its g-value and its estimate of now.
FreshEntry(s) == Entry(s, g[s], reached[s])

\* What a step does to the open list: the entries were there or are fresh, and those of open
\* states stay unless a fresh one joins them.
LEMMA QueueKept ==
    ASSUME EagerInv, QueueInv, EagerInv', ReachedTyped', config' = config,
           \A s \in States : status[s] # "NEW" => g'[s] <= g[s],
           \A k \in 1 .. Len(open') :
              \/ \E j \in 1 .. Len(open) : open'[k] = open[j]
              \/ \E s \in States : g'[s] \in Nat /\ open'[k] = FreshEntry(s)',
           \A s \in States : status'[s] = "OPEN" =>
              \/ \E k \in 1 .. Len(open') : open'[k] = FreshEntry(s)'
              \/ /\ status[s] = "OPEN"
                 /\ config.reopen => g'[s] = g[s]
                 /\ reached'[s] \subseteq reached[s]
                 /\ \A j \in 1 .. Len(open) : open[j].state = s =>
                       \E k \in 1 .. Len(open') : open'[k] = open[j]
    PROVE  QueueInv'
<1>1. config \in Configurations /\ config' \in Configurations
    BY DEF EagerInv, NodesTyped
<1>2. \A s \in States : \A x : Estimate(s, x)' = Estimate(s, x)
    BY DEF Estimate
<1>3. \A v, h : Key(v, h)' = Key(v, h)
    BY DEF Key
<1>4. \A s \in States : Estimate(s, reached'[s]) \in Nat
    BY <1>1, EstimateFacts, SizeOfStates DEF ReachedTyped
<1>5. ASSUME NEW s \in States
      PROVE  /\ FreshEntry(s)'.state = s
             /\ FreshEntry(s)'.h = Estimate(s, reached'[s])
             /\ FreshEntry(s)'.key = Key(g'[s], Estimate(s, reached'[s]))
  <2>1. FreshEntry(s)' = [key |-> Key(g'[s], Estimate(s, reached'[s])),
                          h |-> Estimate(s, reached'[s]), state |-> s]
    BY <1>2, <1>3 DEF FreshEntry, Entry, Key, Estimate
  <2> QED
    BY <2>1
<1>6. ASSUME NEW s \in States, status'[s] = "OPEN"
      PROVE  \E k \in 1 .. Len(open') :
                /\ open'[k].state = s
                /\ open'[k].h <= Estimate(s, reached'[s])
                /\ config.reopen => open'[k].key = Key(g'[s], open'[k].h)
  <2>1. CASE \E k \in 1 .. Len(open') : open'[k] = FreshEntry(s)'
    <3>1. PICK k \in 1 .. Len(open') : open'[k] = FreshEntry(s)'
      BY <2>1
    <3>2. /\ open'[k].state = s
          /\ open'[k].h = Estimate(s, reached'[s])
          /\ open'[k].key = Key(g'[s], open'[k].h)
      BY <1>5, <3>1
    <3> QED
      BY <1>4, <3>2
  <2>2. CASE /\ status[s] = "OPEN"
             /\ config.reopen => g'[s] = g[s]
             /\ reached'[s] \subseteq reached[s]
             /\ \A j \in 1 .. Len(open) : open[j].state = s =>
                   \E k \in 1 .. Len(open') : open'[k] = open[j]
    <3>1. PICK j \in 1 .. Len(open) : UpToDate(open[j], s)
      BY <2>2 DEF QueueInv, OpenHasEntry
    <3>2. PICK k \in 1 .. Len(open') : open'[k] = open[j]
      BY <2>2, <3>1 DEF UpToDate
    <3>3. reached[s] \in SUBSET Landmarks /\ reached'[s] \in SUBSET reached[s]
      BY <2>2 DEF QueueInv, ReachedTyped
    <3>4. /\ Estimate(s, reached[s]) <= Estimate(s, reached'[s])
          /\ Estimate(s, reached[s]) \in Nat /\ Estimate(s, reached'[s]) \in Nat
      <4>1. Estimate(s, reached[s]) \in 0 .. Infinity /\ Estimate(s, reached'[s]) \in 0 .. Infinity
        BY <1>1, <3>3, EstimateFacts
      <4> QED
        BY <1>1, <3>3, <4>1, EstimateFacts, SizeOfStates
    <3>5. open[j].h \in Nat
      BY DEF QueueInv, EntriesValued
    <3>6. open'[k].h <= Estimate(s, reached'[s])
      BY <3>1, <3>2, <3>4, <3>5 DEF UpToDate
    <3>7. config.reopen => open'[k].key = Key(g'[s], open'[k].h)
      BY <2>2, <3>1, <3>2 DEF UpToDate
    <3> QED
      BY <3>1, <3>2, <3>6, <3>7 DEF UpToDate
  <2> QED
    BY <1>6, <2>1, <2>2
<1>7. ASSUME NEW k \in 1 .. Len(open')
      PROVE  /\ open'[k].h \in Nat
             /\ \E v \in Nat : g'[open'[k].state] <= v /\ open'[k].key = Key(v, open'[k].h)
  <2>1. CASE \E j \in 1 .. Len(open) : open'[k] = open[j]
    <3>1. PICK j \in 1 .. Len(open) : open'[k] = open[j]
      BY <2>1
    <3>2. PICK v \in Nat : g[open[j].state] <= v /\ open[j].key = Key(v, open[j].h)
      BY DEF QueueInv, EntriesValued
    <3>3. open[j].state \in States /\ status[open[j].state] # "NEW" /\ open[j].h \in Nat
      BY DEF EagerInv, EntriesOpened, QueueInv, EntriesValued
    <3>4. g[open[j].state] \in Nat \cup {-1} /\ g'[open[j].state] \in Nat \cup {-1}
      BY <3>3 DEF EagerInv, NodesTyped
    <3>5. g'[open[j].state] <= v
      BY <3>2, <3>3, <3>4
    <3> QED
      BY <3>1, <3>2, <3>3, <3>5
  <2>2. CASE \E s \in States : g'[s] \in Nat /\ open'[k] = FreshEntry(s)'
    <3>1. PICK s \in States : g'[s] \in Nat /\ open'[k] = FreshEntry(s)'
      BY <2>2
    <3> QED
      BY <1>4, <1>5, <3>1
  <2> QED
    BY <2>1, <2>2
<1>8. OpenHasEntry'
    BY <1>6 DEF OpenHasEntry, UpToDate, Estimate, Key
<1>9. EntriesValued'
    BY <1>3, <1>7 DEF EntriesValued, Key
<1> QED
    BY <1>8, <1>9 DEF QueueInv

\* The other entries stay when one is removed, and all when one is appended.
LEMMA RemovedKeeps ==
    ASSUME NEW S, open \in Seq(S), NEW i \in 1 .. Len(open), NEW j \in 1 .. Len(open), j # i
    PROVE  \E k \in 1 .. Len(Removed(i)) : Removed(i)[k] = open[j]
<1>1. Len(open) \in Nat /\ Len(open) - 1 \in Nat
    OBVIOUS
<1>2. Removed(i) \in Seq(S)
    BY RemovedFacts
<1>3. DOMAIN Removed(i) = 1 .. Len(open) - 1
    BY DEF Removed
<1>4. Len(Removed(i)) = Len(open) - 1
    BY <1>1, <1>2, <1>3
<1>5. CASE j < i
  <2>1. j \in 1 .. Len(open) - 1 /\ Removed(i)[j] = open[j]
    BY <1>1, <1>5 DEF Removed
  <2> QED
    BY <1>4, <2>1
<1>6. CASE j > i
  <2>1. j - 1 \in 1 .. Len(open) - 1 /\ Removed(i)[j - 1] = open[j]
    BY <1>1, <1>6 DEF Removed
  <2> QED
    BY <1>4, <2>1
<1> QED
    BY <1>1, <1>5, <1>6

LEMMA AppendKeeps ==
    ASSUME NEW S, NEW o \in Seq(S), NEW e
    PROVE  /\ \A j \in 1 .. Len(o) : \E k \in 1 .. Len(Append(o, e)) : Append(o, e)[k] = o[j]
           /\ \E k \in 1 .. Len(Append(o, e)) : Append(o, e)[k] = e
<1>1. Len(o) \in Nat /\ Len(Append(o, e)) = Len(o) + 1
    OBVIOUS
<1>2. \A j \in 1 .. Len(o) : j \in 1 .. Len(Append(o, e)) /\ Append(o, e)[j] = o[j]
    BY <1>1
<1>3. Append(o, e)[Len(o) + 1] = e /\ Len(o) + 1 \in 1 .. Len(Append(o, e))
    BY <1>1
<1> QED
    BY <1>2, <1>3

\* What a transition tells the landmark heuristic about its successor.
LEMMA NotifiedFacts ==
    ASSUME ReachedTyped, NEW s \in States, NEW t \in States
    PROVE  /\ Notified(s, t) \in [States -> SUBSET Landmarks]
           /\ status[t] # "NEW" => Notified(s, t)[t] \subseteq reached[t]
           /\ \A u \in States : u # t => Notified(s, t)[u] = reached[u]
<1>1. /\ UpdateReached(reached[s], status[t] = "NEW", reached[t], t) \in SUBSET Landmarks
      /\ status[t] # "NEW" =>
            UpdateReached(reached[s], status[t] = "NEW", reached[t], t) \subseteq reached[t]
  <2>1. reached[s] \in SUBSET Landmarks /\ (status[t] = "NEW") \in BOOLEAN
    BY DEF ReachedTyped
  <2> DEFINE isNew == status[t] = "NEW"
  <2> HIDE DEF isNew
  <2>2. isNew \in BOOLEAN
    BY <2>1 DEF isNew
  <2>3. /\ UpdateReached(reached[s], isNew, reached[t], t) \in SUBSET Landmarks
        /\ ~ isNew => UpdateReached(reached[s], isNew, reached[t], t) \subseteq reached[t]
    BY <2>1, <2>2, UpdateReachedFacts
  <2> QED
    BY <2>3 DEF isNew
<1> QED
    BY <1>1 DEF Notified, ReachedTyped

\* The steps that leave the g-values and what paths have reached alone, and open no state.
LEMMA QueueKeptByFetch ==
    ASSUME EagerInv, QueueInv, EagerInv', config' = config, g' = g, reached' = reached,
           \/ open' = open
           \/ \E i \in 1 .. Len(open) : open' = Removed(i) /\ status'[open[i].state] # "OPEN"
           \/ \E i \in 1 .. Len(open) :
                 /\ open' = Append(Removed(i), FreshEntry(open[i].state))
                 /\ g[open[i].state] \in Nat,
           \A s \in States : status'[s] = "OPEN" => status[s] = "OPEN"
    PROVE  QueueInv'
<1>1. ReachedTyped'
    BY DEF QueueInv, ReachedTyped
<1>2. \A s \in States : g[s] \in Int
    BY DEF EagerInv, NodesTyped
<1>3. PICK S : open \in Seq(S)
    BY DEF EagerInv, EntriesOpened
<1>4. \A s : FreshEntry(s)' = FreshEntry(s)
    BY DEF FreshEntry, Entry, Key, Estimate
<1>5. CASE open' = open
    BY <1>1, <1>2, <1>5, QueueKept
<1>6. ASSUME NEW i \in 1 .. Len(open), open' = Removed(i), status'[open[i].state] # "OPEN"
      PROVE  QueueInv'
  <2>1. \A k \in 1 .. Len(open') : \E j \in 1 .. Len(open) : open'[k] = open[j]
    BY <1>3, <1>6, RemovedFacts
  <2>2. ASSUME NEW s \in States, status'[s] = "OPEN",
               NEW j \in 1 .. Len(open), open[j].state = s
        PROVE  \E k \in 1 .. Len(open') : open'[k] = open[j]
    BY <1>3, <1>6, <2>2, RemovedKeeps
  <2> QED
    BY <1>1, <1>2, <2>1, <2>2, QueueKept
<1>7. ASSUME NEW i \in 1 .. Len(open), g[open[i].state] \in Nat,
             open' = Append(Removed(i), FreshEntry(open[i].state))
      PROVE  QueueInv'
  <2>0. PICK t \in States : t = open[i].state
    BY DEF EagerInv, EntriesOpened
  <2>1. Removed(i) \in Seq(S)
    BY <1>3, RemovedFacts
  <2>2. /\ \A k \in 1 .. Len(open') :
              open'[k] = FreshEntry(t) \/ \E j \in 1 .. Len(Removed(i)) : open'[k] = Removed(i)[j]
        /\ \A j \in 1 .. Len(Removed(i)) : \E k \in 1 .. Len(open') : open'[k] = Removed(i)[j]
        /\ \E k \in 1 .. Len(open') : open'[k] = FreshEntry(t)
    BY <1>7, <2>0, <2>1, AppendFacts, AppendKeeps
  <2>3. \A k \in 1 .. Len(open') :
           \/ \E j \in 1 .. Len(open) : open'[k] = open[j]
           \/ \E s \in States : g'[s] \in Nat /\ open'[k] = FreshEntry(s)'
    <3> SUFFICES ASSUME NEW k \in 1 .. Len(open')
                 PROVE  \/ \E j \in 1 .. Len(open) : open'[k] = open[j]
                        \/ \E s \in States : g'[s] \in Nat /\ open'[k] = FreshEntry(s)'
      OBVIOUS
    <3>1. FreshEntry(t)' = FreshEntry(t) /\ g'[t] \in Nat
      BY <1>4, <1>7, <2>0
    <3>2. CASE open'[k] = FreshEntry(t)
      BY <3>1, <3>2
    <3>3. CASE \E j \in 1 .. Len(Removed(i)) : open'[k] = Removed(i)[j]
      BY <1>3, <3>3, RemovedFacts
    <3> QED
      BY <2>2, <3>2, <3>3
  <2>4. ASSUME NEW s \in States, s # t, NEW j \in 1 .. Len(open), open[j].state = s
        PROVE  \E k \in 1 .. Len(open') : open'[k] = open[j]
    <3>1. \E k \in 1 .. Len(Removed(i)) : Removed(i)[k] = open[j]
      BY <1>3, <2>0, <2>4, RemovedKeeps
    <3> QED
      BY <2>2, <3>1
  <2>5. \E k \in 1 .. Len(open') : open'[k] = FreshEntry(t)'
    BY <1>4, <2>2
  <2>6. \A s \in States : status'[s] = "OPEN" =>
              \/ \E k \in 1 .. Len(open') : open'[k] = FreshEntry(s)'
              \/ /\ status[s] = "OPEN"
                 /\ config.reopen => g'[s] = g[s]
                 /\ reached'[s] \subseteq reached[s]
                 /\ \A j \in 1 .. Len(open) : open[j].state = s =>
                       \E k \in 1 .. Len(open') : open'[k] = open[j]
    BY <2>4, <2>5
  <2> QED
    BY <1>1, <1>2, <2>3, <2>6, QueueKept
<1> QED
    BY <1>5, <1>6, <1>7

\* The steps of the loop of fetch_next_node, the expansion of a state and the end of a step.
LEMMA FetchKeepsQueue ==
    ASSUME EagerInv, QueueInv, EagerInv', Fetch \/ StepDone \/ UNCHANGED vars
    PROVE  QueueInv'
<1>1. config' = config /\ g' = g /\ reached' = reached
    BY DEF Fetch, Exhausted, SkipClosed, SkipDeadEnd, BecomeDeadEnd, InsertAgain, Expand,
           StepDone, vars, node
<1>2. CASE Exhausted \/ StepDone \/ UNCHANGED vars
  <2>1. open' = open /\ status' = status
    BY <1>2 DEF Exhausted, StepDone, vars, node
  <2> QED
    BY <1>1, <2>1, QueueKeptByFetch
<1>3. CASE SkipClosed \/ SkipDeadEnd
  <2>1. PICK i \in 1 .. Len(open) :
           open' = Removed(i) /\ status[open[i].state] # "OPEN" /\ status' = status
    BY <1>3 DEF SkipClosed, SkipDeadEnd, node
  <2> QED
    BY <1>1, <2>1, QueueKeptByFetch
<1>4. CASE BecomeDeadEnd \/ Expand
  <2>1. PICK i \in 1 .. Len(open) :
           /\ open' = Removed(i)
           /\ \/ status' = [status EXCEPT ![open[i].state] = "DEAD_END"]
              \/ status' = [status EXCEPT ![open[i].state] = "CLOSED"]
    BY <1>4 DEF BecomeDeadEnd, Expand
  <2>2. open[i].state \in States /\ status \in [States -> Statuses]
    BY DEF EagerInv, EntriesOpened, NodesTyped
  <2>3. status'[open[i].state] # "OPEN"
        /\ \A s \in States : status'[s] = "OPEN" => status[s] = "OPEN"
    BY <2>1, <2>2
  <2> QED
    BY <1>1, <2>1, <2>3, QueueKeptByFetch
<1>5. CASE InsertAgain
  <2>1. PICK i \in 1 .. Len(open) :
           /\ status[open[i].state] \notin {"CLOSED", "DEAD_END"}
           /\ open' = Append(Removed(i), FreshEntry(open[i].state))
           /\ status' = status
    BY <1>5 DEF InsertAgain, FreshEntry, node
  <2>2. g[open[i].state] \in Nat
    BY <2>1 DEF EagerInv, EntriesOpened, OpenNodesReached
  <2> QED
    BY <1>1, <2>1, <2>2, QueueKeptByFetch
<1> QED
    BY <1>2, <1>3, <1>4, <1>5 DEF Fetch

\* The initial state is opened with an entry, if at all.
LEMMA InitializeKeepsQueue ==
    ASSUME EagerInv, QueueInv, EagerInv', Initialize
    PROVE  QueueInv'
<1>1. /\ config' = config
      /\ reached' = [reached EXCEPT ![InitialState] = InitiallyReached(InitialState)]
      /\ \A s \in States : status[s] = "NEW"
    BY DEF Initialize, EagerInv, NothingYet
<1>2. ReachedTyped'
  <2>1. InitiallyReached(InitialState) \in SUBSET Landmarks
    BY DEF InitiallyReached
  <2> QED
    BY <1>1, <2>1 DEF QueueInv, ReachedTyped
<1>3. CASE UNCHANGED <<node, open>>
  <2>1. open' = open /\ status' = status /\ g' = g
    BY <1>3 DEF node
  <2> QED
    BY <1>1, <1>2, <2>1, QueueKept
<1>4. CASE /\ status' = [status EXCEPT ![InitialState] = "OPEN"]
           /\ g' = [g EXCEPT ![InitialState] = 0]
           /\ open' = << Entry(InitialState, 0, reached'[InitialState]) >>
  <2>1. /\ InitialState \in States /\ g'[InitialState] = 0
        /\ \A s \in States : status'[s] = "OPEN" => s = InitialState
    BY <1>1, <1>4, EagerAssumption DEF EagerInv, NodesTyped
  <2>2. FreshEntry(InitialState)' = Entry(InitialState, 0, reached'[InitialState])
    BY <1>1, <2>1 DEF FreshEntry, Entry, Key, Estimate
  <2>3. open' = << FreshEntry(InitialState)' >>
    BY <1>4, <2>2
  <2>4. Len(open') = 1 /\ open'[1] = FreshEntry(InitialState)'
    BY <2>3
  <2>5. \A k \in 1 .. Len(open') : open'[k] = FreshEntry(InitialState)'
    BY <2>4
  <2>6. \E k \in 1 .. Len(open') : open'[k] = FreshEntry(InitialState)'
    BY <2>4
  <2> QED
    BY <1>1, <1>2, <2>1, <2>5, <2>6, QueueKept
<1> QED
    BY <1>3, <1>4 DEF Initialize

\* Looking at an operator opens or reopens its successor with an entry, or leaves the entries
\* of all states and the g-values they are keyed by.
LEMMA GenerateKeepsQueue ==
    ASSUME EagerInv, QueueInv, EagerInv', NEW op \in Operators, Generate(op)
    PROVE  QueueInv'
<1>0. PICK t \in States : t = Successor(current, op)
  <2>1. Look(op)
    BY DEF Generate, SkipOperator, NewDeadEnd, OpenNew, Reopen, UpdateParent, NoCheaper
  <2> QED
    BY <2>1, LookFacts
<1>1. /\ config' = config /\ current \in States /\ g[current] \in Nat
      /\ AdjustedCost(op) \in Nat
  <2>1. Look(op) /\ config' = config
    BY DEF Generate, SkipOperator, NewDeadEnd, OpenNew, Reopen, UpdateParent, NoCheaper
  <2>2. op \in Applicable(current) /\ current \in States /\ g[current] \in Nat
    BY <2>1, LookFacts
  <2> QED
    BY <2>1, <2>2, SuccessorInTask DEF AdjustedCost
<1>2. /\ status \in [States -> Statuses] /\ g \in [States -> Nat \cup {-1}]
      /\ reached \in [States -> SUBSET Landmarks] /\ ReachedTyped
    BY DEF EagerInv, NodesTyped, QueueInv, ReachedTyped
<1>3. PICK S : open \in Seq(S)
    BY DEF EagerInv, EntriesOpened
<1>4. \A s \in States : g[s] \in Int
    BY <1>2
<1>5. CASE SkipOperator(op)
  <2>1. open' = open /\ status' = status /\ g' = g /\ reached' = reached
    BY <1>5 DEF SkipOperator, node
  <2> QED
    BY <1>1, <2>1, QueueKeptByFetch
<1>6. CASE NewDeadEnd(op) \/ NoCheaper(op)
  <2>1. /\ open' = open /\ g' = g /\ reached' = Notified(current, t)
        /\ \/ status[t] = "NEW" /\ status' = [status EXCEPT ![t] = "DEAD_END"]
           \/ status[t] # "NEW" /\ status' = status
    BY <1>0, <1>6 DEF NewDeadEnd, NoCheaper, node
  <2>2. reached' \in [States -> SUBSET Landmarks] /\ ReachedTyped'
    BY <1>0, <1>1, <1>2, <2>1, NotifiedFacts DEF ReachedTyped
  <2>3. ASSUME NEW s \in States, status'[s] = "OPEN"
        PROVE  status[s] = "OPEN" /\ reached'[s] \subseteq reached[s]
    <3>1. CASE s = t
      BY <1>0, <1>1, <1>2, <2>1, <2>3, <3>1, NotifiedFacts
    <3>2. CASE s # t
      BY <1>0, <1>1, <1>2, <2>1, <2>3, <3>2, NotifiedFacts
    <3> QED
      BY <3>1, <3>2
  <2> QED
    BY <1>1, <1>4, <2>1, <2>2, <2>3, QueueKept
<1>7. CASE OpenNew(op) \/ Reopen(op)
  <2>1. /\ reached' = Notified(current, t)
        /\ status' = [status EXCEPT ![t] = "OPEN"]
        /\ g' = [g EXCEPT ![t] = g[current] + AdjustedCost(op)]
        /\ open' = Append(open, Entry(t, g'[t], reached'[t]))
        /\ status[t] # "NEW" => g[t] > g[current] + AdjustedCost(op)
    BY <1>0, <1>7 DEF OpenNew, Reopen, SetPath, Opened, Cheaper
  <2>2. reached' \in [States -> SUBSET Landmarks] /\ ReachedTyped'
    BY <1>0, <1>1, <1>2, <2>1, NotifiedFacts DEF ReachedTyped
  <2>3. FreshEntry(t)' = Entry(t, g'[t], reached'[t])
    BY <1>1 DEF FreshEntry, Entry, Key, Estimate
  <2>4. /\ \A k \in 1 .. Len(open') :
              open'[k] = FreshEntry(t)' \/ \E j \in 1 .. Len(open) : open'[k] = open[j]
        /\ \A j \in 1 .. Len(open) : \E k \in 1 .. Len(open') : open'[k] = open[j]
        /\ \E k \in 1 .. Len(open') : open'[k] = FreshEntry(t)'
    BY <1>3, <2>1, <2>3, AppendFacts, AppendKeeps
  <2>5. g'[t] \in Nat /\ \A s \in States : status[s] # "NEW" => g'[s] <= g[s]
    BY <1>1, <1>2, <1>4, <2>1
  <2>6. \A k \in 1 .. Len(open') :
           \/ \E j \in 1 .. Len(open) : open'[k] = open[j]
           \/ \E s \in States : g'[s] \in Nat /\ open'[k] = FreshEntry(s)'
    BY <2>4, <2>5
  <2>7. ASSUME NEW s \in States, status'[s] = "OPEN", s # t
        PROVE  status[s] = "OPEN" /\ g'[s] = g[s] /\ reached'[s] \subseteq reached[s]
    BY <1>0, <1>1, <1>2, <2>1, <2>7, NotifiedFacts
  <2>8. \A s \in States : status'[s] = "OPEN" =>
              \/ \E k \in 1 .. Len(open') : open'[k] = FreshEntry(s)'
              \/ /\ status[s] = "OPEN"
                 /\ config.reopen => g'[s] = g[s]
                 /\ reached'[s] \subseteq reached[s]
                 /\ \A j \in 1 .. Len(open) : open[j].state = s =>
                       \E k \in 1 .. Len(open') : open'[k] = open[j]
    BY <2>4, <2>7
  <2> QED
    BY <1>1, <2>2, <2>5, <2>6, <2>8, QueueKept
<1>8. CASE UpdateParent(op)
  <2>1. /\ open' = open /\ reached' = reached /\ status' = status /\ ~ config.reopen
        /\ g' = [g EXCEPT ![t] = g[current] + AdjustedCost(op)]
        /\ g[t] > g[current] + AdjustedCost(op)
    BY <1>0, <1>8 DEF UpdateParent, SetPath, Cheaper
  <2>2. \A s \in States : g'[s] <= g[s]
    BY <1>1, <1>2, <1>4, <2>1
  <2>3. ReachedTyped'
    BY <1>2, <2>1 DEF ReachedTyped
  <2> QED
    BY <1>1, <2>1, <2>2, <2>3, QueueKept
<1> QED
    BY <1>5, <1>6, <1>7, <1>8 DEF Generate

\* The open list of every reachable state.
LEMMA QueueInvariant == Spec => []QueueInv
<1>1. Init => QueueInv
  <2> SUFFICES ASSUME Init PROVE QueueInv
    OBVIOUS
  <2>1. Len(open) = 0 /\ \A s \in States : status[s] = "NEW"
    BY DEF Init
  <2>2. 1 .. Len(open) = {}
    BY <2>1
  <2> QED
    BY <2>1, <2>2 DEF Init, QueueInv, ReachedTyped, OpenHasEntry, EntriesValued
<1>2. EagerInv /\ QueueInv /\ EagerInv' /\ [Next]_vars => QueueInv'
    BY FetchKeepsQueue, InitializeKeepsQueue, GenerateKeepsQueue DEF Next, Terminated
<1> QED
    BY <1>1, <1>2, EagerInvariant, PTL DEF Spec

\* No open state is forgotten: in every reachable state, for every heuristic that depends on
\* the state or counts landmarks, each open state has an entry that no change of its g-value
\* or its estimate has made too high, and no entry is of a state that was never opened.
THEOREM OpenListIsComplete == Spec => []OpenListComplete
<1>1. EagerInv /\ QueueInv => OpenListComplete
  <2> SUFFICES ASSUME EagerInv, QueueInv PROVE OpenListComplete
    OBVIOUS
  <2>1. \A i \in 1 .. Len(open) :
           status[open[i].state] \in {"OPEN", "CLOSED"} \cup IF config.mpd THEN {"DEAD_END"} ELSE {}
    BY DEF EagerInv, EntriesOpened
  <2> QED
    BY <2>1 DEF OpenListComplete, QueueInv, OpenHasEntry, UpToDate
<1> QED
    BY <1>1, EagerInvariant, QueueInvariant, PTL

-----------------------------------------------------------------------------
(* Plans.                                                                  *)

\* How a node was reached: it is the initial state, or its creating operator leads to it from
\* its parent, which has a g-value that leaves room for the operator.
RootLink(s) ==
    s = InitialState /\ g[s] = 0 /\ realG[s] = 0 /\ parent[s] = NoState /\ creator[s] = NoOperator

ParentLink(s) ==
    /\ s # InitialState
    /\ parent[s] \in States /\ g[parent[s]] \in Nat
    /\ creator[s] \in Applicable(parent[s])
    /\ Successor(parent[s], creator[s]) = s
    /\ g[parent[s]] + AdjustedCost(creator[s]) <= g[s]
    /\ realG[s] < config.bound

Links == \A s \in States : g[s] \in Nat => RootLink(s) \/ ParentLink(s)

RootFirst == \A s \in States : g[s] \in Nat => g[InitialState] \in Nat

\* Without a cost_type the g-values are real costs.
RealCosts == config.costType = "NORMAL" => \A s \in States : realG[s] = g[s]

\* A goal state that is closed ends the search.
GoalEnds ==
    /\ \A s \in Goal : status[s] = "CLOSED" => phase = "solved"
    /\ phase = "solved" => current \in Goal /\ status[current] = "CLOSED"

CreatorTyped == creator \in [States -> Operators \cup {NoOperator}]

\* A node without a g-value has not been written.
Untouched == \A s \in States : g[s] = -1 => parent[s] = NoState /\ creator[s] = NoOperator

PathInv == CreatorTyped /\ Untouched /\ Links /\ RootFirst /\ RealCosts /\ GoalEnds

\* Links and real costs do not change with the other parts of a node.
LEMMA LinksKept ==
    ASSUME EagerInv, PathInv, UNCHANGED <<config, g, realG, parent, creator>>
    PROVE  CreatorTyped' /\ Untouched' /\ Links' /\ RootFirst' /\ RealCosts'
<1>1. ASSUME NEW s \in States, g'[s] \in Nat PROVE RootLink(s)' \/ ParentLink(s)'
  <2>1. RootLink(s) \/ ParentLink(s)
    BY <1>1 DEF PathInv, Links
  <2>2. RootLink(s) => RootLink(s)'
    BY DEF RootLink
  <2>3. ParentLink(s) => ParentLink(s)'
    BY DEF ParentLink, Applicable, Successor, AdjustedCost
  <2> QED
    BY <2>1, <2>2, <2>3
<1>2. Links'
    BY <1>1 DEF Links
<1> QED
    BY <1>2 DEF PathInv, CreatorTyped, Untouched, RootFirst, RealCosts

\* A new or cheaper path links its last state to the state that is expanded.
LEMMA PathChangeKeepsLinks ==
    ASSUME EagerInv, PathInv, EagerInv', NEW op \in Operators,
           OpenNew(op) \/ Reopen(op) \/ UpdateParent(op)
    PROVE  CreatorTyped' /\ Untouched' /\ Links' /\ RootFirst' /\ RealCosts'
<1>1. Look(op) /\ config' = config /\ ~ Cutoff(op) /\ SetPath(Successor(current, op), op)
    BY DEF OpenNew, Reopen, UpdateParent
<1>2. /\ current \in States /\ status[current] = "CLOSED"
      /\ g[current] \in Nat /\ realG[current] \in Nat
      /\ op \in Applicable(current)
      /\ Successor(current, op) \in States
      /\ AdjustedCost(op) \in Nat /\ Cost[op] \in Nat
    BY <1>1, LookFacts
<1>3. PICK t \in States : t = Successor(current, op)
    BY <1>2
<1>4. /\ g' = [g EXCEPT ![t] = g[current] + AdjustedCost(op)]
      /\ realG' = [realG EXCEPT ![t] = realG[current] + Cost[op]]
      /\ parent' = [parent EXCEPT ![t] = current]
      /\ creator' = [creator EXCEPT ![t] = op]
    BY <1>1, <1>3 DEF SetPath
<1>5. status[t] = "NEW" \/ g[t] > g[current] + AdjustedCost(op)
    BY <1>3 DEF OpenNew, Reopen, UpdateParent, Cheaper
<1>6. /\ g \in [States -> Nat \cup {-1}] /\ realG \in [States -> Nat \cup {-1}]
      /\ parent \in [States -> States \cup {NoState}]
      /\ config.bound \in Nat /\ config.costType \in {"NORMAL", "ONE", "PLUSONE"}
    BY EagerAssumption DEF EagerInv, NodesTyped
<1>7. status[t] = "NEW" => g[t] = -1
    BY DEF EagerInv, OpenNodesReached
<1>8. g[InitialState] = 0 /\ InitialState \in States
  <2>1. InitialState \in States /\ g[InitialState] \in Nat
    BY <1>2, EagerAssumption DEF PathInv, RootFirst
  <2> QED
    BY <2>1 DEF PathInv, Links, RootLink, ParentLink
<1>9. t # InitialState /\ t # current
    BY <1>2, <1>5, <1>6, <1>7, <1>8
<1>10. \A s \in States : g[s] \in Nat => g'[s] \in Nat /\ g'[s] <= g[s]
    BY <1>2, <1>4, <1>5, <1>6, <1>7
<1>11. g'[current] = g[current] /\ g'[t] = g[current] + AdjustedCost(op)
    BY <1>2, <1>3, <1>4, <1>6, <1>9
<1>12. \A s \in States : s # t =>
          /\ g'[s] = g[s] /\ realG'[s] = realG[s] /\ parent'[s] = parent[s] /\ creator'[s] = creator[s]
    BY <1>4, <1>6
<1>13. AdjustedCost(op)' = AdjustedCost(op)
    BY <1>1 DEF AdjustedCost
<1>14. creator \in [States -> Operators \cup {NoOperator}]
    BY DEF PathInv, CreatorTyped
<1>15. parent'[t] = current /\ creator'[t] = op /\ realG'[t] = realG[current] + Cost[op]
    BY <1>4, <1>6, <1>14
<1>16. ASSUME NEW s \in States, s # t, g'[s] \in Nat PROVE RootLink(s)' \/ ParentLink(s)'
  <2>1. /\ g'[s] = g[s] /\ realG'[s] = realG[s]
        /\ parent'[s] = parent[s] /\ creator'[s] = creator[s]
    BY <1>12, <1>16
  <2>2. CASE RootLink(s)
    BY <2>1, <2>2 DEF RootLink
  <2>3. CASE ParentLink(s)
    <3>1. /\ parent[s] \in States /\ g[parent[s]] \in Nat
          /\ creator[s] \in Applicable(parent[s])
          /\ g[parent[s]] + AdjustedCost(creator[s]) <= g[s]
      BY <2>3 DEF ParentLink
    <3>2. AdjustedCost(creator[s]) \in Nat /\ AdjustedCost(creator[s])' = AdjustedCost(creator'[s])
      BY <1>1, <3>1, SuccessorInTask DEF AdjustedCost
    <3>3. AdjustedCost(creator'[s]) = AdjustedCost(creator[s])
      BY <2>1
    <3>4. g'[parent[s]] \in Nat /\ g'[parent[s]] <= g[parent[s]]
      BY <1>10, <3>1
    <3>5. g'[parent'[s]] + AdjustedCost(creator[s]) <= g'[s]
      BY <1>6, <2>1, <3>1, <3>2, <3>4
    <3> QED
      BY <1>1, <2>1, <2>3, <3>4, <3>5 DEF ParentLink, AdjustedCost, Applicable, Successor
  <2> QED
    BY <1>16, <2>1, <2>2, <2>3 DEF PathInv, Links
<1>17. ParentLink(t)'
  <2>1. realG[current] + Cost[op] < config.bound
    BY <1>1, <1>2, <1>6 DEF Cutoff
  <2>2. g'[current] + AdjustedCost(op) <= g'[t]
    BY <1>2, <1>11
  <2> QED
    BY <1>1, <1>2, <1>3, <1>9, <1>11, <1>15, <2>1, <2>2
    DEF ParentLink, AdjustedCost, Applicable, Successor
<1>18. Links'
    BY <1>16, <1>17 DEF Links
<1>19. RootFirst'
  <2>1. g'[InitialState] \in Nat
    BY <1>8, <1>9, <1>12
  <2> QED
    BY <2>1 DEF RootFirst
<1>20. RealCosts'
  <2> SUFFICES ASSUME config.costType = "NORMAL", NEW s \in States PROVE realG'[s] = g'[s]
    BY <1>1 DEF RealCosts
  <2>1. AdjustedCost(op) = Cost[op] /\ realG[s] = g[s] /\ realG[current] = g[current]
    BY <1>2 DEF AdjustedCost, AdjustedActionCost, PathInv, RealCosts
  <2>2. CASE s = t
    BY <1>11, <1>15, <2>1, <2>2
  <2>3. CASE s # t
    BY <1>12, <2>1, <2>3
  <2> QED
    BY <2>2, <2>3
<1>21. CreatorTyped'
    BY <1>2, <1>4, <1>14 DEF CreatorTyped, Applicable
<1>22. Untouched'
  <2> SUFFICES ASSUME NEW s \in States, g'[s] = -1
               PROVE  parent'[s] = NoState /\ creator'[s] = NoOperator
    BY DEF Untouched
  <2>1. s # t
    BY <1>2, <1>11
  <2> QED
    BY <1>12, <2>1 DEF PathInv, Untouched
<1> QED
    BY <1>18, <1>19, <1>20, <1>21, <1>22

\* How every reachable state was reached.
LEMMA PathInvariant == Spec => []PathInv
<1>1. Init => PathInv
  <2> SUFFICES ASSUME Init PROVE PathInv
    OBVIOUS
  <2>1. \A s \in States : g[s] \notin Nat
    BY DEF Init
  <2>2. \A s \in States : status[s] # "CLOSED" /\ realG[s] = g[s]
    BY DEF Init
  <2>3. phase # "solved" /\ CreatorTyped /\ Untouched
    BY DEF Init, CreatorTyped, Untouched
  <2> QED
    BY <2>1, <2>2, <2>3, EagerAssumption DEF PathInv, Links, RootFirst, RealCosts, GoalEnds
<1>2. EagerInv /\ PathInv /\ EagerInv' /\ Initialize => PathInv'
  <2> SUFFICES ASSUME EagerInv, PathInv, EagerInv', Initialize PROVE PathInv'
    OBVIOUS
  <2>1. /\ config' = config /\ phase' = "fetch"
        /\ \A s \in States : status[s] = "NEW" /\ g[s] = -1
    BY DEF Initialize, EagerInv, NothingYet, OpenNodesReached
  <2>2. CASE UNCHANGED <<node, open>>
    <3>1. UNCHANGED <<config, g, realG, parent, creator, status>>
      BY <2>1, <2>2 DEF node
    <3> QED
      BY <2>1, <3>1, LinksKept, EagerAssumption DEF PathInv, GoalEnds
  <2>3. CASE /\ status' = [status EXCEPT ![InitialState] = "OPEN"]
             /\ g' = [g EXCEPT ![InitialState] = 0]
             /\ realG' = [realG EXCEPT ![InitialState] = 0]
             /\ UNCHANGED <<parent, creator>>
    <3>1. /\ InitialState \in States
          /\ status \in [States -> Statuses]
          /\ g \in [States -> Nat \cup {-1}] /\ realG \in [States -> Nat \cup {-1}]
      BY EagerAssumption DEF EagerInv, NodesTyped
    <3>2. /\ g'[InitialState] = 0 /\ realG'[InitialState] = 0
          /\ \A s \in States : s # InitialState => g'[s] = -1 /\ realG'[s] = realG[s]
          /\ \A s \in States : status'[s] # "CLOSED"
      BY <2>1, <2>3, <3>1
    <3>3. CreatorTyped' /\ RootFirst' /\ GoalEnds'
      BY <2>1, <2>3, <3>2, EagerAssumption DEF PathInv, CreatorTyped, RootFirst, GoalEnds
    <3>4. RealCosts'
      BY <2>1, <3>2 DEF PathInv, RealCosts
    <3>5. Untouched'
      BY <2>1, <2>3, <3>2 DEF PathInv, Untouched
    <3>6. RootLink(InitialState)'
      BY <2>1, <2>3, <3>1, <3>2 DEF RootLink, PathInv, Untouched
    <3>7. Links'
      BY <3>2, <3>6 DEF Links
    <3> QED
      BY <3>3, <3>4, <3>5, <3>7 DEF PathInv
  <2> QED
    BY <2>2, <2>3 DEF Initialize
<1>3. EagerInv /\ PathInv /\ (Fetch \/ StepDone \/ Terminated \/ UNCHANGED vars) => PathInv'
  <2> SUFFICES ASSUME EagerInv, PathInv, Fetch \/ StepDone \/ Terminated \/ UNCHANGED vars
               PROVE  PathInv'
    OBVIOUS
  <2>1. CreatorTyped' /\ Untouched' /\ Links' /\ RootFirst' /\ RealCosts'
    <3>1. UNCHANGED <<config, g, realG, parent, creator>>
      BY DEF Fetch, Exhausted, SkipClosed, SkipDeadEnd, BecomeDeadEnd, InsertAgain, Expand,
             StepDone, Terminated, vars, node
    <3> QED
      BY <3>1, LinksKept
  <2>2. status \in [States -> Statuses] /\ \A i \in 1 .. Len(open) : open[i].state \in States
    BY DEF EagerInv, NodesTyped, EntriesOpened
  <2>3. CASE Expand
    <3>1. PICK i \in 1 .. Len(open) :
             /\ phase = "fetch"
             /\ status' = [status EXCEPT ![open[i].state] = "CLOSED"]
             /\ current' = open[i].state
             /\ IF open[i].state \in Goal THEN phase' = "solved" ELSE phase' = "expand"
      BY <2>3 DEF Expand
    <3>2. GoalEnds'
      BY <2>2, <3>1, EagerAssumption DEF GoalEnds, PathInv
    <3> QED
      BY <2>1, <3>2 DEF PathInv
  <2>4. CASE BecomeDeadEnd
    <3>1. PICK i \in 1 .. Len(open) :
             /\ phase = "fetch" /\ phase' = phase
             /\ status' = [status EXCEPT ![open[i].state] = "DEAD_END"]
      BY <2>4 DEF BecomeDeadEnd
    <3>2. GoalEnds'
      BY <2>2, <3>1, EagerAssumption DEF GoalEnds, PathInv
    <3> QED
      BY <2>1, <3>2 DEF PathInv
  <2>5. CASE Exhausted \/ SkipClosed \/ SkipDeadEnd \/ InsertAgain \/ StepDone
    <3>1. phase # "solved" /\ phase' # "solved" /\ status' = status
      BY <2>5 DEF Exhausted, SkipClosed, SkipDeadEnd, InsertAgain, StepDone, node
    <3> QED
      BY <2>1, <3>1 DEF PathInv, GoalEnds
  <2>6. CASE Terminated \/ UNCHANGED vars
    BY <2>1, <2>6 DEF Terminated, vars, node, PathInv, GoalEnds
  <2> QED
    BY <2>3, <2>4, <2>5, <2>6 DEF Fetch
<1>4. ASSUME NEW op \in Operators
      PROVE  EagerInv /\ PathInv /\ EagerInv' /\ Generate(op) => PathInv'
  <2> SUFFICES ASSUME EagerInv, PathInv, EagerInv', Generate(op) PROVE PathInv'
    OBVIOUS
  <2>1. CreatorTyped' /\ Untouched' /\ Links' /\ RootFirst' /\ RealCosts'
    <3>1. CASE SkipOperator(op) \/ NewDeadEnd(op) \/ NoCheaper(op)
      BY <3>1, LinksKept DEF SkipOperator, NewDeadEnd, NoCheaper, node
    <3>2. CASE OpenNew(op) \/ Reopen(op) \/ UpdateParent(op)
      BY <3>2, PathChangeKeepsLinks
    <3> QED
      BY <3>1, <3>2 DEF Generate
  <2>2. /\ phase = "expand" /\ phase' = phase
        /\ \A s \in States : status'[s] = "CLOSED" => status[s] = "CLOSED"
    <3>1. status \in [States -> Statuses]
      BY DEF EagerInv, NodesTyped
    <3>2. \/ status' = status
          \/ \E t : status' = [status EXCEPT ![t] = "DEAD_END"] \/ status' = [status EXCEPT ![t] = "OPEN"]
      BY DEF Generate, SkipOperator, NewDeadEnd, OpenNew, Reopen, UpdateParent, NoCheaper, node, Opened
    <3> QED
      BY <3>1, <3>2
      DEF Generate, SkipOperator, NewDeadEnd, OpenNew, Reopen, UpdateParent, NoCheaper, Look
  <2> QED
    BY <2>1, <2>2, EagerAssumption DEF PathInv, GoalEnds
<1>5. EagerInv /\ PathInv /\ EagerInv' /\ [Next]_vars => PathInv'
    BY <1>2, <1>3, <1>4 DEF Next
<1> QED
    BY <1>1, <1>5, EagerInvariant, PTL DEF Spec

\* The walk of trace_path from a state to the initial state.
IsTrace(up, length, s) ==
    /\ length \in 0 .. Cardinality(States)
    /\ up[0] = s
    /\ up[length] = InitialState
    /\ \A n \in 0 .. length : up[n] \in States /\ g[up[n]] \in Nat
    /\ \A n \in 0 .. length - 1 : ParentLink(up[n]) /\ parent[up[n]] = up[n + 1]

\* Ancestor is defined by its recursion.
LEMMA AncestorFacts ==
    ASSUME EagerInv, NEW s \in States
    PROVE  /\ Cardinality(States) \in Nat
           /\ Ancestor(s)[0] = s
           /\ \A n \in 1 .. Cardinality(States) :
                 Ancestor(s)[n] = IF Ancestor(s)[n - 1] = NoState THEN NoState
                                  ELSE parent[Ancestor(s)[n - 1]]
<1> DEFINE A == States \cup {NoState}
           N == Cardinality(States)
           Up(x) == IF x = NoState THEN NoState ELSE parent[x]
           step == [x \in A |-> Up(x)]
           IsUp(f) == f = [n \in 0 .. N |-> IF n = 0 THEN s ELSE Up(f[n - 1])]
           up == CHOOSE f : IsUp(f)
<1>1. N \in Nat
    BY EagerAssumption, FS_CardinalityType
<1> HIDE DEF N
<1>2. Ancestor(s) = up
    BY DEF Ancestor, N
<1>3. parent \in [States -> A]
    BY DEF EagerInv, NodesTyped
<1>4. step \in [A -> A] /\ \A x \in A : step[x] = Up(x)
    BY <1>3
<1> HIDE DEF step, Up
<1>5. PICK f \in [0 .. N -> A] : Recurs(f, s, step, N)
    BY <1>1, <1>4, RecursionExists
<1>6. IsUp(f)
  <2>1. \A n \in 1 .. N : f[n - 1] \in A /\ f[n] = Up(f[n - 1])
    BY <1>1, <1>4, <1>5 DEF Recurs
  <2>2. f[0] = s /\ \A n \in 0 .. N : n = 0 \/ n \in 1 .. N
    BY <1>1, <1>5 DEF Recurs
  <2> QED
    BY <2>1, <2>2
<1>7. IsUp(up)
    BY <1>6
<1> HIDE DEF up
<1>8. up[0] = s /\ \A n \in 1 .. N : up[n] = Up(up[n - 1])
    BY <1>1, <1>7
<1> QED
    BY <1>1, <1>2, <1>8 DEF N, Up

\* Until it leaves the initial state the walk goes from linked state to linked state.
LEMMA AncestorLinks ==
    ASSUME EagerInv, PathInv, NEW s \in States, g[s] \in Nat
    PROVE  \A n \in 0 .. Cardinality(States) : Ancestor(s)[n] # NoState =>
              /\ Ancestor(s)[n] \in States
              /\ g[Ancestor(s)[n]] \in Nat
              /\ RootLink(Ancestor(s)[n]) \/ ParentLink(Ancestor(s)[n])
              /\ \A m \in 0 .. n - 1 :
                    /\ Ancestor(s)[m] # NoState
                    /\ ParentLink(Ancestor(s)[m])
                    /\ parent[Ancestor(s)[m]] = Ancestor(s)[m + 1]
<1> DEFINE up == Ancestor(s)
           N == Cardinality(States)
           Linked(x) == x \in States /\ g[x] \in Nat /\ (RootLink(x) \/ ParentLink(x))
           Good == {n \in Nat : n <= N /\ up[n] # NoState =>
                      /\ Linked(up[n])
                      /\ \A m \in 0 .. n - 1 : up[m] # NoState /\ ParentLink(up[m]) /\ parent[up[m]] = up[m + 1]}
<1>1. /\ N \in Nat /\ up[0] = s
      /\ \A n \in 1 .. N : up[n] = IF up[n - 1] = NoState THEN NoState ELSE parent[up[n - 1]]
    BY AncestorFacts
<1>2. \A x \in States : g[x] \in Nat => Linked(x)
    BY DEF PathInv, Links
<1>3. \A x : ParentLink(x) => parent[x] \in States /\ g[parent[x]] \in Nat
    BY DEF ParentLink
<1>4. \A x : RootLink(x) => parent[x] = NoState
    BY DEF RootLink
<1> HIDE DEF up, N
<1>5. 0 \in Good
    BY <1>1, <1>2
<1>6. ASSUME NEW n \in Nat, n \in Good PROVE n + 1 \in Good
  <2> SUFFICES ASSUME n + 1 <= N, up[n + 1] # NoState
               PROVE  /\ Linked(up[n + 1])
                      /\ \A m \in 0 .. n : up[m] # NoState /\ ParentLink(up[m]) /\ parent[up[m]] = up[m + 1]
    OBVIOUS
  <2>1. up[n] # NoState /\ up[n + 1] = parent[up[n]]
    <3>1. n + 1 \in 1 .. N /\ (n + 1) - 1 = n
      BY <1>1
    <3> QED
      BY <1>1, <3>1
  <2>2. /\ Linked(up[n])
        /\ \A m \in 0 .. n - 1 : up[m] # NoState /\ ParentLink(up[m]) /\ parent[up[m]] = up[m + 1]
    BY <1>1, <1>6, <2>1
  <2>3. ParentLink(up[n])
    BY <1>4, <2>1, <2>2
  <2>4. Linked(up[n + 1])
    BY <1>2, <1>3, <2>1, <2>3
  <2>5. \A m \in 0 .. n : m \in 0 .. n - 1 \/ m = n
    OBVIOUS
  <2> HIDE DEF Linked
  <2> QED
    BY <2>1, <2>2, <2>3, <2>4, <2>5
<1>7. Nat \subseteq Good
  <2> HIDE DEF Good
  <2> QED
    BY <1>5, <1>6, NumberInduction
<1> QED
    BY <1>1, <1>7 DEF up, N

\* The walk ends: as there are no more states, a longer one would go round in a circle.
LEMMA TraceEnds ==
    ASSUME EagerInv, PathInv, NoParentCycle, NEW s \in States, g[s] \in Nat
    PROVE  \E n \in 0 .. Cardinality(States) :
              Ancestor(s)[n] # NoState /\ creator[Ancestor(s)[n]] = NoOperator
<1> DEFINE up == Ancestor(s)
           N == Cardinality(States)
<1>1. /\ N \in Nat /\ up[0] = s
      /\ \A n \in 1 .. N : up[n] = IF up[n - 1] = NoState THEN NoState ELSE parent[up[n - 1]]
    BY AncestorFacts
<1>2. \A n \in 0 .. N : up[n] # NoState =>
              /\ up[n] \in States
              /\ g[up[n]] \in Nat
              /\ RootLink(up[n]) \/ ParentLink(up[n])
    BY AncestorLinks
<1>3. s # NoState
    BY EagerAssumption
<1> HIDE DEF up
<1> SUFFICES ASSUME \A n \in 0 .. N : up[n] # NoState => creator[up[n]] # NoOperator
             PROVE  FALSE
    BY DEF up
<1> HIDE DEF N
<1>4. \A n \in 0 .. N : up[n] # NoState => ParentLink(up[n])
    BY <1>2 DEF RootLink
<1>5. \A n \in 0 .. N : up[n] # NoState
  <2> DEFINE Good == {n \in Nat : n <= N => up[n] # NoState}
  <2>1. 0 \in Good
    BY <1>1, <1>3
  <2>2. ASSUME NEW n \in Nat, n \in Good PROVE n + 1 \in Good
    <3> SUFFICES ASSUME n + 1 <= N PROVE up[n + 1] # NoState
      OBVIOUS
    <3>1. n + 1 \in 1 .. N /\ (n + 1) - 1 = n /\ n \in 0 .. N /\ up[n] # NoState
      BY <1>1, <2>2
    <3>2. up[n + 1] = parent[up[n]] /\ parent[up[n]] \in States
      BY <1>1, <1>4, <3>1 DEF ParentLink
    <3> QED
      BY <3>2, EagerAssumption
  <2>3. Nat \subseteq Good
    <3> HIDE DEF Good
    <3> QED
      BY <2>1, <2>2, NumberInduction
  <2> QED
    BY <1>1, <2>3
<1>6. \A n \in 0 .. N : up[n] \in States /\ g[up[n]] \in Nat
    BY <1>2, <1>5
<1>7. \A n \in 0 .. N - 1 : parent[up[n]] = up[n + 1]
  <2> SUFFICES ASSUME NEW n \in 0 .. N - 1 PROVE parent[up[n]] = up[n + 1]
    OBVIOUS
  <2>1. n + 1 \in 1 .. N /\ (n + 1) - 1 = n /\ n \in 0 .. N
    BY <1>1
  <2> QED
    BY <1>1, <1>5, <2>1
<1>8. PICK i \in 0 .. N, j \in 0 .. N : i < j /\ up[i] = up[j]
  <2> DEFINE f == [n \in 0 .. N |-> up[n]]
  <2>1. f \in [0 .. N -> States]
    BY <1>6
  <2>2. IsFiniteSet(States) /\ IsFiniteSet(0 .. N) /\ Cardinality(States) < Cardinality(0 .. N)
    <3>1. IsFiniteSet(0 .. N) /\ Cardinality(0 .. N) = N + 1
      <4>1. 0 \in Int /\ N \in Int /\ ~ (0 > N)
        BY <1>1
      <4> QED
        <5>1. IsFiniteSet(0 .. N) /\ Cardinality(0 .. N) = IF 0 > N THEN 0 ELSE N - 0 + 1
          BY <4>1, FS_Interval
        <5> QED
          BY <1>1, <4>1, <5>1
    <3>2. Cardinality(States) < Cardinality(0 .. N)
      BY <1>1, <3>1 DEF N
    <3> QED
      BY <3>1, <3>2, EagerAssumption
  <2> HIDE DEF f
  <2>3. \E x, y \in 0 .. N : x # y /\ f[x] = f[y]
    BY <2>1, <2>2, FS_PigeonHole
  <2>4. PICK x \in 0 .. N, y \in 0 .. N : x # y /\ f[x] = f[y]
    BY <2>3
  <2>5. up[x] = up[y] /\ (x < y \/ y < x)
    BY <1>1, <2>4 DEF f
  <2> QED
    BY <2>5
<1> DEFINE C == {up[k] : k \in i .. j - 1}
<1>9. C \in SUBSET Tree!Reached
    BY <1>1, <1>6 DEF Tree!Reached
<1>10. up[i] \in C
    BY <1>1, <1>8
<1>11. ASSUME NEW k \in i .. j - 1 PROVE parent[up[k]] \in C
  <2>1. k \in 0 .. N - 1 /\ parent[up[k]] = up[k + 1]
    BY <1>1, <1>7
  <2>2. CASE k + 1 = j
    BY <1>8, <1>10, <2>1, <2>2
  <2>3. CASE k + 1 # j
    <3>1. k + 1 \in i .. j - 1
      BY <1>1, <2>3
    <3> QED
      BY <2>1, <3>1
  <2> QED
    BY <2>2, <2>3
<1>12. C # {} /\ \A x \in C : parent[x] \in C
    BY <1>10, <1>11
<1> HIDE DEF C
<1> QED
    BY <1>9, <1>12 DEF NoParentCycle, Tree!NoCycle

\* trace_path walks to the initial state and reads a creator off every other state.
LEMMA TraceFacts ==
    ASSUME EagerInv, PathInv, NoParentCycle, NEW s \in States, g[s] \in Nat
    PROVE  \E up, length :
              IsTrace(up, length, s) /\ TracePath(s) = [i \in 1 .. length |-> creator[up[length - i]]]
<1> DEFINE up == Ancestor(s)
           length == CHOOSE n \in 0 .. Cardinality(States) : up[n] # NoState /\ creator[up[n]] = NoOperator
<1>1. Cardinality(States) \in Nat /\ up[0] = s
    BY AncestorFacts
<1>2. length \in 0 .. Cardinality(States) /\ up[length] # NoState /\ creator[up[length]] = NoOperator
    BY TraceEnds
<1>3. TracePath(s) = [i \in 1 .. length |-> creator[up[length - i]]]
    BY DEF TracePath
<1>4. \A n \in 0 .. Cardinality(States) : up[n] # NoState =>
              /\ up[n] \in States
              /\ g[up[n]] \in Nat
              /\ RootLink(up[n]) \/ ParentLink(up[n])
              /\ \A m \in 0 .. n - 1 :
                    up[m] # NoState /\ ParentLink(up[m]) /\ parent[up[m]] = up[m + 1]
    BY AncestorLinks
<1> HIDE DEF up, length
<1>5. up[length] = InitialState
  <2>1. RootLink(up[length]) \/ ParentLink(up[length])
    BY <1>2, <1>4
  <2>2. ~ ParentLink(up[length])
    <3>1. \A x : ParentLink(x) => creator[x] \in Operators
      BY DEF ParentLink, Applicable
    <3> QED
      BY <1>2, <3>1, EagerAssumption
  <2> QED
    BY <2>1, <2>2 DEF RootLink
<1>6. \A n \in 0 .. length - 1 : ParentLink(up[n]) /\ parent[up[n]] = up[n + 1]
    BY <1>2, <1>4
<1>7. \A n \in 0 .. length : up[n] # NoState /\ n \in 0 .. Cardinality(States)
  <2>1. \A n \in 0 .. length : n \in 0 .. Cardinality(States) /\ (n = length \/ n \in 0 .. length - 1)
    BY <1>1, <1>2
  <2> QED
    BY <1>2, <1>4, <2>1
<1>8. \A n \in 0 .. length : up[n] \in States /\ g[up[n]] \in Nat
    BY <1>4, <1>7
<1>9. IsTrace(up, length, s)
    BY <1>1, <1>2, <1>5, <1>6, <1>8 DEF IsTrace
<1> QED
    BY <1>3, <1>9

\* The states along a plan are the ones that the operators lead through.
LEMMA PlanStates ==
    ASSUME NEW p, NEW length \in Nat, Len(p) = length, NEW at, at[0] = InitialState,
           \A n \in 1 .. length : at[n] = Successor(at[n - 1], p[n])
    PROVE  \A n \in 0 .. length : StatesAlong(p)[n] = at[n]
<1> DEFINE Go(n, x) == Successor(x, p[n])
           IsAt(f) == f = [n \in 0 .. Len(p) |-> IF n = 0 THEN InitialState ELSE Go(n, f[n - 1])]
           along == CHOOSE f : IsAt(f)
           known == [n \in 0 .. length |-> at[n]]
<1>1. StatesAlong(p) = along
    BY DEF StatesAlong
<1>2. \A n \in 1 .. length : at[n] = Go(n, at[n - 1])
    OBVIOUS
<1> HIDE DEF Go
<1>3. IsAt(known)
  <2>1. \A n \in 0 .. length : known[n] = IF n = 0 THEN InitialState ELSE Go(n, known[n - 1])
    BY <1>2
  <2> QED
    BY <2>1
<1>4. IsAt(along)
  <2> HIDE DEF IsAt
  <2> QED
    BY <1>3
<1> HIDE DEF along
<1>5. along[0] = InitialState /\ \A n \in 1 .. length : along[n] = Go(n, along[n - 1])
    BY <1>4
<1> DEFINE Good == {n \in Nat : n <= length => along[n] = at[n]}
<1>6. 0 \in Good
    BY <1>5
<1>7. ASSUME NEW n \in Nat, n \in Good PROVE n + 1 \in Good
    BY <1>2, <1>5, <1>7
<1>8. Nat \subseteq Good
  <2> HIDE DEF Good
  <2> QED
    BY <1>6, <1>7, NumberInduction
<1> QED
    BY <1>1, <1>8

\* The cost along a plan is added up operator by operator.
LEMMA PlanCosts ==
    ASSUME NEW p, NEW length \in Nat, Len(p) = length, \A n \in 1 .. length : Cost[p[n]] \in Nat
    PROVE  /\ CostAlong(p)[0] = 0
           /\ \A n \in 0 .. length : CostAlong(p)[n] \in Nat
           /\ \A n \in 1 .. length : CostAlong(p)[n] = CostAlong(p)[n - 1] + Cost[p[n]]
<1> DEFINE Add(n, x) == x + Cost[p[n]]
           step == [x \in (1 .. length) \X Nat |-> Add(x[1], x[2])]
           IsSum(f) == f = [n \in 0 .. Len(p) |-> IF n = 0 THEN 0 ELSE Add(n, f[n - 1])]
           sum == CHOOSE f : IsSum(f)
<1>1. CostAlong(p) = sum
    BY DEF CostAlong
<1>2. \A n \in 1 .. length, x \in Nat : Add(n, x) \in Nat /\ Add(n, x) = x + Cost[p[n]]
    OBVIOUS
<1> HIDE DEF Add
<1>3. /\ step \in [(1 .. length) \X Nat -> Nat]
      /\ \A n \in 1 .. length, x \in Nat : step[<<n, x>>] = Add(n, x)
    BY <1>2
<1> HIDE DEF step
<1>4. PICK f \in [0 .. length -> Nat] : RecursBy(f, 0, step, length)
    BY <1>3, RecursionExistsBy
<1>5. IsSum(f)
  <2>1. f[0] = 0 /\ \A n \in 1 .. length : n - 1 \in 0 .. length /\ f[n] = Add(n, f[n - 1])
    <3>1. \A n \in 1 .. length : n - 1 \in 0 .. length
      OBVIOUS
    <3>2. \A n \in 1 .. length : f[n - 1] \in Nat
      BY <1>4, <3>1
    <3> QED
      BY <1>3, <1>4, <3>1, <3>2 DEF RecursBy
  <2> QED
    BY <2>1
<1>6. IsSum(sum)
  <2> HIDE DEF IsSum
  <2> QED
    BY <1>5
<1> HIDE DEF sum
<1>7. sum[0] = 0 /\ \A n \in 1 .. length : sum[n] = Add(n, sum[n - 1])
    BY <1>6
<1> DEFINE Good == {n \in Nat : n <= length => sum[n] \in Nat}
<1>8. 0 \in Good
    BY <1>7
<1>9. ASSUME NEW n \in Nat, n \in Good PROVE n + 1 \in Good
  <2> SUFFICES ASSUME n + 1 <= length PROVE sum[n + 1] \in Nat
    OBVIOUS
  <2>1. n + 1 \in 1 .. length /\ (n + 1) - 1 = n /\ sum[n] \in Nat
    BY <1>9
  <2>2. sum[n + 1] = Add(n + 1, sum[n])
    BY <1>7, <2>1
  <2> QED
    BY <1>2, <2>1, <2>2
<1>10. Nat \subseteq Good
  <2> HIDE DEF Good
  <2> QED
    BY <1>8, <1>9, NumberInduction
<1>11. \A n \in 1 .. length : n - 1 \in 0 .. length
    OBVIOUS
<1>12. \A n \in 0 .. length : sum[n] \in Nat
    BY <1>10
<1>13. \A n \in 1 .. length : sum[n] = sum[n - 1] + Cost[p[n]]
    BY <1>2, <1>7, <1>11, <1>12
<1> QED
    BY <1>1, <1>7, <1>12, <1>13

\* A plan that leads back along a walk, and what it costs.
LeadsBack(p, up, length) ==
    /\ length \in Nat /\ Len(p) = length
    /\ \A n \in 0 .. length :
          StatesAlong(p)[n] = up[length - n] /\ up[length - n] \in States
    /\ \A n \in 1 .. length :
          /\ p[n] \in Applicable(StatesAlong(p)[n - 1])
          /\ Successor(StatesAlong(p)[n - 1], p[n]) = StatesAlong(p)[n]
          /\ g[StatesAlong(p)[n - 1]] + AdjustedCost(p[n]) <= g[StatesAlong(p)[n]]
    /\ CostAlong(p)[0] = 0
    /\ \A n \in 0 .. length : CostAlong(p)[n] \in Nat /\ g[StatesAlong(p)[n]] \in Nat
    /\ \A n \in 1 .. length : CostAlong(p)[n] = CostAlong(p)[n - 1] + Cost[p[n]]

\* The plan read off a walk leads back along it, and its cost is added up on the way.
LEMMA PlanOfTrace ==
    ASSUME EagerInv, PathInv, NEW up, NEW length, NEW s, IsTrace(up, length, s), NEW p,
           length \in Nat, Len(p) = length, \A i \in 1 .. length : p[i] = creator[up[length - i]]
    PROVE  LeadsBack(p, up, length)
<1>1. /\ length \in Nat
      /\ up[length] = InitialState
      /\ \A n \in 0 .. length : up[n] \in States /\ g[up[n]] \in Nat
      /\ \A n \in 0 .. length - 1 : ParentLink(up[n]) /\ parent[up[n]] = up[n + 1]
    BY DEF IsTrace
<1>2. ASSUME NEW n \in 1 .. length
      PROVE  /\ p[n] \in Applicable(up[length - (n - 1)])
             /\ Successor(up[length - (n - 1)], p[n]) = up[length - n]
             /\ g[up[length - (n - 1)]] + AdjustedCost(p[n]) <= g[up[length - n]]
             /\ p[n] \in Operators /\ Cost[p[n]] \in Nat
  <2>1. length - n \in 0 .. length - 1 /\ (length - n) + 1 = length - (n - 1)
    BY <1>1
  <2>2. ParentLink(up[length - n]) /\ parent[up[length - n]] = up[length - (n - 1)]
    BY <1>1, <2>1
  <2>3. /\ p[n] \in Applicable(up[length - (n - 1)])
        /\ Successor(up[length - (n - 1)], p[n]) = up[length - n]
        /\ g[up[length - (n - 1)]] + AdjustedCost(p[n]) <= g[up[length - n]]
    BY <2>2 DEF ParentLink
  <2> QED
    BY <2>3, EagerAssumption DEF Applicable
<1>3. \A n \in 0 .. length : StatesAlong(p)[n] = up[length - n]
  <2> DEFINE at == [n \in 0 .. length |-> up[length - n]]
  <2>1. \A n \in 0 .. length : at[n] = up[length - n]
    OBVIOUS
  <2> HIDE DEF at
  <2>2. at[0] = InitialState
    BY <1>1, <2>1
  <2>3. ASSUME NEW n \in 1 .. length PROVE at[n] = Successor(at[n - 1], p[n])
    <3>1. n - 1 \in 0 .. length /\ n \in 0 .. length
      BY <1>1
    <3> QED
      BY <1>2, <2>1, <3>1
  <2>4. \A n \in 1 .. length : at[n] = Successor(at[n - 1], p[n])
    BY <2>3
  <2>5. \A n \in 0 .. length : StatesAlong(p)[n] = at[n]
    BY <2>2, <2>4, PlanStates
  <2> QED
    BY <2>1, <2>5
<1>4. /\ CostAlong(p)[0] = 0
      /\ \A n \in 0 .. length : CostAlong(p)[n] \in Nat
      /\ \A n \in 1 .. length : CostAlong(p)[n] = CostAlong(p)[n - 1] + Cost[p[n]]
    BY <1>2, PlanCosts
<1>5. \A n \in 0 .. length : up[length - n] \in States /\ g[up[length - n]] \in Nat
  <2>1. \A n \in 0 .. length : length - n \in 0 .. length
    BY <1>1
  <2> QED
    BY <1>1, <2>1
<1>6. \A n \in 1 .. length : n - 1 \in 0 .. length /\ n \in 0 .. length
    BY <1>1
<1>7. \A n \in 1 .. length :
         /\ p[n] \in Applicable(StatesAlong(p)[n - 1])
         /\ Successor(StatesAlong(p)[n - 1], p[n]) = StatesAlong(p)[n]
         /\ g[StatesAlong(p)[n - 1]] + AdjustedCost(p[n]) <= g[StatesAlong(p)[n]]
    BY <1>2, <1>3, <1>6
<1>8. \A n \in 0 .. length : g[StatesAlong(p)[n]] \in Nat
    BY <1>3, <1>5
<1> QED
    BY <1>1, <1>3, <1>4, <1>5, <1>7, <1>8 DEF LeadsBack

\* The plan of a state with a g-value leads there, and does not cost more than the g-value
\* under NORMAL.
LEMMA TracedPlan ==
    ASSUME EagerInv, PathInv, NoParentCycle, NEW s \in States, g[s] \in Nat, NEW p, p = TracePath(s)
    PROVE  /\ Len(p) \in 0 .. Cardinality(States)
           /\ \A i \in 1 .. Len(p) : p[i] \in Applicable(StatesAlong(p)[i - 1])
           /\ StatesAlong(p)[0] = InitialState
           /\ StatesAlong(p)[Len(p)] = s
           /\ \A n \in 0 .. Len(p) : StatesAlong(p)[n] \in States /\ CostAlong(p)[n] \in Nat
           /\ CostAlong(p)[0] = 0
           /\ \A n \in 1 .. Len(p) :
                 /\ Successor(StatesAlong(p)[n - 1], p[n]) = StatesAlong(p)[n]
                 /\ CostAlong(p)[n] = CostAlong(p)[n - 1] + Cost[p[n]]
           /\ config.costType = "NORMAL" => CostAlong(p)[Len(p)] <= g[s]
<1>1. PICK up, length :
         IsTrace(up, length, s) /\ TracePath(s) = [i \in 1 .. length |-> creator[up[length - i]]]
    BY TraceFacts
<1>2. /\ length \in Nat /\ Len(p) = length
      /\ \A n \in 0 .. length : StatesAlong(p)[n] = up[length - n] /\ up[length - n] \in States
      /\ \A n \in 1 .. length :
            /\ p[n] \in Applicable(StatesAlong(p)[n - 1])
            /\ Successor(StatesAlong(p)[n - 1], p[n]) = StatesAlong(p)[n]
            /\ g[StatesAlong(p)[n - 1]] + AdjustedCost(p[n]) <= g[StatesAlong(p)[n]]
      /\ CostAlong(p)[0] = 0
      /\ \A n \in 0 .. length : CostAlong(p)[n] \in Nat /\ g[StatesAlong(p)[n]] \in Nat
      /\ \A n \in 1 .. length : CostAlong(p)[n] = CostAlong(p)[n - 1] + Cost[p[n]]
  <2>1. length \in Nat
    <3>1. Cardinality(States) \in Nat
      BY EagerAssumption, FS_CardinalityType
    <3> QED
      BY <1>1, <3>1 DEF IsTrace
  <2>2. Len(TracePath(s)) = length /\ \A i \in 1 .. length : TracePath(s)[i] = creator[up[length - i]]
    BY <1>1, <2>1
  <2>3. LeadsBack(p, up, length)
    BY <1>1, <2>1, <2>2, PlanOfTrace
  <2> QED
    BY <2>3 DEF LeadsBack
<1>3. StatesAlong(p)[length] = s /\ StatesAlong(p)[0] = InitialState
  <2>1. 0 \in 0 .. length /\ length \in 0 .. length /\ length - length = 0 /\ length - 0 = length
    BY <1>2
  <2> QED
    BY <1>1, <1>2, <2>1 DEF IsTrace
<1>4. length \in 0 .. Cardinality(States)
    BY <1>1 DEF IsTrace
<1>5. ASSUME config.costType = "NORMAL" PROVE CostAlong(p)[length] <= g[s]
  <2> DEFINE at == StatesAlong(p)
             cost == CostAlong(p)
             Good == {n \in Nat : n <= length => cost[n] <= g[at[n]]}
  <2>1. 0 \in Good
    BY <1>2
  <2>2. ASSUME NEW n \in Nat, n \in Good PROVE n + 1 \in Good
    <3> SUFFICES ASSUME n + 1 <= length PROVE cost[n + 1] <= g[at[n + 1]]
      OBVIOUS
    <3>1. /\ n + 1 \in 1 .. length /\ (n + 1) - 1 = n /\ n \in 0 .. length
          /\ n + 1 \in 0 .. length /\ cost[n] <= g[at[n]]
      BY <1>2, <2>2
    <3>2. p[n + 1] \in Operators /\ Cost[p[n + 1]] \in Nat
      BY <1>2, <3>1, EagerAssumption DEF Applicable
    <3>3. AdjustedCost(p[n + 1]) = Cost[p[n + 1]]
      BY <1>5 DEF AdjustedCost, AdjustedActionCost
    <3>4. /\ g[at[n]] + Cost[p[n + 1]] <= g[at[n + 1]]
          /\ cost[n + 1] = cost[n] + Cost[p[n + 1]]
          /\ cost[n] \in Nat /\ g[at[n]] \in Nat /\ g[at[n + 1]] \in Nat
      BY <1>2, <3>1, <3>3
    <3> HIDE DEF at, cost
    <3> QED
      BY <3>1, <3>2, <3>4
  <2>3. Nat \subseteq Good
    <3> HIDE DEF Good
    <3> QED
      BY <2>1, <2>2, NumberInduction
  <2> QED
    BY <1>2, <1>3, <2>3
<1> QED
    BY <1>2, <1>3, <1>4, <1>5

\* The plan that a finished search holds is that of the goal state it closed last.
PlanTraced == phase = "solved" => plan = TracePath(current)

\* What trace_path returns, as a function of the parents and creators it reads.
TraceOf(s, par, cre) ==
    LET up[n \in 0 .. Cardinality(States)] ==
            IF n = 0 THEN s ELSE IF up[n - 1] = NoState THEN NoState ELSE par[up[n - 1]]
        length == CHOOSE n \in 0 .. Cardinality(States) : up[n] # NoState /\ cre[up[n]] = NoOperator
    IN  [i \in 1 .. length |-> cre[up[length - i]]]

LEMMA PlanInvariant == Spec => []PlanTraced
<1>1. Init => PlanTraced
    BY DEF Init, PlanTraced
<1>2. EagerInv /\ PlanTraced /\ [Next]_vars => PlanTraced'
  <2> SUFFICES ASSUME EagerInv, PlanTraced, [Next]_vars, phase' = "solved"
               PROVE  plan' = TraceOf(current', parent', creator')
    BY DEF PlanTraced, TracePath, Ancestor, TraceOf
  <2>1. ASSUME NEW s PROVE TracePath(s) = TraceOf(s, parent, creator)
    BY DEF TracePath, Ancestor, TraceOf
  <2>2. CASE Expand
    <3>1. PICK i \in 1 .. Len(open) :
             /\ current' = open[i].state
             /\ IF open[i].state \in Goal THEN plan' = TracePath(open[i].state) ELSE phase' = "expand"
      BY <2>2 DEF Expand
    <3>2. plan' = TracePath(open[i].state) /\ parent' = parent /\ creator' = creator
      BY <2>2, <3>1 DEF Expand, node
    <3>3. TracePath(open[i].state) = TraceOf(open[i].state, parent, creator)
      BY <2>1
    <3> QED
      BY <3>1, <3>2, <3>3
  <2>3. CASE Terminated \/ UNCHANGED vars
    <3>1. phase = "solved" /\ plan' = plan /\ current' = current /\ parent' = parent /\ creator' = creator
      BY <2>3 DEF Terminated, vars, node
    <3> QED
      BY <2>1, <3>1 DEF PlanTraced
  <2>4. CASE Initialize \/ Exhausted \/ SkipClosed \/ SkipDeadEnd \/ BecomeDeadEnd \/ InsertAgain \/ StepDone
    BY <2>4 DEF Initialize, Exhausted, SkipClosed, SkipDeadEnd, BecomeDeadEnd, InsertAgain, StepDone
  <2>5. ASSUME NEW op \in Operators, Generate(op) PROVE FALSE
    BY <2>5
    DEF Generate, SkipOperator, NewDeadEnd, OpenNew, Reopen, UpdateParent, NoCheaper, Look
  <2> QED
    BY <2>2, <2>3, <2>4, <2>5 DEF Next, Fetch
<1> QED
    BY <1>1, <1>2, EagerInvariant, PTL DEF Spec

\* The plan of a search that has solved its task leads from the initial state to the goal
\* state, however often its nodes were reopened or given cheaper parents; without a cost_type
\* it costs no more than the g-value of that state, and less than the bound.  A search that
\* starts in a goal state returns the empty plan, whose cost is not less than a bound of 0.
THEOREM PlansAreSound ==
    (InitialState \in Goal => \A c \in Configurations : c.bound > 0) => (Spec => []PlanSound)
<1> SUFFICES ASSUME InitialState \in Goal => \A c \in Configurations : c.bound > 0
             PROVE  Spec => []PlanSound
    OBVIOUS
<1>1. EagerInv /\ PathInv /\ NoParentCycle /\ PlanTraced => PlanSound
  <2> SUFFICES ASSUME EagerInv, PathInv, NoParentCycle, PlanTraced, phase = "solved"
               PROVE  /\ \A i \in 1 .. Len(plan) : plan[i] \in Applicable(StatesAlong(plan)[i - 1])
                      /\ StatesAlong(plan)[Len(plan)] = current
                      /\ config.costType = "NORMAL" =>
                            /\ CostAlong(plan)[Len(plan)] <= g[current]
                            /\ CostAlong(plan)[Len(plan)] < config.bound
    BY DEF PlanSound
  <2>1. /\ current \in Goal /\ current \in States /\ g[current] \in Nat
        /\ plan = TracePath(current) /\ config \in Configurations
    BY EagerAssumption
    DEF PathInv, GoalEnds, PlanTraced, EagerInv, OpenNodesReached, NodesTyped
  <2>2. /\ Len(plan) \in 0 .. Cardinality(States)
        /\ \A i \in 1 .. Len(plan) : plan[i] \in Applicable(StatesAlong(plan)[i - 1])
        /\ StatesAlong(plan)[Len(plan)] = current
        /\ \A n \in 0 .. Len(plan) : CostAlong(plan)[n] \in Nat
        /\ config.costType = "NORMAL" => CostAlong(plan)[Len(plan)] <= g[current]
    BY <2>1, TracedPlan
  <2>3. ASSUME config.costType = "NORMAL" PROVE g[current] < config.bound
    <3>1. RootLink(current) \/ ParentLink(current)
      BY <2>1 DEF PathInv, Links
    <3>2. CASE RootLink(current)
      BY <2>1, <3>2 DEF RootLink
    <3>3. CASE ParentLink(current)
      BY <2>1, <2>3, <3>3 DEF ParentLink, PathInv, RealCosts
    <3> QED
      BY <3>1, <3>2, <3>3
  <2>4. config.costType = "NORMAL" => CostAlong(plan)[Len(plan)] < config.bound
    <3>1. CostAlong(plan)[Len(plan)] \in Nat /\ config.bound \in Nat
      BY <2>1, <2>2, EagerAssumption
    <3> QED
      BY <2>1, <2>2, <2>3, <3>1
  <2> QED
    BY <2>2, <2>4
<1> QED
    BY <1>1, EagerInvariant, PathInvariant, PathsEnd, PlanInvariant, PTL

-----------------------------------------------------------------------------
(* Goal distances.                                                         *)

\* The distances over one more transition.
Relaxed(d) ==
    [s \in States |->
        Min({d[s]} \cup {Sum(Cost[op], d[Successor(s, op)]) : op \in Applicable(s)})]

\* f[n] are the distances to the goal over at most n transitions.
IsDistance(f) ==
    /\ f \in [0 .. Cardinality(States) -> [States -> 0 .. Infinity]]
    /\ f[0] = [s \in States |-> IF s \in Goal THEN 0 ELSE Infinity]
    /\ \A n \in 1 .. Cardinality(States) : f[n] = Relaxed(f[n - 1])

\* A distance over one more transition is the least of those that a state or its successors
\* have.
LEMMA RelaxedFacts ==
    ASSUME NEW d \in [States -> 0 .. Infinity], NEW s \in States
    PROVE  /\ Relaxed(d)[s] \in 0 .. Infinity
           /\ Relaxed(d)[s] <= d[s]
           /\ \A op \in Applicable(s) : Relaxed(d)[s] <= Cost[op] + d[Successor(s, op)]
           /\ \/ Relaxed(d)[s] = d[s]
              \/ \E op \in Applicable(s) :
                    Relaxed(d)[s] = Infinity \/ Relaxed(d)[s] = Cost[op] + d[Successor(s, op)]
<1> DEFINE by(op) == Sum(Cost[op], d[Successor(s, op)])
           D == {d[s]} \cup {by(op) : op \in Applicable(s)}
<1>1. ASSUME NEW op \in Applicable(s)
      PROVE  /\ by(op) \in Nat
             /\ by(op) <= Cost[op] + d[Successor(s, op)]
             /\ by(op) = Infinity \/ by(op) = Cost[op] + d[Successor(s, op)]
  <2>1. Cost[op] \in Nat /\ d[Successor(s, op)] \in 0 .. Infinity /\ Infinity \in Nat
    BY SuccessorInTask, SizeOfStates
  <2> QED
    BY <2>1 DEF Sum
<1>2. d[s] \in 0 .. Infinity /\ Infinity \in Nat
    BY SizeOfStates
<1> HIDE DEF by
<1>3. D \subseteq Nat /\ D # {}
    BY <1>1, <1>2
<1>4. Relaxed(d)[s] = Min(D)
    BY DEF Relaxed, by
<1>5. Relaxed(d)[s] \in D /\ \A n \in D : Relaxed(d)[s] <= n
  <2> HIDE DEF D
  <2> QED
    BY <1>3, <1>4, LeastNumber
<1>6. Relaxed(d)[s] \in Nat /\ Relaxed(d)[s] <= d[s]
    BY <1>3, <1>5
<1>7. ASSUME NEW op \in Applicable(s) PROVE Relaxed(d)[s] <= Cost[op] + d[Successor(s, op)]
  <2>1. Relaxed(d)[s] <= by(op)
    BY <1>5
  <2>2. Cost[op] \in Nat /\ d[Successor(s, op)] \in Nat
    BY SuccessorInTask, SizeOfStates
  <2> QED
    BY <1>1, <1>6, <2>1, <2>2
<1>8. \/ Relaxed(d)[s] = d[s]
      \/ \E op \in Applicable(s) :
            Relaxed(d)[s] = Infinity \/ Relaxed(d)[s] = Cost[op] + d[Successor(s, op)]
    BY <1>1, <1>5
<1> QED
    BY <1>2, <1>6, <1>7, <1>8

\* GoalDistance is the last of these distances.
LEMMA DistanceSteps == \E f : IsDistance(f) /\ GoalDistance = f[Cardinality(States)]
<1> DEFINE N == Cardinality(States)
           A == [States -> 0 .. Infinity]
           base == [s \in States |-> IF s \in Goal THEN 0 ELSE Infinity]
           step == [d \in A |-> Relaxed(d)]
           IsDist(f) == f = [n \in 0 .. N |-> IF n = 0 THEN base ELSE Relaxed(f[n - 1])]
           dist == CHOOSE f : IsDist(f)
<1>1. GoalDistance = dist[N]
    BY DEF GoalDistance, Relaxed
<1>2. N \in Nat /\ base \in A
    BY SizeOfStates
<1>3. ASSUME NEW d \in A PROVE Relaxed(d) \in A
  <2>1. Relaxed(d) = [s \in States |-> Relaxed(d)[s]]
    BY DEF Relaxed
  <2>2. \A s \in States : Relaxed(d)[s] \in 0 .. Infinity
    BY RelaxedFacts
  <2> QED
    BY <2>1, <2>2
<1>4. step \in [A -> A] /\ \A d \in A : step[d] = Relaxed(d)
    BY <1>3
<1> HIDE DEF N, A, base, step
<1>5. PICK f \in [0 .. N -> A] : Recurs(f, base, step, N)
    BY <1>2, <1>4, RecursionExists
<1>6. IsDist(f)
  <2>1. \A n \in 1 .. N : n - 1 \in 0 .. N
    BY <1>2
  <2>2. \A n \in 1 .. N : f[n] = Relaxed(f[n - 1])
    BY <1>4, <1>5, <2>1 DEF Recurs
  <2>3. \A n \in 0 .. N : n = 0 \/ n \in 1 .. N
    BY <1>2
  <2>4. f[0] = base
    BY <1>5 DEF Recurs
  <2> QED
    BY <1>5, <2>2, <2>3, <2>4
<1>7. IsDist(dist)
  <2> HIDE DEF IsDist
  <2> QED
    BY <1>6
<1> HIDE DEF dist
<1>8. dist = [n \in 0 .. N |-> dist[n]]
    BY <1>7
<1>9. dist[0] = base /\ \A n \in 1 .. N : dist[n] = Relaxed(dist[n - 1])
    BY <1>2, <1>7
<1>10. \A n \in 0 .. N : dist[n] \in A
  <2> DEFINE Good == {n \in Nat : n <= N => dist[n] \in A}
  <2>1. 0 \in Good
    BY <1>2, <1>9
  <2>2. ASSUME NEW n \in Nat, n \in Good PROVE n + 1 \in Good
    <3> SUFFICES ASSUME n + 1 <= N PROVE dist[n + 1] \in A
      OBVIOUS
    <3>1. n + 1 \in 1 .. N /\ (n + 1) - 1 = n /\ dist[n] \in A
      BY <1>2, <2>2
    <3>2. dist[n + 1] = Relaxed(dist[n])
      BY <1>9, <3>1
    <3> QED
      BY <1>3, <3>1, <3>2
  <2>3. Nat \subseteq Good
    <3> HIDE DEF Good
    <3> QED
      BY <2>1, <2>2, NumberInduction
  <2> QED
    BY <1>2, <2>3
<1>11. IsDistance(dist)
  <2>1. dist \in [0 .. N -> A]
    BY <1>8, <1>10
  <2> QED
    BY <1>9, <2>1 DEF IsDistance, N, A, base
<1> QED
    BY <1>1, <1>11 DEF N

\* More transitions do not make a distance greater.
LEMMA DistanceFalls ==
    ASSUME NEW f, IsDistance(f), NEW s \in States, NEW n \in 0 .. Cardinality(States)
    PROVE  f[Cardinality(States)][s] <= f[n][s]
<1> DEFINE N == Cardinality(States)
           Good == {k \in Nat : k <= N => f[N][s] <= f[N - k][s]}
<1>1. N \in Nat /\ \A k \in 0 .. N : f[k] \in [States -> 0 .. Infinity] /\ f[k][s] \in Nat
  <2>1. N \in Nat /\ Infinity \in Nat
    BY SizeOfStates
  <2>2. \A k \in 0 .. N : f[k] \in [States -> 0 .. Infinity]
    BY DEF IsDistance
  <2>3. \A k \in 0 .. N : f[k][s] \in 0 .. Infinity
    BY <2>2
  <2> QED
    BY <2>1, <2>2, <2>3
<1>2. ASSUME NEW k \in 1 .. N PROVE f[k][s] <= f[k - 1][s]
  <2>1. k - 1 \in 0 .. N /\ f[k] = Relaxed(f[k - 1])
    BY <1>1 DEF IsDistance
  <2> QED
    BY <1>1, <2>1, RelaxedFacts
<1> HIDE DEF N
<1>3. 0 \in Good
    BY <1>1
<1>4. ASSUME NEW k \in Nat, k \in Good PROVE k + 1 \in Good
  <2> SUFFICES ASSUME k + 1 <= N PROVE f[N][s] <= f[N - (k + 1)][s]
    OBVIOUS
  <2>1. /\ N - k \in 1 .. N /\ (N - k) - 1 = N - (k + 1) /\ N - (k + 1) \in 0 .. N
        /\ N \in 0 .. N /\ N - k \in 0 .. N
        /\ f[N][s] <= f[N - k][s]
    BY <1>1, <1>4
  <2>2. f[N - k][s] <= f[N - (k + 1)][s]
    BY <1>2, <2>1
  <2> QED
    BY <1>1, <2>1, <2>2
<1>5. Nat \subseteq Good
  <2> HIDE DEF Good
  <2> QED
    BY <1>3, <1>4, NumberInduction
<1>6. n \in 0 .. N /\ N - n \in Nat /\ N - n <= N /\ N - (N - n) = n
    BY <1>1 DEF N
<1>7. f[N][s] <= f[N - (N - n)][s]
    BY <1>5, <1>6
<1> QED
    BY <1>6, <1>7 DEF N

\* No plan is cheaper than the distance of the initial state.
LEMMA DistanceOfPlan ==
    ASSUME NEW p, NEW at, NEW cost, Len(p) \in 0 .. Cardinality(States),
           \A n \in 0 .. Len(p) : at[n] \in States /\ cost[n] \in Nat,
           \A n \in 1 .. Len(p) : /\ p[n] \in Applicable(at[n - 1])
                                  /\ Successor(at[n - 1], p[n]) = at[n]
                                  /\ cost[n] = cost[n - 1] + Cost[p[n]],
           at[Len(p)] \in Goal, cost[0] = 0
    PROVE  GoalDistance[at[0]] <= cost[Len(p)]
<1> DEFINE N == Cardinality(States)
           L == Len(p)
<1>1. PICK f : IsDistance(f) /\ GoalDistance = f[N]
    BY DistanceSteps
<1>2. N \in Nat /\ L \in Nat /\ L <= N
    BY SizeOfStates
<1>3. \A n \in 0 .. N : f[n] \in [States -> 0 .. Infinity]
    BY <1>1 DEF IsDistance
<1>4. \A n \in 0 .. N, s \in States : f[n][s] \in Nat
  <2>1. \A n \in 0 .. N, s \in States : f[n][s] \in 0 .. Infinity
    BY <1>3
  <2> QED
    BY <2>1, SizeOfStates
<1> DEFINE Good == {k \in Nat : k <= L => cost[L - k] + f[k][at[L - k]] <= cost[L]}
<1>5. 0 \in Good
  <2>1. f[0] = [s \in States |-> IF s \in Goal THEN 0 ELSE Infinity]
    BY <1>1 DEF IsDistance
  <2>2. L \in 0 .. L /\ L - 0 = L
    BY <1>2
  <2>3. f[0][at[L]] = 0 /\ cost[L] \in Nat
    BY <2>1, <2>2
  <2> HIDE DEF L
  <2> QED
    BY <1>2, <2>2, <2>3
<1>6. ASSUME NEW k \in Nat, k \in Good PROVE k + 1 \in Good
  <2> SUFFICES ASSUME k + 1 <= L PROVE cost[L - (k + 1)] + f[k + 1][at[L - (k + 1)]] <= cost[L]
    OBVIOUS
  <2> DEFINE m == L - (k + 1)
  <2>1. /\ L - k \in 1 .. L /\ (L - k) - 1 = m /\ m \in 0 .. L /\ L - k \in 0 .. L /\ L \in 0 .. L
        /\ k + 1 \in 1 .. N /\ k \in 0 .. N /\ k + 1 \in 0 .. N /\ (k + 1) - 1 = k
        /\ cost[L - k] + f[k][at[L - k]] <= cost[L]
    BY <1>2, <1>6
  <2>2. /\ p[L - k] \in Applicable(at[m])
        /\ Successor(at[m], p[L - k]) = at[L - k]
        /\ cost[L - k] = cost[m] + Cost[p[L - k]]
        /\ at[m] \in States /\ cost[m] \in Nat /\ cost[L] \in Nat
        /\ at[L - k] \in States
    BY <2>1
  <2>3. Cost[p[L - k]] \in Nat
    BY <2>2, SuccessorInTask
  <2>4. f[k + 1] = Relaxed(f[k])
    BY <1>1, <2>1 DEF IsDistance
  <2>5. f[k + 1][at[m]] <= Cost[p[L - k]] + f[k][at[L - k]]
    BY <1>3, <2>1, <2>2, <2>4, RelaxedFacts
  <2>6. f[k + 1][at[m]] \in Nat /\ f[k][at[L - k]] \in Nat
    BY <1>4, <2>1, <2>2
  <2> HIDE DEF m, L
  <2>7. cost[m] + f[k + 1][at[m]] <= cost[L]
    <3>1. \A a, b, c, d, z \in Nat : (a + b) + c <= z /\ d <= b + c => a + d <= z
      OBVIOUS
    <3>2. (cost[m] + Cost[p[L - k]]) + f[k][at[L - k]] <= cost[L]
      BY <2>1, <2>2
    <3> QED
      BY <2>2, <2>3, <2>5, <2>6, <3>1, <3>2
  <2> QED
    BY <2>7 DEF m
<1>7. Nat \subseteq Good
  <2> HIDE DEF Good
  <2> QED
    BY <1>5, <1>6, NumberInduction
<1>8. cost[0] + f[L][at[0]] <= cost[L]
  <2>1. L <= L /\ L - L = 0
    BY <1>2
  <2>2. cost[L - L] + f[L][at[L - L]] <= cost[L]
    BY <1>2, <1>7, <2>1
  <2> QED
    BY <2>1, <2>2
<1>9. at[0] \in States /\ L \in 0 .. N /\ N \in 0 .. N /\ cost[L] \in Nat /\ cost[0] = 0
    BY <1>2
<1>10. f[N][at[0]] <= f[L][at[0]]
    BY <1>1, <1>9, DistanceFalls
<1>11. f[N][at[0]] \in Nat /\ f[L][at[0]] \in Nat
    BY <1>4, <1>9
<1> QED
    BY <1>1, <1>8, <1>9, <1>10, <1>11

\* As long as closed states have successors that are as close to the initial state, by some
\* measure w, as their operators promise, something on the way to the goal is still open.
LEMMA OpenOnTheWay ==
    ASSUME NEW f, IsDistance(f), NEW C \in Nat, C < Infinity, NEW w,
           \A s \in States : status[s] \in {"OPEN", "CLOSED"} => w[s] \in Nat,
           \A s \in States : status[s] = "DEAD_END" => GoalDistance[s] = Infinity,
           \A s \in Goal : status[s] # "CLOSED",
           \A s \in States : \A op \in Applicable(s) :
              status[s] = "CLOSED" /\ w[s] + Cost[op] <= C =>
                 \/ status[Successor(s, op)] = "DEAD_END"
                 \/ /\ status[Successor(s, op)] \in {"OPEN", "CLOSED"}
                    /\ w[Successor(s, op)] <= w[s] + Cost[op],
           GoalDistance = f[Cardinality(States)],
           NEW s0 \in States, status[s0] \in {"OPEN", "CLOSED"}, w[s0] + GoalDistance[s0] <= C
    PROVE  \E u \in States : status[u] = "OPEN" /\ w[u] + GoalDistance[u] <= C
<1> DEFINE N == Cardinality(States)
           Near(s, n) == status[s] \in {"OPEN", "CLOSED"} /\ w[s] + f[n][s] <= C
<1>1. N \in Nat /\ Infinity \in Nat /\ Infinity > 0
    BY SizeOfStates
<1>2. \A n \in 0 .. N : f[n] \in [States -> 0 .. Infinity]
    BY DEF IsDistance
<1>3. \A n \in 0 .. N, s \in States : f[n][s] \in Nat /\ GoalDistance[s] \in Nat
  <2>1. \A n \in 0 .. N, s \in States : f[n][s] \in 0 .. Infinity
    BY <1>2
  <2> QED
    BY <1>1, <2>1
<1> SUFFICES ASSUME \A u \in States : status[u] = "OPEN" => ~ (w[u] + GoalDistance[u] <= C)
             PROVE  FALSE
    OBVIOUS
<1>4. ASSUME NEW n \in 0 .. N, NEW s \in States, Near(s, n) PROVE status[s] = "CLOSED"
  <2>1. GoalDistance[s] <= f[n][s] /\ w[s] \in Nat /\ f[n][s] \in Nat /\ GoalDistance[s] \in Nat
    BY <1>3, <1>4, DistanceFalls
  <2>2. w[s] + GoalDistance[s] <= C
    BY <1>4, <2>1
  <2> QED
    BY <1>4, <2>2
<1> DEFINE Good == {n \in Nat : n <= N => \A s \in States : ~ Near(s, n)}
<1>5. 0 \in Good
  <2> SUFFICES ASSUME NEW s \in States, Near(s, 0) PROVE FALSE
    OBVIOUS
  <2>1. status[s] = "CLOSED"
    BY <1>1, <1>4
  <2>2. s \notin Goal
    BY <2>1
  <2>3. f[0][s] = Infinity /\ w[s] \in Nat
    BY <2>1, <2>2 DEF IsDistance
  <2> QED
    BY <1>1, <2>3
<1>6. ASSUME NEW n \in Nat, n \in Good PROVE n + 1 \in Good
  <2> SUFFICES ASSUME n + 1 <= N, NEW s \in States, Near(s, n + 1) PROVE FALSE
    OBVIOUS
  <2>1. /\ n + 1 \in 1 .. N /\ n + 1 \in 0 .. N /\ n \in 0 .. N /\ (n + 1) - 1 = n
        /\ \A x \in States : ~ Near(x, n)
    BY <1>1, <1>6
  <2>2. status[s] = "CLOSED" /\ w[s] \in Nat
    BY <1>4, <2>1
  <2>3. f[n + 1] = Relaxed(f[n])
    BY <2>1 DEF IsDistance
  <2>4. f[n + 1][s] # f[n][s]
    BY <2>1
  <2>5. f[n + 1][s] \in Nat /\ f[n + 1][s] < Infinity
    BY <1>1, <1>3, <2>1, <2>2
  <2>6. PICK op \in Applicable(s) : f[n + 1][s] = Cost[op] + f[n][Successor(s, op)]
    BY <1>1, <1>2, <2>1, <2>3, <2>4, <2>5, RelaxedFacts
  <2>7. PICK t \in States : t = Successor(s, op)
    BY SuccessorInTask
  <2>8. Cost[op] \in Nat /\ f[n][t] \in Nat /\ f[n][t] < Infinity /\ w[s] + Cost[op] + f[n][t] <= C
    <3>1. Cost[op] \in Nat
      BY SuccessorInTask
    <3>2. f[n][t] \in Nat /\ f[n + 1][s] = Cost[op] + f[n][t] /\ w[s] + f[n + 1][s] <= C
      BY <1>3, <2>1, <2>6, <2>7
    <3> QED
      BY <1>1, <2>2, <2>5, <3>1, <3>2
  <2>9. w[s] + Cost[op] <= C
    BY <2>2, <2>8
  <2>10. status[t] # "DEAD_END"
    <3>1. GoalDistance[t] <= f[n][t] /\ GoalDistance[t] \in Nat
      BY <1>3, <2>1, DistanceFalls
    <3> QED
      BY <1>1, <2>8, <3>1
  <2>11. status[t] \in {"OPEN", "CLOSED"} /\ w[t] <= w[s] + Cost[op]
    BY <2>2, <2>7, <2>9, <2>10
  <2>12. w[t] + f[n][t] <= C
    <3>1. w[t] \in Nat
      BY <2>11
    <3> QED
      BY <2>2, <2>8, <2>11, <3>1
  <2> QED
    BY <2>1, <2>11, <2>12
<1>7. Nat \subseteq Good
  <2> HIDE DEF Good
  <2> QED
    BY <1>5, <1>6, NumberInduction
<1>8. Near(s0, N)
    OBVIOUS
<1> QED
    BY <1>1, <1>7, <1>8

-----------------------------------------------------------------------------
(* The landmark count.                                                     *)

\* The landmark count is used only with landmarks, orders and costs that are sound.
LandmarksReliable == (\E c \in Configurations : c.heuristic = LmCount) => LandmarksSound

\* The sets of states that no path on which l is never true can leave.
Unleavable(l) ==
    {X \in SUBSET States :
        /\ InitialState \in X \cup TrueIn[l]
        /\ \A s \in X : \A op \in Applicable(s) : Successor(s, op) \in X \cup TrueIn[l]}

\* Paths on which a landmark is never true: they end in states where it is false, and go on
\* until it is true.
LEMMA AvoidingFacts ==
    ASSUME NEW l
    PROVE  /\ Avoiding(l) \subseteq States
           /\ \A s \in Avoiding(l) : s \notin TrueIn[l]
           /\ InitialState \notin TrueIn[l] => InitialState \in Avoiding(l)
           /\ \A s \in Avoiding(l) : \A op \in Applicable(s) :
                 Successor(s, op) \notin TrueIn[l] => Successor(s, op) \in Avoiding(l)
           /\ \A X \in Unleavable(l) : Avoiding(l) \subseteq X
<1>1. Avoiding(l) = {s \in States : \A X \in Unleavable(l) : s \in X}
    BY DEF Avoiding, Unleavable
<1>2. States \ TrueIn[l] \in Unleavable(l)
    BY SuccessorInTask, EagerAssumption DEF Unleavable
<1>3. ASSUME InitialState \notin TrueIn[l], NEW X \in Unleavable(l) PROVE InitialState \in X
    BY <1>3 DEF Unleavable
<1>4. ASSUME NEW s \in Avoiding(l), NEW op \in Applicable(s), Successor(s, op) \notin TrueIn[l],
             NEW X \in Unleavable(l)
      PROVE  Successor(s, op) \in X
    BY <1>1, <1>4 DEF Unleavable
<1>5. \A s \in Avoiding(l) : \A op \in Applicable(s) : Successor(s, op) \in States
    BY <1>1, SuccessorInTask
<1> QED
    BY <1>1, <1>2, <1>3, <1>4, <1>5, EagerAssumption

\* A landmark becomes true on no path before its parents have been.
LEMMA OrderAvoids ==
    ASSUME LandmarksSound, NEW l \in Landmarks, NEW p \in Parents(l), NEW s \in Avoiding(p)
    PROVE  s \notin TrueIn[l]
<1> DEFINE X == Avoiding(p) \ TrueIn[l]
<1>1. /\ InitialState \notin TrueIn[l]
      /\ \A x \in Avoiding(p), op \in Operators : ~ Achieves(x, op, l)
  <2>1. <<p, l>> \in Orders /\ <<p, l>>[1] = p /\ <<p, l>>[2] = l
    BY DEF Parents
  <2> QED
    BY <2>1 DEF LandmarksSound
<1>2. ASSUME NEW x \in X, NEW op \in Applicable(x) PROVE Successor(x, op) \in X \cup TrueIn[p]
  <2>1. Successor(x, op) \notin TrueIn[l]
    BY <1>1, SuccessorInTask, AvoidingFacts DEF Achieves
  <2> QED
    BY <2>1, AvoidingFacts
<1>3. X \in Unleavable(p)
    BY <1>1, <1>2, AvoidingFacts DEF Unleavable
<1> QED
    BY <1>3, AvoidingFacts

\* What UpdateReached drops of the landmarks, or does not add to them, some path to the state
\* has never reached, if that is so for its parent and was so for it.
LEMMA MissingAvoided ==
    ASSUME LandmarksSound,
           NEW s \in States, NEW op \in Applicable(s), NEW ofParent \in SUBSET Landmarks,
           \A l \in Landmarks \ ofParent : s \in Avoiding(l),
           NEW isNew \in BOOLEAN, NEW old,
           ~ isNew => \A l \in Landmarks \ old : Successor(s, op) \in Avoiding(l),
           NEW l \in Landmarks \ UpdateReached(ofParent, isNew, old, Successor(s, op))
    PROVE  Successor(s, op) \in Avoiding(l)
<1> DEFINE t == Successor(s, op)
<1>1. \/ ~ isNew /\ l \notin old
      \/ /\ l \notin ofParent
         /\ \/ t \notin TrueIn[l]
            \/ \E p \in Parents(l) : p \notin ofParent \/ (~ isNew /\ p \notin old)
    BY UpdateReachedFacts
<1>2. CASE ~ isNew /\ l \notin old
    BY <1>2
<1>3. ASSUME l \notin ofParent, t \notin TrueIn[l] PROVE t \in Avoiding(l)
    BY <1>3, AvoidingFacts
<1>4. ASSUME l \notin ofParent, NEW p \in Parents(l), p \notin ofParent PROVE t \notin TrueIn[l]
  <2>1. s \in Avoiding(p) /\ s \in Avoiding(l) /\ op \in Operators
    BY <1>4, SuccessorInTask DEF Parents
  <2>2. ~ Achieves(s, op, l)
    <3>1. <<p, l>> \in Orders /\ <<p, l>>[1] = p /\ <<p, l>>[2] = l
      BY DEF Parents
    <3> QED
      BY <2>1, <3>1 DEF LandmarksSound
  <2> QED
    BY <2>1, <2>2, AvoidingFacts DEF Achieves
<1>5. ASSUME NEW p \in Parents(l), ~ isNew, p \notin old PROVE t \notin TrueIn[l]
  <2>1. t \in Avoiding(p)
    BY <1>5 DEF Parents
  <2> QED
    BY <2>1, OrderAvoids
<1> QED
    BY <1>1, <1>2, <1>3, <1>4, <1>5

\* Landmark l has to become true on every path from s to the goal.
ToCome(s, l) ==
    \/ s \in Avoiding(l)
    \/ /\ s \notin TrueIn[l]
       /\ l \in GoalLandmarks \/ \E c \in Landmarks : <<l, c>> \in GreedyNecessary /\ s \in Avoiding(c)

\* ... and stays so until an achiever makes it true.
LEMMA ToComeFacts ==
    ASSUME LandmarksSound, NEW l \in Landmarks, NEW s \in States, ToCome(s, l)
    PROVE  /\ s \notin Goal
           /\ \A op \in Applicable(s) :
                 /\ Successor(s, op) \in TrueIn[l] =>
                       op \in PossibleAchievers[l] /\ (s \in Avoiding(l) => op \in FirstAchievers[l])
                 /\ Successor(s, op) \notin TrueIn[l] => ToCome(Successor(s, op), l)
<1>1. \A c \in Landmarks : Goal \cap Avoiding(c) = {}
    BY DEF LandmarksSound
<1>2. l \in GoalLandmarks => Goal \subseteq TrueIn[l]
    BY DEF LandmarksSound
<1>3. s \notin TrueIn[l]
    BY AvoidingFacts DEF ToCome
<1>4. s \notin Goal
    BY <1>1, <1>2, <1>3 DEF ToCome
<1>5. ASSUME NEW op \in Applicable(s), Successor(s, op) \in TrueIn[l]
      PROVE  op \in PossibleAchievers[l] /\ (s \in Avoiding(l) => op \in FirstAchievers[l])
  <2>1. op \in Operators /\ Achieves(s, op, l)
    BY <1>3, <1>5, SuccessorInTask DEF Achieves
  <2> QED
    BY <2>1 DEF LandmarksSound
<1>6. ASSUME NEW op \in Applicable(s), Successor(s, op) \notin TrueIn[l]
      PROVE  ToCome(Successor(s, op), l)
  <2>1. CASE s \in Avoiding(l)
    BY <1>6, <2>1, AvoidingFacts DEF ToCome
  <2>2. CASE l \in GoalLandmarks
    BY <1>6, <2>2 DEF ToCome
  <2>3. ASSUME NEW c \in Landmarks, <<l, c>> \in GreedyNecessary, s \in Avoiding(c)
        PROVE  ToCome(Successor(s, op), l)
    <3>1. ~ Achieves(s, op, c)
      <4>1. <<l, c>>[1] = l /\ <<l, c>>[2] = c /\ op \in Operators
        BY SuccessorInTask
      <4> QED
        BY <1>3, <2>3, <4>1 DEF LandmarksSound
    <3>2. Successor(s, op) \in Avoiding(c)
      BY <2>3, <3>1, AvoidingFacts DEF Achieves
    <3> QED
      BY <1>6, <2>3, <3>2 DEF ToCome
  <2> QED
    BY <2>1, <2>2, <2>3 DEF ToCome
<1> QED
    BY <1>4, <1>5, <1>6

\* States from which no operator leads out, none of them a goal, have no plan.
LEMMA NoPlanInside ==
    ASSUME NEW X \in SUBSET States, X \cap Goal = {},
           \A s \in X : \A op \in Applicable(s) : Successor(s, op) \in X
    PROVE  \A s \in X : GoalDistance[s] = Infinity
<1> DEFINE N == Cardinality(States)
<1>1. PICK f : IsDistance(f) /\ GoalDistance = f[N]
    BY DistanceSteps
<1>2. N \in Nat /\ Infinity \in Nat
    BY SizeOfStates
<1>3. /\ f[0] = [s \in States |-> IF s \in Goal THEN 0 ELSE Infinity]
      /\ \A n \in 0 .. N : f[n] \in [States -> 0 .. Infinity]
      /\ \A n \in 1 .. N : f[n] = Relaxed(f[n - 1])
    BY <1>1 DEF IsDistance
<1> HIDE DEF N
<1> DEFINE Good == {n \in Nat : n <= N => \A s \in X : f[n][s] = Infinity}
<1>4. 0 \in Good
    BY <1>3
<1>5. ASSUME NEW n \in Nat, n \in Good PROVE n + 1 \in Good
  <2> SUFFICES ASSUME n + 1 <= N, NEW s \in X PROVE f[n + 1][s] = Infinity
    OBVIOUS
  <2>1. n + 1 \in 1 .. N /\ (n + 1) - 1 = n /\ n \in 0 .. N /\ \A x \in X : f[n][x] = Infinity
    BY <1>2, <1>5
  <2>2. f[n + 1] = Relaxed(f[n]) /\ f[n] \in [States -> 0 .. Infinity]
    BY <1>3, <2>1
  <2>3. /\ f[n + 1][s] \in 0 .. Infinity
        /\ \/ f[n + 1][s] = f[n][s]
           \/ \E op \in Applicable(s) :
                 f[n + 1][s] = Infinity \/ f[n + 1][s] = Cost[op] + f[n][Successor(s, op)]
    BY <2>2, RelaxedFacts
  <2>4. ASSUME NEW op \in Applicable(s), f[n + 1][s] = Cost[op] + f[n][Successor(s, op)]
        PROVE  f[n + 1][s] = Infinity
    <3>1. Cost[op] \in Nat /\ f[n][Successor(s, op)] = Infinity
      BY <2>1, SuccessorInTask
    <3> QED
      BY <1>2, <2>3, <2>4, <3>1
  <2> QED
    BY <2>1, <2>3, <2>4
<1>6. Nat \subseteq Good
  <2> HIDE DEF Good
  <2> QED
    BY <1>4, <1>5, NumberInduction
<1> QED
    BY <1>1, <1>2, <1>6

\* Operators share their costs among the landmarks they achieve, so that the landmarks that
\* have to become true cost no more than any plan.
LEMMA CostsToCome ==
    ASSUME LandmarksSound, NEW s \in States, NEW U \in SUBSET {l \in Landmarks : ToCome(s, l)}
    PROVE  SumOver(MinCost, U) \in Nat /\ SumOver(MinCost, U) <= GoalDistance[s]
<1> DEFINE N == Cardinality(States)
<1>1. PICK f : IsDistance(f) /\ GoalDistance = f[N]
    BY DistanceSteps
<1>2. N \in Nat /\ Infinity \in Nat
    BY SizeOfStates
<1>3. /\ f[0] = [x \in States |-> IF x \in Goal THEN 0 ELSE Infinity]
      /\ \A n \in 0 .. N : f[n] \in [States -> 0 .. Infinity]
      /\ \A n \in 1 .. N : f[n] = Relaxed(f[n - 1])
    BY <1>1 DEF IsDistance
<1>4. IsFiniteSet(Landmarks) /\ MinCost \in [Landmarks -> Nat]
    BY LandmarksFinite
<1>5. \A A \in SUBSET Landmarks : SumOver(MinCost, A) \in Nat /\ SumOver(MinCost, A) <= Infinity
    BY LandmarkCosts DEF SumOver
<1> HIDE DEF N
<1> DEFINE Within(n) == \A x \in States : \A A \in SUBSET {l \in Landmarks : ToCome(x, l)} :
                           SumOver(MinCost, A) <= f[n][x]
           Good == {n \in Nat : n <= N => Within(n)}
<1>6. 0 \in Good
  <2> SUFFICES ASSUME NEW x \in States, NEW A \in SUBSET {l \in Landmarks : ToCome(x, l)}
               PROVE  SumOver(MinCost, A) <= f[0][x]
    OBVIOUS
  <2>1. CASE x \in Goal
    <3>1. A = {}
      BY <2>1, ToComeFacts
    <3>2. SumOver(MinCost, A) = 0 /\ f[0][x] = 0
      BY <1>3, <1>4, <2>1, <3>1, SumStep
    <3> QED
      BY <3>2
  <2>2. CASE x \notin Goal
    <3>1. f[0][x] = Infinity /\ A \in SUBSET Landmarks
      BY <1>3, <2>2
    <3> QED
      BY <1>5, <3>1
  <2> QED
    BY <2>1, <2>2
<1>7. ASSUME NEW n \in Nat, n \in Good PROVE n + 1 \in Good
  <2> SUFFICES ASSUME n + 1 <= N,
                      NEW x \in States, NEW A \in SUBSET {l \in Landmarks : ToCome(x, l)}
               PROVE  SumOver(MinCost, A) <= f[n + 1][x]
    OBVIOUS
  <2>1. n + 1 \in 1 .. N /\ (n + 1) - 1 = n /\ n \in 0 .. N /\ Within(n)
    BY <1>2, <1>7
  <2>2. f[n + 1] = Relaxed(f[n]) /\ f[n] \in [States -> 0 .. Infinity] /\ A \in SUBSET Landmarks
    BY <1>3, <2>1
  <2> HIDE DEF Within
  <2>3. \/ f[n + 1][x] = f[n][x]
        \/ \E op \in Applicable(x) :
              f[n + 1][x] = Infinity \/ f[n + 1][x] = Cost[op] + f[n][Successor(x, op)]
    BY <2>2, RelaxedFacts
  <2>4. SumOver(MinCost, A) <= f[n][x]
    BY <2>1 DEF Within
  <2>5. ASSUME NEW op \in Applicable(x), f[n + 1][x] = Cost[op] + f[n][Successor(x, op)]
        PROVE  SumOver(MinCost, A) <= f[n + 1][x]
    <3> DEFINE t == Successor(x, op)
               now == {l \in Landmarks : t \in TrueIn[l]}
               paid == A \cap now
               shared == {l \in Landmarks : op \in PossibleAchievers[l]}
    <3>1. t \in States /\ op \in Operators /\ Cost[op] \in Nat /\ f[n][t] \in Nat
      BY <1>2, <2>2, SuccessorInTask
    <3>2. paid \in SUBSET shared
      BY ToComeFacts
    <3>3. A \ now \in SUBSET {l \in Landmarks : ToCome(t, l)}
      BY ToComeFacts
    <3>4. SumOver(MinCost, A \ now) <= f[n][t]
      BY <2>1, <3>1, <3>3 DEF Within
    <3>5. SumOver(MinCost, shared) <= Cost[op]
      BY <3>1 DEF LandmarksSound, SumOver
    <3> HIDE DEF shared, t, now
    <3>6. shared \in SUBSET Landmarks /\ A \ now \in SUBSET Landmarks
      BY <2>2 DEF shared
    <3>7. SumOver(MinCost, paid) <= SumOver(MinCost, shared)
      BY <1>4, <3>2, <3>6, SumMonotone
    <3>8. SumOver(MinCost, A) = SumOver(MinCost, paid) + SumOver(MinCost, A \ now)
      <4>1. A \cap now \in SUBSET A /\ A \ (A \cap now) = A \ now
        OBVIOUS
      <4>2. \A P \in SUBSET A : SumOver(MinCost, A) = SumOver(MinCost, P) + SumOver(MinCost, A \ P)
        BY <1>4, <2>2, SumSplit
      <4> QED
        BY <4>1, <4>2
    <3>9. /\ SumOver(MinCost, paid) \in Nat /\ SumOver(MinCost, shared) \in Nat
          /\ SumOver(MinCost, A \ now) \in Nat
      BY <1>5, <2>2, <3>6
    <3> HIDE DEF paid
    <3> QED
      BY <2>5, <3>1, <3>4, <3>5, <3>7, <3>8, <3>9 DEF t
  <2> QED
    BY <1>5, <2>2, <2>3, <2>4, <2>5
<1>8. Nat \subseteq Good
  <2> HIDE DEF Good
  <2> QED
    BY <1>6, <1>7, NumberInduction
<1>9. Within(N)
  <2> HIDE DEF Within
  <2> QED
    BY <1>2, <1>8
<1> QED
    BY <1>1, <1>5, <1>9

\* When what is not counted as reached has never been on some path, the landmark count is
\* admissible, and the dead ends it sees are dead ends.
LEMMA CountAdmissible ==
    ASSUME LandmarksSound, config.heuristic = LmCount, NEW s \in States,
           NEW lms \in SUBSET Landmarks, \A l \in Landmarks \ lms : s \in Avoiding(l)
    PROVE  Estimate(s, lms) <= GoalDistance[s] /\ GoalDistance[s] \in 0 .. Infinity
<1>1. GoalDistance[s] \in 0 .. Infinity /\ Infinity \in Nat
  <2>1. PICK f : IsDistance(f) /\ GoalDistance = f[Cardinality(States)]
    BY DistanceSteps
  <2> QED
    BY <2>1, SizeOfStates DEF IsDistance
<1>2. ASSUME NEW l \in NeededAgain(lms, s) PROVE l \in Landmarks /\ ToCome(s, l)
    BY LandmarkAssumption DEF NeededAgain, ToCome
<1>3. CASE s \in Goal
    BY <1>1, <1>3 DEF Estimate
<1>4. CASE LandmarkDeadEnd(lms, s)
  <2>1. ASSUME NEW l \in Landmarks \ lms, FirstAchievers[l] = {} PROVE GoalDistance[s] = Infinity
    <3>1. Avoiding(l) \in SUBSET States /\ Avoiding(l) \cap Goal = {}
      BY AvoidingFacts DEF LandmarksSound
    <3>2. ASSUME NEW x \in Avoiding(l), NEW op \in Applicable(x)
          PROVE  Successor(x, op) \in Avoiding(l)
      <4>1. x \in States /\ ToCome(x, l)
        BY <3>1 DEF ToCome
      <4>2. Successor(x, op) \notin TrueIn[l]
        BY <2>1, <4>1, ToComeFacts
      <4> QED
        BY <4>2, AvoidingFacts
    <3> QED
      BY <2>1, <3>1, <3>2, NoPlanInside
  <2>2. ASSUME NEW l \in NeededAgain(lms, s), PossibleAchievers[l] = {}
        PROVE  GoalDistance[s] = Infinity
    <3> DEFINE X == {x \in States : ToCome(x, l)}
    <3>1. X \in SUBSET States /\ X \cap Goal = {} /\ s \in X
      BY <1>2, ToComeFacts
    <3>2. ASSUME NEW x \in X, NEW op \in Applicable(x) PROVE Successor(x, op) \in X
      BY <1>2, <2>2, ToComeFacts, SuccessorInTask
    <3> HIDE DEF X
    <3> QED
      BY <3>1, <3>2, NoPlanInside
  <2>3. GoalDistance[s] = Infinity
    BY <1>4, <2>1, <2>2 DEF LandmarkDeadEnd
  <2> QED
    BY <1>1, <1>4, <2>3 DEF Estimate
<1>5. CASE s \notin Goal /\ ~ LandmarkDeadEnd(lms, s)
  <2> DEFINE U == (Landmarks \ lms) \cup NeededAgain(lms, s)
  <2>1. U \in SUBSET {l \in Landmarks : ToCome(s, l)}
    BY <1>2 DEF ToCome
  <2>2. Estimate(s, lms) = SumOver(MinCost, U)
    BY <1>5 DEF Estimate, LandmarkCost, SumOver
  <2> HIDE DEF U
  <2> QED
    BY <1>1, <2>1, <2>2, CostsToCome
<1> QED
    BY <1>1, <1>3, <1>4, <1>5

\* A search has looked at a state.
Seen(s) == status[s] # "NEW" \/ (s = InitialState /\ phase # "initialize")

\* A landmark that does not count as reached has never been true on some path to the state:
\* the paths that were notified so far are only some of all, but each of them counts.
MissingAvoidable ==
    \A s \in States : Seen(s) => \A l \in Landmarks \ reached[s] : s \in Avoiding(l)

\* ... so that what the landmark count calls a dead end is one.
DeadEndsCounted ==
    \A s \in States :
       \/ status[s] = "DEAD_END"
       \/ s = InitialState /\ status[s] = "NEW" /\ phase # "initialize"
       => GoalDistance[s] = Infinity

LandmarkInv == config.heuristic = LmCount => MissingAvoidable /\ DeadEndsCounted

\* A step that gives the successor of a closed state the landmarks of one more path.
LEMMA NotifiedAvoids ==
    ASSUME EagerInv, ReachedTyped, LandmarksSound, MissingAvoidable, config.heuristic = LmCount,
           NEW op \in Operators, Look(op)
    PROVE  LET t == Successor(current, op)
           IN  \A s \in States : Seen(s) \/ s = t =>
                  \A l \in Landmarks \ Notified(current, t)[s] : s \in Avoiding(l)
<1>1. PICK t \in States : t = Successor(current, op)
    BY LookFacts
<1>2. current \in States /\ status[current] = "CLOSED" /\ op \in Applicable(current)
    BY LookFacts
<1>3. reached \in [States -> SUBSET Landmarks]
    BY DEF ReachedTyped
<1>4. CASE Notified(current, t) = reached /\ Seen(t)
    BY <1>1, <1>4 DEF MissingAvoidable
<1>5. CASE /\ Notified(current, t) =
                 [reached EXCEPT ![t] = UpdateReached(reached[current], status[t] = "NEW", reached[t], t)]
  <2>1. PICK isNew \in BOOLEAN : isNew = (status[t] = "NEW")
    OBVIOUS
  <2>2. reached[current] \in SUBSET Landmarks /\ \A l \in Landmarks \ reached[current] : current \in Avoiding(l)
    BY <1>2, <1>3 DEF MissingAvoidable, Seen
  <2>3. ~ isNew => \A l \in Landmarks \ reached[t] : t \in Avoiding(l)
    BY <2>1 DEF MissingAvoidable, Seen
  <2>4. \A l \in Landmarks \ UpdateReached(reached[current], isNew, reached[t], t) : t \in Avoiding(l)
    BY <1>1, <1>2, <2>2, <2>3, MissingAvoided
  <2>5. /\ Notified(current, t)[t] = UpdateReached(reached[current], isNew, reached[t], t)
        /\ \A s \in States \ {t} : Notified(current, t)[s] = reached[s]
    BY <1>3, <1>5, <2>1
  <2> QED
    BY <1>1, <2>4, <2>5 DEF MissingAvoidable
<1>6. status[t] = "NEW" => current # t
    BY <1>2
<1> QED
    BY <1>4, <1>5, <1>6 DEF Notified, Seen

\* The first paths: the landmarks that are true initially and need no others are reached.
LEMMA InitiallyAvoided ==
    ASSUME LandmarksSound, NEW l \in Landmarks \ InitiallyReached(InitialState)
    PROVE  InitialState \in Avoiding(l)
<1>1. CASE Parents(l) = {}
    BY <1>1, AvoidingFacts DEF InitiallyReached
<1>2. ASSUME NEW p \in Parents(l) PROVE InitialState \in Avoiding(l)
  <2>1. <<p, l>> \in Orders /\ <<p, l>>[2] = l
    BY DEF Parents
  <2> QED
    BY <2>1, AvoidingFacts DEF LandmarksSound
<1> QED
    BY <1>1, <1>2

LEMMA LandmarkInvariant == LandmarksReliable => (Spec => []LandmarkInv)
<1> SUFFICES ASSUME LandmarksReliable PROVE Spec => []LandmarkInv
    OBVIOUS
<1>1. Init => LandmarkInv
    BY DEF Init, LandmarkInv, MissingAvoidable, DeadEndsCounted, Seen
<1>2. EagerInv /\ EagerInv' /\ QueueInv /\ LandmarkInv /\ [Next]_vars => LandmarkInv'
  <2>1. PICK D : D = GoalDistance
    OBVIOUS
  <2>2. GoalDistance' = D
    BY <2>1 DEF GoalDistance, Sum, Applicable, Successor
  <2>3. PICK avoid : avoid = [l \in Landmarks |-> Avoiding(l)]
    OBVIOUS
  <2>4. ASSUME NEW l \in Landmarks PROVE Avoiding(l) = avoid[l] /\ Avoiding(l)' = avoid[l]
    BY <2>3 DEF Avoiding, Applicable, Successor
  <2>5. SUFFICES ASSUME EagerInv, EagerInv', QueueInv, LandmarkInv, [Next]_vars,
                        config'.heuristic = LmCount
                 PROVE  /\ \A s \in States : Seen(s)' => \A l \in Landmarks \ reached'[s] : s \in avoid[l]
                        /\ \A s \in States :
                              \/ status'[s] = "DEAD_END"
                              \/ s = InitialState /\ status'[s] = "NEW" /\ phase' # "initialize"
                              => D[s] = Infinity
    BY <2>2, <2>4 DEF LandmarkInv, MissingAvoidable, DeadEndsCounted, Landmarks
  <2>7. /\ config' = config /\ config.heuristic = LmCount /\ config \in Configurations
        /\ MissingAvoidable /\ DeadEndsCounted /\ ReachedTyped
        /\ status \in [States -> Statuses] /\ InitialState \in States
        /\ reached \in [States -> SUBSET Landmarks]
    <3>1. config' = config
      BY <2>5
      DEF Next, Initialize, Fetch, Exhausted, SkipClosed, SkipDeadEnd, BecomeDeadEnd, InsertAgain,
          Expand, StepDone, Terminated, vars, Generate, SkipOperator, NewDeadEnd, OpenNew, Reopen,
          UpdateParent, NoCheaper
    <3> QED
      BY <2>5, <3>1, EagerAssumption
      DEF EagerInv, NodesTyped, LandmarkInv, QueueInv, ReachedTyped
  <2>8. LandmarksSound
    BY <2>7 DEF LandmarksReliable
  <2>9. ASSUME NEW s \in States, NEW lms \in SUBSET Landmarks, Estimate(s, lms) = Infinity,
               \A l \in Landmarks \ lms : s \in avoid[l]
        PROVE  D[s] = Infinity
    <3>1. Estimate(s, lms) <= D[s] /\ D[s] \in 0 .. Infinity
      BY <2>1, <2>4, <2>7, <2>8, <2>9, CountAdmissible
    <3> QED
      BY <2>9, <3>1, SizeOfStates
  <2>10. \A s \in States : Seen(s) => \A l \in Landmarks \ reached[s] : s \in avoid[l]
    BY <2>4, <2>7 DEF MissingAvoidable
  <2>11. \A s \in States :
            \/ status[s] = "DEAD_END"
            \/ s = InitialState /\ status[s] = "NEW" /\ phase # "initialize"
            => D[s] = Infinity
    BY <2>1, <2>7 DEF DeadEndsCounted
  <2>12. \A s, lms : Estimate(s, lms)' = Estimate(s, lms)
    BY <2>7 DEF Estimate
  <2>13. CASE Initialize
    <3>1. /\ reached' = [reached EXCEPT ![InitialState] = InitiallyReached(InitialState)]
          /\ \A s \in States : status[s] = "NEW"
          /\ phase' = "fetch"
      BY <2>5, <2>13 DEF Initialize, EagerInv, NothingYet
    <3>2. /\ reached'[InitialState] \in SUBSET Landmarks
          /\ \A l \in Landmarks \ reached'[InitialState] : InitialState \in avoid[l]
      <4>1. InitiallyReached(InitialState) \in SUBSET Landmarks
        BY DEF InitiallyReached
      <4>2. \A l \in Landmarks \ InitiallyReached(InitialState) : InitialState \in avoid[l]
        BY <2>4, <2>8, InitiallyAvoided
      <4> QED
        BY <2>7, <3>1, <4>1, <4>2
    <3>3. \/ status' = [status EXCEPT ![InitialState] = "OPEN"]
          \/ status' = status /\ Estimate(InitialState, reached'[InitialState]) = Infinity
      BY <2>7, <2>13 DEF Initialize, node, Estimate
    <3>4. \A s \in States : Seen(s)' => s = InitialState
      BY <2>7, <3>1, <3>3 DEF Seen
    <3>5. status'[InitialState] = "NEW" => D[InitialState] = Infinity
      BY <2>7, <2>9, <3>2, <3>3
    <3>6. \A s \in States : status'[s] # "DEAD_END"
      BY <2>7, <3>1, <3>3
    <3> QED
      BY <3>2, <3>4, <3>5, <3>6
  <2>14. CASE Exhausted \/ SkipClosed \/ SkipDeadEnd \/ InsertAgain \/ Expand \/ StepDone
              \/ Terminated \/ UNCHANGED vars
    <3>1. /\ reached' = reached
          /\ (phase' = "initialize") = (phase = "initialize")
      BY <2>14 DEF Exhausted, SkipClosed, SkipDeadEnd, InsertAgain, Expand, StepDone, Terminated, vars
    <3>2. \/ status' = status
          \/ \E x \in States : status[x] # "NEW" /\ status' = [status EXCEPT ![x] = "CLOSED"]
      BY <2>5, <2>14
      DEF Exhausted, SkipClosed, SkipDeadEnd, InsertAgain, Expand, StepDone, Terminated, vars, node,
          EagerInv, EntriesOpened
    <3>3. \A s \in States : /\ (status'[s] = "NEW") = (status[s] = "NEW")
                            /\ status'[s] = "DEAD_END" => status[s] = "DEAD_END"
      BY <2>7, <3>2
    <3>4. \A s \in States : Seen(s)' = Seen(s)
      BY <3>1, <3>3 DEF Seen
    <3> QED
      BY <2>10, <2>11, <3>1, <3>3, <3>4
  <2>15. CASE BecomeDeadEnd
    <3>1. PICK x \in States : /\ status[x] # "NEW" /\ Estimate(x, reached[x]) = Infinity
                              /\ status' = [status EXCEPT ![x] = "DEAD_END"]
      BY <2>5, <2>15 DEF BecomeDeadEnd, EagerInv, EntriesOpened
    <3>2. reached' = reached /\ phase' = phase
      BY <2>15 DEF BecomeDeadEnd
    <3>3. D[x] = Infinity
      BY <2>7, <2>9, <2>10, <3>1 DEF Seen
    <3>4. \A s \in States : /\ (status'[s] = "NEW") = (status[s] = "NEW")
                            /\ status'[s] = "DEAD_END" => status[s] = "DEAD_END" \/ s = x
      BY <2>7, <3>1
    <3>5. \A s \in States : Seen(s)' = Seen(s)
      BY <3>2, <3>4 DEF Seen
    <3> QED
      BY <2>10, <2>11, <3>2, <3>3, <3>4, <3>5
  <2>16. ASSUME NEW op \in Operators, Generate(op)
         PROVE  /\ \A s \in States : Seen(s)' => \A l \in Landmarks \ reached'[s] : s \in avoid[l]
                /\ \A s \in States :
                      \/ status'[s] = "DEAD_END"
                      \/ s = InitialState /\ status'[s] = "NEW" /\ phase' # "initialize"
                      => D[s] = Infinity
    <3>1. Look(op) /\ phase = "expand" /\ phase' = "expand"
      BY <2>16 DEF Generate, SkipOperator, NewDeadEnd, OpenNew, Reopen, UpdateParent, NoCheaper, Look
    <3>2. PICK t \in States : t = Successor(current, op)
      BY <2>5, <3>1, LookFacts
    <3>3. \/ status' = status /\ reached' = reached
          \/ /\ reached' = Notified(current, t)
             /\ \/ status' = status /\ status[t] # "NEW"
                \/ status' = [status EXCEPT ![t] = "OPEN"]
                \/ /\ status' = [status EXCEPT ![t] = "DEAD_END"]
                   /\ Estimate(t, reached'[t]) = Infinity
      BY <2>7, <2>16, <3>2
      DEF Generate, SkipOperator, NewDeadEnd, OpenNew, Reopen, Opened, UpdateParent, NoCheaper, node,
          Estimate
    <3>4. \A s \in States : Seen(s) \/ s = t =>
             \A l \in Landmarks \ Notified(current, t)[s] : s \in avoid[l]
      BY <2>4, <2>5, <2>7, <2>8, <3>1, <3>2, NotifiedAvoids
    <3>5. Notified(current, t) \in [States -> SUBSET Landmarks]
      BY <2>5, <2>7, <3>1, <3>2, LookFacts, NotifiedFacts
    <3>6. CASE status' = status /\ reached' = reached
      BY <2>10, <2>11, <3>1, <3>6 DEF Seen
    <3>7. CASE reached' = Notified(current, t) /\ ~ (status' = status /\ reached' = reached)
      <4>1. \A s \in States : Seen(s)' => Seen(s) \/ s = t
        BY <2>7, <3>1, <3>3, <3>7 DEF Seen
      <4>2. \A s \in States : /\ status'[s] = "NEW" => status[s] = "NEW"
                              /\ status'[s] = "DEAD_END" =>
                                    \/ status[s] = "DEAD_END"
                                    \/ s = t /\ Estimate(t, reached'[t]) = Infinity
        BY <2>7, <3>3, <3>7
      <4>3. Estimate(t, reached'[t]) = Infinity => D[t] = Infinity
        BY <2>9, <3>4, <3>5, <3>7
      <4> QED
        BY <2>11, <3>1, <3>4, <3>7, <4>1, <4>2, <4>3
    <3> QED
      BY <3>3, <3>6, <3>7
  <2> QED
    BY <2>5, <2>13, <2>14, <2>15, <2>16 DEF Next, Fetch
<1> QED
    BY <1>1, <1>2, EagerInvariant, QueueInvariant, PTL DEF Spec

\* In every reachable state the landmark count overestimates no state, though it combines
\* the paths that reached it one by one and counts landmarks that are needed again; and the
\* dead ends it has met have no plan.
THEOREM LandmarkCountIsAdmissible == LandmarksReliable => (Spec => []LandmarksAdmissible)
<1> SUFFICES ASSUME LandmarksReliable PROVE Spec => []LandmarksAdmissible
    OBVIOUS
<1>1. EagerInv /\ QueueInv /\ LandmarkInv => LandmarksAdmissible
  <2> SUFFICES ASSUME EagerInv, QueueInv, LandmarkInv, config.heuristic = LmCount, NEW s \in States
               PROVE  /\ status[s] \in {"OPEN", "CLOSED"} => Estimate(s, reached[s]) <= GoalDistance[s]
                      /\ \/ status[s] = "DEAD_END"
                         \/ s = InitialState /\ status[s] = "NEW" /\ phase # "initialize"
                         => GoalDistance[s] = Infinity
    BY DEF LandmarksAdmissible
  <2>1. LandmarksSound /\ reached[s] \in SUBSET Landmarks
    BY DEF LandmarksReliable, EagerInv, NodesTyped, QueueInv, ReachedTyped
  <2>2. status[s] \in {"OPEN", "CLOSED"} => Estimate(s, reached[s]) <= GoalDistance[s]
    BY <2>1, CountAdmissible DEF LandmarkInv, MissingAvoidable, Seen
  <2> QED
    BY <2>2 DEF LandmarkInv, DeadEndsCounted
<1> QED
    BY <1>1, LandmarkInvariant, EagerInvariant, QueueInvariant, PTL

-----------------------------------------------------------------------------
(* Dead ends, and searches that fail.                                      *)

\* What a heuristic that depends on the state alone calls a dead end is one.
DeadEndsReliable ==
    \A name \in DOMAIN Tables : \A s \in States :
       Tables[name][s] = Infinity => GoalDistance[s] = Infinity

\* The initial state is opened unless it is a dead end, and then nothing is; dead ends are
\* what the heuristic calls one; a search fails for lack of open states.
StartInv ==
    /\ status[InitialState] = "NEW" =>
          open = << >> /\ phase \notin {"expand", "solved"} /\ \A s \in States : status[s] = "NEW"
    /\ phase # "initialize" /\ status[InitialState] = "NEW" /\ config.heuristic # LmCount =>
          Tables[config.heuristic][InitialState] = Infinity
    /\ \A s \in States : status[s] = "DEAD_END" /\ config.heuristic # LmCount =>
          Tables[config.heuristic][s] = Infinity
    /\ phase = "failed" => open = << >>

LEMMA StartInvariant == Spec => []StartInv
<1>1. Init => StartInv
    BY EagerAssumption DEF Init, StartInv
<1>2. EagerInv /\ EagerInv' /\ StartInv /\ [Next]_vars => StartInv'
  <2> SUFFICES ASSUME EagerInv, EagerInv', StartInv, [Next]_vars PROVE StartInv'
    OBVIOUS
  <2>1. /\ status \in [States -> Statuses] /\ InitialState \in States
        /\ config' = config => \A s, x : config.heuristic # LmCount => Estimate(s, x) = Tables[config.heuristic][s]
    BY EagerAssumption DEF EagerInv, NodesTyped, Estimate
  <2>2. CASE Initialize
    <3>1. config' = config /\ phase' = "fetch" /\ \A s \in States : status[s] = "NEW"
      BY <2>2 DEF Initialize, EagerInv, NothingYet
    <3>2. CASE UNCHANGED <<node, open>>
      <4>1. open = << >>
        BY <2>1, <3>1 DEF StartInv
      <4>2. config.heuristic # LmCount => Tables[config.heuristic][InitialState] = Infinity
        <5>1. Estimate(InitialState, reached'[InitialState]) = Infinity
          BY <2>1, <2>2, <3>1, <3>2 DEF Initialize, node
        <5> QED
          BY <2>1, <3>1, <5>1
      <4> QED
        BY <3>1, <3>2, <4>1, <4>2 DEF StartInv, node
    <3>3. CASE status' = [status EXCEPT ![InitialState] = "OPEN"]
      BY <2>1, <3>1, <3>3 DEF StartInv
    <3> QED
      BY <2>2, <3>2, <3>3 DEF Initialize
  <2>3. CASE Exhausted \/ SkipClosed \/ SkipDeadEnd \/ InsertAgain \/ StepDone \/ Terminated \/ UNCHANGED vars
    <3>1. config' = config /\ status' = status
      BY <2>3 DEF Exhausted, SkipClosed, SkipDeadEnd, InsertAgain, StepDone, Terminated, vars, node
    <3>2. CASE Exhausted \/ StepDone \/ Terminated \/ UNCHANGED vars
      BY <3>1, <3>2 DEF StartInv, Exhausted, StepDone, Terminated, vars, node
    <3>3. CASE SkipClosed \/ SkipDeadEnd \/ InsertAgain
      <4>1. phase = "fetch" /\ phase' = "fetch" /\ open # << >>
        BY <3>3 DEF SkipClosed, SkipDeadEnd, InsertAgain
      <4>2. status[InitialState] # "NEW"
        BY <4>1 DEF StartInv
      <4> QED
        BY <3>1, <4>1, <4>2 DEF StartInv
    <3> QED
      BY <2>3, <3>2, <3>3
  <2>4. CASE BecomeDeadEnd
    <3>1. PICK x \in States : /\ Estimate(x, reached[x]) = Infinity
                              /\ status' = [status EXCEPT ![x] = "DEAD_END"]
      BY <2>4 DEF BecomeDeadEnd, EagerInv, EntriesOpened
    <3>2. config' = config /\ phase = "fetch" /\ phase' = "fetch" /\ open # << >>
      BY <2>4 DEF BecomeDeadEnd
    <3>3. status[InitialState] # "NEW" /\ status'[InitialState] # "NEW"
      BY <2>1, <3>1, <3>2 DEF StartInv
    <3> QED
      BY <2>1, <3>1, <3>2, <3>3 DEF StartInv
  <2>5. CASE Expand
    <3>1. PICK x \in States : status' = [status EXCEPT ![x] = "CLOSED"]
      BY <2>5 DEF Expand, EagerInv, EntriesOpened
    <3>2. config' = config /\ phase = "fetch" /\ phase' \in {"solved", "expand"} /\ open # << >>
      BY <2>5 DEF Expand
    <3>3. status[InitialState] # "NEW" /\ status'[InitialState] # "NEW"
      BY <2>1, <3>1, <3>2 DEF StartInv
    <3> QED
      BY <2>1, <3>1, <3>2, <3>3 DEF StartInv
  <2>6. ASSUME NEW op \in Operators, Generate(op) PROVE StartInv'
    <3>1. config' = config /\ phase = "expand" /\ phase' = "expand"
      BY <2>6 DEF Generate, SkipOperator, NewDeadEnd, OpenNew, Reopen, UpdateParent, NoCheaper, Look
    <3>2. status[InitialState] # "NEW"
      BY <3>1 DEF StartInv
    <3>3. Look(op)
      BY <2>6 DEF Generate, SkipOperator, NewDeadEnd, OpenNew, Reopen, UpdateParent, NoCheaper
    <3>4. PICK t \in States : t = Successor(current, op)
      BY <3>3, LookFacts
    <3>5. \/ status' = status
          \/ status' = [status EXCEPT ![t] = "OPEN"]
          \/ /\ status' = [status EXCEPT ![t] = "DEAD_END"]
             /\ \E x : Estimate(t, x) = Infinity
      BY <2>6, <3>4
      DEF Generate, SkipOperator, NewDeadEnd, OpenNew, Reopen, Opened, UpdateParent, NoCheaper, node
    <3>6. status'[InitialState] # "NEW"
      BY <2>1, <3>2, <3>5
    <3> QED
      BY <2>1, <3>1, <3>5, <3>6 DEF StartInv
  <2> QED
    BY <2>2, <2>3, <2>4, <2>5, <2>6 DEF Next, Fetch
<1> QED
    BY <1>1, <1>2, EagerInvariant, PTL DEF Spec

\* No sum of the real cost of a node and that of an operator reaches the bound of a run without
\* one, or g-values are real costs and nodes are reopened.
NothingOverflows ==
    \/ config.reopen /\ config.costType = "NORMAL"
    \/ \A s \in States : \A op \in Applicable(s) : realG[s] + Cost[op] < Infinity

\* Then a search without a bound has opened whatever its closed states lead to.
SuccessorsSeen ==
    config.bound = Infinity /\ ~ (config.reopen /\ config.costType = "NORMAL") =>
       \A s \in States : \A op \in Applicable(s) :
          Due(s, op) => status[Successor(s, op)] # "NEW"

LEMMA SuccessorsAreSeen == Spec /\ []NothingOverflows => []SuccessorsSeen
<1>1. Init => SuccessorsSeen
    BY DEF Init, SuccessorsSeen, Due
<1>2. EagerInv /\ EagerInv' /\ NothingOverflows /\ SuccessorsSeen /\ [Next]_vars => SuccessorsSeen'
  <2> SUFFICES ASSUME EagerInv, EagerInv', NothingOverflows, SuccessorsSeen, [Next]_vars,
                      config'.bound = Infinity,
                      ~ (config'.reopen /\ config'.costType = "NORMAL"),
                      NEW s \in States, NEW op \in Applicable(s), Due(s, op)'
               PROVE  status'[Successor(s, op)] # "NEW"
    BY DEF SuccessorsSeen, Due
  <2>1. config' = config
    BY DEF Next, Initialize, Fetch, Exhausted, SkipClosed, SkipDeadEnd, BecomeDeadEnd, InsertAgain,
           Expand, StepDone, Terminated, vars, Generate, SkipOperator, NewDeadEnd, OpenNew, Reopen,
           UpdateParent, NoCheaper
  <2>2. PICK t \in States : t = Successor(s, op)
    BY SuccessorInTask
  <2>3. status \in [States -> Statuses] /\ (Due(s, op) => status[t] # "NEW")
    BY <2>1, <2>2 DEF SuccessorsSeen, EagerInv, NodesTyped
  <2>4. CASE Initialize
    BY <2>3, <2>4, EagerAssumption DEF Initialize, EagerInv, NothingYet, Due, node
  <2>5. CASE Exhausted \/ SkipClosed \/ SkipDeadEnd \/ InsertAgain \/ StepDone \/ Terminated \/ UNCHANGED vars
    <3>1. status' = status /\ current' = current /\ pending' = pending
          /\ (phase' = phase \/ phase # "expand" \/ pending = {})
      BY <2>5 DEF Exhausted, SkipClosed, SkipDeadEnd, InsertAgain, StepDone, Terminated, vars, node
    <3>2. Due(s, op)
      BY <3>1 DEF Due
    <3> QED
      BY <2>2, <2>3, <3>1, <3>2
  <2>6. CASE BecomeDeadEnd
    <3>1. PICK x \in States : status' = [status EXCEPT ![x] = "DEAD_END"]
      BY <2>6 DEF BecomeDeadEnd, EagerInv, EntriesOpened
    <3>2. phase = "fetch" /\ UNCHANGED <<current, pending, phase>>
      BY <2>6 DEF BecomeDeadEnd
    <3>3. Due(s, op)
      BY <2>3, <3>1, <3>2 DEF Due
    <3> QED
      BY <2>2, <2>3, <3>1, <3>3
  <2>7. CASE Expand
    <3>1. PICK x \in States : /\ status' = [status EXCEPT ![x] = "CLOSED"]
                              /\ current' = x
                              /\ x \notin Goal => phase' = "expand" /\ pending' = Applicable(x)
      BY <2>7 DEF Expand, EagerInv, EntriesOpened
    <3>2. phase = "fetch"
      BY <2>7 DEF Expand
    <3>3. s # x
      BY <3>1 DEF Due
    <3>4. Due(s, op)
      BY <2>3, <3>1, <3>2, <3>3 DEF Due
    <3> QED
      BY <2>2, <2>3, <3>1, <3>4
  <2>8. ASSUME NEW o \in Operators, Generate(o) PROVE status'[t] # "NEW"
    <3>1. Look(o) /\ UNCHANGED <<current, phase>>
      BY <2>8 DEF Generate, SkipOperator, NewDeadEnd, OpenNew, Reopen, UpdateParent, NoCheaper, Look
    <3>2. PICK u \in States : u = Successor(current, o)
      BY <3>1, LookFacts
    <3>3. current \in States /\ o \in Applicable(current) /\ pending' = pending \ {o} /\ phase = "expand"
          /\ status[current] = "CLOSED"
      BY <3>1, LookFacts DEF Look
    <3>4. ~ Cutoff(o)
      <4>1. realG[current] \in Nat /\ Cost[o] \in Nat /\ config.bound = Infinity /\ Infinity \in Nat
        BY <2>1, <3>1, LookFacts, SizeOfStates
      <4>2. realG[current] + Cost[o] < Infinity
        BY <2>1, <3>3 DEF NothingOverflows
      <4> QED
        BY <4>1, <4>2 DEF Cutoff
    <3>5. /\ \/ status' = status
             \/ status' = [status EXCEPT ![u] = "OPEN"]
             \/ status' = [status EXCEPT ![u] = "DEAD_END"]
          /\ status[u] = "NEW" => status' # status
      BY <2>3, <2>8, <3>2, <3>4
      DEF Generate, SkipOperator, NewDeadEnd, OpenNew, Reopen, Opened, UpdateParent, NoCheaper, node,
          Statuses
    <3>6. status'[u] # "NEW" /\ \A x \in States : status'[x] = "NEW" => status[x] = "NEW"
      BY <2>3, <3>5
    <3>7. CASE s = current /\ op = o
      BY <2>2, <3>2, <3>6, <3>7
    <3>8. CASE ~ (s = current /\ op = o)
      <4>1. status[s] = "CLOSED"
        BY <2>3, <3>5 DEF Due
      <4>2. Due(s, op)
        BY <3>1, <3>3, <3>8, <4>1 DEF Due
      <4> QED
        BY <2>3, <3>6, <4>2
    <3> QED
      BY <3>7, <3>8
  <2> QED
    BY <2>2, <2>4, <2>5, <2>6, <2>7, <2>8 DEF Next, Fetch
<1> QED
    BY <1>1, <1>2, EagerInvariant, PTL DEF Spec

\* The dead ends that a search has met have no plan.
DeadEndsFar ==
    /\ \A s \in States : status[s] = "DEAD_END" => GoalDistance[s] = Infinity
    /\ phase # "initialize" /\ status[InitialState] = "NEW" => GoalDistance[InitialState] = Infinity

\* The initial state is opened with a g-value of 0, and keeps it.
LEMMA StartFacts ==
    ASSUME EagerInv, PathInv, status[InitialState] \in {"OPEN", "CLOSED"}
    PROVE  g[InitialState] = 0
BY EagerAssumption DEF EagerInv, OpenNodesReached, PathInv, Links, RootLink, ParentLink

\* A search that reopens and sums up real costs has something open on the way to a goal that
\* is within the bound.
LEMMA OpenWithinBound ==
    ASSUME EagerInv, PathInv, ClosedRelaxed, DeadEndsFar, phase \notin {"initialize", "expand", "solved"},
           config.reopen, config.costType = "NORMAL",
           GoalDistance[InitialState] < config.bound
    PROVE  \E u \in States : status[u] = "OPEN" /\ g[u] + GoalDistance[u] <= GoalDistance[InitialState]
<1>1. PICK f : IsDistance(f) /\ GoalDistance = f[Cardinality(States)]
    BY DistanceSteps
<1>2. PICK C : C = GoalDistance[InitialState]
    OBVIOUS
<1>3. C \in Nat /\ C < config.bound /\ config.bound \in Nat /\ config.bound <= Infinity /\ C < Infinity
  <2>1. C \in 0 .. Infinity
    BY <1>1, <1>2, SizeOfStates, EagerAssumption DEF IsDistance
  <2>2. config.bound \in 0 .. Infinity /\ Infinity \in Nat
    BY SizeOfStates, EagerAssumption DEF EagerInv, NodesTyped
  <2> QED
    BY <1>2, <2>1, <2>2
<1>4. status[InitialState] \in {"OPEN", "CLOSED"}
  <2>1. status[InitialState] \in Statuses /\ InitialState \in States
    BY EagerAssumption DEF EagerInv, NodesTyped
  <2> QED
    BY <1>2, <1>3, <2>1 DEF DeadEndsFar, Statuses
<1>5. \A s \in States : status[s] \in {"OPEN", "CLOSED"} => g[s] \in Nat
    BY DEF EagerInv, OpenNodesReached
<1>6. \A s \in Goal : status[s] # "CLOSED"
    BY DEF PathInv, GoalEnds
<1>7. ASSUME NEW s \in States, NEW op \in Applicable(s),
             status[s] = "CLOSED", g[s] + Cost[op] <= C
      PROVE  \/ status[Successor(s, op)] = "DEAD_END"
             \/ /\ status[Successor(s, op)] \in {"OPEN", "CLOSED"}
                /\ g[Successor(s, op)] <= g[s] + Cost[op]
  <2>1. Done(s, op)
    <3>1. Due(s, op)
      BY <1>6, <1>7 DEF Due
    <3> QED
      BY <3>1, RelaxedMeaning
  <2>2. Cost[op] \in Nat /\ g[s] \in Nat /\ realG[s] = g[s] /\ AdjustedCost(op) = Cost[op]
    BY <1>5, <1>7, SuccessorInTask DEF PathInv, RealCosts, AdjustedCost, AdjustedActionCost
  <2>3. ~ (realG[s] + Cost[op] >= config.bound)
    BY <1>3, <1>7, <2>2
  <2>4. status[Successor(s, op)] \in Statuses
    BY SuccessorInTask DEF EagerInv, NodesTyped
  <2> QED
    BY <2>1, <2>2, <2>3, <2>4 DEF Done, Statuses
<1>8. InitialState \in States /\ g[InitialState] + GoalDistance[InitialState] <= C
    BY <1>2, <1>3, <1>4, StartFacts, EagerAssumption
<1>9. \E u \in States : status[u] = "OPEN" /\ g[u] + GoalDistance[u] <= C
    BY <1>1, <1>3, <1>4, <1>5, <1>6, <1>7, <1>8, OpenOnTheWay DEF DeadEndsFar
<1> QED
    BY <1>2, <1>9

\* "Completely explored state space -- no solution!" is true, if the dead ends of the tables
\* are dead ends and the landmarks are sound: a search that reopens and counts real costs fails only if no plan is
\* within its bound, and any other one without a bound only if there is no plan at all,
\* provided that the costs of what it generates do not run into the greatest int, which is
\* that bound.
THEOREM FailuresAreProofs ==
    DeadEndsReliable /\ LandmarksReliable => (Spec /\ []NothingOverflows => []FailureIsProof)
<1> SUFFICES ASSUME DeadEndsReliable, LandmarksReliable
             PROVE  Spec /\ []NothingOverflows => []FailureIsProof
    OBVIOUS
<1>0. Spec => []LandmarksAdmissible
    BY LandmarkCountIsAdmissible
<1>1. EagerInv /\ StartInv /\ LandmarksAdmissible => DeadEndsFar
    BY EagerAssumption
    DEF EagerInv, NodesTyped, StartInv, LandmarksAdmissible, DeadEndsFar, DeadEndsReliable
<1>2. /\ EagerInv /\ PathInv /\ ClosedRelaxed /\ OpenListComplete /\ StartInv /\ DeadEndsFar
      /\ SuccessorsSeen
      => FailureIsProof
  <2> SUFFICES ASSUME EagerInv, PathInv, ClosedRelaxed, OpenListComplete, StartInv, DeadEndsFar,
                      SuccessorsSeen, phase = "failed",
                      config.bound = Infinity \/ (config.reopen /\ config.costType = "NORMAL"),
                      ~ (GoalDistance[InitialState] >= config.bound)
               PROVE  FALSE
    BY DEF FailureIsProof
  <2>1. PICK f : IsDistance(f) /\ GoalDistance = f[Cardinality(States)]
    BY DistanceSteps
  <2>2. /\ \A s \in States : GoalDistance[s] \in 0 .. Infinity
        /\ config.bound \in 0 .. Infinity /\ InitialState \in States /\ Infinity \in Nat
    BY <2>1, SizeOfStates, EagerAssumption DEF IsDistance, EagerInv, NodesTyped
  <2>3. GoalDistance[InitialState] < config.bound
    BY <2>2
  <2>4. \A u \in States : status[u] # "OPEN"
    <3>1. Len(open) = 0
      BY DEF StartInv
    <3>2. 1 .. Len(open) = {}
      BY <3>1
    <3> QED
      BY <3>2 DEF OpenListComplete
  <2>5. CASE config.reopen /\ config.costType = "NORMAL"
    BY <2>3, <2>4, <2>5, OpenWithinBound
  <2>6. CASE config.bound = Infinity /\ ~ (config.reopen /\ config.costType = "NORMAL")
    <3> DEFINE w == [s \in States |-> 0]
    <3>1. PICK C : C = GoalDistance[InitialState]
      OBVIOUS
    <3>2. C \in Nat /\ C < Infinity
      BY <2>2, <2>3, <2>6, <3>1
    <3>3. status[InitialState] \in {"OPEN", "CLOSED"}
      <4>1. status[InitialState] \in Statuses
        BY <2>2 DEF EagerInv, NodesTyped
      <4> QED
        BY <2>2, <3>1, <3>2, <4>1 DEF DeadEndsFar, Statuses
    <3>4. \A s \in Goal : status[s] # "CLOSED"
      BY DEF PathInv, GoalEnds
    <3>5. ASSUME NEW s \in States, NEW op \in Applicable(s), status[s] = "CLOSED"
          PROVE  \/ status[Successor(s, op)] = "DEAD_END"
                 \/ /\ status[Successor(s, op)] \in {"OPEN", "CLOSED"}
                    /\ w[Successor(s, op)] <= w[s] + Cost[op]
      <4>1. status[Successor(s, op)] # "NEW"
        BY <2>6, <3>4, <3>5 DEF SuccessorsSeen, Due
      <4>2. status[Successor(s, op)] \in Statuses /\ Successor(s, op) \in States /\ Cost[op] \in Nat
        BY SuccessorInTask DEF EagerInv, NodesTyped
      <4> QED
        BY <4>1, <4>2 DEF Statuses
    <3>6. \A s \in States : w[s] = 0
      OBVIOUS
    <3> HIDE DEF w
    <3>7. w[InitialState] + GoalDistance[InitialState] <= C
      BY <2>2, <3>1, <3>2, <3>6
    <3>8. \A s \in States : status[s] \in {"OPEN", "CLOSED"} => w[s] \in Nat
      BY <3>6
    <3>9. \E u \in States : status[u] = "OPEN" /\ w[u] + GoalDistance[u] <= C
      BY <2>1, <2>2, <3>2, <3>3, <3>4, <3>5, <3>7, <3>8, OpenOnTheWay DEF DeadEndsFar
    <3> QED
      BY <2>4, <3>9
  <2> QED
    BY <2>5, <2>6
<1> QED
    BY <1>0, <1>1, <1>2, EagerInvariant, PathInvariant, RelaxesEverything, OpenListIsComplete,
       StartInvariant, SuccessorsAreSeen, PTL

-----------------------------------------------------------------------------
(* A*.                                                                     *)

\* The first entry of the open list is of a state that is as cheap as any open one can be.
LEMMA FirstIsCheap ==
    ASSUME EagerInv, QueueInv, config.open = "astar", NEW i, First(i), NEW u \in States,
           status[u] = "OPEN", NEW C \in Nat, C < Infinity, g[u] + Estimate(u, reached[u]) <= C
    PROVE  g[open[i].state] <= C
<1>1. config \in Configurations /\ config.reopen
    BY EagerAssumption DEF EagerInv, NodesTyped
<1>2. PICK j \in 1 .. Len(open) : UpToDate(open[j], u)
    BY DEF QueueInv, OpenHasEntry
<1>3. /\ open[j].h \in Nat /\ open[j].h <= Estimate(u, reached[u])
      /\ open[j].key = Key(g[u], open[j].h)
    BY <1>1, <1>2 DEF UpToDate, QueueInv, EntriesValued
<1>4. g[u] \in Nat /\ Estimate(u, reached[u]) \in Nat /\ Infinity \in Nat
    BY <1>1, EstimateFacts, SizeOfStates DEF EagerInv, OpenNodesReached, QueueInv, ReachedTyped
<1>5. open[j].key[1] \in Nat /\ open[j].key[1] <= C
  <2>1. g[u] + open[j].h <= C /\ g[u] # Infinity /\ open[j].h # Infinity
    BY <1>3, <1>4
  <2>2. open[j].key[1] = g[u] + open[j].h
    BY <1>3, <2>1 DEF Key, Sum
  <2> QED
    BY <1>3, <1>4, <2>1, <2>2
<1>6. i \in 1 .. Len(open) /\ ~ (open[j].key[1] < open[i].key[1])
    BY <1>2 DEF First, Smaller
<1>7. PICK v \in Nat : g[open[i].state] <= v /\ open[i].key = Key(v, open[i].h) /\ open[i].h \in Nat
    BY <1>6 DEF QueueInv, EntriesValued
<1>8. open[i].key[1] = Sum(v, open[i].h)
    BY <1>7 DEF Key
<1>9. Sum(v, open[i].h) \in Nat /\ (Sum(v, open[i].h) = Infinity \/ Sum(v, open[i].h) = v + open[i].h)
    BY <1>4, <1>7 DEF Sum
<1>10. Sum(v, open[i].h) <= C
    BY <1>5, <1>6, <1>8, <1>9
<1>11. v <= C
    BY <1>4, <1>7, <1>9, <1>10
<1>12. g[open[i].state] \in Nat \cup {-1}
    BY <1>6 DEF EagerInv, NodesTyped, EntriesOpened
<1> QED
    BY <1>7, <1>11, <1>12

\* With an admissible heuristic, a goal state within the bound is closed with the least cost.
ClosedCheaply ==
    /\ phase = "solved" /\ config.open = "astar" /\ config.costType = "NORMAL" /\ Admissible
    /\ InitialState \in Goal \/ GoalDistance[InitialState] < config.bound
    => g[current] <= GoalDistance[InitialState]

LEMMA GoalClosedCheaply ==
    ASSUME EagerInv, PathInv, QueueInv, ClosedRelaxed, StartInv, LandmarksAdmissible, Expand,
           current' \in Goal, config.open = "astar", config.costType = "NORMAL", Admissible,
           InitialState \in Goal \/ GoalDistance[InitialState] < config.bound
    PROVE  g[current'] <= GoalDistance[InitialState]
<1>1. PICK i \in 1 .. Len(open) : First(i) /\ current' = open[i].state
    BY DEF Expand
<1>2. phase = "fetch" /\ open # << >> /\ config \in Configurations /\ config.reopen
    BY EagerAssumption DEF Expand, EagerInv, NodesTyped
<1>3. PICK f : IsDistance(f) /\ GoalDistance = f[Cardinality(States)]
    BY DistanceSteps
<1>4. /\ \A s \in States : GoalDistance[s] \in 0 .. Infinity
      /\ config.bound \in 0 .. Infinity /\ InitialState \in States /\ Infinity \in Nat /\ Infinity > 0
    BY <1>2, <1>3, SizeOfStates, EagerAssumption DEF IsDistance
<1>5. PICK C : C = GoalDistance[InitialState]
    OBVIOUS
<1>6. C \in Nat /\ C < Infinity
  <2>1. CASE InitialState \in Goal
    <3>1. f[Cardinality(States)][InitialState] <= f[0][InitialState]
      BY <1>3, <1>4, SizeOfStates, DistanceFalls
    <3>2. f[0][InitialState] = 0
      BY <1>3, <1>4, <2>1 DEF IsDistance
    <3> QED
      BY <1>3, <1>4, <1>5, <3>1, <3>2
  <2>2. CASE GoalDistance[InitialState] < config.bound
    BY <1>4, <1>5, <2>2
  <2> QED
    BY <2>1, <2>2
<1>7. \A s \in States : status[s] \in {"OPEN", "CLOSED"} => Estimate(s, reached[s]) <= GoalDistance[s]
    BY <1>2 DEF LandmarksAdmissible, Admissible, Estimate
<1>8. DeadEndsFar
  <2>1. \A s \in States : Tables[config.heuristic][s] = Infinity /\ config.heuristic # LmCount
                             => GoalDistance[s] = Infinity
    <3> SUFFICES ASSUME NEW s \in States, Tables[config.heuristic][s] = Infinity,
                        config.heuristic # LmCount
                 PROVE  GoalDistance[s] = Infinity
      OBVIOUS
    <3>1. Tables[config.heuristic][s] <= GoalDistance[s]
      BY DEF Admissible
    <3> QED
      BY <1>4, <3>1
  <2> QED
    BY <1>4, <2>1 DEF StartInv, LandmarksAdmissible, DeadEndsFar
<1>9. status[InitialState] \in {"OPEN", "CLOSED"}
  <2>1. status[InitialState] \in Statuses
    BY <1>4 DEF EagerInv, NodesTyped
  <2> QED
    BY <1>2, <1>4, <1>5, <1>6, <1>8, <2>1 DEF DeadEndsFar, Statuses
<1>10. PICK u \in States : status[u] = "OPEN" /\ g[u] + GoalDistance[u] <= C
  <2>1. CASE status[InitialState] = "OPEN"
    <3>1. g[InitialState] = 0
      BY <1>9, StartFacts
    <3>2. g[InitialState] + GoalDistance[InitialState] <= C
      BY <1>5, <1>6, <3>1
    <3> QED
      BY <1>4, <2>1, <3>2
  <2>2. CASE status[InitialState] = "CLOSED"
    <3>1. InitialState \notin Goal
      BY <1>2, <2>2 DEF PathInv, GoalEnds
    <3> QED
      BY <1>2, <1>5, <1>8, <3>1, OpenWithinBound
  <2> QED
    BY <1>9, <2>1, <2>2
<1>11. g[u] + Estimate(u, reached[u]) <= C
  <2>1. g[u] \in Nat /\ Estimate(u, reached[u]) \in 0 .. Infinity /\ GoalDistance[u] \in 0 .. Infinity
    BY <1>2, <1>4, <1>10, EstimateFacts
    DEF EagerInv, OpenNodesReached, QueueInv, ReachedTyped
  <2>2. Estimate(u, reached[u]) <= GoalDistance[u]
    BY <1>7, <1>10
  <2> QED
    BY <1>4, <1>6, <1>10, <2>1, <2>2
<1>12. g[open[i].state] <= C
    BY <1>1, <1>6, <1>10, <1>11, FirstIsCheap
<1> QED
    BY <1>1, <1>5, <1>12

\* "A*": with an admissible heuristic, consistent or not, and with the landmark count of sound
\* landmarks, the plan of a search that adds up real costs is a cheapest one.
THEOREM AStarIsOptimal == LandmarksReliable => (Spec => []OptimalPlan)
<1> SUFFICES ASSUME LandmarksReliable PROVE Spec => []OptimalPlan
    OBVIOUS
<1>0. Spec => []LandmarksAdmissible
    BY LandmarkCountIsAdmissible
<1>1. Init => ClosedCheaply
    BY DEF Init, ClosedCheaply
<1>2. /\ EagerInv /\ PathInv /\ QueueInv /\ ClosedRelaxed /\ StartInv /\ LandmarksAdmissible
      /\ ClosedCheaply /\ [Next]_vars
      => ClosedCheaply'
  <2>1. PICK D : D = GoalDistance
    OBVIOUS
  <2>2. GoalDistance' = D
    BY <2>1 DEF GoalDistance, Sum, Applicable, Successor
  <2>3. SUFFICES ASSUME EagerInv, PathInv, QueueInv, ClosedRelaxed, StartInv, LandmarksAdmissible,
                        ClosedCheaply, [Next]_vars,
                        phase' = "solved", config'.open = "astar", config'.costType = "NORMAL",
                        config'.heuristic = LmCount
                           \/ \A s \in States : Tables[config'.heuristic][s] <= D[s],
                        InitialState \in Goal \/ D[InitialState] < config'.bound
                 PROVE  g'[current'] <= D[InitialState]
    BY <2>2 DEF ClosedCheaply, Admissible
  <2>4. CASE Expand
    <3>1. config' = config /\ g' = g /\ current' \in Goal
      BY <2>3, <2>4 DEF Expand
    <3>2. Admissible
      BY <2>1, <2>3, <3>1 DEF Admissible
    <3>3. InitialState \in Goal \/ GoalDistance[InitialState] < config.bound
      BY <2>1, <2>3, <3>1
    <3>4. g[current'] <= GoalDistance[InitialState]
      BY <2>3, <2>4, <3>1, <3>2, <3>3, GoalClosedCheaply
    <3> QED
      BY <2>1, <3>1, <3>4
  <2>5. CASE phase = "solved" /\ UNCHANGED vars
    <3>1. config' = config /\ g' = g /\ current' = current
      BY <2>5 DEF vars, node
    <3> QED
      BY <2>1, <2>3, <2>5, <3>1 DEF ClosedCheaply, Admissible
  <2>6. Expand \/ (phase = "solved" /\ UNCHANGED vars)
    BY <2>3
    DEF Next, Initialize, Fetch, Exhausted, SkipClosed, SkipDeadEnd, BecomeDeadEnd, InsertAgain,
        StepDone, Terminated, vars, Generate, SkipOperator, NewDeadEnd, OpenNew, Reopen,
        UpdateParent, NoCheaper, Look
  <2> QED
    BY <2>4, <2>5, <2>6
<1>3. EagerInv /\ PathInv /\ NoParentCycle /\ PlanTraced /\ ClosedCheaply
         /\ (InitialState \notin Goal => PlanSound)
      => OptimalPlan
  <2> SUFFICES ASSUME EagerInv, PathInv, NoParentCycle, PlanTraced, ClosedCheaply,
                      InitialState \notin Goal => PlanSound,
                      phase = "solved", config.open = "astar", config.costType = "NORMAL", Admissible
               PROVE  CostAlong(plan)[Len(plan)] = GoalDistance[InitialState]
    BY DEF OptimalPlan
  <2>1. /\ current \in Goal /\ current \in States /\ g[current] \in Nat
        /\ plan = TracePath(current) /\ config \in Configurations
    BY EagerAssumption
    DEF PathInv, GoalEnds, PlanTraced, EagerInv, OpenNodesReached, NodesTyped
  <2> DEFINE at == StatesAlong(plan)
             cost == CostAlong(plan)
  <2>2. /\ Len(plan) \in 0 .. Cardinality(States)
        /\ \A n \in 1 .. Len(plan) : plan[n] \in Applicable(at[n - 1])
        /\ at[0] = InitialState
        /\ at[Len(plan)] = current
        /\ \A n \in 0 .. Len(plan) : at[n] \in States /\ cost[n] \in Nat
        /\ cost[0] = 0
        /\ \A n \in 1 .. Len(plan) :
              Successor(at[n - 1], plan[n]) = at[n] /\ cost[n] = cost[n - 1] + Cost[plan[n]]
        /\ cost[Len(plan)] <= g[current]
    BY <2>1, TracedPlan
  <2>3. InitialState \notin Goal => cost[Len(plan)] < config.bound
    BY DEF PlanSound
  <2> HIDE DEF at, cost
  <2>4. GoalDistance[InitialState] <= cost[Len(plan)]
    <3>1. GoalDistance[at[0]] <= cost[Len(plan)]
      BY <2>1, <2>2, DistanceOfPlan
    <3> QED
      BY <2>2, <3>1
  <2>5. /\ GoalDistance[InitialState] \in Nat /\ cost[Len(plan)] \in Nat /\ config.bound \in Nat
    <3>1. PICK f : IsDistance(f) /\ GoalDistance = f[Cardinality(States)]
      BY DistanceSteps
    <3>2. GoalDistance[InitialState] \in 0 .. Infinity /\ config.bound \in 0 .. Infinity
      BY <2>1, <3>1, SizeOfStates, EagerAssumption DEF IsDistance
    <3>3. Len(plan) \in 0 .. Len(plan)
      BY <2>2, SizeOfStates
    <3> QED
      BY <2>2, <3>2, <3>3, SizeOfStates
  <2>6. g[current] <= GoalDistance[InitialState]
    BY <2>3, <2>4, <2>5 DEF ClosedCheaply
  <2>7. cost[Len(plan)] = GoalDistance[InitialState]
    BY <2>1, <2>2, <2>4, <2>5, <2>6
  <2> QED
    BY <2>7 DEF cost
<1>4. Spec => [](InitialState \notin Goal => PlanSound)
  <2>1. CASE InitialState \in Goal
    <3>1. InitialState \notin Goal => PlanSound
      BY <2>1
    <3> QED
      BY <3>1, PTL
  <2>2. CASE InitialState \notin Goal
    <3>1. Spec => []PlanSound
      BY <2>2, PlansAreSound
    <3>2. PlanSound => (InitialState \notin Goal => PlanSound)
      OBVIOUS
    <3> QED
      BY <3>1, <3>2, PTL
  <2> QED
    BY <2>1, <2>2
<1> QED
    BY <1>0, <1>1, <1>2, <1>3, <1>4, EagerInvariant, PathInvariant, PathsEnd, PlanInvariant,
       QueueInvariant, RelaxesEverything, StartInvariant, PTL DEF Spec

=============================================================================
