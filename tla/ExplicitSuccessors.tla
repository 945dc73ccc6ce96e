------------------------- MODULE ExplicitSuccessors -------------------------
(***************************************************************************)
(* What a symbolic search over a task with axioms computes: sets of states *)
(* of the task.  A state is an assignment in which the derived variables   *)
(* have the values the axioms give them; the successor of a state is that  *)
(* of the explicit search.  reached is the initial state, or the goal      *)
(* states of a backward search; when the search asks for some of the       *)
(* operators, it is replaced by the successors (the predecessors) of its   *)
(* states under these operators.                                           *)
(***************************************************************************)
EXTENDS Integers, Sequences, SequencesExt, FiniteSets

CONSTANTS
    Primary, Derived, Values, Default,
    Operators,      \* records pre, effs: literals, and a sequence of cond, var, val
    Initial,        \* the primary variables of the initial state
    Goal,           \* literals
    Programs,       \* the sets of axioms
    Extended        \* the state with given primary variables under given axioms

VARIABLES program, backward, started, reached, request
vars == <<program, backward, started, reached, request>>

PrimaryStates == [Primary -> Values]
PrimaryPart(s) == [v \in Primary |-> s[v]]
Satisfies(s, literals) == \A l \in literals : s[l[1]] = l[2]

Extension(s) == Extended[program][PrimaryPart(s)]
States == {Extended[program][x] : x \in PrimaryStates}

\* The effects that fire in the predecessor are applied in order, then the axioms.
Successor(s, o) ==
    Extension(FoldLeft(LAMBDA t, e : IF Satisfies(s, e.cond) THEN [t EXCEPT ![e.var] = e.val] ELSE t,
                       s, o.effs))

Applicable(s, o) == Satisfies(s, o.pre)

Successors(ss, os) == {Successor(x[1], x[2]) : x \in {y \in ss \X os : Applicable(y[1], y[2])}}
Predecessors(ss, os) ==
    {s \in States : \E o \in os : Applicable(s, o) /\ Successor(s, o) \in ss}

-----------------------------------------------------------------------------
Init ==
    /\ program \in Programs
    /\ backward \in BOOLEAN
    /\ started = FALSE
    /\ reached = {}
    /\ request = <<>>

Start ==
    /\ ~started
    /\ started' = TRUE
    /\ reached' = IF backward THEN {s \in States : Satisfies(s, Goal)} ELSE {Extended[program][Initial]}
    /\ UNCHANGED <<program, backward, request>>

Ask ==
    /\ started /\ request = <<>>
    /\ \E os \in SUBSET Operators : request' = <<os>>
    /\ UNCHANGED <<program, backward, started, reached>>

Answer ==
    /\ request # <<>>
    /\ reached' = IF backward THEN Predecessors(reached, request[1]) ELSE Successors(reached, request[1])
    /\ request' = <<>>
    /\ UNCHANGED <<program, backward, started>>

Next == Start \/ Ask \/ Answer
Spec == Init /\ [][Next]_vars

=============================================================================
