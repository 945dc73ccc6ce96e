-------------------------- MODULE AxiomEvaluator --------------------------
(***************************************************************************)
(* The explicit axiom evaluator: it computes the values of the derived     *)
(* variables of a state by counting down the unsatisfied conditions of     *)
(* each axiom, and applies negation by failure after each layer.           *)
(*                                                                         *)
(* queue says how often a literal is in the queue.  The code takes the     *)
(* youngest literal and visits its axioms in the order of their ids; the   *)
(* model takes any, so what it shows does not depend on that order.  The   *)
(* reset of the axioms, whose order matters, is in the order of the code.  *)
(***************************************************************************)
EXTENDS StratifiedAxioms

VARIABLES
    buffer,         \* the packed state: the value of each variable
    queue,          \* literal -> how often it is queued
    unsatisfied,    \* axiom -> unsatisfied_conditions
    layer,          \* layer_no
    current,        \* curr_literal
    pending,        \* the axioms of current that the inner loop has not visited
    next,           \* the axiom that is reset next
    pc              \* "call", "reset", "horn" or "done"

vars == <<buffer, queue, unsatisfied, layer, current, pending, next, pc>>

ConditionOf(l) == {i \in RuleIds : l \in Rules[i].body}
ConditionCount(i) == Cardinality(Rules[i].body)
Push(q, l) == [q EXCEPT ![l] = @ + 1]
QueueEmpty == \A l \in Literals : queue[l] = 0

\* Wrong: the head is queued even if it has the value.
SetHeadAlways(i) ==
    /\ buffer' = [buffer EXCEPT ![Rules[i].var] = Rules[i].val]
    /\ queue' = Push(queue, <<Rules[i].var, Rules[i].val>>)

\* The head of axiom i is set, and queued unless it had the value already.
SetHead(i) ==
    LET var == Rules[i].var
        val == Rules[i].val
    IN  IF buffer[var] # val
        THEN buffer' = [buffer EXCEPT ![var] = val] /\ queue' = Push(queue, <<var, val>>)
        ELSE UNCHANGED <<buffer, queue>>

Init ==
    /\ buffer \in Assignments
    /\ queue = [l \in Literals |-> 0]
    /\ unsatisfied = [i \in RuleIds |-> ConditionCount(i)]
    /\ layer = 0
    /\ current \in Literals
    /\ pending = {}
    /\ next = 1
    /\ pc = "call"

\* evaluate is called for a state whose primary variables have been set; the derived
\* variables still hold the values of another state.
Evaluate ==
    /\ pc \in {"call", "done"}
    /\ \E s \in [Primary -> Values] :
          /\ buffer' = [v \in Variables |-> IF v \in Derived THEN Default[v] ELSE s[v]]
          /\ queue' = [l \in Literals |->
                          queue[l] + (IF l[1] \in Primary /\ Holds(s, l) THEN 1 ELSE 0)]
    /\ layer' = 0
    /\ next' = 1
    /\ pc' = "reset"
    /\ UNCHANGED <<unsatisfied, current, pending>>

\* Wrong: the counters keep the values of the last call.
ResetHeadOnly ==
    /\ pc = "reset" /\ next <= Len(Rules)
    /\ IF ConditionCount(next) = 0 THEN SetHead(next) ELSE UNCHANGED <<buffer, queue>>
    /\ next' = next + 1
    /\ UNCHANGED <<unsatisfied, layer, current, pending, pc>>

ResetRule ==
    /\ pc = "reset" /\ next <= Len(Rules)
    /\ unsatisfied' = [unsatisfied EXCEPT ![next] = ConditionCount(next)]
    /\ IF ConditionCount(next) = 0 THEN SetHead(next) ELSE UNCHANGED <<buffer, queue>>
    /\ next' = next + 1
    /\ UNCHANGED <<layer, current, pending, pc>>

ResetDone ==
    /\ pc = "reset" /\ next > Len(Rules)
    /\ pc' = "horn"
    /\ UNCHANGED <<buffer, queue, unsatisfied, layer, current, pending, next>>

PopLiteral ==
    /\ pc = "horn" /\ pending = {}
    /\ \E l \in Literals :
          /\ queue[l] > 0
          /\ current' = l
          /\ queue' = [queue EXCEPT ![l] = @ - 1]
          /\ pending' = ConditionOf(l)
    /\ UNCHANGED <<buffer, unsatisfied, layer, next, pc>>

VisitRule ==
    /\ pc = "horn"
    /\ \E i \in pending :
          /\ unsatisfied' = [unsatisfied EXCEPT ![i] = @ - 1]
          /\ IF unsatisfied[i] = 1 THEN SetHead(i) ELSE UNCHANGED <<buffer, queue>>
          /\ pending' = pending \ {i}
    /\ UNCHANGED <<layer, current, next, pc>>

\* Wrong: all derived variables of the layer, whatever their value.
AllOfLayer ==
    {l \in Literals : l[1] \in Derived /\ Layer[l[1]] = layer /\ l[2] = Default[l[1]]}

\* The default literals of the layer that the negation by failure establishes.
FailedLiterals ==
    {l \in Literals : l[1] \in Derived /\ Layer[l[1]] = layer
                      /\ l[2] = Default[l[1]] /\ Holds(buffer, l)}

\* Wrong: before the axioms of the layer have been exhausted.
NegationTooEarly ==
    /\ pc = "horn" /\ pending = {}
    /\ layer < LastLayer
    /\ queue' = [l \in Literals |-> IF l \in FailedLiterals THEN queue[l] + 1 ELSE queue[l]]
    /\ layer' = layer + 1
    /\ UNCHANGED <<buffer, unsatisfied, current, pending, next, pc>>

\* Wrong: the loop goes on to the next layer only if a literal was queued.
NegationWithoutProgress ==
    /\ pc = "horn" /\ pending = {} /\ QueueEmpty
    /\ layer < LastLayer
    /\ queue' = [l \in Literals |-> IF l \in FailedLiterals THEN queue[l] + 1 ELSE queue[l]]
    /\ layer' = IF FailedLiterals = {} THEN layer ELSE layer + 1
    /\ UNCHANGED <<buffer, unsatisfied, current, pending, next, pc>>

NegationByFailure ==
    /\ pc = "horn" /\ pending = {} /\ QueueEmpty
    /\ layer < LastLayer
    /\ queue' = [l \in Literals |-> IF l \in FailedLiterals THEN queue[l] + 1 ELSE queue[l]]
    /\ layer' = layer + 1
    /\ UNCHANGED <<buffer, unsatisfied, current, pending, next, pc>>

Return ==
    /\ pc = "horn" /\ pending = {} /\ QueueEmpty
    /\ layer = LastLayer
    /\ pc' = "done"
    /\ UNCHANGED <<buffer, queue, unsatisfied, layer, current, pending, next>>

Continue == ResetRule \/ ResetDone \/ PopLiteral \/ VisitRule \/ NegationByFailure \/ Return
Next == Evaluate \/ Continue

Spec == Init /\ [][Next]_vars
FairSpec == Spec /\ WF_vars(Continue)

-----------------------------------------------------------------------------
\* The translator adds an axiom for the negation of a derived variable that contradicts
\* each axiom of the variable, or, when the variable depends on itself, one with an empty
\* body (axiom_rules.py:250-301).  The latter clashes with an axiom that has become empty.
Contradict(i, j) ==
    \E l \in Rules[i].body, m \in Rules[j].body : l[1] = m[1] /\ l[2] # m[2]

NegatedRulesHarmless ==
    \A i, j \in RuleIds :
        Trivial(i) /\ ~Trivial(j) /\ Rules[i].var = Rules[j].var =>
            \/ Contradict(i, j)
            \/ Rules[i].body = {} /\ Rules[j].body # {}

\* The values of all variables.
TypeOK ==
    /\ buffer \in Assignments
    /\ queue \in [Literals -> Nat]
    /\ unsatisfied \in [RuleIds -> Int]
    /\ layer \in 0 .. LastLayer
    /\ current \in Literals
    /\ pending \in SUBSET RuleIds
    /\ next \in 1 .. Len(Rules) + 1
    /\ pc \in {"call", "reset", "horn", "done"}

\* When evaluate returns, the derived variables have the values the axioms give them,
\* whatever values they had before and in whichever order literals were taken.
EvaluatesToExtension == pc = "done" => IsExtension(buffer)

\* The counters that all states share: no counter falls below zero and no literal is queued
\* twice, else an axiom would fire too early, twice or never; and a call finds the queue
\* of the last one empty (the assertion of axioms.cc:82).
CountersExact ==
    /\ \A l \in Literals : queue[l] <= 1
    /\ \A i \in RuleIds : unsatisfied[i] \in 0 .. ConditionCount(i)
    /\ pc \in {"call", "done"} => QueueEmpty

\* A derived variable has its default value only if no axiom derives the other one
\* (axioms.h:41-43).
DefaultOnlyIfNoRuleTriggers ==
    pc = "done" => \A i \in RuleIds :
        ~Trivial(i) /\ Triggers(buffer, i) => Derives(buffer, Rules[i].var)

\* Once negation by failure has been applied to a layer, the evaluation changes no variable
\* of the layer any more: an axiom of a higher layer may have used its default value.
NegationIsFinal ==
    [][pc = "horn" => \A v \in Derived : Layer[v] < layer => buffer'[v] = buffer[v]]_vars

\* Every evaluation ends.
EvaluationEnds == pc = "reset" ~> pc = "done"

=============================================================================
