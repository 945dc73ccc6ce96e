-------------------------- MODULE AxiomInvariant --------------------------
(***************************************************************************)
(* The inductive invariant of the axiom evaluator: what the counters count *)
(* while an evaluation runs.                                               *)
(***************************************************************************)
EXTENDS AxiomEvaluator

\* The literals that the evaluation has established: a default value only once negation by
\* failure has been applied to its layer.
Known(l) ==
    /\ Holds(buffer, l)
    /\ l[1] \in Derived /\ l[2] = Default[l[1]] => Layer[l[1]] < layer

\* The conditions of axiom i that its counter still counts.
Remaining(i) ==
    {l \in Rules[i].body : ~Known(l) \/ queue[l] > 0 \/ (l = current /\ i \in pending)}

HasBeenReset(i) == pc = "reset" => i < next

PhaseInv ==
    /\ pc \in {"call", "done"} => QueueEmpty
    /\ pc \in {"call", "done", "reset"} => pending = {}
    /\ pc = "reset" => layer = 0
    /\ pc = "horn" => next = Len(Rules) + 1
    /\ pc = "done" => layer = LastLayer

\* A literal is in the queue at most once, after it has been established; before the first
\* one is taken, all that is established is there.
QueueInv ==
    /\ \A l \in Literals : queue[l] <= 1 /\ (queue[l] = 1 => Known(l))
    /\ pc = "reset" => \A l \in Literals : Known(l) => queue[l] = 1
    /\ pending # {} => Known(current) /\ queue[current] = 0 /\ pending \subseteq ConditionOf(current)

CounterInv ==
    \A i \in RuleIds : HasBeenReset(i) /\ pc # "call" =>
        /\ unsatisfied[i] = Cardinality(Remaining(i))
        /\ ~Trivial(i) /\ unsatisfied[i] = 0 => Holds(buffer, <<Rules[i].var, Rules[i].val>>)

\* What is derived is derived by an axiom whose conditions are established.
SupportInv ==
    pc # "call" =>
        \A v \in Derived : Derives(buffer, v) =>
            \E i \in RuleIds : /\ ~Trivial(i) /\ Rules[i].var = v
                               /\ \A l \in Rules[i].body : Known(l)
                               /\ pc = "reset" => Rules[i].body = {}

\* An axiom of a finished layer has fired or has a condition that is false for good.
FinishedInv ==
    pc # "call" =>
        \A i \in RuleIds : ~Trivial(i) /\ Layer[Rules[i].var] < layer =>
            unsatisfied[i] = 0 \/ ~Triggers(buffer, i)

\* A state closed under the axioms of layer k in which all that is established below holds
\* derives what the evaluation has derived in layer k.
LeastInv ==
    pc # "call" =>
        \A k \in 0 .. LastLayer, t \in Assignments :
            /\ \A l \in Literals : Known(l) /\ (l[1] \in Derived => Layer[l[1]] < k) => Holds(t, l)
            /\ Closed(t, k)
            => \A v \in Derived : Layer[v] = k /\ Derives(buffer, v) => Derives(t, v)

\* The state of an evaluation between two steps: what the counters of axioms.cc:94 and the
\* queue of axioms.h:60 stand for while rules of several layers fire early.
AxiomInv ==
    /\ TypeOK
    /\ CountersExact
    /\ PhaseInv
    /\ QueueInv
    /\ CounterInv
    /\ SupportInv
    /\ FinishedInv
    /\ LeastInv

=============================================================================
