------------------------- MODULE ProcessCorrectness -------------------------
(***************************************************************************)
(* What a run of the search component leaves behind, and that an iterated  *)
(* search ends.                                                            *)
(***************************************************************************)
EXTENDS SearchProcess

Saved == {n \in DOMAIN files : files[n] # Incomplete}

\* The plans of one process are numbered from the number it was given, without a gap, and
\* each is cheaper than the one before: plan_manager.py relies on both.  The bound of an
\* iterated search ("Best solution cost so far") is the cost of the plan saved last, and the
\* exit code for success means that a plan was saved.
PlansSaved ==
    /\ command.iterated \/ command.anytime =>
          Saved = command.previousPlans + 1 .. numPlans
    /\ \A m, n \in Saved : m < n => files[n] < files[m]
    /\ command.iterated /\ found => files[numPlans] = bestBound
    /\ pc = "exit" => (found <=> Saved # {})

\* An iterated search that passes its bound on ends, although it repeats its last phase:
\* a phase after which the search "would just behave the same way again" is not repeated.
IterationEnds == command.passBound /\ ~ command.unitCosts => <>(pc = "exit")

=============================================================================
