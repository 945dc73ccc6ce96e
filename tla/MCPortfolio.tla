----------------------------- MODULE MCPortfolio -----------------------------
(***************************************************************************)
(* Portfolios of two or three configs: like seq-sat-fdss-1 without a final *)
(* config, like seq-sat-fdss-2 with one that is built, like                *)
(* seq-sat-fdss-2014 with one that is given, and optimal ones.             *)
(***************************************************************************)
EXTENDS PortfolioCorrectness

MCInfinity == 9

Single(unit) ==
    [iterated |-> FALSE, phases |-> 1, passBound |-> TRUE, repeatLast |-> FALSE,
     continueOnFail |-> FALSE, continueOnSolve |-> TRUE, maxTime |-> FALSE,
     heedsBound |-> TRUE, unitCosts |-> unit, bound |-> MCInfinity,
     anytime |-> FALSE, previousPlans |-> 0]

Iterated == [Single(TRUE) EXCEPT !.iterated = TRUE, !.phases = 2, !.repeatLast = TRUE]

Config(time, args, heuristicCosts) ==
    [time |-> time, args |-> args, heuristicCosts |-> heuristicCosts]

\* With both placeholders for the cost type, and with one of them each.
SatConfigs ==
    { << Config(1, Single(TRUE), TRUE), Config(2, Single(TRUE), TRUE) >>,
      << Config(1, Single(FALSE), TRUE), Config(2, Single(TRUE), FALSE) >> }

MCPortfolios ==
    {[optimal |-> FALSE, configs |-> configs, final |-> final, finalArgs |-> Iterated,
      generalCost |-> general] :
        configs \in SatConfigs, final \in {"none", "given", "built"}, general \in BOOLEAN}
    \cup {[optimal |-> TRUE,
           configs |-> [i \in 1 .. 4 |-> Config(IF i = 1 THEN 3 ELSE 1, Single(FALSE), FALSE)],
           final |-> "none", finalArgs |-> Single(FALSE), generalCost |-> TRUE]}

MCLeftOver ==
    {[n \in {} |-> Incomplete], [n \in 0 .. 2 |-> IF n = 2 THEN Incomplete ELSE 1]}

MCFailureCodes == {"OUT_OF_MEMORY", "UNSOLVABLE", "CRITICAL_ERROR"}

=============================================================================
