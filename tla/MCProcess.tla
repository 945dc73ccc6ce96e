------------------------------ MODULE MCProcess ------------------------------
(***************************************************************************)
(* Every combination of the options of iterated search, with one or two    *)
(* phases, and single engines.                                             *)
(***************************************************************************)
EXTENDS ProcessCorrectness

MCCommands ==
    {c \in [iterated : BOOLEAN, phases : 1 .. 2, passBound : BOOLEAN, repeatLast : BOOLEAN,
            continueOnFail : BOOLEAN, continueOnSolve : BOOLEAN, maxTime : BOOLEAN,
            heedsBound : {TRUE}, unitCosts : BOOLEAN, bound : {3, 9},
            anytime : BOOLEAN, previousPlans : {0, 2}] :
        c.anytime \/ c.previousPlans = 0}

=============================================================================
