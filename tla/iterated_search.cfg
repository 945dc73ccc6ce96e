SPECIFICATION FairProcessSpec
CONSTANTS
    PlanCosts = {1, 2, 3, 4}
    GoalAtStart = FALSE
    Commands <- MCCommands
    Infinity = 9
    Incomplete = incomplete
INVARIANTS
    PlansSaved
PROPERTIES
    IterationEnds
