SPECIFICATION FairSpec
CONSTANTS
    PlanCosts = {1, 2, 3}
    GoalAtStart = FALSE
    Commands = {}
    Infinity <- MCInfinity
    Incomplete = incomplete
    Portfolios <- MCPortfolios
    LeftOver <- MCLeftOver
    TimeLimit = 4
    TicksPerSecond = 2
    FailureCodes <- MCFailureCodes
    MaxElapsed = 9
INVARIANTS
    PlansKnown BogusOnlyWithUnitCosts SuccessIsTrue WithinTime
PROPERTIES
    PlansKept PortfolioEnds
