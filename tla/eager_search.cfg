SPECIFICATION FairSpec
CONSTANTS
    NumLandmarks <- MCNumLandmarks
    TrueIn <- MCTrueIn
    Orders <- MCOrders
    GreedyNecessary <- MCGreedy
    GoalLandmarks <- MCGoalLandmarks
    FirstAchievers <- MCAchievers
    PossibleAchievers <- MCAchievers
    MinCost <- MCMinCost
    States <- MCStates
    InitialState = 0
    Goal <- MCGoal
    Operators <- MCOperators
    Cost <- MCCost
    Transitions <- MCTransitions
    Tables <- MCTables
    LmCount = lmcount
    Configurations <- MCConfigurations
    Infinity <- MCInfinity
    NoState = none
    NoOperator = nop
INVARIANTS
    OpenListComplete ClosedRelaxed NoParentCycle PlanSound OptimalPlan FailureIsProof
    LandmarksAdmissible
PROPERTIES
    BuildsTree SearchEnds
