SPECIFICATION Spec
CONSTANTS
    States <- SpuriousStates
    InitState <- MCInit
    Goal <- MCGoal
    TRs <- SpuriousZeroTRs
    Directions = {"bw"}
    MutexType = "and"
    NotMutex <- SpuriousNotMutex
    MaxInt = 255
    TimeLimit = FALSE
    MaxG = 100
    MaxTruncations = 3
    Plans <- MCPlans
INVARIANTS
    UnidirectionalInv LowerBoundAdmissible OptimalResult
