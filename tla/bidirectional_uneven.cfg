SPECIFICATION Spec
CONSTANTS
    States <- TaskStates
    InitState <- MCInit
    Goal <- MCGoal
    TRs <- UnevenTRs
    Directions = {"fw", "bw"}
    MutexType = "edeletion"
    NotMutex <- NoMutex
    MaxInt = 255
    TimeLimit = FALSE
    MaxG = 100
    MaxTruncations = 1
    Plans <- MCPlans
INVARIANTS
    OptimalResult
