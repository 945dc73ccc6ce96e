SPECIFICATION ExtractionSpec
CONSTANTS
    States <- TaskStates
    InitState <- MCInit
    Goal <- MCGoal
    TRs <- StartTRs
    Operators <- StartOperators
    Directions = {"fw", "bw"}
    MutexType = "edeletion"
    NotMutex <- NoMutex
    MaxInt = 255
    TimeLimit = FALSE
    MaxG = 100
    MaxTruncations = 1
    Plans = {}
INVARIANTS
    PlanValid
