SPECIFICATION FairSpec
CONSTANTS
    States <- TaskStates
    InitState <- MCInit
    Goal <- MCGoal
    TRs <- UnsolvableTRs
    Directions = {"fw", "bw"}
    MutexType = "edeletion"
    NotMutex <- NoMutex
    MaxInt = 255
    TimeLimit = FALSE
    MaxG = 100
    MaxTruncations = 1
    Plans <- MCPlans
INVARIANTS
    TypeOK FValueInRange ClosedOnce
PROPERTIES
    Termination
