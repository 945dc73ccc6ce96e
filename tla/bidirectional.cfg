SPECIFICATION FairExtractionSpec
CONSTANTS
    States <- MeetingStates
    InitState <- MeetingInit
    Goal <- MCGoal
    TRs <- MeetingTRs
    Operators <- MeetingOperators
    Directions = {"fw", "bw"}
    MutexType = "edeletion"
    NotMutex <- MeetingNoMutex
    MaxInt = 255
    TimeLimit = TRUE
    MaxG = 100
    MaxTruncations = 1
    Plans <- MCPlans
INVARIANTS
    FrontierAssertions ClosedDisjoint PathsReconstructable HNotClosedAdmissible
    PlanValid
PROPERTIES
    Termination ImplementsPlanner WalkDescends
