SPECIFICATION FairSpec
CONSTANTS
    Primary <- MCPrimary
    Derived <- MCDerived
    Values <- Binary
    Default <- MCDefault
    Operators <- MCOperators
    Initial <- MCInitial
    Goal <- MCGoal
    Programs <- MCPrograms
    Evaluators = {"varbdds", "transform", "interleaved", "interleaved_rules"}
    Stratifiers = {"default", "scc"}
    BackwardOf = {"transform"}
INVARIANTS
    StratificationSound ConditionsExact
PROPERTIES
    ImplementsExplicit EvaluationReturns
