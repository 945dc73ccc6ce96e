SPECIFICATION FairSpec
CONSTANTS
    Primary <- MCPrimary
    Derived <- LayeredDerived
    Values <- Binary
    Default <- LayeredDefault
    Layer <- LayeredLayer
    LastLayer = 2
    Rules <- LayeredRules
INVARIANTS
    AxiomInv EvaluatesToExtension
PROPERTIES
    NegationIsFinal EvaluationEnds
