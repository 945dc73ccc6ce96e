SPECIFICATION Spec
CONSTANTS
    Primary <- MCPrimary
    Derived <- ClashDerived
    Values <- Binary
    Default <- ClashDefault
    Layer <- ClashLayer
    LastLayer = 1
    Rules <- ClashRules
INVARIANT
    DefaultOnlyIfNoRuleTriggers
