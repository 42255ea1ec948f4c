CONSTANTS
    Syms <- MCSyms
    Labels = {"A", "B"}
    Keys <- MCKeys
    Plans <- MCAllPlans
    ResettablePlans <- MCReadPlans
    Graphs <- MCGraphs
    MaxResets = 2
    MaxLatePulls = 2
    MultiPlans <- MCMultiPlans
    FramesInMultiframe = 2
SPECIFICATION Spec
INVARIANTS
    TypeOK
    OutputMatchesReference
PROPERTY
    ResetRewindsEveryCursor
CHECK_DEADLOCK FALSE
