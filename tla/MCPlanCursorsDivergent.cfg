CONSTANTS
    Syms <- MCSyms
    Labels = {"A", "B"}
    Keys <- MCKeys
    Plans <- MCDivergentPlans
    Graphs <- MCGraphs
    ResettablePlans = {}
    MaxResets = 0
    MaxLatePulls = 1
    MultiPlans = {}
    FramesInMultiframe = 2
SPECIFICATION Spec
INVARIANT OutputMatchesReference
CHECK_DEADLOCK FALSE
