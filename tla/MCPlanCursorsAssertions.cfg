CONSTANTS
    Syms <- MCSyms
    Labels = {"A", "B"}
    Keys <- MCKeys
    Plans <- MCMergeTwo
    Graphs <- MCGraphs
    ResettablePlans = {}
    MaxResets = 0
    MaxLatePulls = 1
    MultiPlans <- MCCreateFromScan
    FramesInMultiframe = 2
SPECIFICATION Spec
INVARIANT CursorAssertionsHold
CHECK_DEADLOCK FALSE
