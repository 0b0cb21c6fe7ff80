SPECIFICATION Spec
CONSTANTS
    MemTotalKiB = 100
    SwapTotals <- MCSwapTotals
    Items <- MCItems
    Relative = {2}
    MaxOpts = 3
INVARIANTS
    KillNeverAboveTerm
    TermNeverZero
    LowerValueUsed
    ArgsMatchLine
    
