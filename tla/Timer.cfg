SPECIFICATION Spec
CONSTANTS
    mem_term_percent = 10
    mem_kill_percent = 2
    swap_term_percent = 10
    swap_kill_percent = 2
    SwapTotalKiB = 400000
    Amounts <- MCAmounts
    Options <- MCOptions
    Tick = 100
    Start = 1800
    MaxTime = 3400
    MaxCut = 400
    IntMax = 1350
INVARIANTS
    NoticesByHalf
    NotifyRate
PROPERTIES
    ReportsOnSchedule
