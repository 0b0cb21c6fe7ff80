SPECIFICATION FairSpec
CONSTANTS
    mem_term_percent = 10
    mem_kill_percent = 5
    swap_term_percent = 10
    swap_kill_percent = 5
    Self = 3
    Readings <- MCReadings
    SelfKind <- MCSelfKind
    Pid <- ThreePids
    Kinds <- LiveKinds
    Args <- LiveArgs
    MaxInc = 1
    WaitRounds = 1
    ProcMayFail = FALSE
INVARIANTS
    OnlyTimeoutLeavesSurvivors
PROPERTIES
    KillWaitReturns
    PressureRelieved
    RoundsKept
