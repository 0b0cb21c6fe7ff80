SPECIFICATION Spec
CONSTANTS
    mem_term_percent = 10
    mem_kill_percent = 5
    swap_term_percent = 10
    swap_kill_percent = 5
    Self = 3
    Readings <- MCReadings
    SelfKind <- MCSelfKind
    Pid <- SinglePid
    Kinds <- SingleKinds
    Args <- SingleArgs
    MaxInc = 2
    WaitRounds = 2
    ProcMayFail = FALSE
INVARIANTS
    TypeOK
    OnlyTimeoutLeavesSurvivors
    ProtectedUnlessReused
    DryrunHarmless
PROPERTIES
    PidfdBalanced
    RoundsKept
