SPECIFICATION Spec
CONSTANTS
    mem_term_percent = 10
    mem_kill_percent = 5
    swap_term_percent = 10
    swap_kill_percent = 5
    Self = 3
    Readings <- MCReadings
    SelfKind <- HugeSelf
    Pid <- ThreePids
    Kinds <- FaultKinds
    Args <- FaultArgs
    MaxInc = 1
    WaitRounds = 1
    ProcMayFail = TRUE
INVARIANTS
    ProtectedUnlessReused
    DryrunHarmless
