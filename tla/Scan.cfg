SPECIFICATION Spec
CONSTANTS
    Self = 3
    Pid <- ScanPid
    Table <- ScanTable
    Args <- ScanArgs
    Ascending = FALSE
INVARIANTS
    TypeOK
    LargestStable
    VictimGenuine
