SPECIFICATION Spec
CONSTANTS
    Self = 3
    Pid <- FourPids
    Table <- AvoidTable
    Args <- AvoidArgs
    Ascending = TRUE
INVARIANTS
    AvoidHonoured
