SPECIFICATION Spec
CONSTANTS
    Meminfos <- MCMeminfos
    Processes <- MCProcesses
    Options <- MCOptions
    CommLen = 4
    PATH_LEN = 8
INVARIANTS
    MeminfoRight
    StatFieldsRight
    NameRight
    CmdlineRight
