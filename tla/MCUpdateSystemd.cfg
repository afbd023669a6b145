CONSTANTS
    boot = boot  system = system
    i1 = i1  i2 = i2
    p1 = p1  p2 = p2
    NumGroups = 3
    Slots <- MCSlots
    SystemSlot = system
    Immutable <- MCImmutable
    Images <- MCImages
    FirstImage = i1
    NoImage = NoImage  Torn = Torn  Lost = Lost  NoSlot = NoSlot  NoProc = NoProc
    Procs = {p1, p2}
    Requests <- MCRequests
    SpareReboots = FALSE
    PersistOverlay = FALSE
    MaxInstalls = 2
    MaxPowerCuts = 1
    BootEnvs <- MCEnvs
    InitEnv <- SystemdInit
    SetTryNext <- SystemdSetTryNext
    GetDefault <- SystemdGetDefault
    CommitTo <- SystemdCommitTo
    Attempts <- SystemdAttempts
SPECIFICATION Spec
INVARIANTS TrialsComplete
PROPERTIES LiveGroupsUntouched
