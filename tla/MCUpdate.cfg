CONSTANTS
    boot = boot  system = system
    i1 = i1  i2 = i2
    p1 = p1  p2 = p2
    NumGroups = 2
    Slots <- MCSlots
    SystemSlot = system
    Immutable <- MCImmutable
    Images <- MCImages
    FirstImage = i1
    NoImage = NoImage  Torn = Torn  Lost = Lost  NoSlot = NoSlot  NoProc = NoProc
    Procs <- MCProcs
    Requests <- MCRequests
    SpareReboots = TRUE
    PersistOverlay = TRUE
    MaxInstalls = 2
    MaxPowerCuts = 1
    BootEnvs <- RugixEnvs
    InitEnv <- RugixInit
    SetTryNext <- RugixSetTryNext
    GetDefault <- RugixGetDefault
    CommitTo <- RugixCommitTo
    Attempts <- RugixAttempts
SPECIFICATION FairSpec
INVARIANTS DefaultWhole  OverlayFresh DeferredTargetsUpdate
PROPERTIES LiveGroupsUntouched ComesUp
