CONSTANTS
    NumGroups = 3
    MaxEarlyCuts = 2
    GoodAttempts = 3
    BootEnvs <- MCEnvs
    InitEnv <- MCInit
    SetTryNext <- RaucSetTryNext
    Defaults <- RaucDefaults
    CommitTo <- RaucCommitTo
    MarkGood <- RaucMarkGood
    MarkBad <- RaucMarkBad
    Attempts <- RaucAttempts
SPECIFICATION FairSpec
INVARIANTS AttemptsAllowed DefaultIsFallback
PROPERTIES ComesUp
