--------------------------- MODULE MCTrialDefaults ---------------------------
(* Two devices side by side: the one boots with the RAUC-compatible Grub   *)
(* flow, the other with the Mender-compatible U-Boot flow.                 *)
EXTENDS RaucFlows, MenderUbootFlow

VARIABLES
    env, running, settled, fallback, armed, earlyCuts,
    env2, running2, settled2, fallback2, armed2, earlyCuts2

rauc == <<env, running, settled, fallback, armed, earlyCuts>>
mender == <<env2, running2, settled2, fallback2, armed2, earlyCuts2>>

Rauc == INSTANCE TrialBoot WITH
    NumGroups <- 2, MaxEarlyCuts <- 0,
    BootEnvs <- RaucGrubEnvs({0, 1}), InitEnv <- RaucGrubInit(<<0, 1>>),
    SetTryNext <- RaucGrubSetTryNext, Defaults <- RaucGrubDefaults,
    CommitTo <- RaucGrubCommitTo, MarkGood <- RaucGrubMarkGood,
    MarkBad <- RaucGrubMarkBad, Attempts <- RaucGrubAttempts, GoodAttempts <- 1

Mender == INSTANCE TrialBoot WITH
    NumGroups <- 2, MaxEarlyCuts <- 0,
    BootEnvs <- MenderEnvs, InitEnv <- MenderInit,
    SetTryNext <- MenderSetTryNext, Defaults <- MenderDefaults,
    CommitTo <- MenderCommitTo, MarkGood <- MenderMark,
    MarkBad <- MenderMark, Attempts <- MenderAttempts, GoodAttempts <- 1,
    env <- env2, running <- running2, settled <- settled2, fallback <- fallback2,
    armed <- armed2, earlyCuts <- earlyCuts2

Init == Rauc!Init /\ Mender!Init
Next ==
    \/ Rauc!Next /\ UNCHANGED mender
    \/ Mender!Next /\ UNCHANGED rauc

Spec == Init /\ [][Next]_<<rauc, mender>>

\* "Get the default boot group": with no trial pending one flow at least returns the
\* group that was last committed, and nothing else.
OneTellsTheDefault == Rauc!DefaultIsFallback \/ Mender!DefaultIsFallback
=============================================================================
