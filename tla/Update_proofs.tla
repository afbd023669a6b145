--------------------------- MODULE Update_proofs ----------------------------
(***************************************************************************)
(* Proofs about the update life cycle, for every configuration of groups,  *)
(* slots and processes and every boot flow that meets BootFlowContract.    *)
(***************************************************************************)
EXTENDS Update, TLAPS

LivePCs == InstallPCs \ {"check"}

\* While the device is down or in init no rugix-ctrl command runs.
PowerInv ==
    /\ stage = "off" <=> running = NoGroup
    /\ stage # "up" => \A p \in Procs : pc[p] = "idle"
    /\ stage = "off" => unsynced = {}
    /\ stage # "up" => removed = {}

\* Only the process that holds the update lock is past lock_update.
LockInv == \A p \in Procs : pc[p] \in InstallPCs => lock = p /\ job[p] \in Jobs

\* Past the needs_commit check the running group is the default, and no commit
\* or reboot can change that before the install is over.
TargetInv ==
    \A p \in Procs :
        /\ pc[p] \in {"idle", "check", "prepare"} => todo[p] = {}
        /\ pc[p] \in LivePCs =>
            /\ GetDefault(env) = running /\ target[p] # running
            /\ todo[p] # {} => target[p] \in Groups
            /\ pc[p] \in {"write", "decode", "save"} =>
                   target[p] \in Groups /\ slot[p] \in Slots

\* The overlay of the group is removed, or a removal of it has failed.
OverlayGone(g) == overlay[g] = NoImage \/ g \in removed \cup stale

\* Data that is not synced belongs to groups the device does not need, and
\* the overlay of those is gone.
UnsyncedInv ==
    \A g \in Groups, s \in Slots : <<g, s>> \in unsynced =>
        g # running /\ g # GetDefault(env) /\ OverlayGone(g)

RunningWhole == running # NoGroup => Whole(running)

\* What an install has done to the slot it is working on.
SlotInv ==
    \A p \in Procs :
        /\ pc[p] \in {"write", "decode", "save"} => db[target[p]][slot[p]] = NoImage
        /\ pc[p] = "save" => content[target[p]][slot[p]] = job[p].image
        /\ pc[p] \in {"payload", "write", "decode", "save"} /\ target[p] # NoGroup
              => OverlayGone(target[p])

\* A stored overlay that no update tried to remove was made over the image its
\* group holds.
OverlayInv ==
    \A g \in Groups : OverlayGone(g) \/ overlay[g] = content[g][SystemSlot]

\* The marker is set while the running group is the default, so it is for the
\* spare group of an A/B system, and the next boot consumes it.
DeferredInv ==
    /\ stage = "deferred" => deferred = "no"
    /\ stage = "up" /\ deferred # "no" => GetDefault(env) = running
    /\ NumGroups = 2 =>
        /\ \A p \in Procs : pc[p] \in LivePCs => target[p] \in Groups
        /\ deferred # "no" \/ stage = "deferred"
              => deferredFor \in Groups \ {GetDefault(env)}

SafetyInv ==
    /\ PowerInv /\ LockInv /\ TargetInv /\ UnsyncedInv
    /\ DefaultWhole /\ RunningWhole
    /\ SlotInv /\ RecordTruthful /\ OverlayInv /\ OverlayFresh
    /\ DeferredInv
IInv == TypeOK /\ SafetyInv

-----------------------------------------------------------------------------
(* The choices among boot groups.                                          *)

\* `find(|entry| entry.idx != x)` returns a group other than x.
LEMMA FirstOther ==
    ASSUME NEW x
    PROVE  LET g == CHOOSE g \in Groups \ {x} : \A h \in Groups \ {x} : g <= h
           IN  g \in Groups /\ g # x
<1>1. 0 \in Groups /\ 1 \in Groups
  BY ConstantsAssumption DEF Groups
<1>2. \E g \in Groups \ {x} : \A h \in Groups \ {x} : g <= h
  <2>1. CASE x = 0
    BY <1>1, <2>1 DEF Groups
  <2>2. CASE x # 0
    BY <1>1, <2>2 DEF Groups
  <2> QED BY <2>1, <2>2
<1> QED BY <1>2

\* spare_entry() names a group of the configuration.
LEMMA SpareEntryIsGroup == SpareEntry \in Groups
BY FirstOther DEF SpareEntry

\* `update install` aims at a group, or at none when it cannot tell which
\* of more than two to take.
LEMMA ChosenGroupType ==
    ASSUME NEW p \in Procs, job[p] \in Jobs
    PROVE  /\ ChosenGroup(p) \in Groups \cup {NoGroup}
           /\ NumGroups = 2 => ChosenGroup(p) \in Groups
BY FirstOther DEF ChosenGroup, Jobs

-----------------------------------------------------------------------------
(* The inductive invariant, part by part.                                  *)

\* Updating one slot of one group keeps a per-slot table well formed.
LEMMA SlotUpdateType ==
    ASSUME NEW V, NEW f \in [Groups -> [Slots -> V]], NEW g \in Groups,
           NEW s \in Slots, NEW v \in V
    PROVE  [f EXCEPT ![g][s] = v] \in [Groups -> [Slots -> V]]
OBVIOUS

\* The overlay that init sets up is over the complete image it has booted.
LEMMA SetupRootOverlayType ==
    ASSUME TypeOK, RunningWhole, running # NoGroup, SetupRootOverlay
    PROVE  overlay' \in [Groups -> Images \cup {NoImage}] /\ stale' \subseteq Groups
<1>1. running \in Groups /\ content[running][SystemSlot] \in Images
  BY ConstantsAssumption DEF TypeOK, RunningWhole, Whole
<1> QED BY <1>1 DEF SetupRootOverlay, TypeOK


\* Every operation keeps the state well typed.
LEMMA TypeStep == IInv /\ [Next]_vars => TypeOK'
<1> SUFFICES ASSUME IInv, [Next]_vars PROVE TypeOK'
  OBVIOUS
<1> USE DEF IInv, SafetyInv, TypeOK, PCs, InstallPCs, flash, overlays, locals, procVars, counters
<1>1. CASE PowerCut
  BY <1>1, ConstantsAssumption DEF PowerCut, KillAll, Settled
<1>2. CASE BootUp
  BY <1>2, BootFlowContract DEF BootUp
<1>3. CASE BootFail
  BY <1>3, BootFlowContract DEF BootFail
<1>4. CASE InitClearMarker
  BY <1>4 DEF InitClearMarker
<1>5. CASE InitNoMarker
  <2>1. running # NoGroup
    BY <1>5 DEF InitNoMarker, PowerInv
  <2>2. overlay' \in [Groups -> Images \cup {NoImage}] /\ stale' \subseteq Groups
    BY <1>5, <2>1, SetupRootOverlayType DEF InitNoMarker, HandOff
  <2> QED BY <1>5, <2>2 DEF InitNoMarker, HandOff, SetupRootOverlay
<1>6. CASE InitDeferredReboot
  BY <1>6, BootFlowContract, SpareEntryIsGroup DEF InitDeferredReboot, GoDown, KillAll, Settled
<1>7. CASE InitDeferredSkip
  <2>1. running # NoGroup
    BY <1>7 DEF InitDeferredSkip, PowerInv
  <2>2. overlay' \in [Groups -> Images \cup {NoImage}] /\ stale' \subseteq Groups
    BY <1>7, <2>1, SetupRootOverlayType DEF InitDeferredSkip, HandOff
  <2> QED BY <1>7, <2>2 DEF InitDeferredSkip, HandOff, SetupRootOverlay
<1>8. ASSUME NEW p \in Procs, Install(p) \/ SystemCommand(p)
      PROVE  TypeOK'
  <2>1. CASE InstallLock(p)
    BY <2>1, ConstantsAssumption DEF InstallLock, Goto
  <2>2. CASE InstallCheck(p)
    BY <2>2, ChosenGroupType DEF InstallCheck, Goto, LockInv
  <2>3. CASE InstallPrepare(p)
    BY <2>3 DEF InstallPrepare, RemoveOverlay, Exit, Goto, LockInv, Jobs
  <2>4. CASE InstallErase(p)
    <3>1. PICK s \in todo[p] : db' = [db EXCEPT ![target[p]][s] = NoImage] /\ slot' = [slot EXCEPT ![p] = s]
      BY <2>4 DEF InstallErase
    <3>2. target[p] \in Groups /\ s \in Slots
      BY <2>4, <3>1 DEF InstallErase, LivePCs, TargetInv
    <3>3. db' \in [Groups -> [Slots -> Images \cup {NoImage}]]
      BY <3>1, <3>2, SlotUpdateType
    <3> QED BY <2>4, <3>1, <3>2, <3>3 DEF InstallErase, Goto
  <2>5. CASE InstallWrite(p)
    <3>1. target[p] \in Groups /\ slot[p] \in Slots
      BY <2>5 DEF InstallWrite, LivePCs, LockInv, Jobs, TargetInv
    <3>2. content' \in [Groups -> [Slots -> Images \cup {Torn, Lost}]]
      BY <2>5, <3>1, SlotUpdateType DEF InstallWrite
    <3> QED BY <2>5, <3>1, <3>2 DEF InstallWrite, Goto
  <2>6. CASE InstallDecode(p)
    <3>1. target[p] \in Groups /\ slot[p] \in Slots /\ job[p].image \in Images
      BY <2>6 DEF InstallDecode, LivePCs, LockInv, Jobs, TargetInv
    <3>2. content' \in [Groups -> [Slots -> Images \cup {Torn, Lost}]]
      BY <2>6, <3>1, SlotUpdateType DEF InstallDecode
    <3> QED BY <2>6, <3>1, <3>2 DEF InstallDecode, Goto
  <2>7. CASE InstallSave(p)
    <3>1. target[p] \in Groups /\ slot[p] \in Slots /\ job[p].image \in Images \cup {NoImage}
      BY <2>7 DEF InstallSave, LivePCs, LockInv, Jobs, TargetInv
    <3>2. [db EXCEPT ![target[p]][slot[p]] = job[p].image] \in [Groups -> [Slots -> Images \cup {NoImage}]]
      BY <3>1, SlotUpdateType
    <3>3. db' \in [Groups -> [Slots -> Images \cup {NoImage}]]
      BY <2>7, <3>2 DEF InstallSave
    <3> QED BY <2>7, <3>3 DEF InstallSave, Goto
  <2>8. CASE InstallPayloadsDone(p)
    BY <2>8 DEF InstallPayloadsDone, Goto
  <2>9. CASE InstallTry(p)
    BY <2>9, BootFlowContract DEF InstallTry, Exit, Goto
  <2>10. CASE InstallDefer(p)
    BY <2>10 DEF InstallDefer, Exit
  <2>11. CASE InstallNoReboot(p)
    BY <2>11 DEF InstallNoReboot, Exit
  <2>12. CASE Bail(p)
    BY <2>12 DEF Bail, Exit
  <2>13. CASE CommitCheck(p)
    BY <2>13 DEF CommitCheck, Goto
  <2>14. CASE Commit(p)
    BY <2>14, BootFlowContract DEF Commit, Exit, PowerInv
  <2>15. CASE RebootSpare(p)
    BY <2>15, BootFlowContract, SpareEntryIsGroup DEF RebootSpare, Goto
  <2>16. CASE RebootPlain(p)
    BY <2>16 DEF RebootPlain, Goto
  <2>17. CASE Reboot(p)
    BY <2>17 DEF Reboot, GoDown, KillAll, Settled
  <2> QED BY <1>8, <2>1, <2>2, <2>3, <2>4, <2>5, <2>6, <2>7, <2>8, <2>9, <2>10, <2>11, <2>12, <2>13, <2>14, <2>15, <2>16, <2>17 DEF Install, SystemCommand
<1>9. CASE UNCHANGED vars
  BY <1>9 DEF vars, flash, overlays, locals, procVars, counters
<1> QED BY <1>1, <1>2, <1>3, <1>4, <1>5, <1>6, <1>7, <1>8, <1>9 DEF Next, EarlyBoot

\* Power failures and reboots stop every process; nothing runs before init is over.
LEMMA PowerStep == IInv /\ [Next]_vars => PowerInv'
<1> SUFFICES ASSUME IInv, [Next]_vars PROVE PowerInv'
  OBVIOUS
<1> USE DEF IInv, SafetyInv, TypeOK, PCs, InstallPCs, LivePCs, flash, overlays, locals, procVars, counters, PowerInv
<1>1. CASE PowerCut
  BY <1>1 DEF PowerCut, KillAll, Settled
<1>2. CASE BootUp
  BY <1>2, BootFlowContract DEF BootUp, Groups, NoGroup
<1>3. CASE BootFail
  BY <1>3 DEF BootFail
<1>4. CASE InitClearMarker
  BY <1>4 DEF InitClearMarker
<1>5. CASE InitNoMarker
  BY <1>5 DEF InitNoMarker, HandOff, SetupRootOverlay
<1>6. CASE InitDeferredReboot
  BY <1>6 DEF InitDeferredReboot, GoDown, KillAll, Settled
<1>7. CASE InitDeferredSkip
  BY <1>7 DEF InitDeferredSkip, HandOff, SetupRootOverlay
<1>8. ASSUME NEW p \in Procs, Install(p) \/ SystemCommand(p)
      PROVE  PowerInv'
  <2>1. CASE InstallLock(p)
    BY <2>1 DEF InstallLock, Goto
  <2>2. CASE InstallCheck(p)
    BY <2>2 DEF InstallCheck, Goto
  <2>3. CASE InstallPrepare(p)
    BY <2>3 DEF InstallPrepare, RemoveOverlay, Exit, Goto
  <2>4. CASE InstallErase(p)
    BY <2>4 DEF InstallErase, Goto
  <2>5. CASE InstallWrite(p)
    BY <2>5 DEF InstallWrite, Goto
  <2>6. CASE InstallDecode(p)
    BY <2>6 DEF InstallDecode, Goto
  <2>7. CASE InstallSave(p)
    BY <2>7 DEF InstallSave, Goto
  <2>8. CASE InstallPayloadsDone(p)
    BY <2>8 DEF InstallPayloadsDone, Goto
  <2>9. CASE InstallTry(p)
    BY <2>9 DEF InstallTry, Exit, Goto
  <2>10. CASE InstallDefer(p)
    BY <2>10 DEF InstallDefer, Exit
  <2>11. CASE InstallNoReboot(p)
    BY <2>11 DEF InstallNoReboot, Exit
  <2>12. CASE Bail(p)
    BY <2>12 DEF Bail, Exit
  <2>13. CASE CommitCheck(p)
    BY <2>13 DEF CommitCheck, Goto
  <2>14. CASE Commit(p)
    BY <2>14 DEF Commit, Exit
  <2>15. CASE RebootSpare(p)
    BY <2>15 DEF RebootSpare, Goto
  <2>16. CASE RebootPlain(p)
    BY <2>16 DEF RebootPlain, Goto
  <2>17. CASE Reboot(p)
    BY <2>17 DEF Reboot, GoDown, KillAll, Settled
  <2> QED BY <1>8, <2>1, <2>2, <2>3, <2>4, <2>5, <2>6, <2>7, <2>8, <2>9, <2>10, <2>11, <2>12, <2>13, <2>14, <2>15, <2>16, <2>17 DEF Install, SystemCommand
<1>9. CASE UNCHANGED vars
  BY <1>9 DEF vars, flash, overlays, locals, procVars, counters
<1> QED BY <1>1, <1>2, <1>3, <1>4, <1>5, <1>6, <1>7, <1>8, <1>9 DEF Next, EarlyBoot

\* lock_update admits one install, and the kernel releases the lock of a dead one.
LEMMA LockStep == IInv /\ [Next]_vars => LockInv'
<1> SUFFICES ASSUME IInv, [Next]_vars PROVE LockInv'
  OBVIOUS
<1> USE DEF IInv, SafetyInv, TypeOK, PCs, InstallPCs, LivePCs, flash, overlays, locals, procVars, counters, PowerInv, LockInv
<1>1. CASE PowerCut
  BY <1>1 DEF PowerCut, KillAll, Settled
<1>2. CASE BootUp
  BY <1>2 DEF BootUp
<1>3. CASE BootFail
  BY <1>3 DEF BootFail
<1>4. CASE InitClearMarker
  BY <1>4 DEF InitClearMarker
<1>5. CASE InitNoMarker
  BY <1>5 DEF InitNoMarker, HandOff, SetupRootOverlay
<1>6. CASE InitDeferredReboot
  BY <1>6 DEF InitDeferredReboot, GoDown, KillAll, Settled
<1>7. CASE InitDeferredSkip
  BY <1>7 DEF InitDeferredSkip, HandOff, SetupRootOverlay
<1>8. ASSUME NEW p \in Procs, Install(p) \/ SystemCommand(p)
      PROVE  LockInv'
  <2>1. CASE InstallLock(p)
    BY <2>1, ConstantsAssumption DEF InstallLock, Goto
  <2>2. CASE InstallCheck(p)
    BY <2>2 DEF InstallCheck, Goto
  <2>3. CASE InstallPrepare(p)
    BY <2>3 DEF InstallPrepare, RemoveOverlay, Exit, Goto
  <2>4. CASE InstallErase(p)
    BY <2>4 DEF InstallErase, Goto
  <2>5. CASE InstallWrite(p)
    BY <2>5 DEF InstallWrite, Goto
  <2>6. CASE InstallDecode(p)
    BY <2>6 DEF InstallDecode, Goto
  <2>7. CASE InstallSave(p)
    BY <2>7 DEF InstallSave, Goto
  <2>8. CASE InstallPayloadsDone(p)
    BY <2>8 DEF InstallPayloadsDone, Goto
  <2>9. CASE InstallTry(p)
    BY <2>9 DEF InstallTry, Exit, Goto
  <2>10. CASE InstallDefer(p)
    BY <2>10 DEF InstallDefer, Exit
  <2>11. CASE InstallNoReboot(p)
    BY <2>11 DEF InstallNoReboot, Exit
  <2>12. CASE Bail(p)
    BY <2>12 DEF Bail, Exit
  <2>13. CASE CommitCheck(p)
    BY <2>13 DEF CommitCheck, Goto
  <2>14. CASE Commit(p)
    BY <2>14 DEF Commit, Exit
  <2>15. CASE RebootSpare(p)
    BY <2>15 DEF RebootSpare, Goto
  <2>16. CASE RebootPlain(p)
    BY <2>16 DEF RebootPlain, Goto
  <2>17. CASE Reboot(p)
    BY <2>17 DEF Reboot, GoDown, KillAll, Settled
  <2> QED BY <1>8, <2>1, <2>2, <2>3, <2>4, <2>5, <2>6, <2>7, <2>8, <2>9, <2>10, <2>11, <2>12, <2>13, <2>14, <2>15, <2>16, <2>17 DEF Install, SystemCommand
<1>9. CASE UNCHANGED vars
  BY <1>9 DEF vars, flash, overlays, locals, procVars, counters
<1> QED BY <1>1, <1>2, <1>3, <1>4, <1>5, <1>6, <1>7, <1>8, <1>9 DEF Next, EarlyBoot

\* No command that ignores the lock can turn the target of an install live.
LEMMA TargetStep == IInv /\ [Next]_vars => TargetInv'
<1> SUFFICES ASSUME IInv, [Next]_vars PROVE TargetInv'
  OBVIOUS
<1> USE DEF IInv, SafetyInv, TypeOK, PCs, InstallPCs, LivePCs, flash, overlays, locals, procVars, counters, PowerInv, LockInv, TargetInv
<1>1. CASE PowerCut
  BY <1>1 DEF PowerCut, KillAll, Settled
<1>2. CASE BootUp
  BY <1>2 DEF BootUp
<1>3. CASE BootFail
  BY <1>3 DEF BootFail
<1>4. CASE InitClearMarker
  BY <1>4 DEF InitClearMarker
<1>5. CASE InitNoMarker
  BY <1>5 DEF InitNoMarker, HandOff, SetupRootOverlay
<1>6. CASE InitDeferredReboot
  BY <1>6 DEF InitDeferredReboot, GoDown, KillAll, Settled
<1>7. CASE InitDeferredSkip
  BY <1>7 DEF InitDeferredSkip, HandOff, SetupRootOverlay
<1>8. ASSUME NEW p \in Procs, Install(p) \/ SystemCommand(p)
      PROVE  TargetInv'
  <2>1. CASE InstallLock(p)
    BY <2>1 DEF InstallLock, Goto
  <2>2. CASE InstallCheck(p)
    BY <2>2, ChosenGroupType DEF InstallCheck, Goto, NeedsCommit
  <2>3. CASE InstallPrepare(p)
    BY <2>3 DEF InstallPrepare, RemoveOverlay, Exit, Goto
  <2>4. CASE InstallErase(p)
    BY <2>4 DEF InstallErase, Goto
  <2>5. CASE InstallWrite(p)
    BY <2>5 DEF InstallWrite, Goto
  <2>6. CASE InstallDecode(p)
    BY <2>6 DEF InstallDecode, Goto
  <2>7. CASE InstallSave(p)
    BY <2>7 DEF InstallSave, Goto
  <2>8. CASE InstallPayloadsDone(p)
    BY <2>8 DEF InstallPayloadsDone, Goto
  <2>9. CASE InstallTry(p)
    BY <2>9, BootFlowContract DEF InstallTry, Exit, Goto
  <2>10. CASE InstallDefer(p)
    BY <2>10 DEF InstallDefer, Exit
  <2>11. CASE InstallNoReboot(p)
    BY <2>11 DEF InstallNoReboot, Exit
  <2>12. CASE Bail(p)
    BY <2>12 DEF Bail, Exit
  <2>13. CASE CommitCheck(p)
    BY <2>13 DEF CommitCheck, Goto
  <2>14. CASE Commit(p)
    BY <2>14, BootFlowContract DEF Commit, Exit
  <2>15. CASE RebootSpare(p)
    BY <2>15, BootFlowContract, SpareEntryIsGroup DEF RebootSpare, Goto
  <2>16. CASE RebootPlain(p)
    BY <2>16 DEF RebootPlain, Goto
  <2>17. CASE Reboot(p)
    BY <2>17 DEF Reboot, GoDown, KillAll, Settled
  <2> QED BY <1>8, <2>1, <2>2, <2>3, <2>4, <2>5, <2>6, <2>7, <2>8, <2>9, <2>10, <2>11, <2>12, <2>13, <2>14, <2>15, <2>16, <2>17 DEF Install, SystemCommand
<1>9. CASE UNCHANGED vars
  BY <1>9 DEF vars, flash, overlays, locals, procVars, counters
<1> QED BY <1>1, <1>2, <1>3, <1>4, <1>5, <1>6, <1>7, <1>8, <1>9 DEF Next, EarlyBoot

\* Data is unsynced only in groups that are neither running nor the default.
LEMMA UnsyncedStep == IInv /\ [Next]_vars => UnsyncedInv'
<1> SUFFICES ASSUME IInv, [Next]_vars PROVE UnsyncedInv'
  OBVIOUS
<1> USE DEF IInv, SafetyInv, TypeOK, PCs, InstallPCs, LivePCs, flash, overlays, locals, procVars, counters, PowerInv, LockInv, TargetInv, UnsyncedInv, OverlayGone
<1>1. CASE PowerCut
  BY <1>1 DEF PowerCut, KillAll, Settled
<1>2. CASE BootUp
  BY <1>2 DEF BootUp
<1>3. CASE BootFail
  BY <1>3 DEF BootFail
<1>4. CASE InitClearMarker
  BY <1>4 DEF InitClearMarker
<1>5. CASE InitNoMarker
  BY <1>5 DEF InitNoMarker, HandOff, SetupRootOverlay, HandOff
<1>6. CASE InitDeferredReboot
  BY <1>6, BootFlowContract, SpareEntryIsGroup DEF InitDeferredReboot, GoDown, KillAll, Settled
<1>7. CASE InitDeferredSkip
  BY <1>7 DEF InitDeferredSkip, HandOff, SetupRootOverlay
<1>8. ASSUME NEW p \in Procs, Install(p) \/ SystemCommand(p)
      PROVE  UnsyncedInv'
  <2>1. CASE InstallLock(p)
    BY <2>1 DEF InstallLock, Goto
  <2>2. CASE InstallCheck(p)
    BY <2>2 DEF InstallCheck, Goto
  <2>3. CASE InstallPrepare(p)
    BY <2>3 DEF InstallPrepare, RemoveOverlay, Exit, Goto
  <2>4. CASE InstallErase(p)
    BY <2>4 DEF InstallErase, Goto
  <2>5. CASE InstallWrite(p)
    BY <2>5 DEF InstallWrite, Goto, SlotInv, Groups, NoGroup
  <2>6. CASE InstallDecode(p)
    BY <2>6 DEF InstallDecode, Goto
  <2>7. CASE InstallSave(p)
    BY <2>7 DEF InstallSave, Goto
  <2>8. CASE InstallPayloadsDone(p)
    BY <2>8 DEF InstallPayloadsDone, Goto
  <2>9. CASE InstallTry(p)
    BY <2>9, BootFlowContract DEF InstallTry, Exit, Goto
  <2>10. CASE InstallDefer(p)
    BY <2>10 DEF InstallDefer, Exit
  <2>11. CASE InstallNoReboot(p)
    BY <2>11 DEF InstallNoReboot, Exit
  <2>12. CASE Bail(p)
    BY <2>12 DEF Bail, Exit
  <2>13. CASE CommitCheck(p)
    BY <2>13 DEF CommitCheck, Goto
  <2>14. CASE Commit(p)
    BY <2>14, BootFlowContract DEF Commit, Exit
  <2>15. CASE RebootSpare(p)
    BY <2>15, BootFlowContract, SpareEntryIsGroup DEF RebootSpare, Goto
  <2>16. CASE RebootPlain(p)
    BY <2>16 DEF RebootPlain, Goto
  <2>17. CASE Reboot(p)
    BY <2>17 DEF Reboot, GoDown, KillAll, Settled
  <2> QED BY <1>8, <2>1, <2>2, <2>3, <2>4, <2>5, <2>6, <2>7, <2>8, <2>9, <2>10, <2>11, <2>12, <2>13, <2>14, <2>15, <2>16, <2>17 DEF Install, SystemCommand
<1>9. CASE UNCHANGED vars
  BY <1>9 DEF vars, flash, overlays, locals, procVars, counters
<1> QED BY <1>1, <1>2, <1>3, <1>4, <1>5, <1>6, <1>7, <1>8, <1>9 DEF Next, EarlyBoot

\* The default group stays whole: writes and power failures hit other groups, and
\* commit makes the running group the default.
LEMMA DefaultWholeStep == IInv /\ [Next]_vars => DefaultWhole'
<1> SUFFICES ASSUME IInv, [Next]_vars PROVE DefaultWhole'
  OBVIOUS
<1> USE DEF IInv, SafetyInv, TypeOK, PCs, InstallPCs, LivePCs, flash, overlays, locals, procVars, counters, PowerInv, LockInv, TargetInv, UnsyncedInv, DefaultWhole, RunningWhole, Whole
<1>1. CASE PowerCut
  BY <1>1, BootFlowContract DEF PowerCut, KillAll, Settled
<1>2. CASE BootUp
  BY <1>2, BootFlowContract DEF BootUp
<1>3. CASE BootFail
  BY <1>3, BootFlowContract DEF BootFail
<1>4. CASE InitClearMarker
  BY <1>4 DEF InitClearMarker
<1>5. CASE InitNoMarker
  BY <1>5 DEF InitNoMarker, HandOff, SetupRootOverlay
<1>6. CASE InitDeferredReboot
  BY <1>6, BootFlowContract, SpareEntryIsGroup DEF InitDeferredReboot, GoDown, KillAll, Settled
<1>7. CASE InitDeferredSkip
  BY <1>7 DEF InitDeferredSkip, HandOff, SetupRootOverlay
<1>8. ASSUME NEW p \in Procs, Install(p) \/ SystemCommand(p)
      PROVE  DefaultWhole'
  <2>1. CASE InstallLock(p)
    BY <2>1 DEF InstallLock, Goto
  <2>2. CASE InstallCheck(p)
    BY <2>2 DEF InstallCheck, Goto
  <2>3. CASE InstallPrepare(p)
    BY <2>3 DEF InstallPrepare, RemoveOverlay, Exit, Goto
  <2>4. CASE InstallErase(p)
    BY <2>4 DEF InstallErase, Goto
  <2>5. CASE InstallWrite(p)
    BY <2>5 DEF InstallWrite, Goto
  <2>6. CASE InstallDecode(p)
    BY <2>6 DEF InstallDecode, Goto
  <2>7. CASE InstallSave(p)
    BY <2>7 DEF InstallSave, Goto
  <2>8. CASE InstallPayloadsDone(p)
    BY <2>8 DEF InstallPayloadsDone, Goto
  <2>9. CASE InstallTry(p)
    BY <2>9, BootFlowContract DEF InstallTry, Exit, Goto
  <2>10. CASE InstallDefer(p)
    BY <2>10 DEF InstallDefer, Exit
  <2>11. CASE InstallNoReboot(p)
    BY <2>11 DEF InstallNoReboot, Exit
  <2>12. CASE Bail(p)
    BY <2>12 DEF Bail, Exit
  <2>13. CASE CommitCheck(p)
    BY <2>13 DEF CommitCheck, Goto
  <2>14. CASE Commit(p)
    BY <2>14, BootFlowContract DEF Commit, Exit
  <2>15. CASE RebootSpare(p)
    BY <2>15, BootFlowContract, SpareEntryIsGroup DEF RebootSpare, Goto
  <2>16. CASE RebootPlain(p)
    BY <2>16 DEF RebootPlain, Goto
  <2>17. CASE Reboot(p)
    BY <2>17 DEF Reboot, GoDown, KillAll, Settled
  <2> QED BY <1>8, <2>1, <2>2, <2>3, <2>4, <2>5, <2>6, <2>7, <2>8, <2>9, <2>10, <2>11, <2>12, <2>13, <2>14, <2>15, <2>16, <2>17 DEF Install, SystemCommand
<1>9. CASE UNCHANGED vars
  BY <1>9 DEF vars, flash, overlays, locals, procVars, counters
<1> QED BY <1>1, <1>2, <1>3, <1>4, <1>5, <1>6, <1>7, <1>8, <1>9 DEF Next, EarlyBoot

\* The running group stays whole.
LEMMA RunningWholeStep == IInv /\ [Next]_vars => RunningWhole'
<1> SUFFICES ASSUME IInv, [Next]_vars PROVE RunningWhole'
  OBVIOUS
<1> USE DEF IInv, SafetyInv, TypeOK, PCs, InstallPCs, LivePCs, flash, overlays, locals, procVars, counters, PowerInv, LockInv, TargetInv, RunningWhole, Whole
<1>1. CASE PowerCut
  BY <1>1 DEF PowerCut, KillAll, Settled
<1>2. CASE BootUp
  BY <1>2 DEF BootUp
<1>3. CASE BootFail
  BY <1>3 DEF BootFail
<1>4. CASE InitClearMarker
  BY <1>4 DEF InitClearMarker
<1>5. CASE InitNoMarker
  BY <1>5 DEF InitNoMarker, HandOff, SetupRootOverlay
<1>6. CASE InitDeferredReboot
  BY <1>6 DEF InitDeferredReboot, GoDown, KillAll, Settled
<1>7. CASE InitDeferredSkip
  BY <1>7 DEF InitDeferredSkip, HandOff, SetupRootOverlay
<1>8. ASSUME NEW p \in Procs, Install(p) \/ SystemCommand(p)
      PROVE  RunningWhole'
  <2>1. CASE InstallLock(p)
    BY <2>1 DEF InstallLock, Goto
  <2>2. CASE InstallCheck(p)
    BY <2>2 DEF InstallCheck, Goto
  <2>3. CASE InstallPrepare(p)
    BY <2>3 DEF InstallPrepare, RemoveOverlay, Exit, Goto
  <2>4. CASE InstallErase(p)
    BY <2>4 DEF InstallErase, Goto
  <2>5. CASE InstallWrite(p)
    BY <2>5 DEF InstallWrite, Goto
  <2>6. CASE InstallDecode(p)
    BY <2>6 DEF InstallDecode, Goto
  <2>7. CASE InstallSave(p)
    BY <2>7 DEF InstallSave, Goto
  <2>8. CASE InstallPayloadsDone(p)
    BY <2>8 DEF InstallPayloadsDone, Goto
  <2>9. CASE InstallTry(p)
    BY <2>9 DEF InstallTry, Exit, Goto
  <2>10. CASE InstallDefer(p)
    BY <2>10 DEF InstallDefer, Exit
  <2>11. CASE InstallNoReboot(p)
    BY <2>11 DEF InstallNoReboot, Exit
  <2>12. CASE Bail(p)
    BY <2>12 DEF Bail, Exit
  <2>13. CASE CommitCheck(p)
    BY <2>13 DEF CommitCheck, Goto
  <2>14. CASE Commit(p)
    BY <2>14 DEF Commit, Exit
  <2>15. CASE RebootSpare(p)
    BY <2>15 DEF RebootSpare, Goto
  <2>16. CASE RebootPlain(p)
    BY <2>16 DEF RebootPlain, Goto
  <2>17. CASE Reboot(p)
    BY <2>17 DEF Reboot, GoDown, KillAll, Settled
  <2> QED BY <1>8, <2>1, <2>2, <2>3, <2>4, <2>5, <2>6, <2>7, <2>8, <2>9, <2>10, <2>11, <2>12, <2>13, <2>14, <2>15, <2>16, <2>17 DEF Install, SystemCommand
<1>9. CASE UNCHANGED vars
  BY <1>9 DEF vars, flash, overlays, locals, procVars, counters
<1> QED BY <1>1, <1>2, <1>3, <1>4, <1>5, <1>6, <1>7, <1>8, <1>9 DEF Next, EarlyBoot

\* The record and the overlay of the slot being written are gone before it changes.
LEMMA SlotStep == IInv /\ [Next]_vars => SlotInv'
<1> SUFFICES ASSUME IInv, [Next]_vars PROVE SlotInv'
  OBVIOUS
<1> USE DEF IInv, SafetyInv, TypeOK, PCs, InstallPCs, LivePCs, flash, overlays, locals, procVars, counters, PowerInv, LockInv, TargetInv, SlotInv, OverlayGone
<1>1. CASE PowerCut
  BY <1>1 DEF PowerCut, KillAll, Settled
<1>2. CASE BootUp
  BY <1>2 DEF BootUp
<1>3. CASE BootFail
  BY <1>3 DEF BootFail
<1>4. CASE InitClearMarker
  BY <1>4 DEF InitClearMarker
<1>5. CASE InitNoMarker
  BY <1>5 DEF InitNoMarker, HandOff, SetupRootOverlay
<1>6. CASE InitDeferredReboot
  BY <1>6 DEF InitDeferredReboot, GoDown, KillAll, Settled
<1>7. CASE InitDeferredSkip
  BY <1>7 DEF InitDeferredSkip, HandOff, SetupRootOverlay
<1>8. ASSUME NEW p \in Procs, Install(p) \/ SystemCommand(p)
      PROVE  SlotInv'
  <2>1. CASE InstallLock(p)
    BY <2>1 DEF InstallLock, Goto
  <2>2. CASE InstallCheck(p)
    BY <2>2 DEF InstallCheck, Goto
  <2>3. CASE InstallPrepare(p)
    BY <2>3 DEF InstallPrepare, RemoveOverlay, Exit, Goto
  <2>4. CASE InstallErase(p)
    BY <2>4 DEF InstallErase, Goto
  <2>5. CASE InstallWrite(p)
    BY <2>5 DEF InstallWrite, Goto
  <2>6. CASE InstallDecode(p)
    BY <2>6 DEF InstallDecode, Goto
  <2>7. CASE InstallSave(p)
    BY <2>7 DEF InstallSave, Goto
  <2>8. CASE InstallPayloadsDone(p)
    BY <2>8 DEF InstallPayloadsDone, Goto
  <2>9. CASE InstallTry(p)
    BY <2>9 DEF InstallTry, Exit, Goto
  <2>10. CASE InstallDefer(p)
    BY <2>10 DEF InstallDefer, Exit
  <2>11. CASE InstallNoReboot(p)
    BY <2>11 DEF InstallNoReboot, Exit
  <2>12. CASE Bail(p)
    BY <2>12 DEF Bail, Exit
  <2>13. CASE CommitCheck(p)
    BY <2>13 DEF CommitCheck, Goto
  <2>14. CASE Commit(p)
    BY <2>14 DEF Commit, Exit
  <2>15. CASE RebootSpare(p)
    BY <2>15 DEF RebootSpare, Goto
  <2>16. CASE RebootPlain(p)
    BY <2>16 DEF RebootPlain, Goto
  <2>17. CASE Reboot(p)
    BY <2>17 DEF Reboot, GoDown, KillAll, Settled
  <2> QED BY <1>8, <2>1, <2>2, <2>3, <2>4, <2>5, <2>6, <2>7, <2>8, <2>9, <2>10, <2>11, <2>12, <2>13, <2>14, <2>15, <2>16, <2>17 DEF Install, SystemCommand
<1>9. CASE UNCHANGED vars
  BY <1>9 DEF vars, flash, overlays, locals, procVars, counters
<1> QED BY <1>1, <1>2, <1>3, <1>4, <1>5, <1>6, <1>7, <1>8, <1>9 DEF Next, EarlyBoot

\* A recorded hash always is the hash of the data, or the data is known torn.
LEMMA RecordStep == IInv /\ [Next]_vars => RecordTruthful'
<1> SUFFICES ASSUME IInv, [Next]_vars PROVE RecordTruthful'
  OBVIOUS
<1> USE DEF IInv, SafetyInv, TypeOK, PCs, InstallPCs, LivePCs, flash, overlays, locals, procVars, counters, PowerInv, LockInv, TargetInv, SlotInv, RecordTruthful
<1>1. CASE PowerCut
  BY <1>1, ConstantsAssumption DEF PowerCut, KillAll, Settled
<1>2. CASE BootUp
  BY <1>2 DEF BootUp
<1>3. CASE BootFail
  BY <1>3 DEF BootFail
<1>4. CASE InitClearMarker
  BY <1>4 DEF InitClearMarker
<1>5. CASE InitNoMarker
  BY <1>5 DEF InitNoMarker, HandOff, SetupRootOverlay
<1>6. CASE InitDeferredReboot
  BY <1>6 DEF InitDeferredReboot, GoDown, KillAll, Settled
<1>7. CASE InitDeferredSkip
  BY <1>7 DEF InitDeferredSkip, HandOff, SetupRootOverlay
<1>8. ASSUME NEW p \in Procs, Install(p) \/ SystemCommand(p)
      PROVE  RecordTruthful'
  <2>1. CASE InstallLock(p)
    BY <2>1 DEF InstallLock, Goto
  <2>2. CASE InstallCheck(p)
    BY <2>2 DEF InstallCheck, Goto
  <2>3. CASE InstallPrepare(p)
    BY <2>3 DEF InstallPrepare, RemoveOverlay, Exit, Goto
  <2>4. CASE InstallErase(p)
    BY <2>4 DEF InstallErase, Goto
  <2>5. CASE InstallWrite(p)
    BY <2>5 DEF InstallWrite, Goto
  <2>6. CASE InstallDecode(p)
    BY <2>6 DEF InstallDecode, Goto
  <2>7. CASE InstallSave(p)
    <3>1. target[p] \in Groups /\ slot[p] \in Slots /\ content[target[p]][slot[p]] = job[p].image
      BY <2>7 DEF InstallSave
    <3>2. CASE db' = db
      BY <2>7, <3>2 DEF InstallSave
    <3>3. CASE db' = [db EXCEPT ![target[p]][slot[p]] = job[p].image]
      BY <2>7, <3>1, <3>3 DEF InstallSave
    <3> QED BY <2>7, <3>2, <3>3 DEF InstallSave
  <2>8. CASE InstallPayloadsDone(p)
    BY <2>8 DEF InstallPayloadsDone, Goto
  <2>9. CASE InstallTry(p)
    BY <2>9 DEF InstallTry, Exit, Goto
  <2>10. CASE InstallDefer(p)
    BY <2>10 DEF InstallDefer, Exit
  <2>11. CASE InstallNoReboot(p)
    BY <2>11 DEF InstallNoReboot, Exit
  <2>12. CASE Bail(p)
    BY <2>12 DEF Bail, Exit
  <2>13. CASE CommitCheck(p)
    BY <2>13 DEF CommitCheck, Goto
  <2>14. CASE Commit(p)
    BY <2>14 DEF Commit, Exit
  <2>15. CASE RebootSpare(p)
    BY <2>15 DEF RebootSpare, Goto
  <2>16. CASE RebootPlain(p)
    BY <2>16 DEF RebootPlain, Goto
  <2>17. CASE Reboot(p)
    BY <2>17 DEF Reboot, GoDown, KillAll, Settled
  <2> QED BY <1>8, <2>1, <2>2, <2>3, <2>4, <2>5, <2>6, <2>7, <2>8, <2>9, <2>10, <2>11, <2>12, <2>13, <2>14, <2>15, <2>16, <2>17 DEF Install, SystemCommand
<1>9. CASE UNCHANGED vars
  BY <1>9 DEF vars, flash, overlays, locals, procVars, counters
<1> QED BY <1>1, <1>2, <1>3, <1>4, <1>5, <1>6, <1>7, <1>8, <1>9 DEF Next, EarlyBoot

\* A stored overlay is removed before the image under it changes.
LEMMA OverlayStep == IInv /\ [Next]_vars => OverlayInv'
<1> SUFFICES ASSUME IInv, [Next]_vars PROVE OverlayInv'
  OBVIOUS
<1> USE DEF IInv, SafetyInv, TypeOK, PCs, InstallPCs, LivePCs, flash, overlays, locals, procVars, counters, PowerInv, LockInv, TargetInv, UnsyncedInv, SlotInv, OverlayInv, OverlayGone
<1>1. CASE PowerCut
  BY <1>1, ConstantsAssumption DEF PowerCut, KillAll, Settled
<1>2. CASE BootUp
  BY <1>2 DEF BootUp
<1>3. CASE BootFail
  BY <1>3 DEF BootFail
<1>4. CASE InitClearMarker
  BY <1>4 DEF InitClearMarker
<1>5. CASE InitNoMarker
  BY <1>5 DEF InitNoMarker, HandOff, SetupRootOverlay
<1>6. CASE InitDeferredReboot
  BY <1>6 DEF InitDeferredReboot, GoDown, KillAll, Settled
<1>7. CASE InitDeferredSkip
  BY <1>7 DEF InitDeferredSkip, HandOff, SetupRootOverlay
<1>8. ASSUME NEW p \in Procs, Install(p) \/ SystemCommand(p)
      PROVE  OverlayInv'
  <2>1. CASE InstallLock(p)
    BY <2>1 DEF InstallLock, Goto
  <2>2. CASE InstallCheck(p)
    BY <2>2 DEF InstallCheck, Goto
  <2>3. CASE InstallPrepare(p)
    BY <2>3 DEF InstallPrepare, RemoveOverlay, Exit, Goto
  <2>4. CASE InstallErase(p)
    BY <2>4 DEF InstallErase, Goto
  <2>5. CASE InstallWrite(p)
    <3>1. target[p] \in Groups /\ OverlayGone(target[p])
      BY <2>5 DEF InstallWrite, Groups, NoGroup
    <3> QED BY <2>5, <3>1 DEF InstallWrite
  <2>6. CASE InstallDecode(p)
    <3>1. target[p] \in Groups /\ OverlayGone(target[p])
      BY <2>6 DEF InstallDecode, Groups, NoGroup
    <3> QED BY <2>6, <3>1 DEF InstallDecode
  <2>7. CASE InstallSave(p)
    BY <2>7 DEF InstallSave, Goto
  <2>8. CASE InstallPayloadsDone(p)
    BY <2>8 DEF InstallPayloadsDone, Goto
  <2>9. CASE InstallTry(p)
    BY <2>9 DEF InstallTry, Exit, Goto
  <2>10. CASE InstallDefer(p)
    BY <2>10 DEF InstallDefer, Exit
  <2>11. CASE InstallNoReboot(p)
    BY <2>11 DEF InstallNoReboot, Exit
  <2>12. CASE Bail(p)
    BY <2>12 DEF Bail, Exit
  <2>13. CASE CommitCheck(p)
    BY <2>13 DEF CommitCheck, Goto
  <2>14. CASE Commit(p)
    BY <2>14 DEF Commit, Exit
  <2>15. CASE RebootSpare(p)
    BY <2>15 DEF RebootSpare, Goto
  <2>16. CASE RebootPlain(p)
    BY <2>16 DEF RebootPlain, Goto
  <2>17. CASE Reboot(p)
    BY <2>17 DEF Reboot, GoDown, KillAll, Settled
  <2> QED BY <1>8, <2>1, <2>2, <2>3, <2>4, <2>5, <2>6, <2>7, <2>8, <2>9, <2>10, <2>11, <2>12, <2>13, <2>14, <2>15, <2>16, <2>17 DEF Install, SystemCommand
<1>9. CASE UNCHANGED vars
  BY <1>9 DEF vars, flash, overlays, locals, procVars, counters
<1> QED BY <1>1, <1>2, <1>3, <1>4, <1>5, <1>6, <1>7, <1>8, <1>9 DEF Next, EarlyBoot

\* Init hands off with an overlay of the image it has booted.
LEMMA OverlayFreshStep == IInv /\ [Next]_vars => OverlayFresh'
<1> SUFFICES ASSUME IInv, [Next]_vars PROVE OverlayFresh'
  OBVIOUS
<1> USE DEF IInv, SafetyInv, TypeOK, PCs, InstallPCs, LivePCs, flash, overlays, locals, procVars, counters, PowerInv, LockInv, TargetInv, SlotInv, OverlayInv, OverlayFresh, OverlayGone
<1>1. CASE PowerCut
  BY <1>1, ConstantsAssumption DEF PowerCut, KillAll, Settled
<1>2. CASE BootUp
  BY <1>2 DEF BootUp
<1>3. CASE BootFail
  BY <1>3 DEF BootFail
<1>4. CASE InitClearMarker
  BY <1>4 DEF InitClearMarker
<1>5. CASE InitNoMarker
  BY <1>5 DEF InitNoMarker, HandOff, SetupRootOverlay
<1>6. CASE InitDeferredReboot
  BY <1>6 DEF InitDeferredReboot, GoDown, KillAll, Settled
<1>7. CASE InitDeferredSkip
  BY <1>7 DEF InitDeferredSkip, HandOff, SetupRootOverlay
<1>8. ASSUME NEW p \in Procs, Install(p) \/ SystemCommand(p)
      PROVE  OverlayFresh'
  <2>1. CASE InstallLock(p)
    BY <2>1 DEF InstallLock, Goto
  <2>2. CASE InstallCheck(p)
    BY <2>2 DEF InstallCheck, Goto
  <2>3. CASE InstallPrepare(p)
    BY <2>3 DEF InstallPrepare, RemoveOverlay, Exit, Goto
  <2>4. CASE InstallErase(p)
    BY <2>4 DEF InstallErase, Goto
  <2>5. CASE InstallWrite(p)
    BY <2>5 DEF InstallWrite, Goto
  <2>6. CASE InstallDecode(p)
    BY <2>6 DEF InstallDecode, Goto
  <2>7. CASE InstallSave(p)
    BY <2>7 DEF InstallSave, Goto
  <2>8. CASE InstallPayloadsDone(p)
    BY <2>8 DEF InstallPayloadsDone, Goto
  <2>9. CASE InstallTry(p)
    BY <2>9 DEF InstallTry, Exit, Goto
  <2>10. CASE InstallDefer(p)
    BY <2>10 DEF InstallDefer, Exit
  <2>11. CASE InstallNoReboot(p)
    BY <2>11 DEF InstallNoReboot, Exit
  <2>12. CASE Bail(p)
    BY <2>12 DEF Bail, Exit
  <2>13. CASE CommitCheck(p)
    BY <2>13 DEF CommitCheck, Goto
  <2>14. CASE Commit(p)
    BY <2>14 DEF Commit, Exit
  <2>15. CASE RebootSpare(p)
    BY <2>15 DEF RebootSpare, Goto
  <2>16. CASE RebootPlain(p)
    BY <2>16 DEF RebootPlain, Goto
  <2>17. CASE Reboot(p)
    BY <2>17 DEF Reboot, GoDown, KillAll, Settled
  <2> QED BY <1>8, <2>1, <2>2, <2>3, <2>4, <2>5, <2>6, <2>7, <2>8, <2>9, <2>10, <2>11, <2>12, <2>13, <2>14, <2>15, <2>16, <2>17 DEF Install, SystemCommand
<1>9. CASE UNCHANGED vars
  BY <1>9 DEF vars, flash, overlays, locals, procVars, counters
<1> QED BY <1>1, <1>2, <1>3, <1>4, <1>5, <1>6, <1>7, <1>8, <1>9 DEF Next, EarlyBoot

\* The deferred marker survives until the next boot and no longer.
LEMMA DeferredStep == IInv /\ [Next]_vars => DeferredInv'
<1> SUFFICES ASSUME IInv, [Next]_vars PROVE DeferredInv'
  OBVIOUS
<1> USE DEF IInv, SafetyInv, TypeOK, PCs, InstallPCs, LivePCs, flash, overlays, locals, procVars, counters, PowerInv, LockInv, TargetInv, DeferredInv
<1>1. CASE PowerCut
  BY <1>1 DEF PowerCut, KillAll, Settled
<1>2. CASE BootUp
  BY <1>2, BootFlowContract DEF BootUp
<1>3. CASE BootFail
  BY <1>3, BootFlowContract DEF BootFail
<1>4. CASE InitClearMarker
  BY <1>4 DEF InitClearMarker
<1>5. CASE InitNoMarker
  BY <1>5 DEF InitNoMarker, HandOff, SetupRootOverlay, HandOff
<1>6. CASE InitDeferredReboot
  BY <1>6, BootFlowContract, SpareEntryIsGroup DEF InitDeferredReboot, GoDown, KillAll, Settled
<1>7. CASE InitDeferredSkip
  BY <1>7 DEF InitDeferredSkip, HandOff, SetupRootOverlay, HandOff
<1>8. ASSUME NEW p \in Procs, Install(p) \/ SystemCommand(p)
      PROVE  DeferredInv'
  <2>1. CASE InstallLock(p)
    BY <2>1 DEF InstallLock, Goto
  <2>2. CASE InstallCheck(p)
    BY <2>2, ChosenGroupType DEF InstallCheck, Goto, LockInv
  <2>3. CASE InstallPrepare(p)
    BY <2>3 DEF InstallPrepare, RemoveOverlay, Exit, Goto
  <2>4. CASE InstallErase(p)
    BY <2>4 DEF InstallErase, Goto
  <2>5. CASE InstallWrite(p)
    BY <2>5 DEF InstallWrite, Goto
  <2>6. CASE InstallDecode(p)
    BY <2>6 DEF InstallDecode, Goto
  <2>7. CASE InstallSave(p)
    BY <2>7 DEF InstallSave, Goto
  <2>8. CASE InstallPayloadsDone(p)
    BY <2>8 DEF InstallPayloadsDone, Goto
  <2>9. CASE InstallTry(p)
    <3>1. target[p] \in Groups
      BY <2>9 DEF InstallTry
    <3>2. GetDefault(env') = GetDefault(env)
      BY <2>9, <3>1, BootFlowContract DEF InstallTry
    <3>3. /\ stage' = stage /\ running' = running
          /\ deferred' = deferred /\ deferredFor' = deferredFor
      BY <2>9 DEF InstallTry
    <3>4. \A q \in Procs : pc'[q] \in LivePCs => pc[q] \in LivePCs /\ target'[q] = target[q]
      BY <2>9 DEF InstallTry, Exit, Goto
    <3> QED BY <3>2, <3>3, <3>4
  <2>10. CASE InstallDefer(p)
    BY <2>10 DEF InstallDefer, Exit
  <2>11. CASE InstallNoReboot(p)
    BY <2>11 DEF InstallNoReboot, Exit
  <2>12. CASE Bail(p)
    BY <2>12 DEF Bail, Exit
  <2>13. CASE CommitCheck(p)
    BY <2>13 DEF CommitCheck, Goto
  <2>14. CASE Commit(p)
    BY <2>14, BootFlowContract DEF Commit, Exit, Groups, NoGroup
  <2>15. CASE RebootSpare(p)
    BY <2>15, BootFlowContract, SpareEntryIsGroup DEF RebootSpare, Goto
  <2>16. CASE RebootPlain(p)
    BY <2>16 DEF RebootPlain, Goto
  <2>17. CASE Reboot(p)
    BY <2>17 DEF Reboot, GoDown, KillAll, Settled
  <2> QED BY <1>8, <2>1, <2>2, <2>3, <2>4, <2>5, <2>6, <2>7, <2>8, <2>9, <2>10, <2>11, <2>12, <2>13, <2>14, <2>15, <2>16, <2>17 DEF Install, SystemCommand
<1>9. CASE UNCHANGED vars
  BY <1>9 DEF vars, flash, overlays, locals, procVars, counters
<1> QED BY <1>1, <1>2, <1>3, <1>4, <1>5, <1>6, <1>7, <1>8, <1>9 DEF Next, EarlyBoot

-----------------------------------------------------------------------------
(* What a first update leaves for the bootloader to try.                   *)

Complete(g) == \E i \in Images : \A s \in Slots : content[g][s] \in {i, Lost}
Updating(p) == pc[p] \in InstallPCs

\* What the slots of the target hold while an update is on its way.
TargetFilled(p) ==
    /\ pc[p] \in {"check", "prepare"} => \A g \in Groups : Complete(g)
    /\ pc[p] \in {"payload", "write", "decode", "save", "finish"} /\ target[p] # NoGroup =>
        \A s \in Slots \ todo[p] : content[target[p]][s] = job[p].image
    /\ pc[p] \in {"write", "decode", "save"} => slot[p] \in todo[p]
    /\ pc[p] = "finish" => todo[p] = {}

\* During the first update nothing but the running group will be tried, and no marker
\* is set; after it, whatever it left behind, a group that will be tried is complete.
TrialInv ==
    installs <= 1 =>
        /\ \A g \in Tries(env) \cup ({running} \cap Groups) : Complete(g)
        /\ installs = 0 => \A p \in Procs : ~Updating(p)
        /\ installs = 0 => \A g \in Groups : Complete(g)
        /\ installs = 0 \/ (\E p \in Procs : Updating(p)) =>
            /\ Tries(env) = {GetDefault(env)} /\ running \in {NoGroup, GetDefault(env)}
            /\ deferred = "no" /\ stage # "deferred"
        /\ deferred # "no" \/ stage = "deferred" => \A g \in Groups : Complete(g)
        /\ \A p \in Procs : Updating(p) =>
            /\ job[p].slots = Slots
            /\ \A g \in Groups \ {target[p]} : Complete(g)
            /\ TargetFilled(p)

\* What the bootloader may try are groups of the configuration.
LEMMA TriesType ==
    ASSUME NEW e \in BootEnvs
    PROVE  /\ Tries(e) \subseteq Groups /\ GetDefault(e) \in Tries(e)
           /\ \A a \in Attempts(e) : a.group \in Tries(e) /\ a.env \in BootEnvs
BY BootFlowContract DEF Tries

\* A first update never leaves a group that will be tried incomplete.
LEMMA TrialStep ==
    ASSUME ~SpareReboots, \A r \in Requests : r.slots = Slots
    PROVE  IInv /\ TrialInv /\ [Next]_vars => TrialInv'
<1> SUFFICES ASSUME IInv, TrialInv, [Next]_vars, installs' <= 1
              PROVE  TrialInv'
  BY DEF TrialInv
<1> USE DEF IInv, SafetyInv, TypeOK, PCs, InstallPCs, LivePCs, flash, overlays, locals, procVars, counters, PowerInv, LockInv, TargetInv, DeferredInv, TrialInv, TargetFilled, Updating, Complete
<1>1. CASE PowerCut
  <2>1. \A g \in Groups : Complete(g) => Complete(g)'
    <3>1. PICK lost \in SUBSET unsynced :
            content' = [g \in Groups |-> [s \in Slots |->
                           IF <<g, s>> \in lost THEN Lost ELSE content[g][s]]]
      BY <1>1 DEF PowerCut
    <3> QED BY <3>1
  <2>2. /\ env' = env /\ running' = NoGroup /\ stage' = "off" /\ installs' = installs
        /\ deferred' # "no" => deferred # "no"
        /\ \A p \in Procs : ~Updating(p)'
    BY <1>1 DEF PowerCut, KillAll
  <2>3. Tries(env) \subseteq Groups
    BY TriesType
  <2> HIDE DEF Complete
  <2> QED BY <2>1, <2>2, <2>3 DEF Groups, NoGroup
<1>2. CASE BootUp
  <2>1. PICK a \in Attempts(env) : env' = a.env /\ running' = a.group
    BY <1>2 DEF BootUp
  <2>2. /\ Tries(env') \subseteq Tries(env) /\ a.group \in Tries(env) \cap Groups
        /\ GetDefault(env') = GetDefault(env) /\ GetDefault(env') \in Tries(env')
    BY <2>1, BootFlowContract, AttemptsContract, TriesType
  <2> QED BY <1>2, <2>1, <2>2 DEF BootUp
<1>3. CASE BootFail
  <2>1. PICK a \in Attempts(env) : env' = a.env
    BY <1>3 DEF BootFail
  <2>2. /\ Tries(env') \subseteq Tries(env)
        /\ GetDefault(env') = GetDefault(env) /\ GetDefault(env') \in Tries(env')
    BY <2>1, BootFlowContract, AttemptsContract, TriesType
  <2> QED BY <1>3, <2>1, <2>2 DEF BootFail
<1>4. CASE InitClearMarker
  BY <1>4 DEF InitClearMarker
<1>5. CASE InitNoMarker
  BY <1>5 DEF InitNoMarker, HandOff, SetupRootOverlay, HandOff
<1>6. CASE InitDeferredReboot
  <2>1. Tries(env') \subseteq Tries(env) \cup {SpareEntry}
    BY <1>6, AttemptsContract, SpareEntryIsGroup DEF InitDeferredReboot
  <2>2. \A g \in Groups : Complete(g)
    BY <1>6 DEF InitDeferredReboot
  <2>3. installs # 0 /\ ~\E q \in Procs : Updating(q)
    BY <1>6 DEF InitDeferredReboot
  <2>4. Tries(env) \subseteq Groups
    BY TriesType
  <2> QED BY <1>6, <2>1, <2>2, <2>3, <2>4, SpareEntryIsGroup DEF InitDeferredReboot, GoDown, KillAll, Settled
<1>7. CASE InitDeferredSkip
  BY <1>7 DEF InitDeferredSkip, HandOff, SetupRootOverlay, HandOff
<1>8. ASSUME NEW p \in Procs, Install(p) \/ SystemCommand(p)
      PROVE  TrialInv'
  <2>1. CASE InstallLock(p)
    BY <2>1 DEF InstallLock, Goto
  <2>2. CASE InstallCheck(p)
    BY <2>2, ChosenGroupType DEF InstallCheck, Goto, LockInv
  <2>3. CASE InstallPrepare(p)
    BY <2>3 DEF InstallPrepare, RemoveOverlay, Exit, Goto
  <2>4. CASE InstallErase(p)
    BY <2>4 DEF InstallErase, Goto
  <2>5. CASE InstallWrite(p)
    BY <2>5 DEF InstallWrite, Goto
  <2>6. CASE InstallDecode(p)
    BY <2>6 DEF InstallDecode, Goto
  <2>7. CASE InstallSave(p)
    <3>1. /\ slot[p] \in todo[p] /\ content[target[p]][slot[p]] = job[p].image
          /\ todo'[p] = todo[p] \ {slot[p]} /\ pc'[p] = "payload"
      BY <2>7 DEF InstallSave, Goto, SlotInv
    <3>2. \A q \in Procs \ {p} : ~Updating(q)'
      BY <2>7 DEF InstallSave, Goto
    <3>3. /\ content' = content /\ running' = running /\ stage' = stage /\ env' = env
          /\ deferred' = deferred /\ installs' = installs /\ cuts' = cuts
          /\ target' = target /\ job' = job
      BY <2>7 DEF InstallSave
    <3>4. Updating(p)
      BY <2>7 DEF InstallSave
    <3>5. \A s \in Slots \ todo'[p] : content[target[p]][s] = job[p].image
      BY <2>7, <3>1 DEF InstallSave, Groups, NoGroup
    <3> QED BY <3>1, <3>2, <3>3, <3>4, <3>5
  <2>8. CASE InstallPayloadsDone(p)
    BY <2>8 DEF InstallPayloadsDone, Goto
  <2>9. CASE InstallTry(p)
    <3>1. target[p] \in Groups
      BY <2>9 DEF InstallTry
    <3>3. /\ stage' = stage /\ running' = running
          /\ deferred' = deferred /\ deferredFor' = deferredFor
      BY <2>9 DEF InstallTry
    <3>5. Tries(env') \subseteq Tries(env) \cup {target[p]}
      BY <2>9, <3>1, AttemptsContract DEF InstallTry
    <3>6. Complete(target[p])
      BY <2>9, <3>1 DEF InstallTry, NoGroup, Jobs
    <3>7. content' = content /\ installs' = installs /\ cuts' = cuts
      BY <2>9 DEF InstallTry
    <3>8. /\ \A q \in Procs : pc'[q] \notin InstallPCs
          /\ installs # 0 /\ deferred = "no" /\ stage # "deferred"
      BY <2>9 DEF InstallTry, Exit, Goto
    <3> QED BY <3>3, <3>5, <3>6, <3>7, <3>8
  <2>10. CASE InstallDefer(p)
    <3>1. \A g \in Groups : Complete(g)
      <4>1. /\ Updating(p) /\ pc[p] = "finish" /\ todo[p] = {} /\ job[p].image \in Images
            /\ installs <= 1
        BY <2>10 DEF InstallDefer, Jobs
      <4>2. target[p] \in Groups => target[p] # NoGroup
        BY DEF Groups, NoGroup
      <4>3. target[p] # NoGroup => \A s \in Slots : content[target[p]][s] = job[p].image
        BY <4>1
      <4>4. target[p] \in Groups => Complete(target[p])
        BY <4>1, <4>2, <4>3
      <4>5. \A g \in Groups \ {target[p]} : Complete(g)
        BY <4>1
      <4> HIDE DEF Complete
      <4> QED BY <4>4, <4>5
    <3>2. \A q \in Procs : pc'[q] \notin InstallPCs
      BY <2>10 DEF InstallDefer, Exit
    <3>3. /\ env' = env /\ content' = content /\ running' = running
          /\ installs' = installs /\ installs # 0
      BY <2>10 DEF InstallDefer
    <3> QED BY <2>10, <3>1, <3>2, <3>3 DEF InstallDefer
  <2>11. CASE InstallNoReboot(p)
    BY <2>11 DEF InstallNoReboot, Exit
  <2>12. CASE Bail(p)
    BY <2>12 DEF Bail, Exit
  <2>13. CASE CommitCheck(p)
    BY <2>13 DEF CommitCheck, Goto
  <2>14. CASE Commit(p)
    <3>1. running \in Groups
      BY <2>14 DEF Commit
    <3>2. /\ Tries(env') \subseteq Tries(env) \cup {running}
          /\ GetDefault(env') = running /\ GetDefault(env') \in Tries(env')
      BY <2>14, <3>1, BootFlowContract, AttemptsContract, TriesType DEF Commit
    <3>3. /\ content' = content /\ running' = running /\ stage' = stage
          /\ deferred' = deferred /\ installs' = installs /\ cuts' = cuts
      BY <2>14 DEF Commit
    <3>4. \A q \in Procs : Updating(q)' =>
              /\ Updating(q) /\ pc'[q] = pc[q] /\ job'[q] = job[q]
              /\ target'[q] = target[q] /\ todo'[q] = todo[q] /\ slot'[q] = slot[q]
      BY <2>14 DEF Commit, Exit
    <3>5. running # NoGroup
      BY <3>1 DEF Groups, NoGroup
    <3> QED BY <3>1, <3>2, <3>3, <3>4, <3>5
  <2>15. CASE RebootSpare(p)
    BY <2>15, BootFlowContract, SpareEntryIsGroup DEF RebootSpare, Goto
  <2>16. CASE RebootPlain(p)
    BY <2>16 DEF RebootPlain, Goto
  <2>17. CASE Reboot(p)
    <3>1. stage = "up" /\ running # NoGroup
      BY <2>17 DEF Reboot
    <3>2. /\ content' = content /\ running' = NoGroup /\ stage' = "off" /\ env' = env
          /\ installs' = installs /\ cuts' = cuts
          /\ deferred' # "no" => deferred # "no"
      BY <2>17 DEF Reboot, GoDown
    <3>3. \A q \in Procs : ~Updating(q)'
      BY <2>17 DEF Reboot, GoDown, KillAll, Settled
    <3> QED BY <3>1, <3>2, <3>3 DEF Groups, NoGroup
  <2> QED BY <1>8, <2>1, <2>2, <2>3, <2>4, <2>5, <2>6, <2>7, <2>8, <2>9, <2>10, <2>11, <2>12, <2>13, <2>14, <2>15, <2>16, <2>17 DEF Install, SystemCommand
<1>9. CASE UNCHANGED vars
  BY <1>9 DEF vars, flash, overlays, locals, procVars, counters
<1> QED BY <1>1, <1>2, <1>3, <1>4, <1>5, <1>6, <1>7, <1>8, <1>9 DEF Next, EarlyBoot

-----------------------------------------------------------------------------
(* The theorems.                                                           *)

\* The provisioned device satisfies the invariant.
LEMMA InitInv == Init => IInv
<1> SUFFICES ASSUME Init PROVE IInv
  OBVIOUS
<1> USE ConstantsAssumption, BootFlowContract DEF Init, Idle
<1>1. TypeOK
  <2>1. 0 \in Groups
    BY DEF Groups
  <2> QED BY <2>1 DEF TypeOK, PCs, NoGroup
<1>2. PowerInv /\ LockInv /\ TargetInv /\ UnsyncedInv
  BY DEF PowerInv, LockInv, TargetInv, UnsyncedInv, LivePCs, InstallPCs
<1>3. DefaultWhole /\ RunningWhole
  BY DEF DefaultWhole, RunningWhole, Whole, Groups
<1>4. SlotInv /\ RecordTruthful /\ OverlayInv /\ OverlayFresh /\ DeferredInv
  BY DEF SlotInv, RecordTruthful, OverlayInv, OverlayGone, OverlayFresh, DeferredInv, LivePCs, InstallPCs
<1> QED BY <1>1, <1>2, <1>3, <1>4 DEF IInv, SafetyInv

\* The invariant is inductive.
LEMMA StepInv == IInv /\ [Next]_vars => IInv'
BY TypeStep, PowerStep, LockStep, TargetStep, UnsyncedStep, DefaultWholeStep,
   RunningWholeStep, SlotStep, RecordStep, OverlayStep, OverlayFreshStep,
   DeferredStep DEF IInv, SafetyInv

\* The inductive invariant holds in every reachable state.
LEMMA Invariance == Spec => []IInv
BY InitInv, StepInv, PTL DEF Spec

\* Type correctness of the update life cycle, for every configuration.
THEOREM TypeCorrect == Spec => []TypeOK
<1>1. IInv => TypeOK
  BY DEF IInv
<1> QED BY <1>1, Invariance, PTL

\* The group the bootloader falls back to is never partly written, for any
\* number of groups, slots, processes, updates and power failures.
THEOREM DefaultAlwaysWhole == Spec => []DefaultWhole
<1>1. IInv => DefaultWhole
  BY DEF IInv, SafetyInv
<1> QED BY <1>1, Invariance, PTL

\* A recorded hash is the hash of the complete data the slot holds, unless a power
\* failure has lost data that was recorded and not yet synced.
THEOREM RecordsAlwaysTruthful == Spec => []RecordTruthful
<1>1. IInv => RecordTruthful
  BY DEF IInv, SafetyInv
<1> QED BY <1>1, Invariance, PTL

\* No system runs with an overlay that was made over another image, unless the removal
\* of that overlay failed or was undone by a power failure.
THEOREM OverlayAlwaysFresh == Spec => []OverlayFresh
<1>1. IInv => OverlayFresh
  BY DEF IInv, SafetyInv
<1> QED BY <1>1, Invariance, PTL

\* On an A/B system the deferred reboot goes to the group that was updated; the
\* hypothesis is necessary, as the run with three groups shows.
THEOREM DeferredOnTarget ==
    ASSUME NumGroups = 2
    PROVE  Spec => []DeferredTargetsUpdate
<1>1. IInv => DeferredTargetsUpdate
  <2> SUFFICES ASSUME IInv, stage = "deferred" PROVE SpareEntry = deferredFor
    BY DEF DeferredTargetsUpdate
  <2>1. deferredFor \in Groups \ {GetDefault(env)} /\ GetDefault(env) \in Groups
    BY BootFlowContract DEF IInv, SafetyInv, DeferredInv, TypeOK
  <2>2. SpareEntry \in Groups /\ SpareEntry # GetDefault(env)
    BY FirstOther DEF SpareEntry
  <2> QED BY <2>1, <2>2 DEF Groups
<1> QED BY <1>1, Invariance, PTL

\* After a first update, however it ends, every group the bootloader may try holds one
\* image in all its slots, but for data lost in a power failure, if no update leaves
\* slots out and nobody asks for the spare.
THEOREM FirstTrialComplete ==
    ASSUME ~SpareReboots, \A r \in Requests : r.slots = Slots
    PROVE  Spec => []TrialsComplete
<1>1. Init => TrialInv
  <2> SUFFICES ASSUME Init PROVE TrialInv
    OBVIOUS
  <2>1. \A g \in Groups : Complete(g)
    BY ConstantsAssumption DEF Init, Complete
  <2>2. 0 \in Groups /\ Tries(env) = {0} /\ GetDefault(env) = 0
    BY BootFlowContract, AttemptsContract DEF Init
  <2>3. \A p \in Procs : ~Updating(p)
    BY DEF Init, Idle, Updating, InstallPCs
  <2> QED BY <2>1, <2>2, <2>3 DEF Init, TrialInv, NoGroup
<1>2. IInv /\ TrialInv => TrialsComplete
  <2> SUFFICES ASSUME IInv, TrialInv, installs <= 1, NEW a \in Attempts(env)
               PROVE  Complete(a.group)
    BY DEF TrialsComplete, Complete
  <2> QED BY TriesType DEF TrialInv, IInv, TypeOK
<1> QED BY <1>1, <1>2, TrialStep, Invariance, PTL DEF Spec

\* No step writes to the running group or to the group the bootloader falls
\* back to, whatever runs at the same time as an install.
THEOREM LiveGroupsNeverWritten == Spec => LiveGroupsUntouched
<1>1. ASSUME IInv, Next, NEW g \in {running, GetDefault(env)} \cap Groups
      PROVE  content'[g] = content[g]
  <2> USE DEF IInv, SafetyInv, TypeOK, flash, overlays
  <2>1. CASE PowerCut
    BY <1>1, <2>1 DEF PowerCut, UnsyncedInv
  <2>2. CASE EarlyBoot
    BY <2>2 DEF EarlyBoot, BootUp, BootFail, InitClearMarker, InitNoMarker,
                InitDeferredReboot, InitDeferredSkip
  <2>3. ASSUME NEW p \in Procs, Install(p)
        PROVE  content'[g] = content[g]
    <3>1. CASE InstallWrite(p) \/ InstallDecode(p)
      BY <1>1, <3>1 DEF InstallWrite, InstallDecode, TargetInv, LivePCs, InstallPCs
    <3> QED BY <2>3, <3>1 DEF Install, InstallLock, InstallCheck, InstallPrepare, InstallErase,
              InstallSave, InstallPayloadsDone, InstallTry, InstallDefer, InstallNoReboot, Bail
  <2>4. ASSUME NEW p \in Procs, SystemCommand(p)
        PROVE  content'[g] = content[g]
    BY <2>4 DEF SystemCommand, CommitCheck, Commit, RebootSpare, RebootPlain, Reboot
  <2> QED BY <1>1, <2>1, <2>2, <2>3, <2>4 DEF Next
<1>2. IInv /\ [Next]_vars =>
        [\A g \in {running, GetDefault(env)} \cap Groups : content'[g] = content[g]]_vars
  BY <1>1
<1> QED BY <1>2, Invariance, PTL DEF Spec, LiveGroupsUntouched
=============================================================================
