------------------------------- MODULE Update -------------------------------
(***************************************************************************)
(* The A/B update life cycle of rugix-ctrl on one device: `update install` *)
(* with its reboot types, `system commit`, `system reboot [--spare]`, the  *)
(* early-boot check of the deferred reboot marker, and the bootloader that *)
(* decides what runs next.  Several rugix-ctrl processes run at once and   *)
(* power can fail between any two steps.                                   *)
(*                                                                         *)
(* The boot flow is a parameter, as the trait BootFlow is in the code: a   *)
(* set BootEnvs of states of the bootloader environment and one operator   *)
(* per method.  BootFlowContract says what this module needs from a boot   *)
(* flow; the flow modules define the operators, and every run evaluates    *)
(* the contract on the flow it is given.                                   *)
(***************************************************************************)
EXTENDS Integers, FiniteSets

CONSTANTS
    NumGroups,      \* boot groups of the system configuration
    Slots,          \* slot aliases every boot group has
    SystemSlot,     \* the alias that holds the root filesystem
    Immutable,      \* the aliases configured `immutable`
    Images,         \* system images that bundles carry
    FirstImage,     \* the image the device was provisioned with
    NoImage,        \* no record, no overlay
    Torn,           \* a slot that is only partly written
    Lost,           \* a slot that lost written data to a power failure
    NoSlot,
    Procs,          \* rugix-ctrl processes
    NoProc,
    Requests,       \* the `update install` invocations in use
    SpareReboots,   \* whether `system reboot --spare` is in use
    PersistOverlay, \* whether the overlay is configured `persist`
    MaxInstalls,    \* bound: `update install` invocations
    MaxPowerCuts    \* bound: power failures

\* The boot flow: its states, and one operator per trait method.
CONSTANTS
    BootEnvs,
    InitEnv,
    SetTryNext(_, _),  \* set_try_next(group)
    GetDefault(_),     \* get_default(); also what a failed trial falls back to
    CommitTo(_, _),    \* commit() while the given group is active
    Attempts(_)        \* the boot attempts the bootloader may make next

\* BootGroupIdx: the position of the group in the configuration.
Groups == 0 .. (NumGroups - 1)
NoGroup == -1

\* A bundle and the arguments `update install` is called with: the named boot
\* group if any, what the bundle carries, and the `--reboot` value if any.
RebootTypes == {"unset", "yes", "no", "set", "deferred"}
Jobs == [group : Groups \cup {NoGroup}, image : Images, full : BOOLEAN,
         slots : SUBSET Slots, reboot : RebootTypes]

ASSUME ConstantsAssumption ==
    /\ NumGroups \in Nat /\ NumGroups >= 2
    /\ SystemSlot \in Slots /\ Immutable \subseteq Slots /\ NoSlot \notin Slots
    /\ FirstImage \in Images /\ NoImage \notin Images
    /\ {Torn, Lost} \cap (Images \cup {NoImage}) = {} /\ Torn # Lost
    /\ NoProc \notin Procs
    /\ Requests \subseteq Jobs
    /\ SpareReboots \in BOOLEAN /\ PersistOverlay \in BOOLEAN
    /\ MaxInstalls \in Nat /\ MaxPowerCuts \in Nat

\* What the update logic relies on: neither a trial nor a boot attempt changes
\* the group the bootloader falls back to, a commit makes the active group it.
ASSUME BootFlowContract ==
    /\ InitEnv \in BootEnvs /\ GetDefault(InitEnv) = 0
    /\ \A e \in BootEnvs :
        /\ GetDefault(e) \in Groups
        /\ \A g \in Groups :
            /\ SetTryNext(e, g) \in BootEnvs
            /\ GetDefault(SetTryNext(e, g)) = GetDefault(e)
            /\ CommitTo(e, g) \in BootEnvs
            /\ GetDefault(CommitTo(e, g)) = g
        /\ \A a \in Attempts(e) :
            /\ a.group \in Groups /\ a.env \in BootEnvs
            /\ GetDefault(a.env) = GetDefault(e)

\* The groups the bootloader may boot before the next command, fallback included.
Tries(e) == {GetDefault(e)} \cup {a.group : a \in Attempts(e)}

\* It comes to boot a group in no other way than by a trial or a commit of that group.
ASSUME AttemptsContract ==
    /\ Tries(InitEnv) = {0}
    /\ \A e \in BootEnvs :
        /\ \A g \in Groups :
            /\ Tries(SetTryNext(e, g)) \subseteq Tries(e) \cup {g}
            /\ Tries(CommitTo(e, g)) \subseteq Tries(e) \cup {g}
        /\ \A a \in Attempts(e) : Tries(a.env) \subseteq Tries(e)

VARIABLES
    env,       \* the bootloader environment
    running,   \* the group the device runs from, NoGroup while it is down
    stage,     \* "off", then rugix init ("init", "deferred"), then "up"
    content,   \* content[g][s]: the image slot s of group g holds, or Torn
    unsynced,  \* slots whose data may still be in the page cache only
    db,        \* payload database: the image whose hash is recorded
    overlay,   \* overlay[g]: the image the overlay on disk was made over
    removed,   \* groups whose overlay is removed, but not yet on the disk
    stale,     \* history: groups whose overlay outlived its last removal
    deferred,  \* marker deferred-reboot-spare: "no", "cached" or on "disk"
    lock,      \* the process holding /run/rugix/update-lock
    pc, job, target, todo, slot,  \* per process: its place and its locals
    installs, cuts,
    deferredFor \* history: the group whose update set the marker

flash == <<content, unsynced>>
overlays == <<overlay, removed, stale>>
locals == <<job, target, todo, slot>>
procVars == <<lock, pc, locals>>
counters == <<installs, cuts>>
vars == <<env, running, stage, flash, db, overlays, deferred, procVars,
          counters, deferredFor>>

InstallPCs == {"check", "prepare", "payload", "write", "decode", "save", "finish"}
PCs == {"idle", "commit", "reboot"} \cup InstallPCs
NoJob == [group |-> NoGroup, image |-> NoImage, full |-> FALSE,
          slots |-> {}, reboot |-> "no"]

TypeOK ==
    /\ env \in BootEnvs
    /\ running \in Groups \cup {NoGroup}
    /\ stage \in {"off", "init", "deferred", "up"}
    /\ content \in [Groups -> [Slots -> Images \cup {Torn, Lost}]]
    /\ unsynced \subseteq Groups \X Slots
    /\ db \in [Groups -> [Slots -> Images \cup {NoImage}]]
    /\ overlay \in [Groups -> Images \cup {NoImage}]
    /\ removed \subseteq Groups /\ stale \subseteq Groups
    /\ deferred \in {"no", "cached", "disk"}
    /\ lock \in Procs \cup {NoProc}
    /\ pc \in [Procs -> PCs]
    /\ job \in [Procs -> Jobs \cup {NoJob}]
    /\ target \in [Procs -> Groups \cup {NoGroup}]
    /\ todo \in [Procs -> SUBSET Slots]
    /\ slot \in [Procs -> Slots \cup {NoSlot}]
    /\ installs \in 0 .. MaxInstalls
    /\ cuts \in 0 .. MaxPowerCuts
    /\ deferredFor \in Groups \cup {NoGroup}

Idle ==
    /\ pc = [p \in Procs |-> "idle"]
    /\ job = [p \in Procs |-> NoJob]
    /\ target = [p \in Procs |-> NoGroup]
    /\ todo = [p \in Procs |-> {}]
    /\ slot = [p \in Procs |-> NoSlot]
    /\ lock = NoProc

\* A provisioned device that is switched on for the first time: every group
\* holds the factory image and nothing is recorded about the slots.
Init ==
    /\ env = InitEnv
    /\ running = NoGroup /\ stage = "off"
    /\ content = [g \in Groups |-> [s \in Slots |-> FirstImage]]
    /\ unsynced = {}
    /\ db = [g \in Groups |-> [s \in Slots |-> NoImage]]
    /\ overlay = [g \in Groups |-> NoImage] /\ removed = {} /\ stale = {}
    /\ deferred = "no"
    /\ Idle
    /\ installs = 0 /\ cuts = 0
    /\ deferredFor = NoGroup

-----------------------------------------------------------------------------
(* System: what `System` derives from the boot flow and the active group.  *)

MutNeedsCommit == FALSE
NeedsCommit == GetDefault(env) # running

\* First group that is not the default.
MutSpareEntry == CHOOSE g \in Groups : \A h \in Groups : g <= h
SpareEntry ==
    CHOOSE g \in Groups \ {GetDefault(env)} :
        \A h \in Groups \ {GetDefault(env)} : g <= h

-----------------------------------------------------------------------------
(* Power, bootloader and early boot.                                       *)

\* Whether the kernel and init of group g can come up at all.
Whole(g) == \A s \in Slots : content[g][s] \notin {Torn, Lost}

\* Every process is gone; the kernel drops the advisory lock with it.
KillAll ==
    /\ pc' = [p \in Procs |-> "idle"]
    /\ job' = [p \in Procs |-> NoJob]
    /\ target' = [p \in Procs |-> NoGroup]
    /\ todo' = [p \in Procs |-> {}]
    /\ slot' = [p \in Procs |-> NoSlot]
    /\ lock' = NoProc

\* The removals that reach the disk: those of the groups in `gone`.
Settled(gone) == [g \in Groups |-> IF g \in gone THEN NoImage ELSE overlay[g]]

\* An orderly reboot syncs the page cache before the machine goes down.
GoDown ==
    /\ running' = NoGroup /\ stage' = "off"
    /\ unsynced' = {}
    /\ overlay' = Settled(removed) /\ removed' = {}
    /\ deferred' = IF deferred = "cached" THEN "disk" ELSE deferred
    /\ KillAll

\* Power fails: data that was not synced may be lost, so may the marker, and an
\* overlay that was removed may be back.
PowerCut ==
    /\ stage # "off" /\ cuts < MaxPowerCuts
    /\ cuts' = cuts + 1
    /\ running' = NoGroup /\ stage' = "off"
    /\ \E lost \in SUBSET unsynced :
        content' = [g \in Groups |-> [s \in Slots |->
                       IF <<g, s>> \in lost THEN Lost ELSE content[g][s]]]
    /\ unsynced' = {}
    /\ \E back \in SUBSET removed :
        /\ overlay' = Settled(removed \ back)
        /\ stale' = stale \cup back
    /\ removed' = {}
    /\ deferred' \in IF deferred = "cached" THEN {"no", "disk"} ELSE {deferred}
    /\ KillAll
    /\ UNCHANGED <<env, db, installs, deferredFor>>

BootUp ==
    /\ stage = "off"
    /\ \E a \in Attempts(env) :
        /\ Whole(a.group)
        /\ env' = a.env
        /\ running' = a.group
    /\ stage' = "init"
    /\ UNCHANGED <<flash, db, overlays, deferred, procVars, counters, deferredFor>>

\* The attempt fails and the machine resets: the group is torn, or its image
\* does not work.  An image does work once it has been committed.
BootFail ==
    /\ stage = "off"
    /\ \E a \in Attempts(env) :
        /\ ~Whole(a.group) \/ a.group # GetDefault(env)
        /\ env' = a.env
    /\ UNCHANGED <<running, stage, flash, db, overlays, deferred, procVars,
                   counters, deferredFor>>

\* rugix init sets the overlay up: the stored one is kept if it is persistent,
\* whatever it was made over; otherwise all are discarded.
SetupRootOverlay ==
    /\ overlay' = IF ~PersistOverlay
                  THEN [g \in Groups |-> IF g = running THEN content[g][SystemSlot]
                                                        ELSE NoImage]
                  ELSE IF overlay[running] = NoImage
                       THEN [overlay EXCEPT ![running] = content[running][SystemSlot]]
                       ELSE overlay
    /\ stale' = IF PersistOverlay THEN stale ELSE {}
    /\ UNCHANGED removed

\* Init finishes and hands off to systemd.
HandOff ==
    /\ stage' = "up"
    /\ SetupRootOverlay

\* check_deferred_spare_reboot: remove the marker and sync before anything else.
MutInitClearMarker ==
    /\ stage = "init" /\ deferred # "no"
    /\ unsynced' = {}
    /\ stage' = "deferred"
    /\ UNCHANGED <<env, running, content, db, overlays, deferred, procVars, counters,
                   deferredFor>>
InitClearMarker ==
    /\ stage = "init" /\ deferred # "no"
    /\ deferred' = "no" /\ unsynced' = {}
    /\ stage' = "deferred"
    /\ UNCHANGED <<env, running, content, db, overlays, procVars, counters, deferredFor>>

InitNoMarker ==
    /\ stage = "init" /\ deferred = "no"
    /\ HandOff
    /\ UNCHANGED <<env, running, flash, db, deferred, procVars, counters, deferredFor>>

InitDeferredReboot ==
    /\ stage = "deferred" /\ ~NeedsCommit
    /\ env' = SetTryNext(env, SpareEntry)
    /\ GoDown
    /\ UNCHANGED <<content, db, stale, counters, deferredFor>>

\* A trial is running, or the boot flow failed, which init only warns about.
InitDeferredSkip ==
    /\ stage = "deferred"
    /\ HandOff
    /\ UNCHANGED <<env, running, flash, db, deferred, procVars, counters, deferredFor>>

-----------------------------------------------------------------------------
(* rugix-ctrl update install.                                              *)

\* The process ends, successfully or not; its file descriptors are closed.
Exit(p) ==
    /\ pc' = [pc EXCEPT ![p] = "idle"]
    /\ job' = [job EXCEPT ![p] = NoJob]
    /\ target' = [target EXCEPT ![p] = NoGroup]
    /\ todo' = [todo EXCEPT ![p] = {}]
    /\ slot' = [slot EXCEPT ![p] = NoSlot]
    /\ lock' = IF lock = p THEN NoProc ELSE lock

Goto(p, l) == pc' = [pc EXCEPT ![p] = l]

\* lock_update does not wait: while the lock is held the command just fails.
InstallLock(p) ==
    /\ stage = "up" /\ pc[p] = "idle" /\ lock = NoProc
    /\ installs < MaxInstalls
    /\ installs' = installs + 1
    /\ lock' = p
    /\ \E r \in Requests : job' = [job EXCEPT ![p] = r]
    /\ Goto(p, "check")
    /\ UNCHANGED <<env, running, stage, flash, db, overlays, deferred,
                   target, todo, slot, cuts, deferredFor>>

\* The group named on the command line; without one, the first inactive group
\* of an A/B system and no group at all when there are more than two.
ChosenGroup(p) ==
    IF job[p].group # NoGroup THEN job[p].group
    ELSE IF NumGroups > 2 THEN NoGroup
    ELSE CHOOSE g \in Groups \ {running} : \A h \in Groups \ {running} : g <= h

InstallCheck(p) ==
    /\ pc[p] = "check"
    /\ ~NeedsCommit
    /\ ChosenGroup(p) # running
    /\ target' = [target EXCEPT ![p] = ChosenGroup(p)]
    /\ Goto(p, "prepare")
    /\ UNCHANGED <<env, running, stage, flash, db, overlays, deferred,
                   lock, job, todo, slot, counters, deferredFor>>

\* The stored overlay of the target goes after the pre-update hooks have run.  A
\* removal that fails is ignored, and one that succeeds is not synced.
MutRemoveOverlay(p) == UNCHANGED overlays
RemoveOverlay(p) ==
    LET old == {target[p]} \cap {g \in Groups \ removed : overlay[g] # NoImage}
    IN  /\ \/ removed' = removed \cup old /\ stale' = stale \ old
           \/ removed' = removed /\ stale' = stale \cup old
        /\ UNCHANGED overlay

\* Then the bundle is opened and verified.  A full update needs a group.
InstallPrepare(p) ==
    /\ pc[p] = "prepare"
    /\ RemoveOverlay(p)
    /\ IF job[p].full /\ target[p] = NoGroup
       THEN Exit(p)
       ELSE /\ todo' = [todo EXCEPT ![p] = IF target[p] = NoGroup THEN {} ELSE job[p].slots]
            /\ Goto(p, "payload")
            /\ UNCHANGED <<lock, job, target, slot>>
    /\ UNCHANGED <<env, running, stage, flash, db, deferred, counters, deferredFor>>

\* The record of a slot is erased before the first byte of it changes.
MutInstallErase(p) ==
    /\ pc[p] = "payload"
    /\ \E s \in todo[p] : slot' = [slot EXCEPT ![p] = s]
    /\ Goto(p, "write")
    /\ UNCHANGED <<env, running, stage, flash, db, overlays, deferred,
                   lock, job, target, todo, counters, deferredFor>>
InstallErase(p) ==
    /\ pc[p] = "payload"
    /\ \E s \in todo[p] :
        /\ db' = [db EXCEPT ![target[p]][s] = NoImage]
        /\ slot' = [slot EXCEPT ![p] = s]
    /\ Goto(p, "write")
    /\ UNCHANGED <<env, running, stage, flash, overlays, deferred,
                   lock, job, target, todo, counters, deferredFor>>

InstallWrite(p) ==
    /\ pc[p] = "write"
    /\ content' = [content EXCEPT ![target[p]][slot[p]] = Torn]
    /\ unsynced' = unsynced \cup {<<target[p], slot[p]>>}
    /\ Goto(p, "decode")
    /\ UNCHANGED <<env, running, stage, db, overlays, deferred, lock, locals,
                   counters, deferredFor>>

\* All blocks are written and their hashes match.  Nothing syncs the target.
InstallDecode(p) ==
    /\ pc[p] = "decode"
    /\ content' = [content EXCEPT ![target[p]][slot[p]] = job[p].image]
    /\ Goto(p, "save")
    /\ UNCHANGED <<env, running, stage, unsynced, db, overlays, deferred, lock,
                   locals, counters, deferredFor>>

\* The hash is recorded for immutable slots; an error is logged and ignored.
InstallSave(p) ==
    /\ pc[p] = "save"
    /\ \/ /\ slot[p] \in Immutable
          /\ db' = [db EXCEPT ![target[p]][slot[p]] = job[p].image]
       \/ db' = db
    /\ todo' = [todo EXCEPT ![p] = @ \ {slot[p]}]
    /\ slot' = [slot EXCEPT ![p] = NoSlot]
    /\ Goto(p, "payload")
    /\ UNCHANGED <<env, running, stage, flash, overlays, deferred, lock, job,
                   target, counters, deferredFor>>

\* The last payload, post_install and the post-update hooks are done.
MutInstallPayloadsDone(p) ==
    /\ pc[p] = "payload"
    /\ Goto(p, "finish")
    /\ UNCHANGED <<env, running, stage, flash, db, overlays, deferred, lock,
                   locals, counters, deferredFor>>
InstallPayloadsDone(p) ==
    /\ pc[p] = "payload" /\ todo[p] = {}
    /\ Goto(p, "finish")
    /\ UNCHANGED <<env, running, stage, flash, db, overlays, deferred, lock,
                   locals, counters, deferredFor>>

\* A full update reboots unless told otherwise, an incremental one does not.
RebootType(p) ==
    IF job[p].reboot # "unset" THEN job[p].reboot
    ELSE IF job[p].full THEN "yes" ELSE "no"

\* `yes` and `set` tell the boot flow to try the group.
InstallTry(p) ==
    /\ pc[p] = "finish" /\ RebootType(p) \in {"yes", "set"}
    /\ target[p] # NoGroup
    /\ env' = SetTryNext(env, target[p])
    /\ IF RebootType(p) = "yes"
       THEN /\ Goto(p, "reboot")
            /\ UNCHANGED <<lock, locals>>
       ELSE Exit(p)
    /\ UNCHANGED <<running, stage, flash, db, overlays, deferred, counters, deferredFor>>

InstallDefer(p) ==
    /\ pc[p] = "finish" /\ RebootType(p) = "deferred"
    /\ deferred' = IF deferred = "disk" THEN "disk" ELSE "cached"
    /\ deferredFor' = target[p]
    /\ Exit(p)
    /\ UNCHANGED <<env, running, stage, flash, db, overlays, counters>>

InstallNoReboot(p) ==
    /\ pc[p] = "finish" /\ RebootType(p) = "no"
    /\ Exit(p)
    /\ UNCHANGED <<env, running, stage, flash, db, overlays, deferred, counters, deferredFor>>

\* The process bails out or panics: a refused check, a failing hook, a bundle
\* that does not verify, a payload that cannot be decoded.  Or it is killed.
Bail(p) ==
    /\ pc[p] # "idle"
    /\ Exit(p)
    /\ UNCHANGED <<env, running, stage, flash, db, overlays, deferred, counters, deferredFor>>

-----------------------------------------------------------------------------
(* rugix-ctrl system commit and system reboot: neither takes the lock.     *)

CommitCheck(p) ==
    /\ stage = "up" /\ pc[p] = "idle"
    /\ NeedsCommit
    /\ Goto(p, "commit")
    /\ UNCHANGED <<env, running, stage, flash, db, overlays, deferred, lock,
                   locals, counters, deferredFor>>

Commit(p) ==
    /\ pc[p] = "commit"
    /\ env' = CommitTo(env, running)
    /\ Exit(p)
    /\ UNCHANGED <<running, stage, flash, db, overlays, deferred, counters, deferredFor>>

RebootSpare(p) ==
    /\ SpareReboots
    /\ stage = "up" /\ pc[p] = "idle"
    /\ env' = SetTryNext(env, SpareEntry)
    /\ Goto(p, "reboot")
    /\ UNCHANGED <<running, stage, flash, db, overlays, deferred, lock, locals,
                   counters, deferredFor>>

RebootPlain(p) ==
    /\ stage = "up" /\ pc[p] = "idle"
    /\ Goto(p, "reboot")
    /\ UNCHANGED <<env, running, stage, flash, db, overlays, deferred, lock,
                   locals, counters, deferredFor>>

Reboot(p) ==
    /\ pc[p] = "reboot"
    /\ GoDown
    /\ UNCHANGED <<env, content, db, stale, counters, deferredFor>>

-----------------------------------------------------------------------------

Install(p) ==
    \/ InstallLock(p) \/ InstallCheck(p) \/ InstallPrepare(p)
    \/ InstallErase(p) \/ InstallWrite(p) \/ InstallDecode(p) \/ InstallSave(p)
    \/ InstallPayloadsDone(p)
    \/ InstallTry(p) \/ InstallDefer(p) \/ InstallNoReboot(p)
    \/ Bail(p)

SystemCommand(p) ==
    \/ CommitCheck(p) \/ Commit(p)
    \/ RebootSpare(p) \/ RebootPlain(p) \/ Reboot(p)

EarlyBoot ==
    \/ BootUp \/ BootFail
    \/ InitClearMarker \/ InitNoMarker \/ InitDeferredReboot \/ InitDeferredSkip

Next ==
    \/ PowerCut
    \/ EarlyBoot
    \/ \E p \in Procs : Install(p) \/ SystemCommand(p)

Spec == Init /\ [][Next]_vars

\* The machine boots by itself; users need not do anything.
FairSpec == Spec /\ WF_vars(EarlyBoot)

-----------------------------------------------------------------------------
(* What the update logic promises.                                         *)

\* The group the bootloader falls back to is never left partly written: not by
\* a killed install, not by a power failure before the page cache was synced.
\* Rests on the needs_commit check of `update install` and on the boot flow.
DefaultWhole == Whole(GetDefault(env))

\* No step changes a slot of the running group or of the group the bootloader
\* falls back to, whatever commits and reboots race with an install.
LiveGroupsUntouched ==
    [][\A g \in {running, GetDefault(env)} \cap Groups : content'[g] = content[g]]_vars

\* The payload database never records a hash for a slot that holds anything else,
\* a half-written slot included: `slots verify` and the choice of a delta source
\* rely on it.  Except for data that was recorded but lost in a power failure, as
\* nothing syncs a slot before its hash is saved.
RecordTruthful ==
    \A g \in Groups, s \in Slots :
        content[g][s] # Lost => db[g][s] \in {NoImage, content[g][s]}

\* A system never comes up with an overlay that was made over another image:
\* `update install` removes the overlay of the group before writing to it.  Except
\* where that removal failed, which is ignored, or was undone by a power failure.
OverlayFresh ==
    stage = "up" /\ running \notin stale =>
        running \notin removed /\ overlay[running] = content[running][SystemSlot]

\* When early boot acts on the deferred marker, the spare group it reboots to is
\* the group whose update set the marker ("On the next boot, it will remove the
\* marker and reboot into the new system").
DeferredTargetsUpdate ==
    stage = "deferred" /\ ~NeedsCommit => SpareEntry = deferredFor

\* Nothing that is installed, interrupted or tried keeps the device down: no
\* boot loop between init, the marker and failing trials.
ComesUp == (stage = "off") ~> (stage = "up")

\* Whenever the first update ends or is killed, or power fails, and whatever its
\* reboot type, the bootloader never tries a group that is half written or mixes two
\* images, except for data lost in the power failure.  Not claimed after a second
\* update over a pending trial, where `system reboot --spare` is in use, or for a
\* bundle that leaves slots out.
TrialsComplete ==
    stage = "off" /\ installs <= 1 =>
        \A a \in Attempts(env) : \E i \in Images : \A s \in Slots :
            content[a.group][s] \in {i, Lost}
=============================================================================
