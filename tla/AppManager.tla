----------------------------- MODULE AppManager -----------------------------
(***************************************************************************)
(* The generations of one application: rugix-ctrl commands install,        *)
(* activate, deactivate, start, stop, roll back, collect, remove and       *)
(* recover them, each under an advisory lock on a file in the directory of *)
(* the application.  A state file records what is active and, before the   *)
(* orchestrator is called, which transition is under way.  A command may   *)
(* be killed and the power may fail between any two steps; after a boot a  *)
(* service recovers an interrupted transition.                             *)
(***************************************************************************)
EXTENDS Integers, FiniteSets

CONSTANTS
    Users,    \* processes that run a user's commands
    Service,  \* the recovery service
    MaxGen,
    Kinds,    \* the orchestrators considered
    Keeps,    \* what a collection may be told to keep (`gc --keep`)
    MaxCommands, \* bound, per orchestrator: commands and failures together
    MaxKills, MaxCuts, MaxFailures \* bounds

None == 0
Gen == 1 .. MaxGen
Procs == Users \cup {Service}

ASSUME AppAssumption ==
    /\ Service \notin Users /\ IsFiniteSet(Users)
    /\ MaxGen \in Nat \ {0} /\ Keeps \subseteq Nat
    /\ \A k \in Kinds : MaxCommands[k] \in Nat
    /\ Kinds \subseteq {"docker", "binary", "generic"}

VARIABLES
    kind,      \* the orchestrator of the application
    state,     \* state.json
    dirs,      \* generation directories
    metas,     \* those with generation.json
    complete,  \* those with the marker
    activated, \* those whose metadata has a time of last activation
    whole,     \* those with all their files
    cached,    \* those whose files may not have reached the disk
    running,   \* generations with a workload that runs
    lockFile,  \* the file (inode) `.rugix/lock` names, or None
    fd,        \* per process: the lock file it opened
    pc, loc,   \* per process: what it does next, and its locals
    up,        \* the system is up
    due,       \* the recovery service has yet to run
    used,      \* commands, kills, power cuts and failures so far (bounds)
    forgotten, \* history: workloads that run and no record names
    spoiled,   \* history: generations that lost files
    overlap    \* history: two commands have held the lock at once

files == <<dirs, metas, complete, activated, whole, cached, spoiled>>
work == <<running, forgotten>>
lock == <<lockFile, fd, overlap>>
env == <<kind, up, due>>
vars == <<files, work, lock, env, state, pc, loc, used>>

-----------------------------------------------------------------------------

Inactive == [k |-> "Inactive", from |-> None, to |-> None]
Active(g) == [k |-> "Active", from |-> None, to |-> g]
Starting(g) == [k |-> "Starting", from |-> None, to |-> g]
Stopping(g) == [k |-> "Stopping", from |-> None, to |-> g]
Switching(f, t) == [k |-> "Switching", from |-> f, to |-> t]
Error(f, t) == [k |-> "Error", from |-> f, to |-> t]

\* current_generation
Current == IF state.k \in {"Active", "Starting", "Stopping"} THEN state.to ELSE None

NextNumber == CHOOSE n \in 1 .. MaxGen + 1 : (\A g \in dirs : g < n) /\ (n = 1 \/ n - 1 \in dirs)

NoLocals == [from |-> None, to |-> None, target |-> None, next |-> "exit", left |-> {}]

Steps == {"idle", "lock", "ready", "payloads", "meta", "marker", "switch", "deactivate",
          "inactive", "activate", "stamp", "active", "clean", "back", "retry", "error",
          "start", "stop", "settle", "collect", "delete", "remove"}

TypeOK ==
    /\ kind \in Kinds
    /\ state \in [k : {"Inactive", "Active", "Starting", "Stopping", "Switching", "Error"},
                  from : Gen \cup {None}, to : Gen \cup {None}]
    /\ state.k \in {"Active", "Starting", "Stopping", "Error"} => state.to \in Gen
    /\ dirs \subseteq Gen /\ cached \subseteq Gen
    /\ metas \cup complete \cup whole \cup spoiled \subseteq dirs /\ activated \subseteq metas
    /\ running \subseteq Gen /\ forgotten \subseteq running
    /\ lockFile \in 0 .. Cardinality(Procs) + 1
    /\ fd \in [Procs -> 0 .. Cardinality(Procs) + 1]
    /\ pc \in [Procs -> Steps]
    /\ loc \in [Procs -> [from : Gen \cup {None}, to : Gen \cup {None}, target : Gen \cup {None},
                          next : Steps \cup {"exit"}, left : SUBSET Gen]]
    /\ {up, due, overlap} \subseteq BOOLEAN
    /\ used \in [{"commands", "kills", "cuts", "failures"} -> Nat]

Init ==
    /\ kind \in Kinds /\ state = Inactive
    /\ dirs = {} /\ metas = {} /\ complete = {} /\ activated = {} /\ whole = {} /\ cached = {}
    /\ running = {} /\ forgotten = {} /\ spoiled = {}
    /\ lockFile = None /\ overlap = FALSE /\ fd = [p \in Procs |-> None]
    /\ pc = [p \in Procs |-> "idle"] /\ loc = [p \in Procs |-> NoLocals]
    /\ up = TRUE /\ due = FALSE
    /\ used = [b \in {"commands", "kills", "cuts", "failures"} |-> 0]

Goto(p, l) == pc' = [pc EXCEPT ![p] = l]
At(p, l) == up /\ pc[p] = l

\* The command ends, with or without an error: its lock is released.
Exit(p) ==
    /\ Goto(p, "idle")
    /\ loc' = [loc EXCEPT ![p] = NoLocals]
    /\ fd' = [fd EXCEPT ![p] = None]

Count(b) == used' = [used EXCEPT ![b] = @ + 1]
Within(b, max) == used[b] < max /\ Count(b)
InBudget == used["commands"] + used["failures"] < MaxCommands[kind]
Fails == InBudget /\ Within("failures", MaxFailures)

Runs(r, f) == running' = r /\ forgotten' = (forgotten \cup f) \cap r

-----------------------------------------------------------------------------
(* The orchestrators.  A compose project and a systemd unit are named for  *)
(* the application, so its generations share them: `compose up` replaces   *)
(* what runs, `systemctl start` leaves a unit alone that runs already, and *)
(* stopping stops whichever generation it is.  A generic orchestrator is a *)
(* script of the generation and manages that generation.                   *)

Started(g) ==
    CASE kind = "docker" -> {g}
      [] kind = "binary" -> IF running = {} THEN {g} ELSE running
      [] kind = "generic" -> running \cup {g}

Stopped(g) == IF kind = "generic" THEN running \ {g} ELSE {}

\* Without the manifest, which a generation that lost files may have lost, nothing is called.
Unreadable(g) == g \notin whole /\ UNCHANGED <<work, used>>

\* A failed start may have started some of the workload.
OrchestratorStart(g, ok) ==
    \/ ~ok /\ Unreadable(g)
    \/ ok /\ g \in dirs /\ Runs(Started(g), {}) /\ UNCHANGED used
    \/ ~ok /\ g \in dirs /\ Fails
       /\ \E r \in {running, IF kind = "binary" THEN running ELSE running \cup {g}} : Runs(r, {})

OrchestratorStop(g, ok) ==
    \/ ~ok /\ Unreadable(g)
    \/ ok /\ g \in dirs /\ Runs(Stopped(g), {}) /\ UNCHANGED used
    \/ ~ok /\ g \in dirs /\ Fails /\ \E r \in {running, Stopped(g)} : Runs(r, {})

\* run_deactivate.  `compose down` and stopping a unit are best effort, and a generation
\* without a directory counts as deactivated.  What a failure leaves running is forgotten,
\* but for the generations the record will name.
RunDeactivate(g, ok, but) ==
    \/ ok /\ g \notin dirs /\ Runs(running, running \ but) /\ UNCHANGED used
    \/ ok /\ g \in dirs /\ Runs(Stopped(g), {}) /\ UNCHANGED used
    \/ g \in dirs \ whole /\ Runs(running, running \ but) /\ UNCHANGED used
    \/ /\ g \in dirs /\ Fails
       /\ ok = (kind # "generic")
       /\ \E r \in {running, Stopped(g)} : Runs(r, r \ but)

-----------------------------------------------------------------------------
(* lock_app                                                                *)

Fresh == CHOOSE i \in 1 .. Cardinality(Procs) + 1 : i # lockFile /\ \A p \in Procs : fd[p] # i

\* Opens the lock file, and creates it if it is not there.
OpenLock(p) ==
    /\ At(p, "idle")
    /\ LET i == IF lockFile = None THEN Fresh ELSE lockFile
       IN  lockFile' = i /\ fd' = [fd EXCEPT ![p] = i]
    /\ Goto(p, "lock")
    /\ UNCHANGED <<overlap, files, work, kind, up, state, loc>>

UserCommand(p) ==
    /\ p \in Users /\ OpenLock(p)
    /\ InBudget /\ Count("commands")
    /\ UNCHANGED due
Recovery == due /\ due' = FALSE /\ OpenLock(Service) /\ UNCHANGED used

Holders == {p \in Procs : pc[p] \notin {"idle", "lock"}}

Lock(p) ==
    /\ At(p, "lock")
    /\ \A q \in Holders : fd[q] # fd[p] \* holders of a file that was removed do not count
    /\ overlap' = (overlap \/ Holders # {})
    /\ Goto(p, "ready")
    /\ UNCHANGED <<lockFile, fd, files, work, env, state, loc, used>>

Begin(p, l, locals) ==
    /\ At(p, "ready")
    /\ Goto(p, l)
    /\ loc' = [loc EXCEPT ![p] = locals]
    /\ UNCHANGED <<lock, env, used>>

\* The arguments or the state do not allow the command.
Refuse(p) ==
    /\ At(p, "ready") /\ p \in Users
    /\ Exit(p)
    /\ UNCHANGED <<lockFile, overlap, files, work, env, state, used>>

-----------------------------------------------------------------------------
(* install_app_bundle: create_generation, the payloads, the metadata, the  *)
(* marker, and activation.                                                 *)

MutInstall(p) ==
    /\ p \in Users /\ NextNumber \in Gen
    /\ Begin(p, "payloads", [NoLocals EXCEPT !.to = NextNumber])
    /\ dirs' = dirs \cup {NextNumber} /\ metas' = metas \cup {NextNumber}
    /\ UNCHANGED <<complete, activated, whole, cached, spoiled, work, state>>
Install(p) ==
    /\ p \in Users /\ NextNumber \in Gen
    /\ Begin(p, "payloads", [NoLocals EXCEPT !.to = NextNumber])
    /\ dirs' = dirs \cup {NextNumber}
    /\ UNCHANGED <<metas, complete, activated, whole, cached, spoiled, work, state>>

\* The files are not synced.
WritePayloads(p) ==
    /\ At(p, "payloads")
    /\ whole' = whole \cup ({loc[p].to} \cap dirs)
    /\ cached' = cached \cup {loc[p].to}
    /\ Goto(p, "meta")
    /\ UNCHANGED <<dirs, metas, complete, activated, spoiled, work, lock, env, state, loc, used>>

WriteMetadata(p) ==
    /\ At(p, "meta")
    /\ metas' = metas \cup {loc[p].to} /\ dirs' = dirs \cup {loc[p].to}
    /\ Goto(p, "marker")
    /\ UNCHANGED <<complete, activated, whole, cached, spoiled, work, lock, env, state, loc, used>>

\* What an interrupted transition left running is unknown to a command that starts from
\* the current generation, which is none in these states.
Unrecorded == IF state.k \in {"Switching", "Error"} THEN running ELSE {}

MarkComplete(p) ==
    /\ At(p, "marker")
    /\ complete' = complete \cup {loc[p].to} /\ dirs' = dirs \cup {loc[p].to}
    /\ Runs(running, Unrecorded)
    /\ loc' = [loc EXCEPT ![p].from = Current, ![p].next = "clean"]
    /\ Goto(p, "switch")
    /\ UNCHANGED <<metas, activated, whole, cached, spoiled, lock, env, state, used>>

-----------------------------------------------------------------------------
(* The commands that switch: activate_generation, deactivate, rollback.    *)

ActivateGeneration(p, g) ==
    /\ g \in complete
    /\ Begin(p, "switch", [NoLocals EXCEPT !.from = Current, !.to = g, !.next = "clean"])
    /\ Runs(running, Unrecorded)
    /\ UNCHANGED <<files, state>>

Activate(p) == p \in Users /\ \E g \in Gen : ActivateGeneration(p, g)

Rollback(p) ==
    /\ p \in Users /\ Current # None
    /\ \E g \in activated :
        /\ g < Current /\ \A h \in activated : h < Current => h <= g
        /\ ActivateGeneration(p, g)

Deactivate(p) ==
    /\ p \in Users /\ Current # None
    /\ Begin(p, "switch", [NoLocals EXCEPT !.from = Current])
    /\ UNCHANGED <<files, work, state>>

-----------------------------------------------------------------------------
(* do_switch                                                               *)

AfterDeactivation(p) == IF loc[p].to = None THEN "inactive" ELSE "activate"

MutWriteSwitching(p) ==
    /\ At(p, "switch")
    /\ loc' = [loc EXCEPT ![p].target = loc[p].to]
    /\ Goto(p, IF loc[p].from = None THEN AfterDeactivation(p) ELSE "deactivate")
    /\ UNCHANGED <<state, lock, files, work, env, used>>
WriteSwitching(p) ==
    /\ At(p, "switch")
    /\ state' = Switching(loc[p].from, loc[p].to)
    /\ loc' = [loc EXCEPT ![p].target = loc[p].to]
    /\ Goto(p, IF loc[p].from = None THEN AfterDeactivation(p) ELSE "deactivate")
    /\ UNCHANGED <<lock, files, work, env, used>>

\* A failure matters only if there is nothing to switch to: the record stays.
DeactivateOld(p) ==
    /\ At(p, "deactivate")
    /\ \E ok \in BOOLEAN :
        /\ RunDeactivate(loc[p].from, ok, {IF ~ok /\ loc[p].to = None THEN loc[p].from ELSE loc[p].to})
        /\ IF ~ok /\ loc[p].to = None
           THEN Exit(p) /\ UNCHANGED <<lockFile, overlap>>
           ELSE Goto(p, AfterDeactivation(p)) /\ UNCHANGED <<lock, loc>>
    /\ UNCHANGED <<files, env, state>>

WriteInactive(p) ==
    /\ At(p, "inactive")
    /\ state' = Inactive
    /\ IF loc[p].next = "remove"
       THEN Goto(p, "remove") /\ UNCHANGED <<lock, loc>>
       ELSE Exit(p) /\ UNCHANGED <<lockFile, overlap>>
    /\ UNCHANGED <<files, work, env, used>>

\* run_activate in three steps; it fails to where its caller goes on.
Fail(p) == IF loc[p].next = "exit"
           THEN Exit(p) /\ UNCHANGED <<lockFile, overlap>>
           ELSE Goto(p, loc[p].next) /\ UNCHANGED <<lock, loc>>

RunActivate(p) ==
    /\ At(p, "activate")
    /\ \E ok \in BOOLEAN :
        /\ OrchestratorStart(loc[p].target, ok)
        /\ IF ok THEN Goto(p, "stamp") /\ UNCHANGED <<lock, loc>> ELSE Fail(p)
    /\ UNCHANGED <<files, env, state>>

\* mark_activated reads the metadata, which the install writes after all payloads, and
\* writes it again; like the write of the state, that may fail.
MarkActivated(p) ==
    /\ At(p, "stamp")
    /\ \/ /\ loc[p].target \in metas
          /\ activated' = activated \cup {loc[p].target}
          /\ Goto(p, "active") /\ UNCHANGED <<lock, loc, used>>
       \/ /\ (loc[p].target \notin metas /\ UNCHANGED used) \/ Fails
          /\ Fail(p) /\ UNCHANGED activated
    /\ UNCHANGED <<dirs, metas, complete, whole, cached, spoiled, work, env, state>>

MutWriteActive(p) ==
    /\ At(p, "active")
    /\ state' = Active(loc[p].from)
    /\ Exit(p)
    /\ UNCHANGED <<lockFile, overlap, files, work, env, used>>
WriteActive(p) ==
    /\ At(p, "active")
    /\ \/ /\ state' = Active(loc[p].target)
          /\ Exit(p) /\ UNCHANGED <<lockFile, overlap, used>>
       \/ Fails /\ Fail(p) /\ UNCHANGED state
    /\ UNCHANGED <<files, work, env>>

\* Clean up after a failed activation and go back to the old generation if it is complete.
CleanUp(p) ==
    /\ At(p, "clean")
    /\ \E ok \in BOOLEAN :
        RunDeactivate(loc[p].to, ok, {loc[p].from, IF loc[p].from \in complete THEN None ELSE loc[p].to})
    /\ IF loc[p].from \in complete
       THEN /\ loc' = [loc EXCEPT ![p].target = loc[p].from, ![p].next = "error"]
            /\ Goto(p, "activate")
       ELSE UNCHANGED loc /\ Goto(p, "error")
    /\ UNCHANGED <<lock, files, env, state>>

MutWriteError(p) ==
    /\ At(p, "error")
    /\ Exit(p)
    /\ UNCHANGED <<state, lockFile, overlap, files, work, env, used>>
WriteError(p) ==
    /\ At(p, "error")
    /\ state' = Error(loc[p].from, loc[p].to)
    /\ Exit(p)
    /\ UNCHANGED <<lockFile, overlap, files, work, env, used>>

-----------------------------------------------------------------------------
(* recover_app                                                             *)

Recover(p) ==
    \/ /\ state.k = "Switching"
       /\ Begin(p, "switch", [NoLocals EXCEPT !.from = state.from, !.to = state.to,
                                  !.next = IF state.to = None THEN "exit" ELSE "clean"])
       /\ UNCHANGED <<files, work, state>>
    \/ /\ state.k \in {"Starting", "Stopping"}
       /\ Begin(p, IF state.k = "Starting" THEN "start" ELSE "stop", [NoLocals EXCEPT !.to = state.to])
       /\ UNCHANGED <<files, work, state>>
    \/ /\ state.k = "Error"
       /\ LET first == IF state.from = None THEN state.to ELSE state.from
          IN  /\ Begin(p, "activate", [NoLocals EXCEPT !.to = state.to, !.target = first,
                                           !.next = IF state.from = None THEN "exit" ELSE "retry"])
              /\ Runs(running, running \ {first})
       /\ UNCHANGED <<files, state>>
    \/ /\ state.k \in {"Inactive", "Active"} /\ At(p, "ready")
       /\ Exit(p)
       /\ UNCHANGED <<lockFile, overlap, files, work, env, state, used>>

\* If the old generation cannot be activated, the one that failed is tried again.
Retry(p) ==
    /\ At(p, "retry")
    /\ loc' = [loc EXCEPT ![p].target = loc[p].to, ![p].next = "exit"]
    /\ Goto(p, "activate")
    /\ Runs(running, running \ {loc[p].to})
    /\ UNCHANGED <<lock, files, env, state, used>>

-----------------------------------------------------------------------------
(* start_app, stop_app: active again whatever the orchestrator says.       *)

StartStop(p, l, transition) ==
    /\ p \in Users /\ state.k = "Active"
    /\ Begin(p, l, [NoLocals EXCEPT !.to = state.to])
    /\ state' = transition
    /\ UNCHANGED <<files, work>>
StartApp(p) == StartStop(p, "start", Starting(state.to))
StopApp(p) == StartStop(p, "stop", Stopping(state.to))

RunStart(p) ==
    /\ At(p, "start")
    /\ \E ok \in BOOLEAN : OrchestratorStart(loc[p].to, ok)
    /\ Goto(p, "settle")
    /\ UNCHANGED <<lock, loc, files, env, state>>

RunStop(p) ==
    /\ At(p, "stop")
    /\ \E ok \in BOOLEAN : OrchestratorStop(loc[p].to, ok)
    /\ Goto(p, "settle")
    /\ UNCHANGED <<lock, loc, files, env, state>>

Settle(p) ==
    /\ At(p, "settle")
    /\ state' = Active(loc[p].to)
    /\ Exit(p)
    /\ UNCHANGED <<lockFile, overlap, files, work, env, used>>

-----------------------------------------------------------------------------
(* gc: every generation that was never activated, and all but the newest   *)
(* `keep` of those that were.  The current one stays, but a transition has *)
(* no current one.                                                         *)

Garbage(keep) ==
    LET old == activated \ {Current}
    IN  (dirs \ activated) \cup {g \in old : Cardinality({h \in old : h > g}) >= keep}

Collect(p) ==
    /\ p \in Users
    /\ \E keep \in Keeps :
        /\ Garbage(keep) # {}
        /\ Begin(p, "collect", [NoLocals EXCEPT !.left = Garbage(keep)])
    /\ UNCHANGED <<files, work, state>>

\* remove_generation: the marker first, then the directory in any order.
RemoveMarker(p) ==
    /\ At(p, "collect")
    /\ \E g \in loc[p].left :
        /\ loc' = [loc EXCEPT ![p].target = g, ![p].left = @ \ {g}]
        /\ complete' = complete \ {g} /\ spoiled' = spoiled \cup {g}
    /\ Goto(p, "delete")
    /\ UNCHANGED <<dirs, metas, activated, whole, cached, work, lock, env, state, used>>

LoseFiles(g) ==
    /\ \/ whole' = whole \ {g} /\ UNCHANGED <<metas, activated>>
       \/ metas' = metas \ {g} /\ activated' = activated \ {g} /\ UNCHANGED whole
    /\ spoiled' = spoiled \cup {g}
    /\ UNCHANGED <<dirs, complete, cached>>

DeleteSome(p) ==
    /\ At(p, "delete")
    /\ LoseFiles(loc[p].target)
    /\ UNCHANGED <<pc, loc, work, lock, env, state, used>>

Deleted(gens) ==
    /\ dirs' = dirs \ gens /\ metas' = metas \ gens /\ activated' = activated \ gens
    /\ complete' = complete \ gens /\ whole' = whole \ gens /\ spoiled' = spoiled \ gens
    /\ cached' = cached \ gens

\* On to the next; a removal that fails is skipped.
Delete(p) ==
    /\ At(p, "delete")
    /\ \/ Deleted({loc[p].target}) /\ UNCHANGED used
       \/ Fails /\ UNCHANGED files
    /\ IF loc[p].left = {}
       THEN Exit(p) /\ UNCHANGED <<lockFile, overlap>>
       ELSE Goto(p, "collect") /\ UNCHANGED <<lock, loc>>
    /\ UNCHANGED <<work, env, state>>

-----------------------------------------------------------------------------
(* remove_app: deactivate what is current, then the directory, which holds *)
(* the generations, the state file and the lock file, in any order.        *)

Remove(p) ==
    /\ p \in Users
    /\ IF Current # None
       THEN Begin(p, "switch", [NoLocals EXCEPT !.from = Current, !.next = "remove"])
       ELSE Begin(p, "remove", NoLocals)
    /\ UNCHANGED <<files, work, state>>

RemoveSome(p) ==
    /\ At(p, "remove")
    /\ \/ \E g \in dirs : (LoseFiles(g) \/ Deleted({g})) /\ UNCHANGED <<state, work, lock>>
       \/ state' = Inactive /\ Runs(running, running) /\ UNCHANGED <<files, lock>>
       \/ /\ lockFile # None /\ lockFile' = None
          /\ UNCHANGED <<fd, overlap, files, work, state>>
    /\ UNCHANGED <<pc, loc, env, used>>

RemoveApp(p) ==
    /\ At(p, "remove")
    /\ Deleted(Gen)
    /\ state' = Inactive /\ Runs(running, running)
    /\ lockFile' = None
    /\ Exit(p)
    /\ UNCHANGED <<overlap, env, used>>

-----------------------------------------------------------------------------
(* Kills, power failures and boots.                                        *)

\* The process is killed, or one of its file operations fails and it returns the error.
Kill(p) ==
    /\ up /\ pc[p] # "idle"
    /\ Within("kills", MaxKills)
    /\ Exit(p)
    /\ UNCHANGED <<lockFile, overlap, files, work, env, state>>

\* What the kernel has not written of the files since the last boot is lost.  Units are
\* gone until they are restored; containers may be started again by Docker, and
\* what a script starts by the means it has set up.
PowerCut ==
    /\ up /\ up' = FALSE
    /\ Within("cuts", MaxCuts)
    /\ pc' = [p \in Procs |-> "idle"] /\ loc' = [p \in Procs |-> NoLocals]
    /\ fd' = [p \in Procs |-> None]
    /\ \E lost \in SUBSET (cached \cap whole) :
        whole' = whole \ lost /\ spoiled' = spoiled \cup lost
    /\ cached' = {} /\ due' = FALSE
    /\ \E r \in IF kind = "binary" THEN {{}} ELSE SUBSET running : Runs(r, {})
    /\ UNCHANGED <<dirs, metas, complete, activated, lockFile, overlap, kind, state>>

\* restore_units, then the recovery service is started.
Boot ==
    /\ ~up /\ up' = TRUE
    /\ due' = (lockFile # None \/ dirs # {} \/ state # Inactive) \* list_apps
    /\ IF kind = "binary" /\ Current \in dirs THEN running' = {Current} ELSE UNCHANGED running
    /\ UNCHANGED <<forgotten, kind, files, lock, state, pc, loc, used>>

-----------------------------------------------------------------------------

Command(p) ==
    \/ Install(p) \/ Activate(p) \/ Rollback(p) \/ Deactivate(p) \/ StartApp(p) \/ StopApp(p)
    \/ Collect(p) \/ Remove(p) \/ Recover(p) \/ Refuse(p)

Continue(p) ==
    \/ WritePayloads(p) \/ WriteMetadata(p) \/ MarkComplete(p)
    \/ WriteSwitching(p) \/ DeactivateOld(p) \/ WriteInactive(p)
    \/ RunActivate(p) \/ MarkActivated(p) \/ WriteActive(p) \/ CleanUp(p) \/ WriteError(p) \/ Retry(p)
    \/ RunStart(p) \/ RunStop(p) \/ Settle(p)
    \/ RemoveMarker(p) \/ DeleteSome(p) \/ Delete(p) \/ RemoveSome(p) \/ RemoveApp(p)

Next ==
    \/ \E p \in Users : UserCommand(p)
    \/ Recovery
    \/ \E p \in Procs : Lock(p) \/ Command(p) \/ Continue(p) \/ Kill(p)
    \/ PowerCut \/ Boot

Spec == Init /\ [][Next]_vars

\* The device boots, the service is started, and a command that has begun goes on.
FairSpec ==
    /\ Spec
    /\ WF_vars(Boot) /\ WF_vars(Recovery)
    /\ \A p \in Procs : WF_vars(Lock(p) \/ Command(p) \/ Continue(p))

-----------------------------------------------------------------------------

\* What runs is named by the state file or is one of three leftovers: of a deactivation
\* that failed, of an interrupted transition that a new command replaced, or of a failed
\* activation that a recovery tries again.  A crash adds no other ("ensuring crash recovery
\* can replay the operation if it is interrupted").
Named == {state.from, state.to} \ {None}
RecordNamesRunning == overlap \/ running \subseteq Named \cup forgotten

\* A compose application that is active runs nothing but its active generation, whatever
\* failed or was interrupted before.
DockerRunsActive == kind = "docker" /\ state.k = "Active" /\ ~overlap => running \subseteq {state.to}

\* The current generation has all its files, although a recovery does not look at the
\* marker and numbers are used again after a collection; generations that lost files to a
\* power failure or an unfinished removal are left out.
CurrentWhole == Current # None /\ ~overlap => Current \in whole \cup spoiled

\* If another generation is active, it is deactivated before the new one becomes active.
ActiveAlone == state.k = "Active" => running \subseteq {state.to}

\* After a power failure an interrupted transition is settled, if nothing is killed any
\* more, or it is a deactivation of a generation that has no manifest to be deactivated
\* with.  A script may refuse to deactivate for ever.
NoManifest == state.k = "Switching" /\ state.to = None /\ state.from \in dirs \ whole
Recovers ==
    (~up /\ kind # "generic" /\ used.kills = MaxKills)
        ~> (state.k \notin {"Switching", "Starting", "Stopping"} \/ NoManifest)
=============================================================================
