--------------------------- MODULE MenderGrubFlow ---------------------------
(***************************************************************************)
(* The Mender-compatible Grub boot flow: two copies of the bootloader      *)
(* environment, each behind a lock file that says whether the copy is      *)
(* being edited and a sum by which the bootloader checks the lock file.    *)
(* Reading the environment repairs a copy that is locked, so even commands *)
(* that only look at the state write to it.  Renames and sums are not      *)
(* synced when they are written: a power failure may leave each file as it *)
(* was at any time since the partition was last synced.                    *)
(***************************************************************************)
EXTENDS GrubFlows, Sequences

VARIABLES
    env,      \* env[c]: copy c of the environment
    editing,  \* editing[c]: its lock file says that it is being edited
    sum,      \* sum[c]: its lock.sha256sum is whole, that of an unlocked lock file
    envLeft, editingLeft, sumLeft, \* what a power failure may leave of each of them
    running,
    pc, op,
    saw,      \* the default group the process has read
    queue,    \* copies it still has to write, with their new content
    step,     \* where it is in writing the first of them
    interruptions, \* commands that were killed or lost power, and writes that failed
    lost,          \* what the power failure before this boot found not to be synced
    before,        \* history: what get_default would have read before the last update
    expected       \* history: the group a commit made the default, if it still should be

copies == <<env, editing, sum>>
left == <<envLeft, editingLeft, sumLeft>>
history == <<interruptions, lost, before, expected>>
vars == <<copies, left, running, pc, op, saw, queue, step, history>>

Copies == {1, 2}

\* mender_boot_part, upgrade_available and bootcount.
Envs == [part : Groups, upgrade : BOOLEAN, count : 0 .. 1]
NoEnv == [part |-> NoGroup, upgrade |-> FALSE, count |-> 0]
Ops == [cmd : {"info", "commit"}, group : {NoGroup}] \cup [cmd : {"try"}, group : Groups]
Info == [cmd |-> "info", group |-> NoGroup]
Steps == {"lock", "env", "unlock", "truncate", "sum"}

TypeOK ==
    /\ env \in [Copies -> Envs] /\ editing \in [Copies -> BOOLEAN] /\ sum \in [Copies -> BOOLEAN]
    /\ envLeft \in [Copies -> SUBSET Envs]
    /\ editingLeft \in [Copies -> SUBSET BOOLEAN] /\ sumLeft \in [Copies -> SUBSET BOOLEAN]
    /\ running \in Groups \cup {NoGroup}
    /\ pc \in [Procs -> {"idle", "get", "decide", "load", "save", "finish"}]
    /\ op \in [Procs -> Ops]
    /\ \A p \in Procs : queue[p] \in Seq(Copies \X Envs) /\ Len(queue[p]) <= 2
    /\ step \in [Procs -> Steps]
    /\ saw \in [Procs -> Groups]
    /\ interruptions \in 0 .. MaxInterruptions
    /\ lost \subseteq Copies
    /\ before \in Envs
    /\ expected \in Groups \cup {NoGroup}

Factory == [part |-> 0, upgrade |-> FALSE, count |-> 0]

Init ==
    /\ env = [c \in Copies |-> Factory] /\ editing = [c \in Copies |-> FALSE]
    /\ sum = [c \in Copies |-> TRUE]
    /\ envLeft = [c \in Copies |-> {Factory}]
    /\ editingLeft = [c \in Copies |-> {FALSE}] /\ sumLeft = [c \in Copies |-> {TRUE}]
    /\ running = NoGroup
    /\ pc = [p \in Procs |-> "idle"] /\ op = [p \in Procs |-> Info]
    /\ saw = [p \in Procs |-> 0]
    /\ queue = [p \in Procs |-> <<>>] /\ step = [p \in Procs |-> "lock"]
    /\ interruptions = 0 /\ lost = {} /\ before = Factory
    /\ expected = NoGroup

-----------------------------------------------------------------------------
(* The page cache.                                                         *)

\* The step may write; a power failure may leave that, or what was there before.
Cached ==
    /\ envLeft' = [c \in Copies |-> envLeft[c] \cup {env'[c]}]
    /\ editingLeft' = [c \in Copies |-> editingLeft[c] \cup {editing'[c]}]
    /\ sumLeft' = [c \in Copies |-> sumLeft[c] \cup {sum'[c]}]

\* Everything is on the disk after the step.
Synced ==
    /\ envLeft' = [c \in Copies |-> {env'[c]}]
    /\ editingLeft' = [c \in Copies |-> {editing'[c]}]
    /\ sumLeft' = [c \in Copies |-> {sum'[c]}]

\* The write guard is dropped: remounting read-only syncs, and a failure is ignored.
DropGuard == Synced \/ Cached

InSync(c) == envLeft[c] = {env[c]} /\ editingLeft[c] = {editing[c]} /\ sumLeft[c] = {sum[c]}
Unsynced == {c \in Copies : ~InSync(c)}

-----------------------------------------------------------------------------
(* mender_load_grub_env, get_default and the bootloader.                   *)

\* The first copy that is not locked; the primary if both are.
BootEnv == IF ~editing[1] \/ editing[2] THEN env[1] ELSE env[2]

\* During a trial the other group is the default.
DefaultOf(e) == IF e.upgrade THEN 1 - e.part ELSE e.part

\* The bootloader also wants the sum of the lock file to match.
Good(c) == ~editing[c] /\ sum[c]
LoaderEnv == IF Good(1) THEN env[1] ELSE IF Good(2) THEN env[2] ELSE NoEnv

\* The copies that are locked are rewritten, in order.
Repairs ==
    (IF editing[1] THEN << <<1, BootEnv>> >> ELSE <<>>)
        \o (IF editing[2] THEN << <<2, BootEnv>> >> ELSE <<>>)

-----------------------------------------------------------------------------
(* mender_save_grub_env and the repair: lock, environment and unlock       *)
(* replace a file atomically, the sum is truncated and written.            *)

At(p, s) == queue[p] # <<>> /\ step[p] = s
Copy(p) == Head(queue[p])[1]
Goto(p, l) == pc' = [pc EXCEPT ![p] = l]
Proceed(p, s) == step' = [step EXCEPT ![p] = s]

Interrupt(writing) ==
    /\ writing => interruptions < MaxInterruptions
    /\ interruptions' = IF writing THEN interruptions + 1 ELSE interruptions

\* A failure to lock is ignored.
Lock(p) ==
    /\ At(p, "lock")
    /\ \/ editing' = [editing EXCEPT ![Copy(p)] = TRUE] /\ UNCHANGED interruptions
       \/ ~editing[Copy(p)] /\ UNCHANGED editing /\ Interrupt(TRUE)
    /\ Proceed(p, "env")
    /\ UNCHANGED <<env, sum, running, pc, op, saw, queue, lost, before, expected>>
    /\ Cached

WriteEnv(p) ==
    /\ At(p, "env")
    /\ env' = [env EXCEPT ![Copy(p)] = Head(queue[p])[2]]
    /\ Proceed(p, "unlock")
    /\ UNCHANGED <<editing, sum, running, pc, op, saw, queue, history>>
    /\ Cached

\* A repair goes on without the environment, an update fails and drops its guard.
EnvFails(p) ==
    /\ At(p, "env") /\ Interrupt(TRUE)
    /\ UNCHANGED <<copies, running, op, saw, lost, before, expected>>
    /\ IF pc[p] = "finish"
       THEN /\ queue' = [queue EXCEPT ![p] = <<>>]
            /\ Proceed(p, "lock") /\ Goto(p, "idle")
            /\ DropGuard
       ELSE Proceed(p, "unlock") /\ UNCHANGED <<left, queue, pc>>

MutUnlock(p) ==
    /\ At(p, "unlock")
    /\ UNCHANGED <<editing, interruptions>>
    /\ Proceed(p, "truncate")
    /\ UNCHANGED <<env, sum, running, pc, op, saw, queue, lost, before, expected>>
    /\ Cached
\* A failure to unlock is ignored.
Unlock(p) ==
    /\ At(p, "unlock")
    /\ \/ editing' = [editing EXCEPT ![Copy(p)] = FALSE] /\ UNCHANGED interruptions
       \/ editing[Copy(p)] /\ UNCHANGED editing /\ Interrupt(TRUE)
    /\ Proceed(p, "truncate")
    /\ UNCHANGED <<env, sum, running, pc, op, saw, queue, lost, before, expected>>
    /\ Cached

TruncateSum(p) ==
    /\ At(p, "truncate")
    /\ sum' = [sum EXCEPT ![Copy(p)] = FALSE]
    /\ Proceed(p, "sum")
    /\ UNCHANGED <<env, editing, running, pc, op, saw, queue, history>>
    /\ Cached

\* On to the next copy; the guard is dropped after the last one.
NextCopy(p) ==
    /\ Proceed(p, "lock")
    /\ queue' = [queue EXCEPT ![p] = Tail(@)]
    /\ IF Tail(queue[p]) = <<>> THEN DropGuard ELSE Cached

WriteSum(p) ==
    /\ At(p, "sum")
    /\ sum' = [sum EXCEPT ![Copy(p)] = TRUE]
    /\ UNCHANGED <<env, editing, running, pc, op, saw, history>>
    /\ NextCopy(p)

\* The file cannot be opened, or not be written once it is truncated: ignored.
SumFails(p) ==
    /\ At(p, "truncate") \/ At(p, "sum")
    /\ Interrupt(TRUE)
    /\ UNCHANGED <<copies, running, pc, op, saw, lost, before, expected>>
    /\ NextCopy(p)

-----------------------------------------------------------------------------
(* The commands.                                                           *)

Start(p) ==
    /\ running # NoGroup /\ pc[p] = "idle"
    /\ \E o \in Ops : op' = [op EXCEPT ![p] = o]
    /\ Goto(p, "get")
    /\ UNCHANGED <<copies, left, running, saw, queue, step, history>>

\* get_default reads both lock files and one environment, then repairs.
Get(p) ==
    /\ pc[p] = "get"
    /\ saw' = [saw EXCEPT ![p] = DefaultOf(BootEnv)]
    /\ queue' = [queue EXCEPT ![p] = Repairs]
    /\ Goto(p, "decide")
    /\ UNCHANGED <<copies, left, running, op, step, history>>

\* A commit is only needed in a group that is not the default.
Decide(p) ==
    /\ pc[p] = "decide" /\ queue[p] = <<>>
    /\ IF op[p].cmd = "info" \/ (op[p].cmd = "commit" /\ saw[p] = running)
       THEN Goto(p, "idle") ELSE Goto(p, "load")
    /\ UNCHANGED <<copies, left, running, op, saw, queue, step, history>>

\* "Load the boot environment once and repair it if necessary."
LoadAgain(p) ==
    /\ pc[p] = "load"
    /\ queue' = [queue EXCEPT ![p] = Repairs]
    /\ Goto(p, "save")
    /\ UNCHANGED <<copies, left, running, op, saw, step, history>>

\* What the command writes.
MutNewEnv(p) ==
    IF op[p].cmd = "commit" THEN [part |-> running, upgrade |-> env[1].upgrade, count |-> 0]
    ELSE [part |-> op[p].group, upgrade |-> (op[p].group # saw[p]), count |-> 0]
NewEnv(p) ==
    IF op[p].cmd = "commit" THEN [part |-> running, upgrade |-> FALSE, count |-> 0]
    ELSE [part |-> op[p].group, upgrade |-> (op[p].group # saw[p]), count |-> 0]

MutSave(p) ==
    /\ pc[p] = "save" /\ queue[p] = <<>>
    /\ queue' = [queue EXCEPT ![p] = << <<1, NewEnv(p)>> >>]
    /\ before' = BootEnv
    /\ expected' = IF op[p].cmd = "commit" THEN expected ELSE NoGroup
    /\ Goto(p, "finish")
    /\ UNCHANGED <<copies, left, running, op, saw, step, interruptions, lost>>
Save(p) ==
    /\ pc[p] = "save" /\ queue[p] = <<>>
    /\ queue' = [queue EXCEPT ![p] = << <<1, NewEnv(p)>>, <<2, NewEnv(p)>> >>]
    /\ before' = BootEnv
    /\ expected' = IF op[p].cmd = "commit" THEN expected ELSE NoGroup
    /\ Goto(p, "finish")
    /\ UNCHANGED <<copies, left, running, op, saw, step, interruptions, lost>>

\* Somebody is asking for another group at the moment.
Trying == \E p \in Procs : pc[p] # "idle" /\ op[p].cmd = "try"

Finish(p) ==
    /\ pc[p] = "finish" /\ queue[p] = <<>>
    /\ expected' = IF op[p].cmd # "commit" THEN expected
                   ELSE IF Trying \/ Unsynced # {} THEN NoGroup ELSE running
    /\ Goto(p, "idle")
    /\ UNCHANGED <<copies, left, running, op, saw, queue, step, interruptions, lost, before>>

-----------------------------------------------------------------------------
(* Kills, power and the bootloader.                                        *)

Kill(p) ==
    /\ pc[p] # "idle"
    /\ Interrupt(queue[p] # <<>>)
    /\ queue' = [queue EXCEPT ![p] = <<>>]
    /\ Proceed(p, "lock")
    /\ Goto(p, "idle")
    /\ UNCHANGED <<copies, left, running, op, saw, lost, before, expected>>

\* The kernel writes the page cache back on its own.
Writeback ==
    /\ Unsynced # {}
    /\ UNCHANGED <<copies, running, pc, op, saw, queue, step, history>>
    /\ Synced

Down ==
    /\ running # NoGroup
    /\ running' = NoGroup
    /\ queue' = [p \in Procs |-> <<>>] /\ step' = [p \in Procs |-> "lock"]
    /\ pc' = [p \in Procs |-> "idle"]
    /\ UNCHANGED <<op, saw, before, expected>>

\* An orderly reboot syncs, wherever the commands it kills have come.
Reboot ==
    /\ Down
    /\ Interrupt(\E p \in Procs : queue[p] # <<>>)
    /\ UNCHANGED <<copies, lost>>
    /\ Synced

PowerFails ==
    /\ Down
    /\ Interrupt((\E p \in Procs : queue[p] # <<>>) \/ Unsynced # {})
    /\ env' \in {f \in [Copies -> Envs] : \A c \in Copies : f[c] \in envLeft[c]}
    /\ editing' \in {f \in [Copies -> BOOLEAN] : \A c \in Copies : f[c] \in editingLeft[c]}
    /\ sum' \in {f \in [Copies -> BOOLEAN] : \A c \in Copies : f[c] \in sumLeft[c]}
    /\ Synced
    /\ lost' = Unsynced

\* The bootloader restores the copies it does not trust, except for their sums, and
\* saves both when it has counted.  A trial is counted, and undone by the boot after it
\* if nobody has committed.  A group on trial may fail to boot.
Boot ==
    /\ running = NoGroup /\ \E c \in Copies : Good(c)
    /\ LET e == LoaderEnv
           n == IF ~e.upgrade THEN e
                ELSE IF e.count = 0 THEN [e EXCEPT !.count = 1]
                ELSE [part |-> 1 - e.part, upgrade |-> FALSE, count |-> 0]
       IN  /\ env' = [c \in Copies |-> IF e.upgrade \/ ~Good(c) THEN n ELSE env[c]]
           /\ running' \in IF n.upgrade THEN {n.part, NoGroup} ELSE {n.part}
    /\ editing' = [c \in Copies |-> FALSE]
    /\ lost' = {}
    /\ UNCHANGED <<sum, pc, op, saw, queue, step, interruptions, before, expected>>
    /\ Synced

Command(p) == Start(p) \/ Get(p) \/ Decide(p) \/ LoadAgain(p) \/ Save(p) \/ Finish(p)
Write(p) == Lock(p) \/ WriteEnv(p) \/ Unlock(p) \/ TruncateSum(p) \/ WriteSum(p)

Next ==
    \/ \E p \in Procs : Command(p) \/ Write(p) \/ EnvFails(p) \/ SumFails(p) \/ Kill(p)
    \/ Writeback \/ Reboot \/ PowerFails \/ Boot

Spec == Init /\ [][Next]_vars

-----------------------------------------------------------------------------

\* At every step of a command the bootloader has a copy it trusts, and it still has one
\* when the device goes down after one interruption or one failed write.  Not claimed
\* while another command runs after that: readers do not look at the sums, so the sum
\* of copy 2 stays bad while copy 1 is locked.  And not if power fails while both copies
\* have writes that are not synced: nothing syncs copy 1 before copy 2 is locked.
OneCopyUnlocked ==
    (interruptions = 0 \/ (interruptions <= 1 /\ running = NoGroup /\ ~(Copies \subseteq lost))) =>
        \E c \in Copies : Good(c)

\* At every moment of a command get_default and the bootloader would find the
\* environment from before it or the one it writes, never an older one.  Claimed for
\* commands that find both copies equal; an interruption between the copies, or a write
\* that failed, leaves them apart.
UpdateIsAtomic ==
    [][interruptions = 0 /\ running # NoGroup /\ running' # NoGroup =>
        {BootEnv', LoaderEnv'}
            \subseteq {BootEnv, before} \cup {NewEnv(q) : q \in {r \in Procs : pc[r] = "finish"}}]_vars

\* Once `system commit` has succeeded and its writes have reached the disk, the active
\* group stays the default until somebody asks for another group ("Make the active boot
\* group the default."), for get_default and for the bootloader.
CommitMakesDefault ==
    expected # NoGroup =>
        /\ DefaultOf(BootEnv) = expected
        /\ (\E c \in Copies : Good(c)) => DefaultOf(LoaderEnv) = expected
=============================================================================
