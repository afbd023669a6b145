---------------------------- MODULE GrubBootFlow ----------------------------
(***************************************************************************)
(* The native Grub boot flow at the level of its files on the config       *)
(* partition: two copies of the environment that names the default group,  *)
(* each with a digest, and a third environment with the spare flag.        *)
(* `system commit` and set_try_next take no lock, so processes interleave  *)
(* at every file operation, and each may be killed between any two.        *)
(* Digests, renames and the flag are not synced when they are written: a   *)
(* power failure may leave each file as it was at any time since the       *)
(* partition was last synced.                                              *)
(***************************************************************************)
EXTENDS GrubFlows

CONSTANTS
    Partial,    \* what a file holds that is only partly written
    NoFile

ASSUME Distinct == Partial \notin {0, 1} /\ NoFile \notin {0, 1} /\ Partial # NoFile

VARIABLES
    file,     \* file[c]: the group that copy c of the environment names, or Partial
    digest,   \* digest[c]: the group whose environment c.sha1 is the digest of
    new,      \* new[c]: what c.new holds, NoFile if there is none
    flag,     \* boot_spare.grubenv: "true", "false" or "corrupt"
    fileLeft, digestLeft, flagLeft, \* what a power failure may leave of each of them
    running,  \* the active group, NoGroup while the device is down
    pc,
    copy,     \* the copy the process is writing
    handle,   \* what its open file has become: "new", "file" once it is renamed, and
              \* "gone" once another file takes that name
    want,     \* the flag it is about to write
    interruptions, \* commits that were killed or lost power
    lost,          \* what the power failure before this boot found not to be synced
    raced          \* history: a commit was started while another was running

files == <<file, digest, flag>>
left == <<fileLeft, digestLeft, flagLeft>>
history == <<interruptions, lost, raced>>
vars == <<files, left, new, running, pc, copy, handle, want, history>>

Copies == {"secondary", "primary"}
Flags == {"true", "false", "corrupt"}
CommitPCs == {"create", "write", "digest", "sum", "rename"}

TypeOK ==
    /\ file \in [Copies -> Groups \cup {Partial}]
    /\ digest \in [Copies -> Groups \cup {Partial}]
    /\ new \in [Copies -> Groups \cup {Partial, NoFile}]
    /\ flag \in Flags
    /\ fileLeft \in [Copies -> SUBSET (Groups \cup {Partial})]
    /\ digestLeft \in [Copies -> SUBSET (Groups \cup {Partial})]
    /\ flagLeft \subseteq Flags
    /\ running \in Groups \cup {NoGroup}
    /\ pc \in [Procs -> {"idle", "truncate", "flag"} \cup CommitPCs]
    /\ copy \in [Procs -> Copies]
    /\ handle \in [Procs -> {"none", "new", "file", "gone"}]
    /\ want \in [Procs -> {"true", "false"}]
    /\ interruptions \in 0 .. MaxInterruptions
    /\ lost \subseteq Copies \cup {"flag"}
    /\ raced \in BOOLEAN

\* grub_write_defaults
Init ==
    /\ file = [c \in Copies |-> 0] /\ digest = [c \in Copies |-> 0]
    /\ new = [c \in Copies |-> NoFile]
    /\ flag = "false"
    /\ fileLeft = [c \in Copies |-> {0}] /\ digestLeft = [c \in Copies |-> {0}]
    /\ flagLeft = {"false"}
    /\ running = NoGroup
    /\ pc = [p \in Procs |-> "idle"]
    /\ copy = [p \in Procs |-> "secondary"]
    /\ handle = [p \in Procs |-> "none"]
    /\ want = [p \in Procs |-> "false"]
    /\ interruptions = 0 /\ lost = {} /\ raced = FALSE

-----------------------------------------------------------------------------
(* The page cache.                                                         *)

\* The step may write; a power failure may leave that, or what was there before.
Cached ==
    /\ fileLeft' = [c \in Copies |-> fileLeft[c] \cup {file'[c]}]
    /\ digestLeft' = [c \in Copies |-> digestLeft[c] \cup {digest'[c]}]
    /\ flagLeft' = flagLeft \cup {flag'}

\* Everything is on the disk after the step.
Synced ==
    /\ fileLeft' = [c \in Copies |-> {file'[c]}]
    /\ digestLeft' = [c \in Copies |-> {digest'[c]}]
    /\ flagLeft' = {flag'}

\* The write guard is dropped: remounting read-only syncs, and a failure is ignored.
DropGuard == Synced \/ Cached

Unsynced ==
    {c \in Copies : fileLeft[c] # {file[c]} \/ digestLeft[c] # {digest[c]}}
        \cup (IF flagLeft # {flag} THEN {"flag"} ELSE {})

-----------------------------------------------------------------------------
(* get_default reads the primary copy and does not look at the digest.     *)

Readable == file["primary"] \in Groups
GetDefault == file["primary"]

\* The bootloader takes the first copy that matches its digest.
Verifies(c) == file[c] \in Groups /\ digest[c] = file[c]
BootDefault ==
    IF Verifies("primary") THEN file["primary"]
    ELSE IF Verifies("secondary") THEN file["secondary"]
    ELSE NoGroup

-----------------------------------------------------------------------------
(* system commit: write_with_hash for the secondary, then for the primary. *)

Idle(p) == running # NoGroup /\ pc[p] = "idle"
Goto(p, l) == pc' = [pc EXCEPT ![p] = l]

CommitStart(p) ==
    /\ Idle(p) /\ Readable /\ GetDefault # running
    /\ raced' = (raced \/ \E q \in Procs : pc[q] \in CommitPCs)
    /\ copy' = [copy EXCEPT ![p] = "secondary"]
    /\ Goto(p, "create")
    /\ UNCHANGED <<files, left, new, running, handle, want, interruptions, lost>>

\* File::create truncates a file that another commit has just created.
CreateNew(p) ==
    /\ pc[p] = "create"
    /\ new' = [new EXCEPT ![copy[p]] = Partial]
    /\ handle' = [handle EXCEPT ![p] = "new"]
    /\ Goto(p, "write")
    /\ UNCHANGED <<files, left, running, copy, want, history>>

\* write_all and sync_all go to the open file, wherever it has been renamed to.
WriteNew(p) ==
    /\ pc[p] = "write"
    /\ new' = IF handle[p] = "new" THEN [new EXCEPT ![copy[p]] = running] ELSE new
    /\ file' = IF handle[p] = "file" THEN [file EXCEPT ![copy[p]] = running] ELSE file
    /\ Goto(p, "digest")
    /\ UNCHANGED <<digest, flag, running, copy, handle, want, history>>
    /\ Cached

\* fs::write of the digest: the file is truncated, then written.
TruncateDigest(p) ==
    /\ pc[p] = "digest"
    /\ digest' = [digest EXCEPT ![copy[p]] = Partial]
    /\ Goto(p, "sum")
    /\ UNCHANGED <<file, new, flag, running, copy, handle, want, history>>
    /\ Cached

WriteDigest(p) ==
    /\ pc[p] = "sum"
    /\ digest' = [digest EXCEPT ![copy[p]] = running]
    /\ Goto(p, "rename")
    /\ UNCHANGED <<file, new, flag, running, copy, handle, want, history>>
    /\ Cached

\* Another process may still hold the file that is renamed, or the one it replaces.
Renamed(q, c) ==
    IF copy[q] # c THEN handle[q]
    ELSE CASE handle[q] = "new" -> "file" [] handle[q] = "file" -> "gone" [] OTHER -> handle[q]

MutRenameNew(p) ==
    /\ pc[p] = "rename" /\ new[copy[p]] # NoFile
    /\ UNCHANGED <<files, running, want, history>>
    /\ new' = [new EXCEPT ![copy[p]] = NoFile]
    /\ handle' = [handle EXCEPT ![p] = "none"]
    /\ IF copy[p] = "secondary"
       THEN copy' = [copy EXCEPT ![p] = "primary"] /\ Goto(p, "create") /\ Cached
       ELSE copy' = copy /\ Goto(p, "idle") /\ DropGuard
RenameNew(p) ==
    /\ pc[p] = "rename" /\ new[copy[p]] # NoFile
    /\ file' = [file EXCEPT ![copy[p]] = new[copy[p]]]
    /\ UNCHANGED <<digest, flag, running, want, history>>
    /\ new' = [new EXCEPT ![copy[p]] = NoFile]
    /\ handle' = [q \in Procs |-> IF q = p THEN "none" ELSE Renamed(q, copy[p])]
    /\ IF copy[p] = "secondary"
       THEN copy' = [copy EXCEPT ![p] = "primary"] /\ Goto(p, "create") /\ Cached
       ELSE copy' = copy /\ Goto(p, "idle") /\ DropGuard

\* The other process has renamed the file away: the command fails.
RenameFails(p) ==
    /\ pc[p] = "rename" /\ new[copy[p]] = NoFile
    /\ handle' = [handle EXCEPT ![p] = "none"]
    /\ Goto(p, "idle")
    /\ UNCHANGED <<files, new, running, copy, want, history>>
    /\ DropGuard

-----------------------------------------------------------------------------
(* set_try_next: set or clear the flag, written in place.                  *)

SetTryNext(p) ==
    /\ Idle(p) /\ Readable
    /\ \E g \in Groups :
        want' = [want EXCEPT ![p] = IF g # GetDefault THEN "true" ELSE "false"]
    /\ Goto(p, "truncate")
    /\ UNCHANGED <<files, left, new, running, copy, handle, history>>

TruncateFlag(p) ==
    /\ pc[p] = "truncate"
    /\ flag' = "corrupt"
    /\ Goto(p, "flag")
    /\ UNCHANGED <<file, digest, new, running, copy, handle, want, history>>
    /\ Cached

WriteFlag(p) ==
    /\ pc[p] = "flag"
    /\ flag' = want[p]
    /\ Goto(p, "idle")
    /\ UNCHANGED <<file, digest, new, running, copy, handle, want, history>>
    /\ DropGuard

-----------------------------------------------------------------------------
(* Kills, power and the bootloader.                                        *)

Interrupt(commit) ==
    /\ commit => interruptions < MaxInterruptions
    /\ interruptions' = IF commit THEN interruptions + 1 ELSE interruptions

Kill(p) ==
    /\ pc[p] # "idle"
    /\ Interrupt(pc[p] \in CommitPCs)
    /\ handle' = [handle EXCEPT ![p] = "none"]
    /\ Goto(p, "idle")
    /\ UNCHANGED <<files, left, new, running, copy, want, lost, raced>>

\* The kernel writes the page cache back on its own.
Writeback ==
    /\ Unsynced # {}
    /\ UNCHANGED <<files, new, running, pc, copy, handle, want, history>>
    /\ Synced

Down ==
    /\ running # NoGroup
    /\ running' = NoGroup
    /\ pc' = [p \in Procs |-> "idle"]
    /\ handle' = [p \in Procs |-> "none"]
    /\ UNCHANGED <<new, copy, want, raced>>

\* An orderly reboot syncs, wherever the commands it kills have come.
Reboot ==
    /\ Down
    /\ Interrupt(\E p \in Procs : pc[p] \in CommitPCs)
    /\ UNCHANGED <<files, lost>>
    /\ Synced

PowerFails ==
    /\ Down
    /\ Interrupt((\E p \in Procs : pc[p] \in CommitPCs) \/ Copies \cap Unsynced # {})
    /\ file' \in {f \in [Copies -> Groups \cup {Partial}] : \A c \in Copies : f[c] \in fileLeft[c]}
    /\ digest' \in {d \in [Copies -> Groups \cup {Partial}] : \A c \in Copies : d[c] \in digestLeft[c]}
    /\ flag' \in flagLeft
    /\ Synced
    /\ lost' = Unsynced

\* A flag that is set is used up; the group it selects may fail to boot.  "If
\* the file is corrupt, the system will simply boot from the default".
Boot ==
    /\ running = NoGroup /\ BootDefault # NoGroup
    /\ running' \in IF flag = "true" THEN {1 - BootDefault, NoGroup} ELSE {BootDefault}
    /\ flag' = IF flag = "true" THEN "false" ELSE flag
    /\ lost' = {}
    /\ UNCHANGED <<file, digest, new, pc, copy, handle, want, interruptions, raced>>
    /\ Synced

CommitStep(p) ==
    \/ CommitStart(p) \/ CreateNew(p) \/ WriteNew(p) \/ TruncateDigest(p)
    \/ WriteDigest(p) \/ RenameNew(p) \/ RenameFails(p)
FlagStep(p) == SetTryNext(p) \/ TruncateFlag(p) \/ WriteFlag(p)

Next ==
    \/ \E p \in Procs : CommitStep(p) \/ FlagStep(p) \/ Kill(p)
    \/ Writeback \/ Reboot \/ PowerFails \/ Boot

Spec == Init /\ [][Next]_vars

-----------------------------------------------------------------------------

\* Wherever a commit is killed or loses power, one copy of the environment
\* verifies and the device boots.  Claimed for one interruption and commits that
\* do not race: the commit after an interruption writes the secondary first, even
\* when it is the only copy that verifies, and so does a commit that races.  And
\* not if power fails while both copies have writes that are not synced: nothing
\* syncs the digest and the rename of the secondary before the primary changes.
DeviceBoots ==
    ~raced /\ interruptions <= 1 /\ ~(Copies \subseteq lost) /\ running = NoGroup =>
        BootDefault # NoGroup

\* The files implement the promise of the boot flow: at every moment the
\* bootloader would boot the old default or the new one, a commit changes that in
\* one step, and nothing else does.  Claimed for commits that find both copies
\* intact and that lose no write to a power failure; flags are set and cleared by
\* another process meanwhile.
Promise == INSTANCE TryBoot WITH default <- BootDefault, spare <- (flag = "true")
CommitIsAtomic ==
    /\ Promise!Init
    /\ [][~raced' /\ interruptions = 0 /\ lost' = {} =>
            Promise!Next \/ UNCHANGED <<BootDefault, flag = "true", running>>]_vars

\* Between commands get_default returns the group the bootloader boots ("Get the
\* default boot group"), even if commits race, as long as all run to their ends.
\* After an interruption the bootloader may take the secondary copy; get_default
\* goes on reading the primary.
DefaultAgrees ==
    interruptions = 0 /\ (\A p \in Procs : pc[p] \notin CommitPCs) =>
        GetDefault = BootDefault
=============================================================================
