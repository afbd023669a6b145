--------------------------- MODULE ConfigPartition ---------------------------
(***************************************************************************)
(* The write guard of the config partition.  The partition is mounted      *)
(* read-only; the first guard of a process remounts it writable and the    *)
(* last one remounts it read-only.  The count of guards, with its mutex,   *)
(* belongs to a process; the mount belongs to the device, so a process may *)
(* remount it read-only under the guard of another.                        *)
(***************************************************************************)
EXTENDS Integers, FiniteSets

CONSTANTS
    Guards,  \* the guards that may exist at one time, on any thread
    Procs,   \* rugix-ctrl processes
    Owner,   \* the process of each guard
    Nobody

ASSUME GuardsAssumption ==
    IsFiniteSet(Guards) /\ Owner \in [Guards -> Procs] /\ Nobody \notin Guards

VARIABLES
    writable,     \* whether the partition is mounted writable
    writer_count, \* per process
    mutex,        \* per process: the guard whose code holds the mutex
    pc,
    left,         \* history: it was left writable by a process that died or failed
    shared        \* history: since it was last idle, two processes have used it at once

vars == <<writable, writer_count, mutex, pc, left, shared>>

\* "held": between acquire_write_guard and drop, the only time the guard is in use.
PCs == {"none", "mount", "count", "held", "unmount", "uncount"}

TypeOK ==
    /\ {writable, left, shared} \subseteq BOOLEAN
    /\ writer_count \in [Procs -> 0 .. Cardinality(Guards)]
    /\ mutex \in [Procs -> Guards \cup {Nobody}]
    /\ pc \in [Guards -> PCs]

Init ==
    /\ writable = FALSE /\ left = FALSE /\ shared = FALSE
    /\ writer_count = [p \in Procs |-> 0]
    /\ mutex = [p \in Procs |-> Nobody]
    /\ pc = [g \in Guards |-> "none"]

Lock(g) == mutex[Owner[g]] = Nobody /\ mutex' = [mutex EXCEPT ![Owner[g]] = g]
Unlock(g) == mutex' = [mutex EXCEPT ![Owner[g]] = Nobody]
Goto(g, l) == pc' = [pc EXCEPT ![g] = l]

-----------------------------------------------------------------------------
(* acquire_write_guard                                                     *)

Acquire(g) ==
    /\ pc[g] = "none"
    /\ Lock(g)
    /\ Goto(g, IF writer_count[Owner[g]] = 0 THEN "mount" ELSE "count")
    /\ UNCHANGED <<writable, writer_count, left>>

Mount(g) ==
    /\ pc[g] = "mount"
    /\ writable' = TRUE
    /\ Goto(g, "count")
    /\ UNCHANGED <<writer_count, mutex, left>>

\* The caller gets an error and no guard.
MutMountFails(g) ==
    /\ pc[g] = "mount"
    /\ writer_count' = [writer_count EXCEPT ![Owner[g]] = @ - 1]
    /\ Unlock(g)
    /\ Goto(g, "none")
    /\ UNCHANGED <<writable, left>>
MountFails(g) ==
    /\ pc[g] = "mount"
    /\ Unlock(g)
    /\ Goto(g, "none")
    /\ UNCHANGED <<writable, writer_count, left>>

Count(g) ==
    /\ pc[g] = "count"
    /\ writer_count' = [writer_count EXCEPT ![Owner[g]] = @ + 1]
    /\ Unlock(g)
    /\ Goto(g, "held")
    /\ UNCHANGED <<writable, left>>

-----------------------------------------------------------------------------
(* drop                                                                    *)

MutDrop(g) ==
    /\ pc[g] = "held"
    /\ Lock(g)
    /\ Goto(g, "unmount")
    /\ UNCHANGED <<writable, writer_count, left>>
MutDropLate(g) ==
    /\ pc[g] = "held"
    /\ Lock(g)
    /\ Goto(g, IF writer_count[Owner[g]] = 0 THEN "unmount" ELSE "uncount")
    /\ UNCHANGED <<writable, writer_count, left>>
Drop(g) ==
    /\ pc[g] = "held"
    /\ Lock(g)
    /\ Goto(g, IF writer_count[Owner[g]] = 1 THEN "unmount" ELSE "uncount")
    /\ UNCHANGED <<writable, writer_count, left>>

Unmount(g) ==
    /\ pc[g] = "unmount"
    /\ writable' = FALSE /\ left' = FALSE
    /\ Goto(g, "uncount")
    /\ UNCHANGED <<writer_count, mutex>>

\* A failure to remount read-only is ignored.
UnmountFails(g) ==
    /\ pc[g] = "unmount"
    /\ left' = TRUE
    /\ Goto(g, "uncount")
    /\ UNCHANGED <<writable, writer_count, mutex>>

Uncount(g) ==
    /\ pc[g] = "uncount"
    /\ writer_count' = [writer_count EXCEPT ![Owner[g]] = @ - 1]
    /\ Unlock(g)
    /\ Goto(g, "none")
    /\ UNCHANGED <<writable, left>>

-----------------------------------------------------------------------------

\* The process dies; the mount stays as it is.
Kill(p) ==
    /\ writer_count' = [writer_count EXCEPT ![p] = 0]
    /\ mutex' = [mutex EXCEPT ![p] = Nobody]
    /\ pc' = [g \in Guards |-> IF Owner[g] = p THEN "none" ELSE pc[g]]
    /\ left' = (left \/ writable)
    /\ UNCHANGED writable

GuardStep(g) ==
    \/ Acquire(g) \/ Mount(g) \/ MountFails(g) \/ Count(g)
    \/ Drop(g) \/ Unmount(g) \/ UnmountFails(g) \/ Uncount(g)

\* The guards that a process uses, or works on.
InUse == {g \in Guards : pc[g] # "none"}
Together == \E g, h \in InUse : Owner[g] # Owner[h]
Share == shared' = (Together' \/ (shared /\ InUse' # {}))

Next == ((\E g \in Guards : GuardStep(g)) \/ (\E p \in Procs : Kill(p))) /\ Share

Spec == Init /\ [][Next]_vars

-----------------------------------------------------------------------------

\* The partition is writable as long as somebody holds a guard ("Ensure that the
\* partition is writable while the closure runs."), unless another process has used it at
\* the same time.
WritableWhileHeld == shared \/ \A g \in Guards : pc[g] = "held" => writable

\* Once the last guard of all processes is gone the partition is read-only again, unless
\* the remount failed or a process died with the partition writable.
ReadOnlyWhenIdle == InUse = {} /\ ~left => ~writable
=============================================================================
