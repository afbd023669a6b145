--------------------------- MODULE MenderUbootFlow ---------------------------
(* The Mender-compatible U-Boot flow as operators: the group to boot       *)
(* (mender_boot_part), whether that is a trial (upgrade_available) and     *)
(* whether it has been booted (bootcount).  Writes are one fw_setenv call. *)
EXTENDS Integers

MenderEnvs == [part : {0, 1}, upgrade : BOOLEAN, count : {0, 1}]
MenderInit == [part |-> 0, upgrade |-> FALSE, count |-> 0]

\* During a trial the other group is returned, and outside one as well: the second
\* branch compares with the partition of B and returns A if that is the one.
MenderDefaults(e) == {1 - e.part}

MenderSetTryNext(e, g, d) == [part |-> g, upgrade |-> (g # d), count |-> 0]
MenderCommitTo(e, g) == [part |-> g, upgrade |-> FALSE, count |-> 0]

\* Left at what the trait does by default: nothing.
MenderMark(e, g) == e

\* A trial is booted once; the boot after it goes back to the other group.
MenderAttempts(e) ==
    LET n == IF ~e.upgrade THEN e
             ELSE IF e.count = 0 THEN [e EXCEPT !.count = 1]
             ELSE [part |-> 1 - e.part, upgrade |-> FALSE, count |-> 0]
    IN  {[group |-> n.part, env |-> n]}
=============================================================================
