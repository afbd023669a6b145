---------------------------- MODULE MCGrubFlows ------------------------------
(* A device with one of the two Grub boot flows, whichever is configured.  *)
EXTENDS GrubBootFlow, TLC

CONSTANTS p1, p2, only

VARIABLES
    flow, env, editing, sum, envLeft, editingLeft, sumLeft, mender_running, mender_pc,
    op, saw, queue, step, mender_interruptions, mender_lost, before, expected

mender == <<env, editing, sum, envLeft, editingLeft, sumLeft, mender_running, mender_pc,
            op, saw, queue, step, mender_interruptions, mender_lost, before, expected>>

Mender == INSTANCE MenderGrubFlow WITH
    Procs <- {only}, MaxInterruptions <- 2,
    running <- mender_running, pc <- mender_pc,
    interruptions <- mender_interruptions, lost <- mender_lost

MCInit == Init /\ Mender!Init /\ flow \in {"grub", "mender-grub"}

MCNext ==
    \/ flow = "grub" /\ Next /\ UNCHANGED <<flow, mender>>
    \/ flow = "mender-grub" /\ Mender!Next /\ UNCHANGED <<flow, vars>>

MCSpec == MCInit /\ [][MCNext]_<<flow, vars, mender>>

Symmetry == Permutations(Procs)

OneCopyUnlocked == Mender!OneCopyUnlocked
CommitMakesDefault == Mender!CommitMakesDefault
UpdateIsAtomic == Mender!UpdateIsAtomic
=============================================================================
