------------------------------ MODULE GrubFlows ------------------------------
(* What the models of the two Grub boot flows share.                       *)
EXTENDS Integers

CONSTANTS
    Procs,
    MaxInterruptions  \* bound: operations that are killed or lose power

ASSUME Bound == MaxInterruptions \in Nat

NoGroup == -1
Groups == {0, 1}
=============================================================================
