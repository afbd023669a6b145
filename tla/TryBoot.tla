------------------------------ MODULE TryBoot -------------------------------
(***************************************************************************)
(* What an A/B boot flow with a one-shot flag promises (trait BootFlow): a *)
(* default group, a flag that makes the bootloader try the other one once, *)
(* and a commit that makes the running group the default in one step.      *)
(***************************************************************************)
EXTENDS Integers

VARIABLES default, spare, running

NoGroup == -1
Groups == {0, 1}

Init == default = 0 /\ spare = FALSE /\ running = NoGroup

\* "Set the boot group to try on the next boot", or take that back.
SetTryNext(b) ==
    /\ running # NoGroup
    /\ spare' = b
    /\ UNCHANGED <<default, running>>

\* "Make the active boot group the default."
Commit ==
    /\ running # NoGroup
    /\ default' = running
    /\ UNCHANGED <<spare, running>>

Down ==
    /\ running # NoGroup
    /\ running' = NoGroup
    /\ UNCHANGED <<default, spare>>

\* "If booting fails, the bootloader should fallback to the previous default."
Boot ==
    /\ running = NoGroup
    /\ running' \in IF spare THEN {1 - default, NoGroup} ELSE {default}
    /\ spare' = FALSE
    /\ UNCHANGED default

Next == (\E b \in BOOLEAN : SetTryNext(b)) \/ Commit \/ Down \/ Boot

Spec == Init /\ [][Next]_<<default, spare, running>>
=============================================================================
