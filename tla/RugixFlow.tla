----------------------------- MODULE RugixFlow ------------------------------
(***************************************************************************)
(* The native Rugix boot flows (rpi-tryboot, rpi-uboot, uboot, grub) as    *)
(* operators: a default group, one of the first two groups, and a one-shot *)
(* flag that makes the bootloader boot the other one once.                 *)
(***************************************************************************)
EXTENDS Integers

RugixEnvs == [default : {0, 1}, spare : BOOLEAN]
RugixInit == [default |-> 0, spare |-> FALSE]

\* The flag is set for a group that is not the default and cleared otherwise.
RugixSetTryNext(e, g) == [e EXCEPT !.spare = (g # e.default)]

RugixGetDefault(e) == e.default

\* Commit rewrites the default only; the flag keeps its value.
RugixCommitTo(e, g) == [e EXCEPT !.default = g]

\* The bootloader consumes the flag.  A flag that was lost or is corrupt makes
\* it boot the default.
RugixAttempts(e) ==
    [group : IF e.spare THEN {0, 1} ELSE {e.default},
     env : {[e EXCEPT !.spare = FALSE]}]
=============================================================================
