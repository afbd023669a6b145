-------------------------- MODULE SystemdBootFlow ---------------------------
(***************************************************************************)
(* The systemd-boot flow as operators: two EFI variables, the default entry*)
(* and the one-shot entry, each naming the entry of a boot group or unset. *)
(* Any number of groups can have an entry; entries[0] belongs to group 0.  *)
(***************************************************************************)
EXTENDS Integers

Unset == -1

SystemdEnvs(groups) == [default : groups \cup {Unset}, oneshot : groups \cup {Unset}]
SystemdInit == [default |-> Unset, oneshot |-> Unset]

\* `bootctl set-oneshot`, also when the group is the default already.
SystemdSetTryNext(e, g) == [e EXCEPT !.oneshot = g]

\* LoaderEntryDefault, or the first configured entry when it is not set.
SystemdGetDefault(e) == IF e.default = Unset THEN 0 ELSE e.default

\* `bootctl set-default` for the active group; the one-shot entry stays.
SystemdCommitTo(e, g) == [e EXCEPT !.default = g]

\* systemd-boot clears the one-shot entry before it boots it.
SystemdAttempts(e) ==
    {[group |-> IF e.oneshot = Unset THEN SystemdGetDefault(e) ELSE e.oneshot,
      env |-> [e EXCEPT !.oneshot = Unset]]}
=============================================================================
