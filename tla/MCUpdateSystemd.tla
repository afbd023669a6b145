-------------------------- MODULE MCUpdateSystemd ---------------------------
(* Update with three boot groups, which the systemd-boot flow supports.    *)
EXTENDS Update, SystemdBootFlow

CONSTANTS boot, system, i1, i2, p1, p2

MCSlots == {boot, system}
MCImmutable == {system}
MCImages == {i1, i2}
MCEnvs == SystemdEnvs(0 .. 2)

Named(g, i, r) == [group |-> g, image |-> i, full |-> TRUE, slots |-> MCSlots, reboot |-> r]
MCRequests ==
    {Named(g, i2, "deferred") : g \in 0 .. 2} \cup {Named(1, i, "yes") : i \in MCImages}
    \cup {Named(2, i2, "set"), Named(NoGroup, i2, "unset")}
    \cup {[Named(2, i2, "unset") EXCEPT !.full = FALSE]}
=============================================================================
