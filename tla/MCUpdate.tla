------------------------------ MODULE MCUpdate ------------------------------
(* Model values for Update with the native Rugix boot flows.               *)
EXTENDS Update, RugixFlow

CONSTANTS boot, system, i1, i2, p1, p2

MCSlots == {boot, system}
MCImmutable == {system}
MCImages == {i1, i2}
MCProcs == {p1, p2}

FullUpdate(r) == [group |-> NoGroup, image |-> i2, full |-> TRUE,
                  slots |-> MCSlots, reboot |-> r]
MCRequests ==
    {FullUpdate(r) : r \in {"unset", "set", "deferred"}}
    \cup {[group |-> g, image |-> i1, full |-> FALSE, slots |-> {system},
           reboot |-> "unset"] : g \in {0, 1}}
=============================================================================
