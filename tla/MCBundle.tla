------------------------------ MODULE MCBundle -------------------------------
(* Bundles, slots and block sizes for Bundle.                              *)
EXTENDS Bundle

MCSize == [a |-> 2, b |-> 1, c |-> 1, none |-> 1, torn |-> 1]

Part(e, t, blocks) == [encoding |-> e, target |-> t, blocks |-> blocks]
Slot(index, data) == [index |-> index, data |-> data]

MCBundles ==
    {<<Part("dedup", "slot", <<"a", "b", "a", "c">>)>>,
     <<Part("raw", "none", <<"a", "b">>), Part("blocks", "pipe", <<"b", "a", "b">>)>>,
     <<Part("raw", "execute", <<"a", "b">>), Part("dedup", "execute", <<"b", "b">>)>>,
     <<Part("raw", "slot", <<"a", "c">>)>>}

\* Slots without an index, with one that is true, out of date, and right again in the
\* next slot; that lists more than the slot has; and one that is torn.
MCSystems ==
    LET old == Flatten(<<"b", "a", "c">>)
        changed == [old EXCEPT ![2] = <<"x", 1>>]
    IN  {<<Slot(Missing, old)>>,
         <<Slot(<<"b", "a", "c">>, old)>>,
         <<Slot(<<"b", "a">>, changed), Slot(<<"a", "c">>, Flatten(<<"a", "c">>))>>,
         <<Slot(<<"c", "a">>, Flatten(<<"c">>))>>,
         <<Slot(Torn, old)>>}
=============================================================================
