------------------------------ MODULE RaucFlows ------------------------------
(* The RAUC-compatible boot flows as operators.  Both keep the order of    *)
(* the groups in a bootloader variable; every write is one call of         *)
(* fw_setenv, which sets several variables at once.                        *)
EXTENDS Integers, SequencesExt

\* The group is moved to the front of the order, which has every group once.
MutToFront(order, g) == <<g>>
ToFront(order, g) == <<g>> \o RemoveFirst(order, g)

-----------------------------------------------------------------------------
(* RaucUboot: the attempts each group has left, BOOT_x_LEFT.               *)

RaucEnvs(groups) == [order : SetToSeqs(groups), left : [groups -> 0 .. 3]]
RaucInit(order) == [order |-> order, left |-> [g \in ToSet(order) |-> 3]]

\* The first group in the order that has attempts left.
RaucFirst(e) ==
    LET i == SelectInSeq(e.order, LAMBDA g : e.left[g] > 0)
    IN  IF i = 0 THEN {} ELSE {e.order[i]}

RaucDefaults(e) == RaucFirst(e)

MutRaucSetTryNext(e, g, d) ==
    IF g = d THEN e
    ELSE [order |-> ToFront(e.order, g), left |-> [e.left EXCEPT ![g] = 3]]
RaucSetTryNext(e, g, d) ==
    IF g = d THEN e
    ELSE [order |-> ToFront(e.order, g), left |-> [e.left EXCEPT ![g] = 1]]

MutRaucCommitTo(e, g) == [e EXCEPT !.order = ToFront(@, g)]
RaucCommitTo(e, g) ==
    [order |-> ToFront(e.order, g), left |-> [e.left EXCEPT ![g] = 3]]

RaucMarkGood(e, g) == [e EXCEPT !.left[g] = 3]
RaucMarkBad(e, g) == [e EXCEPT !.left[g] = 0]

\* The bootloader uses up one attempt of the group it boots.
RaucAttempts(e) == {[group |-> g, env |-> [e EXCEPT !.left[g] = @ - 1]] : g \in RaucFirst(e)}

-----------------------------------------------------------------------------
(* RaucGrub: two variables for each group, x_OK and x_TRY.                 *)

RaucGrubInit(order) ==
    [order |-> order, ok |-> [g \in ToSet(order) |-> TRUE], try |-> [g \in ToSet(order) |-> FALSE]]
RaucGrubEnvs(groups) ==
    [order : SetToSeqs(groups), ok : [groups -> BOOLEAN], try : [groups -> BOOLEAN]]

RaucGrubFirst(e) ==
    LET i == SelectInSeq(e.order, LAMBDA g : e.ok[g] /\ ~e.try[g])
    IN  IF i = 0 THEN {} ELSE {e.order[i]}

\* The name in the order is not compared with the group: as soon as one group is
\* bootable the first group of a hash map is returned, whichever that is.
RaucGrubDefaults(e) == IF RaucGrubFirst(e) = {} THEN {} ELSE ToSet(e.order)

RaucGrubMarkGood(e, g) == [e EXCEPT !.ok[g] = TRUE, !.try[g] = FALSE]
RaucGrubMarkBad(e, g) == [e EXCEPT !.ok[g] = FALSE, !.try[g] = FALSE]
RaucGrubCommitTo(e, g) == [RaucGrubMarkGood(e, g) EXCEPT !.order = ToFront(@, g)]
RaucGrubSetTryNext(e, g, d) == IF g = d THEN e ELSE RaucGrubCommitTo(e, g)

\* The bootloader marks the group it boots as tried.
RaucGrubAttempts(e) ==
    {[group |-> g, env |-> [e EXCEPT !.try[g] = TRUE]] : g \in RaucGrubFirst(e)}
=============================================================================
