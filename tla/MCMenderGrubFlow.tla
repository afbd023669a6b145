-------------------------- MODULE MCMenderGrubFlow --------------------------
(* Model values for MenderGrubFlow.                                        *)
EXTENDS MenderGrubFlow

CONSTANTS p1, p2
=============================================================================
