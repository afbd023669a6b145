---------------------------- MODULE MCAppManager ----------------------------
(* One user and the recovery service; two generations.  A compose          *)
(* application is given one command more than the others, enough to kill a *)
(* deactivation, collect the generation and install it again.              *)
EXTENDS AppManager

Budget == [k \in {"docker", "binary", "generic"} |-> IF k = "docker" THEN 4 ELSE 3]
=============================================================================
