----------------------------- MODULE MCRaucUboot -----------------------------
(* Trial boots of a device with the RAUC-compatible U-Boot flow.           *)
EXTENDS TrialBoot, RaucFlows

MCEnvs == RaucEnvs(Groups)
MCInit == RaucInit([i \in 1 .. NumGroups |-> i - 1])
=============================================================================
