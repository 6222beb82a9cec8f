---------------------------- MODULE MCMaintenance ----------------------------
(* Instances of the maintenance loop for TLC: ticks of a few minutes. *)
EXTENDS Maintenance
==============================================================================
