----------------------------- MODULE SteeringMC ------------------------------
(* The module of the TLC runs of Steering; its constants are in the cfgs. *)
EXTENDS Steering
=============================================================================
