------------------------------- MODULE FanInMC -------------------------------
(* The module of the TLC runs of FanIn; its constants are in the cfgs. *)
EXTENDS FanIn
=============================================================================
