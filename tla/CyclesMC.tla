------------------------------ MODULE CyclesMC -------------------------------
(* The module of the TLC run of Cycles; its constants are in the cfg. *)
EXTENDS Cycles
=============================================================================
