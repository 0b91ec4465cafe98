----------------------------- MODULE SchedulerMC -----------------------------
(* The module of the TLC run of Scheduler; its constants are in the cfg. *)
EXTENDS Scheduler
=============================================================================
