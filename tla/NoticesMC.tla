----------------------------- MODULE NoticesMC -------------------------------
(* The module of the TLC runs of Notices; its constants are in the cfgs. *)
EXTENDS Notices
=============================================================================
