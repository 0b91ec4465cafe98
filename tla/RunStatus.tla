----------------------------- MODULE RunStatus -----------------------------
(***************************************************************************)
(* The status contract of an AgentRun row (brain/contracts/statuses.py and *)
(* brain/systems/runs/status.py): the statuses, their groups, and the      *)
(* table of transitions every status write is checked against.             *)
(***************************************************************************)

\* The canonical statuses (class RunStatus).
ACTIVE_RUN_STATUSES == {"starting", "running", "paused", "verifying"}
OPEN_RUN_STATUSES == {"queued"} \cup ACTIVE_RUN_STATUSES
TERMINAL_RUN_STATUSES == {"completed", "failed", "canceled", "expired"}
RUN_STATUS_VALUES == OPEN_RUN_STATUSES \cup TERMINAL_RUN_STATUSES

\* Statuses under which some runner slot is expected to be at work.
PROCESSING_RUN_STATUSES == {"starting", "running", "verifying"}

\* Successors of each status; a terminal status has none.
ALLOWED_RUN_TRANSITIONS ==
  [queued    |-> {"starting", "canceled", "expired", "failed"},
   starting  |-> {"queued", "running", "failed", "canceled", "expired"},
   running   |-> {"queued", "paused", "verifying", "completed", "failed",
                  "canceled", "expired"},
   paused    |-> {"running", "failed", "canceled", "expired"},
   verifying |-> {"queued", "running", "completed", "failed", "canceled", "expired"},
   completed |-> {}, failed |-> {}, canceled |-> {}, expired |-> {}]

(***************************************************************************)
(* ensure_run_transition accepts the pair and the statuses differ.  A run  *)
(* that is being processed goes back to the queue only as an interruption. *)
(***************************************************************************)
ensure_run_transition(current, target, allow_interrupted_requeue) ==
  /\ target # current
  /\ target \in ALLOWED_RUN_TRANSITIONS[current]
  /\ (current \in PROCESSING_RUN_STATUSES /\ target = "queued")
       => allow_interrupted_requeue
=============================================================================
