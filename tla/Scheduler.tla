------------------------------ MODULE Scheduler ------------------------------
(***************************************************************************)
(* The runs of one scheduled job: app/scheduler/planner.py, runtime.py,    *)
(* executor.py, detached_agent_runs.py and daemon.py.                      *)
(*                                                                         *)
(* A daemon tick, a drain or a resume of the API or of the CLI is ONE      *)
(* database transaction around everything it does, the commands of the     *)
(* steps included.  What it wrote is seen by others when it commits, and   *)
(* is gone when it fails; the commands it ran, and the agent runs they     *)
(* started, are not.  Nothing reads a run for update: a tick decides on    *)
(* what it read, waits for the first row lock (every claim, settlement and *)
(* record of a fire writes the job's row, which is the lock here) and then *)
(* writes.  No lease is ever committed unreleased, so an expired one is    *)
(* never found; of the lease only its row matters, which is unique per run.*)
(***************************************************************************)
EXTENDS Naturals, FiniteSets

CONSTANTS
  NumFires,      \* fires of the job, in the order of their times; all are due
  NumSteps,      \* steps of the job's plan
  MaxAttempts,   \* retry_policy.max_attempts
  Ticks,         \* transactions that may be open at a time
  Daemon,        \* the tick of the daemon
  NoResume,      \* ticks whose drains are started with --no-resume
  None,          \* no tick
  MaxFaults,     \* bound: ticks that fail
  MaxDispatches  \* bound: agent runs started for one fire

ASSUME SchedulerAssumption ==
  /\ NumFires \in Nat \ {0}
  /\ NumSteps \in Nat \ {0}
  /\ MaxAttempts \in Nat \ {0}
  /\ MaxFaults \in Nat
  /\ MaxDispatches \in Nat
  /\ Daemon \in Ticks
  /\ NoResume \subseteq Ticks
  /\ None \notin Ticks

Fires == 1..NumFires
Settled == {"settled_success", "settled_failure"}
Statuses == Settled \cup {"none", "recorded", "shelved", "retryable", "running",
                          "executing"}

VARIABLES
  detached, \* the last step hands its work to an agent run
  db,       \* fire -> its committed run and lease rows
  tick,     \* transaction -> where it is, what it read, what it wrote
  lock,     \* the tick that has written to the job's row
  agent,    \* fire -> agent runs started for it
  ran,      \* fire -> step -> how often its command was started
  faults,   \* ticks that failed
  lost,     \* history: fires of which a transaction that had written was
            \* rolled back, with the record of what it had run
  unread,   \* history: fires whose command started an agent run and failed
  stale     \* history: fires written on an outdated reading, or resumed while
            \* their agent run was in progress

vars == <<detached, db, tick, lock, agent, ran, faults, lost, unread, stale>>
history == <<faults, lost, unread, stale>>

NoRow == [status |-> "none", attempt |-> 1, agent |-> 0, done |-> {},
          lease |-> FALSE]

Idle == [pc |-> "idle", single |-> FALSE, cur |-> 0, at |-> 0, todo |-> {},
         wrote |-> {}, seen |-> [r \in Fires |-> NoRow],
         tx |-> [r \in Fires |-> NoRow]]

Init ==
  /\ detached \in BOOLEAN
  /\ db = [r \in Fires |-> NoRow]
  /\ tick = [p \in Ticks |-> Idle]
  /\ lock = None
  /\ agent = [r \in Fires |-> [k \in 1..MaxDispatches |-> "none"]]
  /\ ran = [r \in Fires |-> [s \in 1..NumSteps |-> 0]]
  /\ faults = 0
  /\ lost = {}
  /\ unread = {}
  /\ stale = {}

-----------------------------------------------------------------------------
(* Transactions *)

(* What a select of the tick returns: its own writes, or what is committed. *)
Row(p, r) == IF r \in tick[p].wrote THEN tick[p].tx[r] ELSE db[r]

(* The first write waits for the row lock of the job. *)
\* Mutant of Locked: the claim does not write the job's row.
NeverWaits(p) == TRUE

Locked(p) == lock \in {None, p}

Rollback(p) ==
  /\ tick' = [tick EXCEPT ![p] = Idle]
  /\ lock' = IF lock = p THEN None ELSE lock
  /\ lost' = lost \cup tick[p].wrote
  /\ UNCHANGED <<detached, db, agent, ran, unread, stale>>

(* A unique key is taken: the exception ends the whole tick. *)
UniqueViolation(p) == Rollback(p) /\ UNCHANGED faults

(* A crash, a lost connection, a deadlock or any other exception. *)
TickFails(p) ==
  /\ tick[p].pc # "idle"
  /\ faults < MaxFaults
  /\ faults' = faults + 1
  /\ Rollback(p)

Commit(p) ==
  /\ tick[p].pc \in {"claim", "done"}
  /\ db' = [r \in Fires |-> Row(p, r)]
  /\ tick' = [tick EXCEPT ![p] = Idle]
  /\ lock' = IF lock = p THEN None ELSE lock
  /\ UNCHANGED <<detached, agent, ran, history>>

-----------------------------------------------------------------------------
(* async_drain_scheduler: reconcile, record due fires, then run by run *)

AgentDone(r, k) == agent[r][k] \in {"ok", "failed"}

(* _async_load_detached_run_candidates *)
LoadDetached == {r \in Fires : db[r].status = "executing" /\ AgentDone(r, db[r].agent)}

(* Looking for agent runs that have ended is the first thing a drain does. *)
BeginTick(p) ==
  /\ tick[p].pc = "idle"
  /\ tick' = [tick EXCEPT
       ![p].pc = IF LoadDetached = {} THEN "plan" ELSE "settle",
       ![p].todo = LoadDetached,
       ![p].seen = [r \in Fires |-> IF r \in LoadDetached THEN db[r] ELSE NoRow]]
  /\ UNCHANGED <<detached, db, lock, agent, ran, history>>

(* async_run_scheduler_job does not reconcile, and runs one run at most.   *)
RunJob(p) ==
  /\ p # Daemon
  /\ tick[p].pc = "idle"
  /\ tick' = [tick EXCEPT ![p].pc = "plan", ![p].single = TRUE]
  /\ UNCHANGED <<detached, db, lock, agent, ran, history>>

(* _retryable_failure_summary *)
FailureStatus(attempt) ==
  IF attempt < MaxAttempts THEN "retryable" ELSE "settled_failure"

(* async_reconcile_detached_runs writes the status and the step; the other *)
(* columns stay as they are in the database.                               *)
Reconciled(p, r) ==
  IF agent[r][tick[p].seen[r].agent] = "ok"
    THEN [db[r] EXCEPT !.status = "settled_success", !.done = @ \cup {NumSteps}]
    ELSE [db[r] EXCEPT !.status = FailureStatus(tick[p].seen[r].attempt)]

SettleDetached(p) ==
  /\ tick[p].pc = "settle"
  /\ Locked(p)
  /\ lock' = p
  /\ tick' = [tick EXCEPT
       ![p].pc = "plan",
       ![p].todo = {},
       ![p].wrote = tick[p].todo,
       ![p].tx = [r \in Fires |-> IF r \in tick[p].todo THEN Reconciled(p, r) ELSE NoRow],
       ![p].seen = Idle.seen]
  /\ stale' = stale \cup {r \in tick[p].todo : db[r] # tick[p].seen[r]}
  /\ UNCHANGED <<detached, db, agent, ran, faults, lost, unread>>

(* async_materialize_due_runs: the next fire without a run. *)
NextFire(r) ==
  /\ db[r].status = "none"
  /\ \A q \in Fires : q < r => db[q].status # "none"

FindFire(p) ==
  /\ tick[p].pc = "plan"
  /\ \/ /\ \A r \in Fires : db[r].status # "none"
        /\ tick' = [tick EXCEPT ![p].pc = "claim"]
     \/ \E r \in Fires : /\ NextFire(r)
                         /\ tick' = [tick EXCEPT ![p].pc = "record", ![p].cur = r]
  /\ UNCHANGED <<detached, db, lock, agent, ran, history>>

(* A job that sheds load, or whose contract is invalid, shelves the run. *)
Record(p, status) ==
  /\ tick[p].pc = "record"
  /\ Locked(p)
  /\ db[tick[p].cur].status = "none"
  /\ lock' = p
  /\ tick' = [tick EXCEPT
       ![p].pc = "claim",
       ![p].cur = 0,
       ![p].wrote = @ \cup {tick[p].cur},
       ![p].tx[tick[p].cur] = [NoRow EXCEPT !.status = status]]
  /\ UNCHANGED <<detached, db, agent, ran, history>>

RecordTaken(p) ==
  /\ tick[p].pc = "record"
  /\ Locked(p)
  /\ db[tick[p].cur].status # "none"
  /\ UniqueViolation(p)

\* Mutant of Candidate: retryable runs are not looked for.
CandidateNew(p, r) == Row(p, r).status = "recorded"

(* async_claim_next_due_run: the earliest candidate; a retryable run whose *)
(* backoff is not over, or whose attempts are used up, is passed over.     *)
Candidate(p, r) ==
  \/ Row(p, r).status = "recorded"
  \/ Row(p, r).status = "retryable" /\ Row(p, r).attempt < MaxAttempts

Pick(p, r) ==
  /\ tick[p].pc = "claim"
  /\ Candidate(p, r)
  /\ \A q \in Fires : q < r => Row(p, q).status # "recorded"
  /\ tick' = [tick EXCEPT ![p].pc = "lock", ![p].cur = r, ![p].seen[r] = Row(p, r)]
  /\ UNCHANGED <<detached, db, lock, agent, ran, history>>

\* Mutant of Resume: a failed run may be resumed.
ResumeFailed(p, r) ==
  /\ p # Daemon
  /\ tick[p].pc = "idle"
  /\ db[r].status \in {"recorded", "shelved", "retryable", "executing",
                       "settled_failure"}
  /\ tick' = [tick EXCEPT ![p].pc = "lock", ![p].single = TRUE, ![p].cur = r,
                          ![p].seen[r] = db[r]]
  /\ UNCHANGED <<detached, db, lock, agent, ran, history>>

(* async_resume_scheduler_run: an operator names the run. *)
Resume(p, r) ==
  /\ p # Daemon
  /\ tick[p].pc = "idle"
  /\ db[r].status \in {"recorded", "shelved", "retryable", "executing"}
  /\ tick' = [tick EXCEPT ![p].pc = "lock", ![p].single = TRUE, ![p].cur = r,
                          ![p].seen[r] = db[r]]
  /\ UNCHANGED <<detached, db, lock, agent, ran, history>>

(* async_claim_run: the lease row is inserted, or written over when it was *)
(* found; the attempt is the one that was read, and one more.              *)
LeaseTaken(p) == ~tick[p].seen[tick[p].cur].lease /\ Row(p, tick[p].cur).lease

\* Mutant of AttemptSeen: a retry is not counted.
AttemptUncounted(seen) == seen.attempt

AttemptSeen(seen) ==
  IF seen.status = "retryable" THEN seen.attempt + 1 ELSE seen.attempt

\* Mutant of ClaimedRow: every column is written as it was read.
ClaimedAsSeen(row, seen) ==
  [seen EXCEPT !.status = "running", !.lease = TRUE, !.attempt = AttemptSeen(seen)]

ClaimedRow(row, seen) ==
  [row EXCEPT !.status = "running", !.lease = TRUE,
              !.attempt = IF seen.status = "retryable" THEN AttemptSeen(seen) ELSE @]

Claim(p) ==
  LET r == tick[p].cur
      seen == tick[p].seen[r]
  IN /\ tick[p].pc = "lock"
     /\ Locked(p)
     /\ ~LeaseTaken(p)
     /\ lock' = p
     /\ tick' = [tick EXCEPT ![p] = [tick[p] EXCEPT
          !.pc = "step",
          !.at = 1,
          !.wrote = tick[p].wrote \cup {r},
          !.tx[r] = ClaimedRow(Row(p, r), seen),
          !.seen[r].attempt = AttemptSeen(seen)]]
     /\ stale' = IF Row(p, r) # seen \/ seen.status = "executing"
                   THEN stale \cup {r} ELSE stale
     /\ UNCHANGED <<detached, db, agent, ran, faults, lost, unread>>

ClaimTaken(p) ==
  /\ tick[p].pc = "lock"
  /\ Locked(p)
  /\ LeaseTaken(p)
  /\ UniqueViolation(p)

-----------------------------------------------------------------------------
(* async_run_scheduler_run *)

Handoff(s) == detached /\ s = NumSteps

(* The run of the tick leaves the loop over its steps. *)
LeaveRun(p, row) ==
  tick' = [tick EXCEPT ![p].pc = IF tick[p].single THEN "done" ELSE "claim",
                       ![p].tx[tick[p].cur] = row,
                       ![p].cur = 0,
                       ![p].at = 0,
                       ![p].seen = Idle.seen]

(* The flag resume: a drain is told, the commands for one run always do. *)
Resumes(p) == tick[p].single \/ p \notin NoResume

(* The early return of _async_run_step. *)
Skipped(p, s) == Resumes(p) /\ s \in tick[p].tx[tick[p].cur].done

(* The loop takes the steps in their order and passes over those.          *)
NextStep(p, s) ==
  /\ s >= tick[p].at
  /\ ~Skipped(p, s)
  /\ \A q \in tick[p].at..(s - 1) : Skipped(p, q)

(* _async_run_step: the command of step s is run, whether or not it has    *)
(* succeeded before.                                                       *)
RunCommand(p, s) ==
  /\ tick[p].pc = "step"
  /\ NextStep(p, s)
  /\ ran' = [ran EXCEPT ![tick[p].cur][s] = @ + 1]

(* The row of the run once step s has not succeeded, or not yet. *)
Unfinished(p, s, status) ==
  [tick[p].tx[tick[p].cur] EXCEPT !.status = status, !.done = @ \ {s}]

StepSucceeds(p, s) ==
  /\ RunCommand(p, s)
  /\ ~Handoff(s)
  /\ tick' = [tick EXCEPT ![p].at = s + 1,
                          ![p].tx[tick[p].cur].done = @ \cup {s}]
  /\ UNCHANGED <<detached, db, lock, agent, history>>

StepFails(p, s) ==
  LET attempt == tick[p].seen[tick[p].cur].attempt
  IN /\ RunCommand(p, s)
     /\ LeaveRun(p, Unfinished(p, s, FailureStatus(attempt)))
     /\ UNCHANGED <<detached, db, lock, agent, history>>

(* A step that is not configured settles the run. *)
\* Mutant of StepNotConfigured: a status that is not one of a run.
StepSkipped(p, s) ==
  /\ RunCommand(p, s)
  /\ LeaveRun(p, Unfinished(p, s, "skipped"))
  /\ UNCHANGED <<detached, db, lock, agent, history>>

StepNotConfigured(p, s) ==
  /\ RunCommand(p, s)
  /\ LeaveRun(p, Unfinished(p, s, "settled_failure"))
  /\ UNCHANGED <<detached, db, lock, agent, history>>

(* The command of the last step has started agent run k. *)
StartAgent(p, s, k) ==
  LET r == tick[p].cur
  IN /\ RunCommand(p, s)
     /\ Handoff(s)
     /\ agent[r][k] = "none"
     /\ \A j \in 1..(k - 1) : agent[r][j] # "none"
     /\ agent' = [agent EXCEPT ![r][k] = "live"]

\* Mutant of Dispatch: the handoff is taken for the success of the step.
DispatchSucceeds(p, s, k) ==
  /\ StartAgent(p, s, k)
  /\ LeaveRun(p, Unfinished(p, s, "settled_success"))
  /\ UNCHANGED <<detached, db, lock, history>>

(* async_mark_detached_run_dispatched *)
Dispatch(p, s, k) ==
  /\ StartAgent(p, s, k)
  /\ LeaveRun(p, [Unfinished(p, s, "executing") EXCEPT !.agent = k])
  /\ UNCHANGED <<detached, db, lock, history>>

(* The command has started agent run k and fails: its answer is not a      *)
(* handoff, or it is cut off.                                              *)
DispatchUnread(p, s, k) ==
  LET r == tick[p].cur
  IN /\ StartAgent(p, s, k)
     /\ unread' = unread \cup {r}
     /\ LeaveRun(p, Unfinished(p, s, FailureStatus(tick[p].seen[r].attempt)))
     /\ UNCHANGED <<detached, db, lock, faults, lost, stale>>

RunSucceeds(p) ==
  /\ tick[p].pc = "step"
  /\ \A s \in tick[p].at..NumSteps : Skipped(p, s)
  /\ LeaveRun(p, [tick[p].tx[tick[p].cur] EXCEPT !.status = "settled_success"])
  /\ UNCHANGED <<detached, db, lock, agent, ran, history>>

(* The agent run goes its own way. *)
AgentSettles(r, k) ==
  /\ agent[r][k] = "live"
  /\ \E outcome \in {"ok", "failed"} : agent' = [agent EXCEPT ![r][k] = outcome]
  /\ UNCHANGED <<detached, db, tick, lock, ran, history>>

-----------------------------------------------------------------------------
TickStep(p) ==
  \/ SettleDetached(p)
  \/ FindFire(p)
  \/ Record(p, "recorded")
  \/ Record(p, "shelved")
  \/ RecordTaken(p)
  \/ \E r \in Fires : Pick(p, r)
  \/ Claim(p)
  \/ ClaimTaken(p)
  \/ \E s \in 1..NumSteps :
       \/ StepSucceeds(p, s)
       \/ StepFails(p, s)
       \/ StepNotConfigured(p, s)
       \/ \E k \in 1..MaxDispatches : Dispatch(p, s, k) \/ DispatchUnread(p, s, k)
  \/ RunSucceeds(p)
  \/ Commit(p)

Next ==
  \/ \E p \in Ticks : BeginTick(p) \/ RunJob(p) \/ TickStep(p) \/ TickFails(p)
  \/ \E p \in Ticks, r \in Fires : Resume(p, r)
  \/ \E r \in Fires, k \in 1..MaxDispatches : AgentSettles(r, k)

Spec == Init /\ [][Next]_vars

(* The daemon ticks, an open transaction goes on, and the daemon's is      *)
(* granted a row lock in turn; the budget of its ticks is positive, so     *)
(* they do not all end before their first run; an agent run settles.       *)
Fairness ==
  /\ WF_vars(BeginTick(Daemon))
  /\ \A p \in Ticks : WF_vars(TickStep(p))
  /\ SF_vars(SettleDetached(Daemon))
  /\ SF_vars(Claim(Daemon))
  /\ SF_vars(\E r \in Fires : Pick(Daemon, r))
  /\ WF_vars(\E r \in Fires, k \in 1..MaxDispatches : AgentSettles(r, k))

FairSpec == Spec /\ Fairness

-----------------------------------------------------------------------------
(* Properties *)

Rows == [status : Statuses, attempt : Nat, agent : 0..MaxDispatches,
         done : SUBSET (1..NumSteps), lease : BOOLEAN]

TickRow == [pc : {"idle", "settle", "plan", "record", "claim", "lock",
                  "step", "done"},
            single : BOOLEAN, cur : 0..NumFires, at : 0..(NumSteps + 1),
            todo : SUBSET Fires, wrote : SUBSET Fires,
            seen : [Fires -> Rows], tx : [Fires -> Rows]]

TypeOK ==
  /\ detached \in BOOLEAN
  /\ db \in [Fires -> Rows]
  /\ tick \in [Ticks -> TickRow]
  /\ lock \in Ticks \cup {None}
  /\ agent \in [Fires -> [1..MaxDispatches -> {"none", "live", "ok", "failed"}]]
  /\ ran \in [Fires -> [1..NumSteps -> Nat]]
  /\ faults \in Nat
  /\ lost \in SUBSET Fires
  /\ unread \in SUBSET Fires
  /\ stale \in SUBSET Fires

(* The commands of one job never run side by side, whatever ticks, drains   *)
(* and resumes are open: a claim writes the job's row.                      *)
OneRunAtATime ==
  \A p, q \in Ticks : tick[p].pc = "step" /\ tick[q].pc = "step" => p = q

(* What RunCommand may do to a step whose success is committed. *)
RepeatedIfTold ==
  \A r \in Fires : \A s \in 1..NumSteps :
    ran'[r][s] # ran[r][s] /\ s \in db[r].done =>
      \E p \in Ticks : tick[p].pc = "step" /\ tick[p].cur = r /\ ~Resumes(p)

(* The command of a step whose success is committed is started again only   *)
(* by a tick that was told not to resume: every other retry goes on behind  *)
(* the steps that succeeded, even that of a tick that read the run before.  *)
StepNotRepeated == [][RepeatedIfTold]_vars

(* A step's command is started at most max_attempts times, unless a tick    *)
(* was rolled back after it had claimed the run or the run was claimed on   *)
(* an outdated reading.                                                     *)
AttemptsCountExecutions ==
  \A r \in Fires : \A s \in 1..NumSteps :
    ran[r][s] <= MaxAttempts \/ r \in lost \cup stale

(* A settled run stays as it was settled, unless an outdated reading of it  *)
(* was written back.                                                        *)
SettledIsFinal ==
  [][\A r \in Fires :
       db[r].status \in Settled => db'[r] = db[r] \/ r \in stale']_vars

(* No retryable run is left without an attempt, which no claim would ever   *)
(* take up, unless an outdated reading of it was written back.              *)
RetryHasAttempt ==
  \A r \in Fires :
    db[r].status = "retryable" => db[r].attempt < MaxAttempts \/ r \in stale

(* An agent run in progress is the one its fire's row waits for, or will    *)
(* when the open tick commits: nobody else would learn how it ended.        *)
AgentAwaited ==
  \A r \in Fires : \A k \in 1..MaxDispatches :
    agent[r][k] = "live" =>
      \/ r \in lost \cup unread \cup stale
      \/ \E p \in Ticks : /\ r \in tick[p].wrote
                          /\ tick[p].tx[r].status = "executing"
                          /\ tick[p].tx[r].agent = k
      \/ db[r].status = "executing" /\ db[r].agent = k

(* A recorded run settles: no fire is forgotten between ticks, drains,      *)
(* failed ticks and agent runs.                                             *)
FireSettles ==
  \A r \in Fires :
    db[r].status = "recorded" ~> db[r].status \in Settled \/ r \in stale

=============================================================================
