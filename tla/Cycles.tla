-------------------------------- MODULE Cycles -------------------------------
(***************************************************************************)
(* The occurrences of one recurring cycle: systems/cycles/service.py and   *)
(* scheduler.py, and runs/cycle_settlement.py, by which the end of an      *)
(* agent run settles its occurrence (a CycleRun row).                      *)
(*                                                                         *)
(* The row of the cycle is locked FOR UPDATE by an execution from its claim *)
(* to its commit and is written by everybody who settles or inserts an     *)
(* occurrence, so those wait for it; the two selects of the scheduler skip *)
(* what is locked.  Settlement from an agent run reads the occurrence      *)
(* without a lock and writes it later.  A cancellation settles it in a     *)
(* transaction of its own, before the one that cancels the agent run       *)
(* commits.                                                                *)
(***************************************************************************)
EXTENDS Naturals, FiniteSets

CONSTANTS
  NumRuns,        \* bound: occurrences, in the order of their times
  MaxConcurrency, \* cycle.max_concurrency
  Limit,          \* stale occurrences a recovery looks at
  Schedulers,     \* scheduler loops
  Callers,        \* requests that run the cycle now
  Calls,          \* settlements that may be in progress
  Suspects,       \* occurrences whose execution may raise every time
  None,           \* no lock holder
  MaxFaults       \* bound: executors that die or time out

Runs == 1..NumRuns
Executors == Schedulers \cup Callers

ASSUME CyclesAssumption ==
  /\ NumRuns \in Nat \ {0}
  /\ MaxConcurrency \in Nat \ {0}
  /\ Limit \in Nat \ {0}
  /\ Schedulers \cap Callers = {}
  /\ None \notin Executors
  /\ Suspects \subseteq Runs
  /\ MaxFaults \in Nat

VARIABLES
  status,  \* occurrence -> status of its row
  agent,   \* occurrence -> its agent run, as committed
  age,     \* occurrence -> 0 recent, 1 stale, 2 beyond the catch-up window
           \* (not kept once it is settled: nothing asks)
  due,     \* next_run_at has come
  deleted, \* the cycle is deleted
  faulty,  \* occurrences whose execution always raises
  lock,    \* the execution that has locked the cycle's row
  exec,    \* executor -> its phase, what it has to execute, what it admits
  call,    \* settlement -> its phase, occurrence, the status it was given
  undone,  \* history: occurrences settled by a cancellation that was undone
  faults

vars == <<status, agent, age, due, deleted, faulty, lock, exec, call, undone,
          faults>>
cycleVars == <<due, deleted, faulty>>

(* No code gives an occurrence the status "pending_approval"; it counts.  *)
Active(r) == status[r] \in {"queued", "running", "pending_approval"}
Terminal(r) == status[r] \in {"completed", "degraded", "failed", "skipped", "blocked"}
AgentEnded(r) == agent[r] \in {"completed", "failed", "canceled"}

(* The rows are written; a settled one has no age. *)
Write(rows) ==
  /\ status' = rows
  /\ age' = [r \in Runs |-> IF rows[r] \in {"queued", "running"} THEN age[r] ELSE 0]

Idle == [phase |-> "idle", todo |-> {}, cur |-> 0]
NoCall == [phase |-> "idle", run |-> 1, status |-> "none", cancel |-> FALSE]

Init ==
  /\ status = [r \in Runs |-> "none"]
  /\ agent = [r \in Runs |-> "none"]
  /\ age = [r \in Runs |-> 0]
  /\ due = FALSE
  /\ deleted = FALSE
  /\ faulty \in SUBSET Suspects
  /\ lock = None
  /\ exec = [p \in Executors |-> Idle]
  /\ call = [f \in Calls |-> NoCall]
  /\ undone = {}
  /\ faults = 0

-----------------------------------------------------------------------------
(* The cycle *)

\* Mutant of Unlocked: the claim does not lock the cycle.
NeverLocked == TRUE

Unlocked == lock = None

(* Time.  No slot arrives when the bound on occurrences is reached. *)
SlotArrives ==
  /\ ~due
  /\ \E r \in Runs : status[r] = "none"
  /\ due' = TRUE
  /\ UNCHANGED <<status, agent, age, deleted, faulty, lock, exec, call, undone, faults>>

Ages(r) ==
  /\ Active(r)
  /\ age[r] < 2
  /\ age' = [age EXCEPT ![r] = @ + 1]
  /\ UNCHANGED <<status, agent, cycleVars, lock, exec, call, undone, faults>>

(* async_wake_cycle_now: not while a slot is pending or a run in flight. *)
Wake ==
  /\ Unlocked
  /\ ~due
  /\ ~deleted
  /\ \A r \in Runs : ~Active(r)
  /\ due' = TRUE
  /\ UNCHANGED <<status, agent, age, deleted, faulty, lock, exec, call, undone, faults>>

(* async_advance_cycle_schedule_past_gap: after a cold start. *)
SkipGap ==
  /\ Unlocked
  /\ due
  /\ ~deleted
  /\ due' = FALSE
  /\ UNCHANGED <<status, agent, age, deleted, faulty, lock, exec, call, undone, faults>>

Delete ==
  /\ Unlocked
  /\ ~deleted
  /\ deleted' = TRUE
  /\ UNCHANGED <<status, agent, age, due, faulty, lock, exec, call, undone, faults>>

-----------------------------------------------------------------------------
(* Execution *)

NextRun(r) == status[r] = "none" /\ \A q \in 1..(r - 1) : status[q] # "none"

(* _async_active_cycle_run_count, and the comparison with max_concurrency *)
\* Mutant of AtCapacity: one too many.
AtCapacityOff(r) == Cardinality({q \in Runs \ {r} : Active(q)}) > MaxConcurrency

AtCapacity(r) == Cardinality({q \in Runs \ {r} : Active(q)}) >= MaxConcurrency

(* async_run_cycle_now: the insert, committed by itself. *)
RunNow(p, r) ==
  /\ p \in Callers
  /\ exec[p].phase = "idle"
  /\ Unlocked
  /\ ~deleted
  /\ NextRun(r)
  /\ status' = [status EXCEPT ![r] = "queued"]
  /\ exec' = [exec EXCEPT ![p] = [phase |-> "execute", todo |-> {r}, cur |-> 0]]
  /\ UNCHANGED <<agent, age, cycleVars, lock, call, undone, faults>>

(* async_claim_cycle_run: everything is read again under the lock. *)
\* Mutant of Claimable: the status is the one that was listed.
ClaimableAsListed(r) == TRUE

Claimable(r) == status[r] = "queued"

NextToDo(p, r) ==
  /\ exec[p].cur = 0
  /\ r \in exec[p].todo
  /\ \A q \in exec[p].todo : r <= q

Done(p, r) == exec' = [exec EXCEPT ![p].todo = @ \ {r}, ![p].cur = 0]

ClaimRun(p, r) ==
  /\ NextToDo(p, r)
  /\ Claimable(r) => Unlocked
  /\ IF Claimable(r) /\ ~deleted /\ ~AtCapacity(r)
       THEN /\ lock' = p
            /\ exec' = [exec EXCEPT ![p].cur = r]
            /\ UNCHANGED <<status, age>>
       ELSE /\ Write(IF ~Claimable(r) THEN status
                     ELSE [status EXCEPT ![r] = IF deleted THEN "failed" ELSE "skipped"])
            /\ lock' = lock
            /\ Done(p, r)
  /\ UNCHANGED <<agent, cycleVars, call, undone, faults>>

(* _async_start_admitted_cycle_run: the agent run, in the same transaction. *)
Admit(p, r) ==
  /\ exec[p].cur = r
  /\ r \notin faulty
  /\ status' = [status EXCEPT ![r] = "running"]
  /\ agent' = [agent EXCEPT ![r] = "open"]
  /\ lock' = None
  /\ Done(p, r)
  /\ UNCHANGED <<age, cycleVars, call, undone, faults>>

(* The admission ends the occurrence: idle, misconfigured, without a        *)
(* credential or quota, refused by the work intake, or not ours to execute. *)
\* Mutant of Reject: a status that no occurrence has.
RejectAsDeferred(p, r, outcome) ==
  /\ exec[p].cur = r
  /\ r \notin faulty
  /\ Write([status EXCEPT ![r] = "deferred"])
  /\ lock' = None
  /\ Done(p, r)
  /\ UNCHANGED <<agent, cycleVars, call, undone, faults>>

Reject(p, r, outcome) ==
  /\ exec[p].cur = r
  /\ r \notin faulty
  /\ Write([status EXCEPT ![r] = outcome])
  /\ lock' = None
  /\ Done(p, r)
  /\ UNCHANGED <<agent, cycleVars, call, undone, faults>>

(* An exception ends the transaction and the whole list of the executor. *)
Abandon(p) ==
  /\ exec' = [exec EXCEPT ![p] = Idle]
  /\ lock' = IF lock = p THEN None ELSE lock
  /\ UNCHANGED <<status, agent, age, cycleVars, call, undone>>

ExecutionRaises(p) ==
  /\ exec[p].cur \in faulty
  /\ Abandon(p)
  /\ UNCHANGED faults

ExecutorDies(p) ==
  /\ exec[p].phase # "idle"
  /\ faults < MaxFaults
  /\ faults' = faults + 1
  /\ Abandon(p)

-----------------------------------------------------------------------------
(* async_schedule_due_cycles_once *)

(* async_recover_stale_cycle_runs_once: the oldest stale rows, whether     *)
(* there is something to do for them or not.                               *)
Stale == {r \in Runs : Active(r) /\ age[r] > 0 /\ \A p \in Executors : exec[p].cur # r}

Oldest == {r \in Stale : Cardinality({q \in Stale : q < r}) < Limit}

\* Mutant of Recovered: a missed occurrence is executed however late it is.
RecoveredHoweverLate(r) ==
  IF status[r] = "queued" /\ deleted THEN "failed"
  ELSE IF status[r] = "running" /\ AgentEnded(r)
         THEN IF agent[r] = "completed" THEN "completed" ELSE "failed"
  ELSE status[r]

Recovered(r) ==
  IF status[r] = "queued" /\ age[r] = 2 THEN "skipped"
  ELSE IF status[r] = "queued" /\ deleted THEN "failed"
  ELSE IF status[r] = "running" /\ AgentEnded(r)
         THEN IF agent[r] = "completed" THEN "completed" ELSE "failed"
  ELSE status[r]

\* Mutant of Recover: only occurrences that are running are looked at.
RecoverRunning(p) ==
  /\ p \in Schedulers
  /\ exec[p].phase = "idle"
  /\ Unlocked
  /\ Write([r \in Runs |-> IF r \in Oldest /\ status[r] = "running" THEN Recovered(r)
                                                                   ELSE status[r]])
  /\ exec' = [exec EXCEPT ![p] = [phase |-> "recover", todo |-> {}, cur |-> 0]]
  /\ UNCHANGED <<agent, cycleVars, lock, call, undone, faults>>

Recover(p) ==
  /\ p \in Schedulers
  /\ exec[p].phase = "idle"
  /\ (\E r \in Oldest : Recovered(r) # status[r]) => Unlocked
  /\ Write([r \in Runs |-> IF r \in Oldest THEN Recovered(r) ELSE status[r]])
  /\ exec' = [exec EXCEPT ![p] =
                [phase |-> "recover", cur |-> 0,
                 todo |-> {r \in Oldest : Recovered(r) = "queued"}]]
  /\ UNCHANGED <<agent, cycleVars, lock, call, undone, faults>>

(* _async_materialize_due_cycle_runs_once, when the recovery is through *)
Listed(p) == exec[p].phase = "recover" /\ exec[p].todo = {}

Materialize(p, r) ==
  /\ Listed(p)
  /\ due /\ ~deleted
  /\ Unlocked
  /\ NextRun(r)
  /\ status' = [status EXCEPT ![r] = IF AtCapacity(r) THEN "skipped" ELSE "queued"]
  /\ due' = FALSE
  /\ exec' = [exec EXCEPT ![p] =
                [phase |-> "execute", todo |-> IF AtCapacity(r) THEN {} ELSE {r}, cur |-> 0]]
  /\ UNCHANGED <<agent, age, deleted, faulty, lock, call, undone, faults>>

NothingDue(p) ==
  /\ Listed(p)
  /\ ~(due /\ ~deleted /\ Unlocked /\ \E r \in Runs : NextRun(r))
  /\ exec' = [exec EXCEPT ![p] = Idle]
  /\ UNCHANGED <<status, agent, age, cycleVars, lock, call, undone, faults>>

EndList(p) ==
  /\ exec[p].phase = "execute"
  /\ exec[p].todo = {}
  /\ exec' = [exec EXCEPT ![p] = Idle]
  /\ UNCHANGED <<status, agent, age, cycleVars, lock, call, undone, faults>>

-----------------------------------------------------------------------------
(* The agent run and the settlement of its occurrence *)

Canceling(r) == \E f \in Calls : call[f].phase # "idle" /\ call[f].cancel /\ call[f].run = r

(* A slot, the reaper or the deadline sweep settles it (module AgentRun). *)
AgentSettles(r, outcome) ==
  /\ agent[r] = "open"
  /\ ~Canceling(r)
  /\ agent' = [agent EXCEPT ![r] = outcome]
  /\ UNCHANGED <<status, age, cycleVars, lock, exec, call, undone, faults>>

(* async_finalize_cycle_run_from_run is called with the status of the run, *)
(* or, by the error handler of a slot, with "failed" whatever it is.       *)
\* Mutant of StatusGiven: a run that is not over is settled, too.
StatusGivenAny(r) == {agent[r], "failed"} \ {"none"}

StatusGiven(r) == IF AgentEnded(r) THEN {agent[r], "failed"} ELSE {}

BeginSettlement(f, r, given) ==
  /\ call[f].phase = "idle"
  /\ given \in StatusGiven(r)
  /\ ~Terminal(r)
  /\ call' = [call EXCEPT ![f] = [phase |-> "write", run |-> r, status |-> given,
                                  cancel |-> FALSE]]
  /\ UNCHANGED <<status, agent, age, cycleVars, lock, exec, undone, faults>>

(* A cancellation has locked the agent run, and settles its occurrence. *)
BeginCancel(f, r) ==
  /\ call[f].phase = "idle"
  /\ agent[r] = "open"
  /\ ~Canceling(r)
  /\ call' = [call EXCEPT ![f] = [phase |-> IF Terminal(r) THEN "commit" ELSE "write",
                                  run |-> r, status |-> "canceled", cancel |-> TRUE]]
  /\ UNCHANGED <<status, agent, age, cycleVars, lock, exec, undone, faults>>

(* RUN_STATUS_TO_CYCLE_RUN_STATUS, and what the contract gate makes of it:  *)
(* an answer that misses the contract, a failure of the provider.           *)
\* Mutant of Outcomes: a canceled run counts as completed.
OutcomesOfAny(given) == {"completed", "degraded"}

Outcomes(given) ==
  IF given = "completed" THEN {"completed", "degraded"}
  ELSE IF given = "failed" THEN {"failed", "degraded"}
  ELSE {"failed"}

AfterWrite(f) == IF call[f].cancel THEN [call EXCEPT ![f].phase = "commit"]
                                   ELSE [call EXCEPT ![f] = NoCall]

WriteSettlement(f, outcome) ==
  /\ call[f].phase = "write"
  /\ Unlocked
  /\ outcome \in Outcomes(call[f].status)
  /\ Write([status EXCEPT ![call[f].run] = outcome])
  /\ call' = AfterWrite(f)
  /\ UNCHANGED <<agent, cycleVars, lock, exec, undone, faults>>

(* async_finalize_cycle_run_if_needed: an exception is logged, no more. *)
SettlementFails(f) ==
  /\ call[f].phase = "write"
  /\ call' = AfterWrite(f)
  /\ UNCHANGED <<status, agent, age, cycleVars, lock, exec, undone, faults>>

CancelCommits(f) ==
  /\ call[f].phase = "commit"
  /\ agent' = [agent EXCEPT ![call[f].run] = "canceled"]
  /\ call' = [call EXCEPT ![f] = NoCall]
  /\ UNCHANGED <<status, age, cycleVars, lock, exec, undone, faults>>

(* The transaction that cancels the agent run fails after all. *)
CancelUndone(f) ==
  /\ call[f].phase = "commit"
  /\ undone' = undone \cup {call[f].run}
  /\ call' = [call EXCEPT ![f] = NoCall]
  /\ UNCHANGED <<status, agent, age, cycleVars, lock, exec, faults>>

-----------------------------------------------------------------------------
Rejections == {"skipped", "failed", "blocked"}

Admission(p) ==
  \/ \E r \in Runs : Admit(p, r) \/ \E o \in Rejections : Reject(p, r, o)
  \/ ExecutionRaises(p)

TickStep(p) ==
  \/ Recover(p)
  \/ \E r \in Runs : ClaimRun(p, r)
  \/ \E r \in Runs : Materialize(p, r)
  \/ NothingDue(p)
  \/ EndList(p)

Settlement(f) ==
  \/ \E o \in {"completed", "degraded", "failed"} : WriteSettlement(f, o)
  \/ SettlementFails(f)
  \/ CancelCommits(f)
  \/ CancelUndone(f)

Next ==
  \/ SlotArrives \/ Wake \/ SkipGap \/ Delete
  \/ \E p \in Executors : TickStep(p) \/ Admission(p) \/ ExecutorDies(p)
  \/ \E p \in Callers, r \in Runs : RunNow(p, r)
  \/ \E r \in Runs : \/ Ages(r)
                     \/ AgentSettles(r, "completed") \/ AgentSettles(r, "failed")
  \/ \E f \in Calls, r \in Runs :
        \/ BeginCancel(f, r)
        \/ \E given \in {"completed", "failed", "canceled"} : BeginSettlement(f, r, given)
  \/ \E f \in Calls : Settlement(f)

Spec == Init /\ [][Next]_vars

(* A scheduler ticks, an execution comes to its end, time passes, every    *)
(* agent run settles (EveryRunSettles), a cancellation ends.  Nothing is   *)
(* assumed of the settlement calls: they are best effort.                  *)
Fairness ==
  /\ \A p \in Schedulers : SF_vars(TickStep(p))
  /\ WF_vars(\E p \in Executors : Admission(p))
  /\ WF_vars(\E r \in Runs : Ages(r))
  /\ SF_vars(\E r \in Runs : AgentSettles(r, "completed") \/ AgentSettles(r, "failed"))
  /\ \A f \in Calls : WF_vars(Settlement(f))

FairSpec == Spec /\ Fairness

-----------------------------------------------------------------------------
(* Properties *)

TypeOK ==
  /\ status \in [Runs -> {"none", "queued", "running", "completed", "degraded",
                          "failed", "skipped", "blocked"}]
  /\ agent \in [Runs -> {"none", "open", "completed", "failed", "canceled"}]
  /\ age \in [Runs -> 0..2]
  /\ due \in BOOLEAN
  /\ deleted \in BOOLEAN
  /\ faulty \in SUBSET Runs
  /\ lock \in Executors \cup {None}
  /\ exec \in [Executors -> [phase : {"idle", "recover", "execute"},
                             todo : SUBSET Runs, cur : 0..NumRuns]]
  /\ call \in [Calls -> [phase : {"idle", "write", "commit"}, run : Runs,
                         status : {"none", "completed", "failed", "canceled"},
                         cancel : BOOLEAN]]
  /\ undone \in SUBSET Runs
  /\ faults \in Nat

(* No more occurrences run at a time than the cycle allows, whichever of    *)
(* scheduler, recovery and callers executes them: what is queued counts, or *)
(* the lock is held from the count to the commit.                           *)
CapacityRespected ==
  Cardinality({r \in Runs : status[r] = "running"}) <= MaxConcurrency

(* An occurrence is given one agent run in its life, though a tick, a       *)
(* recovery and a caller may each have it on their list.                    *)
StartedOnce ==
  [][\A r \in Runs : agent[r] # "none" => agent'[r] = agent[r] \/ agent'[r] # "open"
    ]_vars

(* To its owner a cycle is a row of occurrences (module CycleContract) that  *)
(* wait, work and are settled.                                              *)
Phase(r) ==
  IF status[r] = "none" THEN "absent"
  ELSE IF status[r] = "queued" THEN "waiting"
  ELSE IF status[r] = "running" THEN "working"
  ELSE "settled"

Work(r) == IF agent[r] \in {"none", "open"} THEN agent[r] ELSE "over"

Contract == INSTANCE CycleContract WITH
  Occurrences <- Runs,
  Capacity <- MaxConcurrency,
  phase <- [r \in Runs |-> Phase(r)],
  work <- [r \in Runs |-> Work(r)]

(* Whoever executes, recovers or settles it, an occurrence is started only  *)
(* from the queue and while there is room, and nothing reopens it; a late   *)
(* settlement or an early cancellation is no step of the contract.          *)
ImplementsContract == Contract!Spec

(* An agent run in progress counts against the capacity of its cycle: its   *)
(* occurrence is running, unless a cancellation has settled it and has not  *)
(* committed, or never will.                                                *)
AgentCounted ==
  \A r \in Runs :
    agent[r] = "open" => status[r] = "running" \/ Canceling(r) \/ r \in undone

(* A completed occurrence has a completed agent run; a slot's error handler *)
(* or a recovery may call it worse, never better.                           *)
CompletedHonestly ==
  \A r \in Runs : status[r] = "completed" => agent[r] = "completed"

(* A settled occurrence is never taken up again, and one that was settled   *)
(* without an agent run keeps its outcome.  (Of one with an agent run, a    *)
(* late settlement that read it before may still change the outcome.)       *)
SettledStays ==
  [][\A r \in Runs :
       Terminal(r) => /\ Terminal(r)'
                      /\ agent[r] = "none" => status'[r] = status[r]
    ]_vars

(* Every occurrence is settled, though ticks die between inserting and      *)
(* executing it and the settlement after its agent run may fail.            *)
OccurrenceSettles == \A r \in Runs : Active(r) ~> Terminal(r)

(* A due slot is taken up, even behind occurrences whose execution raises   *)
(* and ends the tick that would have come to the slot.                      *)
SlotIsTaken == due ~> ~due \/ deleted \/ \A r \in Runs : status[r] # "none"
=============================================================================
