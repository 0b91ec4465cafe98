------------------------------ MODULE AgentRun ------------------------------
(***************************************************************************)
(* The durable AgentRun row and everyone who writes it: the runner slots   *)
(* that claim and execute it (runs/cortex/runner.py, runs/engine.py, the   *)
(* execution lease of runs/store.py), the stale-run reaper, the deadline   *)
(* sweep (runs/deadlines.py), the drain of a worker that shuts down        *)
(* (runs/interruption.py) and the people who approve or cancel it          *)
(* (api/routers/cortex/_run.py, runs/cancel.py).                           *)
(*                                                                         *)
(* One action is one database transaction: each of them locks the row,     *)
(* looks at it again under the lock, writes it together with its events    *)
(* and commits.  A slot's local state survives between its transactions    *)
(* and is lost when its process dies.                                      *)
(***************************************************************************)
EXTENDS RunStatus, Naturals, Sequences, FiniteSets

CONSTANTS
  Runs,           \* the AgentRun rows that may be created
  Workers,        \* the runner slots, each a process of its own
  Users,          \* API requests that may be in progress at once
  NoRun, NoWorker,
  Up, Stopping, Stopped,  \* a process: running, told to stop, done with its drain
  MaxRequeues,    \* AGENT_RUN_MAX_INTERRUPTION_REQUEUES
  RootOf,         \* the root of a run's tree, the run itself for a root
  After,          \* queued_after_run_id of a run, NoRun for none
  OlderInThread,  \* the root runs of its thread with a smaller id
  Dated           \* a bound: the runs whose deadline may come while we watch

ASSUME SentinelAssumption ==
  /\ {NoRun, Up, Stopping, Stopped} \cap Runs = {}
  /\ Up # Stopping /\ Up # Stopped /\ Stopping # Stopped
  /\ NoWorker \notin Workers
ASSUME CapAssumption == MaxRequeues \in Nat
ASSUME WorkersAssumption == IsFiniteSet(Workers)
ASSUME TreeAssumption ==
  /\ RootOf \in [Runs -> Runs]
  /\ After \in [Runs -> Runs \cup {NoRun}]
  /\ OlderInThread \in [Runs -> SUBSET Runs]
ASSUME DatedAssumption == Dated \subseteq Runs

VARIABLES
  status,         \* AgentRunRow.status, "absent" before the insert
  token,          \* execution_token: the slot that owns the attempt
  attempt,        \* execution_attempt
  interruptions,  \* metadata.interruption_count
  deadline,       \* where the row stands with deadline_at, closeout_expires_at
  live,           \* updated_at, heartbeat or an event is newer than the cutoff
  ended,          \* the terminal events of the run, in order, by status announced
  raised,         \* runs on which a pass of the stale-run reaper has raised
  pc, job, lease, \* a slot's place, its run, and the attempt number it was given
  drain,          \* Up, Stopping, the run in flight when the drain timed out, Stopped
  request         \* a cancellation that has read the row and not written it yet

rowVars == <<status, token, attempt, interruptions, deadline, live, ended, raised>>
slotVars == <<pc, job, lease, drain>>
vars == <<rowVars, slotVars, request>>

\* Where a slot is in _process_claimed_run_async.
Places == {"idle", "preparing", "leasing", "waiting", "retrying", "executing",
           "settling", "erred"}
\* Its run is claimed and the execution lease not yet decided.
BeforeLease == {"preparing", "leasing", "waiting", "retrying"}
\* Inside the `async with _run_heartbeat_async` block.
Heartbeating == BeforeLease \cup {"executing", "settling"}

TypeOK ==
  /\ status \in [Runs -> RUN_STATUS_VALUES \cup {"absent"}]
  /\ token \in [Runs -> Workers \cup {NoWorker}]
  /\ attempt \in [Runs -> Nat]
  /\ interruptions \in [Runs -> Nat]
  /\ deadline \in [Runs -> {"ahead", "due", "closeout", "elapsed"}]
  /\ live \in [Runs -> BOOLEAN]
  /\ ended \in [Runs -> Seq(TERMINAL_RUN_STATUSES)]
  /\ raised \in SUBSET Runs
  /\ pc \in [Workers -> Places]
  /\ job \in [Workers -> Runs \cup {NoRun}]
  /\ lease \in [Workers -> Nat]
  /\ drain \in [Workers -> Runs \cup {Up, Stopping, Stopped}]
  /\ request \in [Users -> [kind : {"none", "route", "thread"}, run : Runs \cup {NoRun}]]

Idle == [kind |-> "none", run |-> NoRun]

Init ==
  /\ status = [r \in Runs |-> "absent"]
  /\ token = [r \in Runs |-> NoWorker]
  /\ attempt = [r \in Runs |-> 0]
  /\ interruptions = [r \in Runs |-> 0]
  /\ deadline = [r \in Runs |-> "ahead"]
  /\ live = [r \in Runs |-> TRUE]
  /\ ended = [r \in Runs |-> <<>>]
  /\ raised = {}
  /\ pc = [w \in Workers |-> "idle"]
  /\ job = [w \in Workers |-> NoRun]
  /\ lease = [w \in Workers |-> 0]
  /\ drain = [w \in Workers |-> Up]
  /\ request = [u \in Users |-> Idle]

(***************************************************************************)
(* What every status write does to the row (_set_status_on_locked_run).    *)
(***************************************************************************)

\* Status and ownership of the row; the write and its events are fresh
\* evidence of life.
WriteStatus(r, target) ==
  /\ status' = [status EXCEPT ![r] = target]
  /\ token' = [token EXCEPT ![r] =
       IF target \in TERMINAL_RUN_STATUSES \cup {"paused", "queued"}
         THEN NoWorker ELSE @]
  /\ live' = [live EXCEPT ![r] = TRUE]

\* The terminal event that announces an outcome.
Announce(r, outcome) == ended' = [ended EXCEPT ![r] = Append(@, outcome)]

\* A terminal status and its event, in one transaction.
Settle(r, outcome) ==
  /\ ensure_run_transition(status[r], outcome, FALSE)
  /\ WriteStatus(r, outcome)
  /\ Announce(r, outcome)
  /\ UNCHANGED <<attempt, interruptions, deadline, raised>>

\* interrupt_and_requeue: back to the queue while the budget lasts, else expired.
InterruptTarget(r) == IF interruptions[r] < MaxRequeues THEN "queued" ELSE "expired"
Interruptible(r) == ensure_run_transition(status[r], InterruptTarget(r), TRUE)
\* Mutants of Interrupt: the requeue is not counted; the expiry is not announced.
InterruptUncounted(r) ==
  /\ Interruptible(r)
  /\ WriteStatus(r, InterruptTarget(r))
  /\ UNCHANGED <<attempt, interruptions, deadline, ended, raised>>
InterruptSilent(r) ==
  /\ Interruptible(r)
  /\ WriteStatus(r, InterruptTarget(r))
  /\ interruptions' = [interruptions EXCEPT ![r] = @ + 1]
  /\ UNCHANGED <<attempt, deadline, ended, raised>>

Interrupt(r) ==
  /\ Interruptible(r)
  /\ WriteStatus(r, InterruptTarget(r))
  /\ interruptions' = [interruptions EXCEPT ![r] = @ + 1]
  /\ IF InterruptTarget(r) = "expired" THEN Announce(r, "expired") ELSE UNCHANGED ended
  /\ UNCHANGED <<attempt, deadline, raised>>

Open(r) == status[r] \in OPEN_RUN_STATUSES
Terminal(r) == status[r] \in TERMINAL_RUN_STATUSES
Processing(r) == status[r] \in PROCESSING_RUN_STATUSES

(***************************************************************************)
(* Admission.                                                              *)
(***************************************************************************)

\* create_run inserts a queued row; what it waits for exists already.
Create(r) ==
  /\ status[r] = "absent"
  /\ \A s \in (OlderInThread[r] \cup {After[r], RootOf[r]}) \ {r, NoRun} :
       status[s] # "absent"
  /\ status' = [status EXCEPT ![r] = "queued"]
  /\ UNCHANGED <<token, attempt, interruptions, deadline, live, ended, raised,
                 slotVars, request>>

(***************************************************************************)
(* A runner slot: _run_queued_once_async and _process_claimed_run_async.   *)
(***************************************************************************)

Goto(w, place) ==
  /\ pc' = [pc EXCEPT ![w] = place]
  /\ UNCHANGED <<job, lease, drain, request>>

\* The slot is done with its run.
GoIdle(w) ==
  /\ pc' = [pc EXCEPT ![w] = "idle"]
  /\ job' = [job EXCEPT ![w] = NoRun]
  /\ lease' = [lease EXCEPT ![w] = 0]
  /\ UNCHANGED <<drain, request>>

\* Mutant of DependencyActive: a dependency that is queued or paused is overlooked.
DependencyProcessing(r) ==
  /\ After[r] # NoRun
  /\ \E s \in OlderInThread[r] \cup {After[r]} : Processing(s)

\* _deferred_run_dependency_active
DependencyActive(r) ==
  /\ After[r] # NoRun
  /\ \E s \in OlderInThread[r] \cup {After[r]} : Open(s)

\* claim_next: a queued row whose dependencies are settled becomes starting.
\* Locked rows are skipped, so any such row may be the one.
ClaimNext(w, r) ==
  /\ pc[w] = "idle" /\ drain[w] = Up
  /\ status[r] = "queued" /\ ~DependencyActive(r)
  /\ WriteStatus(r, "starting")
  /\ pc' = [pc EXCEPT ![w] = "preparing"]
  /\ job' = [job EXCEPT ![w] = r]
  /\ UNCHANGED <<attempt, interruptions, deadline, ended, raised, lease, drain, request>>

\* heartbeat_run, by whichever slot has the run in hand.
Heartbeat(w) ==
  /\ pc[w] \in Heartbeating
  /\ Processing(job[w]) /\ ~live[job[w]]
  /\ live' = [live EXCEPT ![job[w]] = TRUE]
  /\ UNCHANGED <<status, token, attempt, interruptions, deadline, ended, raised,
                 slotVars, request>>

\* The project context is ready; the lease comes next.
Prepared(w) ==
  /\ pc[w] = "preparing"
  /\ Goto(w, "leasing") /\ UNCHANGED rowVars

\* _mark_run_failed_after_runner_error_async: fails the row unless it is
\* terminal.  It is given the run's id and no execution claim.
MarkRunFailed(r) == IF Open(r) THEN Settle(r, "failed") ELSE UNCHANGED rowVars

\* No usable project context: the slot fails the run it claimed.
PrepareFails(w) ==
  /\ pc[w] = "preparing"
  /\ MarkRunFailed(job[w]) /\ GoIdle(w)

\* Preparing the context, or the claim's own transaction, raises.
StepRaises(w) ==
  /\ pc[w] \in {"preparing", "leasing", "retrying"}
  /\ Goto(w, "erred") /\ UNCHANGED rowVars

\* Mutant of AcquireClaim: the attempt number is not advanced.
AcquireSameAttempt(w, r) ==
  /\ Open(r) /\ token[r] = NoWorker
  /\ status' = [status EXCEPT ![r] = "running"]
  /\ token' = [token EXCEPT ![r] = w]
  /\ live' = [live EXCEPT ![r] = TRUE]
  /\ lease' = [lease EXCEPT ![w] = attempt[r]]
  /\ pc' = [pc EXCEPT ![w] = "executing"]
  /\ UNCHANGED <<attempt, interruptions, deadline, ended, raised, job, drain, request>>

\* _try_acquire_execution_claim_transaction: a compare-and-set on a row
\* nobody owns.
AcquireClaim(w, r) ==
  /\ Open(r) /\ token[r] = NoWorker
  /\ status' = [status EXCEPT ![r] = "running"]
  /\ token' = [token EXCEPT ![r] = w]
  /\ attempt' = [attempt EXCEPT ![r] = @ + 1]
  /\ live' = [live EXCEPT ![r] = TRUE]
  /\ lease' = [lease EXCEPT ![w] = attempt[r] + 1]
  /\ pc' = [pc EXCEPT ![w] = "executing"]
  /\ UNCHANGED <<interruptions, deadline, ended, raised, job, drain, request>>

\* A paused row that the slot saw owned is left to its approval.
LeaseRefused(w) ==
  \/ Terminal(job[w])
  \/ pc[w] # "leasing" /\ status[job[w]] = "paused" /\ token[job[w]] = NoWorker

\* execution_lease, one round: take the claim, give up, or wait for the owner.
Lease(w) ==
  /\ pc[w] \in {"leasing", "retrying"}
  /\ ~LeaseRefused(w)
  /\ AcquireClaim(w, job[w])
LeaseGivesUp(w) ==
  /\ pc[w] \in {"leasing", "retrying", "waiting"}
  /\ LeaseRefused(w)
  /\ Goto(w, "settling") /\ UNCHANGED rowVars
LeaseWaits(w) ==
  /\ pc[w] \in {"leasing", "retrying"}
  /\ ~LeaseRefused(w) /\ token[job[w]] # NoWorker
  /\ Goto(w, "waiting") /\ UNCHANGED rowVars

\* _wait_for_execution_retry: the owner is gone, or the wait times out.
OwnerGone(w) ==
  /\ pc[w] = "waiting"
  /\ ~LeaseRefused(w) /\ token[job[w]] = NoWorker
  /\ Goto(w, "retrying") /\ UNCHANGED rowVars
WaitTimesOut(w) ==
  /\ pc[w] = "waiting"
  /\ ~LeaseRefused(w) /\ token[job[w]] # NoWorker
  /\ Goto(w, "erred") /\ UNCHANGED rowVars

\* Mutant of Holds: only the row's status is looked at.
HoldsOpenRun(w) == ~Terminal(job[w])

\* The claim is current (assert_execution_claim, _set_status_on_locked_run).
Holds(w) ==
  /\ token[job[w]] = w /\ attempt[job[w]] = lease[w]
  /\ ~Terminal(job[w])

\* The recipe's outcome, under the claim and the terminal lock boundary.
Finish(w, outcome) ==
  /\ pc[w] = "executing" /\ Holds(w)
  /\ Settle(job[w], outcome) /\ Goto(w, "settling")

\* engine.complete; a completion that fails its verification is a Fail.
Complete(w) == Finish(w, "completed")
\* engine.fail
Fail(w) == Finish(w, "failed")
\* engine.cancel, when the recipe reports it or its cancel token is set.
Cancel(w) == Finish(w, "canceled")

\* The recipe asks to pause: the owner gives the run up.
PauseRun(w) ==
  /\ pc[w] = "executing" /\ Holds(w)
  /\ ensure_run_transition(status[job[w]], "paused", FALSE)
  /\ WriteStatus(job[w], "paused") /\ Goto(w, "settling")
  /\ UNCHANGED <<attempt, interruptions, deadline, ended, raised>>

\* Mutant of RetryStart: a plain return to the queue.
RetryStartUncounted(w) ==
  /\ pc[w] = "executing" /\ Holds(w)
  /\ WriteStatus(job[w], "queued") /\ Goto(w, "settling")
  /\ UNCHANGED <<attempt, interruptions, deadline, ended, raised>>

\* _retry_agent_start_failure: the provider was never reached and no tool
\* ever started, so the attempt is interrupted instead of failed.
RetryStart(w) ==
  /\ pc[w] = "executing" /\ Holds(w)
  /\ Interrupt(job[w]) /\ Goto(w, "settling")

\* The recipe comes back to a row that is terminal or has another owner:
\* ExecutionClaimLost, or an early return; the row is left alone.
ClaimLost(w) ==
  /\ pc[w] = "executing" /\ ~Holds(w)
  /\ Goto(w, "settling") /\ UNCHANGED rowVars

\* _release_execution_claim clears the token of a claim that is current and
\* leaves the status as it is.
ReleaseClaim(w) ==
  token' = IF Holds(w) THEN [token EXCEPT ![job[w]] = NoWorker] ELSE token

\* The recipe raises: rollback, release, and the exception travels on.
RecipeRaises(w) ==
  /\ pc[w] = "executing"
  /\ ReleaseClaim(w) /\ Goto(w, "erred")
  /\ UNCHANGED <<status, attempt, interruptions, deadline, live, ended, raised>>

\* The surfaces are settled (or the settlement raises).
Settled(w) ==
  /\ pc[w] = "settling"
  /\ GoIdle(w) /\ UNCHANGED rowVars
SettlementRaises(w) ==
  /\ pc[w] = "settling"
  /\ Goto(w, "erred") /\ UNCHANGED rowVars

\* The exception handler of _process_claimed_run_async fails the run; when
\* that transaction raises too, it is only logged.
HandleError(w) ==
  /\ pc[w] = "erred"
  /\ MarkRunFailed(job[w]) /\ GoIdle(w)
HandlerRaises(w) ==
  /\ pc[w] = "erred"
  /\ GoIdle(w) /\ UNCHANGED rowVars

(***************************************************************************)
(* Process death and shutdown.                                             *)
(***************************************************************************)

\* The process dies and is started again; its rows stay as they were.
Crash(w) ==
  /\ pc[w] # "idle" \/ drain[w] # Up
  /\ pc' = [pc EXCEPT ![w] = "idle"]
  /\ job' = [job EXCEPT ![w] = NoRun]
  /\ lease' = [lease EXCEPT ![w] = 0]
  /\ drain' = [drain EXCEPT ![w] = Up]
  /\ UNCHANGED <<rowVars, request>>

\* request_runner_stop: the slot claims no more.
StopRunner(w) ==
  /\ drain[w] = Up
  /\ drain' = [drain EXCEPT ![w] = Stopping]
  /\ UNCHANGED <<rowVars, pc, job, lease, request>>

\* stop_runner gives up waiting and names the run still in flight.
DrainTimesOut(w) ==
  /\ drain[w] = Stopping /\ job[w] # NoRun
  /\ drain' = [drain EXCEPT ![w] = job[w]]
  /\ UNCHANGED <<rowVars, pc, job, lease, request>>

\* On its way out the supervisor cancels the slots' tasks a fixed wait after
\* the stop, whatever the drain still waits for: the lease is released and no
\* error handler runs.
TaskCancelled(w) ==
  /\ drain[w] # Up /\ pc[w] # "idle"
  /\ IF pc[w] = "executing" THEN ReleaseClaim(w) ELSE UNCHANGED token
  /\ GoIdle(w)
  /\ UNCHANGED <<status, attempt, interruptions, deadline, live, ended, raised>>

\* interrupt_and_requeue_run_ids, by run id, for what the drain left over.
InterruptDrained(w) ==
  /\ drain[w] \in Runs
  /\ IF Interruptible(drain[w]) THEN Interrupt(drain[w]) ELSE UNCHANGED rowVars
  /\ drain' = [drain EXCEPT ![w] = Stopped]
  /\ UNCHANGED <<pc, job, lease, request>>

(***************************************************************************)
(* The stale-run reaper and the deadline sweep.                            *)
(***************************************************************************)

\* AGENT_RUN_STALE_SECONDS pass with no heartbeat, event or update.
LivenessLapses(r) ==
  /\ Processing(r) /\ live[r]
  /\ live' = [live EXCEPT ![r] = FALSE]
  /\ UNCHANGED <<status, token, attempt, interruptions, deadline, ended, raised,
                 slotVars, request>>

\* Mutant of Reapable: a child waits until its root is settled.
ReapableAfterRoot(r) ==
  /\ Processing(r) /\ ~live[r]
  /\ RootOf[r] = r \/ Terminal(RootOf[r])

\* _reap_stale_candidate's checks under the locks: a child waits for its root.
Reapable(r) ==
  /\ Processing(r) /\ ~live[r]
  /\ RootOf[r] = r \/ ~Processing(RootOf[r])

ReapStale(r) ==
  /\ Reapable(r) /\ interruptions[r] < MaxRequeues
  /\ Interrupt(r) /\ UNCHANGED <<slotVars, request>>

\* At the cap interrupt_and_requeue commits the session, which ends the
\* reaper's savepoint: committing the savepoint afterwards raises, and what
\* was written since is rolled back.
ReapAtCap(r) ==
  /\ Reapable(r) /\ interruptions[r] >= MaxRequeues
  /\ raised' = raised \cup {r}
  /\ UNCHANGED <<status, token, attempt, interruptions, deadline, live, ended,
                 slotVars, request>>

\* Time passes deadline_at, and later closeout_expires_at.
TimePasses(r) ==
  /\ Open(r) /\ r \in Dated /\ deadline[r] \in {"ahead", "closeout"}
  /\ deadline' = [deadline EXCEPT ![r] = IF @ = "ahead" THEN "due" ELSE "elapsed"]
  /\ UNCHANGED <<status, token, attempt, interruptions, live, ended, raised,
                 slotVars, request>>

\* sweep_agent_run_deadlines asks the run to close once, then expires it.
RequestCloseout(r) ==
  /\ Open(r) /\ deadline[r] = "due"
  /\ deadline' = [deadline EXCEPT ![r] = "closeout"]
  /\ live' = [live EXCEPT ![r] = TRUE]
  /\ UNCHANGED <<status, token, attempt, interruptions, ended, raised, slotVars, request>>
\* Mutant of ExpireAfterCloseout: only a run in progress is expired.
ExpireProcessing(r) ==
  /\ Processing(r) /\ deadline[r] = "elapsed"
  /\ Settle(r, "expired") /\ UNCHANGED <<slotVars, request>>
ExpireAfterCloseout(r) ==
  /\ Open(r) /\ deadline[r] = "elapsed"
  /\ Settle(r, "expired") /\ UNCHANGED <<slotVars, request>>

(***************************************************************************)
(* People: approval and the two ways to cancel.                            *)
(***************************************************************************)

\* approve_run
Approve(r) ==
  /\ Open(r) /\ ensure_run_transition(status[r], "running", FALSE)
  /\ WriteStatus(r, "running")
  /\ UNCHANGED <<attempt, interruptions, deadline, ended, raised, slotVars, request>>

\* A cancellation reads an open row; it writes in a later step.
ReadForCancel(u, r, kind) ==
  /\ request[u] = Idle /\ Open(r)
  /\ request' = [request EXCEPT ![u] = [kind |-> kind, run |-> r]]
  /\ UNCHANGED <<rowVars, slotVars>>

\* Mutants of CancelRow: the row is not looked at again under the lock; the
\* legacy spelling is written.
CancelRowBlind(r) == WriteStatus(r, "canceled")
CancelRowLegacy(r) ==
  IF Open(r) THEN WriteStatus(r, "cancelled") ELSE UNCHANGED <<status, token, live>>

\* What set_status(CANCELED) leaves behind; a terminal row is not touched.
CancelRow(r) ==
  IF Open(r) THEN WriteStatus(r, "canceled") ELSE UNCHANGED <<status, token, live>>

\* _cancel_run_with_event: the event follows if the row is now canceled.
CancelRoute(u) ==
  LET r == request[u].run IN
  /\ request[u].kind = "route"
  /\ CancelRow(r)
  /\ IF status'[r] = "canceled" THEN Announce(r, "canceled") ELSE UNCHANGED ended
  /\ request' = [request EXCEPT ![u] = Idle]
  /\ UNCHANGED <<attempt, interruptions, deadline, raised, slotVars>>

\* async_cancel_open_runs_for_thread: the event goes first.
CancelThread(u) ==
  LET r == request[u].run IN
  /\ request[u].kind = "thread"
  /\ Announce(r, "canceled")
  /\ CancelRow(r)
  /\ request' = [request EXCEPT ![u] = Idle]
  /\ UNCHANGED <<attempt, interruptions, deadline, raised, slotVars>>

SlotStep(w) ==
  \/ \E r \in Runs : ClaimNext(w, r)
  \/ Heartbeat(w) \/ Prepared(w) \/ PrepareFails(w) \/ StepRaises(w)
  \/ Lease(w) \/ LeaseGivesUp(w) \/ LeaseWaits(w) \/ OwnerGone(w) \/ WaitTimesOut(w)
  \/ Complete(w) \/ Fail(w) \/ Cancel(w)
  \/ PauseRun(w) \/ RetryStart(w) \/ ClaimLost(w) \/ RecipeRaises(w)
  \/ Settled(w) \/ SettlementRaises(w) \/ HandleError(w) \/ HandlerRaises(w)

ProcessStep(w) ==
  Crash(w) \/ StopRunner(w) \/ DrainTimesOut(w) \/ TaskCancelled(w) \/ InterruptDrained(w)

MaintenanceStep(r) ==
  \/ LivenessLapses(r) \/ ReapStale(r) \/ ReapAtCap(r)
  \/ TimePasses(r) \/ RequestCloseout(r) \/ ExpireAfterCloseout(r)

UserStep(u) ==
  \/ \E r \in Runs, kind \in {"route", "thread"} : ReadForCancel(u, r, kind)
  \/ CancelRoute(u) \/ CancelThread(u)

Next ==
  \/ \E r \in Runs : Create(r) \/ Approve(r) \/ MaintenanceStep(r)
  \/ \E w \in Workers : SlotStep(w) \/ ProcessStep(w)
  \/ \E u \in Users : UserStep(u)

Spec == Init /\ [][Next]_vars

(***************************************************************************)
(* Properties.                                                             *)
(***************************************************************************)

\* A row has an owner only while it is running: queueing, pausing and
\* settling it take the token away, so no queued or paused row waits for an
\* owner that will never come back.
OwnedOnlyWhileRunning == \A r \in Runs : token[r] # NoWorker => status[r] = "running"

\* A slot inside a recipe with the current attempt of a row that is still
\* owned is that owner: an attempt that was fenced off can never look current.
FencedByAttempt ==
  \A w \in Workers : pc[w] = "executing" =>
    /\ job[w] \in Runs /\ lease[w] <= attempt[job[w]]
    /\ (lease[w] = attempt[job[w]] /\ token[job[w]] # NoWorker) => token[job[w]] = w

\* An interruption is counted up to the cap and once more by the one that
\* expires the run.
CapRespected ==
  \A r \in Runs :
    \/ interruptions[r] <= MaxRequeues
    \/ interruptions[r] = MaxRequeues + 1 /\ status[r] = "expired"

\* However slots crash, wait, time out or steal from one another, a recipe
\* is entered at most once for the admission and once per requeue.
AttemptsArePaidFor ==
  \A r \in Runs : attempt[r] <= 1 + interruptions[r] /\ attempt[r] <= 1 + MaxRequeues

\* A deferred run is not taken from the queue before the run it follows and
\* the older runs of its thread are settled.
DeferredRunsWait ==
  \A r \in Runs : (After[r] # NoRun /\ status[r] \in ACTIVE_RUN_STATUSES) =>
    \A s \in OlderInThread[r] \cup {After[r]} : Terminal(s)

\* Every settled run announced its outcome, and a completed, failed or
\* expired outcome is announced once and only if it is the run's status.
OutcomeAnnounced ==
  \A r \in Runs :
    /\ Terminal(r) => \E i \in DOMAIN ended[r] : ended[r][i] = status[r]
    /\ \A i \in DOMAIN ended[r] : ended[r][i] # "canceled" =>
         /\ status[r] = ended[r][i]
         /\ \A j \in DOMAIN ended[r] : ended[r][j] = ended[r][i] => i = j

\* A terminal row keeps its status, its attempt number and its interruption
\* count, and no one owns it again, whoever still holds its id.
TerminalIsFinal ==
  [][\A r \in Runs : Terminal(r) =>
       /\ status'[r] = status[r] /\ attempt'[r] = attempt[r]
       /\ interruptions'[r] = interruptions[r] /\ token'[r] = NoWorker]_vars

\* Only the slot that holds the current attempt completes a run.
CompletedByOwner ==
  [][\A r \in Runs : (status'[r] = "completed" /\ status[r] # "completed") =>
       \E w \in Workers : /\ pc[w] = "executing" /\ job[w] = r
                          /\ token[r] = w /\ lease[w] = attempt[r]]_vars

(***************************************************************************)
(* The contract this implements.  Everything between admission and outcome *)
(* is "open"; the interruption that expires a run grants nothing.          *)
(***************************************************************************)
Phase == [r \in Runs |-> IF Open(r) THEN "open" ELSE status[r]]
Allowance ==
  [r \in Runs |-> IF status[r] = "absent" THEN 0
                  ELSE 1 + (IF interruptions[r] > MaxRequeues THEN MaxRequeues
                            ELSE interruptions[r])]

Contract == INSTANCE RunContract WITH
  Outcomes <- TERMINAL_RUN_STATUSES,
  phase <- Phase, allowance <- Allowance, entries <- attempt

\* Slots, reaper, sweep, drain and cancellations together keep the contract.
ImplementsContract == Contract!Spec

(***************************************************************************)
(* Liveness.                                                               *)
(***************************************************************************)

\* A slot's heartbeat keeps the run alive.
Tended(r) == \E w \in Workers : pc[w] \in Heartbeating /\ job[w] = r
Abandoned(r) == Processing(r) /\ ~Tended(r)

\* Time passes and the supervisor reaps every few seconds.
ReaperFairness ==
  \A r \in Runs : /\ WF_vars(LivenessLapses(r) /\ ~Tended(r))
                  /\ WF_vars(ReapStale(r))
ReapedSpec == Spec /\ ReaperFairness

\* Time passes and the scheduler sweeps the deadlines every minute.
SweepFairness ==
  \A r \in Runs : /\ WF_vars(TimePasses(r))
                  /\ WF_vars(RequestCloseout(r)) /\ WF_vars(ExpireAfterCloseout(r))
SweptSpec == Spec /\ SweepFairness

\* A run that no slot has in hand does not stay in a processing status while
\* requeues remain: the reaper returns it to the queue.  A child waits while
\* its root is in hand, or while its root is stuck at the cap.
AbandonedIsRequeued ==
  \A r \in Runs :
    (Abandoned(r) /\ interruptions[r] < MaxRequeues)
      ~> \/ ~Abandoned(r)
         \/ Tended(RootOf[r]) \/ interruptions[RootOf[r]] >= MaxRequeues

\* Whatever slots and people do or fail to do, an admitted run is settled:
\* the deadline sweep alone is enough, in every open status.
EveryRunSettles == \A r \in Dated : (status[r] # "absent") ~> Terminal(r)

(***************************************************************************)
(* What the repository says of the run store and the code does not keep.   *)
(***************************************************************************)

\* "Durable ownership fence for one recipe execution attempt": while a slot
\* is inside the recipe with the current claim, only its own step fails the
\* run.
OwnerFailsItsRun ==
  [][\A r \in Runs, w \in Workers :
       (pc[w] = "executing" /\ job[w] = r /\ Holds(w) /\ status'[r] = "failed")
         => pc'[w] # "executing"]_vars
=============================================================================
