# Verification of the run lifecycle of Illospace

Illospace runs language-model agents on behalf of people and of its own
schedules. Everything an agent does hangs on one durable database row, the
*AgentRun*: it is queued, claimed by a runner slot in some worker process,
executed under a lease, and settled with an outcome that other parts of the
system wait for. Many processes write that row without a coordinator. This
directory models the row and all of its writers, and what is built on top of it:
the fan-out of workers, the event log and the steering of a run in progress, the
obligations a run leaves behind and their notices, the scheduler and the
recurring cycles that start runs by themselves. The models are in TLA+; TLC
checks them on small instances and TLAPS proves the main results for instances
of any size.

## Contents

| File | What it is |
|---|---|
| `RunStatus.tla` | the statuses of a run, their groups, the transition table |
| `RunContract.tla` | abstract: what an admitted run promises its callers |
| `RunLife.tla` | abstract: what the rest of the system knows of a run's life |
| `RunContractProofs.tla` | what follows from `RunContract` alone |
| `AgentRun.tla` | the row and everyone who writes it; implements `RunContract` |
| `AgentRunMC.tla`, `AgentRun*.cfg` | instances of `AgentRun` for TLC |
| `AgentRunProofs.tla` | theorems about `AgentRun`, proofs for TLAPS |
| `FanIn.tla` | one worker fan-out and its continuation |
| `FanInMC.tla`, `FanIn*.cfg` | instances of `FanIn` for TLC |
| `FanInProofs.tla` | theorems about `FanIn`, proofs for TLAPS |
| `Steering.tla` | the event stream of a run, steering messages and their cursor, two locks |
| `Inbox.tla` | abstract: what the steering of a run promises; `Steering` implements it |
| `Notices.tla` | one obligation and the outbox of its notices |
| `Scheduler.tla` | the fires of one scheduled job: ticks, claims, steps, retries, agent runs |
| `Cycles.tla` | the occurrences of one recurring cycle |
| `CycleContract.tla` | abstract: what a cycle promises its owner; `Cycles` implements it |
| `XMC.tla`, `X*.cfg`, `XProofs.tla` | for `Steering`, `Notices`, `Scheduler` and `Cycles`: its instances and its proofs |
| `PROJECT.json` | runs, mutants, the map from definitions to source lines, hazards, findings, theorems |

To model-check: `tlc -config AgentRunOne.cfg AgentRunMC`. To check the proofs:
`tlapm AgentRunProofs.tla`, and so on for each `*Proofs.tla`.

## Inventory of the system

Paths are relative to `src/brain/`.

### The run core (modelled)

| Part | State it keeps | Operations | Hard behaviour |
|---|---|---|---|
| status contract (`contracts/statuses.py`, `systems/runs/status.py`) | none | `ensure_run_transition` | terminal statuses are final; the interruption may re-queue what a plain write may not |
| run store (`systems/runs/store.py`) | the row: status, `execution_token`, `execution_attempt`, interruption count, deadlines, heartbeat; the event log | `create_run`, `claim_next`, `execution_lease`, `heartbeat_run`, `set_status`, `interrupt_and_requeue` | compare-and-set by several processes; a fenced attempt that comes back; the cap on requeues |
| engine (`systems/runs/engine.py`) | none beyond the row | `run_existing`, `complete`, `fail`, `cancel`, start retry | a result that arrives after the claim was lost |
| runner slots, supervisor, reaper (`systems/runs/cortex/runner.py`) | in memory: which run a slot has in hand | claim, prepare, execute, settle surfaces, error handler, `reap_stale`, stop and drain | process death anywhere; a drain that races the slots; a reaper that races everybody |
| interruption (`systems/runs/interruption.py`), worker process (`systems/cortex/worker.py`) | what a drain left in flight | requeue by id | acting by run id when the run has moved on |
| deadline watchdog (`systems/runs/deadlines.py`) | `deadline_at`, `closeout_expires_at` | ask to close once, then expire | must settle every open status |
| people (`app/api/routers/cortex/_run.py`, `systems/runs/cancel.py`) | none | approve, deny, cancel one run, cancel a thread | a row read before the lock and written after it |
| fan-out (`systems/runs/chantier_continuation.py`, `evidence_health.py`, `tool_catalog/handlers/workers.py`) | rows of the workers, events on the anchor, the evidence receipt | spawn, the hook of every terminal write, recovery by the watchdog | no coordinator: whoever is last must notice; an admission that fails inside someone else's transaction |

What makes these correct: a row is executed by at most one current attempt, and
no more often than its requeue budget allows; a settled row never changes; its
outcome is announced; an abandoned run comes back; every admitted run is settled
in the end; a fan-out that asked to be joined is continued exactly once, knowing
of every worker and told truthfully whether any of them is missing.

The parts interact through the database only. A runner slot calls the store and
the engine; the reaper, the sweep, the drain and the API routes call the store
from other processes; each terminal write calls the fan-out hook inside its
transaction, and the hook admits a new run through the work intake. Row locks
are taken in ascending order of id, then the advisory lock of the event log.

### Around the core (modelled)

| Part | State it keeps | Operations | Hard behaviour |
|---|---|---|---|
| event log and steering (`store.py` 1495-1632, `steering.py`, `engine.py`) | numbered events, a cursor in the run's metadata | append under the advisory lock, drain, boundary commits, both cancellations | overlapping attempts drain the same inbox; an attempt's two sessions lock each other out |
| obligations (`open_asks.py`, `run_deferrals.py`, `open_ask_settlement.py`, `obligation_notices.py`) | the ask, an outbox row per condition | record, answer, route, expire; claim, read, send and mark by delivery passes | an answer from Slack that is unclear; a claim taken over while its holder sends; a crash between post and mark |
| scheduler (`app/scheduler/planner.py`, `runtime.py`, `executor.py`, `detached_agent_runs.py`, `daemon.py`) | job and run rows, leases, attempts, completed steps | tick, drain, resume; plan, claim, step, settle, reconcile | commands run inside a transaction that may be rolled back; rows are read once and written later |
| cycles (`systems/cycles/service.py`, `memory.py`, `scheduler.py`, `runs/cycle_settlement.py`) | the cycle's next slot, a row per occurrence | wake, run now, materialize, claim, admit, recover, settle, delete | one loop, its recovery and callers reach the same occurrence; settlement is best effort and decides on an unlocked read |

What makes these correct: a message is taken once and in order, by somebody
unless the run ends; a notice is neither lost nor posted twice, and the outbox
says what Slack shows; a step that succeeded is run again only by a drain that was
told to (`--no-resume`), and a fire is settled; a cycle never runs more occurrences than it may, starts each at most
once and settles every one.

### Left out

Work intake (its effect is the insert of a run, and the refusals that `FanIn`
and `Cycles` model; building a request is data), recipes and the model loop (what a model does is arbitrary: `AgentRun` takes a
recipe's outcome as a choice), artifacts and evidence content, read models,
Slack and external agents, memory and knowledge, vault, skills, domains,
meetings, the rest of the API and the CLI, migrations, the frontend and the
deployment scripts: data processing, display or I/O with no protocol of the
run's life in it. That is by far the greatest part of the repository's lines,
and the share of them that the models stand for is small for that reason.
`PROJECT.json` lists every part with the reason.

## How the modules correspond to the code

### RunStatus

Constants of `contracts/statuses.py` under their own names, and
`ensure_run_transition(current, target, requeue)`: the table of
`systems/runs/status.py`, where `requeue` says that the caller is the
interruption, which may return a run in progress to the queue.

### AgentRun

One action is one database transaction: the code locks the row, reads it again
under the lock, writes it with its events and commits. Two things are *not* one
action because the code lets others in between: a slot's successive
transactions, kept apart by `pc`, and a cancellation, which reads the row
without a lock (`ReadForCancel`) and writes it in a later transaction.

| Variable | In the code |
|---|---|
| `status`, `token`, `attempt` | `AgentRunRow.status`, `execution_token`, `execution_attempt` |
| `interruptions` | `metadata.interruption_count` |
| `deadline` | where now stands relative to `deadline_at` and `closeout_expires_at`: ahead, due, close-out requested, close-out elapsed |
| `live` | whether `updated_at`, the heartbeat or the last event is newer than the stale cutoff |
| `ended` | the terminal events of the run, in the order of the log |
| `raised` | history: the runs on which a pass of the reaper raised |
| `pc`, `job`, `lease` | a slot's place in `_process_claimed_run_async`, its run, the attempt number its claim carries |
| `drain` | the process: up, told to stop, drain timed out with a run in flight, stopped |
| `request` | a cancellation between its read and its write |

A slot goes idle -> preparing (the claim is committed, the project context is
prepared) -> leasing (`execution_lease`: take the claim, give up, or wait for an
owner and retry) -> executing (inside the recipe) -> settling (projections to
the surfaces) -> idle. Every step may raise into `erred`, the exception handler,
which fails the run *by its id*. `Crash` loses the slot's state and nothing
else. A recipe's result is one of `Complete`, `Fail`, `Cancel`, `PauseRun`,
`RetryStart`, `RecipeRaises`, or `ClaimLost` when the claim is no longer
current. `MarkRunFailed`, `WriteStatus`, `Settle` and `Interrupt` are the shared
writers, as in the store.

Abstractions: time is two booleans per row (stale or not, which deadline has
passed), changed by actions that may happen whenever the row is open. Locked
rows are skipped by `claim_next`, so any eligible row may be claimed. The
project context and the surfaces are steps that succeed or raise. Events other
than the terminal ones only matter as evidence of life. Runs, slots and requests
are sets; the tree of runs (`RootOf`), the deferral (`After`) and the age order
in a thread (`OlderInThread`) are constants, because nothing rewrites them after
the insert.

### RunContract

What a caller who knows only the API may rely on. A run is absent, open or has
an outcome; entering a recipe uses up an allowance, which admission starts at
one and a requeue raises by one up to the cap; the outcome comes once and
ends everything. Slots, leases, tokens and reapers are gone. `AgentRun`
implements it with `Phase` and `Allowance` as the refinement mapping.

### RunLife

What is left of the contract for those who start a run or wait for it: it is
admitted once and settled once. Agent runs appear in `FanIn` (`state`),
`Steering` (`status`), `Scheduler` (`agent`) and `Cycles` (`agent`) as variables
that change of their own accord. It is a theorem on both sides that they agree:
the contract implements `RunLife`, `AgentRun` implements the contract, and each
of the four modules implements `RunLife` with its own variable.

### FanIn

One anchor and the workers it may spawn. Here a terminal write is *not* atomic:
`LockBoundary` takes the locks of `lock_terminal_boundary`, `Observe` writes the
status and runs the hook's queries, which return what other transactions have
committed (READ COMMITTED), and `Commit` or `RollBack` ends the transaction. The
status, the evidence receipt, the continuation and its event become visible
together or not at all. The lock on the anchor's row is `owner`.

`Hook` is `queue_chantier_continuation_for_terminal_run`: it records the
evidence (`EvidenceHealth`), looks whether the barrier is complete (`Barrier`)
and whether a continuation is due and not queued yet (`Wanted`), and admits it,
notes that the owner has to sign in (`blocked`), or raises, which is `RollBack`.
`Recover` and `GiveUp` are the watchdog's `recover_auth_blocked_continuations`.
`Spawn` takes the anchor's lock but does not look at the anchor's status: a
recipe that outlives its run can spawn late. `CancelRun` locks the one row and
runs no hook, as both cancellation routes do. Credentials, the declaration of a
chantier and the deletion of its thread are the surroundings, which change at
any moment. Workers spawn no workers of their own (their role has no
`spawn_worker` tool), so one level is all there is. The terminal statuses
`failed` and `expired` are one here: the hook treats them alike.

How a member comes to its terminal write, and who writes it, is `AgentRun`'s
subject; `FanIn` assumes of it only that an open run may be settled once, which
is `RunLife` (theorems `RowsLive` and `MembersLive`).

### Steering

One run, from its first attempt on. An action is a statement that may wait for
a lock or a commit, so that what is locked between them is locked in the model:
`stream` is the advisory lock of the event log, `row` the lock on the run's row.
An attempt (`Slots`) appends activity in the session it keeps open
(`Activity`), commits it before a tool (`Boundary`), and drains in a session of
its own (`ReadSteering`, `TakeSteering`: the cursor is written under the row
lock). `TakeOver` is a successor that is given the claim while the old attempt
still runs. `CancelRow`, `CancelEvent` are `_cancel_run_with_event`;
`ThreadEvent`, `ThreadRow` are the cancellation of a thread, which takes the two
locks in the other order. `DeadlockVictim` is PostgreSQL's detection, which sees
cycles between transactions; it does not see the two sessions of one attempt,
whose wait is in the process.

`Inbox` is what a person who writes to a run may rely on: messages have the order
in which they were accepted, a reader takes a batch from the front, and a message
is taken once. Numbers, cursor, locks and sessions are gone. A message is sent
when its number is committed (`seqOf`), the order is that of the numbers, and
`takenBy` is `drained`.

### Notices

One ask or deferral. Its transactions (`AdmitAsk`, `RecordDeferral`,
`AnswerDelivered`, `InboundAnswer`, `Route`, `ExpireDeferral`) write the ask and
its notices together. A delivery pass is a sequence of transactions and calls of
Slack: select, `Claim` by compare-and-set, `Reread`, `ReadDestination` (is the
message there already?), `FinalCheck`, send, and `MarkDelivered`, `Requeue` or
`DropNotice`. Passes overlap, die between any two steps, and take a stale claim
over. A pass is identified with the stamp it writes in `claimed_at`. Time is
three comparisons: the delay is over, the claim is stale, the deferral is old.
`Sweeps` says whether anybody runs passes besides the tasks that a commit
starts. In the code nobody does (see Findings): `outbox` assumes sweeps, so
that safety is shown for more behaviours, and `lost_notice` does not.

### Scheduler

A tick of the daemon, a drain or a resume is *one* transaction around
everything it does, the commands of the steps included. `tick[p].tx` is what it
has written and `db` what is committed; `Commit` copies the one into the other
and `TickFails` forgets it, while the commands (`ran`) and agent runs (`agent`)
it started remain. Rows are read without a lock: `seen` is the reading a tick
decides on, and it waits for the job's row (`lock`) only at its first write. Of
the lease only the unique key matters: no lease is committed unreleased, so no
tick ever finds an expired one. With the default retry policy the backoff is
zero, and a retry follows in the same tick.

The loop over the steps is at `tick[p].at`; `done` is the set of steps whose row
says `settled_success`. `NextStep` passes over those if the tick resumes
(`Skipped`, the early return of `_async_run_step`). A drain, by the command line
or by the daemon, may be started with `--no-resume` (`NoResume` is the set of
such ticks): it runs every step of what it claims from the first on, and a step
that fails this time is no longer done while later ones still are.
`async_run_scheduler_job` and `async_resume_scheduler_run` always resume
(`Resumes`). So `StepNotRepeated` excepts the drains that do not, and
`AttemptsCountExecutions` does not: a claim starts a step once, resumed or not.

`lost`, `unread` and `stale` are
history: the fires that a rolled-back tick has touched, those whose command
started an agent run and then failed, and those written on an outdated reading. The
promises about attempts except the first and the last, the one about agent runs
that are awaited excepts all three.

### Cycles

One cycle, its scheduler loops and the requests that run it now. `lock` is the
row of the cycle, taken FOR UPDATE by `ClaimRun` and held to the end of the
admission (`Admit`, `Reject`, or `Abandon` when it raises, times out or dies).
Whoever inserts an occurrence (its foreign key needs the row) or settles one
(the cycle's last status is written) waits for it; `Recover` skips an occurrence
that an execution has locked and `Materialize` a locked cycle. What an execution
writes before its commit is not visible, so a claimed occurrence is `queued`
until `Admit`. A settlement is a call (`call`): `BeginSettlement` reads the
occurrence, `WriteSettlement` writes it later or `SettlementFails` loses it, and
the statuses it may be given are those of the slot's three calls, the error
handler's included. A cancellation settles first and commits or loses its own
transaction afterwards. Time is the age of an occurrence: recent, stale, beyond
the catch-up window. `Suspects` are occurrences whose execution may raise every
time. `pending_approval` is among the active statuses of `status.py`, as in
`Active`, but no code writes it to an occurrence, so no state has it. How the agent run comes to its end is `AgentRun`'s subject.

`CycleContract` is the cycle as its owner sees it: an occurrence waits, works
while fewer than `Capacity` do, is settled for good, and its work ends once. The
mapping reads both off the status of the occurrence and of its agent run; a claim
that is not committed, a recovery in progress, a pending settlement and a
cancellation between its two transactions are no steps of it.

## Runs

States are distinct states found by TLC.

| Run | Instance | What it shows |
|---|---|---|
| `one_run` | one run, two slots, one cancellation, cap 1; 301k | `TypeOK`; `FencedByAttempt`: an attempt that was fenced off never looks current again; `AttemptsArePaidFor`: one execution for the admission and one per requeue, never more; `OutcomeAnnounced`; `TerminalIsFinal`; `CompletedByOwner`; `ImplementsContract`; `EveryRunSettles`: the deadline sweep alone settles every run, even if no slot ever moves again |
| `tree` | a root and a child, one slot, the root's deadline may come; 356k | `AbandonedIsRequeued`: what no slot has in hand does not stay in progress while requeues remain; the reaper leaves a child alone while its root is in progress |
| `deferred` | two runs of a thread, the second deferred, two slots, cap 0; 682k | `DeferredRunsWait`: a deferred run does not start before what it follows is settled |
| `fan_in` | an anchor and two workers, everyone may be canceled; 91k | `ContinuedUnlessCanceled`: whoever settles last, a joined fan-out is continued or waits for a sign-in; `BlockedRecovers`: what waited is queued or given up; `EvidenceHonest`, `QueuedOnce`, `NoWorkerLeftBehind`: what a continuation is told and handed is true, also with late workers and cancellations |
| `steering` | two messages, two attempts, a cancellation of either kind; 272k | `DrainedOnce`; `ImplementsInbox`: accepted in one order, taken from the front, once; `SteeringIsTaken`: a committed message reaches an attempt unless the run ends or locks itself out |
| `outbox` | two conditions, two passes, two runs, two faults; 740k | `NoSecondPost`, `HonestOutbox`, `SettledDeferralStays`; `DeferralIsNoticed`: without a fault the task of the commit settles the notice |
| `ticks` | one fire of two steps, two attempts, the daemon and a caller whose drains do not resume, a failed tick; 520k | `OneRunAtATime`, `StepNotRepeated`, `AttemptsCountExecutions`, `AgentAwaited`, `SettledIsFinal`; `FireSettles` |
| `occurrences` | two occurrences, capacity 1, a loop and a caller, one settlement at a time, one execution that may always raise, one death; 232k | `CapacityRespected`, `ImplementsContract`, `AgentCounted`, `CompletedHonestly`, `SettledStays`; `OccurrenceSettles` although settlements fail and ticks die; `SlotIsTaken` although an execution that raises ends every tick before the slot, until its catch-up window is over |
| `fence`, `lost_continuation`, `lock_cycle`, `lost_notice` | minimal instances | the disagreements below; TLC finds a counterexample in each |

Each property of a passing run is accompanied by a mutant in `PROJECT.json`: a
plausible slip in the code (a lock on the wrong row, an uncounted requeue, a
row not looked at again) under which TLC finds the property violated. Mutants
are the definitions whose comment begins "Mutant of"; nothing uses them.

### Bounds

- *Slots*: two are enough for every race over one row, since a conflict is
  between the owner of an attempt and one other slot; a third would be another
  slot without the claim. The theorems hold for any number.
- *Cap*: one requeue gives a first attempt, a second attempt that the first one
  races, and the expiry at the cap. `deferred` uses cap 0, as requeues do not
  bear on the order between runs other than by keeping them open.
- *Requests*: one cancellation, which reads an open row and writes it after a
  slot, a reaper or the sweep has settled it.
- *Runs*: one for the life of a row (rows share nothing but slots); two where
  the property relates runs (`tree`, `deferred`).
- *Workers of a fan-out*: two, so that two can finish at once, or one can be
  done, or canceled, while the other is late.
- *Deadlines*: `Dated` names the runs whose deadline may come while the run is
  watched: all of them, but in `tree` the root's only, so that a root stuck at the
  cap is settled and its child set free.
- *Steering*: two messages, so that one can be committed while another is
  drained; two attempts, so that an old one and its successor overlap; `MaxTop`
  keeps attempts from opening new event transactions for ever.
- *Notices*: two conditions of one ask, two passes that can take a claim over,
  two faults (a crash of one pass and an unclear answer of the other).
- *Scheduler*: one fire, as fires of a job share only its lock; two ticks are a
  race, two steps a step that is done before one that fails, two attempts a
  retry; one failed tick; two agent runs, the second started by a resume. The
  daemon's drains resume and the caller's do not, while what the caller does for
  one run resumes; the other way round (`NoResume = {daemon}`, 508k states) the
  same properties hold.
- *Cycles*: two occurrences against capacity 1, a recovery that looks at one row
  at a time, so that one row can hide another; one call of settlement at a time
  with the loop and the caller. (The inductive invariant was also checked with
  two loops and two settlements, 7.7 million states.)
- In `AgentRun` no counter needs a bound in a guard: attempts are bounded by
  `AttemptsArePaidFor`, interruptions by `CapRespected`, and a request appends at
  most one event to a run that was open when it was read.
- Symmetry of slots is used in `deferred` only, which has no liveness property.

Deadlock is checked wherever the system goes on for ever: processes are stopped
and started again, credentials change, ticks come. A run with its messages
(`Steering`) and an ask with its notices (`Notices`) come to an end, and there
`CHECK_DEADLOCK FALSE` says so.

### Fairness

`ReapedSpec`: time passes for a row nobody tends (`LivenessLapses`), and the
reaper takes a row that stays eligible (`ReapStale`). The supervisor of each
worker reaps every few seconds and the API hosts another reaper every sixty
seconds, so neither depends on the process that died. `SweptSpec`: time passes,
and the sweep takes a row whose deadline has passed; it runs every minute from
the same host. Nothing is assumed of the slots or of people. Both assume that
the row's lock is free often enough, and that the transaction for the row does
not raise (see the disagreements below for a case in which it does).

`FairSpec` of `FanIn`: the watchdog recovers (weak fairness of `Recover` and
`GiveUp`); an open member meets a terminal write in the end, because of
`EveryRunSettles` (strong fairness of `LockBoundary`, since others take the lock
in between); an admission that is refused only in passing is not refused for
ever (strong fairness of `Commit`). `BlockedRecovers` also assumes that the
owner stays signed in from some moment on.

`Steering`: a request that has begun goes on, an attempt drains on every turn
and reaches its next boundary, and the database grants locks in turn (strong
fairness where others take them in between). Nothing makes an attempt finish or
a cancellation come. `Notices`: the event loop runs its tasks and a pass goes
on; nothing is assumed of Slack, of people or of sweeps. `Scheduler`: the daemon
ticks, an open transaction goes on and gets a row lock in turn, an agent run
settles (`EveryRunSettles`). `Cycles`: the loop ticks (`while` in `_scheduler_loop`, after a
failed tick too), an execution comes to its end or to its time-out, time passes,
agent runs settle, a cancellation ends; settlement calls may fail for ever.

## What is proved

`AgentRunProofs.tla`, for every finite set of slots, every set of runs and
requests, every cap, tree, deferral and choice of deadlines. The only assumptions are those of
`AgentRun.tla`: the sentinels are distinct from the runs and slots, `MaxRequeues`
is a natural number, the set of slots is finite, `RootOf`, `After` and
`OlderInThread` are functions on runs, `Dated` is a set of runs.

| Theorem | States |
|---|---|
| `TypeCorrect` | `[]TypeOK` |
| `OwnershipTheorem` | `[]OwnedOnlyWhileRunning` |
| `FencingTheorem` | `[]FencedByAttempt` |
| `CapTheorem` | `[]CapRespected` |
| `AttemptsTheorem` | `[]AttemptsArePaidFor` |
| `AnnouncementTheorem` | `[]OutcomeAnnounced` |
| `DeferralTheorem` | `[]DeferredRunsWait` |
| `FinalityTheorem` | `TerminalIsFinal` |
| `CompletionTheorem` | `CompletedByOwner` |
| `RefinementTheorem` | `Spec => Contract!Spec` |
| `RowsLive` | `Spec => RunLife!Spec` |
| `BudgetTheorem` | `[](attempt[r] <= MaxRequeues + 1)` |

The inductive invariant `IInv` conjoins the properties with what they need:

- `Typed`: the types, and that a slot outside "idle", a timed-out drain and a
  request name a row that has been inserted;
- `FreshUntilCreated`: a row that is absent has no attempt, count, event or owner;
- `ExecutionsGranted`: for each run, attempts already begun, plus the slots that
  have claimed it and may still enter its recipe (`Pending`), plus one if it is
  queued, is at most one more than its interruptions. This is why
  `AttemptsArePaidFor` holds: that property is not inductive, since it does not
  say how many slots stand before the lease; the sum is kept by each step, as a
  claim moves one unit from the queue to `Pending`, a lease from `Pending` to
  the attempts, and only an interruption adds one;
- `DependenciesExist` and `DeferralKept`: what a deferred run waits for was
  created before it, and is settled as soon as some slot has taken the deferred
  run, even if the run is back in the queue when that slot reaches the lease.

Each step writes at most one row (`RowStep`), so that the invariants that speak
of one run are proved for the written row and are immediate for the others. The
step from `IInv` to `IInv'` has one case per action. The refinement is proved
the same way: a step of the row is a step of the contract or leaves it alone.
`RowsLive` and `BudgetTheorem` are not proved from the row at all: they are
`ContractIsLife` and `ContractBudget` of `RunContractProofs.tla`, facts about the
contract, taken along the refinement.

`FanInProofs.tla`, for every set of workers, from the assumptions of `FanIn.tla`
(the anchor is no worker, `Nobody` is no run, only members are cancelable):

| Theorem | States |
|---|---|
| `FanInTypeCorrect` | `[]TypeOK` |
| `QueuedOnceTheorem` | `[]QueuedOnce` |
| `EvidenceTheorem` | `[]EvidenceHonest` |
| `LeftBehindTheorem` | `NoWorkerLeftBehind` |
| `ContinuationTheorem` | `[]ContinuedUnlessCanceled` |
| `MembersLive` | `Spec => RunLife!Spec` |
| `CancelsInTurnContinue` | `Spec /\ CancelsInTurn => []BarrierContinued` |

Here the invariant is the lock discipline. `LockDiscipline`: a terminal
transaction is in progress exactly for the run that holds the anchor's lock, its
run is open until it commits, and what its queries have returned is the
committed state, except for its own write and for open workers that were canceled
since, because a cancellation takes no lock on the anchor. `BarrierSeen` is the
step on which everything turns: a barrier that looks complete holds no open
worker, so nothing can have been canceled since, and what the transaction has
seen is what its commit leaves behind. `Paired` (a continuation and its event are
committed together) makes `QueuedOnce` inductive, and `JoinsSpawned` ties
`join_parent` to workers that exist. `ContinuationTheorem` excepts cancellations:
the run `lost_continuation` shows how it fails with them, and
`CancelsInTurnContinue` what would have to change (see below).

`SteeringProofs.tla`, for any messages, attempts and cancellations: `TypeCorrect`,
`MessagesDrainedOnce`, `NumbersFollowCommits`, `SteeringIsAnInbox`,
`OutcomeIsFinal`, `SteeredRunLives`, `CyclesAreKnown`. The
invariant says who holds which lock at which place (`StreamHeld`, `RowHeld`), that
the holder of the stream has the one number above `top` and no number is above it
(`LogBounds`), and that what a drain has read is everything
between the cursor and the last message it found (`NoGap`); without `NoGap` the
cursor could pass a message unread, and `DrainedOnce` would not be inductive.
For the refinement of `Inbox`, a commit that publishes a message is a `Send`
because `LogBounds` puts its number above all others; the commit of a drain is a
`Take` because of `NoGap` and because what has been drained is what the cursor has
passed; every other step leaves the inbox alone. `CyclesAreKnown` looks at what
each actor holds and wants at each place: of the pairs that wait for each other,
those of two transactions satisfy `Deadlocked`, for which the database picks a
victim, and what is left is `Hung`, the finding.

`NoticesProofs.tla`, for any conditions, passes, runs and faults: `TypeCorrect`,
`PostedOnce`, `OutboxIsHonest`, `SettledStays`, `StampsHold`,
`TimelySendsPostOnce`. The invariant follows the claim:
a pass works on the condition it took (`OnItem`), who is about to send holds the
claim or was overtaken (`SendHeld`), nothing was posted before it does (`Unsent`),
and who is about to record a delivery has seen the message or Slack's answer
(`Seen`). A second invariant follows the stamps (`Stamps`): a pass selects a notice
once, its own stamp is never on a notice that it has still to do, and a stamp that
was read from a notice is not written on it again, so a claim taken over by
comparing `claimed_at` is the stale claim that was selected.

`SchedulerProofs.tla`, for any number of fires, steps, attempts, ticks and faults:
`TypeCorrect`, `CommandsRunAlone`, `RetriesHaveAttempts`, `ExecutionsAreCounted`,
`AgentsAreAwaited`, `StepsRunOnce`, `SettlementIsFinal`, `DispatchesLive`,
`UpdatesKeepSettled`, `UpdatesKeepCount`. The invariant speaks of an
open transaction (`TickInv`: who has written holds the lock, what it wrote agrees
with the commands it ran), of a committed row that no open transaction has
written (`DbInv`) and of an agent run (`AgentInv`). `Paid` counts by the place of
the loop: the attempt of a run in progress is not yet used for the steps from `at`
on, which holds whether or not the tick resumes. `StepsRunOnce` needs that a tick
that resumes has every committed step among those of its own row (`Written`), also
when it read the run before they were committed.

`CyclesProofs.tla`, for any number of occurrences, loops, callers and settlements,
any capacity and any limit of the recovery: `TypeCorrect`, `CapacityHolds`,
`AgentsAreCounted`, `CompletionIsHonest`, `OccurrencesStartOnce`, `SettlementStays`,
`CycleKeepsContract`, `AgentRunsLive`.
`CapacityRespected` is not inductive: a count made before the commit must still
be true at the commit. `LockInv` (between claim and commit the lock is held) and
`RoomInv` (what was claimed is queued, and there is room for it) say so; `RowStep` classifies
what any step may do to a row, and each property follows from it. `CallInv` ties a
settlement in progress to an agent run that has ended or that its cancellation
holds. The refinement of `CycleContract` goes by the kinds of `RowStep` too: the
commit of an admission is a `Start`, with the room that `RoomInv` kept for it; a
tick that recovers several occurrences is one `Settle` of all of them.

### What would remove the exceptions

Some of the properties hold with an exception, or are refuted. For those of three
modules, theorems name a change after which they hold without one. The changes are
hypotheses about behaviours, none of them true of the code as it is; TLC was used
to find out which suffice, and that behaviours satisfying them still reach the
interesting states.

| Theorem | Hypothesis | Then |
|---|---|---|
| `CancelsInTurnContinue` | a cancellation waits for the anchor's lock and does not settle the last member | every joined fan-out is continued (the finding `lost_continuation`) |
| `TimelySendsPostOnce` | a request to Slack is over before its claim is older than the grace | a notice is posted at most once, and the outbox is exact |
| `UpdatesKeepSettled`, `UpdatesKeepCount` | the scheduler reads rows for update, and resumes none whose agent run is in progress | settled runs never change; attempts pay for every command but those of a rolled-back tick |

For the fan-out it is not enough that a cancellation is never the last write: TLC
shows one that commits between the queries of the last transaction and its commit,
whose hook still counts it as open. For the notices the timeout of one HTTP
request is not the bound that is needed: a claim bears the time its *pass*
started, so the grace has to cover everything the pass did before.

`OwnedOnlyWhileRunning`, `CapRespected`, `OutcomeStays`, `RetryHasAttempt`,
`CommitsInOrder` and `StartedOnce` are parts of these arguments that are stated as
theorems and are in no cfg (the last two follow from the refinements that are);
neither are the theorems on `RunLife`, on stamps and lock cycles, and those of the
table above. Everything else that is proved is also model-checked by a run.

Only model-checked: the liveness properties (`AbandonedIsRequeued`,
`EveryRunSettles`, `BlockedRecovers`, `SteeringIsTaken`, `DeferralIsNoticed`,
`FireSettles`, `OccurrenceSettles`, `SlotIsTaken`), which rest on fairness, outside
this prover's reach.

## Findings

Each is a run whose property states what the repository says and which TLC
refutes on the model of what the code does; `PROJECT.json` quotes the lines.

- `fence`: the exception handler of a slot fails the run by its id without a
  claim. A slot whose wait for the lease timed out fails the run that another
  slot is executing.
- `lost_continuation`: cancelling the last open member of a fan-out runs no hook,
  and the promised continuation never comes.
- `lock_cycle`: an attempt whose events are uncommitted drains in a second session,
  which waits for a cancellation that waits for the events. The commits around
  tools avoid this cycle for tools only.
- `lost_notice`: the sweep that is to be the fallback of a lost delivery task is
  called by nobody.

Met while modelling, visible in the actions and without a run of their own:
cancelling a thread appends `run.canceled` before it looks at the row under its
lock, so a completed run may carry both outcomes in its log; at the requeue cap
the interruption commits inside the reaper's savepoint and the pass raises (the
deadline sweep settles the run); the supervisor cancels the slots' tasks one
interval after the stop although a drain is meant to let them finish; with the
thread of a chantier deleted the hook's admission is refused for good, and every
terminal write of the last member is rolled back; a rolled-back tick or an
outdated reading lets a scheduled step run more often than `max_attempts`
(`AttemptsCountExecutions` excepts those); a settlement of a cycle's occurrence that
read it early may still change its outcome after a recovery settled it
(`SettledStays` excepts occurrences with an agent run).

## Plan

Done: all modules above, with their proofs. Left, in this order:

1. The safety halves of the liveness properties: for each of them, that the guard
   of a fair action holds in every state from which progress is owed, and the
   measure that its steps lower; TLC then has only the fairness argument left.
2. `Sweep`: the passes of reaper and sweep over several candidates, with a
   candidate that raises; it refines the per-row fairness that `AgentRun` assumes.
3. Work intake: idempotency keys of admissions from several sources.
4. The failure guard, which may pause a cycle or a job, with `Cycles` and
   `Scheduler`; agent runs bound to an occurrence by a continuation, which joins
   `FanIn` and `Cycles`.
