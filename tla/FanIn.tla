-------------------------------- MODULE FanIn --------------------------------
(***************************************************************************)
(* One worker fan-out: an anchor run, the workers it spawns, and the one   *)
(* continuation that is to follow when all of them have ended              *)
(* (runs/chantier_continuation.py).  There is no coordinator: whoever      *)
(* settles the anchor or a worker, in whichever process, runs the hook     *)
(* queue_chantier_continuation_for_terminal_run inside its own             *)
(* transaction.  The hook sees what other transactions have committed, so  *)
(* everything rests on the lock on the anchor's row that each of them      *)
(* takes first (store.lock_terminal_boundary).                             *)
(***************************************************************************)
CONSTANTS
  Anchor,       \* the run that spawns the workers
  Workers,      \* the workers it may spawn
  Cancelable,   \* the runs a person may cancel while the fan-out is under way
  Nobody

Members == {Anchor} \cup Workers

ASSUME MembersAssumption == Anchor \notin Workers /\ Nobody \notin Members
ASSUME CancelableAssumption == Cancelable \subseteq Members

VARIABLES
  state,      \* the committed status of each run, "absent" before its insert
  recipe,     \* some slot is inside the anchor's recipe
  joins,      \* the workers spawned with join_parent
  scoped,     \* _resolve_chantier_scope finds a chantier
  signedIn,   \* the provider credential of the owner is usable
  thread,     \* the thread a chantier continuation would go to exists
  receipt,    \* evidence_health of the anchor: "none", "ok" or "degraded"
  queued,     \* the anchor's ..._continuation_queued events
  followUps,  \* the continuation runs admitted
  blocked,    \* the anchor has a run.continuation_auth_blocked event
  givenUp,    \* ... and a run.continuation_recovery_failed event
  owner,      \* the transaction that holds the lock on the anchor's row
  txn         \* the terminal transactions in progress, one per run

surroundings == <<recipe, joins, scoped, signedIn, thread>>
followVars == <<receipt, queued, followUps, blocked>>
vars == <<state, surroundings, followVars, givenUp, owner, txn>>

Settled == {"completed", "failed", "canceled"}
States == {"absent", "open"} \cup Settled
Kinds == {"chantier", "worker"}

\* No transaction, one that holds its locks, one that has run its queries.
NoTxn == [phase |-> "none"]
Locked == [phase |-> "locked"]
Observed == [phase : {"observed"}, seen : [Members -> States]]

TypeOK ==
  /\ state \in [Members -> States]
  /\ recipe \in BOOLEAN /\ scoped \in BOOLEAN /\ signedIn \in BOOLEAN /\ thread \in BOOLEAN
  /\ joins \in SUBSET Workers
  /\ receipt \in {"none", "ok", "degraded"}
  /\ queued \in SUBSET [kind : Kinds, workers : SUBSET Workers]
  /\ followUps \in SUBSET [kind : Kinds, workers : SUBSET Workers, degraded : BOOLEAN]
  /\ blocked \in BOOLEAN /\ givenUp \in BOOLEAN
  /\ owner \in Members \cup {Nobody}
  /\ txn \in [Members -> {NoTxn, Locked} \cup Observed]

Init ==
  /\ state = [r \in Members |-> IF r = Anchor THEN "open" ELSE "absent"]
  /\ recipe = FALSE /\ joins = {} /\ scoped \in BOOLEAN
  /\ signedIn = TRUE /\ thread = TRUE
  /\ receipt = "none" /\ queued = {} /\ followUps = {}
  /\ blocked = FALSE /\ givenUp = FALSE
  /\ owner = Nobody /\ txn = [r \in Members |-> NoTxn]

(***************************************************************************)
(* The hook, given the statuses its queries returned.                      *)
(***************************************************************************)

\* _spawned_workers
Spawned(seen) == {w \in Workers : seen[w] # "absent"}

\* The anchor and all of its workers are terminal.
Barrier(seen) ==
  /\ Spawned(seen) # {}
  /\ \A r \in {Anchor} \cup Spawned(seen) : seen[r] \in Settled

\* Mutant of EvidenceHealth: a worker that was canceled is not missed.
EvidenceOfFailures(seen) ==
  IF \E w \in Spawned(seen) : seen[w] = "failed" THEN "degraded"
  ELSE IF Barrier(seen) /\ receipt = "none" THEN "ok"
  ELSE receipt

\* record_terminal_worker_evidence: every worker that ended without completing
\* degrades the receipt, for good; a whole fan-out makes a clean one "ok".
EvidenceHealth(seen) ==
  IF \E w \in Spawned(seen) : seen[w] \in Settled \ {"completed"} THEN "degraded"
  ELSE IF Barrier(seen) /\ receipt = "none" THEN "ok"
  ELSE receipt

QueuedAs(kind) == \E e \in queued : e.kind = kind
Kind == IF scoped THEN "chantier" ELSE "worker"

\* Mutant of Wanted: the events on the anchor are not looked up.
WantedAgain(seen) == Barrier(seen) /\ (scoped \/ joins \cap Spawned(seen) # {})

\* The hook admits a continuation: a chantier always has one, another fan-out
\* when a worker asked for it, and neither a second of its kind.
Wanted(seen) ==
  /\ Barrier(seen) /\ ~QueuedAs("chantier")
  /\ scoped \/ (joins \cap Spawned(seen) # {} /\ ~QueuedAs("worker"))

\* admit_work refuses at once: the chantier's thread was deleted.
InvalidTarget == scoped /\ ~thread

\* The continuation run under its idempotency key, and the event.
QueueContinuation(seen) ==
  /\ followUps' = IF \E c \in followUps : c.kind = Kind THEN followUps
       ELSE followUps \cup {[kind |-> Kind, workers |-> Spawned(seen),
                             degraded |-> EvidenceHealth(seen) = "degraded"]}
  /\ queued' = queued \cup {[kind |-> Kind, workers |-> Spawned(seen)]}
  /\ UNCHANGED blocked

\* The hook, when it does not raise: nothing to queue, queued, or put off until
\* the owner signs in.
Hook(seen) ==
  /\ receipt' = EvidenceHealth(seen)
  /\ \/ ~Wanted(seen) /\ UNCHANGED <<queued, followUps, blocked>>
     \/ Wanted(seen) /\ ~InvalidTarget /\ signedIn /\ QueueContinuation(seen)
     \/ /\ Wanted(seen) /\ ~InvalidTarget /\ ~signedIn
        /\ blocked' = TRUE /\ UNCHANGED <<queued, followUps>>

(***************************************************************************)
(* A terminal transaction: engine.complete, fail and cancel, the runner's  *)
(* error handler, the deadline sweep, the interruption that expires a run. *)
(***************************************************************************)

\* Mutant of LockBoundary: the run's own row is locked, not its anchor's.
LockRunOnly(r) ==
  /\ txn[r] = NoTxn /\ state[r] = "open"
  /\ txn' = [txn EXCEPT ![r] = Locked]
  /\ UNCHANGED <<state, surroundings, followVars, givenUp, owner>>

\* lock_terminal_boundary: the anchor's row and the run's, which is still open.
LockBoundary(r) ==
  /\ txn[r] = NoTxn /\ state[r] = "open" /\ owner = Nobody
  /\ owner' = r
  /\ txn' = [txn EXCEPT ![r] = Locked]
  /\ UNCHANGED <<state, surroundings, followVars, givenUp>>

\* The status is written and the hook's queries run: they return what others
\* have committed, and this transaction's own write.
Observe(r) ==
  /\ txn[r] = Locked
  /\ \E outcome \in Settled :
       txn' = [txn EXCEPT ![r] =
                 [phase |-> "observed", seen |-> [state EXCEPT ![r] = outcome]]]
  /\ UNCHANGED <<state, surroundings, followVars, givenUp, owner>>

\* The transaction ends and its locks with it.
EndTxn(r) ==
  /\ txn' = [txn EXCEPT ![r] = NoTxn]
  /\ owner' = IF owner = r THEN Nobody ELSE owner
  /\ UNCHANGED <<surroundings, givenUp>>

\* Status, receipt, continuation and events are committed together.
Commit(r) ==
  /\ txn[r].phase = "observed"
  /\ state' = [state EXCEPT ![r] = txn[r].seen[r]]
  /\ Hook(txn[r].seen)
  /\ EndTxn(r)

\* The admission fails for good or in passing: ContinuationAdmissionError
\* rolls the whole transaction back, the terminal status included.
RollBack(r) ==
  /\ txn[r].phase = "observed" /\ Wanted(txn[r].seen)
  /\ EndTxn(r)
  /\ UNCHANGED <<state, followVars>>

(***************************************************************************)
(* The watchdog: recover_auth_blocked_continuations.                       *)
(***************************************************************************)

Recoverable == blocked /\ queued = {} /\ ~givenUp /\ owner = Nobody

\* The hook once more, in a savepoint, on behalf of the anchor.
Recover ==
  /\ Recoverable
  /\ Hook(state)
  /\ UNCHANGED <<state, surroundings, givenUp, owner, txn>>

\* Mutant of GiveUp: a target that is gone is tried for ever.
GiveUpNever ==
  /\ Recoverable /\ Wanted(state) /\ InvalidTarget
  /\ UNCHANGED vars

\* A target that is gone is not tried again.
GiveUp ==
  /\ Recoverable /\ Wanted(state) /\ InvalidTarget
  /\ givenUp' = TRUE
  /\ UNCHANGED <<state, surroundings, followVars, owner, txn>>

(***************************************************************************)
(* Spawning, which looks at the anchor's lock and not at its status, and   *)
(* cancellation, which locks the run it cancels and runs no hook.          *)
(***************************************************************************)

\* Mutant of Spawn: the anchor's row is not locked.
SpawnUnlocked(w) ==
  /\ recipe /\ state[w] = "absent" /\ signedIn
  /\ state' = [state EXCEPT ![w] = "open"]
  /\ joins' \in {joins, joins \cup {w}}
  /\ UNCHANGED <<recipe, scoped, signedIn, thread, followVars, givenUp, owner, txn>>

\* _handle_spawn_worker, create_child_run
Spawn(w) ==
  /\ recipe /\ state[w] = "absent" /\ signedIn /\ owner = Nobody
  /\ state' = [state EXCEPT ![w] = "open"]
  /\ joins' \in {joins, joins \cup {w}}
  /\ UNCHANGED <<recipe, scoped, signedIn, thread, followVars, givenUp, owner, txn>>

\* The preflight refuses a worker, or a worker's project context is missing:
\* record_parent_evidence_failures degrades the receipt.
EvidenceLost ==
  /\ (recipe /\ ~signedIn) \/ \E w \in Workers : state[w] = "open"
  /\ owner = Nobody /\ receipt # "degraded"
  /\ receipt' = "degraded"
  /\ UNCHANGED <<state, surroundings, queued, followUps, blocked, givenUp, owner, txn>>

\* Mutant of CancelRun: the legacy spelling of the status.
CancelRunLegacy(r) ==
  /\ r \in Cancelable /\ state[r] = "open" /\ txn[r] = NoTxn
  /\ r = Anchor => owner = Nobody
  /\ state' = [state EXCEPT ![r] = "cancelled"]
  /\ UNCHANGED <<surroundings, followVars, givenUp, owner, txn>>

\* _cancel_run_with_event, async_cancel_open_runs_for_thread
CancelRun(r) ==
  /\ r \in Cancelable /\ state[r] = "open" /\ txn[r] = NoTxn
  /\ r = Anchor => owner = Nobody
  /\ state' = [state EXCEPT ![r] = "canceled"]
  /\ UNCHANGED <<surroundings, followVars, givenUp, owner, txn>>

(***************************************************************************)
(* What the fan-out depends on.                                            *)
(***************************************************************************)

\* A slot enters the anchor's recipe; it may leave it long after the anchor
\* was failed, expired or canceled by someone else.
EnterRecipe ==
  /\ ~recipe /\ state[Anchor] = "open"
  /\ recipe' = TRUE
  /\ UNCHANGED <<state, joins, scoped, signedIn, thread, followVars, givenUp, owner, txn>>
LeaveRecipe ==
  /\ recipe /\ recipe' = FALSE
  /\ UNCHANGED <<state, joins, scoped, signedIn, thread, followVars, givenUp, owner, txn>>

\* A run of the thread declares a chantier.
DeclareChantier ==
  /\ ~scoped /\ scoped' = TRUE
  /\ UNCHANGED <<state, recipe, joins, signedIn, thread, followVars, givenUp, owner, txn>>

\* The owner's credential expires; the owner signs in.
CredentialChanges ==
  /\ signedIn' = ~signedIn
  /\ UNCHANGED <<state, recipe, joins, scoped, thread, followVars, givenUp, owner, txn>>

\* The archive is emptied: the thread is deleted, whatever its runs do.
DeleteThread ==
  /\ thread /\ thread' = FALSE
  /\ UNCHANGED <<state, recipe, joins, scoped, signedIn, followVars, givenUp, owner, txn>>

Next ==
  \/ \E r \in Members : \/ LockBoundary(r) \/ Observe(r) \/ Commit(r) \/ RollBack(r)
                        \/ CancelRun(r)
  \/ \E w \in Workers : Spawn(w)
  \/ Recover \/ GiveUp \/ EvidenceLost
  \/ EnterRecipe \/ LeaveRecipe
  \/ DeclareChantier \/ CredentialChanges \/ DeleteThread

Spec == Init /\ [][Next]_vars

(***************************************************************************)
(* Properties.                                                             *)
(***************************************************************************)

\* "queue one continuation on the parent thread after the parent and all of
\* its spawn_worker children reach terminal state": once the last of them has
\* committed, a fan-out that asked to be joined has its continuation or waits
\* for a sign-in.  Two workers that end at once, neither seeing the other,
\* would break it.
BarrierContinued ==
  (Barrier(state) /\ joins # {} /\ owner = Nobody) => (queued # {} \/ blocked)

\* The same, of a fan-out from which no member was taken by a cancellation:
\* only a cancellation runs no hook, and may be the last to settle.
ContinuedUnlessCanceled ==
  BarrierContinued \/ \E r \in Cancelable : state[r] = "canceled"

\* A continuation is admitted only for a fan-out that is complete at that
\* moment, and it is handed every worker there is.
NoWorkerLeftBehind ==
  [][\A c \in followUps' \ followUps :
       Barrier(state') /\ c.workers = Spawned(state')]_vars

\* A continuation that is told "every spawned worker shard completed" was
\* handed workers that all completed, whoever settled them.
EvidenceHonest ==
  \A c \in followUps : ~c.degraded => \A w \in c.workers : state[w] = "completed"

\* There is one continuation of a kind, and the event on the anchor names
\* exactly the workers it was handed, also when workers are spawned late.
QueuedOnce ==
  /\ \A c, d \in followUps : c.kind = d.kind => c = d
  /\ \A e \in queued : \E c \in followUps : c.kind = e.kind /\ c.workers = e.workers

\* The watchdog runs every few seconds, the sweep settles what the slots do
\* not, and a refusal in passing does not come back for ever.
Fairness ==
  /\ WF_vars(Recover) /\ WF_vars(GiveUp)
  /\ \A r \in Members : /\ SF_vars(LockBoundary(r)) /\ WF_vars(Observe(r))
                        /\ SF_vars(Commit(r)) /\ WF_vars(RollBack(r))
FairSpec == Spec /\ Fairness

\* A continuation put off for want of a credential is queued, or given up,
\* once the owner stays signed in, unless a late worker reopens the fan-out.
BlockedRecovers ==
  <>[]signedIn => (blocked ~> (queued # {} \/ givenUp \/ ~Barrier(state)))
=============================================================================
