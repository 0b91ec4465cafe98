--------------------------- MODULE AgentRunProofs ---------------------------
(***************************************************************************)
(* Proofs about AgentRun, for any sets of runs, slots and requests and any *)
(* cap on requeues.                                                        *)
(***************************************************************************)
EXTENDS AgentRun, FiniteSetTheorems, TLAPS

(***************************************************************************)
(* Type correctness, with what the types do not say: whoever names a run   *)
(* names a row that has been inserted.                                     *)
(***************************************************************************)
NamedRunsExist ==
  /\ \A w \in Workers : pc[w] = "idle" <=> job[w] = NoRun
  /\ \A w \in Workers : job[w] \in Runs => status[job[w]] # "absent"
  /\ \A w \in Workers : drain[w] \in Runs => status[drain[w]] # "absent"
  /\ \A u \in Users : request[u].kind # "none" =>
       request[u].run \in Runs /\ status[request[u].run] # "absent"

Typed == TypeOK /\ NamedRunsExist

\* The transition table only mentions statuses, and a terminal status has no
\* successor.
LEMMA TransitionFacts ==
  ASSUME NEW s \in RUN_STATUS_VALUES, NEW t, NEW allow, ensure_run_transition(s, t, allow)
  PROVE  /\ t \in RUN_STATUS_VALUES
         /\ s \in OPEN_RUN_STATUSES
         /\ s # t
         /\ t = "queued" => s \in PROCESSING_RUN_STATUSES
         /\ t \in {"running", "paused"} => s # "queued"
BY SMTT(30) DEF ensure_run_transition, ALLOWED_RUN_TRANSITIONS, RUN_STATUS_VALUES, OPEN_RUN_STATUSES,
      ACTIVE_RUN_STATUSES, TERMINAL_RUN_STATUSES, PROCESSING_RUN_STATUSES

\* The groups: a status is open or terminal, never both.
LEMMA GroupFacts ==
  /\ OPEN_RUN_STATUSES \cap TERMINAL_RUN_STATUSES = {}
  /\ OPEN_RUN_STATUSES \cup TERMINAL_RUN_STATUSES = RUN_STATUS_VALUES
  /\ PROCESSING_RUN_STATUSES \subseteq OPEN_RUN_STATUSES
  /\ "absent" \notin RUN_STATUS_VALUES
  /\ {"queued", "starting", "running", "paused"} \subseteq OPEN_RUN_STATUSES
  /\ {"completed", "failed", "canceled", "expired"} = TERMINAL_RUN_STATUSES
BY DEF RUN_STATUS_VALUES, OPEN_RUN_STATUSES, ACTIVE_RUN_STATUSES, TERMINAL_RUN_STATUSES,
       PROCESSING_RUN_STATUSES

LEMMA TypedInit == Init => Typed
BY SentinelAssumption DEF Init, Typed, TypeOK, NamedRunsExist, Idle, Places, RUN_STATUS_VALUES

\* The row variables have their types, and no inserted row disappears.
RowsTyped ==
  /\ status' \in [Runs -> RUN_STATUS_VALUES \cup {"absent"}]
  /\ token' \in [Runs -> Workers \cup {NoWorker}]
  /\ attempt' \in [Runs -> Nat]
  /\ interruptions' \in [Runs -> Nat]
  /\ deadline' \in [Runs -> {"ahead", "due", "closeout", "elapsed"}]
  /\ live' \in [Runs -> BOOLEAN]
  /\ ended' \in [Runs -> Seq(TERMINAL_RUN_STATUSES)]
  /\ raised' \in SUBSET Runs
  /\ \A r \in Runs : status'[r] = "absent" => status[r] = "absent"

LEMMA RowsTypedUnchanged == TypeOK /\ UNCHANGED rowVars => RowsTyped
BY DEF TypeOK, rowVars, RowsTyped

LEMMA AnnounceTyped ==
  ASSUME TypeOK, NEW r \in Runs, NEW outcome \in TERMINAL_RUN_STATUSES, Announce(r, outcome)
  PROVE  ended' \in [Runs -> Seq(TERMINAL_RUN_STATUSES)]
BY DEF TypeOK, Announce

LEMMA SettleTyped ==
  ASSUME TypeOK, NEW r \in Runs, NEW outcome \in TERMINAL_RUN_STATUSES,
         status[r] # "absent", Settle(r, outcome)
  PROVE  RowsTyped
BY GroupFacts DEF TypeOK, Settle, WriteStatus, Announce, RowsTyped

LEMMA InterruptTyped ==
  ASSUME TypeOK, NEW r \in Runs, status[r] # "absent", Interrupt(r)
  PROVE  RowsTyped
<1>1. InterruptTarget(r) \in {"queued", "expired"}
  BY DEF InterruptTarget
<1>2. ended' \in [Runs -> Seq(TERMINAL_RUN_STATUSES)]
  <2>1. CASE Announce(r, "expired")
    BY <2>1, AnnounceTyped, GroupFacts
  <2>2. CASE UNCHANGED ended
    BY <2>2 DEF TypeOK
  <2>3. QED
    BY <2>1, <2>2 DEF Interrupt
<1>3. interruptions' \in [Runs -> Nat]
  BY DEF TypeOK, Interrupt
<1>4. live' \in [Runs -> BOOLEAN]
  BY DEF TypeOK, Interrupt, WriteStatus
<1>5. /\ status' \in [Runs -> RUN_STATUS_VALUES \cup {"absent"}]
      /\ \A s \in Runs : status'[s] = "absent" => status[s] = "absent"
  BY <1>1, GroupFacts DEF TypeOK, Interrupt, WriteStatus
<1>6. token' \in [Runs -> Workers \cup {NoWorker}]
  BY DEF TypeOK, Interrupt, WriteStatus
<1>7. QED
  BY <1>2, <1>3, <1>4, <1>5, <1>6 DEF TypeOK, Interrupt, RowsTyped

LEMMA MarkRunFailedTyped ==
  ASSUME TypeOK, NEW r \in Runs, MarkRunFailed(r)
  PROVE  RowsTyped
BY SettleTyped, RowsTypedUnchanged, GroupFacts DEF TypeOK, MarkRunFailed, Open

LEMMA CancelRowTyped ==
  ASSUME TypeOK, NEW r \in Runs, CancelRow(r), Announce(r, "canceled") \/ UNCHANGED ended,
         UNCHANGED <<attempt, interruptions, deadline, raised>>
  PROVE  RowsTyped
<1>1. ended' \in [Runs -> Seq(TERMINAL_RUN_STATUSES)]
  BY AnnounceTyped, GroupFacts DEF TypeOK
<1>2. QED
  BY <1>1, GroupFacts DEF TypeOK, CancelRow, WriteStatus, Open, RowsTyped

\* A slot that keeps its run, or lets it go, keeps the types.
LEMMA GotoTyped ==
  ASSUME Typed, RowsTyped, NEW w \in Workers, NEW place \in Places \ {"idle"},
         pc[w] # "idle", Goto(w, place)
  PROVE  Typed'
BY DEF Typed, TypeOK, NamedRunsExist, RowsTyped, Goto

LEMMA GoIdleTyped ==
  ASSUME Typed, RowsTyped, NEW w \in Workers, GoIdle(w)
  PROVE  Typed'
BY SentinelAssumption DEF Typed, TypeOK, NamedRunsExist, RowsTyped, GoIdle, Places

LEMMA OutsideTyped ==
  ASSUME Typed, RowsTyped, UNCHANGED <<slotVars, request>>
  PROVE  Typed'
BY DEF Typed, TypeOK, NamedRunsExist, RowsTyped, slotVars

\* A slot that is not idle has a run, and the run has a row.
LEMMA JobExists ==
  ASSUME Typed, NEW w \in Workers, pc[w] # "idle"
  PROVE  job[w] \in Runs /\ status[job[w]] \in RUN_STATUS_VALUES
BY DEF Typed, TypeOK, NamedRunsExist

LEMMA MaintenanceTyped ==
  ASSUME Typed, NEW r \in Runs, Create(r) \/ Approve(r) \/ MaintenanceStep(r)
  PROVE  Typed'
<1> SUFFICES RowsTyped /\ UNCHANGED <<slotVars, request>>
  BY OutsideTyped
<1>1. CASE Create(r)
  BY <1>1, GroupFacts DEF Create, Typed, TypeOK, RowsTyped
<1>2. CASE Approve(r)
  BY <1>2, GroupFacts DEF Approve, Open, WriteStatus, Typed, TypeOK, RowsTyped
<1>3. CASE LivenessLapses(r)
  BY <1>3 DEF LivenessLapses, Typed, TypeOK, RowsTyped
<1>4. CASE ReapStale(r)
  BY <1>4, InterruptTyped, GroupFacts DEF ReapStale, Reapable, Processing, Typed
<1>5. CASE ReapAtCap(r)
  BY <1>5 DEF ReapAtCap, Typed, TypeOK, RowsTyped
<1>6. CASE TimePasses(r)
  BY <1>6 DEF TimePasses, Typed, TypeOK, RowsTyped
<1>7. CASE RequestCloseout(r)
  BY <1>7 DEF RequestCloseout, Typed, TypeOK, RowsTyped
<1>8. CASE ExpireAfterCloseout(r)
  BY <1>8, SettleTyped, GroupFacts DEF ExpireAfterCloseout, Open, Typed
<1>9. QED
  BY <1>1, <1>2, <1>3, <1>4, <1>5, <1>6, <1>7, <1>8 DEF MaintenanceStep

LEMMA SlotTyped ==
  ASSUME Typed, NEW w \in Workers, SlotStep(w)
  PROVE  Typed'
<1> USE DEF Typed
<1>1. ASSUME NEW r \in Runs, ClaimNext(w, r) PROVE Typed'
  BY <1>1, SentinelAssumption, GroupFacts
  DEF ClaimNext, WriteStatus, TypeOK, NamedRunsExist, Places
<1>2. CASE Heartbeat(w)
  <2>1. RowsTyped
    BY <1>2, JobExists DEF Heartbeat, Heartbeating, BeforeLease, TypeOK, RowsTyped
  <2>2. QED
    BY <1>2, <2>1, OutsideTyped DEF Heartbeat
<1>3. CASE Prepared(w) \/ StepRaises(w) \/ LeaseGivesUp(w) \/ LeaseWaits(w) \/ OwnerGone(w)
           \/ WaitTimesOut(w) \/ ClaimLost(w) \/ SettlementRaises(w)
  BY <1>3, GotoTyped, RowsTypedUnchanged
  DEF Prepared, StepRaises, LeaseGivesUp, LeaseWaits, OwnerGone, WaitTimesOut, ClaimLost,
      SettlementRaises, Places
<1>4. CASE PrepareFails(w) \/ HandleError(w)
  BY <1>4, JobExists, MarkRunFailedTyped, GoIdleTyped DEF PrepareFails, HandleError
<1>5. CASE Settled(w) \/ HandlerRaises(w)
  BY <1>5, RowsTypedUnchanged, GoIdleTyped DEF Settled, HandlerRaises
<1>6. CASE Lease(w)
  BY <1>6, JobExists, GroupFacts
  DEF Lease, AcquireClaim, TypeOK, NamedRunsExist, Places
<1>7. CASE Complete(w) \/ Fail(w) \/ Cancel(w)
  <2>1. PICK outcome \in TERMINAL_RUN_STATUSES : Finish(w, outcome)
    BY <1>7, GroupFacts DEF Complete, Fail, Cancel
  <2>2. RowsTyped
    BY <2>1, JobExists, SettleTyped, GroupFacts DEF Finish
  <2>3. QED
    BY <2>1, <2>2, GotoTyped DEF Finish, Places
<1>8. CASE PauseRun(w)
  <2>1. RowsTyped
    BY <1>8, JobExists, GroupFacts DEF PauseRun, WriteStatus, TypeOK, RowsTyped
  <2>2. QED
    BY <1>8, <2>1, GotoTyped DEF PauseRun, Places
<1>9. CASE RetryStart(w)
  <2>1. RowsTyped
    BY <1>9, JobExists, InterruptTyped, GroupFacts DEF RetryStart
  <2>2. QED
    BY <1>9, <2>1, GotoTyped DEF RetryStart, Places
<1>10. CASE RecipeRaises(w)
  <2>1. RowsTyped
    BY <1>10, JobExists DEF RecipeRaises, ReleaseClaim, TypeOK, RowsTyped
  <2>2. QED
    BY <1>10, <2>1, GotoTyped DEF RecipeRaises, Places
<1>11. QED
  BY <1>1, <1>2, <1>3, <1>4, <1>5, <1>6, <1>7, <1>8, <1>9, <1>10 DEF SlotStep

LEMMA ProcessTyped ==
  ASSUME Typed, NEW w \in Workers, ProcessStep(w)
  PROVE  Typed'
<1>1. CASE Crash(w)
  BY <1>1, SentinelAssumption DEF Crash, Typed, TypeOK, NamedRunsExist, rowVars, Places
<1>2. CASE StopRunner(w)
  BY <1>2, SentinelAssumption DEF StopRunner, Typed, TypeOK, NamedRunsExist, rowVars
<1>3. CASE DrainTimesOut(w)
  BY <1>3 DEF DrainTimesOut, Typed, TypeOK, NamedRunsExist, rowVars
<1>4. CASE TaskCancelled(w)
  <2>1. RowsTyped
    BY <1>4, JobExists DEF TaskCancelled, ReleaseClaim, Typed, TypeOK, RowsTyped
  <2>2. QED
    BY <1>4, <2>1, GoIdleTyped DEF TaskCancelled
<1>5. CASE InterruptDrained(w)
  <2>1. RowsTyped
    BY <1>5, InterruptTyped, RowsTypedUnchanged DEF InterruptDrained, Typed, NamedRunsExist
  <2>2. QED
    BY <1>5, <2>1, SentinelAssumption
    DEF InterruptDrained, Typed, TypeOK, NamedRunsExist, RowsTyped
<1>6. QED
  BY <1>1, <1>2, <1>3, <1>4, <1>5 DEF ProcessStep

LEMMA UserTyped ==
  ASSUME Typed, NEW u \in Users, UserStep(u)
  PROVE  Typed'
<1>1. ASSUME NEW r \in Runs, NEW kind \in {"route", "thread"}, ReadForCancel(u, r, kind)
      PROVE  Typed'
  BY <1>1, GroupFacts DEF ReadForCancel, Open, Typed, TypeOK, NamedRunsExist, rowVars, slotVars
<1>2. CASE CancelRoute(u) \/ CancelThread(u)
  <2>1. request[u].kind # "none" /\ request[u].run \in Runs
    BY <1>2 DEF CancelRoute, CancelThread, Typed, NamedRunsExist
  <2>2. RowsTyped
    BY <1>2, <2>1, CancelRowTyped DEF CancelRoute, CancelThread, Typed
  <2>3. request' = [request EXCEPT ![u] = Idle] /\ UNCHANGED slotVars
    BY <1>2 DEF CancelRoute, CancelThread
  <2>4. request' \in [Users -> [kind : {"none", "route", "thread"}, run : Runs \cup {NoRun}]]
    BY <2>3 DEF Typed, TypeOK, Idle
  <2>5. \A v \in Users : request'[v].kind # "none" => request'[v] = request[v]
    BY <2>3 DEF Typed, TypeOK, Idle
  <2>6. QED
    BY <2>2, <2>3, <2>4, <2>5 DEF Typed, TypeOK, NamedRunsExist, RowsTyped, slotVars
<1>3. QED
  BY <1>1, <1>2 DEF UserStep

LEMMA TypedNext == Typed /\ [Next]_vars => Typed'
<1> SUFFICES ASSUME Typed, [Next]_vars PROVE Typed'
  OBVIOUS
<1>1. CASE UNCHANGED vars
  BY <1>1 DEF vars, rowVars, slotVars, Typed, TypeOK, NamedRunsExist
<1>2. CASE Next
  BY <1>2, MaintenanceTyped, SlotTyped, ProcessTyped, UserTyped DEF Next
<1>3. QED
  BY <1>1, <1>2

LEMMA TypedAlways == Spec => []Typed
BY TypedInit, TypedNext, PTL DEF Spec

\* Every row, slot and request keeps its type in every behaviour, however the
\* slots, sweeps and people interleave.
THEOREM TypeCorrect == Spec => []TypeOK
BY TypedAlways, PTL DEF Typed

(***************************************************************************)
(* What one step may do to one row: nothing, or one of eight writes.  The  *)
(* safety proofs below only look at these.                                 *)
(***************************************************************************)

\* Slots that have taken the run from the queue and not entered its recipe.
Pending(r) == {w \in Workers : pc[w] \in BeforeLease /\ job[w] = r}

RowKept(r) ==
  /\ status'[r] = status[r] /\ attempt'[r] = attempt[r]
  /\ interruptions'[r] = interruptions[r] /\ ended'[r] = ended[r]
  /\ token'[r] \in {token[r], NoWorker}
  /\ Pending(r)' \subseteq Pending(r)
Created(r) ==
  /\ status[r] = "absent" /\ status'[r] = "queued"
  /\ \A s \in (OlderInThread[r] \cup {After[r]}) \ {r, NoRun} : status[s] # "absent"
  /\ token'[r] = token[r] /\ attempt'[r] = attempt[r]
  /\ interruptions'[r] = interruptions[r] /\ ended'[r] = ended[r]
  /\ Pending(r)' \subseteq Pending(r)
Claimed(r) ==
  /\ status[r] = "queued" /\ status'[r] = "starting" /\ ~DependencyActive(r)
  /\ token'[r] = token[r] /\ attempt'[r] = attempt[r]
  /\ interruptions'[r] = interruptions[r] /\ ended'[r] = ended[r]
  /\ \E w \in Workers : Pending(r)' \subseteq Pending(r) \cup {w}
Leased(r) ==
  /\ Open(r) /\ token[r] = NoWorker /\ status'[r] = "running"
  /\ attempt'[r] = attempt[r] + 1
  /\ interruptions'[r] = interruptions[r] /\ ended'[r] = ended[r]
  /\ \E w \in Pending(r) : token'[r] = w /\ Pending(r)' \subseteq Pending(r) \ {w}
SettledAs(r, outcome) ==
  /\ Open(r) /\ status'[r] = outcome /\ token'[r] = NoWorker
  /\ attempt'[r] = attempt[r] /\ interruptions'[r] = interruptions[r]
  /\ ended'[r] = Append(ended[r], outcome)
  /\ Pending(r)' \subseteq Pending(r)
Requeued(r) ==
  /\ Processing(r) /\ interruptions[r] < MaxRequeues
  /\ status'[r] = "queued" /\ token'[r] = NoWorker
  /\ attempt'[r] = attempt[r] /\ interruptions'[r] = interruptions[r] + 1
  /\ ended'[r] = ended[r]
  /\ Pending(r)' \subseteq Pending(r)
ExpiredAtCap(r) ==
  /\ Open(r) /\ interruptions[r] >= MaxRequeues
  /\ status'[r] = "expired" /\ token'[r] = NoWorker
  /\ attempt'[r] = attempt[r] /\ interruptions'[r] = interruptions[r] + 1
  /\ ended'[r] = Append(ended[r], "expired")
  /\ Pending(r)' \subseteq Pending(r)
Moved(r) ==
  /\ Open(r) /\ status[r] # "queued"
  /\ \/ status'[r] = "paused" /\ token'[r] = NoWorker
     \/ status'[r] = "running" /\ token'[r] = token[r]
  /\ attempt'[r] = attempt[r] /\ interruptions'[r] = interruptions[r]
  /\ ended'[r] = ended[r]
  /\ Pending(r)' \subseteq Pending(r)
CanceledLate(r) ==
  /\ Terminal(r) /\ status'[r] = status[r] /\ token'[r] = token[r]
  /\ attempt'[r] = attempt[r] /\ interruptions'[r] = interruptions[r]
  /\ ended'[r] = Append(ended[r], "canceled")
  /\ Pending(r)' \subseteq Pending(r)

RowWritten(r) ==
  \/ Created(r) \/ Claimed(r) \/ Leased(r)
  \/ SettledAs(r, "failed") \/ SettledAs(r, "canceled") \/ SettledAs(r, "expired")
  \/ SettledAs(r, "completed") /\ \E w \in Workers :
       /\ pc[w] = "executing" /\ job[w] = r
       /\ token[r] = w /\ lease[w] = attempt[r]
  \/ Requeued(r) \/ ExpiredAtCap(r) \/ Moved(r) \/ CanceledLate(r)

\* At most one row is written.
RowStep ==
  \/ \A r \in Runs : RowKept(r)
  \/ \E r \in Runs : RowWritten(r) /\ \A s \in Runs \ {r} : RowKept(s)

LEMMA KeptWhenUnchanged ==
  ASSUME UNCHANGED rowVars, \A r \in Runs : Pending(r)' \subseteq Pending(r)
  PROVE  RowStep
BY DEF RowStep, RowKept, rowVars

LEMMA SettleRow ==
  ASSUME Typed, NEW r \in Runs, NEW outcome \in TERMINAL_RUN_STATUSES,
         status[r] # "absent", Settle(r, outcome),
         \A s \in Runs : Pending(s)' \subseteq Pending(s)
  PROVE  SettledAs(r, outcome) /\ \A s \in Runs \ {r} : RowKept(s)
<1>1. Open(r)
  BY TransitionFacts DEF Typed, TypeOK, Settle, Open
<1>2. QED
  BY <1>1 DEF Typed, TypeOK, Settle, WriteStatus, Announce, SettledAs, RowKept

LEMMA InterruptRow ==
  ASSUME Typed, NEW r \in Runs, status[r] # "absent", Interrupt(r),
         \A s \in Runs : Pending(s)' \subseteq Pending(s)
  PROVE  (Requeued(r) \/ ExpiredAtCap(r)) /\ \A s \in Runs \ {r} : RowKept(s)
<1>1. \A s \in Runs \ {r} : RowKept(s)
  BY DEF Typed, TypeOK, Interrupt, WriteStatus, Announce, RowKept
<1>2. CASE interruptions[r] < MaxRequeues
  <2>1. InterruptTarget(r) = "queued"
    BY <1>2 DEF InterruptTarget
  <2>2. Processing(r)
    BY <2>1, TransitionFacts DEF Typed, TypeOK, Interrupt, Interruptible, Processing
  <2>3. QED
    BY <1>1, <1>2, <2>1, <2>2
    DEF Typed, TypeOK, Interrupt, WriteStatus, Requeued
<1>3. CASE ~(interruptions[r] < MaxRequeues)
  <2>1. InterruptTarget(r) = "expired"
    BY <1>3 DEF InterruptTarget
  <2>2. Open(r)
    BY TransitionFacts DEF Typed, TypeOK, Interrupt, Interruptible, Open
  <2>3. interruptions[r] >= MaxRequeues
    BY <1>3, CapAssumption DEF Typed, TypeOK
  <2>4. QED
    BY <1>1, <2>1, <2>2, <2>3, GroupFacts
    DEF Typed, TypeOK, Interrupt, WriteStatus, Announce, ExpiredAtCap
<1>4. QED
  BY <1>2, <1>3

LEMMA MarkRunFailedRow ==
  ASSUME Typed, NEW r \in Runs, MarkRunFailed(r),
         \A s \in Runs : Pending(s)' \subseteq Pending(s)
  PROVE  RowStep
<1>1. CASE Open(r)
  BY <1>1, SettleRow, GroupFacts DEF MarkRunFailed, Open, RowStep, RowWritten
<1>2. CASE ~Open(r)
  BY <1>2, KeptWhenUnchanged DEF MarkRunFailed
<1>3. QED
  BY <1>1, <1>2

LEMMA MaintenanceRow ==
  ASSUME Typed, NEW r \in Runs, Create(r) \/ Approve(r) \/ MaintenanceStep(r)
  PROVE  RowStep
<1>1. \A s \in Runs : Pending(s)' \subseteq Pending(s)
  <2>1. UNCHANGED slotVars
    BY DEF Create, Approve, MaintenanceStep, LivenessLapses, ReapStale, ReapAtCap, TimePasses,
           RequestCloseout, ExpireAfterCloseout
  <2>2. QED
    BY <2>1 DEF slotVars, Pending
<1>2. CASE Create(r)
  BY <1>1, <1>2 DEF Create, Typed, TypeOK, RowStep, RowWritten, Created, RowKept
<1>3. CASE Approve(r)
  <2>1. status[r] # "queued"
    BY <1>3, TransitionFacts, GroupFacts DEF Approve, Open
  <2>2. Moved(r)
    BY <1>1, <1>3, <2>1, GroupFacts DEF Approve, WriteStatus, Typed, TypeOK, Moved
  <2>3. \A s \in Runs \ {r} : RowKept(s)
    BY <1>1, <1>3 DEF Approve, WriteStatus, Typed, TypeOK, RowKept
  <2>4. QED
    BY <2>2, <2>3 DEF RowStep, RowWritten
<1>4. CASE ReapStale(r)
  BY <1>1, <1>4, InterruptRow, GroupFacts
  DEF ReapStale, Reapable, Processing, RowStep, RowWritten
<1>5. CASE ExpireAfterCloseout(r)
  BY <1>1, <1>5, SettleRow, GroupFacts DEF ExpireAfterCloseout, Open, RowStep, RowWritten
<1>6. CASE LivenessLapses(r) \/ ReapAtCap(r) \/ TimePasses(r) \/ RequestCloseout(r)
  BY <1>1, <1>6 DEF LivenessLapses, ReapAtCap, TimePasses, RequestCloseout, RowStep, RowKept
<1>7. QED
  BY <1>2, <1>3, <1>4, <1>5, <1>6 DEF MaintenanceStep

\* A slot that moves on, or lets its run go, is no longer counted as pending.
LEMMA GotoPending ==
  ASSUME Typed, NEW w \in Workers, NEW place,
         Goto(w, place), place \in BeforeLease => pc[w] \in BeforeLease
  PROVE  \A s \in Runs : Pending(s)' \subseteq Pending(s)
BY DEF Typed, TypeOK, Goto, Pending

LEMMA GoIdlePending ==
  ASSUME Typed, NEW w \in Workers, GoIdle(w)
  PROVE  \A s \in Runs : Pending(s)' \subseteq Pending(s)
BY DEF Typed, TypeOK, GoIdle, Pending, BeforeLease

LEMMA SlotRow ==
  ASSUME Typed, NEW w \in Workers, SlotStep(w)
  PROVE  RowStep
<1>1. ASSUME NEW r \in Runs, ClaimNext(w, r) PROVE RowStep
  <2>1. Pending(r)' \subseteq Pending(r) \cup {w}
    BY <1>1 DEF ClaimNext, Typed, TypeOK, Pending
  <2>2. \A s \in Runs \ {r} : Pending(s)' \subseteq Pending(s)
    BY <1>1 DEF ClaimNext, Typed, TypeOK, Pending
  <2>3. Claimed(r)
    BY <1>1, <2>1 DEF ClaimNext, WriteStatus, Typed, TypeOK, Claimed, TERMINAL_RUN_STATUSES
  <2>4. \A s \in Runs \ {r} : RowKept(s)
    BY <1>1, <2>2 DEF ClaimNext, WriteStatus, Typed, TypeOK, RowKept
  <2>5. QED
    BY <2>3, <2>4 DEF RowStep, RowWritten
<1>2. CASE Heartbeat(w)
  BY <1>2 DEF Heartbeat, slotVars, Pending, RowStep, RowKept
<1>3. CASE Prepared(w) \/ StepRaises(w) \/ LeaseGivesUp(w) \/ LeaseWaits(w) \/ OwnerGone(w)
           \/ WaitTimesOut(w) \/ ClaimLost(w) \/ SettlementRaises(w)
  BY <1>3, GotoPending, KeptWhenUnchanged
  DEF Prepared, StepRaises, LeaseGivesUp, LeaseWaits, OwnerGone, WaitTimesOut, ClaimLost,
      SettlementRaises, BeforeLease
<1>4. CASE PrepareFails(w) \/ HandleError(w)
  BY <1>4, JobExists, GoIdlePending, MarkRunFailedRow DEF PrepareFails, HandleError
<1>5. CASE Settled(w) \/ HandlerRaises(w)
  BY <1>5, GoIdlePending, KeptWhenUnchanged DEF Settled, HandlerRaises
<1>6. CASE Lease(w)
  <2>1. w \in Pending(job[w]) /\ job[w] \in Runs
    BY <1>6, JobExists DEF Lease, Pending, BeforeLease
  <2>2. \A s \in Runs : Pending(s)' \subseteq Pending(s) \ {w}
    BY <1>6 DEF Lease, AcquireClaim, Typed, TypeOK, Pending, BeforeLease
  <2>3. Leased(job[w])
    BY <1>6, <2>1, <2>2 DEF Lease, AcquireClaim, Typed, TypeOK, Leased
  <2>4. \A s \in Runs \ {job[w]} : RowKept(s)
    BY <1>6, <2>1, <2>2 DEF Lease, AcquireClaim, Typed, TypeOK, RowKept
  <2>5. QED
    BY <2>1, <2>3, <2>4 DEF RowStep, RowWritten
<1>7. CASE Complete(w) \/ Fail(w) \/ Cancel(w)
  <2>1. PICK outcome \in {"completed", "failed", "canceled"} : Finish(w, outcome)
    BY <1>7 DEF Complete, Fail, Cancel
  <2>2. /\ job[w] \in Runs
        /\ SettledAs(job[w], outcome) /\ \A s \in Runs \ {job[w]} : RowKept(s)
    BY <2>1, JobExists, GotoPending, SettleRow, GroupFacts DEF Finish, BeforeLease
  <2>3. pc[w] = "executing" /\ token[job[w]] = w /\ lease[w] = attempt[job[w]]
    BY <2>1 DEF Finish, Holds
  <2>4. QED
    BY <2>2, <2>3 DEF RowStep, RowWritten
<1>8. CASE PauseRun(w)
  <2>1. /\ job[w] \in Runs
        /\ \A s \in Runs : Pending(s)' \subseteq Pending(s)
    BY <1>8, JobExists, GotoPending DEF PauseRun, BeforeLease
  <2>2. Open(job[w]) /\ status[job[w]] # "queued"
    BY <1>8, JobExists, TransitionFacts DEF PauseRun, Open
  <2>3. QED
    BY <1>8, <2>1, <2>2, GroupFacts
    DEF PauseRun, WriteStatus, Typed, TypeOK, RowStep, RowWritten, Moved, RowKept
<1>9. CASE RetryStart(w)
  BY <1>9, JobExists, GotoPending, InterruptRow, GroupFacts
  DEF RetryStart, BeforeLease, RowStep, RowWritten
<1>10. CASE RecipeRaises(w)
  BY <1>10, JobExists, GotoPending
  DEF RecipeRaises, ReleaseClaim, BeforeLease, Typed, TypeOK, RowStep, RowKept
<1>11. QED
  BY <1>1, <1>2, <1>3, <1>4, <1>5, <1>6, <1>7, <1>8, <1>9, <1>10 DEF SlotStep

LEMMA ProcessRow ==
  ASSUME Typed, NEW w \in Workers, ProcessStep(w)
  PROVE  RowStep
<1>1. CASE Crash(w)
  <2>1. \A s \in Runs : Pending(s)' \subseteq Pending(s)
    BY <1>1 DEF Crash, Typed, TypeOK, Pending, BeforeLease
  <2>2. QED
    BY <1>1, <2>1, KeptWhenUnchanged DEF Crash
<1>2. CASE StopRunner(w) \/ DrainTimesOut(w)
  BY <1>2, KeptWhenUnchanged DEF StopRunner, DrainTimesOut, Pending
<1>3. CASE TaskCancelled(w)
  BY <1>3, JobExists, GoIdlePending
  DEF TaskCancelled, ReleaseClaim, Typed, TypeOK, RowStep, RowKept
<1>4. CASE InterruptDrained(w)
  <2>1. \A s \in Runs : Pending(s)' \subseteq Pending(s)
    BY <1>4 DEF InterruptDrained, Pending
  <2>2. drain[w] \in Runs /\ status[drain[w]] # "absent"
    BY <1>4 DEF InterruptDrained, Typed, NamedRunsExist
  <2>3. CASE Interrupt(drain[w])
    BY <2>1, <2>2, <2>3, InterruptRow DEF RowStep, RowWritten
  <2>4. CASE UNCHANGED rowVars
    BY <2>1, <2>4, KeptWhenUnchanged
  <2>5. QED
    BY <1>4, <2>3, <2>4 DEF InterruptDrained
<1>5. QED
  BY <1>1, <1>2, <1>3, <1>4 DEF ProcessStep

LEMMA UserRow ==
  ASSUME Typed, NEW u \in Users, UserStep(u)
  PROVE  RowStep
<1>1. UNCHANGED slotVars
  BY DEF UserStep, ReadForCancel, CancelRoute, CancelThread
<1>2. \A s \in Runs : Pending(s)' \subseteq Pending(s)
  BY <1>1 DEF slotVars, Pending
<1>3. ASSUME NEW r \in Runs, NEW kind \in {"route", "thread"}, ReadForCancel(u, r, kind)
      PROVE  RowStep
  BY <1>2, <1>3, KeptWhenUnchanged DEF ReadForCancel
<1>4. CASE CancelRoute(u) \/ CancelThread(u)
  <2>8. request[u].run \in Runs
    BY <1>4 DEF CancelRoute, CancelThread, Typed, TypeOK, NamedRunsExist
  <2>9. PICK r \in Runs : r = request[u].run
    BY <2>8
  <2>1. status[r] \in RUN_STATUS_VALUES
    BY <1>4, <2>9 DEF CancelRoute, CancelThread, Typed, TypeOK, NamedRunsExist
  <2>2. CancelRow(r) /\ UNCHANGED <<attempt, interruptions>>
    BY <1>4, <2>9 DEF CancelRoute, CancelThread
  <2>3. \/ Announce(r, "canceled")
        \/ status'[r] # "canceled" /\ UNCHANGED ended
    BY <1>4, <2>9 DEF CancelRoute, CancelThread
  <2>4. \A s \in Runs \ {r} : RowKept(s)
    BY <1>2, <2>1, <2>2, <2>3 DEF CancelRow, WriteStatus, Announce, Typed, TypeOK, RowKept
  <2>5. CASE Open(r)
    <3>1. status'[r] = "canceled" /\ token'[r] = NoWorker
      BY <2>1, <2>2, <2>5, GroupFacts DEF CancelRow, WriteStatus, Typed, TypeOK
    <3>2. ended'[r] = Append(ended[r], "canceled")
      BY <2>1, <2>3, <3>1 DEF Announce, Typed, TypeOK
    <3>3. SettledAs(r, "canceled")
      BY <1>2, <2>1, <2>2, <2>5, <3>1, <3>2 DEF SettledAs
    <3>4. QED
      BY <2>1, <2>4, <3>3 DEF RowStep, RowWritten
  <2>6. CASE ~Open(r)
    <3>1. Terminal(r) /\ UNCHANGED <<status, token>>
      BY <2>1, <2>2, <2>6, GroupFacts DEF CancelRow, Open, Terminal
    <3>2. CASE Announce(r, "canceled")
      <4>1. CanceledLate(r)
        BY <1>2, <2>1, <2>2, <3>1, <3>2 DEF Announce, Typed, TypeOK, CanceledLate
      <4>2. QED
        BY <2>1, <2>4, <4>1 DEF RowStep, RowWritten
    <3>3. CASE UNCHANGED ended
      BY <1>2, <2>2, <3>1, <3>3 DEF RowStep, RowKept
    <3>4. QED
      BY <2>3, <3>2, <3>3
  <2>7. QED
    BY <2>5, <2>6
<1>5. QED
  BY <1>3, <1>4 DEF UserStep

LEMMA NextRow == Typed /\ [Next]_vars => RowStep
<1>1. ASSUME UNCHANGED vars PROVE RowStep
  BY <1>1 DEF vars, rowVars, slotVars, Pending, RowStep, RowKept
<1>2. ASSUME Typed, Next PROVE RowStep
  BY <1>2, MaintenanceRow, SlotRow, ProcessRow, UserRow DEF Next
<1>3. QED
  BY <1>1, <1>2

(***************************************************************************)
(* The safety invariants.                                                  *)
(***************************************************************************)

\* Terminal writes: a settled row keeps its status, attempt and count.
LEMMA SettledRowKept ==
  ASSUME Typed, OwnedOnlyWhileRunning, RowStep, NEW r \in Runs, Terminal(r)
  PROVE  /\ status'[r] = status[r] /\ attempt'[r] = attempt[r]
         /\ interruptions'[r] = interruptions[r] /\ token'[r] = NoWorker
<1>1. token[r] = NoWorker /\ ~Open(r) /\ ~Processing(r)
      /\ status[r] # "absent" /\ status[r] # "queued"
  BY GroupFacts DEF OwnedOnlyWhileRunning, Terminal, Open, Processing
<1>2. RowKept(r) \/ CanceledLate(r)
  BY <1>1 DEF RowStep, RowWritten, Created, Claimed, Leased, SettledAs, Requeued,
              ExpiredAtCap, Moved
<1>3. QED
  BY <1>1, <1>2 DEF RowKept, CanceledLate

LEMMA OwnedNext ==
  ASSUME Typed, OwnedOnlyWhileRunning, RowStep
  PROVE  OwnedOnlyWhileRunning'
<1> SUFFICES ASSUME NEW r \in Runs, token'[r] # NoWorker PROVE status'[r] = "running"
  BY DEF OwnedOnlyWhileRunning
<1>1. CASE RowKept(r)
  BY <1>1 DEF RowKept, OwnedOnlyWhileRunning
<1>2. CASE RowWritten(r)
  BY <1>2, GroupFacts
  DEF RowWritten, Created, Claimed, Leased, SettledAs, Requeued, ExpiredAtCap, Moved,
      CanceledLate, OwnedOnlyWhileRunning
<1>3. QED
  BY <1>1, <1>2 DEF RowStep

\* Until it is inserted a row has no attempts, no interruptions, no slots.
FreshUntilCreated ==
  \A r \in Runs : status[r] = "absent" =>
    attempt[r] = 0 /\ interruptions[r] = 0 /\ ended[r] = <<>> /\ token[r] = NoWorker

LEMMA FreshNext ==
  ASSUME Typed, FreshUntilCreated, RowStep
  PROVE  FreshUntilCreated'
<1> SUFFICES ASSUME NEW r \in Runs, status'[r] = "absent"
             PROVE  attempt'[r] = 0 /\ interruptions'[r] = 0 /\ ended'[r] = <<>>
                    /\ token'[r] = NoWorker
  BY DEF FreshUntilCreated
<1>1. RowKept(r)
  BY GroupFacts
  DEF RowStep, RowWritten, Created, Claimed, Leased, SettledAs, Requeued, ExpiredAtCap, Moved,
      CanceledLate, Terminal
<1>2. QED
  BY <1>1 DEF RowKept, FreshUntilCreated

LEMMA CapNext ==
  ASSUME Typed, CapRespected, RowStep
  PROVE  CapRespected'
<1> SUFFICES ASSUME NEW r \in Runs
             PROVE  \/ interruptions'[r] <= MaxRequeues
                    \/ interruptions'[r] = MaxRequeues + 1 /\ status'[r] = "expired"
  BY DEF CapRespected
<1> USE CapAssumption DEF CapRespected, Typed, TypeOK
<1>1. Open(r) \/ status[r] = "absent" => status[r] # "expired"
  BY GroupFacts DEF Open
<1>2. Processing(r) => Open(r)
  BY GroupFacts DEF Open, Processing
<1>3. status[r] = "queued" => Open(r)
  BY GroupFacts DEF Open
<1>4. CASE RowKept(r)
  BY <1>4 DEF RowKept
<1>5. CASE RowWritten(r)
  BY <1>1, <1>2, <1>3, <1>5
  DEF RowWritten, Created, Claimed, Leased, SettledAs, Requeued, ExpiredAtCap, Moved,
      CanceledLate
<1>6. QED
  BY <1>4, <1>5 DEF RowStep

\* The counting argument behind AttemptsArePaidFor.  A run in the queue and a
\* slot on its way to the lease each stand for one execution still to come;
\* with the executions already entered they never exceed what was granted.
Queued(r) == IF status[r] = "queued" THEN 1 ELSE 0
ExecutionsGranted ==
  \A r \in Runs :
    /\ attempt[r] + Cardinality(Pending(r)) + Queued(r) <= 1 + interruptions[r]
    /\ attempt[r] <= 1 + MaxRequeues

LEMMA PendingFinite ==
  ASSUME NEW r
  PROVE  IsFiniteSet(Pending(r)) /\ Cardinality(Pending(r)) \in Nat
BY WorkersAssumption, FS_Subset, FS_CardinalityType DEF Pending

LEMMA PendingFiniteNext ==
  ASSUME NEW r
  PROVE  IsFiniteSet(Pending(r)') /\ Cardinality(Pending(r)') \in Nat
BY WorkersAssumption, FS_Subset, FS_CardinalityType DEF Pending

LEMMA GrantedNext ==
  ASSUME Typed, FreshUntilCreated, CapRespected, ExecutionsGranted, RowStep
  PROVE  ExecutionsGranted'
<1> SUFFICES ASSUME NEW r \in Runs
             PROVE  /\ attempt'[r] + Cardinality(Pending(r)') + Queued(r)' <= 1 + interruptions'[r]
                    /\ attempt'[r] <= 1 + MaxRequeues
  BY DEF ExecutionsGranted
<1> DEFINE old == Cardinality(Pending(r))
           new == Cardinality(Pending(r)')
<1>1. /\ IsFiniteSet(Pending(r)) /\ IsFiniteSet(Pending(r)')
      /\ old \in Nat /\ new \in Nat
  BY PendingFinite, PendingFiniteNext
<1>2. Pending(r)' \subseteq Pending(r) => new <= old
  BY <1>1, FS_Subset
<1>3. /\ attempt[r] \in Nat /\ interruptions[r] \in Nat /\ MaxRequeues \in Nat
      /\ attempt[r] + old + Queued(r) <= 1 + interruptions[r]
      /\ attempt[r] <= 1 + MaxRequeues
      /\ Queued(r) \in {0, 1} /\ Queued(r)' \in {0, 1}
  BY CapAssumption DEF Typed, TypeOK, ExecutionsGranted, Queued
<1>4. CASE RowKept(r) \/ CanceledLate(r)
  <2>1. Queued(r)' = Queued(r)
    BY <1>4 DEF RowKept, CanceledLate, Queued
  <2>2. attempt'[r] = attempt[r] /\ interruptions'[r] = interruptions[r] /\ new <= old
    BY <1>2, <1>4 DEF RowKept, CanceledLate
  <2>3. QED
    BY <1>1, <1>3, <2>1, <2>2
<1>5. CASE Created(r)
  <2>1. Pending(r) = {}
    BY <1>5 DEF Created, Pending, Typed, NamedRunsExist
  <2>2. new <= 0 /\ attempt'[r] = 0 /\ interruptions'[r] = 0
    BY <1>1, <1>2, <1>5, <2>1, FS_EmptySet DEF Created, FreshUntilCreated
  <2>3. QED
    BY <1>1, <1>3, <2>2
<1>6. CASE Claimed(r)
  <2>1. Queued(r) = 1 /\ Queued(r)' = 0
    BY <1>6 DEF Claimed, Queued
  <2>2. PICK w \in Workers : Pending(r)' \subseteq Pending(r) \cup {w}
    BY <1>6 DEF Claimed
  <2>3. /\ IsFiniteSet(Pending(r) \cup {w})
        /\ Cardinality(Pending(r) \cup {w}) \in Nat
        /\ Cardinality(Pending(r) \cup {w}) <= old + 1
    <3>1. IsFiniteSet(Pending(r) \cup {w})
      BY <1>1, FS_AddElement
    <3>2. Cardinality(Pending(r) \cup {w}) \in Nat
      BY <3>1, FS_CardinalityType
    <3>3. Cardinality(Pending(r) \cup {w}) \in {old, old + 1}
      BY <1>1, FS_AddElement
    <3>4. QED
      BY <1>1, <3>1, <3>2, <3>3
  <2>4. new <= Cardinality(Pending(r) \cup {w})
    BY <2>2, <2>3, FS_Subset
  <2>5. QED
    BY <1>1, <1>3, <1>6, <2>1, <2>3, <2>4 DEF Claimed
<1>7. CASE Leased(r)
  <2>1. PICK w \in Pending(r) : Pending(r)' \subseteq Pending(r) \ {w}
    BY <1>7 DEF Leased
  <2>2. IsFiniteSet(Pending(r) \ {w}) /\ Cardinality(Pending(r) \ {w}) = old - 1
    BY <1>1, FS_RemoveElement
  <2>3. new <= old - 1
    BY <2>1, <2>2, FS_Subset
  <2>4. Queued(r)' = 0
    BY <1>7 DEF Leased, Queued
  <2>5. interruptions[r] <= MaxRequeues
    BY <1>7, GroupFacts DEF Leased, Open, CapRespected
  <2>6. attempt'[r] = attempt[r] + 1 /\ interruptions'[r] = interruptions[r]
    BY <1>7 DEF Leased
  <2>7. QED
    BY <1>1, <1>3, <2>3, <2>4, <2>5, <2>6
<1>8. CASE \E outcome \in TERMINAL_RUN_STATUSES : SettledAs(r, outcome)
  <2>1. Queued(r)' = 0
    BY <1>8, GroupFacts DEF SettledAs, Queued, TERMINAL_RUN_STATUSES
  <2>2. attempt'[r] = attempt[r] /\ interruptions'[r] = interruptions[r] /\ new <= old
    BY <1>2, <1>8 DEF SettledAs
  <2>3. QED
    BY <1>1, <1>3, <2>1, <2>2
<1>9. CASE Requeued(r) \/ ExpiredAtCap(r)
  <2>1. Queued(r)' = 0 \/ Queued(r) = 0
    BY <1>9, GroupFacts DEF Requeued, ExpiredAtCap, Processing, Queued, PROCESSING_RUN_STATUSES
  <2>2. attempt'[r] = attempt[r] /\ interruptions'[r] = interruptions[r] + 1 /\ new <= old
    BY <1>2, <1>9 DEF Requeued, ExpiredAtCap
  <2>3. QED
    BY <1>1, <1>3, <2>1, <2>2
<1>10. CASE Moved(r)
  <2>1. Queued(r)' = 0
    BY <1>10 DEF Moved, Queued
  <2>2. attempt'[r] = attempt[r] /\ interruptions'[r] = interruptions[r] /\ new <= old
    BY <1>2, <1>10 DEF Moved
  <2>3. QED
    BY <1>1, <1>3, <2>1, <2>2
<1>11. QED
  BY <1>4, <1>5, <1>6, <1>7, <1>8, <1>9, <1>10, GroupFacts DEF RowStep, RowWritten

\* A slot enters a recipe only by Lease, and nothing else changes what it
\* holds while it is inside.
LEMMA ExecutingSlot ==
  ASSUME Typed, [Next]_vars, NEW w \in Workers, pc'[w] = "executing"
  PROVE  \/ Lease(w)
         \/ pc[w] = "executing" /\ job'[w] = job[w] /\ lease'[w] = lease[w]
<1>1. ASSUME NEW v \in Workers, SlotStep(v)
      PROVE  \/ Lease(w)
             \/ pc[w] = "executing" /\ job'[w] = job[w] /\ lease'[w] = lease[w]
  <2>1. CASE v = w
    BY <1>1, <2>1
    DEF SlotStep, ClaimNext, Heartbeat, Prepared, PrepareFails, StepRaises, LeaseGivesUp,
        LeaseWaits, OwnerGone, WaitTimesOut, Complete, Fail, Cancel, Finish, PauseRun,
        RetryStart, ClaimLost, RecipeRaises, Settled, SettlementRaises, HandleError,
        HandlerRaises, Goto, GoIdle, slotVars, Typed, TypeOK
  <2>2. CASE v # w
    BY <1>1, <2>2
    DEF SlotStep, ClaimNext, Heartbeat, Prepared, PrepareFails, StepRaises, Lease, AcquireClaim,
        LeaseGivesUp, LeaseWaits, OwnerGone, WaitTimesOut, Complete, Fail, Cancel, Finish,
        PauseRun, RetryStart, ClaimLost, RecipeRaises, Settled, SettlementRaises, HandleError,
        HandlerRaises, Goto, GoIdle, slotVars, Typed, TypeOK
  <2>3. QED
    BY <2>1, <2>2
<1>2. ASSUME NEW v \in Workers, ProcessStep(v)
      PROVE  pc[w] = "executing" /\ job'[w] = job[w] /\ lease'[w] = lease[w]
  BY <1>2 DEF ProcessStep, Crash, StopRunner, DrainTimesOut, TaskCancelled, InterruptDrained,
              GoIdle, Typed, TypeOK
<1>3. ASSUME NEW r \in Runs, Create(r) \/ Approve(r) \/ MaintenanceStep(r)
      PROVE  UNCHANGED slotVars
  BY <1>3 DEF Create, Approve, MaintenanceStep, LivenessLapses, ReapStale, ReapAtCap, TimePasses,
              RequestCloseout, ExpireAfterCloseout
<1>4. ASSUME NEW u \in Users, UserStep(u)
      PROVE  UNCHANGED slotVars
  BY <1>4 DEF UserStep, ReadForCancel, CancelRoute, CancelThread
<1>5. UNCHANGED slotVars => pc[w] = "executing" /\ job'[w] = job[w] /\ lease'[w] = lease[w]
  BY DEF slotVars
<1>6. UNCHANGED vars => UNCHANGED slotVars
  BY DEF vars
<1>7. QED
  BY <1>1, <1>2, <1>3, <1>4, <1>5, <1>6 DEF Next

LEMMA FencedNext ==
  ASSUME Typed, FencedByAttempt, [Next]_vars
  PROVE  FencedByAttempt'
<1> SUFFICES ASSUME NEW w \in Workers, pc'[w] = "executing"
             PROVE  /\ job'[w] \in Runs /\ lease'[w] <= attempt'[job'[w]]
                    /\ (lease'[w] = attempt'[job'[w]] /\ token'[job'[w]] # NoWorker)
                         => token'[job'[w]] = w
  BY DEF FencedByAttempt
<1>1. CASE Lease(w)
  <2>1. job[w] \in Runs
    BY <1>1, JobExists DEF Lease
  <2>2. QED
    BY <1>1, <2>1 DEF Lease, AcquireClaim, Typed, TypeOK
<1>2. CASE pc[w] = "executing" /\ job'[w] = job[w] /\ lease'[w] = lease[w]
  <2>1. /\ job[w] \in Runs /\ lease[w] \in Nat /\ attempt[job[w]] \in Nat
        /\ lease[w] <= attempt[job[w]]
        /\ (lease[w] = attempt[job[w]] /\ token[job[w]] # NoWorker) => token[job[w]] = w
    BY <1>2 DEF FencedByAttempt, Typed, TypeOK
  <2>2. PICK r \in Runs : r = job[w]
    BY <2>1
  <2>3. \/ attempt'[r] = attempt[r] /\ token'[r] \in {token[r], NoWorker}
        \/ attempt'[r] = attempt[r] + 1
    BY NextRow
    DEF RowStep, RowKept, RowWritten, Created, Claimed, Leased, SettledAs, Requeued,
        ExpiredAtCap, Moved, CanceledLate
  <2>4. QED
    BY <1>2, <2>1, <2>2, <2>3
<1>3. QED
  BY <1>1, <1>2, ExecutingSlot

LEMMA AnnouncedNext ==
  ASSUME Typed, FreshUntilCreated, OutcomeAnnounced, RowStep
  PROVE  OutcomeAnnounced'
<1> SUFFICES ASSUME NEW r \in Runs
             PROVE  /\ status'[r] \in TERMINAL_RUN_STATUSES =>
                         \E i \in DOMAIN ended'[r] : ended'[r][i] = status'[r]
                    /\ \A i \in DOMAIN ended'[r] : ended'[r][i] # "canceled" =>
                         /\ status'[r] = ended'[r][i]
                         /\ \A j \in DOMAIN ended'[r] : ended'[r][j] = ended'[r][i] => i = j
  BY DEF OutcomeAnnounced, Terminal
<1> DEFINE log == ended[r]
<1>1. log \in Seq(TERMINAL_RUN_STATUSES)
  BY DEF Typed, TypeOK
<1>2. /\ status[r] \in TERMINAL_RUN_STATUSES => \E i \in DOMAIN log : log[i] = status[r]
      /\ \A i \in DOMAIN log : log[i] # "canceled" =>
           /\ status[r] = log[i]
           /\ \A j \in DOMAIN log : log[j] = log[i] => i = j
  BY DEF OutcomeAnnounced, Terminal
<1>3. status[r] \notin TERMINAL_RUN_STATUSES => \A i \in DOMAIN log : log[i] = "canceled"
  BY <1>1, <1>2
<1>4. ASSUME NEW outcome, outcome \in TERMINAL_RUN_STATUSES, SettledAs(r, outcome)
      PROVE  /\ \E i \in DOMAIN ended'[r] : ended'[r][i] = status'[r]
             /\ \A i \in DOMAIN ended'[r] : ended'[r][i] # "canceled" =>
                  /\ status'[r] = ended'[r][i]
                  /\ \A j \in DOMAIN ended'[r] : ended'[r][j] = ended'[r][i] => i = j
  <2>1. \A i \in DOMAIN log : log[i] = "canceled"
    BY <1>3, <1>4, GroupFacts DEF SettledAs, Open
  <2>2. ended'[r] = Append(log, outcome) /\ status'[r] = outcome
    BY <1>4 DEF SettledAs
  <2>3. QED
    BY <1>1, <1>4, <2>1, <2>2
<1>5. CASE ExpiredAtCap(r)
  <2>1. \A i \in DOMAIN log : log[i] = "canceled"
    BY <1>3, <1>5, GroupFacts DEF ExpiredAtCap, Open
  <2>2. ended'[r] = Append(log, "expired") /\ status'[r] = "expired"
    BY <1>5 DEF ExpiredAtCap
  <2>3. QED
    BY <1>1, <2>1, <2>2
<1>6. CASE CanceledLate(r)
  <2>1. ended'[r] = Append(log, "canceled") /\ status'[r] = status[r]
    BY <1>6 DEF CanceledLate
  <2>2. QED
    BY <1>1, <1>2, <2>1
<1>7. CASE RowKept(r)
  BY <1>2, <1>7 DEF RowKept
<1>8. CASE Created(r) \/ Claimed(r) \/ Leased(r) \/ Requeued(r) \/ Moved(r)
  <2>1. /\ ended'[r] = log /\ status'[r] \notin TERMINAL_RUN_STATUSES
        /\ status[r] \notin TERMINAL_RUN_STATUSES
    BY <1>8, GroupFacts
    DEF Created, Claimed, Leased, Requeued, Moved, Open, Processing, TERMINAL_RUN_STATUSES
  <2>2. QED
    BY <1>3, <2>1
<1>9. QED
  BY <1>4, <1>5, <1>6, <1>7, <1>8, GroupFacts DEF RowStep, RowWritten

\* Deferral.  What a run waits for was inserted before it; and once a slot has
\* the run in hand its dependencies are settled, even if the run is back in
\* the queue when that slot reaches the lease.
DependenciesExist ==
  \A r \in Runs : status[r] # "absent" =>
    \A s \in (OlderInThread[r] \cup {After[r]}) \ {r, NoRun} : status[s] # "absent"
DeferralKept ==
  \A r \in Runs :
    (After[r] # NoRun /\ (status[r] \in ACTIVE_RUN_STATUSES \/ Pending(r) # {})) =>
      \A s \in OlderInThread[r] \cup {After[r]} : Terminal(s)

LEMMA DependenciesExistNext ==
  ASSUME Typed, DependenciesExist, RowStep
  PROVE  DependenciesExist'
<1> SUFFICES ASSUME NEW r \in Runs, status'[r] # "absent",
                    NEW s \in (OlderInThread[r] \cup {After[r]}) \ {r, NoRun}
             PROVE  status'[s] # "absent"
  BY DEF DependenciesExist
<1>1. s \in Runs
  BY TreeAssumption
<1>2. status[s] # "absent"
  <2>1. CASE status[r] # "absent"
    BY <2>1 DEF DependenciesExist
  <2>2. CASE status[r] = "absent"
    <3>1. Created(r)
      BY <2>2, GroupFacts
      DEF RowStep, RowKept, RowWritten, Claimed, Leased, SettledAs, Requeued, ExpiredAtCap,
          Moved, CanceledLate, Open, Processing, Terminal
    <3>2. QED
      BY <3>1 DEF Created
  <2>3. QED
    BY <2>1, <2>2
<1>3. QED
  BY <1>1, <1>2, GroupFacts
  DEF RowStep, RowKept, RowWritten, Created, Claimed, Leased, SettledAs, Requeued, ExpiredAtCap,
      Moved, CanceledLate

LEMMA DeferralNext ==
  ASSUME Typed, OwnedOnlyWhileRunning, DependenciesExist, DeferralKept, RowStep
  PROVE  DeferralKept'
<1> SUFFICES ASSUME NEW r \in Runs, After[r] # NoRun,
                    status'[r] \in ACTIVE_RUN_STATUSES \/ Pending(r)' # {},
                    NEW s \in OlderInThread[r] \cup {After[r]}
             PROVE  status'[s] \in TERMINAL_RUN_STATUSES
  BY DEF DeferralKept, Terminal
<1>1. s \in Runs
  BY TreeAssumption
<1>2. Terminal(s)
  <2>1. CASE status[r] \in ACTIVE_RUN_STATUSES \/ Pending(r) # {}
    BY <2>1 DEF DeferralKept
  <2>2. CASE ~(status[r] \in ACTIVE_RUN_STATUSES \/ Pending(r) # {})
    <3>1. Claimed(r)
      BY <2>2, GroupFacts
      DEF RowStep, RowKept, RowWritten, Created, Leased, SettledAs, Requeued, ExpiredAtCap, Moved,
          CanceledLate, Open, OPEN_RUN_STATUSES, ACTIVE_RUN_STATUSES, TERMINAL_RUN_STATUSES
    <3>2. ~Open(s)
      BY <3>1 DEF Claimed, DependencyActive
    <3>3. s # r /\ status[s] # "absent"
      BY <1>1, <3>1, <3>2, SentinelAssumption, GroupFacts DEF Claimed, Open, DependenciesExist
    <3>4. QED
      BY <1>1, <3>2, <3>3, GroupFacts DEF Typed, TypeOK, Open, Terminal
  <2>3. QED
    BY <2>1, <2>2
<1>3. QED
  BY <1>1, <1>2, SettledRowKept DEF Terminal

(***************************************************************************)
(* The inductive invariant, and what follows from it.                      *)
(***************************************************************************)
IInv ==
  /\ Typed /\ OwnedOnlyWhileRunning /\ FreshUntilCreated
  /\ CapRespected /\ ExecutionsGranted /\ FencedByAttempt /\ OutcomeAnnounced
  /\ DependenciesExist /\ DeferralKept

LEMMA IInvInit == Init => IInv
<1> SUFFICES ASSUME Init PROVE IInv
  OBVIOUS
<1>1. \A r \in Runs : Pending(r) = {}
  BY DEF Init, Pending, BeforeLease
<1>2. ExecutionsGranted
  <2> SUFFICES ASSUME NEW r \in Runs
               PROVE  /\ attempt[r] + Cardinality(Pending(r)) + Queued(r) <= 1 + interruptions[r]
                      /\ attempt[r] <= 1 + MaxRequeues
    BY DEF ExecutionsGranted
  <2>1. Cardinality(Pending(r)) = 0
    BY <1>1, FS_EmptySet
  <2>2. attempt[r] = 0 /\ interruptions[r] = 0 /\ Queued(r) = 0
    BY DEF Init, Queued
  <2>3. QED
    BY <2>1, <2>2, CapAssumption
<1>3. OwnedOnlyWhileRunning /\ FreshUntilCreated /\ CapRespected /\ FencedByAttempt
  BY CapAssumption DEF Init, OwnedOnlyWhileRunning, FreshUntilCreated, CapRespected, FencedByAttempt
<1>4. OutcomeAnnounced
  BY GroupFacts DEF Init, OutcomeAnnounced, Terminal
<1>5. DependenciesExist /\ DeferralKept
  BY <1>1 DEF Init, DependenciesExist, DeferralKept, ACTIVE_RUN_STATUSES
<1>6. QED
  BY <1>2, <1>3, <1>4, <1>5, TypedInit DEF IInv

LEMMA IInvNext == IInv /\ [Next]_vars => IInv'
BY TypedNext, NextRow, OwnedNext, FreshNext, CapNext, GrantedNext, FencedNext, AnnouncedNext,
   DependenciesExistNext, DeferralNext
DEF IInv

LEMMA IInvAlways == Spec => []IInv
BY IInvInit, IInvNext, PTL DEF Spec

\* No queued, paused or settled row is owned, so _try_acquire_execution_claim
\* never waits for an owner that has already been told to let go.
THEOREM OwnershipTheorem == Spec => []OwnedOnlyWhileRunning
BY IInvAlways, PTL DEF IInv

\* An attempt that was fenced off never looks current to assert_execution_claim.
THEOREM FencingTheorem == Spec => []FencedByAttempt
BY IInvAlways, PTL DEF IInv

\* interrupt_and_requeue grants no more requeues than the configured cap.
THEOREM CapTheorem == Spec => []CapRespected
BY IInvAlways, PTL DEF IInv

\* A recipe is entered at most once for the admission and once per requeue, for
\* any number of slots that crash, wait, time out or steal from one another.
THEOREM AttemptsTheorem == Spec => []AttemptsArePaidFor
<1>1. IInv => AttemptsArePaidFor
  <2> SUFFICES ASSUME IInv, NEW r \in Runs
               PROVE  attempt[r] <= 1 + interruptions[r] /\ attempt[r] <= 1 + MaxRequeues
    BY DEF AttemptsArePaidFor
  <2>1. /\ attempt[r] \in Nat /\ interruptions[r] \in Nat /\ Cardinality(Pending(r)) \in Nat
        /\ Queued(r) \in {0, 1}
    BY PendingFinite DEF IInv, Typed, TypeOK, Queued
  <2>2. QED
    BY <2>1, CapAssumption DEF IInv, ExecutionsGranted
<1>2. QED
  BY <1>1, IInvAlways, PTL

\* Every settled run has announced its outcome, and an outcome other than a
\* cancellation is announced once and is the row's status.
THEOREM AnnouncementTheorem == Spec => []OutcomeAnnounced
BY IInvAlways, PTL DEF IInv

\* claim_next never takes a deferred run before what it follows is settled, nor
\* does a slot that reaches the lease after the run was requeued.
THEOREM DeferralTheorem == Spec => []DeferredRunsWait
<1>1. IInv => DeferredRunsWait
  BY DEF IInv, DeferralKept, DeferredRunsWait
<1>2. QED
  BY <1>1, IInvAlways, PTL

\* No writer changes a settled row's status, attempt, count or owner.
THEOREM FinalityTheorem == Spec => TerminalIsFinal
<1>1. IInv /\ [Next]_vars =>
        [\A r \in Runs : Terminal(r) =>
           /\ status'[r] = status[r] /\ attempt'[r] = attempt[r]
           /\ interruptions'[r] = interruptions[r] /\ token'[r] = NoWorker]_vars
  BY NextRow, SettledRowKept DEF IInv
<1>2. QED
  BY <1>1, IInvAlways, PTL DEF Spec, TerminalIsFinal

\* A run is completed only by the slot that holds its current attempt.
THEOREM CompletionTheorem == Spec => CompletedByOwner
<1>1. IInv /\ [Next]_vars =>
        [\A r \in Runs : (status'[r] = "completed" /\ status[r] # "completed") =>
           \E w \in Workers : /\ pc[w] = "executing" /\ job[w] = r
                              /\ token[r] = w /\ lease[w] = attempt[r]]_vars
  <2> SUFFICES ASSUME IInv, RowStep, NEW r \in Runs,
                      status'[r] = "completed", status[r] # "completed"
               PROVE  \E w \in Workers : /\ pc[w] = "executing" /\ job[w] = r
                                         /\ token[r] = w /\ lease[w] = attempt[r]
    BY NextRow DEF IInv
  <2>1. QED
    BY DEF RowStep, RowKept, RowWritten, Created, Claimed, Leased, SettledAs, Requeued,
           ExpiredAtCap, Moved, CanceledLate
<1>2. QED
  BY <1>1, IInvAlways, PTL DEF Spec, CompletedByOwner

(***************************************************************************)
(* The contract.                                                           *)
(***************************************************************************)

\* The abstract state of a row that is not written does not change.
LEMMA KeptAbstract ==
  ASSUME NEW s \in Runs, RowKept(s)
  PROVE  Phase'[s] = Phase[s] /\ Allowance'[s] = Allowance[s]
BY DEF RowKept, Phase, Allowance, Open

LEMMA WrittenAbstract ==
  ASSUME Typed, Typed', NEW r \in Runs, \A s \in Runs \ {r} : RowKept(s)
  PROVE  /\ Phase' = [Phase EXCEPT ![r] = Phase'[r]]
         /\ Allowance' = [Allowance EXCEPT ![r] = Allowance'[r]]
         /\ attempt' = [attempt EXCEPT ![r] = attempt'[r]]
<1>1. \A s \in Runs \ {r} : Phase'[s] = Phase[s] /\ Allowance'[s] = Allowance[s]
                            /\ attempt'[s] = attempt[s]
  BY KeptAbstract DEF RowKept
<1>2. attempt \in [Runs -> Nat] /\ attempt' \in [Runs -> Nat]
  BY DEF Typed, TypeOK
<1>3. Phase = [s \in Runs |-> Phase[s]] /\ Phase' = [s \in Runs |-> Phase'[s]]
  BY DEF Phase
<1>4. Allowance = [s \in Runs |-> Allowance[s]] /\ Allowance' = [s \in Runs |-> Allowance'[s]]
  BY DEF Allowance
<1>5. QED
  BY <1>1, <1>2, <1>3, <1>4

LEMMA ContractStep ==
  ASSUME IInv, Typed', RowStep
  PROVE  [Contract!Next]_(Contract!vars)
<1>1. CASE \A r \in Runs : RowKept(r)
  <2>1. Phase' = Phase
    BY <1>1, KeptAbstract DEF Phase
  <2>2. Allowance' = Allowance
    BY <1>1, KeptAbstract DEF Allowance
  <2>3. attempt' = attempt
    BY <1>1 DEF RowKept, IInv, Typed, TypeOK
  <2>4. QED
    BY <2>1, <2>2, <2>3 DEF Contract!vars
<1>2. ASSUME NEW r \in Runs, RowWritten(r), \A s \in Runs \ {r} : RowKept(s)
      PROVE  [Contract!Next]_(Contract!vars)
  <2>1. /\ Phase' = [Phase EXCEPT ![r] = Phase'[r]]
        /\ Allowance' = [Allowance EXCEPT ![r] = Allowance'[r]]
        /\ attempt' = [attempt EXCEPT ![r] = attempt'[r]]
    BY <1>2, WrittenAbstract DEF IInv
  <2>2. /\ attempt[r] \in Nat /\ interruptions[r] \in Nat /\ MaxRequeues \in Nat
        /\ attempt \in [Runs -> Nat]
    BY CapAssumption DEF IInv, Typed, TypeOK
  <2>3. Open(r) => status[r] # "absent" /\ interruptions[r] <= MaxRequeues
    BY GroupFacts DEF Open, IInv, CapRespected
  <2>4. Phase[r] = IF Open(r) THEN "open" ELSE status[r]
    BY DEF Phase
  <2>5. Phase'[r] = IF status'[r] \in OPEN_RUN_STATUSES THEN "open" ELSE status'[r]
    BY DEF Phase, Open
  <2>6. Open(r) => Allowance[r] = 1 + interruptions[r]
    BY <2>2, <2>3 DEF Allowance
  <2>7. Allowance'[r] = IF status'[r] = "absent" THEN 0
                        ELSE 1 + (IF interruptions'[r] > MaxRequeues THEN MaxRequeues
                                  ELSE interruptions'[r])
    BY DEF Allowance
  <2>8. Phase = [s \in Runs |-> Phase[s]] /\ Allowance = [s \in Runs |-> Allowance[s]]
    BY DEF Phase, Allowance
  <2>9. CASE Created(r)
    <3>1. interruptions'[r] = 0 /\ attempt'[r] = attempt[r]
      BY <2>9 DEF Created, IInv, FreshUntilCreated
    <3>2. Phase[r] = "absent" /\ Phase'[r] = "open" /\ Allowance'[r] = 1
      BY <2>2, <2>4, <2>5, <2>7, <2>9, <3>1, GroupFacts DEF Created, Open
    <3>3. Contract!Admit(r)
      BY <2>1, <2>2, <3>1, <3>2 DEF Contract!Admit
    <3>4. QED
      BY <3>3 DEF Contract!Next
  <2>10. CASE Leased(r)
    <3>1. attempt[r] + 1 <= 1 + interruptions[r]
      <4>1. PICK w : w \in Pending(r)
        BY <2>10 DEF Leased
      <4>2. Cardinality(Pending(r)) >= 1
        BY <4>1, PendingFinite, FS_EmptySet
      <4>3. Cardinality(Pending(r)) \in Nat /\ Queued(r) \in {0, 1}
        BY PendingFinite DEF Queued
      <4>4. QED
        BY <2>2, <4>2, <4>3 DEF IInv, ExecutionsGranted
    <3>2. Phase[r] = "open" /\ Phase'[r] = "open" /\ Allowance'[r] = Allowance[r]
      BY <2>2, <2>3, <2>4, <2>5, <2>6, <2>7, <2>10, GroupFacts DEF Leased, Open
    <3>3. Contract!Enter(r)
      BY <2>1, <2>2, <2>6, <2>8, <2>10, <3>1, <3>2 DEF Contract!Enter, Leased
    <3>4. QED
      BY <3>3 DEF Contract!Next
  <2>11. CASE Requeued(r)
    <3>1. Open(r) /\ status'[r] \in OPEN_RUN_STATUSES /\ status'[r] # "absent"
      BY <2>11, GroupFacts DEF Requeued, Open, Processing
    <3>2. /\ Phase[r] = "open" /\ Phase'[r] = "open"
          /\ Allowance[r] <= MaxRequeues /\ Allowance'[r] = Allowance[r] + 1
      BY <2>2, <2>4, <2>5, <2>6, <2>7, <2>11, <3>1 DEF Requeued
    <3>3. Contract!Requeue(r)
      BY <2>1, <2>2, <2>8, <2>11, <3>2 DEF Contract!Requeue, Requeued
    <3>4. QED
      BY <3>3 DEF Contract!Next
  <2>12. CASE (\E outcome \in TERMINAL_RUN_STATUSES : SettledAs(r, outcome)) \/ ExpiredAtCap(r)
    <3>1. Open(r) /\ status'[r] \in TERMINAL_RUN_STATUSES
      BY <2>12, GroupFacts DEF SettledAs, ExpiredAtCap
    <3>2. Phase[r] = "open" /\ Phase'[r] = status'[r]
      BY <2>4, <2>5, <3>1, GroupFacts
    <3>3. Allowance'[r] = Allowance[r] /\ attempt'[r] = attempt[r]
      BY <2>2, <2>3, <2>6, <2>7, <2>12, <3>1, GroupFacts DEF SettledAs, ExpiredAtCap
    <3>4. Contract!Settle(r)
      BY <2>1, <2>2, <2>8, <3>1, <3>2, <3>3 DEF Contract!Settle
    <3>5. QED
      BY <3>4 DEF Contract!Next
  <2>13. CASE Claimed(r) \/ Moved(r) \/ CanceledLate(r)
    <3>1. Phase'[r] = Phase[r] /\ attempt'[r] = attempt[r]
      BY <2>4, <2>5, <2>13, GroupFacts DEF Claimed, Moved, CanceledLate, Open
    <3>2. Allowance'[r] = Allowance[r]
      BY <2>7, <2>13, GroupFacts DEF Claimed, Moved, CanceledLate, Allowance, Open, Terminal
    <3>3. Phase' = Phase /\ Allowance' = Allowance /\ attempt' = attempt
      BY <2>1, <2>2, <2>8, <3>1, <3>2
    <3>4. QED
      BY <3>3 DEF Contract!vars
  <2>14. QED
    BY <1>2, <2>9, <2>10, <2>11, <2>12, <2>13, GroupFacts DEF RowWritten
<1>3. QED
  BY <1>1, <1>2 DEF RowStep

\* Slots, leases, reaper, sweep, drain and cancellations together implement the
\* contract: one admission, at most one execution per grant, one outcome.
THEOREM RefinementTheorem == Spec => ImplementsContract
<1>1. Init => Contract!Init
  BY GroupFacts DEF Init, Contract!Init, Phase, Allowance, Open
<1>2. IInv /\ IInv' /\ [Next]_vars => [Contract!Next]_(Contract!vars)
  BY NextRow, ContractStep DEF IInv
<1>3. QED
  BY <1>1, <1>2, IInvAlways, PTL DEF Spec, ImplementsContract, Contract!Spec
(***************************************************************************)
(* What RunContractProofs shows of the contract holds of the rows.         *)
(***************************************************************************)
ContractFacts == INSTANCE RunContractProofs WITH
  Outcomes <- TERMINAL_RUN_STATUSES,
  phase <- Phase, allowance <- Allowance, entries <- attempt

LEMMA SameContract == Spec => ContractFacts!Spec
<1>1. Contract!Init => ContractFacts!Init
  BY DEF Contract!Init, ContractFacts!Init
<1>2. [Contract!Next]_(Contract!vars) => [ContractFacts!Next]_(ContractFacts!vars)
  BY DEF Contract!Next, Contract!Admit, Contract!Enter, Contract!Requeue, Contract!Settle,
     Contract!vars, ContractFacts!Next, ContractFacts!Admit, ContractFacts!Enter,
     ContractFacts!Requeue, ContractFacts!Settle, ContractFacts!vars
<1> QED
  BY <1>1, <1>2, RefinementTheorem, PTL DEF ImplementsContract, Contract!Spec,
     ContractFacts!Spec

\* A row lives as everybody who waits for an agent run takes it to live: it is
\* admitted once and settled once.
THEOREM RowsLive == Spec => ContractFacts!Life!Spec
BY SameContract, ContractFacts!ContractIsLife, PTL

\* The recipe of a run is entered at most once for its admission and once for
\* each requeue the cap allows.
THEOREM BudgetTheorem ==
  Spec => [](\A r \in Runs : attempt[r] <= MaxRequeues + 1)
<1>1. Spec => []ContractFacts!Budgeted
  <2>1. ContractFacts!Sensible
    BY CapAssumption, GroupFacts DEF ContractFacts!Sensible
  <2> QED
    BY <2>1, SameContract, ContractFacts!ContractBudget, PTL
<1>2. ContractFacts!Budgeted => \A r \in Runs : attempt[r] <= MaxRequeues + 1
  BY CapAssumption DEF ContractFacts!Budgeted
<1> QED
  BY <1>1, <1>2, PTL
=============================================================================
