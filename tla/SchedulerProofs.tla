--------------------------- MODULE SchedulerProofs ---------------------------
(***************************************************************************)
(* Proofs about Scheduler, for any number of fires, steps, attempts and    *)
(* open transactions, and for any bounds on faults and dispatches.         *)
(***************************************************************************)
EXTENDS Scheduler, TLAPS

Untouched == {"none", "recorded", "shelved"}
Resumable == {"recorded", "shelved", "retryable", "executing"}
Agents == 1..MaxDispatches

(***************************************************************************)
(* The attempts of a row pay for the commands that were run for it: a run  *)
(* that is being executed has not yet used its attempt for the steps from  *)
(* the one on that its loop is at, whether or not they succeeded before.   *)
(***************************************************************************)
Paid(r, row, at) ==
  /\ row.attempt <= MaxAttempts
  /\ row.status \in Untouched =>
       row.attempt = 1 /\ \A s \in 1..NumSteps : ran[r][s] = 0
  /\ \A s \in 1..NumSteps :
       ran[r][s] <= IF row.status = "running" /\ s >= at THEN row.attempt - 1
                                                         ELSE row.attempt

\* What holds of a row that a transaction has written and not committed.
Written(p, r) ==
  LET w == tick[p].tx[r]
  IN /\ w.status # "none"
     /\ w.status = "running" => tick[p].pc = "step" /\ tick[p].cur = r
     /\ w.status = "executing" => w.agent \in Agents
     /\ w.status = "retryable" => w.attempt < MaxAttempts \/ r \in stale
     /\ Resumes(p) => db[r].done \subseteq w.done
     /\ db[r].status \in Settled => r \in stale
     /\ r \in lost \cup stale \/ Paid(r, w, tick[p].at)

(***************************************************************************)
(* A transaction.  It holds the lock once it has written; what it has read *)
(* is what its next write relies on.                                       *)
(***************************************************************************)
TickInv(p) ==
  /\ tick[p].wrote # {} => lock = p
  /\ tick[p].pc \in {"idle", "settle"} => tick[p].wrote = {}
  /\ tick[p].pc \in {"record", "lock", "step"} => tick[p].cur \in Fires
  /\ tick[p].pc = "lock" => tick[p].seen[tick[p].cur].status \in Resumable
  /\ tick[p].pc = "step" =>
       /\ tick[p].cur \in tick[p].wrote
       /\ tick[p].tx[tick[p].cur].status = "running"
       /\ \/ tick[p].tx[tick[p].cur].attempt = tick[p].seen[tick[p].cur].attempt
          \/ tick[p].cur \in stale
  /\ tick[p].pc = "settle" =>
       \A r \in tick[p].todo : /\ tick[p].seen[r].status = "executing"
                               /\ tick[p].seen[r].agent \in Agents
                               /\ AgentDone(r, tick[p].seen[r].agent)
                               /\ db[r].status # "none"
  /\ tick[p].pc \in {"plan", "record"} =>
       \A r \in tick[p].wrote : db[r].status # "none"
  /\ \A r \in tick[p].wrote : Written(p, r)

\* Nobody has written the run of a fire and not committed.
Committed(r) == \A p \in Ticks : r \notin tick[p].wrote

DbInv(r) ==
  /\ db[r].status # "running"
  /\ db[r].status = "none" => db[r] = NoRow
  /\ db[r].status = "executing" => db[r].agent \in Agents
  /\ db[r].status = "retryable" => db[r].attempt < MaxAttempts \/ r \in stale
  /\ Committed(r) => r \in lost \cup stale \/ Paid(r, db[r], 0)

Waits(row, k) == row.status = "executing" /\ row.agent = k

AgentInv(r, k) ==
  agent[r][k] = "live" =>
    \/ r \in lost \cup unread \cup stale
    \/ \E p \in Ticks : r \in tick[p].wrote /\ Waits(tick[p].tx[r], k)
    \/ Committed(r) /\ Waits(db[r], k)

Core ==
  /\ \A p \in Ticks : TickInv(p)
  /\ \A r \in Fires : DbInv(r)
  /\ \A r \in Fires : \A k \in Agents : AgentInv(r, k)

IInv == TypeOK /\ Core

-----------------------------------------------------------------------------
(* What the pieces of the actions do to a transaction. *)

\* One transaction changes.
Moved(p) ==
  /\ tick' \in [Ticks -> TickRow]
  /\ \A q \in Ticks \ {p} : tick'[q] = tick[q]

LEMMA Constants ==
  /\ NumSteps \in Nat /\ NumSteps >= 1 /\ MaxAttempts \in Nat /\ MaxAttempts >= 1
  /\ 1..NumSteps \subseteq Nat /\ NumFires \in Nat /\ MaxFaults \in Nat /\ MaxDispatches \in Nat
  /\ Daemon \in Ticks /\ None \notin Ticks /\ Fires \subseteq 0..NumFires
BY SchedulerAssumption DEF Fires

LEMMA RowFacts ==
  /\ NoRow \in Rows /\ NoRow.status = "none" /\ NoRow.done = {} /\ NoRow.attempt = 1
  /\ [r \in Fires |-> NoRow] \in [Fires -> Rows]
BY Constants DEF NoRow, Rows, Statuses, Settled

LEMMA IdleFacts ==
  /\ Idle \in TickRow /\ Idle.pc = "idle" /\ Idle.wrote = {}
  /\ Idle.seen = [r \in Fires |-> NoRow] /\ 0 \in 0..(NumSteps + 1)
BY RowFacts, Constants DEF Idle, TickRow

LEMMA Typed ==
  ASSUME TypeOK
  PROVE  /\ tick \in [Ticks -> TickRow] /\ db \in [Fires -> Rows]
         /\ \A p \in Ticks : /\ tick[p] \in TickRow
                             /\ tick[p].seen \in [Fires -> Rows]
                             /\ tick[p].tx \in [Fires -> Rows]
                             /\ tick[p].wrote \in SUBSET Fires
                             /\ tick[p].todo \in SUBSET Fires
BY DEF TypeOK, TickRow

LEMMA Update ==
  ASSUME TypeOK, NEW p \in Ticks, NEW t \in TickRow, tick' = [tick EXCEPT ![p] = t]
  PROVE  Moved(p) /\ tick'[p] = t
BY Typed DEF Moved

LEMMA RowTyped ==
  ASSUME TypeOK, NEW p \in Ticks, NEW r \in Fires
  PROVE  /\ Row(p, r) \in Rows
         /\ r \in tick[p].wrote => Row(p, r) = tick[p].tx[r]
         /\ r \notin tick[p].wrote => Row(p, r) = db[r]
BY Typed DEF Row

LEMMA FailureTyped ==
  ASSUME NEW n \in Nat
  PROVE  /\ FailureStatus(n) \in {"retryable", "settled_failure"}
         /\ FailureStatus(n) = "retryable" => n < MaxAttempts
         /\ FailureStatus(n) \in Statuses
BY Constants DEF FailureStatus, Statuses, Settled

\* A transaction that ends: it is rolled back, or commits.
LEMMA EndFacts ==
  ASSUME TypeOK, NEW p \in Ticks, tick' = [tick EXCEPT ![p] = Idle]
  PROVE  Moved(p) /\ tick'[p] = Idle
BY IdleFacts, Update

LEMMA JobFacts ==
  ASSUME TypeOK, NEW p \in Ticks,
         tick' = [tick EXCEPT ![p].pc = "plan", ![p].single = TRUE]
  PROVE  /\ Moved(p) /\ tick'[p].pc = "plan" /\ tick'[p].wrote = tick[p].wrote
         /\ tick'[p].tx = tick[p].tx
<1> DEFINE t == [tick[p] EXCEPT !.pc = "plan", !.single = TRUE]
<1>1. tick' = [tick EXCEPT ![p] = t]
  BY Typed
<1>2. t \in TickRow /\ t.pc = "plan" /\ t.wrote = tick[p].wrote /\ t.tx = tick[p].tx
  BY Typed DEF TickRow
<1> HIDE DEF t
<1>3. QED
  BY <1>1, <1>2, Update

\* A transaction that reads: BeginTick, RunJob, FindFire, Pick, Resume.
LEMMA PcFacts ==
  ASSUME TypeOK, NEW p \in Ticks, NEW s \in {"plan", "claim"},
         tick' = [tick EXCEPT ![p].pc = s]
  PROVE  /\ Moved(p) /\ tick'[p].pc = s /\ tick'[p].wrote = tick[p].wrote
         /\ tick'[p].tx = tick[p].tx /\ tick'[p].single = tick[p].single
<1> DEFINE t == [tick[p] EXCEPT !.pc = s]
<1>1. tick' = [tick EXCEPT ![p] = t]
  BY Typed
<1>2. /\ t \in TickRow /\ t.pc = s /\ t.wrote = tick[p].wrote /\ t.tx = tick[p].tx
      /\ t.single = tick[p].single
  BY Typed DEF TickRow
<1> HIDE DEF t
<1>3. QED
  BY <1>1, <1>2, Update

LEMMA LoadFacts ==
  ASSUME TypeOK, NEW p \in Ticks, BeginTick(p)
  PROVE  /\ Moved(p) /\ tick[p].pc = "idle"
         /\ tick'[p].pc \in {"plan", "settle"} /\ tick'[p].todo = LoadDetached
         /\ tick'[p].wrote = tick[p].wrote /\ tick'[p].tx = tick[p].tx
         /\ \A r \in LoadDetached : tick'[p].seen[r] = db[r]
<1> DEFINE pc == IF LoadDetached = {} THEN "plan" ELSE "settle"
           seen == [r \in Fires |-> IF r \in LoadDetached THEN db[r] ELSE NoRow]
           t == [tick[p] EXCEPT !.pc = pc, !.todo = LoadDetached, !.seen = seen]
<1>1. LoadDetached \in SUBSET Fires /\ pc \in {"plan", "settle"}
  BY DEF LoadDetached
<1>2. seen \in [Fires -> Rows] /\ \A r \in LoadDetached : seen[r] = db[r]
  BY <1>1, Typed, RowFacts
<1>3. tick[p].pc = "idle" /\ tick' = [tick EXCEPT ![p].pc = pc, ![p].todo = LoadDetached, ![p].seen = seen]
  BY DEF BeginTick
<1> HIDE DEF pc, seen
<1>4. tick[p] \in TickRow
  BY Typed
<1>5. tick' = [tick EXCEPT ![p] = t]
  BY <1>3, Typed
<1>6. t \in TickRow
  BY <1>1, <1>2, <1>4 DEF TickRow
<1>7. /\ t.pc = pc /\ t.todo = LoadDetached /\ t.wrote = tick[p].wrote /\ t.tx = tick[p].tx
      /\ t.seen = seen
  BY <1>4 DEF TickRow
<1> HIDE DEF t
<1>8. Moved(p) /\ tick'[p] = t
  BY <1>5, <1>6, Update
<1>9. QED
  BY <1>1, <1>2, <1>3, <1>7, <1>8

LEMMA FindFacts ==
  ASSUME TypeOK, NEW p \in Ticks, NEW r \in Fires,
         tick' = [tick EXCEPT ![p].pc = "record", ![p].cur = r]
  PROVE  /\ Moved(p) /\ tick'[p].pc = "record" /\ tick'[p].cur = r
         /\ tick'[p].wrote = tick[p].wrote /\ tick'[p].tx = tick[p].tx
         /\ tick'[p].single = tick[p].single
<1> DEFINE t == [tick[p] EXCEPT !.pc = "record", !.cur = r]
<1>1. tick' = [tick EXCEPT ![p] = t]
  BY Typed
<1>2. t \in TickRow
  BY Typed, Constants DEF TickRow
<1>3. /\ t.pc = "record" /\ t.cur = r /\ t.wrote = tick[p].wrote /\ t.tx = tick[p].tx
      /\ t.single = tick[p].single
  BY Typed DEF TickRow
<1> HIDE DEF t
<1>4. QED
  BY <1>1, <1>2, <1>3, Update

LEMMA PickFacts ==
  ASSUME TypeOK, NEW p \in Ticks, NEW r \in Fires, NEW row \in Rows,
         tick' = [tick EXCEPT ![p].pc = "lock", ![p].cur = r, ![p].seen[r] = row]
  PROVE  /\ Moved(p) /\ tick'[p].pc = "lock" /\ tick'[p].cur = r /\ tick'[p].seen[r] = row
         /\ tick'[p].wrote = tick[p].wrote /\ tick'[p].tx = tick[p].tx
         /\ tick'[p].single = tick[p].single
<1> DEFINE seen == [tick[p].seen EXCEPT ![r] = row]
           t == [tick[p] EXCEPT !.pc = "lock", !.cur = r, !.seen = seen]
<1>1. seen \in [Fires -> Rows] /\ seen[r] = row
  BY Typed
<1>2. tick[p] \in TickRow /\ r \in 0..NumFires
  BY Typed, Constants
<1>3. tick' = [tick EXCEPT ![p] = t]
  BY Typed
<1> HIDE DEF seen
<1>4. t \in TickRow
  BY <1>1, <1>2 DEF TickRow
<1>5. /\ t.pc = "lock" /\ t.cur = r /\ t.wrote = tick[p].wrote /\ t.tx = tick[p].tx /\ t.seen = seen
      /\ t.single = tick[p].single
  BY <1>2 DEF TickRow
<1> HIDE DEF t
<1>6. Moved(p) /\ tick'[p] = t
  BY <1>3, <1>4, Update
<1>7. QED
  BY <1>1, <1>5, <1>6

LEMMA ResumeFacts ==
  ASSUME TypeOK, NEW p \in Ticks, NEW r \in Fires, NEW row \in Rows,
         tick' = [tick EXCEPT ![p].pc = "lock", ![p].single = TRUE, ![p].cur = r, ![p].seen[r] = row]
  PROVE  /\ Moved(p) /\ tick'[p].pc = "lock" /\ tick'[p].cur = r /\ tick'[p].seen[r] = row
         /\ tick'[p].wrote = tick[p].wrote /\ tick'[p].tx = tick[p].tx
<1> DEFINE seen == [tick[p].seen EXCEPT ![r] = row]
           t == [tick[p] EXCEPT !.pc = "lock", !.single = TRUE, !.cur = r, !.seen = seen]
<1>1. seen \in [Fires -> Rows] /\ seen[r] = row
  BY Typed
<1>2. tick[p] \in TickRow /\ r \in 0..NumFires
  BY Typed, Constants
<1>3. tick' = [tick EXCEPT ![p] = t]
  BY Typed
<1> HIDE DEF seen
<1>4. t \in TickRow
  BY <1>1, <1>2 DEF TickRow
<1>5. t.pc = "lock" /\ t.cur = r /\ t.wrote = tick[p].wrote /\ t.tx = tick[p].tx /\ t.seen = seen
  BY <1>2 DEF TickRow
<1> HIDE DEF t
<1>6. Moved(p) /\ tick'[p] = t
  BY <1>3, <1>4, Update
<1>7. QED
  BY <1>1, <1>5, <1>6

\* A transaction that writes.
LEMMA RecordFacts ==
  ASSUME TypeOK, NEW p \in Ticks, tick[p].cur \in Fires, NEW status \in Statuses, Record(p, status)
  PROVE  /\ Moved(p) /\ tick'[p].pc = "claim" /\ tick'[p].single = tick[p].single
         /\ tick'[p].wrote = tick[p].wrote \cup {tick[p].cur}
         /\ tick'[p].tx[tick[p].cur] = [NoRow EXCEPT !.status = status]
         /\ \A q \in Fires \ {tick[p].cur} : tick'[p].tx[q] = tick[p].tx[q]
<1> DEFINE r == tick[p].cur
           row == [NoRow EXCEPT !.status = status]
           tx == [tick[p].tx EXCEPT ![r] = row]
           wrote == tick[p].wrote \cup {r}
           t == [tick[p] EXCEPT !.pc = "claim", !.cur = 0, !.wrote = wrote, !.tx = tx]
<1>1. row \in Rows
  BY RowFacts DEF Rows
<1>2. /\ tx \in [Fires -> Rows] /\ tx[r] = row /\ \A q \in Fires \ {r} : tx[q] = tick[p].tx[q]
      /\ wrote \in SUBSET Fires
  BY <1>1, Typed
<1> HIDE DEF row
<1>3. tick' = [tick EXCEPT ![p] = t]
  BY Typed DEF Record, row
<1>4. tick[p] \in TickRow /\ 0 \in 0..NumFires
  BY Typed, Constants
<1> HIDE DEF tx, wrote
<1>5. t \in TickRow
  BY <1>2, <1>4 DEF TickRow
<1>6. t.pc = "claim" /\ t.wrote = wrote /\ t.tx = tx /\ t.single = tick[p].single
  BY <1>4 DEF TickRow
<1> HIDE DEF t
<1>7. Moved(p) /\ tick'[p] = t
  BY <1>3, <1>5, Update
<1>8. QED
  BY <1>2, <1>6, <1>7 DEF row, wrote

LEMMA ReconciledTyped ==
  ASSUME TypeOK, NEW p \in Ticks, NEW r \in Fires
  PROVE  /\ Reconciled(p, r) \in Rows
         /\ Reconciled(p, r).attempt = db[r].attempt
         /\ db[r].done \subseteq Reconciled(p, r).done
         /\ \/ Reconciled(p, r).status = "settled_success"
            \/ Reconciled(p, r).status = FailureStatus(tick[p].seen[r].attempt)
<1> DEFINE failure == FailureStatus(tick[p].seen[r].attempt)
           done == db[r].done \cup {NumSteps}
<1>1. tick[p].seen[r] \in Rows /\ db[r] \in Rows
  BY Typed
<1>2. failure \in Statuses /\ "settled_success" \in Statuses
  BY <1>1, FailureTyped DEF Rows, Statuses, Settled
<1>3. done \in SUBSET (1..NumSteps) /\ db[r].done \subseteq done
  BY <1>1, Constants DEF Rows
<1> HIDE DEF failure, done
<1>4. /\ [db[r] EXCEPT !.status = "settled_success", !.done = done] \in Rows
      /\ [db[r] EXCEPT !.status = failure] \in Rows
  BY <1>1, <1>2, <1>3 DEF Rows
<1>5. CASE agent[r][tick[p].seen[r].agent] = "ok"
  <2>1. Reconciled(p, r) = [db[r] EXCEPT !.status = "settled_success", !.done = done]
    BY <1>5 DEF Reconciled, done
  <2>2. QED
    BY <1>1, <1>3, <1>4, <2>1 DEF Rows
<1>6. CASE agent[r][tick[p].seen[r].agent] # "ok"
  <2>1. Reconciled(p, r) = [db[r] EXCEPT !.status = failure]
    BY <1>6 DEF Reconciled, failure
  <2>2. QED
    BY <1>1, <1>3, <1>4, <2>1 DEF Rows, failure
<1>7. QED
  BY <1>5, <1>6


LEMMA SettleFacts ==
  ASSUME TypeOK, NEW p \in Ticks, SettleDetached(p)
  PROVE  /\ Moved(p) /\ tick'[p].pc = "plan" /\ tick'[p].wrote = tick[p].todo
         /\ \A r \in tick[p].todo : tick'[p].tx[r] = Reconciled(p, r)
<1> DEFINE tx == [r \in Fires |-> IF r \in tick[p].todo THEN Reconciled(p, r) ELSE NoRow]
           todo == tick[p].todo
           seen == Idle.seen
           none == {}
           t == [tick[p] EXCEPT !.pc = "plan", !.todo = none, !.wrote = todo, !.tx = tx, !.seen = seen]
<1>1. tx \in [Fires -> Rows] /\ \A r \in tick[p].todo : tx[r] = Reconciled(p, r)
  BY ReconciledTyped, RowFacts, Typed
<1>2. tick' = [tick EXCEPT ![p].pc = "plan", ![p].todo = none, ![p].wrote = todo, ![p].tx = tx,
                           ![p].seen = seen]
  BY DEF SettleDetached
<1>3. /\ none \in SUBSET Fires /\ seen \in [Fires -> Rows] /\ todo \in SUBSET Fires
      /\ tick[p] \in TickRow
  BY IdleFacts, RowFacts, Typed
<1> HIDE DEF tx, todo, seen, none
<1>4. tick' = [tick EXCEPT ![p] = t]
  BY <1>2, Typed
<1>5. t \in TickRow
  BY <1>1, <1>3 DEF TickRow
<1>6. t.pc = "plan" /\ t.wrote = todo /\ t.tx = tx
  BY <1>3 DEF TickRow
<1> HIDE DEF t
<1>7. Moved(p) /\ tick'[p] = t
  BY <1>4, <1>5, Update
<1>8. QED
  BY <1>1, <1>6, <1>7 DEF todo

LEMMA ClaimedTyped ==
  ASSUME NEW row \in Rows, NEW seen \in Rows
  PROVE  /\ ClaimedRow(row, seen) \in Rows /\ AttemptSeen(seen) \in Nat
         /\ ClaimedRow(row, seen).status = "running" /\ ClaimedRow(row, seen).done = row.done
         /\ ClaimedRow(row, seen).attempt =
              IF seen.status = "retryable" THEN seen.attempt + 1 ELSE row.attempt
         /\ AttemptSeen(seen) = IF seen.status = "retryable" THEN seen.attempt + 1 ELSE seen.attempt
<1> DEFINE n == IF seen.status = "retryable" THEN seen.attempt + 1 ELSE row.attempt
<1>1. /\ AttemptSeen(seen) \in Nat
      /\ AttemptSeen(seen) = IF seen.status = "retryable" THEN seen.attempt + 1 ELSE seen.attempt
  BY DEF AttemptSeen, Rows
<1>2. n \in Nat /\ "running" \in Statuses
  BY DEF Rows, Statuses
<1>3. ClaimedRow(row, seen) = [row EXCEPT !.status = "running", !.lease = TRUE, !.attempt = n]
  BY DEF ClaimedRow, AttemptSeen, Rows
<1> HIDE DEF n
<1>4. /\ ClaimedRow(row, seen) \in Rows /\ ClaimedRow(row, seen).attempt = n
      /\ ClaimedRow(row, seen).status = "running" /\ ClaimedRow(row, seen).done = row.done
  BY <1>2, <1>3 DEF Rows
<1>5. QED
  BY <1>1, <1>4 DEF n


LEMMA ClaimFacts ==
  ASSUME TypeOK, NEW p \in Ticks, tick[p].cur \in Fires, Claim(p)
  PROVE  LET r == tick[p].cur
             seen == tick[p].seen[r]
         IN /\ Moved(p) /\ tick'[p].pc = "step" /\ tick'[p].cur = r /\ tick'[p].at = 1
            /\ tick'[p].wrote = tick[p].wrote \cup {r} /\ tick'[p].single = tick[p].single
            /\ tick'[p].tx[r] = ClaimedRow(Row(p, r), seen)
            /\ \A q \in Fires \ {r} : tick'[p].tx[q] = tick[p].tx[q]
            /\ tick'[p].seen[r].attempt = AttemptSeen(seen)
<1> DEFINE r == tick[p].cur
           old == tick[p].seen[r]
           row == ClaimedRow(Row(p, r), old)
           n == AttemptSeen(old)
           new == [old EXCEPT !.attempt = n]
           tx == [tick[p].tx EXCEPT ![r] = row]
           seen == [tick[p].seen EXCEPT ![r] = new]
           wrote == tick[p].wrote \cup {r}
           t == [tick[p] EXCEPT !.pc = "step", !.at = 1, !.wrote = wrote, !.tx = tx, !.seen = seen]
<1>1. old \in Rows /\ Row(p, r) \in Rows
  BY Typed, RowTyped
<1>2. row \in Rows /\ n \in Nat
  BY <1>1, ClaimedTyped
<1>3. tick' = [tick EXCEPT ![p] = [tick[p] EXCEPT !.pc = "step", !.at = 1, !.wrote = wrote,
                                           !.tx[r] = row, !.seen[r].attempt = n]]
  BY Zenon DEF Claim
<1> HIDE DEF row, n
<1>4. new \in Rows /\ new.attempt = n
  BY <1>1, <1>2 DEF Rows
<1>5. /\ tx \in [Fires -> Rows] /\ tx[r] = row /\ \A q \in Fires \ {r} : tx[q] = tick[p].tx[q]
      /\ wrote \in SUBSET Fires /\ seen \in [Fires -> Rows] /\ seen[r].attempt = n
  BY <1>2, <1>4, Typed
<1>6. tick[p] \in TickRow /\ tick[p].cur = r /\ 1 \in 0..(NumSteps + 1)
  BY Typed, Constants
<1> HIDE DEF wrote
<1>7. tick' = [tick EXCEPT ![p] = t]
  <2> DEFINE u == [tick[p] EXCEPT !.pc = "step", !.at = 1, !.wrote = wrote, !.tx[r] = row,
                                  !.seen[r].attempt = n]
  <2>1. tick' = [tick EXCEPT ![p] = u]
    BY <1>3
  <2>2. u = t
    BY <1>6 DEF TickRow
  <2>3. QED
    BY <2>1, <2>2, Zenon
<1> HIDE DEF tx, seen
<1>8. t \in TickRow
  BY <1>5, <1>6 DEF TickRow
<1>9. /\ t.pc = "step" /\ t.cur = r /\ t.wrote = wrote /\ t.tx = tx /\ t.seen = seen
      /\ t.at = 1 /\ t.single = tick[p].single
  BY <1>6 DEF TickRow
<1> HIDE DEF t
<1>10. Moved(p) /\ tick'[p] = t
  BY <1>7, <1>8, Update
<1>11. QED
  BY <1>5, <1>9, <1>10 DEF row, n, wrote

LEMMA LeaveFacts ==
  ASSUME TypeOK, NEW p \in Ticks, tick[p].cur \in Fires, NEW row \in Rows, LeaveRun(p, row)
  PROVE  /\ Moved(p) /\ tick'[p].pc \in {"done", "claim"} /\ tick'[p].wrote = tick[p].wrote
         /\ tick'[p].tx[tick[p].cur] = row /\ tick'[p].single = tick[p].single
         /\ \A q \in Fires \ {tick[p].cur} : tick'[p].tx[q] = tick[p].tx[q]
<1> DEFINE r == tick[p].cur
           tx == [tick[p].tx EXCEPT ![r] = row]
           pc == IF tick[p].single THEN "done" ELSE "claim"
           seen == Idle.seen
           t == [tick[p] EXCEPT !.pc = pc, !.tx = tx, !.cur = 0, !.at = 0, !.seen = seen]
<1>1. /\ tx \in [Fires -> Rows] /\ tx[r] = row /\ \A q \in Fires \ {r} : tx[q] = tick[p].tx[q]
      /\ pc \in {"done", "claim"}
  BY Typed
<1>2. /\ 0 \in 0..NumFires /\ 0 \in 0..(NumSteps + 1)
      /\ seen \in [Fires -> Rows] /\ tick[p] \in TickRow
  BY IdleFacts, RowFacts, Constants, Typed
<1>3. tick' = [tick EXCEPT ![p].pc = pc, ![p].tx[r] = row, ![p].cur = 0, ![p].at = 0,
                           ![p].seen = seen]
  BY DEF LeaveRun
<1> HIDE DEF pc, seen
<1>4. tick' = [tick EXCEPT ![p] = t]
  BY <1>3, Typed
<1> HIDE DEF tx
<1>5. t \in TickRow
  BY <1>1, <1>2 DEF TickRow
<1>6. t.pc = pc /\ t.wrote = tick[p].wrote /\ t.tx = tx /\ t.single = tick[p].single
  BY <1>2 DEF TickRow
<1> HIDE DEF t
<1>7. Moved(p) /\ tick'[p] = t
  BY <1>4, <1>5, Update
<1>8. QED
  BY <1>1, <1>6, <1>7

LEMMA SucceedFacts ==
  ASSUME TypeOK, NEW p \in Ticks, NEW r \in Fires, r = tick[p].cur, NEW n \in 1..NumSteps,
         StepSucceeds(p, n)
  PROVE  /\ Moved(p) /\ tick'[p].pc = tick[p].pc /\ tick'[p].cur = r /\ tick'[p].at = n + 1
         /\ tick'[p].wrote = tick[p].wrote /\ tick'[p].seen = tick[p].seen
         /\ tick'[p].single = tick[p].single
         /\ tick'[p].tx[r].status = tick[p].tx[r].status
         /\ tick'[p].tx[r].attempt = tick[p].tx[r].attempt
         /\ tick'[p].tx[r].done = tick[p].tx[r].done \cup {n}
         /\ \A q \in Fires \ {r} : tick'[p].tx[q] = tick[p].tx[q]
<1> DEFINE old == tick[p].tx[r]
           row == [old EXCEPT !.done = @ \cup {n}]
           at == n + 1
           tx == [tick[p].tx EXCEPT ![r] = row]
           t == [tick[p] EXCEPT !.at = at, !.tx = tx]
<1>1. old \in Rows /\ tick[p] \in TickRow
  BY Typed
<1>2. old.done \cup {n} \in SUBSET (1..NumSteps) /\ at \in 0..(NumSteps + 1)
  BY <1>1, Constants DEF Rows
<1>3. /\ row \in Rows /\ row.status = old.status /\ row.attempt = old.attempt
      /\ row.done = old.done \cup {n}
  BY <1>1, <1>2 DEF Rows
<1>4. tx \in [Fires -> Rows] /\ tx[r] = row /\ \A q \in Fires \ {r} : tx[q] = tick[p].tx[q]
  BY <1>3, Typed
<1> HIDE DEF at
<1>5. tick' = [tick EXCEPT ![p] = t]
  BY <1>1, Typed DEF at, StepSucceeds
<1> HIDE DEF tx, row
<1>6. t \in TickRow
  BY <1>1, <1>2, <1>4 DEF TickRow
<1>7. /\ t.pc = tick[p].pc /\ t.cur = r /\ t.wrote = tick[p].wrote /\ t.tx = tx
      /\ t.seen = tick[p].seen /\ t.at = at /\ t.single = tick[p].single
  BY <1>1 DEF TickRow
<1> HIDE DEF t
<1>8. Moved(p) /\ tick'[p] = t
  BY <1>5, <1>6, Update
<1>9. QED
  BY <1>3, <1>4, <1>7, <1>8 DEF at

-----------------------------------------------------------------------------
(* What a step of one transaction leaves as it is. *)

Grow == stale \subseteq stale' /\ lost \subseteq lost' /\ unread \subseteq unread'

LEMMA Exclusive ==
  ASSUME IInv, NEW p \in Ticks, Locked(p)
  PROVE  \A q \in Ticks \ {p} : tick[q].wrote = {}
BY Constants DEF IInv, Core, TickInv, Locked

LEMMA Holder ==
  ASSUME IInv, NEW p \in Ticks, tick[p].pc = "step"
  PROVE  lock = p /\ \A q \in Ticks \ {p} : tick[q].wrote = {}
<1>1. lock = p
  BY DEF IInv, Core, TickInv
<1>2. Locked(p)
  BY <1>1 DEF Locked
<1>3. QED
  BY <1>1, <1>2, Exclusive

LEMMA WrittenKept ==
  ASSUME TypeOK, NEW p \in Ticks, NEW r \in Fires, Written(p, r), Grow,
         tick'[p].tx[r] = tick[p].tx[r], tick[p].tx[r].status # "running",
         tick'[p].single = tick[p].single, db'[r] = db[r], ran'[r] = ran[r]
  PROVE  Written(p, r)'
BY DEF Written, Paid, Resumes, Grow

LEMMA TickKept ==
  ASSUME TypeOK, NEW q \in Ticks, TickInv(q), tick'[q] = tick[q], Grow,
         \A r \in Fires : db[r].status # "none" => db'[r].status # "none",
         \A r \in Fires : \A k \in Agents : AgentDone(r, k) => AgentDone(r, k)',
         tick[q].wrote = {} \/ (lock' = lock /\ db' = db /\ ran' = ran)
  PROVE  TickInv(q)'
<1>1. \A r \in tick[q].wrote : r \in Fires /\ Written(q, r)
  BY Typed DEF TickInv
<1>2. ASSUME NEW r \in tick[q].wrote PROVE Written(q, r)'
  <2>1. r \in Fires /\ Written(q, r) /\ db'[r] = db[r] /\ ran'[r] = ran[r]
    BY <1>1, <1>2
  <2>2. QED
    BY <2>1 DEF Written, Paid, Resumes, Grow
<1>3. QED
  BY <1>2, Typed DEF TickInv, Grow

LEMMA DbKept ==
  ASSUME TypeOK, NEW r \in Fires, DbInv(r), db'[r] = db[r], Grow,
         Committed(r)' => (Committed(r) /\ ran'[r] = ran[r]) \/ r \in lost' \cup stale'
  PROVE  DbInv(r)'
BY DEF DbInv, Grow, Paid

\* An agent run that is awaited still is.
LEMMA AgentKept ==
  ASSUME TypeOK, NEW r \in Fires, NEW k \in Agents, AgentInv(r, k), Grow,
         agent'[r][k] = "live" => agent[r][k] = "live",
         \A q \in Ticks : r \in tick[q].wrote /\ Waits(tick[q].tx[r], k) =>
            \/ r \in lost' \cup unread' \cup stale'
            \/ r \in tick'[q].wrote /\ Waits(tick'[q].tx[r], k)
            \/ Committed(r)' /\ Waits(db'[r], k),
         Committed(r) /\ Waits(db[r], k) /\ agent[r][k] = "live" =>
            \/ r \in lost' \cup unread' \cup stale'
            \/ Committed(r)' /\ Waits(db'[r], k)
  PROVE  AgentInv(r, k)'
BY DEF AgentInv, Grow, Waits

\* A transaction that only reads.
LEMMA ReadStep ==
  ASSUME IInv, NEW p \in Ticks, Moved(p), TickInv(p)',
         tick'[p].wrote = tick[p].wrote, tick'[p].tx = tick[p].tx,
         UNCHANGED <<detached, db, lock, agent, ran, history>>
  PROVE  IInv'
<1>0. TypeOK /\ Core
  BY DEF IInv
<1>1. Grow /\ UNCHANGED <<detached, db, lock, agent, ran, faults, lost, unread, stale>>
  BY DEF Grow, history
<1>2. TypeOK'
  BY <1>0, <1>1 DEF TypeOK, Moved
<1>3. \A q \in Ticks : tick'[q].wrote = tick[q].wrote /\ tick'[q].tx = tick[q].tx
  BY DEF Moved
<1>4. ASSUME NEW q \in Ticks PROVE TickInv(q)'
  <2>1. CASE q = p
    BY <2>1
  <2>2. CASE q # p
    BY <2>2, <1>0, <1>1, TickKept DEF Core, Moved, AgentDone
  <2>3. QED
    BY <2>1, <2>2
<1>5. \A r \in Fires : Committed(r)' = Committed(r)
  BY <1>3 DEF Committed
<1>6. ASSUME NEW r \in Fires PROVE DbInv(r)'
  BY <1>0, <1>1, <1>5, DbKept DEF Core
<1>7. ASSUME NEW r \in Fires, NEW k \in Agents PROVE AgentInv(r, k)'
  BY <1>0, <1>1, <1>3, <1>5, AgentKept DEF Core
<1>8. QED
  BY <1>2, <1>4, <1>6, <1>7 DEF IInv, Core

\* A transaction that writes the run of one fire and holds the lock.
LEMMA WriteStep ==
  ASSUME IInv, TypeOK', NEW p \in Ticks, Moved(p), TickInv(p)', Grow,
         \A q \in Ticks \ {p} : tick[q].wrote = {},
         tick[p].wrote \subseteq tick'[p].wrote, db' = db,
         \A r \in Fires : ran'[r] = ran[r] \/ r \in tick'[p].wrote,
         \A r \in Fires : \A k \in Agents : AgentDone(r, k) => AgentDone(r, k)',
         \A r \in Fires : \A k \in Agents : AgentInv(r, k)'
  PROVE  IInv'
<1>0. TypeOK /\ Core
  BY DEF IInv
<1>1. ASSUME NEW q \in Ticks PROVE TickInv(q)'
  <2>1. CASE q = p
    BY <2>1
  <2>2. CASE q # p
    BY <2>2, <1>0, TickKept DEF Core, Moved
  <2>3. QED
    BY <2>1, <2>2
<1>2. ASSUME NEW r \in Fires PROVE DbInv(r)'
  <2>1. Committed(r)' => Committed(r) /\ ran'[r] = ran[r]
    BY DEF Committed, Moved
  <2>2. QED
    BY <1>0, <2>1, DbKept DEF Core
<1>3. QED
  BY <1>1, <1>2 DEF IInv, Core

-----------------------------------------------------------------------------
(* The transactions that read. *)

LEMMA JobStep ==
  ASSUME IInv, NEW p \in Ticks, RunJob(p)
  PROVE  IInv'
<1>0. TypeOK /\ TickInv(p)
  BY DEF IInv, Core
<1>1. /\ tick' = [tick EXCEPT ![p].pc = "plan", ![p].single = TRUE]
      /\ tick[p].pc = "idle" /\ UNCHANGED <<detached, db, lock, agent, ran, history>>
  BY DEF RunJob
<1>2. /\ Moved(p) /\ tick'[p].pc = "plan"
      /\ tick'[p].wrote = tick[p].wrote /\ tick'[p].tx = tick[p].tx
  BY <1>0, <1>1, JobFacts
<1>3. tick'[p].wrote = {}
  BY <1>0, <1>1, <1>2 DEF TickInv
<1>4. TickInv(p)'
  BY <1>2, <1>3 DEF TickInv
<1>5. QED
  BY <1>1, <1>2, <1>4, ReadStep

LEMMA BeginStep ==
  ASSUME IInv, NEW p \in Ticks, BeginTick(p)
  PROVE  IInv'
<1>0. TypeOK /\ TickInv(p) /\ \A r \in Fires : DbInv(r)
  BY DEF IInv, Core
<1>1. /\ Moved(p) /\ tick[p].pc = "idle"
      /\ tick'[p].pc \in {"plan", "settle"} /\ tick'[p].todo = LoadDetached
      /\ tick'[p].wrote = tick[p].wrote /\ tick'[p].tx = tick[p].tx
      /\ \A r \in LoadDetached : tick'[p].seen[r] = db[r]
  BY <1>0, LoadFacts
<1>2. UNCHANGED <<detached, db, lock, agent, ran, history>>
  BY DEF BeginTick
<1>3. tick'[p].wrote = {}
  BY <1>0, <1>1 DEF TickInv
<1>4. ASSUME NEW r \in LoadDetached
      PROVE  /\ tick'[p].seen[r].status = "executing" /\ tick'[p].seen[r].agent \in Agents
             /\ AgentDone(r, tick[p].seen[r].agent)' /\ db'[r].status # "none"
  <2>1. tick'[p].seen[r] = db[r] /\ DbInv(r) /\ db[r].status = "executing" /\ AgentDone(r, db[r].agent)
    BY <1>0, <1>1, <1>4 DEF LoadDetached
  <2>2. QED
    BY <2>1, <1>2 DEF DbInv, AgentDone
<1>5. TickInv(p)'
  BY <1>1, <1>3, <1>4 DEF TickInv
<1>6. QED
  BY <1>1, <1>2, <1>5, ReadStep

\* A transaction that reads outside the loop over steps keeps what it wrote.
LEMMA ReaderKeeps ==
  ASSUME IInv, NEW p \in Ticks, Moved(p), tick[p].pc # "step",
         tick'[p].wrote = tick[p].wrote, tick'[p].tx = tick[p].tx,
         tick[p].wrote = {} \/ tick'[p].single = tick[p].single,
         UNCHANGED <<db, lock, agent, ran, history>>
  PROVE  /\ tick'[p].wrote # {} => lock' = p
         /\ \A r \in tick'[p].wrote : Written(p, r)'
<1>0. TypeOK /\ TickInv(p) /\ Grow
  BY DEF IInv, Core, Grow, history
<1>1. ASSUME NEW r \in tick[p].wrote PROVE Written(p, r)'
  <2>1. r \in Fires /\ Written(p, r) /\ tick[p].tx[r].status # "running"
    BY <1>0, <1>1, Typed DEF TickInv, Written
  <2>2. QED
    BY <1>0, <2>1, WrittenKept
<1>2. QED
  BY <1>0, <1>1 DEF TickInv

LEMMA FindStep ==
  ASSUME IInv, NEW p \in Ticks, FindFire(p)
  PROVE  IInv'
<1>0. TypeOK /\ TickInv(p)
  BY DEF IInv, Core
<1>1. tick[p].pc = "plan" /\ UNCHANGED <<detached, db, lock, agent, ran, history>>
  BY DEF FindFire
<1>2. CASE tick' = [tick EXCEPT ![p].pc = "claim"]
  <2>1. /\ Moved(p) /\ tick'[p].pc = "claim" /\ tick'[p].wrote = tick[p].wrote
        /\ tick'[p].tx = tick[p].tx /\ tick'[p].single = tick[p].single
    BY <1>0, <1>2, PcFacts
  <2>2. TickInv(p)'
    BY <1>1, <2>1, ReaderKeeps DEF TickInv
  <2>3. QED
    BY <1>1, <2>1, <2>2, ReadStep
<1>3. ASSUME NEW r \in Fires, tick' = [tick EXCEPT ![p].pc = "record", ![p].cur = r]
      PROVE  IInv'
  <2>1. /\ Moved(p) /\ tick'[p].pc = "record" /\ tick'[p].cur = r
        /\ tick'[p].wrote = tick[p].wrote /\ tick'[p].tx = tick[p].tx
        /\ tick'[p].single = tick[p].single
    BY <1>0, <1>3, FindFacts
  <2>2. TickInv(p)'
    BY <1>0, <1>1, <2>1, ReaderKeeps DEF TickInv
  <2>3. QED
    BY <1>1, <2>1, <2>2, ReadStep
<1>4. QED
  BY <1>2, <1>3 DEF FindFire

LEMMA PickStep ==
  ASSUME IInv, NEW p \in Ticks, NEW r \in Fires, Pick(p, r) \/ Resume(p, r)
  PROVE  IInv'
<1>0. TypeOK /\ TickInv(p)
  BY DEF IInv, Core
<1>1. tick[p].pc # "step" /\ UNCHANGED <<detached, db, lock, agent, ran, history>>
  BY DEF Pick, Resume
<1>2. PICK row \in Rows :
        /\ row.status \in Resumable
        /\ Moved(p) /\ tick'[p].pc = "lock" /\ tick'[p].cur = r /\ tick'[p].seen[r] = row
        /\ tick'[p].wrote = tick[p].wrote /\ tick'[p].tx = tick[p].tx
        /\ tick[p].wrote = {} \/ tick'[p].single = tick[p].single
  <2>1. CASE Pick(p, r)
    <3> DEFINE row == Row(p, r)
    <3>1. row \in Rows /\ row.status \in Resumable
      BY <1>0, <2>1, RowTyped DEF Pick, Candidate, Resumable
    <3>2. tick' = [tick EXCEPT ![p].pc = "lock", ![p].cur = r, ![p].seen[r] = row]
      BY <2>1 DEF Pick
    <3> HIDE DEF row
    <3>3. /\ Moved(p) /\ tick'[p].pc = "lock" /\ tick'[p].cur = r /\ tick'[p].seen[r] = row
          /\ tick'[p].wrote = tick[p].wrote /\ tick'[p].tx = tick[p].tx
          /\ tick'[p].single = tick[p].single
      BY <1>0, <3>1, <3>2, PickFacts
    <3>4. QED
      BY <3>1, <3>3
  <2>2. CASE Resume(p, r)
    <3> DEFINE row == db[r]
    <3>1. row \in Rows /\ row.status \in Resumable
      BY <1>0, <2>2, Typed DEF Resume, Resumable
    <3>2. tick' = [tick EXCEPT ![p].pc = "lock", ![p].single = TRUE, ![p].cur = r,
                               ![p].seen[r] = row]
      BY <2>2 DEF Resume
    <3> HIDE DEF row
    <3>3. /\ Moved(p) /\ tick'[p].pc = "lock" /\ tick'[p].cur = r /\ tick'[p].seen[r] = row
          /\ tick'[p].wrote = tick[p].wrote /\ tick'[p].tx = tick[p].tx
      BY <1>0, <3>1, <3>2, ResumeFacts
    <3>4. tick[p].wrote = {}
      BY <1>0, <2>2 DEF Resume, TickInv
    <3>5. QED
      BY <3>1, <3>3, <3>4
  <2>3. QED
    BY <2>1, <2>2
<1>3. TickInv(p)'
  BY <1>1, <1>2, ReaderKeeps DEF TickInv
<1>4. QED
  BY <1>1, <1>2, <1>3, ReadStep

-----------------------------------------------------------------------------
(* The transactions that end. *)

LEMMA RollbackStep ==
  ASSUME IInv, NEW p \in Ticks, Rollback(p), faults' \in Nat
  PROVE  IInv'
<1>0. TypeOK /\ Core
  BY DEF IInv
<1>1. tick' = [tick EXCEPT ![p] = Idle] /\ UNCHANGED <<detached, db, agent, ran, unread, stale>>
  BY DEF Rollback
<1>2. Moved(p) /\ tick'[p] = Idle /\ tick'[p].pc = "idle" /\ tick'[p].wrote = {}
  BY <1>0, <1>1, EndFacts, IdleFacts
<1>3. /\ lost' = lost \cup tick[p].wrote /\ lost' \in SUBSET Fires /\ Grow
      /\ lock' = (IF lock = p THEN None ELSE lock) /\ lock' \in Ticks \cup {None}
  BY <1>0, <1>1, Typed, Constants DEF Rollback, Grow, TypeOK
<1>4. TypeOK'
  BY <1>0, <1>1, <1>2, <1>3 DEF TypeOK, Moved
<1>5. ASSUME NEW q \in Ticks PROVE TickInv(q)'
  <2>1. CASE q = p
    BY <1>2, <2>1 DEF TickInv
  <2>2. CASE q # p
    <3>1. tick[q].wrote = {} \/ lock' = lock
      BY <1>0, <1>3, <2>2 DEF Core, TickInv
    <3>2. tick'[q] = tick[q] /\ TickInv(q)
      BY <1>0, <1>2, <2>2 DEF Core, Moved
    <3>3. QED
      BY <1>0, <1>1, <1>3, <3>1, <3>2, TickKept DEF AgentDone
  <2>3. QED
    BY <2>1, <2>2
<1>6. ASSUME NEW r \in Fires
      PROVE  /\ Committed(r)' => Committed(r) \/ r \in lost'
             /\ Committed(r) => Committed(r)'
  BY <1>2, <1>3 DEF Committed, Moved
<1>7. ASSUME NEW r \in Fires PROVE DbInv(r)'
  BY <1>0, <1>1, <1>3, <1>6, DbKept DEF Core
<1>8. ASSUME NEW r \in Fires, NEW k \in Agents PROVE AgentInv(r, k)'
  <2>1. \A q \in Ticks : r \in tick[q].wrote =>
          r \in lost' \/ (r \in tick'[q].wrote /\ tick'[q].tx[r] = tick[q].tx[r])
    BY <1>2, <1>3 DEF Moved
  <2>2. QED
    BY <1>0, <1>1, <1>3, <1>6, <2>1, AgentKept DEF Core
<1>9. QED
  BY <1>4, <1>5, <1>7, <1>8 DEF IInv, Core

LEMMA CommitStep ==
  ASSUME IInv, NEW p \in Ticks, Commit(p)
  PROVE  IInv'
<1>0. TypeOK /\ Core /\ TickInv(p)
  BY DEF IInv, Core
<1>1. /\ tick' = [tick EXCEPT ![p] = Idle] /\ tick[p].pc \in {"claim", "done"}
      /\ UNCHANGED <<detached, agent, ran, faults, lost, unread, stale>> /\ Grow
      /\ lock' = (IF lock = p THEN None ELSE lock) /\ lock' \in Ticks \cup {None}
  BY <1>0, Constants DEF Commit, history, Grow, TypeOK
<1>2. Moved(p) /\ tick'[p] = Idle /\ tick'[p].pc = "idle" /\ tick'[p].wrote = {}
  BY <1>0, <1>1, EndFacts, IdleFacts
<1>3. ASSUME NEW r \in Fires
      PROVE  /\ db'[r] \in Rows /\ db'[r] = Row(p, r)
             /\ r \in tick[p].wrote => db'[r] = tick[p].tx[r] /\ Written(p, r)
             /\ r \notin tick[p].wrote => db'[r] = db[r]
  BY <1>0, RowTyped DEF Commit, TickInv
<1>4. TypeOK'
  <2>1. db' \in [Fires -> Rows]
    BY <1>3 DEF Commit
  <2>2. QED
    BY <1>0, <1>1, <1>2, <2>1 DEF TypeOK, Moved
<1>5. \A r \in Fires : db[r].status # "none" => db'[r].status # "none"
  BY <1>3 DEF Written
<1>6. tick[p].wrote = {} => db' = db
  BY <1>0, <1>3, <1>4, Typed DEF TypeOK
<1>7. ASSUME NEW q \in Ticks, q # p
      PROVE  tick[q].wrote = {} \/ (lock' = lock /\ db' = db)
  BY <1>0, <1>1, <1>6, <1>7 DEF Core, TickInv
<1>8. ASSUME NEW q \in Ticks PROVE TickInv(q)'
  <2>1. CASE q = p
    BY <1>2, <2>1 DEF TickInv
  <2>2. CASE q # p
    <3>1. tick'[q] = tick[q] /\ TickInv(q)
      BY <1>0, <1>2, <2>2 DEF Core, Moved
    <3>2. QED
      BY <1>0, <1>1, <1>5, <1>7, <2>2, <3>1, TickKept DEF AgentDone
  <2>3. QED
    BY <2>1, <2>2
<1>9. ASSUME NEW r \in Fires, r \in tick[p].wrote
      PROVE  Committed(r)'
  <2>1. \A q \in Ticks \ {p} : tick[q].wrote = {}
    BY <1>0, <1>9 DEF Core, TickInv
  <2>2. QED
    BY <1>2, <2>1 DEF Committed, Moved
<1>10. ASSUME NEW r \in Fires PROVE DbInv(r)'
  <2>1. CASE r \in tick[p].wrote
    <3>1. /\ db'[r] = tick[p].tx[r] /\ Written(p, r) /\ db'[r].status # "running"
          /\ ran' = ran /\ lost' = lost /\ stale' = stale
      BY <1>1, <1>3, <2>1 DEF Written
    <3>2. QED
      BY <3>1 DEF DbInv, Written, Paid
  <2>2. CASE r \notin tick[p].wrote
    <3>1. db'[r] = db[r] /\ (Committed(r)' => Committed(r))
      BY <1>2, <1>3, <2>2 DEF Committed, Moved
    <3>2. QED
      BY <1>0, <1>1, <3>1, DbKept DEF Core
  <2>3. QED
    BY <2>1, <2>2
<1>11. ASSUME NEW r \in Fires, NEW k \in Agents PROVE AgentInv(r, k)'
  <2>1. \A q \in Ticks : r \in tick[q].wrote =>
          \/ r \in tick'[q].wrote /\ tick'[q].tx[r] = tick[q].tx[r]
          \/ Committed(r)' /\ db'[r] = tick[q].tx[r]
    BY <1>2, <1>3, <1>9 DEF Moved
  <2>2. Committed(r) => Committed(r)' /\ db'[r] = db[r]
    BY <1>2, <1>3 DEF Committed, Moved
  <2>3. QED
    BY <1>0, <1>1, <2>1, <2>2, AgentKept DEF Core
<1>12. QED
  BY <1>4, <1>8, <1>10, <1>11 DEF IInv, Core

\* An agent run settles.
LEMMA AgentStep ==
  ASSUME IInv, NEW r \in Fires, NEW k \in Agents, AgentSettles(r, k)
  PROVE  IInv'
<1>0. TypeOK /\ Core
  BY DEF IInv
<1>1. UNCHANGED <<detached, db, tick, lock, ran, faults, lost, unread, stale>> /\ Grow
  BY DEF AgentSettles, history, Grow
<1>2. PICK outcome \in {"ok", "failed"} : agent' = [agent EXCEPT ![r][k] = outcome]
  BY DEF AgentSettles
<1>3. /\ agent' \in [Fires -> [Agents -> {"none", "live", "ok", "failed"}]]
      /\ \A f \in Fires : \A j \in Agents :
           agent'[f][j] = agent[f][j] \/ agent'[f][j] \in {"ok", "failed"}
  BY <1>0, <1>2 DEF TypeOK, Agents
<1>4. TypeOK'
  BY <1>0, <1>1, <1>3 DEF TypeOK, Agents
<1>5. \A f \in Fires : \A j \in Agents : AgentDone(f, j) => AgentDone(f, j)'
  BY <1>3 DEF AgentDone
<1>6. ASSUME NEW q \in Ticks PROVE TickInv(q)'
  BY <1>0, <1>1, <1>5, TickKept DEF Core
<1>7. \A f \in Fires : Committed(f)' = Committed(f)
  BY <1>1 DEF Committed
<1>8. ASSUME NEW f \in Fires PROVE DbInv(f)'
  BY <1>0, <1>1, <1>7, DbKept DEF Core
<1>9. ASSUME NEW f \in Fires, NEW j \in Agents PROVE AgentInv(f, j)'
  BY <1>0, <1>1, <1>3, <1>7, AgentKept DEF Core
<1>10. QED
  BY <1>4, <1>6, <1>8, <1>9 DEF IInv, Core

-----------------------------------------------------------------------------
(* The transactions that write. *)

\* With the lock to be had, a run this transaction has not written is committed.
LEMMA ReadPaid ==
  ASSUME IInv, NEW p \in Ticks, Locked(p), NEW r \in Fires, tick[p].pc # "step"
  PROVE  /\ r \in lost \cup stale \/ Paid(r, Row(p, r), 0)
         /\ r \notin tick[p].wrote => Committed(r)
         /\ Row(p, r).status # "running" /\ (Resumes(p) => db[r].done \subseteq Row(p, r).done)
         /\ Row(p, r).status = "retryable" => Row(p, r).attempt < MaxAttempts \/ r \in stale
         /\ db[r].status \in Settled => Row(p, r) = db[r] \/ r \in stale
<1>0. TypeOK /\ TickInv(p) /\ DbInv(r) /\ db[r] \in Rows
  BY Typed DEF IInv, Core
<1>1. \A q \in Ticks \ {p} : tick[q].wrote = {}
  BY Exclusive
<1>2. CASE r \in tick[p].wrote
  BY <1>0, <1>2, RowTyped DEF TickInv, Written, Paid
<1>3. CASE r \notin tick[p].wrote
  <2>1. Committed(r)
    BY <1>1, <1>3 DEF Committed
  <2>2. Row(p, r) = db[r]
    BY <1>0, <1>3, RowTyped
  <2>3. QED
    BY <1>0, <1>3, <2>1, <2>2 DEF DbInv, Rows
<1>4. QED
  BY <1>2, <1>3

LEMMA RecordStep ==
  ASSUME IInv, NEW p \in Ticks, NEW status \in {"recorded", "shelved"}, Record(p, status)
  PROVE  IInv'
<1>0. TypeOK /\ Core /\ TickInv(p) /\ status \in Statuses
  BY DEF IInv, Core, Statuses
<1>a. PICK r \in Fires : r = tick[p].cur
  BY <1>0 DEF Record, TickInv
<1>1. /\ tick[p].pc = "record" /\ Locked(p) /\ db[r].status = "none" /\ lock' = p
      /\ UNCHANGED <<detached, db, agent, ran, faults, lost, unread, stale>> /\ Grow
  BY <1>a DEF Record, history, Grow
<1>2. r \notin tick[p].wrote
  BY <1>0, <1>1 DEF TickInv
<1>3. /\ Moved(p) /\ tick'[p].pc = "claim" /\ tick'[p].wrote = tick[p].wrote \cup {r}
      /\ tick'[p].single = tick[p].single
      /\ tick'[p].tx[r] = [NoRow EXCEPT !.status = status]
      /\ \A q \in Fires \ {r} : tick'[p].tx[q] = tick[p].tx[q]
  BY <1>0, <1>a, RecordFacts
<1>4. TypeOK'
  BY <1>0, <1>1, <1>3 DEF TypeOK, Moved
<1>5. \A q \in Ticks \ {p} : tick[q].wrote = {}
  BY <1>1, Exclusive
<1>6. db[r] = NoRow /\ (r \in lost \cup stale \/ Paid(r, NoRow, 0))
  <2>1. DbInv(r) /\ (r \in lost \cup stale \/ Paid(r, Row(p, r), 0)) /\ Row(p, r) = db[r]
    BY <1>0, <1>1, <1>2, ReadPaid, RowTyped DEF Core
  <2>2. QED
    BY <1>1, <2>1 DEF DbInv
<1>7. Written(p, r)'
  <2>1. /\ tick'[p].tx[r].status = status /\ tick'[p].tx[r].done = {} /\ tick'[p].tx[r].attempt = 1
        /\ db'[r].done = {} /\ db'[r].status = "none" /\ ran' = ran
    BY <1>1, <1>3, <1>6 DEF NoRow
  <2>2. r \in lost' \cup stale' \/ Paid(r, tick[p].tx[r], tick[p].at)'
    BY <1>1, <1>6, <2>1 DEF Paid, NoRow, Untouched
  <2>3. QED
    BY <2>1, <2>2 DEF Written, Settled
<1>8. ASSUME NEW f \in tick[p].wrote PROVE Written(p, f)'
  <2>1. f \in Fires \ {r} /\ Written(p, f) /\ tick[p].tx[f].status # "running"
    BY <1>0, <1>1, <1>2, <1>8, Typed DEF TickInv, Written
  <2>2. QED
    BY <1>0, <1>1, <1>3, <2>1, WrittenKept
<1>9. TickInv(p)'
  BY <1>1, <1>3, <1>7, <1>8 DEF TickInv
<1>10. ASSUME NEW f \in Fires, NEW k \in Agents PROVE AgentInv(f, k)'
  <2>1. \A q \in Ticks : f \in tick[q].wrote =>
          f \in tick'[q].wrote /\ tick'[q].tx[f] = tick[q].tx[f]
    BY <1>2, <1>3, <1>5 DEF Moved
  <2>2. Committed(f) /\ Waits(db[f], k) => Committed(f)' /\ Waits(db'[f], k)
    BY <1>1, <1>3 DEF Committed, Moved, Waits
  <2>3. QED
    BY <1>0, <1>1, <2>1, <2>2, AgentKept DEF Core
<1>11. \A f \in Fires : \A k \in Agents : AgentDone(f, k) => AgentDone(f, k)'
  BY <1>1 DEF AgentDone
<1>12. QED
  BY <1>1, <1>3, <1>4, <1>5, <1>9, <1>10, <1>11, WriteStep

LEMMA SettleStep ==
  ASSUME IInv, NEW p \in Ticks, SettleDetached(p)
  PROVE  IInv'
<1>0. TypeOK /\ Core /\ TickInv(p) /\ tick[p].todo \in SUBSET Fires
  BY Typed DEF IInv, Core
<1>1. /\ tick[p].pc = "settle" /\ Locked(p) /\ lock' = p
      /\ UNCHANGED <<detached, db, agent, ran, faults, lost, unread>>
      /\ stale' = stale \cup {r \in tick[p].todo : db[r] # tick[p].seen[r]}
  BY DEF SettleDetached
<1>2. Grow /\ stale' \in SUBSET Fires /\ tick[p].wrote = {}
  BY <1>0, <1>1 DEF Grow, TypeOK, TickInv
<1>3. /\ Moved(p) /\ tick'[p].pc = "plan" /\ tick'[p].wrote = tick[p].todo
      /\ \A r \in tick[p].todo : tick'[p].tx[r] = Reconciled(p, r)
  BY <1>0, SettleFacts
<1>4. TypeOK'
  BY <1>0, <1>1, <1>2, <1>3 DEF TypeOK, Moved
<1>5. \A q \in Ticks \ {p} : tick[q].wrote = {}
  BY <1>1, Exclusive
<1>6. ASSUME NEW r \in tick[p].todo PROVE Written(p, r)' /\ db'[r].status # "none"
  <2> DEFINE w == tick'[p].tx[r]
             n == tick[p].seen[r].attempt
  <2>1. /\ r \in Fires /\ db[r].status # "none" /\ tick[p].seen[r].status = "executing"
        /\ db[r] = tick[p].seen[r] \/ r \in stale'
    BY <1>0, <1>1, <1>6 DEF TickInv
  <2>2. db[r] \in Rows /\ n \in Nat
    BY <1>0, <2>1, Typed DEF Rows
  <2>3. /\ w \in Rows /\ w.attempt = db[r].attempt /\ db[r].done \subseteq w.done
        /\ w.status \in {"settled_success", "settled_failure", "retryable"}
        /\ w.status = "retryable" => n < MaxAttempts
    BY <1>0, <1>3, <2>1, <2>2, ReconciledTyped, FailureTyped
  <2>4. r \in lost \cup stale \/ Paid(r, db[r], 0)
    <3>1. Row(p, r) = db[r] /\ (r \in lost \cup stale \/ Paid(r, Row(p, r), 0))
      BY <1>0, <1>1, <1>2, <2>1, RowTyped, ReadPaid
    <3>2. QED
      BY <3>1
  <2> HIDE DEF w, n
  <2>5. r \in lost' \cup stale' \/ Paid(r, tick[p].tx[r], tick[p].at)'
    <3>1. CASE r \in stale' \cup lost
      BY <1>1, <3>1
    <3>2. CASE r \notin stale' \cup lost
      <4>1. Paid(r, db[r], 0) /\ db[r].status = "executing" /\ ran' = ran
        BY <1>1, <1>2, <2>1, <2>4, <3>2 DEF Grow
      <4>2. \A s \in 1..NumSteps : ran[r][s] <= w.attempt
        BY <2>3, <4>1 DEF Paid
      <4>3. QED
        BY <2>3, <4>1, <4>2 DEF Paid, Untouched, w
    <3>3. QED
      BY <3>1, <3>2
  <2>6. QED
    BY <1>1, <2>1, <2>3, <2>5 DEF Written, Settled, w, n
<1>7. TickInv(p)'
  BY <1>1, <1>3, <1>6 DEF TickInv
<1>8. ASSUME NEW r \in Fires, NEW k \in Agents PROVE AgentInv(r, k)'
  <2>1. \A q \in Ticks : r \notin tick[q].wrote
    BY <1>2, <1>5
  <2>2. ASSUME Committed(r), Waits(db[r], k), agent[r][k] = "live"
        PROVE  r \in lost' \cup stale' \/ (Committed(r)' /\ Waits(db'[r], k))
    <3>1. CASE r \in tick[p].todo
      BY <1>0, <1>1, <2>2, <3>1 DEF TickInv, Waits, AgentDone
    <3>2. CASE r \notin tick[p].todo
      BY <1>1, <1>3, <2>2, <3>2 DEF Committed, Moved
    <3>3. QED
      BY <3>1, <3>2
  <2>3. AgentInv(r, k)
    BY <1>0 DEF Core
  <2>4. QED
    BY <1>0, <1>1, <1>2, <2>1, <2>2, <2>3, AgentKept
<1>9. \A f \in Fires : \A k \in Agents : AgentDone(f, k) => AgentDone(f, k)'
  BY <1>1 DEF AgentDone
<1>10. QED
  BY <1>1, <1>2, <1>3, <1>4, <1>5, <1>7, <1>8, <1>9, WriteStep

LEMMA ClaimStep ==
  ASSUME IInv, NEW p \in Ticks, Claim(p)
  PROVE  IInv'
<1>0. TypeOK /\ Core /\ TickInv(p)
  BY DEF IInv, Core
<1>1. PICK r \in Fires : r = tick[p].cur
  BY <1>0 DEF Claim, TickInv
<1> DEFINE seen == tick[p].seen[r]
           row == Row(p, r)
<1>2. /\ tick[p].pc = "lock" /\ Locked(p) /\ lock' = p
      /\ UNCHANGED <<detached, db, agent, ran, faults, lost, unread>>
      /\ stale' = IF row # seen \/ seen.status = "executing" THEN stale \cup {r} ELSE stale
  BY <1>1 DEF Claim
<1>3. Grow /\ stale' \in SUBSET Fires /\ seen.status \in Resumable
  BY <1>0, <1>1, <1>2 DEF Grow, TypeOK, TickInv
<1>4. row \in Rows /\ seen \in Rows
  BY <1>0, RowTyped, Typed
<1>5. /\ Moved(p) /\ tick'[p].pc = "step" /\ tick'[p].cur = r /\ tick'[p].at = 1
      /\ tick'[p].single = tick[p].single
      /\ tick'[p].wrote = tick[p].wrote \cup {r}
      /\ tick'[p].tx[r] = ClaimedRow(row, seen)
      /\ \A q \in Fires \ {r} : tick'[p].tx[q] = tick[p].tx[q]
      /\ tick'[p].seen[r].attempt = AttemptSeen(seen)
  BY <1>0, <1>1, ClaimFacts
<1>6. TypeOK'
  BY <1>0, <1>2, <1>3, <1>5 DEF TypeOK, Moved
<1>7. \A q \in Ticks \ {p} : tick[q].wrote = {}
  BY <1>2, Exclusive
<1>8. /\ r \in lost \cup stale \/ Paid(r, row, 0)
      /\ r \notin tick[p].wrote => Committed(r)
      /\ Resumes(p) => db[r].done \subseteq row.done
      /\ row.status = "retryable" => row.attempt < MaxAttempts \/ r \in stale
      /\ db[r].status \in Settled => row = db[r] \/ r \in stale
  BY <1>2, ReadPaid
<1>9. \A q \in Ticks : r \in tick[q].wrote => row = tick[q].tx[r]
  BY <1>0, <1>7, RowTyped
<1>10. r \notin tick[p].wrote => row = db[r]
  BY <1>0, RowTyped
<1>11. /\ tick'[p].tx[r].status = "running" /\ tick'[p].tx[r].done = row.done
       /\ tick'[p].tx[r].attempt =
            IF seen.status = "retryable" THEN seen.attempt + 1 ELSE row.attempt
       /\ tick'[p].seen[r].attempt =
            IF seen.status = "retryable" THEN seen.attempt + 1 ELSE seen.attempt
  BY <1>4, <1>5, ClaimedTyped
<1> HIDE DEF row, seen
<1>12. row = seen \/ r \in stale'
  BY <1>2
<1>13. r \in lost' \cup stale' \/ Paid(r, tick[p].tx[r], tick[p].at)'
  <2>1. CASE r \in lost \cup stale'
    BY <1>2, <2>1
  <2>2. CASE r \notin lost \cup stale'
    <3>1. /\ row = seen /\ seen.status \in {"recorded", "shelved", "retryable"}
          /\ Paid(r, row, 0) /\ ran' = ran /\ ran[r] \in [1..NumSteps -> Nat]
          /\ row.status = "retryable" => row.attempt < MaxAttempts
      BY <1>0, <1>2, <1>3, <1>8, <2>2 DEF Grow, Resumable, TypeOK
    <3>2. row.attempt \in Nat /\ MaxAttempts \in Nat
      BY <1>4, Constants DEF Rows
    <3>3. CASE row.status = "retryable"
      <4>1. tick'[p].tx[r].attempt = row.attempt + 1 /\ row.attempt < MaxAttempts
        BY <1>11, <3>1, <3>3
      <4>2. \A s \in 1..NumSteps : ran[r][s] \in Nat /\ ran[r][s] <= row.attempt
        BY <3>1, <3>3 DEF Paid
      <4>3. QED
        BY <1>11, <3>1, <3>2, <4>1, <4>2 DEF Paid, Untouched
    <3>4. CASE row.status # "retryable"
      <4>1. tick'[p].tx[r].attempt = 1 /\ \A s \in 1..NumSteps : ran[r][s] = 0
        BY <1>11, <3>1, <3>4 DEF Paid, Untouched
      <4>2. QED
        BY <1>11, <3>1, <3>2, <4>1, Constants DEF Paid, Untouched
    <3>5. QED
      BY <3>3, <3>4
  <2>3. QED
    BY <2>1, <2>2
<1>14. Written(p, r)'
  <2>1. db[r].status \in Settled => r \in stale'
    BY <1>3, <1>8, <1>12 DEF Settled, Resumable, Grow
  <2>2. QED
    BY <1>2, <1>5, <1>8, <1>11, <1>13, <2>1 DEF Written, Resumes
<1>15. ASSUME NEW f \in tick[p].wrote \ {r} PROVE Written(p, f)'
  <2>1. f \in Fires \ {r} /\ Written(p, f) /\ tick[p].tx[f].status # "running"
    BY <1>0, <1>2, <1>15, Typed DEF TickInv, Written
  <2>2. QED
    BY <1>0, <1>2, <1>3, <1>5, <2>1, WrittenKept
<1>16. tick'[p].tx[r].attempt = tick'[p].seen[r].attempt \/ r \in stale'
  BY <1>11, <1>12
<1>17. TickInv(p)'
  BY <1>2, <1>5, <1>11, <1>14, <1>15, <1>16 DEF TickInv
<1>18. ASSUME NEW f \in Fires, NEW k \in Agents PROVE AgentInv(f, k)'
  <2>1. CASE f = r
    <3>1. ASSUME Waits(row, k) PROVE r \in stale'
      BY <1>2, <3>1 DEF Waits
    <3>2. Committed(r) => row = db[r]
      BY <1>10 DEF Committed
    <3>3. AgentInv(r, k)
      BY <1>0 DEF Core
    <3>4. QED
      BY <1>0, <1>2, <1>3, <1>9, <2>1, <3>1, <3>2, <3>3, AgentKept
  <2>2. CASE f # r
    <3>1. \A q \in Ticks : f \in tick[q].wrote =>
            f \in tick'[q].wrote /\ tick'[q].tx[f] = tick[q].tx[f]
      BY <1>5, <2>2 DEF Moved
    <3>2. Committed(f) => Committed(f)'
      BY <1>5, <2>2 DEF Committed, Moved
    <3>3. AgentInv(f, k)
      BY <1>0 DEF Core
    <3>4. QED
      BY <1>0, <1>2, <1>3, <3>1, <3>2, <3>3, AgentKept
  <2>3. QED
    BY <2>1, <2>2
<1>19. \A f \in Fires : \A k \in Agents : AgentDone(f, k) => AgentDone(f, k)'
  BY <1>2 DEF AgentDone
<1>20. QED
  BY <1>2, <1>3, <1>5, <1>6, <1>7, <1>17, <1>18, <1>19, WriteStep

\* The command of a step is started.
LEMMA CommandFacts ==
  ASSUME IInv, NEW p \in Ticks, NEW r \in Fires, r = tick[p].cur, tick[p].pc = "step",
         NEW n \in 1..NumSteps, RunCommand(p, n) \/ ran' = ran
  PROVE  /\ tick[p].tx[r] \in Rows /\ ran' \in [Fires -> [1..NumSteps -> Nat]]
         /\ \A f \in Fires \ {r} : ran'[f] = ran[f]
         /\ \A s \in 1..NumSteps :
              ran'[r][s] <= IF s = n /\ n >= tick[p].at THEN ran[r][s] + 1 ELSE ran[r][s]
<1>0. TypeOK /\ tick[p].tx[r] \in Rows /\ ran \in [Fires -> [1..NumSteps -> Nat]]
  BY Typed DEF IInv, TypeOK
<1>1. \A s \in 1..NumSteps : ran[r][s] \in Nat
  BY <1>0
<1>2. CASE ran' = ran
  BY <1>0, <1>1, <1>2
<1>3. CASE RunCommand(p, n)
  <2> DEFINE row == [ran[r] EXCEPT ![n] = @ + 1]
  <2>1. n >= tick[p].at
    BY <1>3 DEF RunCommand, NextStep
  <2>3. ran' = [ran EXCEPT ![r] = row]
    BY <1>0, <1>3 DEF RunCommand
  <2>4. row \in [1..NumSteps -> Nat] /\ row[n] = ran[r][n] + 1
    <3>1. ran[r] \in [1..NumSteps -> Nat] /\ ran[r][n] + 1 \in Nat
      BY <1>0, <1>1
    <3>2. QED
      BY <3>1
  <2>5. \A s \in 1..NumSteps : s # n => row[s] = ran[r][s]
    BY <1>0
  <2> HIDE DEF row
  <2>6. /\ ran' \in [Fires -> [1..NumSteps -> Nat]] /\ ran'[r] = row
        /\ \A f \in Fires \ {r} : ran'[f] = ran[f]
    BY <1>0, <2>3, <2>4
  <2>7. ASSUME NEW s \in 1..NumSteps
        PROVE  row[s] <= IF s = n THEN ran[r][s] + 1 ELSE ran[r][s]
    BY <1>1, <2>4, <2>5
  <2>8. QED
    BY <1>0, <2>1, <2>6, <2>7
<1>4. QED
  BY <1>2, <1>3

\* A transaction in the loop over the steps of a run: no agent run it could lose
\* is awaited.
LEMMA StepAgents ==
  ASSUME IInv, NEW p \in Ticks, NEW r \in Fires, r = tick[p].cur, tick[p].pc = "step",
         NEW k \in Agents, agent[r][k] = "live"
  PROVE  r \in lost \cup unread \cup stale
<1>1. TickInv(p) /\ AgentInv(r, k)
  BY DEF IInv, Core
<1>2. r \in tick[p].wrote /\ tick[p].tx[r].status = "running" /\ ~Committed(r)
  BY <1>1 DEF TickInv, Committed
<1>3. \A q \in Ticks \ {p} : r \notin tick[q].wrote
  BY Holder
<1>4. QED
  BY <1>1, <1>2, <1>3 DEF AgentInv, Waits

\* A step of the loop that writes an honest row.
LEMMA LoopStep ==
  ASSUME IInv, TypeOK', NEW p \in Ticks, NEW r \in Fires, r = tick[p].cur, tick[p].pc = "step",
         Moved(p), Grow, db' = db, lock' = lock,
         \A f \in Fires \ {r} : ran'[f] = ran[f],
         tick'[p].wrote = tick[p].wrote, tick'[p].single = tick[p].single,
         \A f \in Fires \ {r} : tick'[p].tx[f] = tick[p].tx[f],
         tick'[p].pc \in {"step", "claim", "done"},
         tick'[p].pc = "step" => /\ tick'[p].cur = r /\ tick'[p].tx[r].status = "running"
                                 /\ \/ tick'[p].tx[r].attempt = tick'[p].seen[r].attempt
                                    \/ r \in stale',
         Written(p, r)',
         \A f \in Fires : \A k \in Agents : AgentDone(f, k) => AgentDone(f, k)',
         \A f \in Fires \ {r} : agent'[f] = agent[f],
         \A k \in Agents : agent'[r][k] = "live" =>
            agent[r][k] = "live" \/ r \in unread' \/ Waits(tick'[p].tx[r], k)
  PROVE  IInv'
<1>0. TypeOK /\ Core /\ TickInv(p)
  BY DEF IInv, Core
<1>1. lock = p /\ \A q \in Ticks \ {p} : tick[q].wrote = {}
  BY Holder
<1>2. r \in tick[p].wrote
  BY <1>0 DEF TickInv
<1>3. ASSUME NEW f \in tick[p].wrote PROVE Written(p, f)'
  <2>1. CASE f = r
    BY <2>1
  <2>2. CASE f # r
    <3>1. f \in Fires \ {r} /\ Written(p, f) /\ tick[p].tx[f].status # "running"
      BY <1>0, <1>3, <2>2, Typed DEF TickInv, Written
    <3>2. QED
      BY <1>0, <3>1, WrittenKept
  <2>3. QED
    BY <2>1, <2>2
<1>4. TickInv(p)'
  BY <1>1, <1>2, <1>3 DEF TickInv
<1>5. ASSUME NEW f \in Fires, NEW k \in Agents PROVE AgentInv(f, k)'
  <2>1. CASE f = r
    <3>1. ASSUME agent'[r][k] = "live"
          PROVE  r \in lost' \cup unread' \cup stale' \/ Waits(tick'[p].tx[r], k)
      BY <3>1, StepAgents DEF Grow
    <3>2. r \in tick'[p].wrote
      BY <1>2
    <3>3. QED
      BY <2>1, <3>1, <3>2 DEF AgentInv
  <2>2. CASE f # r
    <3>1. \A q \in Ticks : f \in tick[q].wrote =>
            f \in tick'[q].wrote /\ tick'[q].tx[f] = tick[q].tx[f]
      BY <2>2 DEF Moved
    <3>2. Committed(f) => Committed(f)'
      BY DEF Committed, Moved
    <3>3. AgentInv(f, k) /\ agent'[f] = agent[f]
      BY <1>0, <2>2 DEF Core
    <3>4. QED
      BY <1>0, <3>1, <3>2, <3>3, AgentKept
  <2>3. QED
    BY <2>1, <2>2
<1>6. \A f \in Fires : ran'[f] = ran[f] \/ f \in tick'[p].wrote
  BY <1>2
<1>7. QED
  BY <1>1, <1>4, <1>5, <1>6, WriteStep

LEMMA SucceedStep ==
  ASSUME IInv, NEW p \in Ticks, NEW n \in 1..NumSteps, StepSucceeds(p, n)
  PROVE  IInv'
<1>0. TypeOK /\ Core /\ TickInv(p) /\ tick[p].pc = "step"
  BY DEF IInv, Core, StepSucceeds, RunCommand
<1>1. PICK r \in Fires : r = tick[p].cur
  BY <1>0 DEF TickInv
<1>2. /\ RunCommand(p, n) /\ n >= tick[p].at
      /\ UNCHANGED <<detached, db, lock, agent, faults, lost, unread, stale>> /\ Grow
  BY DEF StepSucceeds, RunCommand, NextStep, history, Grow
<1>3. /\ tick[p].tx[r] \in Rows /\ ran' \in [Fires -> [1..NumSteps -> Nat]]
      /\ \A f \in Fires \ {r} : ran'[f] = ran[f]
      /\ \A s \in 1..NumSteps :
           ran'[r][s] <= IF s = n /\ n >= tick[p].at THEN ran[r][s] + 1 ELSE ran[r][s]
  BY <1>0, <1>1, <1>2, CommandFacts
<1>4. /\ Moved(p) /\ tick'[p].pc = tick[p].pc /\ tick'[p].cur = r /\ tick'[p].at = n + 1
      /\ tick'[p].single = tick[p].single
      /\ tick'[p].wrote = tick[p].wrote /\ tick'[p].seen = tick[p].seen
      /\ tick'[p].tx[r].status = tick[p].tx[r].status
      /\ tick'[p].tx[r].attempt = tick[p].tx[r].attempt
      /\ tick'[p].tx[r].done = tick[p].tx[r].done \cup {n}
      /\ \A q \in Fires \ {r} : tick'[p].tx[q] = tick[p].tx[q]
  BY <1>0, <1>1, SucceedFacts
<1>5. TypeOK'
  BY <1>0, <1>2, <1>3, <1>4 DEF TypeOK, Moved
<1> DEFINE old == tick[p].tx[r]
<1>6. /\ tick'[p].tx[r].status = "running" /\ tick'[p].tx[r].attempt = old.attempt
      /\ tick'[p].tx[r].done = old.done \cup {n} /\ old.attempt \in Nat /\ old.status = "running"
      /\ old.attempt = tick[p].seen[r].attempt \/ r \in stale
      /\ r \in tick[p].wrote /\ Written(p, r)
  BY <1>0, <1>1, <1>3, <1>4 DEF Rows, TickInv
<1>7. r \in lost' \cup stale' \/ Paid(r, tick[p].tx[r], tick[p].at)'
  <2>1. CASE r \in lost \cup stale
    BY <1>2, <2>1
  <2>2. CASE r \notin lost \cup stale
    <3>1. Paid(r, old, tick[p].at)
      BY <1>6, <2>2 DEF Written
    <3>2. ASSUME NEW s \in 1..NumSteps
          PROVE  ran'[r][s] <= IF s >= n + 1 THEN old.attempt - 1 ELSE old.attempt
      <4>1. ran[r][s] \in Nat /\ ran'[r][s] \in Nat
        BY <1>0, <1>3 DEF TypeOK
      <4>2. ran[r][s] <= IF s >= tick[p].at THEN old.attempt - 1 ELSE old.attempt
        BY <1>6, <3>1 DEF Paid
      <4>3. ran'[r][s] <= IF s = n THEN ran[r][s] + 1 ELSE ran[r][s]
        BY <1>2, <1>3, <1>6
      <4> HIDE DEF old
      <4>4. old.attempt \in Nat /\ tick[p].at \in Nat /\ n >= tick[p].at
        BY <1>0, <1>2, <1>6, Typed DEF TickRow
      <4>5. QED
        BY <4>1, <4>2, <4>3, <4>4
    <3>3. QED
      BY <1>4, <1>6, <3>1, <3>2 DEF Paid, Untouched
  <2>3. QED
    BY <2>1, <2>2
<1>8. Written(p, r)'
  BY <1>0, <1>2, <1>4, <1>6, <1>7 DEF Written, Resumes
<1>9. \A f \in Fires : \A k \in Agents : AgentDone(f, k) => AgentDone(f, k)'
  BY <1>2 DEF AgentDone
<1>10. tick'[p].tx[r].attempt = tick'[p].seen[r].attempt \/ r \in stale'
  BY <1>2, <1>4, <1>6
<1> HIDE DEF old
<1>11. QED
  BY <1>0, <1>1, <1>2, <1>3, <1>4, <1>5, <1>6, <1>8, <1>9, <1>10, LoopStep

\* The run of the transaction leaves the loop: with its last command started or not,
\* and with the row it is left with.
LEMMA LeaveStep ==
  ASSUME IInv, NEW p \in Ticks, NEW r \in Fires, r = tick[p].cur, tick[p].pc = "step",
         NEW n \in 1..NumSteps, RunCommand(p, n) \/ ran' = ran, NEW row \in Rows, LeaveRun(p, row),
         Resumes(p) => tick[p].tx[r].done \subseteq row.done, row.attempt = tick[p].tx[r].attempt,
         row.status \in Settled \cup {"retryable", "executing"},
         row.status = "retryable" => tick[p].seen[r].attempt < MaxAttempts,
         row.status = "executing" => row.agent \in Agents,
         UNCHANGED <<detached, db, lock, faults, lost, stale>>, unread' \in SUBSET Fires, Grow,
         agent' \in [Fires -> [Agents -> {"none", "live", "ok", "failed"}]],
         \A f \in Fires : \A k \in Agents : AgentDone(f, k) => AgentDone(f, k)',
         \A f \in Fires \ {r} : agent'[f] = agent[f],
         \A k \in Agents : agent'[r][k] = "live" =>
            agent[r][k] = "live" \/ r \in unread' \/ Waits(row, k)
  PROVE  IInv'
<1>0. TypeOK /\ Core /\ TickInv(p)
  BY DEF IInv, Core
<1>1. /\ tick[p].tx[r] \in Rows /\ ran' \in [Fires -> [1..NumSteps -> Nat]]
      /\ \A f \in Fires \ {r} : ran'[f] = ran[f]
      /\ \A s \in 1..NumSteps :
           ran'[r][s] <= IF s = n /\ n >= tick[p].at THEN ran[r][s] + 1 ELSE ran[r][s]
  BY CommandFacts
<1>2. /\ Moved(p) /\ tick'[p].pc \in {"done", "claim"} /\ tick'[p].wrote = tick[p].wrote
      /\ tick'[p].tx[r] = row /\ tick'[p].single = tick[p].single
      /\ \A q \in Fires \ {r} : tick'[p].tx[q] = tick[p].tx[q]
  BY <1>0, LeaveFacts
<1>3. TypeOK'
  BY <1>0, <1>1, <1>2 DEF TypeOK, Moved, Agents
<1> DEFINE old == tick[p].tx[r]
<1>4. /\ old.attempt \in Nat
      /\ old.attempt = tick[p].seen[r].attempt \/ r \in stale
      /\ old.status = "running" /\ r \in tick[p].wrote /\ Written(p, r)
  BY <1>0, <1>1 DEF Rows, TickInv
<1>5. r \in lost' \cup stale' \/ Paid(r, tick[p].tx[r], tick[p].at)'
  <2>1. CASE r \in lost \cup stale
    BY <2>1 DEF Grow
  <2>2. CASE r \notin lost \cup stale
    <3>1. Paid(r, old, tick[p].at)
      BY <1>4, <2>2 DEF Written
    <3> HIDE DEF old
    <3>2. ASSUME NEW s \in 1..NumSteps PROVE ran'[r][s] <= old.attempt
      <4>1. ran[r][s] \in Nat /\ ran'[r][s] \in Nat
        BY <1>0, <1>1 DEF TypeOK
      <4>2. ran[r][s] <= IF s >= tick[p].at THEN old.attempt - 1 ELSE old.attempt
        BY <1>4, <3>1 DEF Paid
      <4>3. ran'[r][s] <= IF s = n /\ n >= tick[p].at THEN ran[r][s] + 1 ELSE ran[r][s]
        BY <1>1, <1>4
      <4>4. old.attempt \in Nat /\ tick[p].at \in Nat
        BY <1>0, <1>4, Typed DEF TickRow
      <4>5. QED
        BY <4>1, <4>2, <4>3, <4>4
    <3>3. QED
      BY <1>2, <3>1, <3>2 DEF Paid, Untouched, Settled, old
  <2>3. QED
    BY <2>1, <2>2
<1>6. Written(p, r)'
  BY <1>2, <1>4, <1>5 DEF Written, Resumes, Settled
<1> HIDE DEF old
<1>7. QED
  BY <1>1, <1>2, <1>3, <1>6, LoopStep

\* What a step that has not succeeded leaves of the row.
LEMMA UnfinishedRow ==
  ASSUME IInv, NEW p \in Ticks, NEW r \in Fires, r = tick[p].cur, NEW n \in 1..NumSteps,
         RunCommand(p, n), NEW status \in Statuses
  PROVE  LET row == Unfinished(p, n, status)
         IN /\ row \in Rows /\ (Resumes(p) => tick[p].tx[r].done \subseteq row.done)
            /\ row.attempt = tick[p].tx[r].attempt /\ row.status = status
<1> DEFINE old == tick[p].tx[r]
           done == old.done \ {n}
<1>1. old \in Rows
  BY Typed DEF IInv
<1>2. done \in SUBSET (1..NumSteps)
  BY <1>1 DEF Rows
<1>3. Resumes(p) => old.done \subseteq done
  BY DEF RunCommand, NextStep, Skipped
<1>4. Unfinished(p, n, status) = [old EXCEPT !.status = status, !.done = done]
  BY DEF Unfinished
<1> HIDE DEF done
<1>5. QED
  BY <1>1, <1>2, <1>3, <1>4 DEF Rows

\* What a failed attempt leaves of the row.
LEMMA FailedStatus ==
  ASSUME IInv, NEW p \in Ticks, NEW r \in Fires
  PROVE  LET status == FailureStatus(tick[p].seen[r].attempt)
         IN /\ status \in Statuses /\ status \in {"retryable", "settled_failure"}
            /\ status = "retryable" => tick[p].seen[r].attempt < MaxAttempts
<1>1. tick[p].seen[r] \in Rows
  BY Typed DEF IInv
<1>2. tick[p].seen[r].attempt \in Nat
  BY <1>1 DEF Rows
<1>3. QED
  BY <1>2, FailureTyped

LEMMA FailStep ==
  ASSUME IInv, NEW p \in Ticks, NEW n \in 1..NumSteps,
         StepFails(p, n) \/ StepNotConfigured(p, n) \/ RunSucceeds(p)
  PROVE  IInv'
<1>0. TypeOK /\ Core /\ TickInv(p) /\ tick[p].pc = "step"
  BY DEF IInv, Core, StepFails, StepNotConfigured, RunSucceeds, RunCommand
<1>1. PICK r \in Fires : r = tick[p].cur
  BY <1>0 DEF TickInv
<1>2. /\ RunCommand(p, n) \/ ran' = ran
      /\ UNCHANGED <<detached, db, lock, agent, faults, lost, unread, stale>> /\ Grow
  BY DEF StepFails, StepNotConfigured, RunSucceeds, history, Grow
<1>3. PICK row \in Rows :
        /\ LeaveRun(p, row) /\ (Resumes(p) => tick[p].tx[r].done \subseteq row.done)
        /\ row.attempt = tick[p].tx[r].attempt
        /\ row.status \in Settled \cup {"retryable"}
        /\ row.status = "retryable" => tick[p].seen[r].attempt < MaxAttempts
  <2>1. CASE StepFails(p, n)
    <3> DEFINE status == FailureStatus(tick[p].seen[r].attempt)
               row == Unfinished(p, n, status)
    <3>1. /\ status \in Statuses /\ status \in {"retryable", "settled_failure"}
          /\ status = "retryable" => tick[p].seen[r].attempt < MaxAttempts
      BY FailedStatus
    <3>2. RunCommand(p, n) /\ LeaveRun(p, row)
      BY <1>1, <2>1 DEF StepFails
    <3> HIDE DEF status
    <3>3. /\ row \in Rows /\ (Resumes(p) => tick[p].tx[r].done \subseteq row.done)
          /\ row.attempt = tick[p].tx[r].attempt /\ row.status = status
      BY <1>1, <3>1, <3>2, UnfinishedRow
    <3> HIDE DEF row
    <3>4. QED
      BY <3>1, <3>2, <3>3 DEF Settled
  <2>2. CASE StepNotConfigured(p, n)
    <3> DEFINE status == "settled_failure"
               row == Unfinished(p, n, status)
    <3>1. RunCommand(p, n) /\ LeaveRun(p, row) /\ status \in Statuses /\ status \in Settled
      BY <2>2 DEF StepNotConfigured, Statuses, Settled
    <3>2. /\ row \in Rows /\ (Resumes(p) => tick[p].tx[r].done \subseteq row.done)
          /\ row.attempt = tick[p].tx[r].attempt /\ row.status = status
      BY <1>1, <3>1, UnfinishedRow
    <3> HIDE DEF row
    <3>3. QED
      BY <3>1, <3>2
  <2>3. CASE RunSucceeds(p)
    <3> DEFINE row == [tick[p].tx[r] EXCEPT !.status = "settled_success"]
    <3>1. tick[p].tx[r] \in Rows /\ "settled_success" \in Statuses
      BY <1>0, Typed DEF Statuses, Settled
    <3>2. /\ row \in Rows /\ row.done = tick[p].tx[r].done
          /\ row.attempt = tick[p].tx[r].attempt /\ row.status = "settled_success"
      BY <3>1 DEF Rows
    <3>3. LeaveRun(p, row)
      BY <1>1, <2>3 DEF RunSucceeds
    <3> HIDE DEF row
    <3>4. QED
      BY <3>2, <3>3 DEF Settled
  <2>4. QED
    BY <2>1, <2>2, <2>3
<1>4. /\ \A f \in Fires : \A k \in Agents : AgentDone(f, k) => AgentDone(f, k)'
      /\ agent' \in [Fires -> [Agents -> {"none", "live", "ok", "failed"}]]
      /\ unread' \in SUBSET Fires
  BY <1>0, <1>2 DEF AgentDone, TypeOK, Agents
<1>5. QED
  BY <1>0, <1>1, <1>2, <1>3, <1>4, LeaveStep DEF Settled

LEMMA DispatchStep ==
  ASSUME IInv, NEW p \in Ticks, NEW n \in 1..NumSteps, NEW k \in Agents,
         Dispatch(p, n, k) \/ DispatchUnread(p, n, k)
  PROVE  IInv'
<1>0. TypeOK /\ Core /\ TickInv(p) /\ tick[p].pc = "step"
  BY DEF IInv, Core, Dispatch, DispatchUnread, StartAgent, RunCommand
<1>1. PICK r \in Fires : r = tick[p].cur
  BY <1>0 DEF TickInv
<1>2. /\ RunCommand(p, n) /\ agent[r][k] = "none" /\ agent' = [agent EXCEPT ![r][k] = "live"]
      /\ UNCHANGED <<detached, db, lock, faults, lost, stale>> /\ Grow
      /\ unread' = unread \/ unread' = unread \cup {r}
  BY <1>1 DEF Dispatch, DispatchUnread, StartAgent, history, Grow
<1>3. /\ agent' \in [Fires -> [Agents -> {"none", "live", "ok", "failed"}]]
      /\ \A f \in Fires \ {r} : agent'[f] = agent[f]
      /\ \A j \in Agents : agent'[r][j] = agent[r][j] \/ j = k
      /\ unread' \in SUBSET Fires
  BY <1>0, <1>2 DEF TypeOK, Agents
<1>4. \A f \in Fires : \A j \in Agents : AgentDone(f, j) => AgentDone(f, j)'
  BY <1>2, <1>3 DEF AgentDone
<1>5. PICK row \in Rows :
        /\ LeaveRun(p, row) /\ (Resumes(p) => tick[p].tx[r].done \subseteq row.done)
        /\ row.attempt = tick[p].tx[r].attempt
        /\ row.status \in {"settled_failure", "retryable", "executing"}
        /\ row.status = "retryable" => tick[p].seen[r].attempt < MaxAttempts
        /\ row.status = "executing" => row.agent = k
        /\ r \in unread' \/ Waits(row, k)
  <2>1. CASE Dispatch(p, n, k)
    <3> DEFINE status == "executing"
               old == Unfinished(p, n, status)
               row == [old EXCEPT !.agent = k]
    <3>1. status \in Statuses /\ k \in 0..MaxDispatches
      BY Constants DEF Agents, Statuses
    <3>2. /\ old \in Rows /\ (Resumes(p) => tick[p].tx[r].done \subseteq old.done)
          /\ old.attempt = tick[p].tx[r].attempt /\ old.status = "executing"
      BY <1>1, <1>2, <3>1, UnfinishedRow
    <3>3. LeaveRun(p, row)
      BY <2>1 DEF Dispatch
    <3> HIDE DEF old
    <3>4. /\ row \in Rows /\ row.done = old.done /\ row.attempt = old.attempt
          /\ row.status = "executing" /\ row.agent = k
      BY <3>1, <3>2 DEF Rows
    <3> HIDE DEF row
    <3>5. QED
      BY <3>2, <3>3, <3>4 DEF Waits
  <2>2. CASE DispatchUnread(p, n, k)
    <3> DEFINE status == FailureStatus(tick[p].seen[r].attempt)
               row == Unfinished(p, n, status)
    <3>1. /\ status \in Statuses /\ status \in {"retryable", "settled_failure"}
          /\ status = "retryable" => tick[p].seen[r].attempt < MaxAttempts
      BY FailedStatus
    <3>2. LeaveRun(p, row) /\ r \in unread'
      BY <1>1, <2>2 DEF DispatchUnread
    <3> HIDE DEF status
    <3>3. /\ row \in Rows /\ (Resumes(p) => tick[p].tx[r].done \subseteq row.done)
          /\ row.attempt = tick[p].tx[r].attempt /\ row.status = status
      BY <1>1, <1>2, <3>1, UnfinishedRow
    <3> HIDE DEF row
    <3>4. QED
      BY <3>1, <3>2, <3>3
  <2>3. QED
    BY <2>1, <2>2
<1>6. \A j \in Agents : agent'[r][j] = "live" =>
        agent[r][j] = "live" \/ r \in unread' \/ Waits(row, j)
  BY <1>3, <1>5
<1>7. QED
  BY <1>0, <1>1, <1>2, <1>3, <1>4, <1>5, <1>6, LeaveStep DEF Settled

-----------------------------------------------------------------------------
(* The theorems. *)

LEMMA InitInv == Init => IInv
<1> SUFFICES ASSUME Init PROVE IInv
  OBVIOUS
<1>1. TypeOK
  <2>1. \A p \in Ticks : tick[p] = Idle
    BY DEF Init
  <2>2. tick \in [Ticks -> TickRow] /\ db \in [Fires -> Rows]
    BY IdleFacts, RowFacts DEF Init
  <2>3. QED
    BY <2>2 DEF Init, TypeOK
<1>2. ASSUME NEW p \in Ticks PROVE TickInv(p)
  <2>1. tick[p].pc = "idle" /\ tick[p].wrote = {}
    BY IdleFacts DEF Init
  <2>2. QED
    BY <2>1 DEF TickInv
<1>3. ASSUME NEW r \in Fires PROVE DbInv(r)
  <2>1. db[r] = NoRow /\ \A s \in 1..NumSteps : ran[r][s] = 0
    BY DEF Init
  <2>2. Paid(r, db[r], 0)
    BY <2>1, RowFacts, Constants DEF Paid
  <2>3. QED
    BY <2>1, <2>2, RowFacts DEF DbInv
<1>4. ASSUME NEW r \in Fires, NEW k \in Agents PROVE AgentInv(r, k)
  BY DEF Init, AgentInv, Agents
<1>5. QED
  BY <1>1, <1>2, <1>3, <1>4 DEF IInv, Core

LEMMA NextInv == IInv /\ [Next]_vars => IInv'
<1> SUFFICES ASSUME IInv, [Next]_vars PROVE IInv'
  OBVIOUS
<1>1. ASSUME NEW p \in Ticks, BeginTick(p) PROVE IInv'
  BY <1>1, BeginStep
<1>2. ASSUME NEW p \in Ticks, RunJob(p) PROVE IInv'
  BY <1>2, JobStep
<1>3. ASSUME NEW p \in Ticks, SettleDetached(p) PROVE IInv'
  BY <1>3, SettleStep
<1>4. ASSUME NEW p \in Ticks, FindFire(p) PROVE IInv'
  BY <1>4, FindStep
<1>5. ASSUME NEW p \in Ticks, Record(p, "recorded") \/ Record(p, "shelved") PROVE IInv'
  BY <1>5, RecordStep
<1>6. ASSUME NEW p \in Ticks, RecordTaken(p) \/ ClaimTaken(p) \/ TickFails(p) PROVE IInv'
  <2>1. Rollback(p) /\ faults' \in Nat
    BY <1>6 DEF RecordTaken, ClaimTaken, TickFails, UniqueViolation, IInv, TypeOK
  <2>2. QED
    BY <2>1, RollbackStep
<1>7. ASSUME NEW p \in Ticks, NEW r \in Fires, Pick(p, r) \/ Resume(p, r) PROVE IInv'
  BY <1>7, PickStep
<1>8. ASSUME NEW p \in Ticks, Claim(p) PROVE IInv'
  BY <1>8, ClaimStep
<1>9. ASSUME NEW p \in Ticks, NEW n \in 1..NumSteps, StepSucceeds(p, n) PROVE IInv'
  BY <1>9, SucceedStep
<1>10. ASSUME NEW p \in Ticks, NEW n \in 1..NumSteps,
              StepFails(p, n) \/ StepNotConfigured(p, n) \/ RunSucceeds(p)
       PROVE  IInv'
  BY <1>10, FailStep
<1>a. 1 \in 1..NumSteps
  BY Constants
<1>11. ASSUME NEW p \in Ticks, NEW n \in 1..NumSteps, NEW k \in 1..MaxDispatches,
              Dispatch(p, n, k) \/ DispatchUnread(p, n, k)
       PROVE  IInv'
  BY <1>11, DispatchStep DEF Agents
<1>12. ASSUME NEW p \in Ticks, Commit(p) PROVE IInv'
  BY <1>12, CommitStep
<1>13. ASSUME NEW r \in Fires, NEW k \in 1..MaxDispatches, AgentSettles(r, k) PROVE IInv'
  BY <1>13, AgentStep DEF Agents
<1>14. CASE UNCHANGED vars
  <2>1. UNCHANGED <<detached, db, tick, lock, agent, ran, faults, lost, unread, stale>>
    BY <1>14 DEF vars
  <2>2. TypeOK' = TypeOK
    BY <2>1 DEF TypeOK
  <2>3. \A p \in Ticks : TickInv(p)' = TickInv(p)
    BY <2>1 DEF TickInv, Written, Paid, Resumes, AgentDone
  <2>4. \A r \in Fires : DbInv(r)' = DbInv(r)
    BY <2>1 DEF DbInv, Committed, Paid
  <2>5. \A r \in Fires : \A k \in Agents : AgentInv(r, k)' = AgentInv(r, k)
    BY <2>1 DEF AgentInv, Committed, Waits
  <2>6. QED
    BY <2>2, <2>3, <2>4, <2>5 DEF IInv, Core
<1>15. QED
  BY <1>1, <1>2, <1>3, <1>4, <1>5, <1>6, <1>7, <1>8, <1>9, <1>10, <1>a, <1>11, <1>12, <1>13,
     <1>14 DEF Next, TickStep

(* The inductive invariant holds in every state. *)
THEOREM Invariance == Spec => []IInv
<1>1. IInv /\ [Next]_vars => IInv'
  BY NextInv
<1>2. QED
  BY InitInv, <1>1, PTL DEF Spec

(* Every row, transaction and agent run is of its type, a status of the run *)
(* contract included.                                                       *)
THEOREM TypeCorrect == Spec => []TypeOK
<1>1. IInv => TypeOK
  BY DEF IInv
<1>2. QED
  BY Invariance, <1>1, PTL

(* Of the ticks, drains and resumes that are open, one at most runs the     *)
(* commands of the job: the one that holds the lock of the job's row.       *)
THEOREM CommandsRunAlone == Spec => []OneRunAtATime
<1>1. IInv => OneRunAtATime
  BY Holder DEF OneRunAtATime
<1>2. QED
  BY Invariance, <1>1, PTL

(* A run that is left to be retried has an attempt left, unless it was      *)
(* written on an outdated reading.                                          *)
THEOREM RetriesHaveAttempts == Spec => []RetryHasAttempt
<1>1. IInv => RetryHasAttempt
  BY DEF IInv, Core, DbInv, RetryHasAttempt
<1>2. QED
  BY Invariance, <1>1, PTL

(* The attempts pay for the executions: no step is started more often than  *)
(* max_attempts, where no tick was rolled back and no reading outdated.     *)
THEOREM ExecutionsAreCounted == Spec => []AttemptsCountExecutions
<1>1. ASSUME IInv, NEW r \in Fires, NEW s \in 1..NumSteps
      PROVE  ran[r][s] <= MaxAttempts \/ r \in lost \cup stale
  <2>0. TypeOK /\ db[r] \in Rows /\ ran[r][s] \in Nat
    <3>1. TypeOK /\ ran \in [Fires -> [1..NumSteps -> Nat]]
      BY <1>1 DEF IInv, TypeOK
    <3>2. QED
      BY <1>1, <3>1, Typed
  <2>1. PICK row \in Rows : r \in lost \cup stale \/ \E at \in Nat : Paid(r, row, at)
    <3>1. CASE Committed(r)
      BY <1>1, <2>0, <3>1 DEF IInv, Core, DbInv
    <3>2. CASE ~Committed(r)
      <4>1. PICK p \in Ticks : r \in tick[p].wrote
        BY <3>2 DEF Committed
      <4>2. /\ tick[p].tx[r] \in Rows /\ tick[p].at \in Nat
            /\ r \in lost \cup stale \/ Paid(r, tick[p].tx[r], tick[p].at)
        BY <1>1, <2>0, <4>1, Typed DEF IInv, Core, TickInv, Written, TickRow
      <4>3. QED
        BY <4>2
    <3>3. QED
      BY <3>1, <3>2
  <2>2. QED
    BY <2>0, <2>1, Constants DEF Paid, Rows
<1>2. IInv => AttemptsCountExecutions
  BY <1>1 DEF AttemptsCountExecutions
<1>3. QED
  BY Invariance, <1>2, PTL

(* An agent run in progress is awaited by the row of its fire: its outcome  *)
(* finds its way into the run, unless the record of its start was lost.     *)
THEOREM AgentsAreAwaited == Spec => []AgentAwaited
<1>1. IInv => AgentAwaited
  BY DEF IInv, Core, AgentInv, Waits, Agents, AgentAwaited
<1>2. QED
  BY Invariance, <1>1, PTL

\* Only RunCommand starts a command, and only Commit writes for all to see.
LEMMA StepKinds ==
  ASSUME [Next]_vars
  PROVE  /\ ran' = ran \/ \E p \in Ticks, n \in 1..NumSteps : RunCommand(p, n)
         /\ db' = db \/ \E p \in Ticks : Commit(p)
<1>1. ASSUME NEW p \in Ticks,
             BeginTick(p) \/ RunJob(p) \/ SettleDetached(p) \/ FindFire(p)
      PROVE  ran' = ran /\ db' = db
  BY <1>1, Zenon DEF BeginTick, RunJob, SettleDetached, FindFire
<1>2. ASSUME NEW p \in Ticks,
             \/ Record(p, "recorded") \/ Record(p, "shelved") \/ Claim(p) \/ RunSucceeds(p)
             \/ RecordTaken(p) \/ ClaimTaken(p) \/ TickFails(p)
      PROVE  ran' = ran /\ db' = db
  BY <1>2, Zenon DEF Record, Claim, RunSucceeds, RecordTaken, ClaimTaken, TickFails,
     UniqueViolation, Rollback
<1>3. ASSUME NEW p \in Ticks, NEW r \in Fires, Pick(p, r) \/ Resume(p, r)
      PROVE  ran' = ran /\ db' = db
  BY <1>3, Zenon DEF Pick, Resume
<1>4. ASSUME NEW p \in Ticks, NEW n \in 1..NumSteps,
             StepSucceeds(p, n) \/ StepFails(p, n) \/ StepNotConfigured(p, n)
      PROVE  RunCommand(p, n) /\ db' = db
  BY <1>4, Zenon DEF StepSucceeds, StepFails, StepNotConfigured
<1>5. ASSUME NEW p \in Ticks, NEW n \in 1..NumSteps, NEW k \in 1..MaxDispatches,
             Dispatch(p, n, k) \/ DispatchUnread(p, n, k)
      PROVE  RunCommand(p, n) /\ db' = db
  BY <1>5, Zenon DEF Dispatch, DispatchUnread, StartAgent
<1>6. ASSUME NEW r \in Fires, NEW k \in 1..MaxDispatches, AgentSettles(r, k)
      PROVE  ran' = ran /\ db' = db
  BY <1>6, Zenon DEF AgentSettles
<1>7. ASSUME NEW p \in Ticks, Commit(p) PROVE ran' = ran
  BY <1>7, Zenon DEF Commit
<1>8. CASE UNCHANGED vars
  BY <1>8, Zenon DEF vars
<1>9. QED
  BY <1>1, <1>2, <1>3, <1>4, <1>5, <1>6, <1>7, <1>8 DEF Next, TickStep

(* The command of a step whose success is committed is started again only   *)
(* by a tick that was told not to resume: whatever else retries, drains or  *)
(* resumes the run goes on behind the steps that succeeded, also one that   *)
(* has read the run before they did.                                        *)
THEOREM StepsRunOnce == Spec => StepNotRepeated
<1>1. ASSUME IInv, [Next]_vars, NEW r \in Fires, NEW s \in 1..NumSteps,
             ran'[r][s] # ran[r][s], s \in db[r].done
      PROVE  \E p \in Ticks : tick[p].pc = "step" /\ tick[p].cur = r /\ ~Resumes(p)
  <2>1. PICK p \in Ticks, n \in 1..NumSteps : RunCommand(p, n)
    BY <1>1, StepKinds
  <2>2. TypeOK /\ TickInv(p) /\ tick[p].pc = "step" /\ ran \in [Fires -> [1..NumSteps -> Nat]]
    BY <1>1, <2>1 DEF IInv, Core, RunCommand, TypeOK
  <2>3. r = tick[p].cur /\ s = n
    BY <1>1, <2>1, <2>2 DEF RunCommand
  <2>4. Resumes(p) => s \in tick[p].tx[r].done
    BY <1>1, <2>2, <2>3 DEF TickInv, Written
  <2>5. ~Skipped(p, s)
    BY <2>1, <2>3 DEF RunCommand, NextStep
  <2>6. QED
    BY <2>2, <2>3, <2>4, <2>5 DEF Skipped
<1>2. IInv /\ [Next]_vars => [RepeatedIfTold]_vars
  BY <1>1 DEF RepeatedIfTold
<1>3. QED
  BY Invariance, <1>2, PTL DEF Spec, StepNotRepeated

(* A committed settlement is not written over, but from an outdated reading.*)
THEOREM SettlementIsFinal == Spec => SettledIsFinal
<1>1. ASSUME IInv, [Next]_vars, NEW r \in Fires, db[r].status \in Settled
      PROVE  db'[r] = db[r] \/ r \in stale'
  <2>1. CASE db' = db
    BY <2>1
  <2>2. CASE \E p \in Ticks : Commit(p)
    <3>1. PICK p \in Ticks : Commit(p)
      BY <2>2
    <3>2. TypeOK /\ TickInv(p) /\ db'[r] = Row(p, r) /\ stale' = stale
      BY <1>1, <3>1 DEF IInv, Core, Commit, history
    <3>3. QED
      BY <1>1, <3>2, RowTyped DEF TickInv, Written
  <2>3. db' = db \/ \E p \in Ticks : Commit(p)
    BY <1>1, StepKinds
  <2>4. QED
    BY <2>1, <2>2, <2>3
<1>2. IInv /\ [Next]_vars =>
        [\A r \in Fires : db[r].status \in Settled => db'[r] = db[r] \/ r \in stale']_vars
  BY <1>1
<1>3. QED
  BY Invariance, <1>2, PTL DEF Spec, SettledIsFinal


(***************************************************************************)
(* The agent runs that fires hand their work to live as AgentRun says,     *)
(* also those whose dispatch was rolled back or not understood.            *)
(***************************************************************************)
Dispatches == Fires \X (1..MaxDispatches)

Life == INSTANCE RunLife WITH
  Runs <- Dispatches,
  Endings <- {"ok", "failed"},
  life <- [d \in Dispatches |-> IF agent[d[1]][d[2]] = "none" THEN "absent"
                                ELSE IF agent[d[1]][d[2]] = "live" THEN "open"
                                ELSE agent[d[1]][d[2]]]

(* What a step may do to agent runs: start one, end one, or nothing.        *)
LEMMA AgentSteps ==
  ASSUME IInv, [Next]_vars
  PROVE  \/ \E r \in Fires, k \in 1..MaxDispatches :
              agent[r][k] = "none" /\ agent' = [agent EXCEPT ![r][k] = "live"]
         \/ \E r \in Fires, k \in 1..MaxDispatches : AgentSettles(r, k)
         \/ agent' = agent
<1>1. ASSUME NEW p \in Ticks,
             BeginTick(p) \/ RunJob(p) \/ SettleDetached(p) \/ FindFire(p)
      PROVE  agent' = agent
  BY <1>1, Zenon DEF BeginTick, RunJob, SettleDetached, FindFire
<1>2. ASSUME NEW p \in Ticks,
             \/ Record(p, "recorded") \/ Record(p, "shelved") \/ Claim(p) \/ RunSucceeds(p)
             \/ RecordTaken(p) \/ ClaimTaken(p) \/ TickFails(p) \/ Commit(p)
      PROVE  agent' = agent
  BY <1>2, Zenon DEF Record, Claim, RunSucceeds, RecordTaken, ClaimTaken, TickFails, Commit,
     UniqueViolation, Rollback
<1>3. ASSUME NEW p \in Ticks, NEW r \in Fires, Pick(p, r) \/ Resume(p, r)
      PROVE  agent' = agent
  BY <1>3, Zenon DEF Pick, Resume
<1>4. ASSUME NEW p \in Ticks, NEW n \in 1..NumSteps,
             StepSucceeds(p, n) \/ StepFails(p, n) \/ StepNotConfigured(p, n)
      PROVE  agent' = agent
  BY <1>4, Zenon DEF StepSucceeds, StepFails, StepNotConfigured
<1>5. ASSUME NEW p \in Ticks, NEW n \in 1..NumSteps, NEW k \in 1..MaxDispatches,
             Dispatch(p, n, k) \/ DispatchUnread(p, n, k)
      PROVE  \E r \in Fires : agent[r][k] = "none" /\ agent' = [agent EXCEPT ![r][k] = "live"]
  <2>1. tick[p].cur \in Fires
    BY <1>5 DEF IInv, Core, TickInv, Dispatch, DispatchUnread, StartAgent, RunCommand
  <2>2. QED
    BY <1>5, <2>1, Zenon DEF Dispatch, DispatchUnread, StartAgent
<1>6. CASE UNCHANGED vars
  BY <1>6, Zenon DEF vars
<1>7. QED
  BY <1>1, <1>2, <1>3, <1>4, <1>5, <1>6 DEF Next, TickStep

(* A dispatch starts an agent run that was not there before, and an agent   *)
(* run settles once: also one whose dispatch was rolled back or not read.   *)
THEOREM DispatchesLive == Spec => Life!Spec
<1> DEFINE lives == [d \in Dispatches |-> IF agent[d[1]][d[2]] = "none" THEN "absent"
                                         ELSE IF agent[d[1]][d[2]] = "live" THEN "open"
                                         ELSE agent[d[1]][d[2]]]
<1>1. Init => Life!Init
  BY DEF Init, Life!Init, Dispatches
<1>2. IInv /\ [Next]_vars => [Life!Next]_lives
  <2> SUFFICES ASSUME IInv, [Next]_vars PROVE [Life!Next]_lives
    OBVIOUS
  <2>0. agent \in [Fires -> [1..MaxDispatches -> {"none", "live", "ok", "failed"}]]
    BY DEF IInv, TypeOK
  <2>1. ASSUME NEW r \in Fires, NEW k \in 1..MaxDispatches, agent[r][k] = "none",
               agent' = [agent EXCEPT ![r][k] = "live"]
        PROVE  Life!Admit(<<r, k>>)
    <3>1. <<r, k>> \in Dispatches /\ agent'[r][k] = "live"
      BY <2>0, <2>1 DEF Dispatches
    <3>2. \A d \in Dispatches : d # <<r, k>> => agent'[d[1]][d[2]] = agent[d[1]][d[2]]
      BY <2>0, <2>1 DEF Dispatches
    <3> DEFINE e == <<r, k>>
    <3>3. e[1] = r /\ e[2] = k
      OBVIOUS
    <3> HIDE DEF e
    <3>4. lives[e] = "absent" /\ lives'[e] = "open"
      BY <2>1, <3>1, <3>3 DEF e
    <3>5. \A d \in Dispatches : d # e => lives'[d] = lives[d]
      BY <3>2 DEF e
    <3>6. lives' = [lives EXCEPT ![e] = "open"]
      <4> HIDE DEF lives
      <4>1. lives = [d \in Dispatches |-> lives[d]] /\ lives' = [d \in Dispatches |-> lives'[d]]
        BY DEF lives
      <4> QED
        BY <3>4, <3>5, <4>1
    <3> QED
      BY <3>4, <3>6 DEF Life!Admit, e
  <2>2. ASSUME NEW r \in Fires, NEW k \in 1..MaxDispatches, AgentSettles(r, k)
        PROVE  Life!Settle(<<r, k>>)
    <3>0. PICK outcome \in {"ok", "failed"} : agent' = [agent EXCEPT ![r][k] = outcome]
      BY <2>2 DEF AgentSettles
    <3>1. <<r, k>> \in Dispatches /\ agent'[r][k] = outcome /\ agent[r][k] = "live"
      BY <2>0, <2>2, <3>0 DEF Dispatches, AgentSettles
    <3>2. \A d \in Dispatches : d # <<r, k>> => agent'[d[1]][d[2]] = agent[d[1]][d[2]]
      BY <2>0, <3>0 DEF Dispatches
    <3> DEFINE e == <<r, k>>
    <3>3. e[1] = r /\ e[2] = k
      OBVIOUS
    <3> HIDE DEF e
    <3>4. lives[e] = "open" /\ lives'[e] = outcome
      BY <3>1, <3>3 DEF e
    <3>5. \A d \in Dispatches : d # e => lives'[d] = lives[d]
      BY <3>2 DEF e
    <3>6. lives' = [lives EXCEPT ![e] = outcome]
      <4> HIDE DEF lives
      <4>1. lives = [d \in Dispatches |-> lives[d]] /\ lives' = [d \in Dispatches |-> lives'[d]]
        BY DEF lives
      <4> QED
        BY <3>4, <3>5, <4>1
    <3> QED
      BY <3>4, <3>6 DEF Life!Settle, e
  <2>3. CASE agent' = agent
    BY <2>3
  <2>4. \A r \in Fires, k \in 1..MaxDispatches : <<r, k>> \in Dispatches
    BY DEF Dispatches
  <2> QED
    BY <2>1, <2>2, <2>3, <2>4, AgentSteps DEF Life!Next
<1> QED
  BY <1>1, <1>2, Invariance, PTL DEF Spec, Life!Spec

-----------------------------------------------------------------------------
(***************************************************************************)
(* What would rule outdated readings out: rows that are read FOR UPDATE,   *)
(* so that nothing is committed while a transaction that has decided on    *)
(* what it read waits to write; and no resume of a run whose agent run is  *)
(* in progress.                                                            *)
(***************************************************************************)
Decided(p) == tick[p].pc \in {"settle", "record", "lock"}

ReadsForUpdate == [][(\E p \in Ticks : Decided(p)) => db' = db]_vars

NoneResumedEarly ==
  \A p \in Ticks : tick[p].pc = "lock" => tick[p].seen[tick[p].cur].status # "executing"

\* What a transaction has decided on is still so.
Fresh(p) ==
  /\ tick[p].pc = "record" => db[tick[p].cur].status = "none"
  /\ tick[p].pc = "lock" => tick[p].seen[tick[p].cur] = Row(p, tick[p].cur)
  /\ tick[p].pc = "settle" => \A r \in tick[p].todo : tick[p].seen[r] = db[r]

AllFresh == stale = {} /\ \A p \in Ticks : Fresh(p)

\* One transaction moves, to where it has decided on nothing or on what is so.
LEMMA FreshMove ==
  ASSUME AllFresh, NEW p \in Ticks, \A q \in Ticks \ {p} : tick'[q] = tick[q],
         Decided(p)' => Fresh(p)', stale' = stale,
         db' = db \/ ~(\E q \in Ticks : Decided(q))
  PROVE  AllFresh'
<1>1. ASSUME NEW q \in Ticks \ {p} PROVE Fresh(q)'
  <2>1. tick'[q] = tick[q] /\ Fresh(q)
    BY DEF AllFresh
  <2>2. CASE db' = db
    BY <2>1, <2>2 DEF Fresh, Row
  <2>3. CASE ~Decided(q)
    BY <2>1, <2>3 DEF Fresh, Decided
  <2>4. QED
    BY <2>2, <2>3
<1>2. Fresh(p)'
  BY DEF Fresh, Decided
<1>3. QED
  BY <1>1, <1>2 DEF AllFresh

\* A transaction that leaves the loop over the steps has decided on nothing.
LEMMA LeavePlace ==
  ASSUME TypeOK, NEW p \in Ticks, NEW row, LeaveRun(p, row)
  PROVE  (\A q \in Ticks \ {p} : tick'[q] = tick[q]) /\ ~Decided(p)'
<1> DEFINE pc == IF tick[p].single THEN "done" ELSE "claim"
           seen == Idle.seen
<1>1. tick' = [tick EXCEPT ![p].pc = pc, ![p].tx[tick[p].cur] = row, ![p].cur = 0, ![p].at = 0,
                           ![p].seen = seen]
  BY DEF LeaveRun
<1>2. pc \in {"done", "claim"}
  OBVIOUS
<1> HIDE DEF pc, seen
<1>3. tick'[p].pc = pc /\ \A q \in Ticks \ {p} : tick'[q] = tick[q]
  BY <1>1, Typed DEF TickRow
<1>4. QED
  BY <1>2, <1>3 DEF Decided

LEMMA FreshNext ==
  ASSUME IInv, AllFresh, NoneResumedEarly, [Next]_vars,
         [(\E p \in Ticks : Decided(p)) => db' = db]_vars
  PROVE  AllFresh'
<1>0. TypeOK /\ \A p \in Ticks : TickInv(p)
  BY DEF IInv, Core
<1>a. db' = db \/ ~(\E q \in Ticks : Decided(q))
  BY DEF vars
<1>1. ASSUME NEW p \in Ticks, RunJob(p) PROVE AllFresh'
  <2>1. tick' = [tick EXCEPT ![p].pc = "plan", ![p].single = TRUE] /\ stale' = stale
    BY <1>1 DEF RunJob, history
  <2>2. Moved(p) /\ tick'[p].pc = "plan"
    BY <1>0, <2>1, JobFacts
  <2>3. QED
    BY <1>a, <2>1, <2>2, FreshMove DEF Moved, Decided
<1>2. ASSUME NEW p \in Ticks, BeginTick(p) PROVE AllFresh'
  <2>1. /\ Moved(p) /\ tick'[p].pc \in {"plan", "settle"} /\ tick'[p].todo = LoadDetached
        /\ \A r \in LoadDetached : tick'[p].seen[r] = db[r]
    BY <1>0, <1>2, LoadFacts
  <2>2. stale' = stale /\ db' = db
    BY <1>2 DEF BeginTick, history
  <2>3. Fresh(p)'
    BY <2>1, <2>2 DEF Fresh
  <2>4. QED
    BY <2>1, <2>2, <2>3, FreshMove DEF Moved
<1>3. ASSUME NEW p \in Ticks, SettleDetached(p) PROVE AllFresh'
  <2>1. Moved(p) /\ tick'[p].pc = "plan"
    BY <1>0, <1>3, SettleFacts
  <2>2. /\ tick[p].pc = "settle" /\ db' = db
        /\ stale' = stale \cup {r \in tick[p].todo : db[r] # tick[p].seen[r]}
    BY <1>3 DEF SettleDetached
  <2>3. \A r \in tick[p].todo : tick[p].seen[r] = db[r]
    BY <2>2 DEF AllFresh, Fresh
  <2>4. stale' = stale
    BY <2>2, <2>3
  <2>5. QED
    BY <2>1, <2>2, <2>4, FreshMove DEF Moved, Decided
<1>4. ASSUME NEW p \in Ticks, FindFire(p) PROVE AllFresh'
  <2>1. stale' = stale /\ db' = db
    BY <1>4 DEF FindFire, history
  <2>2. CASE tick' = [tick EXCEPT ![p].pc = "claim"]
    BY <1>0, <2>1, <2>2, PcFacts, FreshMove DEF Moved, Decided
  <2>3. ASSUME NEW r \in Fires, NextFire(r),
               tick' = [tick EXCEPT ![p].pc = "record", ![p].cur = r]
        PROVE  AllFresh'
    <3>1. Moved(p) /\ tick'[p].pc = "record" /\ tick'[p].cur = r
      BY <1>0, <2>3, FindFacts
    <3>2. Fresh(p)'
      BY <2>1, <2>3, <3>1 DEF Fresh, NextFire
    <3>3. QED
      BY <2>1, <3>1, <3>2, FreshMove DEF Moved
  <2>4. QED
    BY <1>4, <2>2, <2>3 DEF FindFire
<1>5. ASSUME NEW p \in Ticks, Record(p, "recorded") \/ Record(p, "shelved") PROVE AllFresh'
  <2>1. PICK status \in {"recorded", "shelved"} : Record(p, status)
    BY <1>5
  <2>2. tick[p].cur \in Fires /\ status \in Statuses
    BY <1>0, <2>1 DEF Record, TickInv, Statuses
  <2>3. Moved(p) /\ tick'[p].pc = "claim"
    BY <1>0, <2>1, <2>2, RecordFacts
  <2>4. stale' = stale
    BY <2>1 DEF Record, history
  <2>5. QED
    BY <1>a, <2>3, <2>4, FreshMove DEF Moved, Decided
<1>6. ASSUME NEW p \in Ticks, RecordTaken(p) \/ ClaimTaken(p) \/ TickFails(p) PROVE AllFresh'
  <2>1. tick' = [tick EXCEPT ![p] = Idle] /\ stale' = stale
    BY <1>6 DEF RecordTaken, ClaimTaken, TickFails, UniqueViolation, Rollback
  <2>2. Moved(p) /\ tick'[p].pc = "idle"
    BY <1>0, <2>1, EndFacts, IdleFacts
  <2>3. QED
    BY <1>a, <2>1, <2>2, FreshMove DEF Moved, Decided
<1>7. ASSUME NEW p \in Ticks, NEW r \in Fires, Pick(p, r) PROVE AllFresh'
  <2> DEFINE row == Row(p, r)
  <2>1. row \in Rows /\ stale' = stale /\ db' = db
    BY <1>0, <1>7, RowTyped DEF Pick, history
  <2>2. tick' = [tick EXCEPT ![p].pc = "lock", ![p].cur = r, ![p].seen[r] = row]
    BY <1>7 DEF Pick
  <2> HIDE DEF row
  <2>3. /\ Moved(p) /\ tick'[p].pc = "lock" /\ tick'[p].cur = r /\ tick'[p].seen[r] = row
        /\ tick'[p].wrote = tick[p].wrote /\ tick'[p].tx = tick[p].tx
    BY <1>0, <2>1, <2>2, PickFacts
  <2>4. Fresh(p)'
    BY <2>1, <2>3 DEF Fresh, Row, row
  <2>5. QED
    BY <2>1, <2>3, <2>4, FreshMove DEF Moved
<1>8. ASSUME NEW p \in Ticks, NEW r \in Fires, Resume(p, r) PROVE AllFresh'
  <2> DEFINE row == db[r]
  <2>1. row \in Rows /\ stale' = stale /\ db' = db /\ tick[p].wrote = {}
    BY <1>0, <1>8, Typed DEF Resume, history, TickInv
  <2>2. tick' = [tick EXCEPT ![p].pc = "lock", ![p].single = TRUE, ![p].cur = r, ![p].seen[r] = row]
    BY <1>8 DEF Resume
  <2> HIDE DEF row
  <2>a. row \in Rows
    BY <2>1
  <2>b. TypeOK
    BY <1>0
  <2>3. /\ Moved(p) /\ tick'[p].pc = "lock" /\ tick'[p].cur = r /\ tick'[p].seen[r] = row
        /\ tick'[p].wrote = tick[p].wrote /\ tick'[p].tx = tick[p].tx
    BY <2>2, <2>a, <2>b, ResumeFacts, Zenon
  <2>4. Fresh(p)'
    BY <2>1, <2>3 DEF Fresh, Row, row
  <2>5. QED
    BY <2>1, <2>3, <2>4, FreshMove DEF Moved
<1>9. ASSUME NEW p \in Ticks, Claim(p) PROVE AllFresh'
  <2> DEFINE r == tick[p].cur
             seen == tick[p].seen[r]
  <2>1. tick[p].pc = "lock" /\ r \in Fires
    BY <1>0, <1>9 DEF Claim, TickInv
  <2>2. Row(p, r) = seen /\ seen.status # "executing"
    BY <2>1 DEF AllFresh, Fresh, NoneResumedEarly
  <2>3. stale' = IF Row(p, r) # seen \/ seen.status = "executing" THEN stale \cup {r} ELSE stale
    BY <1>9 DEF Claim
  <2>4. Moved(p) /\ tick'[p].pc = "step"
    BY <1>0, <1>9, <2>1, ClaimFacts
  <2>5. stale' = stale
    BY <2>2, <2>3
  <2>6. QED
    BY <1>a, <2>4, <2>5, FreshMove DEF Moved, Decided
<1>10. ASSUME NEW p \in Ticks, NEW n \in 1..NumSteps, StepSucceeds(p, n) PROVE AllFresh'
  <2>1. tick[p].pc = "step" /\ stale' = stale
    BY <1>10 DEF StepSucceeds, RunCommand, history
  <2>2. PICK r \in Fires : r = tick[p].cur
    BY <1>0, <2>1 DEF TickInv
  <2>3. Moved(p) /\ tick'[p].pc = "step"
    BY <1>0, <1>10, <2>1, <2>2, SucceedFacts
  <2>4. QED
    BY <1>a, <2>1, <2>3, FreshMove DEF Moved, Decided
<1>11. ASSUME NEW p \in Ticks,
              \/ RunSucceeds(p)
              \/ \E n \in 1..NumSteps : StepFails(p, n) \/ StepNotConfigured(p, n)
       PROVE  AllFresh'
  <2>1. stale' = stale /\ \E row : LeaveRun(p, row)
    BY <1>11, Zenon DEF StepFails, StepNotConfigured, RunSucceeds, history
  <2>2. QED
    BY <1>0, <1>a, <2>1, LeavePlace, FreshMove
<1>12. ASSUME NEW p \in Ticks, NEW n \in 1..NumSteps, NEW k \in 1..MaxDispatches,
              Dispatch(p, n, k) \/ DispatchUnread(p, n, k)
       PROVE  AllFresh'
  <2>1. stale' = stale /\ \E row : LeaveRun(p, row)
    BY <1>12, Zenon DEF Dispatch, DispatchUnread, history
  <2>2. QED
    BY <1>0, <1>a, <2>1, LeavePlace, FreshMove
<1>13. ASSUME NEW p \in Ticks, Commit(p) PROVE AllFresh'
  <2>1. tick' = [tick EXCEPT ![p] = Idle] /\ stale' = stale
    BY <1>13 DEF Commit, history
  <2>2. Moved(p) /\ tick'[p].pc = "idle"
    BY <1>0, <2>1, EndFacts, IdleFacts
  <2>3. QED
    BY <1>a, <2>1, <2>2, FreshMove DEF Moved, Decided
<1>14. CASE (\E r \in Fires, k \in 1..MaxDispatches : AgentSettles(r, k)) \/ UNCHANGED vars
  <2>1. UNCHANGED <<db, tick, stale>>
    BY <1>14 DEF AgentSettles, history, vars
  <2>2. QED
    BY <2>1 DEF AllFresh, Fresh, Row
<1>15. QED
  BY <1>1, <1>2, <1>3, <1>4, <1>5, <1>6, <1>7, <1>8, <1>9, <1>10, <1>11, <1>12, <1>13, <1>14
  DEF Next, TickStep

LEMMA FreshAlways == Spec /\ ReadsForUpdate /\ []NoneResumedEarly => []AllFresh
<1>1. Init => AllFresh
  <2> SUFFICES ASSUME Init PROVE AllFresh
    OBVIOUS
  <2>1. stale = {} /\ \A p \in Ticks : tick[p].pc = "idle"
    BY IdleFacts DEF Init
  <2>2. QED
    BY <2>1 DEF AllFresh, Fresh
<1>2. /\ IInv /\ AllFresh /\ NoneResumedEarly /\ [Next]_vars
      /\ [(\E p \in Ticks : Decided(p)) => db' = db]_vars
      => AllFresh'
  BY FreshNext
<1>3. QED
  BY <1>1, <1>2, Invariance, PTL DEF Spec, ReadsForUpdate

(* Rows read for update, and no early resume: a settled run is never        *)
(* written again, whatever ticks, drains and resumes overlap.               *)
THEOREM UpdatesKeepSettled ==
  Spec /\ ReadsForUpdate /\ []NoneResumedEarly =>
    [][\A r \in Fires : db[r].status \in Settled => db'[r] = db[r]]_vars
<1>1. AllFresh' /\ [\A r \in Fires : db[r].status \in Settled => db'[r] = db[r] \/ r \in stale']_vars
        => [\A r \in Fires : db[r].status \in Settled => db'[r] = db[r]]_vars
  BY DEF AllFresh
<1>2. QED
  BY <1>1, FreshAlways, SettlementIsFinal, PTL DEF SettledIsFinal

(* ... every retryable run has an attempt left, the attempts pay for every  *)
(* command unless a tick was rolled back, and no tick is ended by the key   *)
(* of a run or of a lease that another one took first.                      *)
THEOREM UpdatesKeepCount ==
  Spec /\ ReadsForUpdate /\ []NoneResumedEarly =>
    [](/\ \A r \in Fires : db[r].status = "retryable" => db[r].attempt < MaxAttempts
       /\ \A r \in Fires : \A n \in 1..NumSteps : ran[r][n] <= MaxAttempts \/ r \in lost
       /\ \A p \in Ticks : ~(tick[p].pc = "record" /\ db[tick[p].cur].status # "none")
       /\ \A p \in Ticks : ~(tick[p].pc = "lock" /\ LeaseTaken(p)))
<1> DEFINE Kept == /\ \A r \in Fires : db[r].status = "retryable" => db[r].attempt < MaxAttempts
                   /\ \A r \in Fires : \A n \in 1..NumSteps : ran[r][n] <= MaxAttempts \/ r \in lost
                   /\ \A p \in Ticks : ~(tick[p].pc = "record" /\ db[tick[p].cur].status # "none")
                   /\ \A p \in Ticks : ~(tick[p].pc = "lock" /\ LeaseTaken(p))
<1>1. AllFresh /\ RetryHasAttempt /\ AttemptsCountExecutions => Kept
  BY DEF AllFresh, Fresh, LeaseTaken, RetryHasAttempt, AttemptsCountExecutions
<1> HIDE DEF Kept
<1>2. Spec /\ ReadsForUpdate /\ []NoneResumedEarly => []Kept
  BY <1>1, FreshAlways, RetriesHaveAttempts, ExecutionsAreCounted, PTL
<1>3. QED
  BY <1>2 DEF Kept
=============================================================================
