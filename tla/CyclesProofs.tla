---------------------------- MODULE CyclesProofs -----------------------------
(***************************************************************************)
(* Proofs about Cycles, for any number of occurrences, executors and       *)
(* settlements, any capacity and any limit of the recovery.                *)
(***************************************************************************)
EXTENDS Cycles, FiniteSetTheorems, TLAPS

(***************************************************************************)
(* An execution between claim and commit holds the lock of the cycle, and  *)
(* what it found under it is still true: its occurrence is queued and      *)
(* there is room for it.  This is why nobody else may write a row then.    *)
(***************************************************************************)
LockInv == \A p \in Executors : exec[p].cur # 0 => lock = p

RoomInv ==
  \A p \in Executors :
    exec[p].cur # 0 => /\ status[exec[p].cur] = "queued"
                       /\ ~AtCapacity(exec[p].cur)

(***************************************************************************)
(* An occurrence has an agent run once it runs and not before; a           *)
(* settlement in progress is of an agent run that has ended, or of one its *)
(* cancellation has locked.                                                *)
(***************************************************************************)
AgentInv ==
  \A r \in Runs : /\ status[r] \in {"none", "queued"} => agent[r] = "none"
                  /\ status[r] = "running" => agent[r] # "none"

CallInv ==
  \A f \in Calls :
    call[f].phase # "idle" =>
      IF call[f].cancel
        THEN /\ agent[call[f].run] = "open"
             /\ call[f].status = "canceled"
             /\ \A g \in Calls : call[g].phase # "idle" /\ call[g].cancel
                                   /\ call[g].run = call[f].run => g = f
        ELSE /\ call[f].phase = "write"
             /\ AgentEnded(call[f].run)
             /\ call[f].status \in {agent[call[f].run], "failed"}

IInv ==
  /\ TypeOK /\ LockInv /\ RoomInv /\ AgentInv /\ CallInv
  /\ CapacityRespected /\ AgentCounted /\ CompletedHonestly

LEMMA ConstantFacts ==
  /\ NumRuns \in Nat /\ MaxConcurrency \in Nat /\ Limit \in Nat
  /\ 1 \in Runs /\ 0 \notin Runs /\ Runs \subseteq 0..NumRuns /\ 0 \in 0..NumRuns
  /\ Callers \subseteq Executors /\ Schedulers \subseteq Executors /\ None \notin Executors
  /\ Suspects \subseteq Runs
BY CyclesAssumption DEF Runs, Executors

LEMMA TypePreserved ==
  ASSUME TypeOK, [Next]_vars PROVE TypeOK'
<1>1. CASE SlotArrives
  BY <1>1, ConstantFacts DEF SlotArrives, cycleVars, TypeOK
<1>2. CASE Wake
  BY <1>2, ConstantFacts DEF Wake, cycleVars, TypeOK
<1>3. CASE SkipGap
  BY <1>3, ConstantFacts DEF SkipGap, cycleVars, TypeOK
<1>4. CASE Delete
  BY <1>4, ConstantFacts DEF Delete, cycleVars, TypeOK
<1>5. CASE \E p \in Executors : Recover(p)
  <2>1. PICK p \in Executors : Recover(p)
    BY <1>5
  <2>2. \A r \in Runs : Recovered(r) \in {"none", "queued", "running", "completed",
                                        "degraded", "failed", "skipped", "blocked"}
    BY DEF Recovered, TypeOK
  <2>3. {r \in Oldest : Recovered(r) = "queued"} \in SUBSET Runs
    BY DEF Oldest, Stale
  <2>4. status' \in [Runs -> {"none", "queued", "running", "completed", "degraded",
                             "failed", "skipped", "blocked"}] /\ age' \in [Runs -> 0..2]
    BY <2>1, <2>2 DEF Recover, Write, TypeOK
  <2>5. QED
    BY <2>1, <2>3, <2>4, ConstantFacts DEF Recover, cycleVars, TypeOK
<1>6. CASE \E p \in Executors, r \in Runs : ClaimRun(p, r)
  <2>1. PICK p \in Executors, r \in Runs : ClaimRun(p, r)
    BY <1>6
  <2>2. CASE Claimable(r) /\ ~deleted /\ ~AtCapacity(r)
    BY <2>1, <2>2, ConstantFacts DEF ClaimRun, cycleVars, TypeOK
  <2>3. CASE ~(Claimable(r) /\ ~deleted /\ ~AtCapacity(r))
    <3>1. /\ Write(IF ~Claimable(r) THEN status
                   ELSE [status EXCEPT ![r] = IF deleted THEN "failed" ELSE "skipped"])
          /\ lock' = lock /\ Done(p, r) /\ UNCHANGED <<agent, cycleVars, call, undone, faults>>
      BY <2>1, <2>3 DEF ClaimRun
    <3>2. /\ status' \in [Runs -> {"none", "queued", "running", "completed", "degraded",
                                "failed", "skipped", "blocked"}]
          /\ age' \in [Runs -> 0..2]
      BY <3>1 DEF Write, TypeOK
    <3>3. Done(p, r)
      BY <3>1
    <3>4. exec' \in [Executors -> [phase : {"idle", "recover", "execute"},
                                  todo : SUBSET Runs, cur : 0..NumRuns]]
      <4>1. /\ exec[p] \in [phase : {"idle", "recover", "execute"}, todo : SUBSET Runs,
                         cur : 0..NumRuns]
            /\ 0 \in 0..NumRuns
        BY ConstantFacts DEF TypeOK
      <4>2. [exec[p] EXCEPT !.todo = @ \ {r}, !.cur = 0] \in
              [phase : {"idle", "recover", "execute"}, todo : SUBSET Runs, cur : 0..NumRuns]
        BY <4>1
      <4>3. QED
        BY <3>3, <4>2 DEF Done, TypeOK
    <3>5. QED
      BY <3>1, <3>2, <3>4 DEF cycleVars, TypeOK
  <2>4. QED
    BY <2>2, <2>3
<1>7. CASE \E p \in Executors, r \in Runs : Materialize(p, r)
  <2>1. PICK p \in Executors, r \in Runs : Materialize(p, r)
    BY <1>7
  <2>2. (IF AtCapacity(r) THEN {} ELSE {r}) \in SUBSET Runs
    OBVIOUS
  <2>3. (IF AtCapacity(r) THEN "skipped" ELSE "queued") \in {"skipped", "queued"}
    OBVIOUS
  <2>4. QED
    BY <2>1, <2>2, <2>3, ConstantFacts DEF Materialize, cycleVars, TypeOK
<1>8. CASE \E p \in Executors : NothingDue(p)
  BY <1>8, ConstantFacts DEF NothingDue, Idle, cycleVars, TypeOK
<1>9. CASE \E p \in Executors : EndList(p)
  BY <1>9, ConstantFacts DEF EndList, Idle, cycleVars, TypeOK
<1>10. CASE \E p \in Executors, r \in Runs : Admit(p, r)
  BY <1>10, ConstantFacts DEF Admit, Done, cycleVars, TypeOK
<1>11. CASE \E p \in Executors, r \in Runs, o \in Rejections : Reject(p, r, o)
  BY <1>11, ConstantFacts DEF Reject, Rejections, Write, Done, cycleVars, TypeOK
<1>12. CASE \E p \in Executors : ExecutionRaises(p)
  BY <1>12, ConstantFacts DEF ExecutionRaises, Abandon, Idle, cycleVars, TypeOK
<1>13. CASE \E p \in Executors : ExecutorDies(p)
  BY <1>13, ConstantFacts DEF ExecutorDies, Abandon, Idle, cycleVars, TypeOK
<1>14. CASE \E p \in Callers, r \in Runs : RunNow(p, r)
  BY <1>14, ConstantFacts DEF RunNow, NextRun, cycleVars, TypeOK
<1>15. CASE \E r \in Runs : Ages(r)
  BY <1>15, ConstantFacts DEF Ages, Active, cycleVars, TypeOK
<1>16. CASE \E r \in Runs, o \in {"completed", "failed"} : AgentSettles(r, o)
  BY <1>16, ConstantFacts DEF AgentSettles, cycleVars, TypeOK
<1>17. CASE \E f \in Calls, r \in Runs : BeginCancel(f, r)
  BY <1>17, ConstantFacts DEF BeginCancel, cycleVars, TypeOK
<1>18. CASE \E f \in Calls, r \in Runs, given \in {"completed", "failed", "canceled"} :
               BeginSettlement(f, r, given)
  BY <1>18, ConstantFacts DEF BeginSettlement, StatusGiven, cycleVars, TypeOK
<1>19. CASE \E f \in Calls, o \in {"completed", "degraded", "failed"} : WriteSettlement(f, o)
  BY <1>19, ConstantFacts DEF WriteSettlement, AfterWrite, NoCall, Outcomes,
     Write, cycleVars, TypeOK
<1>20. CASE \E f \in Calls : SettlementFails(f)
  BY <1>20, ConstantFacts DEF SettlementFails, AfterWrite, NoCall, cycleVars,
     TypeOK
<1>21. CASE \E f \in Calls : CancelCommits(f)
  BY <1>21, ConstantFacts DEF CancelCommits, NoCall, cycleVars, TypeOK
<1>22. CASE \E f \in Calls : CancelUndone(f)
  <2>1. PICK f \in Calls : CancelUndone(f)
    BY <1>22
  <2>2. call[f].run \in Runs
    BY DEF TypeOK
  <2>3. undone' \in SUBSET Runs
    BY <2>1, <2>2 DEF CancelUndone, TypeOK
  <2>4. QED
    BY <2>1, <2>3, ConstantFacts DEF CancelUndone, NoCall, cycleVars, TypeOK
<1>23. CASE UNCHANGED vars
  BY <1>23, ConstantFacts DEF vars, TypeOK
<1>24. QED
  BY <1>1, <1>2, <1>3, <1>4, <1>5, <1>6, <1>7, <1>8, <1>9, <1>10, <1>11, <1>12,
     <1>13, <1>14, <1>15, <1>16, <1>17, <1>18, <1>19, <1>20, <1>21, <1>22,
     <1>23 DEF Next, TickStep, Admission, Settlement

LEMMA LockPreserved ==
  ASSUME TypeOK, LockInv, [Next]_vars PROVE LockInv'
<1>1. CASE SlotArrives
  BY <1>1, ConstantFacts DEF SlotArrives, cycleVars, TypeOK, LockInv, Unlocked
<1>2. CASE Wake
  BY <1>2, ConstantFacts DEF Wake, cycleVars, TypeOK, LockInv, Unlocked
<1>3. CASE SkipGap
  BY <1>3, ConstantFacts DEF SkipGap, cycleVars, TypeOK, LockInv, Unlocked
<1>4. CASE Delete
  BY <1>4, ConstantFacts DEF Delete, cycleVars, TypeOK, LockInv, Unlocked
<1>5. CASE \E p \in Executors : Recover(p)
  BY <1>5, ConstantFacts DEF Recover, Write, cycleVars, TypeOK, LockInv, Unlocked
<1>6. CASE \E p \in Executors, r \in Runs : ClaimRun(p, r)
  BY <1>6, ConstantFacts DEF ClaimRun, Write, NextToDo, Done, Claimable,
     cycleVars, TypeOK, LockInv, Unlocked
<1>7. CASE \E p \in Executors, r \in Runs : Materialize(p, r)
  BY <1>7, ConstantFacts DEF Materialize, NextRun, cycleVars, TypeOK, LockInv,
     Unlocked
<1>8. CASE \E p \in Executors : NothingDue(p)
  BY <1>8, ConstantFacts DEF NothingDue, Idle, cycleVars, TypeOK, LockInv,
     Unlocked
<1>9. CASE \E p \in Executors : EndList(p)
  BY <1>9, ConstantFacts DEF EndList, Idle, cycleVars, TypeOK, LockInv, Unlocked
<1>10. CASE \E p \in Executors, r \in Runs : Admit(p, r)
  BY <1>10, ConstantFacts DEF Admit, Done, cycleVars, TypeOK, LockInv, Unlocked
<1>11. CASE \E p \in Executors, r \in Runs, o \in Rejections : Reject(p, r, o)
  BY <1>11, ConstantFacts DEF Reject, Rejections, Write, Done, cycleVars, TypeOK,
     LockInv, Unlocked
<1>12. CASE \E p \in Executors : ExecutionRaises(p)
  BY <1>12, ConstantFacts DEF ExecutionRaises, Abandon, Idle, cycleVars, TypeOK,
     LockInv, Unlocked
<1>13. CASE \E p \in Executors : ExecutorDies(p)
  BY <1>13, ConstantFacts DEF ExecutorDies, Abandon, Idle, cycleVars, TypeOK,
     LockInv, Unlocked
<1>14. CASE \E p \in Callers, r \in Runs : RunNow(p, r)
  BY <1>14, ConstantFacts DEF RunNow, NextRun, cycleVars, TypeOK, LockInv,
     Unlocked
<1>15. CASE \E r \in Runs : Ages(r)
  BY <1>15, ConstantFacts DEF Ages, Active, cycleVars, TypeOK, LockInv, Unlocked
<1>16. CASE \E r \in Runs, o \in {"completed", "failed"} : AgentSettles(r, o)
  BY <1>16, ConstantFacts DEF AgentSettles, cycleVars, TypeOK, LockInv, Unlocked
<1>17. CASE \E f \in Calls, r \in Runs : BeginCancel(f, r)
  BY <1>17, ConstantFacts DEF BeginCancel, cycleVars, TypeOK, LockInv, Unlocked
<1>18. CASE \E f \in Calls, r \in Runs, given \in {"completed", "failed", "canceled"} :
               BeginSettlement(f, r, given)
  BY <1>18, ConstantFacts DEF BeginSettlement, StatusGiven, cycleVars, TypeOK,
     LockInv, Unlocked
<1>19. CASE \E f \in Calls, o \in {"completed", "degraded", "failed"} : WriteSettlement(f, o)
  BY <1>19, ConstantFacts DEF WriteSettlement, AfterWrite, NoCall, Outcomes,
     Write, cycleVars, TypeOK, LockInv, Unlocked
<1>20. CASE \E f \in Calls : SettlementFails(f)
  BY <1>20, ConstantFacts DEF SettlementFails, AfterWrite, NoCall, cycleVars,
     TypeOK, LockInv, Unlocked
<1>21. CASE \E f \in Calls : CancelCommits(f)
  BY <1>21, ConstantFacts DEF CancelCommits, NoCall, cycleVars, TypeOK, LockInv,
     Unlocked
<1>22. CASE \E f \in Calls : CancelUndone(f)
  BY <1>22, ConstantFacts DEF CancelUndone, NoCall, cycleVars, TypeOK, LockInv,
     Unlocked
<1>23. CASE UNCHANGED vars
  BY <1>23, ConstantFacts DEF vars, TypeOK, LockInv, Unlocked
<1>24. QED
  BY <1>1, <1>2, <1>3, <1>4, <1>5, <1>6, <1>7, <1>8, <1>9, <1>10, <1>11, <1>12,
     <1>13, <1>14, <1>15, <1>16, <1>17, <1>18, <1>19, <1>20, <1>21, <1>22,
     <1>23 DEF Next, TickStep, Admission, Settlement

(***************************************************************************)
(* While an execution holds the lock nobody writes a row, but itself when  *)
(* it commits; what it claimed, it claimed in this very state.             *)
(***************************************************************************)
LEMMA LockedRows ==
  ASSUME TypeOK, LockInv, NEW x \in Executors, exec'[x].cur # 0, [Next]_vars
  PROVE  status' = status /\ (\/ exec[x].cur = exec'[x].cur
                                \/ /\ exec'[x].cur \in Runs
                                   /\ status[exec'[x].cur] = "queued"
                                   /\ ~AtCapacity(exec'[x].cur))
<1>1. CASE SlotArrives
  BY <1>1, ConstantFacts DEF SlotArrives, cycleVars, TypeOK, LockInv, Unlocked
<1>2. CASE Wake
  BY <1>2, ConstantFacts DEF Wake, cycleVars, TypeOK, LockInv, Unlocked
<1>3. CASE SkipGap
  BY <1>3, ConstantFacts DEF SkipGap, cycleVars, TypeOK, LockInv, Unlocked
<1>4. CASE Delete
  BY <1>4, ConstantFacts DEF Delete, cycleVars, TypeOK, LockInv, Unlocked
<1>5. CASE \E p \in Executors : Recover(p)
  BY <1>5, ConstantFacts DEF Recover, Write, cycleVars, TypeOK, LockInv, Unlocked
<1>6. CASE \E p \in Executors, r \in Runs : ClaimRun(p, r)
  <2>1. PICK p \in Executors, r \in Runs : ClaimRun(p, r)
    BY <1>6
  <2>2. CASE Claimable(r) /\ ~deleted /\ ~AtCapacity(r)
    BY <2>1, <2>2, ConstantFacts DEF ClaimRun, Claimable, cycleVars, TypeOK
  <2>3. CASE Claimable(r) /\ ~(~deleted /\ ~AtCapacity(r))
    <3>1. lock = None /\ Done(p, r)
      BY <2>1, <2>3 DEF ClaimRun, Unlocked
    <3>2. exec[x].cur = 0
      BY <3>1, ConstantFacts DEF LockInv
    <3>3. QED
      BY <3>1, <3>2 DEF Done, TypeOK
  <2>4. CASE ~Claimable(r)
    BY <2>1, <2>4, ConstantFacts DEF ClaimRun, Write, Done, TypeOK
  <2>5. QED
    BY <2>2, <2>3, <2>4
<1>7. CASE \E p \in Executors, r \in Runs : Materialize(p, r)
  BY <1>7, ConstantFacts DEF Materialize, NextRun, cycleVars, TypeOK, LockInv,
     Unlocked
<1>8. CASE \E p \in Executors : NothingDue(p)
  BY <1>8, ConstantFacts DEF NothingDue, Idle, cycleVars, TypeOK, LockInv,
     Unlocked
<1>9. CASE \E p \in Executors : EndList(p)
  BY <1>9, ConstantFacts DEF EndList, Idle, cycleVars, TypeOK, LockInv, Unlocked
<1>10. CASE \E p \in Executors, r \in Runs : Admit(p, r)
  BY <1>10, ConstantFacts DEF Admit, Done, cycleVars, TypeOK, LockInv, Unlocked
<1>11. CASE \E p \in Executors, r \in Runs, o \in Rejections : Reject(p, r, o)
  BY <1>11, ConstantFacts DEF Reject, Rejections, Write, Done, cycleVars, TypeOK,
     LockInv, Unlocked
<1>12. CASE \E p \in Executors : ExecutionRaises(p)
  BY <1>12, ConstantFacts DEF ExecutionRaises, Abandon, Idle, cycleVars, TypeOK,
     LockInv, Unlocked
<1>13. CASE \E p \in Executors : ExecutorDies(p)
  BY <1>13, ConstantFacts DEF ExecutorDies, Abandon, Idle, cycleVars, TypeOK,
     LockInv, Unlocked
<1>14. CASE \E p \in Callers, r \in Runs : RunNow(p, r)
  BY <1>14, ConstantFacts DEF RunNow, NextRun, cycleVars, TypeOK, LockInv,
     Unlocked
<1>15. CASE \E r \in Runs : Ages(r)
  BY <1>15, ConstantFacts DEF Ages, Active, cycleVars, TypeOK, LockInv, Unlocked
<1>16. CASE \E r \in Runs, o \in {"completed", "failed"} : AgentSettles(r, o)
  BY <1>16, ConstantFacts DEF AgentSettles, cycleVars, TypeOK, LockInv, Unlocked
<1>17. CASE \E f \in Calls, r \in Runs : BeginCancel(f, r)
  BY <1>17, ConstantFacts DEF BeginCancel, cycleVars, TypeOK, LockInv, Unlocked
<1>18. CASE \E f \in Calls, r \in Runs, given \in {"completed", "failed", "canceled"} :
               BeginSettlement(f, r, given)
  BY <1>18, ConstantFacts DEF BeginSettlement, StatusGiven, cycleVars, TypeOK,
     LockInv, Unlocked
<1>19. CASE \E f \in Calls, o \in {"completed", "degraded", "failed"} : WriteSettlement(f, o)
  BY <1>19, ConstantFacts DEF WriteSettlement, AfterWrite, NoCall, Outcomes,
     Write, cycleVars, TypeOK, LockInv, Unlocked
<1>20. CASE \E f \in Calls : SettlementFails(f)
  BY <1>20, ConstantFacts DEF SettlementFails, AfterWrite, NoCall, cycleVars,
     TypeOK, LockInv, Unlocked
<1>21. CASE \E f \in Calls : CancelCommits(f)
  BY <1>21, ConstantFacts DEF CancelCommits, NoCall, cycleVars, TypeOK, LockInv,
     Unlocked
<1>22. CASE \E f \in Calls : CancelUndone(f)
  BY <1>22, ConstantFacts DEF CancelUndone, NoCall, cycleVars, TypeOK, LockInv,
     Unlocked
<1>23. CASE UNCHANGED vars
  BY <1>23, ConstantFacts DEF vars, TypeOK, LockInv, Unlocked
<1>24. QED
  BY <1>1, <1>2, <1>3, <1>4, <1>5, <1>6, <1>7, <1>8, <1>9, <1>10, <1>11, <1>12,
     <1>13, <1>14, <1>15, <1>16, <1>17, <1>18, <1>19, <1>20, <1>21, <1>22,
     <1>23 DEF Next, TickStep, Admission, Settlement

LEMMA RoomPreserved ==
  ASSUME TypeOK, LockInv, RoomInv, [Next]_vars PROVE RoomInv'
<1> SUFFICES ASSUME NEW x \in Executors, (exec[x].cur # 0)'
             PROVE  (status[exec[x].cur] = "queued" /\ ~AtCapacity(exec[x].cur))'
  BY DEF RoomInv
<1>1. status' = status
  BY LockedRows
<1>2. status[exec'[x].cur] = "queued" /\ ~AtCapacity(exec'[x].cur)
  BY LockedRows DEF RoomInv
<1> QED
  BY <1>1, <1>2, Zenon DEF AtCapacity, Active

(***************************************************************************)
(* What a step may do to the row of an occurrence and to its agent run.    *)
(***************************************************************************)
Kept(r) == status'[r] = status[r] /\ agent'[r] = agent[r]
Inserted(r) ==
  status[r] = "none" /\ status'[r] \in {"queued", "skipped"} /\ agent'[r] = agent[r]
Refused(r) ==
  /\ status[r] = "queued" /\ status'[r] \in {"failed", "skipped", "blocked"}
  /\ agent'[r] = agent[r]
Started(r) ==
  /\ \E p \in Executors : exec[p].cur = r
  /\ status[r] = "queued" /\ status'[r] = "running" /\ agent'[r] = "open"
CaughtUp(r) ==
  /\ status[r] = "running" /\ AgentEnded(r) /\ agent'[r] = agent[r]
  /\ status'[r] \in {"completed", "failed"}
  /\ status'[r] = "completed" => agent[r] = "completed"
AgentOver(r) ==
  /\ agent[r] = "open" /\ ~Canceling(r) /\ agent'[r] \in {"completed", "failed"}
  /\ status'[r] = status[r]
SettledByCall(r) ==
  /\ \E f \in Calls : /\ call[f].phase = "write" /\ call[f].run = r
                      /\ status'[r] \in Outcomes(call[f].status)
  /\ agent'[r] = agent[r]
CanceledByCall(r) ==
  /\ agent[r] = "open" /\ agent'[r] = "canceled"
  /\ status'[r] = status[r]
RowChange(r) ==
  \/ Kept(r) \/ Inserted(r) \/ Refused(r) \/ Started(r) \/ CaughtUp(r)
  \/ AgentOver(r) \/ SettledByCall(r) \/ CanceledByCall(r)

LEMMA RowStep ==
  ASSUME TypeOK, RoomInv, CallInv, NEW x \in Runs, [Next]_vars PROVE RowChange(x)
<1>1. CASE SlotArrives
  BY <1>1, ConstantFacts DEF SlotArrives, cycleVars, TypeOK, Kept, RowChange
<1>2. CASE Wake
  BY <1>2, ConstantFacts DEF Wake, cycleVars, TypeOK, Kept, RowChange
<1>3. CASE SkipGap
  BY <1>3, ConstantFacts DEF SkipGap, cycleVars, TypeOK, Kept, RowChange
<1>4. CASE Delete
  BY <1>4, ConstantFacts DEF Delete, cycleVars, TypeOK, Kept, RowChange
<1>5. CASE \E p \in Executors : Recover(p)
  BY <1>5, ConstantFacts DEF Recover, Write, cycleVars, TypeOK, Recovered,
     AgentEnded, Oldest, Stale, Active, Kept, Refused, CaughtUp, RowChange
<1>6. CASE \E p \in Executors, r \in Runs : ClaimRun(p, r)
  BY <1>6, ConstantFacts DEF ClaimRun, Write, NextToDo, Done, Claimable,
     cycleVars, TypeOK, Kept, Refused, RowChange
<1>7. CASE \E p \in Executors, r \in Runs : Materialize(p, r)
  BY <1>7, ConstantFacts DEF Materialize, NextRun, cycleVars, TypeOK, Kept,
     Inserted, RowChange
<1>8. CASE \E p \in Executors : NothingDue(p)
  BY <1>8, ConstantFacts DEF NothingDue, Idle, cycleVars, TypeOK, Kept, RowChange
<1>9. CASE \E p \in Executors : EndList(p)
  BY <1>9, ConstantFacts DEF EndList, Idle, cycleVars, TypeOK, Kept, RowChange
<1>10. CASE \E p \in Executors, r \in Runs : Admit(p, r)
  BY <1>10, ConstantFacts DEF Admit, Done, cycleVars, TypeOK, RoomInv, Kept,
     Started, RowChange
<1>11. CASE \E p \in Executors, r \in Runs, o \in Rejections : Reject(p, r, o)
  BY <1>11, ConstantFacts DEF Reject, Rejections, Write, Done, cycleVars, TypeOK,
     RoomInv, Kept, Refused, RowChange
<1>12. CASE \E p \in Executors : ExecutionRaises(p)
  BY <1>12, ConstantFacts DEF ExecutionRaises, Abandon, Idle, cycleVars, TypeOK,
     Kept, RowChange
<1>13. CASE \E p \in Executors : ExecutorDies(p)
  BY <1>13, ConstantFacts DEF ExecutorDies, Abandon, Idle, cycleVars, TypeOK,
     Kept, RowChange
<1>14. CASE \E p \in Callers, r \in Runs : RunNow(p, r)
  BY <1>14, ConstantFacts DEF RunNow, NextRun, cycleVars, TypeOK, Kept, Inserted,
     RowChange
<1>15. CASE \E r \in Runs : Ages(r)
  BY <1>15, ConstantFacts DEF Ages, Active, cycleVars, TypeOK, Kept, RowChange
<1>16. CASE \E r \in Runs, o \in {"completed", "failed"} : AgentSettles(r, o)
  BY <1>16, ConstantFacts DEF AgentSettles, cycleVars, TypeOK, Kept, AgentOver,
     RowChange
<1>17. CASE \E f \in Calls, r \in Runs : BeginCancel(f, r)
  BY <1>17, ConstantFacts DEF BeginCancel, cycleVars, TypeOK, Kept, RowChange
<1>18. CASE \E f \in Calls, r \in Runs, given \in {"completed", "failed", "canceled"} :
               BeginSettlement(f, r, given)
  BY <1>18, ConstantFacts DEF BeginSettlement, StatusGiven, cycleVars, TypeOK,
     Kept, RowChange
<1>19. CASE \E f \in Calls, o \in {"completed", "degraded", "failed"} : WriteSettlement(f, o)
  BY <1>19, ConstantFacts DEF WriteSettlement, AfterWrite, NoCall, Outcomes,
     Write, cycleVars, TypeOK, Kept, SettledByCall, RowChange
<1>20. CASE \E f \in Calls : SettlementFails(f)
  BY <1>20, ConstantFacts DEF SettlementFails, AfterWrite, NoCall, cycleVars,
     TypeOK, Kept, RowChange
<1>21. CASE \E f \in Calls : CancelCommits(f)
  BY <1>21, ConstantFacts DEF CancelCommits, NoCall, cycleVars, TypeOK, CallInv,
     Kept, CanceledByCall, RowChange
<1>22. CASE \E f \in Calls : CancelUndone(f)
  BY <1>22, ConstantFacts DEF CancelUndone, NoCall, cycleVars, TypeOK, Kept,
     RowChange
<1>23. CASE UNCHANGED vars
  BY <1>23 DEF vars, Kept, RowChange
<1>24. QED
  BY <1>1, <1>2, <1>3, <1>4, <1>5, <1>6, <1>7, <1>8, <1>9, <1>10, <1>11, <1>12,
     <1>13, <1>14, <1>15, <1>16, <1>17, <1>18, <1>19, <1>20, <1>21, <1>22,
     <1>23 DEF Next, TickStep, Admission, Settlement

LEMMA CallPreserved ==
  ASSUME TypeOK, RoomInv, AgentInv, CallInv, [Next]_vars PROVE CallInv'
<1>1. CASE SlotArrives
  BY <1>1, ConstantFacts DEF SlotArrives, cycleVars, TypeOK, CallInv, AgentEnded
<1>2. CASE Wake
  BY <1>2, ConstantFacts DEF Wake, cycleVars, TypeOK, CallInv, AgentEnded
<1>3. CASE SkipGap
  BY <1>3, ConstantFacts DEF SkipGap, cycleVars, TypeOK, CallInv, AgentEnded
<1>4. CASE Delete
  BY <1>4, ConstantFacts DEF Delete, cycleVars, TypeOK, CallInv, AgentEnded
<1>5. CASE \E p \in Executors : Recover(p)
  BY <1>5, ConstantFacts DEF Recover, Write, cycleVars, TypeOK, CallInv,
     AgentEnded
<1>6. CASE \E p \in Executors, r \in Runs : ClaimRun(p, r)
  BY <1>6, ConstantFacts DEF ClaimRun, Write, NextToDo, Done, Claimable,
     cycleVars, TypeOK, CallInv, AgentEnded
<1>7. CASE \E p \in Executors, r \in Runs : Materialize(p, r)
  BY <1>7, ConstantFacts DEF Materialize, NextRun, cycleVars, TypeOK, CallInv,
     AgentEnded
<1>8. CASE \E p \in Executors : NothingDue(p)
  BY <1>8, ConstantFacts DEF NothingDue, Idle, cycleVars, TypeOK, CallInv,
     AgentEnded
<1>9. CASE \E p \in Executors : EndList(p)
  BY <1>9, ConstantFacts DEF EndList, Idle, cycleVars, TypeOK, CallInv, AgentEnded
<1>10. CASE \E p \in Executors, r \in Runs : Admit(p, r)
  BY <1>10, ConstantFacts DEF Admit, Done, cycleVars, TypeOK, AgentInv, CallInv,
     AgentEnded, RoomInv
<1>11. CASE \E p \in Executors, r \in Runs, o \in Rejections : Reject(p, r, o)
  BY <1>11, ConstantFacts DEF Reject, Rejections, Write, Done, cycleVars, TypeOK,
     CallInv, AgentEnded
<1>12. CASE \E p \in Executors : ExecutionRaises(p)
  BY <1>12, ConstantFacts DEF ExecutionRaises, Abandon, Idle, cycleVars, TypeOK,
     CallInv, AgentEnded
<1>13. CASE \E p \in Executors : ExecutorDies(p)
  BY <1>13, ConstantFacts DEF ExecutorDies, Abandon, Idle, cycleVars, TypeOK,
     CallInv, AgentEnded
<1>14. CASE \E p \in Callers, r \in Runs : RunNow(p, r)
  BY <1>14, ConstantFacts DEF RunNow, NextRun, cycleVars, TypeOK, CallInv,
     AgentEnded
<1>15. CASE \E r \in Runs : Ages(r)
  BY <1>15, ConstantFacts DEF Ages, Active, cycleVars, TypeOK, CallInv, AgentEnded
<1>16. CASE \E r \in Runs, o \in {"completed", "failed"} : AgentSettles(r, o)
  BY <1>16, ConstantFacts DEF AgentSettles, cycleVars, TypeOK, CallInv,
     AgentEnded, Canceling
<1>17. CASE \E f \in Calls, r \in Runs : BeginCancel(f, r)
  BY <1>17, ConstantFacts DEF BeginCancel, cycleVars, TypeOK, CallInv, AgentEnded,
     Canceling
<1>18. CASE \E f \in Calls, r \in Runs, given \in {"completed", "failed", "canceled"} :
               BeginSettlement(f, r, given)
  BY <1>18, ConstantFacts DEF BeginSettlement, StatusGiven, cycleVars, TypeOK,
     CallInv, AgentEnded
<1>19. CASE \E f \in Calls, o \in {"completed", "degraded", "failed"} : WriteSettlement(f, o)
  BY <1>19, ConstantFacts DEF WriteSettlement, AfterWrite, NoCall, Outcomes,
     Write, cycleVars, TypeOK, CallInv, AgentEnded
<1>20. CASE \E f \in Calls : SettlementFails(f)
  BY <1>20, ConstantFacts DEF SettlementFails, AfterWrite, NoCall, cycleVars,
     TypeOK, CallInv, AgentEnded
<1>21. CASE \E f \in Calls : CancelCommits(f)
  BY <1>21, ConstantFacts DEF CancelCommits, NoCall, cycleVars, TypeOK, CallInv,
     AgentEnded
<1>22. CASE \E f \in Calls : CancelUndone(f)
  BY <1>22, ConstantFacts DEF CancelUndone, NoCall, cycleVars, TypeOK, CallInv,
     AgentEnded
<1>23. CASE UNCHANGED vars
  BY <1>23, ConstantFacts DEF vars, TypeOK, CallInv, AgentEnded
<1>24. QED
  BY <1>1, <1>2, <1>3, <1>4, <1>5, <1>6, <1>7, <1>8, <1>9, <1>10, <1>11, <1>12,
     <1>13, <1>14, <1>15, <1>16, <1>17, <1>18, <1>19, <1>20, <1>21, <1>22,
     <1>23 DEF Next, TickStep, Admission, Settlement

LEMMA CancelKept ==
  ASSUME TypeOK, CallInv, NEW x \in Runs, agent'[x] = "open", [Next]_vars
  PROVE  undone \subseteq undone' /\ (Canceling(x) => Canceling(x)' \/ x \in undone')
<1>1. CASE SlotArrives
  BY <1>1 DEF SlotArrives, cycleVars, TypeOK, CallInv, Canceling
<1>2. CASE Wake
  BY <1>2 DEF Wake, cycleVars, TypeOK, CallInv, Canceling
<1>3. CASE SkipGap
  BY <1>3 DEF SkipGap, cycleVars, TypeOK, CallInv, Canceling
<1>4. CASE Delete
  BY <1>4 DEF Delete, cycleVars, TypeOK, CallInv, Canceling
<1>5. CASE \E p \in Executors : Recover(p)
  BY <1>5 DEF Recover, Write, cycleVars, TypeOK, CallInv, Canceling
<1>6. CASE \E p \in Executors, r \in Runs : ClaimRun(p, r)
  BY <1>6 DEF ClaimRun, Write, NextToDo, Done, Claimable, cycleVars, TypeOK,
     CallInv, Canceling
<1>7. CASE \E p \in Executors, r \in Runs : Materialize(p, r)
  BY <1>7 DEF Materialize, NextRun, cycleVars, TypeOK, CallInv, Canceling
<1>8. CASE \E p \in Executors : NothingDue(p)
  BY <1>8 DEF NothingDue, Idle, cycleVars, TypeOK, CallInv, Canceling
<1>9. CASE \E p \in Executors : EndList(p)
  BY <1>9 DEF EndList, Idle, cycleVars, TypeOK, CallInv, Canceling
<1>10. CASE \E p \in Executors, r \in Runs : Admit(p, r)
  BY <1>10 DEF Admit, Done, cycleVars, TypeOK, CallInv, Canceling
<1>11. CASE \E p \in Executors, r \in Runs, o \in Rejections : Reject(p, r, o)
  BY <1>11 DEF Reject, Rejections, Write, Done, cycleVars, TypeOK, CallInv,
     Canceling
<1>12. CASE \E p \in Executors : ExecutionRaises(p)
  BY <1>12 DEF ExecutionRaises, Abandon, Idle, cycleVars, TypeOK, CallInv,
     Canceling
<1>13. CASE \E p \in Executors : ExecutorDies(p)
  BY <1>13 DEF ExecutorDies, Abandon, Idle, cycleVars, TypeOK, CallInv, Canceling
<1>14. CASE \E p \in Callers, r \in Runs : RunNow(p, r)
  BY <1>14 DEF RunNow, NextRun, cycleVars, TypeOK, CallInv, Canceling
<1>15. CASE \E r \in Runs : Ages(r)
  BY <1>15 DEF Ages, Active, cycleVars, TypeOK, CallInv, Canceling
<1>16. CASE \E r \in Runs, o \in {"completed", "failed"} : AgentSettles(r, o)
  BY <1>16 DEF AgentSettles, cycleVars, TypeOK, CallInv, Canceling
<1>17. CASE \E f \in Calls, r \in Runs : BeginCancel(f, r)
  BY <1>17 DEF BeginCancel, cycleVars, TypeOK, CallInv, Canceling
<1>18. CASE \E f \in Calls, r \in Runs, given \in {"completed", "failed", "canceled"} :
               BeginSettlement(f, r, given)
  BY <1>18 DEF BeginSettlement, StatusGiven, cycleVars, TypeOK, CallInv, Canceling
<1>19. CASE \E f \in Calls, o \in {"completed", "degraded", "failed"} : WriteSettlement(f, o)
  BY <1>19 DEF WriteSettlement, AfterWrite, NoCall, Outcomes, Write, cycleVars,
     TypeOK, CallInv, Canceling
<1>20. CASE \E f \in Calls : SettlementFails(f)
  BY <1>20 DEF SettlementFails, AfterWrite, NoCall, cycleVars, TypeOK, CallInv,
     Canceling
<1>21. CASE \E f \in Calls : CancelCommits(f)
  BY <1>21 DEF CancelCommits, NoCall, cycleVars, TypeOK, CallInv, Canceling
<1>22. CASE \E f \in Calls : CancelUndone(f)
  BY <1>22 DEF CancelUndone, NoCall, cycleVars, TypeOK, CallInv, Canceling
<1>23. CASE UNCHANGED vars
  BY <1>23 DEF vars, TypeOK, CallInv, Canceling
<1>24. QED
  BY <1>1, <1>2, <1>3, <1>4, <1>5, <1>6, <1>7, <1>8, <1>9, <1>10, <1>11, <1>12,
     <1>13, <1>14, <1>15, <1>16, <1>17, <1>18, <1>19, <1>20, <1>21, <1>22,
     <1>23 DEF Next, TickStep, Admission, Settlement

LEMMA AgentPreserved ==
  ASSUME TypeOK, RoomInv, CallInv, AgentInv, [Next]_vars PROVE AgentInv'
<1> SUFFICES ASSUME NEW r \in Runs
             PROVE  /\ status'[r] \in {"none", "queued"} => agent'[r] = "none"
                    /\ status'[r] = "running" => agent'[r] # "none"
  BY DEF AgentInv
<1>1. RowChange(r)
  BY RowStep
<1>2. \A given : Outcomes(given) \subseteq {"completed", "degraded", "failed"}
  BY DEF Outcomes
<1> QED
  BY <1>1, <1>2 DEF RowChange, Kept, Inserted, Refused, Started, CaughtUp, AgentOver,
     SettledByCall, CanceledByCall, AgentInv, TypeOK

LEMMA HonestPreserved ==
  ASSUME TypeOK, RoomInv, CallInv, CompletedHonestly, [Next]_vars
  PROVE  CompletedHonestly'
<1> SUFFICES ASSUME NEW r \in Runs, status'[r] = "completed"
             PROVE  agent'[r] = "completed"
  BY DEF CompletedHonestly
<1>1. RowChange(r)
  BY RowStep
<1>2. CASE SettledByCall(r)
  <2>1. PICK f \in Calls : /\ call[f].phase = "write" /\ call[f].run = r
                           /\ "completed" \in Outcomes(call[f].status)
    BY <1>2 DEF SettledByCall
  <2>2. call[f].status = "completed"
    BY <2>1 DEF Outcomes
  <2>3. QED
    BY <1>2, <2>1, <2>2 DEF SettledByCall, CallInv
<1> QED
  BY <1>1, <1>2 DEF RowChange, Kept, Inserted, Refused, Started, CaughtUp, AgentOver,
     CanceledByCall, CompletedHonestly

LEMMA CountedPreserved ==
  ASSUME TypeOK, RoomInv, CallInv, AgentCounted, [Next]_vars PROVE AgentCounted'
<1> SUFFICES ASSUME NEW r \in Runs, agent'[r] = "open"
             PROVE  status'[r] = "running" \/ Canceling(r)' \/ r \in undone'
  BY DEF AgentCounted
<1>1. RowChange(r)
  BY RowStep
<1>2. undone \subseteq undone' /\ (Canceling(r) => Canceling(r)' \/ r \in undone')
  BY CancelKept
<1>3. CASE SettledByCall(r)
  <2>1. PICK f \in Calls : call[f].phase = "write" /\ call[f].run = r
    BY <1>3 DEF SettledByCall
  <2>2. agent[r] = "open"
    BY <1>3 DEF SettledByCall
  <2>3. Canceling(r)
    BY <2>1, <2>2 DEF CallInv, Canceling, AgentEnded
  <2>4. QED
    BY <1>2, <2>3
<1>4. CASE Kept(r)
  BY <1>2, <1>4 DEF Kept, AgentCounted
<1>5. CASE Started(r)
  BY <1>5 DEF Started
<1>6. CASE Inserted(r) \/ Refused(r) \/ CaughtUp(r)
  BY <1>2, <1>6 DEF Inserted, Refused, CaughtUp, AgentEnded, AgentCounted
<1> QED
  BY <1>1, <1>3, <1>4, <1>5, <1>6 DEF RowChange, AgentOver, CanceledByCall

LEMMA CapacityPreserved ==
  ASSUME TypeOK, LockInv, RoomInv, CallInv, CapacityRespected, [Next]_vars
  PROVE  CapacityRespected'
<1> DEFINE Running == {r \in Runs : status[r] = "running"}
<1> DEFINE Running1 == {r \in Runs : status'[r] = "running"}
<1>1. IsFiniteSet(Runs)
  BY FS_Interval, ConstantFacts DEF Runs
<1>2. \A r \in Runs : status'[r] = "running" => status[r] = "running" \/ Started(r)
  <2> SUFFICES ASSUME NEW r \in Runs, status'[r] = "running"
               PROVE  status[r] = "running" \/ Started(r)
    OBVIOUS
  <2>1. RowChange(r)
    BY RowStep
  <2>2. \A given : "running" \notin Outcomes(given)
    BY DEF Outcomes
  <2> QED
    BY <2>1, <2>2 DEF RowChange, Kept, Inserted, Refused, CaughtUp, AgentOver,
       SettledByCall, CanceledByCall
<1>3. CASE \A r \in Runs : ~Started(r)
  <2>1. Running1 \subseteq Running
    BY <1>2, <1>3
  <2>2. IsFiniteSet(Running)
    BY <1>1, FS_Subset
  <2>3. /\ Cardinality(Running1) \in Nat /\ Cardinality(Running) \in Nat
        /\ Cardinality(Running1) <= Cardinality(Running)
    BY <2>1, <2>2, FS_Subset, FS_CardinalityType
  <2> QED
    BY <2>3, ConstantFacts DEF CapacityRespected
<1>4. CASE \E r \in Runs : Started(r)
  <2>1. PICK r \in Runs : Started(r)
    BY <1>4
  <2>2. PICK p \in Executors : exec[p].cur = r
    BY <2>1 DEF Started
  <2> DEFINE Others == {q \in Runs \ {r} : Active(q)}
  <2>3. \A q \in Runs : Started(q) => q = r
    <3> SUFFICES ASSUME NEW q \in Runs, Started(q) PROVE q = r
      OBVIOUS
    <3>1. PICK s \in Executors : exec[s].cur = q
      BY DEF Started
    <3>2. lock = s /\ lock = p
      BY <2>2, <3>1, ConstantFacts DEF LockInv
    <3> QED
      BY <2>2, <3>1, <3>2
  <2>4. Running1 \subseteq Others \cup {r}
    BY <1>2, <2>3 DEF Active
  <2>5. IsFiniteSet(Others) /\ r \notin Others
    BY <1>1, FS_Subset
  <2>6. IsFiniteSet(Others \cup {r}) /\ Cardinality(Others \cup {r}) = Cardinality(Others) + 1
    BY <2>5, FS_AddElement
  <2>7. /\ Cardinality(Others) \in Nat /\ Cardinality(Running1) \in Nat
        /\ Cardinality(Running1) <= Cardinality(Others) + 1
    BY <2>4, <2>5, <2>6, FS_Subset, FS_CardinalityType
  <2>8. ~(Cardinality(Others) >= MaxConcurrency)
    BY <2>2, ConstantFacts DEF RoomInv, AtCapacity
  <2> QED
    BY <2>7, <2>8, ConstantFacts DEF CapacityRespected
<1> QED
  BY <1>3, <1>4

LEMMA IInvInit == Init => IInv
<1> SUFFICES ASSUME Init PROVE IInv
  OBVIOUS
<1>1. TypeOK
  <2>1. Idle \in [phase : {"idle", "recover", "execute"}, todo : SUBSET Runs, cur : 0..NumRuns]
    BY ConstantFacts DEF Idle
  <2>2. NoCall \in [phase : {"idle", "write", "commit"}, run : Runs,
                   status : {"none", "completed", "failed", "canceled"}, cancel : BOOLEAN]
    BY ConstantFacts DEF NoCall
  <2>3. faulty \in SUBSET Runs
    BY ConstantFacts DEF Init
  <2>4. age \in [Runs -> 0..2]
    BY DEF Init
  <2> QED
    BY <2>1, <2>2, <2>3, <2>4 DEF Init, TypeOK
<1>2. LockInv /\ RoomInv /\ AgentInv /\ CallInv
  BY DEF Init, Idle, NoCall, LockInv, RoomInv, AgentInv, CallInv
<1>3. {r \in Runs : status[r] = "running"} = {}
  BY DEF Init
<1>4. CapacityRespected
  BY <1>3, FS_EmptySet, ConstantFacts DEF CapacityRespected
<1>5. AgentCounted /\ CompletedHonestly
  BY DEF Init, AgentCounted, CompletedHonestly
<1> QED
  BY <1>1, <1>2, <1>4, <1>5 DEF IInv

LEMMA IInvNext == ASSUME IInv, [Next]_vars PROVE IInv'
<1>1. TypeOK'
  BY TypePreserved DEF IInv
<1>2. LockInv'
  BY LockPreserved DEF IInv
<1>3. RoomInv'
  BY RoomPreserved DEF IInv
<1>4. AgentInv'
  BY AgentPreserved DEF IInv
<1>5. CallInv'
  BY CallPreserved DEF IInv
<1>6. CapacityRespected'
  BY CapacityPreserved DEF IInv
<1>7. AgentCounted'
  BY CountedPreserved DEF IInv
<1>8. CompletedHonestly'
  BY HonestPreserved DEF IInv
<1> QED
  BY <1>1, <1>2, <1>3, <1>4, <1>5, <1>6, <1>7, <1>8 DEF IInv

(* The invariant from which everything below follows, with the lock of the  *)
(* cycle's row as its core.                                                 *)
THEOREM Invariance == Spec => []IInv
<1>1. IInv /\ [Next]_vars => IInv'
  BY IInvNext
<1> QED
  BY <1>1, IInvInit, PTL DEF Spec

(* The variables of a cycle keep their types through every claim, recovery  *)
(* and settlement.                                                          *)
THEOREM TypeCorrect == Spec => []TypeOK
<1>1. IInv => TypeOK
  BY DEF IInv
<1> QED
  BY <1>1, Invariance, PTL

(* However many loops and callers execute the cycle, max_concurrency holds. *)
THEOREM CapacityHolds == Spec => []CapacityRespected
<1>1. IInv => CapacityRespected
  BY DEF IInv
<1> QED
  BY <1>1, Invariance, PTL

(* No agent run of a cycle works outside its capacity, but behind a         *)
(* cancellation that settles the occurrence first.                          *)
THEOREM AgentsAreCounted == Spec => []AgentCounted
<1>1. IInv => AgentCounted
  BY DEF IInv
<1> QED
  BY <1>1, Invariance, PTL

(* Settlement, error handler and recovery never call an occurrence          *)
(* completed whose agent run was not.                                       *)
THEOREM CompletionIsHonest == Spec => []CompletedHonestly
<1>1. IInv => CompletedHonestly
  BY DEF IInv
<1> QED
  BY <1>1, Invariance, PTL

(* A claim under the lock gives an occurrence at most one agent run.        *)
THEOREM OccurrencesStartOnce == Spec => StartedOnce
<1>1. IInv /\ [Next]_vars =>
        [\A r \in Runs : agent[r] # "none" => agent'[r] = agent[r] \/ agent'[r] # "open"]_vars
  <2> SUFFICES ASSUME IInv, [Next]_vars, NEW r \in Runs, agent[r] # "none"
               PROVE  agent'[r] = agent[r] \/ agent'[r] # "open"
    OBVIOUS
  <2>1. RowChange(r)
    BY RowStep DEF IInv
  <2> QED
    BY <2>1 DEF RowChange, Kept, Inserted, Refused, Started, CaughtUp, AgentOver,
       SettledByCall, CanceledByCall, IInv, AgentInv
<1> QED
  BY <1>1, Invariance, PTL DEF Spec, StartedOnce

(* A settled occurrence stays settled although settlements write what they  *)
(* decided on an unlocked read; without an agent run its outcome is final.  *)
THEOREM SettlementStays == Spec => SettledStays
<1>1. IInv /\ [Next]_vars =>
        [\A r \in Runs : Terminal(r) => /\ Terminal(r)'
                                        /\ agent[r] = "none" => status'[r] = status[r]]_vars
  <2> SUFFICES ASSUME IInv, [Next]_vars, NEW r \in Runs, Terminal(r)
               PROVE  Terminal(r)' /\ (agent[r] = "none" => status'[r] = status[r])
    OBVIOUS
  <2>1. RowChange(r)
    BY RowStep DEF IInv
  <2>2. \A given : Outcomes(given) \subseteq {"completed", "degraded", "failed"}
    BY DEF Outcomes
  <2>3. CASE SettledByCall(r)
    <3>1. PICK f \in Calls : call[f].phase = "write" /\ call[f].run = r
      BY <2>3 DEF SettledByCall
    <3>2. agent[r] # "none"
      BY <3>1 DEF IInv, CallInv, AgentEnded
    <3> QED
      BY <2>2, <2>3, <3>2 DEF SettledByCall, Terminal
  <2> QED
    BY <2>1, <2>3 DEF RowChange, Kept, Inserted, Refused, Started, CaughtUp, AgentOver,
       CanceledByCall, Terminal
<1> QED
  BY <1>1, Invariance, PTL DEF Spec, SettledStays
(***************************************************************************)
(* What a step may do to all rows: one is inserted, one is started, one    *)
(* agent run ends, or some are settled, and the others are left alone.     *)
(***************************************************************************)
Alone(r) == \A q \in Runs \ {r} : Kept(q)
SettledOrKept(r) == Kept(r) \/ Refused(r) \/ CaughtUp(r) \/ SettledByCall(r)

LEMMA RowsStep ==
  ASSUME TypeOK, RoomInv, CallInv, [Next]_vars
  PROVE  \/ \E r \in Runs : Inserted(r) /\ Alone(r)
         \/ \E r \in Runs : Started(r) /\ Alone(r)
         \/ \E r \in Runs : (AgentOver(r) \/ CanceledByCall(r)) /\ Alone(r)
         \/ \A r \in Runs : SettledOrKept(r)
<1> USE DEF Kept, Alone, SettledOrKept
<1>1. CASE SlotArrives \/ Wake \/ SkipGap \/ Delete \/ UNCHANGED vars
  BY <1>1 DEF SlotArrives, Wake, SkipGap, Delete, vars
<1>2. CASE \E p \in Executors : Recover(p)
  BY <1>2 DEF Recover, Write, Recovered, AgentEnded, Oldest, Stale, Active, TypeOK,
     Refused, CaughtUp
<1>3. CASE \E p \in Executors, r \in Runs : ClaimRun(p, r)
  BY <1>3 DEF ClaimRun, Write, Claimable, TypeOK, Refused
<1>4. CASE \E p \in Executors, r \in Runs : Materialize(p, r)
  BY <1>4 DEF Materialize, NextRun, TypeOK, Inserted
<1>5. CASE \E p \in Executors : NothingDue(p) \/ EndList(p)
  BY <1>5 DEF NothingDue, EndList
<1>6. CASE \E p \in Executors, r \in Runs : Admit(p, r)
  BY <1>6, ConstantFacts DEF Admit, TypeOK, RoomInv, Started
<1>7. CASE \E p \in Executors, r \in Runs, o \in Rejections : Reject(p, r, o)
  BY <1>7, ConstantFacts DEF Reject, Rejections, Write, TypeOK, RoomInv, Refused
<1>8. CASE \E p \in Executors : ExecutionRaises(p) \/ ExecutorDies(p)
  BY <1>8 DEF ExecutionRaises, ExecutorDies, Abandon
<1>9. CASE \E p \in Callers, r \in Runs : RunNow(p, r)
  BY <1>9 DEF RunNow, NextRun, TypeOK, Inserted
<1>10. CASE \E r \in Runs : Ages(r)
  BY <1>10 DEF Ages
<1>11. CASE \E r \in Runs, o \in {"completed", "failed"} : AgentSettles(r, o)
  BY <1>11 DEF AgentSettles, TypeOK, AgentOver
<1>12. CASE \E f \in Calls, r \in Runs : BeginCancel(f, r)
  BY <1>12 DEF BeginCancel
<1>13. CASE \E f \in Calls, r \in Runs, given \in {"completed", "failed", "canceled"} :
               BeginSettlement(f, r, given)
  BY <1>13 DEF BeginSettlement
<1>14. CASE \E f \in Calls, o \in {"completed", "degraded", "failed"} : WriteSettlement(f, o)
  BY <1>14 DEF WriteSettlement, Write, TypeOK, SettledByCall
<1>15. CASE \E f \in Calls : SettlementFails(f) \/ CancelUndone(f)
  BY <1>15 DEF SettlementFails, CancelUndone
<1>16. CASE \E f \in Calls : CancelCommits(f)
  <2>1. PICK f \in Calls : CancelCommits(f)
    BY <1>16
  <2>2. call[f].run \in Runs /\ agent[call[f].run] = "open"
    BY <2>1 DEF CancelCommits, TypeOK, CallInv
  <2>3. CanceledByCall(call[f].run) /\ Alone(call[f].run)
    BY <2>1, <2>2 DEF CancelCommits, TypeOK, CanceledByCall
  <2> QED
    BY <2>2, <2>3
<1> QED
  BY <1>1, <1>2, <1>3, <1>4, <1>5, <1>6, <1>7, <1>8, <1>9, <1>10, <1>11, <1>12,
     <1>13, <1>14, <1>15, <1>16 DEF Next, TickStep, Admission, Settlement

(***************************************************************************)
(* Each of these is a step of the contract.                                *)
(***************************************************************************)
LEMMA InsertIsInsert ==
  ASSUME TypeOK, NEW r \in Runs, Inserted(r), Alone(r), TypeOK'
  PROVE  Contract!Insert(r)
<1>1. \E first \in {"waiting", "settled"} : Phase(r)' = first
  BY DEF Inserted, Phase
<1>2. \A q \in Runs \ {r} : Phase(q)' = Phase(q)
  BY DEF Alone, Kept, Phase
<1>3. \A q \in Runs : Work(q)' = Work(q)
  BY DEF Alone, Kept, Inserted, Work
<1>4. Phase(r) = "absent"
  BY DEF Inserted, Phase
<1> HIDE DEF Phase, Work
<1> QED
  BY <1>1, <1>2, <1>3, <1>4 DEF Contract!Insert

LEMMA StartIsStart ==
  ASSUME IInv, NEW r \in Runs, Started(r), Alone(r)
  PROVE  Contract!Start(r)
<1>1. PICK p \in Executors : exec[p].cur = r
  BY DEF Started
<1> DEFINE Others == {q \in Runs \ {r} : Active(q)}
           working == {q \in Runs : [x \in Runs |-> Phase(x)][q] = "working"}
<1>2. ~(Cardinality(Others) >= MaxConcurrency)
  BY <1>1, ConstantFacts DEF IInv, RoomInv, AtCapacity
<1>3. working \subseteq Others
  BY DEF Phase, Started, Active
<1>4. IsFiniteSet(Others)
  <2>1. IsFiniteSet(Runs)
    BY FS_Interval, ConstantFacts DEF Runs
  <2> QED
    BY <2>1, FS_Subset
<1>5. /\ Cardinality(Others) \in Nat /\ Cardinality(working) \in Nat
      /\ Cardinality(working) <= Cardinality(Others)
  BY <1>3, <1>4, FS_Subset, FS_CardinalityType
<1>6. Cardinality(working) < MaxConcurrency
  BY <1>2, <1>5, ConstantFacts
<1>7. Phase(r) = "waiting" /\ Phase(r)' = "working" /\ Work(r) = "none" /\ Work(r)' = "open"
  BY DEF Started, Phase, Work, IInv, AgentInv
<1>8. \A q \in Runs \ {r} : Phase(q)' = Phase(q) /\ Work(q)' = Work(q)
  BY DEF Alone, Kept, Phase, Work
<1> HIDE DEF Phase, Work
<1> QED
  <2>1. Contract!Working = working
    BY DEF Contract!Working
  <2>2. Contract!Cardinality(working) = Cardinality(working)
    BY DEF Cardinality, Contract!Cardinality
  <2>3. Contract!Cardinality(Contract!Working) < MaxConcurrency
    BY <1>6, <2>1, <2>2
  <2> QED
    BY <1>7, <1>8, <2>3 DEF Contract!Start

LEMMA EndIsFinish ==
  ASSUME NEW r \in Runs, AgentOver(r) \/ CanceledByCall(r), Alone(r)
  PROVE  Contract!Finish(r)
<1>1. Work(r) = "open" /\ Work(r)' = "over"
  BY DEF AgentOver, CanceledByCall, Work
<1>2. \A q \in Runs \ {r} : Work(q)' = Work(q)
  BY DEF Alone, Kept, Work
<1>3. \A q \in Runs : Phase(q)' = Phase(q)
  BY DEF Alone, Kept, AgentOver, CanceledByCall, Phase
<1> HIDE DEF Phase, Work
<1> QED
  BY <1>1, <1>2, <1>3 DEF Contract!Finish

(* The batch is what was open and is settled; a late settlement of a row    *)
(* that is settled already is not in it.                                    *)
LEMMA SettlementIsSettle ==
  ASSUME IInv, \A r \in Runs : SettledOrKept(r)
  PROVE  \E batch \in SUBSET Runs : Contract!Settle(batch)
<1> DEFINE batch == {r \in Runs : Phase(r) \in {"waiting", "working"} /\ Phase(r)' = "settled"}
<1>1. ASSUME NEW r \in Runs
      PROVE  Work(r)' = Work(r) /\ Phase(r)' = IF r \in batch THEN "settled" ELSE Phase(r)
  <2>1. CASE SettledByCall(r)
    <3>1. PICK f \in Calls : /\ call[f].phase = "write" /\ call[f].run = r
                             /\ status'[r] \in Outcomes(call[f].status)
      BY <2>1 DEF SettledByCall
    <3>2. agent[r] # "none"
      BY <3>1 DEF IInv, CallInv, AgentEnded
    <3>3. status[r] \notin {"none", "queued"}
      BY <3>2 DEF IInv, AgentInv
    <3>4. status'[r] \in {"completed", "degraded", "failed"}
      BY <3>1 DEF Outcomes
    <3> QED
      BY <2>1, <3>3, <3>4 DEF SettledByCall, Phase, Work
  <2>2. CASE Kept(r) \/ Refused(r) \/ CaughtUp(r)
    BY <2>2 DEF Kept, Refused, CaughtUp, Phase, Work
  <2> QED
    BY <2>1, <2>2 DEF SettledOrKept
<1> HIDE DEF Phase, Work
<1>2. Contract!Settle(batch)
  BY <1>1 DEF Contract!Settle
<1> QED
  BY <1>2

(* A cycle keeps its contract for any number of loops, callers, recoveries  *)
(* and settlements: started once, within capacity, settled for good.        *)
THEOREM CycleKeepsContract == Spec => ImplementsContract
<1>1. Init => Contract!Init
  BY DEF Init, Contract!Init, Phase, Work
<1>2. IInv /\ [Next]_vars => [Contract!Next]_Contract!vars
  <2> SUFFICES ASSUME IInv, [Next]_vars PROVE Contract!Next
    OBVIOUS
  <2>1. TypeOK /\ TypeOK' /\ RoomInv /\ CallInv
    BY IInvNext DEF IInv
  <2> QED
    BY <2>1, RowsStep, InsertIsInsert, StartIsStart, EndIsFinish, SettlementIsSettle
       DEF Contract!Next
<1> QED
  BY <1>1, <1>2, Invariance, PTL DEF Spec, ImplementsContract, Contract!Spec

(***************************************************************************)
(* The agent runs of the occurrences live as AgentRun says.                *)
(***************************************************************************)
Life == INSTANCE RunLife WITH
  Endings <- {"completed", "failed", "canceled"},
  life <- [r \in Runs |-> IF agent[r] = "none" THEN "absent" ELSE agent[r]]

(* Executors, slots and cancellations together admit the agent run of an    *)
(* occurrence once and settle it once.                                      *)
THEOREM AgentRunsLive == Spec => Life!Spec
<1> DEFINE lives == [r \in Runs |-> IF agent[r] = "none" THEN "absent" ELSE agent[r]]
<1>1. Init => Life!Init
  BY DEF Init, Life!Init
<1>2. IInv /\ [Next]_vars => [Life!Next]_lives
  <2> SUFFICES ASSUME IInv, [Next]_vars PROVE [Life!Next]_lives
    OBVIOUS
  <2>1. CASE \E r \in Runs : Inserted(r) /\ Alone(r)
    BY <2>1 DEF Inserted, Alone, Kept
  <2>2. ASSUME NEW r \in Runs, Started(r), Alone(r) PROVE Life!Admit(r)
    <3>1. agent[r] = "none" /\ agent'[r] = "open"
      BY <2>2 DEF Started, IInv, AgentInv
    <3>2. \A q \in Runs \ {r} : agent'[q] = agent[q]
      BY <2>2 DEF Alone, Kept
    <3> QED
      BY <3>1, <3>2 DEF Life!Admit
  <2>3. ASSUME NEW r \in Runs, AgentOver(r) \/ CanceledByCall(r), Alone(r)
        PROVE  Life!Settle(r)
    <3>1. agent[r] = "open" /\ agent'[r] \in {"completed", "failed", "canceled"}
      BY <2>3 DEF AgentOver, CanceledByCall
    <3>2. \A q \in Runs \ {r} : agent'[q] = agent[q]
      BY <2>3 DEF Alone, Kept
    <3> QED
      BY <3>1, <3>2 DEF Life!Settle
  <2>4. CASE \A r \in Runs : SettledOrKept(r)
    BY <2>4 DEF SettledOrKept, Kept, Refused, CaughtUp, SettledByCall
  <2> QED
    BY <2>1, <2>2, <2>3, <2>4, RowsStep DEF IInv, Life!Next
<1> QED
  BY <1>1, <1>2, Invariance, PTL DEF Spec, Life!Spec
=============================================================================
