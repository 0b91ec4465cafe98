--------------------------- MODULE SteeringProofs ----------------------------
(***************************************************************************)
(* Proofs about Steering, for any number of users, attempts and            *)
(* cancellations, and without the bound on events.                         *)
(***************************************************************************)
EXTENDS Steering, TLAPS

(***************************************************************************)
(* The locks.  Who holds the stream has the number after the highest       *)
(* committed one, and nobody else has a number; a request that is about to *)
(* commit its event holds the stream; who is about to settle the run holds *)
(* its row, and the run is still running.                                  *)
(***************************************************************************)
StreamHeld ==
  /\ \A a \in Actors : IF stream = a THEN number[a] = top + 1 ELSE number[a] = 0
  /\ \A a \in Actors : pc[a] \in {"commit", "row"} => stream = a

RowHeld == \A a \in Actors : pc[a] \in {"claim", "settle"} => row = a /\ status = "running"

(***************************************************************************)
(* The cursor.  It is never ahead of the log; a message has no number      *)
(* before its commit; and what a drain has read has no gap: every message  *)
(* between the cursor and one it has read, it has read too.                *)
(***************************************************************************)
LogBounds ==
  /\ cursor <= top
  /\ \A u \in Users : seqOf[u] <= top
  /\ \A u \in Users : pc[u] \in {"new", "append", "commit"} => seqOf[u] = 0
  /\ \A u \in Users : seqOf[u] = 0 => drained[u] = {}

NoGap ==
  \A w \in Slots : pc[w] = "drain" =>
    \A x \in found[w] :
      /\ seqOf[x] > 0
      /\ \A u \in Users : cursor < seqOf[u] /\ seqOf[u] <= seqOf[x] => u \in found[w]

IInv == TypeOK /\ StreamHeld /\ RowHeld /\ LogBounds /\ NoGap /\ DrainedOnce

LEMMA ActorFacts ==
  /\ Users \subseteq Actors /\ Slots \subseteq Actors /\ Cancels \subseteq Actors
  /\ ById \subseteq Cancels /\ ByThread \subseteq Cancels
  /\ None \notin Actors /\ First \in Slots
BY SteeringAssumption DEF Actors, Cancels

LEMMA InitIInv ==
  ASSUME Init PROVE IInv
BY ActorFacts DEF Init, IInv, TypeOK, StreamHeld, RowHeld, LogBounds, NoGap, DrainedOnce

LEMMA TypePreserved ==
  ASSUME TypeOK, [Next]_vars PROVE TypeOK'
<1>1. CASE \E u \in Users : Submit(u)
  BY <1>1, ActorFacts DEF Submit, Goto, runVars, logVars, TypeOK
<1>2. CASE \E u \in Users : AppendSteering(u)
  BY <1>2, ActorFacts DEF AppendSteering, AppendEvent, Goto, runVars, logVars, StreamFree, TypeOK
<1>3. CASE \E u \in Users : CommitSteering(u)
  BY <1>3, ActorFacts DEF CommitSteering, PublishEvent, Highest, Goto, runVars, logVars, TypeOK
<1>4. CASE \E w \in Slots : TakeOver(w)
  BY <1>4, ActorFacts DEF TakeOver, Goto, runVars, logVars, TypeOK
<1>5. CASE \E w \in Slots : Resumed(w)
  BY <1>5, ActorFacts DEF Resumed, StreamFree, Goto, runVars, logVars, TypeOK
<1>6. CASE \E w \in Slots : Activity(w)
  BY <1>6, ActorFacts DEF Activity, AppendEvent, Goto, runVars, logVars, StreamFree, TypeOK
<1>7. CASE \E w \in Slots : Boundary(w)
  BY <1>7, ActorFacts DEF Boundary, PublishEvent, Highest, Goto, runVars, logVars, TypeOK
<1>8. CASE \E w \in Slots : ReadSteering(w)
  <2>1. Waiting \in SUBSET Users
    BY DEF Waiting
  <2>2. QED
    BY <1>8, <2>1, ActorFacts DEF ReadSteering, Goto, runVars, logVars, TypeOK
<1>9. CASE \E w \in Slots : TakeSteering(w)
  <2>1. PICK w \in Slots : TakeSteering(w)
    BY <1>9
  <2>2. StillWaiting(w) \in SUBSET Users
    BY DEF StillWaiting, TypeOK
  <2>3. cursor' \in Nat /\ drained' \in [Users -> SUBSET Slots]
    BY <2>1, <2>2 DEF TakeSteering, TypeOK
  <2>4. found' \in [Slots -> SUBSET Users]
    BY <2>1, <2>2 DEF TakeSteering, TypeOK
  <2>5. QED
    BY <2>1, <2>3, <2>4, ActorFacts DEF TakeSteering, Goto, logVars, TypeOK
<1>10. CASE \E w \in Slots : Announce(w)
  BY <1>10, ActorFacts DEF Announce, AppendEvent, Goto, runVars, logVars, StreamFree, TypeOK
<1>11. CASE \E w \in Slots : PrepareTerminal(w)
  BY <1>11, ActorFacts DEF PrepareTerminal, PublishEvent, Highest, Goto, runVars, logVars, TypeOK
<1>12. CASE \E w \in Slots : LockTerminal(w)
  BY <1>12, ActorFacts DEF LockTerminal, Goto, runVars, logVars, TypeOK
<1>13. CASE \E w \in Slots : Complete(w)
  BY <1>13, ActorFacts DEF Complete, SettleRow, Goto, runVars, logVars, StreamFree, TypeOK
<1>14. CASE \E w \in Slots : SlotDies(w)
  BY <1>14, ActorFacts DEF SlotDies, Abort, Goto, runVars, logVars, TypeOK
<1>15. CASE \E c \in Cancels : CancelRow(c)
  BY <1>15, ActorFacts DEF CancelRow, Goto, runVars, logVars, TypeOK
<1>16. CASE \E c \in Cancels : CancelEvent(c)
  BY <1>16, ActorFacts DEF CancelEvent, SettleRow, Goto, runVars, logVars, StreamFree, TypeOK
<1>17. CASE \E c \in Cancels : ThreadEvent(c)
  BY <1>17, ActorFacts DEF ThreadEvent, AppendEvent, Goto, runVars, logVars, StreamFree, TypeOK
<1>18. CASE \E c \in Cancels : ThreadRow(c)
  BY <1>18, ActorFacts DEF ThreadRow, PublishEvent, Highest, Goto, runVars, logVars, TypeOK
<1>19. CASE \E a \in Actors : DeadlockVictim(a)
  BY <1>19, ActorFacts DEF DeadlockVictim, Abort, Goto, runVars, logVars, TypeOK
<1>20. CASE UNCHANGED vars
  BY <1>20 DEF vars, TypeOK
<1>21. QED
  BY <1>1, <1>2, <1>3, <1>4, <1>5, <1>6, <1>7, <1>8, <1>9, <1>10,
     <1>11, <1>12, <1>13, <1>14, <1>15, <1>16, <1>17, <1>18, <1>19, <1>20 DEF Next, SlotStep

LEMMA StreamPreserved ==
  ASSUME TypeOK, StreamHeld, [Next]_vars PROVE StreamHeld'
<1>1. CASE \E u \in Users : Submit(u)
  BY <1>1, ActorFacts DEF Submit, Goto, runVars, logVars, TypeOK, StreamHeld
<1>2. CASE \E u \in Users : AppendSteering(u)
  BY <1>2, ActorFacts DEF AppendSteering, AppendEvent, Goto, runVars, logVars, StreamFree, TypeOK, StreamHeld
<1>3. CASE \E u \in Users : CommitSteering(u)
  BY <1>3, ActorFacts DEF CommitSteering, PublishEvent, Highest, Goto, runVars, logVars, TypeOK, StreamHeld
<1>4. CASE \E w \in Slots : TakeOver(w)
  BY <1>4, ActorFacts DEF TakeOver, Goto, runVars, logVars, TypeOK, StreamHeld
<1>5. CASE \E w \in Slots : Resumed(w)
  BY <1>5, ActorFacts DEF Resumed, StreamFree, Goto, runVars, logVars, TypeOK, StreamHeld
<1>6. CASE \E w \in Slots : Activity(w)
  BY <1>6, ActorFacts DEF Activity, AppendEvent, Goto, runVars, logVars, StreamFree, TypeOK, StreamHeld
<1>7. CASE \E w \in Slots : Boundary(w)
  BY <1>7, ActorFacts DEF Boundary, PublishEvent, Highest, Goto, runVars, logVars, TypeOK, StreamHeld
<1>8. CASE \E w \in Slots : ReadSteering(w)
  BY <1>8, ActorFacts DEF ReadSteering, Goto, runVars, logVars, TypeOK, StreamHeld
<1>9. CASE \E w \in Slots : TakeSteering(w)
  BY <1>9, ActorFacts DEF TakeSteering, Goto, runVars, logVars, TypeOK, StreamHeld
<1>10. CASE \E w \in Slots : Announce(w)
  BY <1>10, ActorFacts DEF Announce, AppendEvent, Goto, runVars, logVars, StreamFree, TypeOK, StreamHeld
<1>11. CASE \E w \in Slots : PrepareTerminal(w)
  BY <1>11, ActorFacts DEF PrepareTerminal, PublishEvent, Highest, Goto, runVars, logVars, TypeOK, StreamHeld
<1>12. CASE \E w \in Slots : LockTerminal(w)
  BY <1>12, ActorFacts DEF LockTerminal, Goto, runVars, logVars, TypeOK, StreamHeld
<1>13. CASE \E w \in Slots : Complete(w)
  BY <1>13, ActorFacts DEF Complete, SettleRow, Goto, runVars, logVars, StreamFree, TypeOK, StreamHeld
<1>14. CASE \E w \in Slots : SlotDies(w)
  BY <1>14, ActorFacts DEF SlotDies, Abort, Goto, runVars, logVars, TypeOK, StreamHeld
<1>15. CASE \E c \in Cancels : CancelRow(c)
  BY <1>15, ActorFacts DEF CancelRow, Goto, runVars, logVars, TypeOK, StreamHeld
<1>16. CASE \E c \in Cancels : CancelEvent(c)
  BY <1>16, ActorFacts DEF CancelEvent, SettleRow, Goto, runVars, logVars, StreamFree, TypeOK, StreamHeld
<1>17. CASE \E c \in Cancels : ThreadEvent(c)
  BY <1>17, ActorFacts DEF ThreadEvent, AppendEvent, Goto, runVars, logVars, StreamFree, TypeOK, StreamHeld
<1>18. CASE \E c \in Cancels : ThreadRow(c)
  BY <1>18, ActorFacts DEF ThreadRow, PublishEvent, Highest, Goto, runVars, logVars, TypeOK, StreamHeld
<1>19. CASE \E a \in Actors : DeadlockVictim(a)
  BY <1>19, ActorFacts DEF DeadlockVictim, Abort, Goto, runVars, logVars, TypeOK, StreamHeld
<1>20. CASE UNCHANGED vars
  BY <1>20 DEF vars, TypeOK, StreamHeld
<1>21. QED
  BY <1>1, <1>2, <1>3, <1>4, <1>5, <1>6, <1>7, <1>8, <1>9, <1>10,
     <1>11, <1>12, <1>13, <1>14, <1>15, <1>16, <1>17, <1>18, <1>19, <1>20 DEF Next, SlotStep

LEMMA RowPreserved ==
  ASSUME TypeOK, RowHeld, [Next]_vars PROVE RowHeld'
<1>1. CASE \E u \in Users : Submit(u)
  BY <1>1, ActorFacts DEF Submit, Goto, runVars, logVars, TypeOK, RowHeld
<1>2. CASE \E u \in Users : AppendSteering(u)
  BY <1>2, ActorFacts DEF AppendSteering, AppendEvent, Goto, runVars, logVars, StreamFree, TypeOK, RowHeld
<1>3. CASE \E u \in Users : CommitSteering(u)
  BY <1>3, ActorFacts DEF CommitSteering, PublishEvent, Highest, Goto, runVars, logVars, TypeOK, RowHeld
<1>4. CASE \E w \in Slots : TakeOver(w)
  BY <1>4, ActorFacts DEF TakeOver, Goto, runVars, logVars, TypeOK, RowHeld
<1>5. CASE \E w \in Slots : Resumed(w)
  BY <1>5, ActorFacts DEF Resumed, StreamFree, Goto, runVars, logVars, TypeOK, RowHeld
<1>6. CASE \E w \in Slots : Activity(w)
  BY <1>6, ActorFacts DEF Activity, AppendEvent, Goto, runVars, logVars, StreamFree, TypeOK, RowHeld
<1>7. CASE \E w \in Slots : Boundary(w)
  BY <1>7, ActorFacts DEF Boundary, PublishEvent, Highest, Goto, runVars, logVars, TypeOK, RowHeld
<1>8. CASE \E w \in Slots : ReadSteering(w)
  BY <1>8, ActorFacts DEF ReadSteering, Goto, runVars, logVars, TypeOK, RowHeld
<1>9. CASE \E w \in Slots : TakeSteering(w)
  BY <1>9, ActorFacts DEF TakeSteering, Goto, runVars, logVars, TypeOK, RowHeld
<1>10. CASE \E w \in Slots : Announce(w)
  BY <1>10, ActorFacts DEF Announce, AppendEvent, Goto, runVars, logVars, StreamFree, TypeOK, RowHeld
<1>11. CASE \E w \in Slots : PrepareTerminal(w)
  BY <1>11, ActorFacts DEF PrepareTerminal, PublishEvent, Highest, Goto, runVars, logVars, TypeOK, RowHeld
<1>12. CASE \E w \in Slots : LockTerminal(w)
  BY <1>12, ActorFacts DEF LockTerminal, Goto, runVars, logVars, TypeOK, RowHeld
<1>13. CASE \E w \in Slots : Complete(w)
  BY <1>13, ActorFacts DEF Complete, SettleRow, Goto, runVars, logVars, StreamFree, TypeOK, RowHeld
<1>14. CASE \E w \in Slots : SlotDies(w)
  BY <1>14, ActorFacts DEF SlotDies, Abort, Goto, runVars, logVars, TypeOK, RowHeld
<1>15. CASE \E c \in Cancels : CancelRow(c)
  BY <1>15, ActorFacts DEF CancelRow, Goto, runVars, logVars, TypeOK, RowHeld
<1>16. CASE \E c \in Cancels : CancelEvent(c)
  BY <1>16, ActorFacts DEF CancelEvent, SettleRow, Goto, runVars, logVars, StreamFree, TypeOK, RowHeld
<1>17. CASE \E c \in Cancels : ThreadEvent(c)
  BY <1>17, ActorFacts DEF ThreadEvent, AppendEvent, Goto, runVars, logVars, StreamFree, TypeOK, RowHeld
<1>18. CASE \E c \in Cancels : ThreadRow(c)
  BY <1>18, ActorFacts DEF ThreadRow, PublishEvent, Highest, Goto, runVars, logVars, TypeOK, RowHeld
<1>19. CASE \E a \in Actors : DeadlockVictim(a)
  BY <1>19, ActorFacts DEF DeadlockVictim, Abort, Goto, runVars, logVars, TypeOK, RowHeld
<1>20. CASE UNCHANGED vars
  BY <1>20 DEF vars, TypeOK, RowHeld
<1>21. QED
  BY <1>1, <1>2, <1>3, <1>4, <1>5, <1>6, <1>7, <1>8, <1>9, <1>10,
     <1>11, <1>12, <1>13, <1>14, <1>15, <1>16, <1>17, <1>18, <1>19, <1>20 DEF Next, SlotStep

LEMMA LogPreserved ==
  ASSUME TypeOK, StreamHeld, LogBounds, [Next]_vars PROVE LogBounds'
<1>1. CASE \E u \in Users : Submit(u)
  BY <1>1, ActorFacts DEF Submit, Goto, runVars, logVars, TypeOK, StreamHeld, LogBounds
<1>2. CASE \E u \in Users : AppendSteering(u)
  BY <1>2, ActorFacts DEF AppendSteering, AppendEvent, Goto, runVars, logVars, StreamFree, TypeOK, StreamHeld, LogBounds
<1>3. CASE \E u \in Users : CommitSteering(u)
  BY <1>3, ActorFacts DEF CommitSteering, PublishEvent, Highest, Goto, runVars, logVars, TypeOK, StreamHeld, LogBounds
<1>4. CASE \E w \in Slots : TakeOver(w)
  BY <1>4, ActorFacts DEF TakeOver, Goto, runVars, logVars, TypeOK, StreamHeld, LogBounds
<1>5. CASE \E w \in Slots : Resumed(w)
  BY <1>5, ActorFacts DEF Resumed, StreamFree, Goto, runVars, logVars, TypeOK, StreamHeld, LogBounds
<1>6. CASE \E w \in Slots : Activity(w)
  BY <1>6, ActorFacts DEF Activity, AppendEvent, Goto, runVars, logVars, StreamFree, TypeOK, StreamHeld, LogBounds
<1>7. CASE \E w \in Slots : Boundary(w)
  BY <1>7, ActorFacts DEF Boundary, PublishEvent, Highest, Goto, runVars, logVars, TypeOK, StreamHeld, LogBounds
<1>8. CASE \E w \in Slots : ReadSteering(w)
  BY <1>8, ActorFacts DEF ReadSteering, Goto, runVars, logVars, TypeOK, StreamHeld, LogBounds
<1>9. CASE \E w \in Slots : TakeSteering(w)
  <2>1. PICK w \in Slots : TakeSteering(w)
    BY <1>9
  <2>2. cursor' <= top
    BY <2>1 DEF TakeSteering, StillWaiting, TypeOK, LogBounds
  <2>3. \A u \in Users : seqOf[u] = 0 => drained'[u] = {}
    BY <2>1 DEF TakeSteering, StillWaiting, TypeOK, LogBounds
  <2>4. QED
    BY <2>1, <2>2, <2>3, ActorFacts DEF TakeSteering, Goto, logVars, TypeOK, LogBounds
<1>10. CASE \E w \in Slots : Announce(w)
  BY <1>10, ActorFacts DEF Announce, AppendEvent, Goto, runVars, logVars, StreamFree, TypeOK, StreamHeld, LogBounds
<1>11. CASE \E w \in Slots : PrepareTerminal(w)
  BY <1>11, ActorFacts DEF PrepareTerminal, PublishEvent, Highest, Goto, runVars, logVars, TypeOK, StreamHeld, LogBounds
<1>12. CASE \E w \in Slots : LockTerminal(w)
  BY <1>12, ActorFacts DEF LockTerminal, Goto, runVars, logVars, TypeOK, StreamHeld, LogBounds
<1>13. CASE \E w \in Slots : Complete(w)
  BY <1>13, ActorFacts DEF Complete, SettleRow, Goto, runVars, logVars, StreamFree, TypeOK, StreamHeld, LogBounds
<1>14. CASE \E w \in Slots : SlotDies(w)
  BY <1>14, ActorFacts DEF SlotDies, Abort, Goto, runVars, logVars, TypeOK, StreamHeld, LogBounds
<1>15. CASE \E c \in Cancels : CancelRow(c)
  BY <1>15, ActorFacts DEF CancelRow, Goto, runVars, logVars, TypeOK, StreamHeld, LogBounds
<1>16. CASE \E c \in Cancels : CancelEvent(c)
  BY <1>16, ActorFacts DEF CancelEvent, SettleRow, Goto, runVars, logVars, StreamFree, TypeOK, StreamHeld, LogBounds
<1>17. CASE \E c \in Cancels : ThreadEvent(c)
  BY <1>17, ActorFacts DEF ThreadEvent, AppendEvent, Goto, runVars, logVars, StreamFree, TypeOK, StreamHeld, LogBounds
<1>18. CASE \E c \in Cancels : ThreadRow(c)
  BY <1>18, ActorFacts DEF ThreadRow, PublishEvent, Highest, Goto, runVars, logVars, TypeOK, StreamHeld, LogBounds
<1>19. CASE \E a \in Actors : DeadlockVictim(a)
  BY <1>19, ActorFacts DEF DeadlockVictim, Abort, Goto, runVars, logVars, TypeOK, StreamHeld, LogBounds
<1>20. CASE UNCHANGED vars
  BY <1>20 DEF vars, TypeOK, StreamHeld, LogBounds
<1>21. QED
  BY <1>1, <1>2, <1>3, <1>4, <1>5, <1>6, <1>7, <1>8, <1>9, <1>10,
     <1>11, <1>12, <1>13, <1>14, <1>15, <1>16, <1>17, <1>18, <1>19, <1>20 DEF Next, SlotStep

LEMMA NoGapPreserved ==
  ASSUME TypeOK, StreamHeld, LogBounds, NoGap, [Next]_vars PROVE NoGap'
<1>1. CASE \E u \in Users : Submit(u)
  BY <1>1, ActorFacts DEF Submit, Goto, runVars, logVars, TypeOK, NoGap
<1>2. CASE \E u \in Users : AppendSteering(u)
  BY <1>2, ActorFacts DEF AppendSteering, AppendEvent, Goto, runVars, logVars, StreamFree, TypeOK, NoGap
<1>3. CASE \E u \in Users : CommitSteering(u)
  <2>1. PICK u \in Users : CommitSteering(u)
    BY <1>3
  <2>2. number[u] = top + 1 /\ seqOf[u] = 0
    BY <2>1, ActorFacts DEF CommitSteering, StreamHeld, LogBounds
  <2>3. seqOf' = [seqOf EXCEPT ![u] = top + 1]
    BY <2>1, <2>2 DEF CommitSteering
  <2>4. UNCHANGED <<cursor, found>> /\ \A w \in Slots : pc'[w] = "drain" => pc[w] = "drain"
    BY <2>1, ActorFacts DEF CommitSteering, Goto, runVars, TypeOK
  <2>5. QED
    BY <2>2, <2>3, <2>4 DEF TypeOK, NoGap, LogBounds
<1>4. CASE \E w \in Slots : TakeOver(w)
  BY <1>4, ActorFacts DEF TakeOver, Goto, runVars, logVars, TypeOK, NoGap
<1>5. CASE \E w \in Slots : Resumed(w)
  BY <1>5, ActorFacts DEF Resumed, StreamFree, Goto, runVars, logVars, TypeOK, NoGap
<1>6. CASE \E w \in Slots : Activity(w)
  BY <1>6, ActorFacts DEF Activity, AppendEvent, Goto, runVars, logVars, StreamFree, TypeOK, NoGap
<1>7. CASE \E w \in Slots : Boundary(w)
  BY <1>7, ActorFacts DEF Boundary, PublishEvent, Highest, Goto, runVars, logVars, TypeOK, NoGap
<1>8. CASE \E w \in Slots : ReadSteering(w)
  <2>1. PICK w \in Slots : ReadSteering(w)
    BY <1>8
  <2>2. \A v \in Slots \ {w} : pc'[v] = pc[v] /\ found'[v] = found[v]
    BY <2>1, ActorFacts DEF ReadSteering, Goto, TypeOK
  <2>3. found'[w] = {u \in Users : seqOf[u] > cursor}
    BY <2>1 DEF ReadSteering, Waiting, TypeOK
  <2>4. UNCHANGED <<cursor, seqOf>>
    BY <2>1 DEF ReadSteering, runVars, logVars
  <2>5. QED
    BY <2>2, <2>3, <2>4 DEF TypeOK, NoGap
<1>9. CASE \E w \in Slots : TakeSteering(w)
  <2>1. PICK w \in Slots : TakeSteering(w)
    BY <1>9
  <2>2. pc' = [pc EXCEPT ![w] = "run"] \/ pc' = [pc EXCEPT ![w] = "announce"]
    BY <2>1 DEF TakeSteering, Goto
  <2>3. \A v \in Slots \ {w} : pc'[v] = pc[v] /\ found'[v] = found[v]
    BY <2>1, <2>2, ActorFacts DEF TakeSteering, TypeOK
  <2>4. pc'[w] # "drain"
    BY <2>2, ActorFacts DEF TypeOK
  <2>5. cursor' \in Nat /\ cursor' >= cursor /\ seqOf' = seqOf
    BY <2>1 DEF TakeSteering, StillWaiting, TypeOK, logVars
  <2>6. QED
    BY <2>3, <2>4, <2>5 DEF TypeOK, NoGap
<1>10. CASE \E w \in Slots : Announce(w)
  BY <1>10, ActorFacts DEF Announce, AppendEvent, Goto, runVars, logVars, StreamFree, TypeOK, NoGap
<1>11. CASE \E w \in Slots : PrepareTerminal(w)
  BY <1>11, ActorFacts DEF PrepareTerminal, PublishEvent, Highest, Goto, runVars, logVars, TypeOK, NoGap
<1>12. CASE \E w \in Slots : LockTerminal(w)
  BY <1>12, ActorFacts DEF LockTerminal, Goto, runVars, logVars, TypeOK, NoGap
<1>13. CASE \E w \in Slots : Complete(w)
  BY <1>13, ActorFacts DEF Complete, SettleRow, Goto, runVars, logVars, StreamFree, TypeOK, NoGap
<1>14. CASE \E w \in Slots : SlotDies(w)
  BY <1>14, ActorFacts DEF SlotDies, Abort, Goto, runVars, logVars, TypeOK, NoGap
<1>15. CASE \E c \in Cancels : CancelRow(c)
  BY <1>15, ActorFacts DEF CancelRow, Goto, runVars, logVars, TypeOK, NoGap
<1>16. CASE \E c \in Cancels : CancelEvent(c)
  BY <1>16, ActorFacts DEF CancelEvent, SettleRow, Goto, runVars, logVars, StreamFree, TypeOK, NoGap
<1>17. CASE \E c \in Cancels : ThreadEvent(c)
  BY <1>17, ActorFacts DEF ThreadEvent, AppendEvent, Goto, runVars, logVars, StreamFree, TypeOK, NoGap
<1>18. CASE \E c \in Cancels : ThreadRow(c)
  BY <1>18, ActorFacts DEF ThreadRow, PublishEvent, Highest, Goto, runVars, logVars, TypeOK, NoGap
<1>19. CASE \E a \in Actors : DeadlockVictim(a)
  BY <1>19, ActorFacts DEF DeadlockVictim, Abort, Goto, runVars, logVars, TypeOK, NoGap
<1>20. CASE UNCHANGED vars
  BY <1>20 DEF vars, TypeOK, NoGap
<1>21. QED
  BY <1>1, <1>2, <1>3, <1>4, <1>5, <1>6, <1>7, <1>8, <1>9, <1>10,
     <1>11, <1>12, <1>13, <1>14, <1>15, <1>16, <1>17, <1>18, <1>19, <1>20 DEF Next, SlotStep

LEMMA OncePreserved ==
  ASSUME TypeOK, StreamHeld, LogBounds, NoGap, DrainedOnce, [Next]_vars PROVE DrainedOnce'
<1>1. CASE \E u \in Users : Submit(u)
  BY <1>1 DEF Submit, Goto, runVars, logVars, DrainedOnce
<1>2. CASE \E u \in Users : AppendSteering(u)
  BY <1>2 DEF AppendSteering, AppendEvent, Goto, runVars, logVars, StreamFree, DrainedOnce
<1>3. CASE \E u \in Users : CommitSteering(u)
  <2>1. PICK u \in Users : CommitSteering(u)
    BY <1>3
  <2>2. number[u] = top + 1 /\ seqOf[u] = 0 /\ drained[u] = {} /\ cursor <= top
    BY <2>1, ActorFacts DEF CommitSteering, StreamHeld, LogBounds
  <2>3. seqOf' = [seqOf EXCEPT ![u] = top + 1] /\ UNCHANGED <<cursor, drained>>
    BY <2>1, <2>2 DEF CommitSteering, runVars
  <2>4. QED
    BY <2>2, <2>3 DEF TypeOK, DrainedOnce
<1>4. CASE \E w \in Slots : TakeOver(w)
  BY <1>4 DEF TakeOver, Goto, runVars, logVars, DrainedOnce
<1>5. CASE \E w \in Slots : Resumed(w)
  BY <1>5 DEF Resumed, StreamFree, Goto, runVars, logVars, DrainedOnce
<1>6. CASE \E w \in Slots : Activity(w)
  BY <1>6 DEF Activity, AppendEvent, Goto, runVars, logVars, StreamFree, DrainedOnce
<1>7. CASE \E w \in Slots : Boundary(w)
  BY <1>7 DEF Boundary, PublishEvent, Highest, Goto, runVars, logVars, DrainedOnce
<1>8. CASE \E w \in Slots : ReadSteering(w)
  BY <1>8 DEF ReadSteering, Goto, runVars, logVars, DrainedOnce
<1>9. CASE \E w \in Slots : TakeSteering(w)
  <2>1. PICK w \in Slots : TakeSteering(w)
    BY <1>9
  <2>2. pc[w] = "drain" /\ seqOf' = seqOf
    BY <2>1 DEF TakeSteering, logVars
  <2>3. CASE StillWaiting(w) = {}
    BY <2>1, <2>2, <2>3 DEF TakeSteering, DrainedOnce
  <2>4. CASE StillWaiting(w) # {}
    <3>1. PICK last \in StillWaiting(w) :
            /\ \A u \in StillWaiting(w) : seqOf[u] <= seqOf[last]
            /\ cursor' = seqOf[last]
      BY <2>1, <2>4 DEF TakeSteering
    <3>2. drained' = [u \in Users |-> IF u \in StillWaiting(w) THEN drained[u] \cup {w}
                                                              ELSE drained[u]]
      BY <2>1, <2>4 DEF TakeSteering
    <3>3. last \in Users /\ last \in found[w] /\ seqOf[last] > cursor
      BY <3>1 DEF StillWaiting, TypeOK
    <3>4. ASSUME NEW u \in Users PROVE /\ \A v, x \in drained'[u] : v = x
                                       /\ seqOf[u] > 0 => (drained'[u] # {} <=> seqOf[u] <= cursor')
      <4>1. CASE u \in StillWaiting(w)
        <5>1. seqOf[u] > cursor
          BY <4>1 DEF StillWaiting
        <5>2. drained[u] = {}
          BY <5>1 DEF DrainedOnce, LogBounds, TypeOK
        <5>3. QED
          BY <3>1, <3>2, <4>1, <5>2
      <4>2. CASE u \notin StillWaiting(w)
        <5>1. drained'[u] = drained[u]
          BY <3>2, <4>2
        <5>2. seqOf[u] > cursor => u \notin found[w]
          BY <4>2 DEF StillWaiting
        <5>3. seqOf[u] > cursor => seqOf[u] > seqOf[last]
          BY <2>2, <3>3, <5>2 DEF NoGap, TypeOK
        <5>4. QED
          BY <3>1, <3>3, <5>1, <5>3 DEF DrainedOnce, TypeOK
      <4>3. QED
        BY <4>1, <4>2
    <3>5. QED
      BY <2>2, <3>4 DEF DrainedOnce
  <2>5. QED
    BY <2>3, <2>4
<1>10. CASE \E w \in Slots : Announce(w)
  BY <1>10 DEF Announce, AppendEvent, Goto, runVars, logVars, StreamFree, DrainedOnce
<1>11. CASE \E w \in Slots : PrepareTerminal(w)
  BY <1>11 DEF PrepareTerminal, PublishEvent, Highest, Goto, runVars, logVars, DrainedOnce
<1>12. CASE \E w \in Slots : LockTerminal(w)
  BY <1>12 DEF LockTerminal, Goto, runVars, logVars, DrainedOnce
<1>13. CASE \E w \in Slots : Complete(w)
  BY <1>13 DEF Complete, SettleRow, Goto, runVars, logVars, StreamFree, DrainedOnce
<1>14. CASE \E w \in Slots : SlotDies(w)
  BY <1>14 DEF SlotDies, Abort, Goto, runVars, logVars, DrainedOnce
<1>15. CASE \E c \in Cancels : CancelRow(c)
  BY <1>15 DEF CancelRow, Goto, runVars, logVars, DrainedOnce
<1>16. CASE \E c \in Cancels : CancelEvent(c)
  BY <1>16 DEF CancelEvent, SettleRow, Goto, runVars, logVars, StreamFree, DrainedOnce
<1>17. CASE \E c \in Cancels : ThreadEvent(c)
  BY <1>17 DEF ThreadEvent, AppendEvent, Goto, runVars, logVars, StreamFree, DrainedOnce
<1>18. CASE \E c \in Cancels : ThreadRow(c)
  BY <1>18 DEF ThreadRow, PublishEvent, Highest, Goto, runVars, logVars, DrainedOnce
<1>19. CASE \E a \in Actors : DeadlockVictim(a)
  BY <1>19 DEF DeadlockVictim, Abort, Goto, runVars, logVars, DrainedOnce
<1>20. CASE UNCHANGED vars
  BY <1>20 DEF vars, DrainedOnce
<1>21. QED
  BY <1>1, <1>2, <1>3, <1>4, <1>5, <1>6, <1>7, <1>8, <1>9, <1>10,
     <1>11, <1>12, <1>13, <1>14, <1>15, <1>16, <1>17, <1>18, <1>19, <1>20 DEF Next, SlotStep

\* The locks, the numbers and the drains in progress, taken together, are inductive.
THEOREM Invariance == Spec => []IInv
<1>1. IInv /\ [Next]_vars => IInv'
  BY TypePreserved, StreamPreserved, RowPreserved, LogPreserved, NoGapPreserved,
     OncePreserved DEF IInv
<1>2. QED
  BY InitIInv, <1>1, PTL DEF Spec

(***************************************************************************)
(* Every variable keeps its type.                                          *)
(***************************************************************************)
THEOREM TypeCorrect == Spec => []TypeOK
<1>1. IInv => TypeOK
  BY DEF IInv
<1>2. QED
  BY Invariance, <1>1, PTL

(***************************************************************************)
(* drain_steering brings every message back once: what the cursor passes   *)
(* has been brought back, by one attempt, whatever attempts overlap.       *)
(***************************************************************************)
THEOREM MessagesDrainedOnce == Spec => []DrainedOnce
<1>1. IInv => DrainedOnce
  BY DEF IInv
<1>2. QED
  BY Invariance, <1>1, PTL

(***************************************************************************)
(* What a step may do to the inbox: a request commits its message, a drain *)
(* takes messages, and every other step leaves numbers and drains alone.   *)
(***************************************************************************)
LEMMA InboxSteps ==
  ASSUME [Next]_vars
  PROVE  \/ \E u \in Users : CommitSteering(u)
         \/ \E w \in Slots : TakeSteering(w)
         \/ UNCHANGED <<seqOf, drained>>
<1>1. CASE \E u \in Users : Submit(u) \/ AppendSteering(u)
  BY <1>1 DEF Submit, AppendSteering, logVars
<1>2. CASE \E w \in Slots : TakeOver(w) \/ Resumed(w) \/ Activity(w) \/ Boundary(w)
  BY <1>2 DEF TakeOver, Resumed, Activity, Boundary, logVars
<1>3. CASE \E w \in Slots : ReadSteering(w) \/ Announce(w) \/ PrepareTerminal(w)
  BY <1>3 DEF ReadSteering, Announce, PrepareTerminal, logVars
<1>4. CASE \E w \in Slots : LockTerminal(w) \/ Complete(w) \/ SlotDies(w)
  BY <1>4 DEF LockTerminal, Complete, SettleRow, SlotDies, Abort, logVars
<1>5. CASE \E c \in Cancels : CancelRow(c) \/ CancelEvent(c) \/ ThreadEvent(c) \/ ThreadRow(c)
  BY <1>5 DEF CancelRow, CancelEvent, SettleRow, ThreadEvent, ThreadRow, logVars
<1>6. CASE \E a \in Actors : DeadlockVictim(a)
  BY <1>6 DEF DeadlockVictim, Abort
<1>7. CASE UNCHANGED vars
  BY <1>7 DEF vars
<1>8. QED
  BY <1>1, <1>2, <1>3, <1>4, <1>5, <1>6, <1>7 DEF Next, SlotStep

(***************************************************************************)
(* A request that commits holds the stream: its message is new and is      *)
(* numbered behind everything that has been committed.                     *)
(***************************************************************************)
LEMMA CommitNumbers ==
  ASSUME IInv, NEW u \in Users, CommitSteering(u)
  PROVE  /\ seqOf[u] = 0
         /\ seqOf' = [seqOf EXCEPT ![u] = top + 1]
         /\ drained' = drained
<1>1. u \in Actors
  BY ActorFacts
<1>2. number[u] = top + 1 /\ seqOf[u] = 0
  BY <1>1 DEF CommitSteering, IInv, StreamHeld, LogBounds
<1>3. QED
  BY <1>2 DEF CommitSteering

(***************************************************************************)
(* The advisory lock makes the order of sequence numbers the order of the  *)
(* commits: no message appears behind a cursor.                            *)
(***************************************************************************)
LEMMA NumberedInOrder ==
  ASSUME IInv, [Next]_vars
  PROVE  \A u \in Users : seqOf'[u] # seqOf[u] => seqOf'[u] > top
<1>1. CASE \E u \in Users : CommitSteering(u)
  BY <1>1, CommitNumbers DEF IInv, TypeOK
<1>2. CASE \E w \in Slots : TakeSteering(w)
  BY <1>2 DEF TakeSteering, logVars
<1>3. CASE UNCHANGED <<seqOf, drained>>
  BY <1>3
<1>4. QED
  BY <1>1, <1>2, <1>3, InboxSteps

THEOREM NumbersFollowCommits == Spec => CommitsInOrder
<1>1. IInv /\ [Next]_vars => [\A u \in Users : seqOf'[u] # seqOf[u] => seqOf'[u] > top]_vars
  BY NumberedInOrder
<1>2. QED
  BY Invariance, <1>1, PTL DEF Spec, CommitsInOrder

(***************************************************************************)
(* A drain takes a batch from the front: what it has read and the cursor   *)
(* has not passed is untaken, and an untaken message before one of them is *)
(* one of them.                                                            *)
(***************************************************************************)
LEMMA DrainsFromFront ==
  ASSUME IInv, NEW w \in Slots, pc[w] = "drain", NEW m \in StillWaiting(w)
  PROVE  /\ m \in Users /\ seqOf[m] > 0 /\ drained[m] = {}
         /\ \A k \in Users : 0 < seqOf[k] /\ seqOf[k] < seqOf[m] /\ drained[k] = {}
                              => k \in StillWaiting(w)
<1>1. m \in Users /\ m \in found[w] /\ seqOf[m] > cursor
  BY DEF StillWaiting, IInv, TypeOK
<1>2. seqOf \in [Users -> Nat] /\ cursor \in Nat
  BY DEF IInv, TypeOK
<1>3. seqOf[m] > 0 /\ drained[m] = {}
  BY <1>1, <1>2 DEF IInv, DrainedOnce
<1>4. ASSUME NEW k \in Users, 0 < seqOf[k], seqOf[k] < seqOf[m], drained[k] = {}
      PROVE  k \in StillWaiting(w)
  <2>1. cursor < seqOf[k]
    BY <1>2, <1>4 DEF IInv, DrainedOnce
  <2>2. k \in found[w]
    BY <1>1, <1>2, <1>4, <2>1 DEF IInv, NoGap
  <2>3. QED
    BY <1>2, <2>1, <2>2 DEF StillWaiting
<1>5. QED
  BY <1>1, <1>3, <1>4

LEMMA CommitSends ==
  ASSUME IInv, NEW u \in Users, CommitSteering(u)
  PROVE  Inbox!Send(u)
<1> DEFINE sent == {v \in Users : seqOf[v] > 0}
           pairs == {p \in Users \X Users : 0 < seqOf[p[1]] /\ seqOf[p[1]] < seqOf[p[2]]}
<1>1. /\ seqOf \in [Users -> Nat] /\ top \in Nat
      /\ \A v \in Users : seqOf[v] <= top
  BY DEF IInv, TypeOK, LogBounds
<1>2. /\ seqOf[u] = 0
      /\ seqOf' = [seqOf EXCEPT ![u] = top + 1]
      /\ drained' = drained
  BY CommitNumbers
<1>3. u \notin sent /\ sent' = sent \cup {u}
  BY <1>1, <1>2
<1>4. ASSUME NEW v \in Users, NEW x \in Users
      PROVE  0 < seqOf'[v] /\ seqOf'[v] < seqOf'[x]
             <=> (0 < seqOf[v] /\ seqOf[v] < seqOf[x]) \/ (v \in sent /\ x = u)
  BY <1>1, <1>2
<1>5. pairs' = pairs \cup (sent \X {u})
  BY <1>4
<1>6. QED
  BY <1>2, <1>3, <1>5 DEF Inbox!Send

LEMMA DrainTakes ==
  ASSUME IInv, NEW w \in Slots, TakeSteering(w), StillWaiting(w) # {}
  PROVE  Inbox!Take(w, StillWaiting(w))
<1> DEFINE batch == StillWaiting(w)
<1>1. pc[w] = "drain" /\ seqOf' = seqOf
  BY DEF TakeSteering, logVars
<1>2. drained' = [u \in Users |-> IF u \in batch THEN drained[u] \cup {w} ELSE drained[u]]
  BY DEF TakeSteering
<1>3. \A m \in batch : m \in Users /\ seqOf[m] > 0 /\ drained[m] = {}
  BY <1>1, DrainsFromFront
<1>4. drained' = [m \in Users |-> IF m \in batch THEN {w} ELSE drained[m]]
  BY <1>2, <1>3
<1>5. \A m \in batch, k \in {u \in Users : seqOf[u] > 0} :
        <<k, m>> \in {p \in Users \X Users : 0 < seqOf[p[1]] /\ seqOf[p[1]] < seqOf[p[2]]}
        /\ drained[k] = {} => k \in batch
  BY <1>1, DrainsFromFront
<1>6. QED
  BY <1>1, <1>3, <1>4, <1>5 DEF Inbox!Take

(***************************************************************************)
(* The steering of a run is an inbox in order of acceptance, from which    *)
(* every message is taken once, for any number of users and of overlapping *)
(* attempts.                                                               *)
(***************************************************************************)
THEOREM SteeringIsAnInbox == Spec => ImplementsInbox
<1>1. Init => Inbox!Init
  BY DEF Init, Inbox!Init
<1>2. IInv /\ [Next]_vars => [Inbox!Next]_Inbox!vars
  <2> SUFFICES ASSUME IInv, [Next]_vars PROVE [Inbox!Next]_Inbox!vars
    OBVIOUS
  <2>1. CASE \E u \in Users : CommitSteering(u)
    BY <2>1, CommitSends DEF Inbox!Next
  <2>2. CASE \E w \in Slots : TakeSteering(w)
    <3>1. PICK w \in Slots : TakeSteering(w)
      BY <2>2
    <3>2. CASE StillWaiting(w) = {}
      BY <3>1, <3>2 DEF TakeSteering, logVars, Inbox!vars
    <3>3. CASE StillWaiting(w) # {}
      <4>1. StillWaiting(w) \in SUBSET Users
        BY DEF StillWaiting, IInv, TypeOK
      <4>2. QED
        BY <3>1, <3>3, <4>1, DrainTakes DEF Inbox!Next
    <3>4. QED
      BY <3>2, <3>3
  <2>3. CASE UNCHANGED <<seqOf, drained>>
    BY <2>3 DEF Inbox!vars
  <2>4. QED
    BY <2>1, <2>2, <2>3, InboxSteps
<1>3. QED
  BY Invariance, <1>1, <1>2, PTL DEF Spec, ImplementsInbox, Inbox!Spec

(***************************************************************************)
(* Completion, cancellation by id and cancellation by thread wait for the  *)
(* same row, in two lock orders; the first to commit decides.              *)
(***************************************************************************)
LEMMA FirstOutcome ==
  ASSUME IInv, [Next]_vars, status # "running"
  PROVE  status' = status /\ cursor' >= cursor
<1>1. CASE \E u \in Users : Submit(u)
  BY <1>1, ActorFacts DEF Submit, Goto, runVars, logVars, IInv, TypeOK, RowHeld
<1>2. CASE \E u \in Users : AppendSteering(u)
  BY <1>2, ActorFacts DEF AppendSteering, AppendEvent, Goto, runVars, logVars, StreamFree, IInv, TypeOK, RowHeld
<1>3. CASE \E u \in Users : CommitSteering(u)
  BY <1>3, ActorFacts DEF CommitSteering, PublishEvent, Highest, Goto, runVars, logVars, IInv, TypeOK, RowHeld
<1>4. CASE \E w \in Slots : TakeOver(w)
  BY <1>4, ActorFacts DEF TakeOver, Goto, runVars, logVars, IInv, TypeOK, RowHeld
<1>5. CASE \E w \in Slots : Resumed(w)
  BY <1>5, ActorFacts DEF Resumed, StreamFree, Goto, runVars, logVars, IInv, TypeOK, RowHeld
<1>6. CASE \E w \in Slots : Activity(w)
  BY <1>6, ActorFacts DEF Activity, AppendEvent, Goto, runVars, logVars, StreamFree, IInv, TypeOK, RowHeld
<1>7. CASE \E w \in Slots : Boundary(w)
  BY <1>7, ActorFacts DEF Boundary, PublishEvent, Highest, Goto, runVars, logVars, IInv, TypeOK, RowHeld
<1>8. CASE \E w \in Slots : ReadSteering(w)
  BY <1>8, ActorFacts DEF ReadSteering, Goto, runVars, logVars, IInv, TypeOK, RowHeld
<1>9. CASE \E w \in Slots : TakeSteering(w)
  <2>1. PICK w \in Slots : TakeSteering(w)
    BY <1>9
  <2>2. cursor' \in Nat /\ cursor' >= cursor
    BY <2>1 DEF TakeSteering, StillWaiting, IInv, TypeOK
  <2>3. QED
    BY <2>1, <2>2 DEF TakeSteering
<1>10. CASE \E w \in Slots : Announce(w)
  BY <1>10, ActorFacts DEF Announce, AppendEvent, Goto, runVars, logVars, StreamFree, IInv, TypeOK, RowHeld
<1>11. CASE \E w \in Slots : PrepareTerminal(w)
  BY <1>11, ActorFacts DEF PrepareTerminal, PublishEvent, Highest, Goto, runVars, logVars, IInv, TypeOK, RowHeld
<1>12. CASE \E w \in Slots : LockTerminal(w)
  BY <1>12, ActorFacts DEF LockTerminal, Goto, runVars, logVars, IInv, TypeOK, RowHeld
<1>13. CASE \E w \in Slots : Complete(w)
  BY <1>13, ActorFacts DEF Complete, SettleRow, Goto, runVars, logVars, StreamFree, IInv, TypeOK, RowHeld
<1>14. CASE \E w \in Slots : SlotDies(w)
  BY <1>14, ActorFacts DEF SlotDies, Abort, Goto, runVars, logVars, IInv, TypeOK, RowHeld
<1>15. CASE \E c \in Cancels : CancelRow(c)
  BY <1>15, ActorFacts DEF CancelRow, Goto, runVars, logVars, IInv, TypeOK, RowHeld
<1>16. CASE \E c \in Cancels : CancelEvent(c)
  BY <1>16, ActorFacts DEF CancelEvent, SettleRow, Goto, runVars, logVars, StreamFree, IInv, TypeOK, RowHeld
<1>17. CASE \E c \in Cancels : ThreadEvent(c)
  BY <1>17, ActorFacts DEF ThreadEvent, AppendEvent, Goto, runVars, logVars, StreamFree, IInv, TypeOK, RowHeld
<1>18. CASE \E c \in Cancels : ThreadRow(c)
  BY <1>18, ActorFacts DEF ThreadRow, PublishEvent, Highest, Goto, runVars, logVars, IInv, TypeOK, RowHeld
<1>19. CASE \E a \in Actors : DeadlockVictim(a)
  BY <1>19, ActorFacts DEF DeadlockVictim, Abort, Goto, runVars, logVars, IInv, TypeOK, RowHeld
<1>20. CASE UNCHANGED vars
  BY <1>20 DEF vars, IInv, TypeOK, RowHeld
<1>21. QED
  BY <1>1, <1>2, <1>3, <1>4, <1>5, <1>6, <1>7, <1>8, <1>9, <1>10,
     <1>11, <1>12, <1>13, <1>14, <1>15, <1>16, <1>17, <1>18, <1>19, <1>20 DEF Next, SlotStep

THEOREM OutcomeIsFinal == Spec => OutcomeStays
<1>1. IInv /\ [Next]_vars =>
        [status # "running" => status' = status /\ cursor' >= cursor]_vars
  BY FirstOutcome
<1>2. QED
  BY Invariance, <1>1, PTL DEF Spec, OutcomeStays

(***************************************************************************)
(* The steered run lives as AgentRun says, once it has been admitted.      *)
(***************************************************************************)
Life == INSTANCE RunLife WITH
  Runs <- {"run"},
  Endings <- {"completed", "canceled"},
  life <- [r \in {"run"} |-> IF status = "running" THEN "open" ELSE status]

(***************************************************************************)
(* Two lock orders and a victim of the database between them settle the    *)
(* run at most once.                                                       *)
(***************************************************************************)
THEOREM SteeredRunLives == Spec => Life!Spec
<1> DEFINE lives == [r \in {"run"} |-> IF status = "running" THEN "open" ELSE status]
<1>1. Init => Life!Init
  BY DEF Init, Life!Init
<1>2. IInv /\ [Next]_vars => [Life!Next]_lives
  <2> SUFFICES ASSUME IInv, [Next]_vars, lives' # lives PROVE Life!Next
    OBVIOUS
  <2>1. status = "running" /\ status' # "running"
    BY FirstOutcome
  <2>2. status' \in {"completed", "canceled"}
    BY <2>1, TypePreserved DEF IInv, TypeOK
  <2>3. Life!Settle("run")
    BY <2>1, <2>2 DEF Life!Settle
  <2>4. QED
    BY <2>3 DEF Life!Next
<1>3. QED
  BY <1>1, <1>2, Invariance, PTL DEF Spec, Life!Spec

-----------------------------------------------------------------------------
(***************************************************************************)
(* The two locks.  Who holds the stream is about to commit, or is an       *)
(* attempt between two boundaries, or a cancellation of the thread that    *)
(* wants the row; who holds the row wants the stream.                      *)
(***************************************************************************)
StreamHolder ==
  \A a \in Actors : stream = a =>
    \/ a \in Users /\ pc[a] = "commit"
    \/ a \in Slots /\ pc[a] \in {"run", "drain", "announce"}
    \/ a \in ByThread /\ pc[a] = "row"

RowHolder == \A a \in Actors : row = a => pc[a] \in {"claim", "settle"}

\* The actors that cannot go on without a lock that another has.
WantsStream(a) ==
  /\ pc[a] \in {"append", "claim", "announce", "settle"} \/ (a \in ByThread /\ pc[a] = "new")
  /\ stream \notin {None, a}

WantsRow(a) ==
  /\ pc[a] \in {"drain", "close", "row"} \/ (a \in Slots \cup ById /\ pc[a] = "new")
  /\ row \notin {None, a}

LEMMA StreamHolderKept ==
  ASSUME TypeOK, RowHeld, StreamHolder, [Next]_vars
  PROVE  StreamHolder'
<1> USE ActorFacts, SteeringAssumption DEF Cancels
<1>1. CASE \E u \in Users : Submit(u)
  BY <1>1 DEF Submit, Goto, runVars, logVars, StreamFree, TypeOK, RowHeld, StreamHolder
<1>2. CASE \E u \in Users : AppendSteering(u)
  BY <1>2 DEF AppendSteering, AppendEvent, Goto, runVars, logVars, StreamFree, TypeOK, RowHeld, StreamHolder
<1>3. CASE \E u \in Users : CommitSteering(u)
  BY <1>3 DEF CommitSteering, PublishEvent, Goto, runVars, logVars, StreamFree, TypeOK, RowHeld, StreamHolder
<1>4. CASE \E w \in Slots : TakeOver(w)
  BY <1>4 DEF TakeOver, Goto, runVars, logVars, StreamFree, TypeOK, RowHeld, StreamHolder
<1>5. CASE \E w \in Slots : Resumed(w)
  BY <1>5 DEF Resumed, Goto, runVars, logVars, StreamFree, TypeOK, RowHeld, StreamHolder
<1>6. CASE \E w \in Slots : Activity(w)
  BY <1>6 DEF Activity, AppendEvent, Goto, runVars, logVars, StreamFree, TypeOK, RowHeld, StreamHolder
<1>7. CASE \E w \in Slots : Boundary(w)
  BY <1>7 DEF Boundary, PublishEvent, Goto, runVars, logVars, StreamFree, TypeOK, RowHeld, StreamHolder
<1>8. CASE \E w \in Slots : ReadSteering(w)
  BY <1>8 DEF ReadSteering, Goto, runVars, logVars, StreamFree, TypeOK, RowHeld, StreamHolder
<1>9. CASE \E w \in Slots : TakeSteering(w)
  BY <1>9 DEF TakeSteering, Goto, runVars, logVars, StreamFree, TypeOK, RowHeld, StreamHolder
<1>10. CASE \E w \in Slots : Announce(w)
  BY <1>10 DEF Announce, AppendEvent, Goto, runVars, logVars, StreamFree, TypeOK, RowHeld, StreamHolder
<1>11. CASE \E w \in Slots : PrepareTerminal(w)
  BY <1>11 DEF PrepareTerminal, PublishEvent, Goto, runVars, logVars, StreamFree, TypeOK, RowHeld, StreamHolder
<1>12. CASE \E w \in Slots : LockTerminal(w)
  BY <1>12 DEF LockTerminal, Goto, runVars, logVars, StreamFree, TypeOK, RowHeld, StreamHolder
<1>13. CASE \E w \in Slots : Complete(w)
  BY <1>13 DEF Complete, SettleRow, Goto, runVars, logVars, StreamFree, TypeOK, RowHeld, StreamHolder
<1>14. CASE \E w \in Slots : SlotDies(w)
  BY <1>14 DEF SlotDies, Abort, Goto, runVars, logVars, StreamFree, TypeOK, RowHeld, StreamHolder
<1>15. CASE \E c \in Cancels : CancelRow(c)
  BY <1>15 DEF CancelRow, Goto, runVars, logVars, StreamFree, TypeOK, RowHeld, StreamHolder
<1>16. CASE \E c \in Cancels : CancelEvent(c)
  BY <1>16 DEF CancelEvent, SettleRow, Goto, runVars, logVars, StreamFree, TypeOK, RowHeld, StreamHolder
<1>17. CASE \E c \in Cancels : ThreadEvent(c)
  BY <1>17 DEF ThreadEvent, AppendEvent, Goto, runVars, logVars, StreamFree, TypeOK, RowHeld, StreamHolder
<1>18. CASE \E c \in Cancels : ThreadRow(c)
  BY <1>18 DEF ThreadRow, PublishEvent, Goto, runVars, logVars, StreamFree, TypeOK, RowHeld, StreamHolder
<1>19. CASE \E a \in Actors : DeadlockVictim(a)
  BY <1>19 DEF DeadlockVictim, Abort, Goto, runVars, logVars, StreamFree, TypeOK, RowHeld, StreamHolder
<1>20. CASE UNCHANGED vars
  BY <1>20 DEF vars, StreamHolder
<1>21. QED
  BY <1>1, <1>2, <1>3, <1>4, <1>5, <1>6, <1>7, <1>8, <1>9, <1>10,
     <1>11, <1>12, <1>13, <1>14, <1>15, <1>16, <1>17, <1>18, <1>19, <1>20 DEF Next, SlotStep

LEMMA RowHolderKept ==
  ASSUME TypeOK, RowHeld, RowHolder, [Next]_vars
  PROVE  RowHolder'
<1> USE ActorFacts, SteeringAssumption DEF Cancels
<1>1. CASE \E u \in Users : Submit(u)
  BY <1>1 DEF Submit, Goto, runVars, logVars, StreamFree, TypeOK, RowHeld, RowHolder
<1>2. CASE \E u \in Users : AppendSteering(u)
  BY <1>2 DEF AppendSteering, AppendEvent, Goto, runVars, logVars, StreamFree, TypeOK, RowHeld, RowHolder
<1>3. CASE \E u \in Users : CommitSteering(u)
  BY <1>3 DEF CommitSteering, PublishEvent, Goto, runVars, logVars, StreamFree, TypeOK, RowHeld, RowHolder
<1>4. CASE \E w \in Slots : TakeOver(w)
  BY <1>4 DEF TakeOver, Goto, runVars, logVars, StreamFree, TypeOK, RowHeld, RowHolder
<1>5. CASE \E w \in Slots : Resumed(w)
  BY <1>5 DEF Resumed, Goto, runVars, logVars, StreamFree, TypeOK, RowHeld, RowHolder
<1>6. CASE \E w \in Slots : Activity(w)
  BY <1>6 DEF Activity, AppendEvent, Goto, runVars, logVars, StreamFree, TypeOK, RowHeld, RowHolder
<1>7. CASE \E w \in Slots : Boundary(w)
  BY <1>7 DEF Boundary, PublishEvent, Goto, runVars, logVars, StreamFree, TypeOK, RowHeld, RowHolder
<1>8. CASE \E w \in Slots : ReadSteering(w)
  BY <1>8 DEF ReadSteering, Goto, runVars, logVars, StreamFree, TypeOK, RowHeld, RowHolder
<1>9. CASE \E w \in Slots : TakeSteering(w)
  BY <1>9 DEF TakeSteering, Goto, runVars, logVars, StreamFree, TypeOK, RowHeld, RowHolder
<1>10. CASE \E w \in Slots : Announce(w)
  BY <1>10 DEF Announce, AppendEvent, Goto, runVars, logVars, StreamFree, TypeOK, RowHeld, RowHolder
<1>11. CASE \E w \in Slots : PrepareTerminal(w)
  BY <1>11 DEF PrepareTerminal, PublishEvent, Goto, runVars, logVars, StreamFree, TypeOK, RowHeld, RowHolder
<1>12. CASE \E w \in Slots : LockTerminal(w)
  BY <1>12 DEF LockTerminal, Goto, runVars, logVars, StreamFree, TypeOK, RowHeld, RowHolder
<1>13. CASE \E w \in Slots : Complete(w)
  BY <1>13 DEF Complete, SettleRow, Goto, runVars, logVars, StreamFree, TypeOK, RowHeld, RowHolder
<1>14. CASE \E w \in Slots : SlotDies(w)
  BY <1>14 DEF SlotDies, Abort, Goto, runVars, logVars, StreamFree, TypeOK, RowHeld, RowHolder
<1>15. CASE \E c \in Cancels : CancelRow(c)
  BY <1>15 DEF CancelRow, Goto, runVars, logVars, StreamFree, TypeOK, RowHeld, RowHolder
<1>16. CASE \E c \in Cancels : CancelEvent(c)
  BY <1>16 DEF CancelEvent, SettleRow, Goto, runVars, logVars, StreamFree, TypeOK, RowHeld, RowHolder
<1>17. CASE \E c \in Cancels : ThreadEvent(c)
  BY <1>17 DEF ThreadEvent, AppendEvent, Goto, runVars, logVars, StreamFree, TypeOK, RowHeld, RowHolder
<1>18. CASE \E c \in Cancels : ThreadRow(c)
  BY <1>18 DEF ThreadRow, PublishEvent, Goto, runVars, logVars, StreamFree, TypeOK, RowHeld, RowHolder
<1>19. CASE \E a \in Actors : DeadlockVictim(a)
  BY <1>19 DEF DeadlockVictim, Abort, Goto, runVars, logVars, StreamFree, TypeOK, RowHeld, RowHolder
<1>20. CASE UNCHANGED vars
  BY <1>20 DEF vars, RowHolder
<1>21. QED
  BY <1>1, <1>2, <1>3, <1>4, <1>5, <1>6, <1>7, <1>8, <1>9, <1>10,
     <1>11, <1>12, <1>13, <1>14, <1>15, <1>16, <1>17, <1>18, <1>19, <1>20 DEF Next, SlotStep

(* Two actors that wait for each other are in a cycle that the database     *)
(* breaks, or they are an attempt that drains between two boundaries and    *)
(* someone who is settling or claiming its run: there is no other deadlock. *)
THEOREM CyclesAreKnown ==
  Spec => [](\A a, b \in Actors :
               row = a /\ WantsStream(a) /\ stream = b /\ WantsRow(b) =>
                 Deadlocked(a, b) \/ Hung)
<1> DEFINE Known == \A a, b \in Actors :
                      row = a /\ WantsStream(a) /\ stream = b /\ WantsRow(b) =>
                        Deadlocked(a, b) \/ Hung
<1>1. Init => StreamHolder /\ RowHolder
  BY ActorFacts DEF Init, StreamHolder, RowHolder
<1>2. IInv /\ StreamHolder /\ RowHolder /\ [Next]_vars => (StreamHolder /\ RowHolder)'
  BY StreamHolderKept, RowHolderKept DEF IInv
<1>3. StreamHolder /\ RowHolder => Known
  BY SteeringAssumption DEF StreamHolder, RowHolder, WantsRow, WantsStream, Deadlocked, Hung, Cancels
<1> HIDE DEF Known
<1>4. Spec => []Known
  BY <1>1, <1>2, <1>3, Invariance, PTL DEF Spec
<1>5. QED
  BY <1>4 DEF Known
=============================================================================
