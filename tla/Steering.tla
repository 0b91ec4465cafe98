------------------------------ MODULE Steering -------------------------------
(***************************************************************************)
(* The event stream of one agent run, the steering messages users put in   *)
(* it, and the cursor by which the run's attempts take them out:           *)
(* systems/runs/store.py (append_event, append_steering, drain_steering,   *)
(* commit_event_boundary and the locks), engine.py, cancel.py, and the     *)
(* steer and cancel routes.                                                *)
(*                                                                         *)
(* Two locks matter.  Writers of events take the advisory lock of the      *)
(* stream, read the highest sequence number and hold the lock until they   *)
(* commit; writers of the run take its row FOR NO KEY UPDATE, which the    *)
(* KEY SHARE of event writers does not conflict with.  An attempt has two  *)
(* sessions: events are appended in the one it keeps open between tool     *)
(* calls, steering is drained in another.                                  *)
(***************************************************************************)
EXTENDS Naturals

CONSTANTS
  Users,     \* each submits one steering message, named after it
  Slots,     \* attempts that execute the run, one after another or overlapping
  First,     \* the attempt that is executing at the start
  ById,      \* cancellations of the run (_cancel_run_with_event)
  ByThread,  \* cancellations of its thread (async_cancel_open_runs_for_thread)
  None,      \* no attempt, no lock holder
  MaxTop     \* bound: an attempt opens no new event transaction beyond it

Cancels == ById \cup ByThread
Actors == Users \cup Slots \cup Cancels

ASSUME SteeringAssumption ==
  /\ First \in Slots
  /\ None \notin Actors
  /\ Users \cap Slots = {}
  /\ Users \cap Cancels = {}
  /\ Slots \cap Cancels = {}
  /\ ById \cap ByThread = {}
  /\ MaxTop \in Nat

VARIABLES
  status,  \* of the run: "running" or how it ended
  current, \* the attempt that holds the execution claim
  seqOf,   \* message -> its committed sequence number, 0 before
  top,     \* the highest committed sequence number
  cursor,  \* steering_cursor in the run's metadata
  stream,  \* holder of the advisory lock
  row,     \* holder of the row lock
  number,  \* actor -> the sequence number of its uncommitted event
  pc,      \* actor -> where it is
  found,   \* attempt -> messages its drain has read, or brought back
  drained  \* history: message -> the attempts whose drain brought it back

vars == <<status, current, seqOf, top, cursor, stream, row, number, pc, found,
          drained>>
runVars == <<status, current, cursor, row>>
logVars == <<seqOf, top, stream, number>>

Init ==
  /\ status = "running"
  /\ current = First
  /\ seqOf = [u \in Users |-> 0]
  /\ top = 0
  /\ cursor = 0
  /\ stream = None
  /\ row = None
  /\ number = [a \in Actors |-> 0]
  /\ pc = [a \in Actors |-> IF a = First THEN "run" ELSE "new"]
  /\ found = [w \in Slots |-> {}]
  /\ drained = [u \in Users |-> {}]

Goto(a, place) == pc' = [pc EXCEPT ![a] = place]

-----------------------------------------------------------------------------
(* The stream *)

(* append_event: the lock, and the next number under it. *)
\* Mutant of StreamFree: no advisory lock.
StreamUnlocked == TRUE

StreamFree == stream = None

AppendEvent(a) ==
  /\ StreamFree
  /\ stream' = a
  /\ number' = [number EXCEPT ![a] = top + 1]

(* The transaction of the event commits. *)
Highest(n) == IF n > top THEN n ELSE top

\* Mutant of PublishEvent: a lock of the session, not of the transaction.
PublishEventKeepsLock(a) ==
  /\ top' = Highest(number[a])
  /\ number' = [number EXCEPT ![a] = 0]
  /\ stream' = stream

PublishEvent(a) ==
  /\ top' = Highest(number[a])
  /\ number' = [number EXCEPT ![a] = 0]
  /\ stream' = IF stream = a THEN None ELSE stream

-----------------------------------------------------------------------------
(* steer_run: the status is looked at once, without a lock. *)
Submit(u) ==
  /\ pc[u] = "new"
  /\ Goto(u, IF status = "running" THEN "append" ELSE "done")
  /\ UNCHANGED <<runVars, logVars, found, drained>>

AppendSteering(u) ==
  /\ pc[u] = "append"
  /\ AppendEvent(u)
  /\ Goto(u, "commit")
  /\ UNCHANGED <<runVars, seqOf, top, found, drained>>

CommitSteering(u) ==
  /\ pc[u] = "commit"
  /\ PublishEvent(u)
  /\ seqOf' = [seqOf EXCEPT ![u] = number[u]]
  /\ Goto(u, "done")
  /\ UNCHANGED <<runVars, found, drained>>

-----------------------------------------------------------------------------
(* An attempt *)

(* The run was requeued and is claimed again: the row, then the events of  *)
(* the start, then the commit.  The old attempt goes on, fenced.           *)
TakeOver(w) ==
  /\ pc[w] = "new"
  /\ status = "running"
  /\ row = None
  /\ row' = w
  /\ Goto(w, "claim")
  /\ UNCHANGED <<status, current, cursor, logVars, found, drained>>

Resumed(w) ==
  /\ pc[w] = "claim"
  /\ StreamFree
  /\ top' = top + 1
  /\ current' = w
  /\ row' = None
  /\ Goto(w, "run")
  /\ UNCHANGED <<status, cursor, seqOf, stream, number, found, drained>>

(* The recipe reports an activity: the event stays uncommitted. *)
Activity(w) ==
  /\ pc[w] = "run"
  /\ top < MaxTop
  /\ AppendEvent(w)
  /\ UNCHANGED <<runVars, seqOf, top, pc, found, drained>>

(* commit_event_boundary, before and after a tool. *)
Boundary(w) ==
  /\ pc[w] = "run"
  /\ stream = w
  /\ PublishEvent(w)
  /\ UNCHANGED <<runVars, seqOf, pc, found, drained>>

(* drain_steering reads the cursor and the rows behind it ... *)
Waiting == {u \in Users : seqOf[u] > cursor}

ReadSteering(w) ==
  /\ pc[w] = "run"
  /\ Waiting # {}
  /\ found' = [found EXCEPT ![w] = Waiting]
  /\ Goto(w, "drain")
  /\ UNCHANGED <<runVars, logVars, drained>>

(* ... locks the run, reads the cursor again, moves it and commits. *)
\* Mutant of StillWaiting: the cursor is not read again under the lock.
AllFound(w) == found[w]

StillWaiting(w) == {u \in found[w] : seqOf[u] > cursor}

TakeSteering(w) ==
  LET fresh == StillWaiting(w)
  IN /\ pc[w] = "drain"
     /\ row = None
     /\ found' = [found EXCEPT ![w] = fresh]
     /\ \/ /\ fresh = {}
           /\ Goto(w, "run")
           /\ UNCHANGED <<cursor, drained>>
        \/ /\ fresh # {}
           /\ Goto(w, "announce")
           /\ \E last \in fresh : /\ \A u \in fresh : seqOf[u] <= seqOf[last]
                                  /\ cursor' = seqOf[last]
           /\ drained' = [u \in Users |-> IF u \in fresh THEN drained[u] \cup {w}
                                                         ELSE drained[u]]
     /\ UNCHANGED <<status, current, row, logVars>>

(* run.steering_received, in the session of the events; the model is told. *)
Announce(w) ==
  /\ pc[w] = "announce"
  /\ \/ stream = w /\ UNCHANGED <<stream, number>>
     \/ AppendEvent(w)
  /\ found' = [found EXCEPT ![w] = {}]
  /\ Goto(w, "run")
  /\ UNCHANGED <<runVars, seqOf, top, drained>>

(* _prepare_terminal_write commits what is open before it takes the row;   *)
(* where the run has ended, the attempt ends with it.                      *)
PrepareTerminal(w) ==
  /\ pc[w] = "run"
  /\ IF stream = w THEN PublishEvent(w) ELSE UNCHANGED <<stream, top, number>>
  /\ Goto(w, IF status = "running" THEN "close" ELSE "gone")
  /\ UNCHANGED <<runVars, seqOf, found, drained>>

LockTerminal(w) ==
  /\ pc[w] = "close"
  /\ row = None
  /\ IF status = "running" /\ current = w
       THEN row' = w /\ Goto(w, "settle")
       ELSE row' = row /\ Goto(w, "gone")
  /\ UNCHANGED <<status, current, cursor, logVars, found, drained>>

(* The status and its event are one transaction. *)
SettleRow(a, outcome) ==
  /\ StreamFree
  /\ top' = top + 1
  /\ status' = outcome
  /\ row' = None
  /\ UNCHANGED <<current, cursor, seqOf, stream, number, found, drained>>

Complete(w) ==
  /\ pc[w] = "settle"
  /\ SettleRow(w, "completed")
  /\ Goto(w, "gone")

(* The sessions of an attempt that dies are rolled back. *)
Abort(a) ==
  /\ stream' = IF stream = a THEN None ELSE stream
  /\ row' = IF row = a THEN None ELSE row
  /\ number' = [number EXCEPT ![a] = 0]
  /\ Goto(a, "gone")
  /\ UNCHANGED <<status, current, cursor, seqOf, top, drained>>

SlotDies(w) ==
  /\ pc[w] \notin {"new", "gone"}
  /\ Abort(w)
  /\ UNCHANGED found

-----------------------------------------------------------------------------
(* _cancel_run_with_event: the row, then the stream. *)
CancelRow(c) ==
  /\ c \in ById
  /\ pc[c] = "new"
  /\ row = None
  /\ IF status = "running"
       THEN row' = c /\ Goto(c, "settle")
       ELSE row' = row /\ Goto(c, "gone")
  /\ UNCHANGED <<status, current, cursor, logVars, found, drained>>

\* Mutant of CancelEvent: a spelling that is not a status of the contract.
CancelEventMisspelt(c) ==
  /\ c \in ById
  /\ pc[c] = "settle"
  /\ SettleRow(c, "cancelled")
  /\ Goto(c, "gone")

CancelEvent(c) ==
  /\ c \in ById
  /\ pc[c] = "settle"
  /\ SettleRow(c, "canceled")
  /\ Goto(c, "gone")

(* async_cancel_open_runs_for_thread: the stream, then the row. *)
ThreadEvent(c) ==
  /\ c \in ByThread
  /\ pc[c] = "new"
  /\ status = "running"
  /\ AppendEvent(c)
  /\ Goto(c, "row")
  /\ UNCHANGED <<runVars, seqOf, top, found, drained>>

ThreadRow(c) ==
  /\ pc[c] = "row"
  /\ row = None
  /\ PublishEvent(c)
  /\ status' = IF status = "running" THEN "canceled" ELSE status
  /\ Goto(c, "gone")
  /\ UNCHANGED <<current, cursor, row, seqOf, found, drained>>

(* The database breaks a cycle of two waiting sessions: one is the victim. *)
Deadlocked(a, b) ==
  /\ row = a /\ pc[a] \in {"claim", "settle"}
  /\ stream = b /\ pc[b] = "row"

DeadlockVictim(a) ==
  /\ \E b \in Actors : Deadlocked(a, b) \/ Deadlocked(b, a)
  /\ Abort(a)
  /\ UNCHANGED found

-----------------------------------------------------------------------------
SlotStep(w) ==
  \/ Resumed(w)
  \/ Activity(w)
  \/ Boundary(w)
  \/ ReadSteering(w)
  \/ TakeSteering(w)
  \/ Announce(w)
  \/ PrepareTerminal(w)
  \/ LockTerminal(w)
  \/ Complete(w)

Next ==
  \/ \E u \in Users : Submit(u) \/ AppendSteering(u) \/ CommitSteering(u)
  \/ \E w \in Slots : TakeOver(w) \/ SlotStep(w) \/ SlotDies(w)
  \/ \E c \in Cancels : \/ CancelRow(c) \/ CancelEvent(c)
                        \/ ThreadEvent(c) \/ ThreadRow(c)
  \/ \E a \in Actors : DeadlockVictim(a)

Spec == Init /\ [][Next]_vars

(* A request that has begun goes on, the database grants locks in turn and *)
(* finds the cycles it can see.  An attempt drains on every turn, reaches  *)
(* its next boundary and goes on closing; it need not finish.  Steps that  *)
(* are never open to it at one place share a condition.                    *)
Fairness ==
  /\ \A u \in Users : WF_vars(CommitSteering(u))
  /\ \A w \in Slots : /\ WF_vars(ReadSteering(w))
                      /\ WF_vars(Boundary(w) \/ TakeSteering(w) \/ LockTerminal(w))
                      /\ SF_vars(Resumed(w) \/ Announce(w) \/ Complete(w))
  /\ \A c \in ById : SF_vars(CancelEvent(c))
  /\ \A c \in ByThread : WF_vars(ThreadRow(c))
  /\ WF_vars(\E a \in Actors : DeadlockVictim(a))

FairSpec == Spec /\ Fairness

-----------------------------------------------------------------------------
(* Properties *)

TypeOK ==
  /\ status \in {"running", "completed", "canceled"}
  /\ current \in Slots
  /\ seqOf \in [Users -> Nat]
  /\ top \in Nat
  /\ cursor \in Nat
  /\ stream \in Actors \cup {None}
  /\ row \in Actors \cup {None}
  /\ number \in [Actors -> Nat]
  /\ pc \in [Actors -> {"new", "append", "commit", "done", "claim", "run", "drain",
                        "announce", "close", "settle", "row", "gone"}]
  /\ found \in [Slots -> SUBSET Users]
  /\ drained \in [Users -> SUBSET Slots]

(* Sequence numbers are given in the order of the commits: a message that   *)
(* becomes visible has a number above the cursor of every drain before it.  *)
CommitsInOrder ==
  [][\A u \in Users : seqOf'[u] # seqOf[u] => seqOf'[u] > top]_vars

(* The cursor has passed exactly the messages that a drain brought back,    *)
(* and no message is brought back twice, not even when an old attempt and   *)
(* its successor drain side by side.                                        *)
DrainedOnce ==
  \A u \in Users :
    /\ \A v, w \in drained[u] : v = w
    /\ seqOf[u] > 0 => (drained[u] # {} <=> seqOf[u] <= cursor)

(* The log, its cursor and its two locks implement an inbox (module Inbox)  *)
(* that keeps the order of acceptance and gives each message to one reader. *)
Inbox == INSTANCE Inbox WITH
  Messages <- Users,
  Readers <- Slots,
  sent <- {u \in Users : seqOf[u] > 0},
  before <- {p \in Users \X Users : 0 < seqOf[p[1]] /\ seqOf[p[1]] < seqOf[p[2]]},
  takenBy <- drained

(* A message is accepted once, behind all others; a drain takes everything  *)
(* up to some message that nobody has taken, overlapping attempts included. *)
ImplementsInbox == Inbox!Spec

(* A terminal status is never written over, whoever waited for the row.     *)
OutcomeStays ==
  [][status # "running" => status' = status /\ cursor' >= cursor]_vars

(* An attempt that has its events open waits for the row of a transaction   *)
(* that waits for those events: two of its sessions are in the cycle, which *)
(* the database does not see.                                               *)
Hung ==
  \E w \in Slots, a \in Actors :
    /\ stream = w /\ pc[w] = "drain"
    /\ row = a /\ pc[a] \in {"claim", "settle"}

(* A committed message is taken by an attempt, unless the run ends, its     *)
(* attempts are gone or their sessions are locked against each other.       *)
SteeringIsTaken ==
  \A u \in Users :
    seqOf[u] > 0 ~> \/ drained[u] # {}
                    \/ status # "running"
                    \/ pc[current] = "gone"
                    \/ Hung

(* The reason the boundary commits is that an open transaction "leaves both *)
(* the AgentRun row lock and its advisory event-stream lock held ...        *)
(* producing a cross-session lock cycle": there is none.                    *)
NoCrossSessionCycle == ~Hung
=============================================================================
