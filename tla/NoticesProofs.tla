---------------------------- MODULE NoticesProofs ----------------------------
(***************************************************************************)
(* Proofs about Notices, for any number of conditions, passes and runs,    *)
(* with sweeps or without, and without the bound on faults.                *)
(***************************************************************************)
EXTENDS Notices, TLAPS

Busy == {"reread", "read", "final", "send", "mark", "requeue", "drop"}

\* A pass at work has an item.
OnItem == \A p \in Passes : pass[p].pc \in Busy => pass[p].cond \in Conditions

(***************************************************************************)
(* Who is sending holds the claim, unless it was taken over meanwhile.     *)
(***************************************************************************)
SendHeld ==
  \A p \in Passes :
    pass[p].pc = "send" /\ ~overtaken[pass[p].cond] => Fenced(p)

(***************************************************************************)
(* Who holds the claim, and is past the point where a reader of the        *)
(* destination would have to find out, knows that nothing was posted.      *)
(***************************************************************************)
KnowsUnsent(p) ==
  \/ pass[p].pc \in {"final", "send", "requeue", "drop"}
  \/ pass[p].pc = "reread" /\ ~pass[p].must

Unsent ==
  \A p \in Passes :
    KnowsUnsent(p) /\ Fenced(p) /\ ~overtaken[pass[p].cond] => posts[pass[p].cond] = 0

\* Who is about to write "delivered" has seen the message, or Slack's answer.
Seen == \A p \in Passes : pass[p].pc = "mark" => posts[pass[p].cond] > 0

Core == OnItem /\ SendHeld /\ Unsent /\ Seen /\ NoSecondPost /\ HonestOutbox

IInv == TypeOK /\ Core

(***************************************************************************)
(* The building blocks of the actions.                                     *)
(***************************************************************************)
\* One pass changes, to what a step makes of it.
Moved(p) ==
  /\ pass' \in [Passes -> PassRow]
  /\ \A q \in Passes \ {p} : pass'[q] = pass[q]

LEMMA Constants ==
  /\ None \notin Passes /\ None \notin Conditions /\ DeferralRun \in Runs
  /\ MaxFaults \in Nat
BY NoticesAssumption DEF DeferralRun

LEMMA StepFacts ==
  /\ {"final", "drop", "mark", "send", "requeue"} \subseteq Steps
  /\ {"mark", "requeue", "drop"} \subseteq Busy
  /\ {"delivered", "pending", "superseded"} \subseteq States
BY DEF Steps, Busy, States

LEMMA Typed ==
  ASSUME TypeOK
  PROVE  /\ ask \in AskRow /\ notice \in [Conditions -> NoticeRow]
         /\ pass \in [Passes -> PassRow]
BY DEF TypeOK

LEMMA GotoFacts ==
  ASSUME TypeOK, NEW p \in Passes, NEW s \in Steps, Goto(p, s)
  PROVE  /\ Moved(p) /\ pass'[p].pc = s
         /\ pass'[p].cond = pass[p].cond /\ pass'[p].must = pass[p].must
BY Typed DEF Goto, Moved, PassRow

LEMMA DoneFacts ==
  ASSUME TypeOK, NEW p \in Passes, ItemDone(p)
  PROVE  Moved(p) /\ pass'[p].pc = "claim"
<1>1. NextItem(pass[p].todo) \in PassRow
  BY Typed DEF NextItem, PassRow, Steps
<1>2. QED
  BY <1>1, Typed DEF ItemDone, NextItem, Moved

LEMMA IdleFacts ==
  ASSUME TypeOK, NEW p \in Passes, pass' = [pass EXCEPT ![p] = IdlePass]
  PROVE  Moved(p) /\ pass'[p].pc = "idle"
<1>1. NextItem({}) \in PassRow
  BY DEF NextItem, PassRow, Steps
<1>2. IdlePass \in PassRow /\ IdlePass.pc = "idle"
  BY <1>1 DEF IdlePass, PassRow, Steps
<1>3. QED
  BY <1>2, Typed DEF Moved

LEMMA StartFacts ==
  ASSUME TypeOK, NEW p \in Passes, NEW cs \in SUBSET Conditions, StartPass(p, cs)
  PROVE  Moved(p) /\ pass'[p].pc = "claim" /\ UNCHANGED <<askVars, notice, posts, overtaken, faults>>
<1>1. Selected(cs) \in SUBSET Snapshots
  BY Typed DEF Selected, Snapshots, NoticeRow
<1>2. NextItem(Selected(cs)) \in PassRow /\ NextItem(Selected(cs)).pc = "claim"
  BY <1>1 DEF NextItem, PassRow, Steps
<1>3. QED
  BY <1>2, Typed DEF StartPass, Moved

LEMMA RereadFacts ==
  ASSUME TypeOK, NEW p \in Passes, Reread(p), Fenced(p)
  PROVE  /\ Moved(p) /\ pass'[p].cond = pass[p].cond
         /\ pass'[p].pc = IF pass[p].must THEN "read"
                          ELSE IF ask.status = "open" THEN "final" ELSE "drop"
<1>1. pass' = [pass EXCEPT ![p] = [pass[p] EXCEPT
                 !.open = ask.status = "open",
                 !.pc = IF pass[p].must THEN "read"
                        ELSE IF ask.status = "open" THEN "final" ELSE "drop"]]
  BY Typed DEF Reread, PassRow
<1>2. pass[p] \in PassRow
  BY Typed
<1>3. QED
  BY <1>1, <1>2, Typed DEF Moved, PassRow, Steps

\* A claim, or a row that is somebody else's.
LEMMA ClaimFacts ==
  ASSUME TypeOK, NEW p \in Passes, NEW i \in pass[p].todo, Claim(p, i)
  PROVE  /\ i.cond \in Conditions /\ i.claim \in Passes \cup {None}
         /\ Moved(p) /\ notice' \in [Conditions -> NoticeRow]
         /\ overtaken' \in [Conditions -> BOOLEAN]
         /\ UNCHANGED <<askVars, tasks, posts, faults>>
         /\ \/ UNCHANGED <<notice, overtaken>> /\ pass'[p].pc = "claim"
            \/ /\ CanClaim(i)
               /\ notice' = [notice EXCEPT ![i.cond] =
                               [state |-> "posting", claim |-> p, stale |-> FALSE]]
               /\ overtaken' = [overtaken EXCEPT ![i.cond] =
                                  @ \/ \E q \in Passes : /\ pass[q].pc = "send"
                                                         /\ pass[q].cond = i.cond]
               /\ pass'[p].pc = "reread" /\ pass'[p].cond = i.cond
               /\ pass'[p].must = (i.claim # None)
<1>1. pass[p] \in PassRow
  BY Typed
<1>2. i.cond \in Conditions /\ i.claim \in Passes \cup {None}
  BY <1>1 DEF PassRow, Snapshots
<1>3. CASE CanClaim(i)
  <2>1. /\ notice' = [notice EXCEPT ![i.cond] =
                        [state |-> "posting", claim |-> p, stale |-> FALSE]]
        /\ pass' = [pass EXCEPT ![p] =
                      [pc |-> "reread", todo |-> pass[p].todo \ {i},
                       cond |-> i.cond, must |-> i.claim # None, open |-> TRUE]]
        /\ overtaken' = [overtaken EXCEPT ![i.cond] =
                           @ \/ \E q \in Passes : /\ pass[q].pc = "send"
                                                  /\ pass[q].cond = i.cond]
    BY <1>3 DEF Claim
  <2>2. [pc |-> "reread", todo |-> pass[p].todo \ {i},
         cond |-> i.cond, must |-> i.claim # None, open |-> TRUE] \in PassRow
    BY <1>1, <1>2 DEF PassRow, Steps
  <2>3. Moved(p) /\ pass'[p].pc = "reread" /\ pass'[p].cond = i.cond /\ pass'[p].must = (i.claim # None)
    BY <2>1, <2>2, Typed DEF Moved
  <2>4. [state |-> "posting", claim |-> p, stale |-> FALSE] \in NoticeRow
    BY DEF NoticeRow, States
  <2>5. notice' \in [Conditions -> NoticeRow] /\ overtaken' \in [Conditions -> BOOLEAN]
    BY <2>1, <2>4, Typed DEF TypeOK
  <2>6. QED
    BY <1>2, <1>3, <2>1, <2>3, <2>5 DEF Claim
<1>4. CASE ~CanClaim(i)
  <2>1. pass[p].pc = "claim" /\ UNCHANGED <<notice, overtaken>>
    BY <1>4 DEF Claim
  <2>2. pass' = [pass EXCEPT ![p] = [pass[p] EXCEPT !.todo = pass[p].todo \ {i}]]
    BY <1>4, Typed DEF Claim, PassRow
  <2>3. [pass[p] EXCEPT !.todo = pass[p].todo \ {i}] \in PassRow
    BY <1>1 DEF PassRow
  <2>4. Moved(p) /\ pass'[p].pc = "claim"
    BY <1>1, <2>1, <2>2, <2>3, Typed DEF Moved, PassRow
  <2>5. QED
    BY <1>2, <2>1, <2>4, Typed DEF Claim, TypeOK
<1>5. QED
  BY <1>3, <1>4

LEMMA EndFacts ==
  ASSUME TypeOK, OnItem, NEW p \in Passes, NEW from \in Busy, NEW state \in States, EndItem(p, from, state)
  PROVE  /\ Moved(p) /\ pass[p].pc = from /\ pass'[p].pc = "claim" /\ pass[p].cond \in Conditions
         /\ UNCHANGED <<askVars, tasks, posts, overtaken, faults>>
         /\ notice' \in [Conditions -> NoticeRow]
         /\ notice' = IF Fenced(p)
                        THEN [notice EXCEPT ![pass[p].cond] =
                                [state |-> state, claim |-> None, stale |-> FALSE]]
                        ELSE notice
<1>1. Moved(p) /\ pass'[p].pc = "claim"
  BY DoneFacts DEF EndItem
<1>2. [state |-> state, claim |-> None, stale |-> FALSE] \in NoticeRow
  BY DEF NoticeRow
<1>3. QED
  BY <1>1, <1>2, Typed DEF EndItem, OnItem

LEMMA OnItemAt ==
  ASSUME TypeOK, OnItem, NEW p \in Passes, pass[p].pc = "send"
  PROVE  pass[p].cond \in Conditions
BY DEF OnItem, Busy

LEMMA PostedTyped ==
  ASSUME TypeOK, NEW c \in Conditions
  PROVE  /\ Posted(c) \in [Conditions -> 0..2]
         /\ \A d \in Conditions \ {c} : Posted(c)[d] = posts[d]
         /\ Posted(c)[c] > 0 /\ (posts[c] = 0 => Posted(c)[c] = 1)
BY DEF Posted, TypeOK

LEMMA WithNoticeTyped ==
  ASSUME TypeOK, NEW c \in Conditions
  PROVE  WithNotice(c) \in [Conditions -> NoticeRow]
<1>1. PendingNotice \in NoticeRow
  BY DEF PendingNotice, NoticeRow, States
<1>2. QED
  BY <1>1, Typed DEF WithNotice

LEMMA SupersededTyped ==
  ASSUME TypeOK
  PROVE  Superseded \in [Conditions -> NoticeRow]
BY Typed DEF Superseded, NoticeRow, States

LEMMA StaleTyped ==
  ASSUME TypeOK, NEW c \in Conditions, notice' = [notice EXCEPT ![c].stale = TRUE]
  PROVE  /\ notice' \in [Conditions -> NoticeRow]
         /\ \A d \in Conditions : /\ notice'[d].state = notice[d].state
                                  /\ notice'[d].claim = notice[d].claim
BY Typed DEF NoticeRow

LEMMA InitIInv ==
  ASSUME Init PROVE IInv
<1>1. pass \in [Passes -> PassRow] /\ \A p \in Passes : pass[p].pc = "idle"
  <2>1. NextItem({}) \in PassRow
    BY DEF NextItem, PassRow, Steps
  <2>2. IdlePass \in PassRow /\ IdlePass.pc = "idle"
    BY <2>1 DEF IdlePass, PassRow, Steps
  <2>3. QED
    BY <2>2 DEF Init
<1>2. ask \in AskRow
  BY DEF Init, AskRow, Statuses
<1>3. notice \in [Conditions -> NoticeRow]
  BY DEF Init, NoticeRow, States
<1>4. TypeOK
  <2>1. posts \in [Conditions -> 0..2] /\ overtaken \in [Conditions -> BOOLEAN] /\ faults \in Nat
    BY DEF Init
  <2>2. kind \in Kinds /\ typed \in BOOLEAN /\ admitted \subseteq Runs /\ tasks \subseteq Conditions
    BY DEF Init
  <2>3. QED
    BY <1>1, <1>2, <1>3, <2>1, <2>2 DEF TypeOK
<1>5. OnItem /\ SendHeld /\ Unsent /\ Seen
  BY <1>1 DEF OnItem, SendHeld, Unsent, KnowsUnsent, Seen, Busy
<1>6. NoSecondPost /\ HonestOutbox
  BY DEF Init, NoSecondPost, HonestOutbox
<1>7. QED
  BY <1>4, <1>5, <1>6 DEF IInv, Core

LEMMA TypePreserved ==
  ASSUME TypeOK, OnItem, [Next]_vars PROVE TypeOK'
<1>1. CASE \E r \in Runs : AdmitAsk(r)
  <2>1. PICK r \in Runs : AdmitAsk(r)
    BY <1>1
  <2>2. ask' \in AskRow
    BY <2>1 DEF AdmitAsk, AskRow, Statuses
  <2>3. notice' \in [Conditions -> NoticeRow]
    BY <2>1, WithNoticeTyped, NoticesAssumption DEF AdmitAsk
  <2>4. QED
    BY <2>1, <2>2, <2>3 DEF AdmitAsk, TypeOK
<1>2. CASE \E r \in Runs : Route(r)
  <2>1. ask' \in AskRow
    BY <1>2, Typed DEF Route, AskRow, Statuses
  <2>2. QED
    BY <1>2, <2>1 DEF Route, TypeOK
<1>3. CASE \E c \in Conditions : RecordDeferral(c)
  <2>1. PICK c \in Conditions : RecordDeferral(c)
    BY <1>3
  <2>2. ask' \in AskRow
    BY <2>1, Constants, Typed DEF RecordDeferral, AskRow, Statuses
  <2>3. notice' \in [Conditions -> NoticeRow]
    BY <2>1, WithNoticeTyped DEF RecordDeferral
  <2>4. QED
    BY <2>1, <2>2, <2>3 DEF RecordDeferral, TypeOK
<1>4. CASE AnswerDelivered
  <2>1. ask' \in AskRow
    BY <1>4, Typed DEF AnswerDelivered, AskRow, Statuses
  <2>2. notice' \in [Conditions -> NoticeRow]
    BY <1>4, SupersededTyped DEF AnswerDelivered
  <2>3. QED
    BY <1>4, <2>1, <2>2 DEF AnswerDelivered, TypeOK
<1>5. CASE InboundAnswer
  <2>1. ask' \in AskRow
    BY <1>5, Typed DEF InboundAnswer, AskRow, Statuses
  <2>2. notice' \in [Conditions -> NoticeRow]
    BY <1>5, SupersededTyped DEF InboundAnswer
  <2>3. QED
    BY <1>5, <2>1, <2>2 DEF InboundAnswer, TypeOK
<1>6. CASE ExpireDeferral
  <2>1. ask' \in AskRow
    BY <1>6, Typed DEF ExpireDeferral, AskRow, Statuses
  <2>2. notice' \in [Conditions -> NoticeRow]
    BY <1>6, SupersededTyped DEF ExpireDeferral
  <2>3. QED
    BY <1>6, <2>1, <2>2 DEF ExpireDeferral, TypeOK
<1>7. CASE NoticeComesDue
  <2>1. ask' \in AskRow
    BY <1>7, Typed DEF NoticeComesDue, AskRow, Statuses
  <2>2. QED
    BY <1>7, <2>1 DEF NoticeComesDue, TypeOK
<1>8. CASE DeferralIsLeft
  <2>1. ask' \in AskRow
    BY <1>8, Typed DEF DeferralIsLeft, AskRow, Statuses
  <2>2. QED
    BY <1>8, <2>1 DEF DeferralIsLeft, TypeOK
<1>9. CASE \E c \in Conditions : TaskFindsNothing(c)
  BY <1>9, Constants DEF TaskFindsNothing, askVars, TypeOK
<1>10. CASE \E p \in Passes, c \in Conditions : RunTask(p, c)
  <2>1. PICK p \in Passes, c \in Conditions : RunTask(p, c)
    BY <1>10
  <2>2. {c} \in SUBSET Conditions /\ StartPass(p, {c}) /\ tasks' \in SUBSET Conditions
    BY <2>1 DEF RunTask, TypeOK
  <2>3. Moved(p) /\ UNCHANGED <<askVars, notice, posts, overtaken, faults>>
    BY <2>2, StartFacts
  <2>4. QED
    BY <2>2, <2>3 DEF Moved, askVars, TypeOK
<1>11. CASE \E c \in Conditions : TaskDies(c)
  BY <1>11, Constants DEF TaskDies, Fault, askVars, TypeOK
<1>12. CASE \E c \in Conditions : ClaimGrowsStale(c)
  <2>1. PICK c \in Conditions : ClaimGrowsStale(c)
    BY <1>12
  <2>2. notice' \in [Conditions -> NoticeRow]
    BY <2>1, StaleTyped DEF ClaimGrowsStale
  <2>3. QED
    BY <2>1, <2>2 DEF ClaimGrowsStale, Fault, askVars, TypeOK
<1>13. CASE \E p \in Passes : Sweep(p)
  <2>1. PICK p \in Passes : StartPass(p, Conditions) /\ UNCHANGED tasks
    BY <1>13 DEF Sweep
  <2>2. Moved(p) /\ UNCHANGED <<askVars, notice, posts, overtaken, faults>>
    BY <2>1, StartFacts
  <2>3. QED
    BY <2>1, <2>2 DEF Moved, askVars, TypeOK
<1>14. CASE \E p \in Passes : \E i \in pass[p].todo : Claim(p, i)
  <2>0. PICK p \in Passes : \E i \in pass[p].todo : Claim(p, i)
    BY <1>14
  <2>1. PICK i \in pass[p].todo : Claim(p, i)
    BY <2>0
  <2>2. /\ Moved(p) /\ notice' \in [Conditions -> NoticeRow]
        /\ overtaken' \in [Conditions -> BOOLEAN] /\ UNCHANGED <<askVars, tasks, posts, faults>>
    BY <2>1, ClaimFacts
  <2>3. QED
    BY <2>2 DEF Moved, askVars, TypeOK
<1>15. CASE \E p \in Passes : Reread(p)
  <2>1. PICK p \in Passes : Reread(p)
    BY <1>15
  <2>2. CASE Fenced(p)
    BY <2>1, <2>2, RereadFacts DEF Reread, Moved, askVars, TypeOK
  <2>3. CASE ~Fenced(p)
    BY <2>1, <2>3, DoneFacts DEF Reread, Moved, askVars, TypeOK
  <2>4. QED
    BY <2>2, <2>3
<1>16. CASE \E p \in Passes : ReadDestination(p)
  <2>1. PICK p \in Passes : ReadDestination(p)
    BY <1>16
  <2>2. pass' \in [Passes -> PassRow]
    BY <2>1, GotoFacts, StepFacts DEF ReadDestination, Moved
  <2>3. QED
    BY <2>1, <2>2 DEF ReadDestination, askVars, TypeOK
<1>17. CASE \E p \in Passes : ReadUnknown(p)
  <2>1. PICK p \in Passes : ReadUnknown(p)
    BY <1>17
  <2>2. pass' \in [Passes -> PassRow]
    BY <2>1, DoneFacts DEF ReadUnknown, Moved
  <2>3. QED
    BY <2>1, <2>2 DEF ReadUnknown, Fault, askVars, TypeOK
<1>18. CASE \E p \in Passes : FinalCheck(p)
  <2>1. PICK p \in Passes : FinalCheck(p)
    BY <1>18
  <2>2. pass' \in [Passes -> PassRow]
    BY <2>1, GotoFacts, DoneFacts, StepFacts DEF FinalCheck, Moved
  <2>3. QED
    BY <2>1, <2>2 DEF FinalCheck, askVars, TypeOK
<1>19. CASE \E p \in Passes : SendAccepted(p)
  <2>1. PICK p \in Passes : SendAccepted(p)
    BY <1>19
  <2>2. pass' \in [Passes -> PassRow] /\ posts' \in [Conditions -> 0..2]
    BY <2>1, GotoFacts, OnItemAt, PostedTyped, StepFacts DEF SendAccepted, Moved
  <2>3. QED
    BY <2>1, <2>2 DEF SendAccepted, askVars, TypeOK
<1>20. CASE \E p \in Passes : SendUndecided(p)
  <2>1. PICK p \in Passes : SendUndecided(p)
    BY <1>20
  <2>2. pass' \in [Passes -> PassRow] /\ posts' \in [Conditions -> 0..2]
    BY <2>1, DoneFacts, OnItemAt, PostedTyped DEF SendUndecided, Moved, TypeOK
  <2>3. QED
    BY <2>1, <2>2 DEF SendUndecided, Fault, askVars, TypeOK
<1>21. CASE \E p \in Passes : SendRejected(p)
  <2>1. PICK p \in Passes : SendRejected(p)
    BY <1>21
  <2>2. pass' \in [Passes -> PassRow]
    BY <2>1, GotoFacts, StepFacts DEF SendRejected, Moved
  <2>3. QED
    BY <2>1, <2>2 DEF SendRejected, Fault, askVars, TypeOK
<1>22. CASE \E p \in Passes : MarkDelivered(p)
  <2>1. PICK p \in Passes : EndItem(p, "mark", "delivered")
    BY <1>22 DEF MarkDelivered
  <2>2. /\ Moved(p) /\ notice' \in [Conditions -> NoticeRow]
        /\ UNCHANGED <<askVars, tasks, posts, overtaken, faults>>
    BY <2>1, EndFacts, StepFacts
  <2>3. QED
    BY <2>2 DEF Moved, askVars, TypeOK
<1>23. CASE \E p \in Passes : Requeue(p)
  <2>1. PICK p \in Passes : EndItem(p, "requeue", "pending")
    BY <1>23 DEF Requeue
  <2>2. /\ Moved(p) /\ notice' \in [Conditions -> NoticeRow]
        /\ UNCHANGED <<askVars, tasks, posts, overtaken, faults>>
    BY <2>1, EndFacts, StepFacts
  <2>3. QED
    BY <2>2 DEF Moved, askVars, TypeOK
<1>24. CASE \E p \in Passes : DropNotice(p)
  <2>1. PICK p \in Passes : EndItem(p, "drop", "superseded")
    BY <1>24 DEF DropNotice
  <2>2. /\ Moved(p) /\ notice' \in [Conditions -> NoticeRow]
        /\ UNCHANGED <<askVars, tasks, posts, overtaken, faults>>
    BY <2>1, EndFacts, StepFacts
  <2>3. QED
    BY <2>2 DEF Moved, askVars, TypeOK
<1>25. CASE \E p \in Passes : Finish(p)
  <2>1. PICK p \in Passes : Finish(p)
    BY <1>25
  <2>2. pass' \in [Passes -> PassRow]
    BY <2>1, IdleFacts DEF Finish, Moved
  <2>3. QED
    BY <2>1, <2>2 DEF Finish, askVars, TypeOK
<1>26. CASE \E p \in Passes : ItemFails(p)
  <2>1. PICK p \in Passes : ItemFails(p)
    BY <1>26
  <2>2. pass' \in [Passes -> PassRow]
    BY <2>1, DoneFacts DEF ItemFails, Moved
  <2>3. QED
    BY <2>1, <2>2 DEF ItemFails, Fault, askVars, TypeOK
<1>27. CASE \E p \in Passes : PassDies(p)
  <2>1. PICK p \in Passes : PassDies(p)
    BY <1>27
  <2>2. pass' \in [Passes -> PassRow]
    BY <2>1, IdleFacts DEF PassDies, Moved
  <2>3. QED
    BY <2>1, <2>2 DEF PassDies, Fault, askVars, TypeOK
<1>28. CASE UNCHANGED vars
  BY <1>28 DEF vars, TypeOK
<1>29. QED
  BY <1>1, <1>2, <1>3, <1>4, <1>5, <1>6, <1>7, <1>8, <1>9, <1>10, <1>11, <1>12, <1>13, <1>14,
     <1>15, <1>16, <1>17, <1>18, <1>19, <1>20, <1>21, <1>22, <1>23, <1>24, <1>25, <1>26, <1>27, <1>28
  DEF Next, PassStep, TaskStep

(***************************************************************************)
(* Steps that do not touch the claim, the posts or the item of a pass at   *)
(* work keep the core of the invariant.                                    *)
(***************************************************************************)
LEMMA QuietStep ==
  ASSUME TypeOK, Core, NEW p \in Passes, Moved(p), pass'[p].pc \in {"claim", "idle"},
         UNCHANGED <<notice, posts, overtaken>>
  PROVE  Core'
<1>1. pass'[p].pc \notin Busy /\ pass'[p].pc \notin {"final", "send", "requeue", "drop", "reread", "mark"}
  BY DEF Busy
<1>2. OnItem'
  BY <1>1 DEF Core, OnItem, Moved
<1>3. SendHeld'
  BY <1>1 DEF Core, SendHeld, Fenced, Moved
<1>4. Unsent'
  BY <1>1 DEF Core, Unsent, KnowsUnsent, Fenced, Moved
<1>5. Seen'
  BY <1>1 DEF Core, Seen, Moved
<1>6. NoSecondPost' /\ HonestOutbox'
  BY DEF Core, NoSecondPost, HonestOutbox
<1>7. QED
  BY <1>2, <1>3, <1>4, <1>5, <1>6 DEF Core

LEMMA IdleStep ==
  ASSUME TypeOK, Core, UNCHANGED <<pass, notice, posts, overtaken>>
  PROVE  Core'
BY DEF Core, OnItem, SendHeld, Unsent, KnowsUnsent, Seen, NoSecondPost, HonestOutbox, Fenced

\* The obligation writes rows that are not claimed, and keeps them so.
Unposted == {"none", "pending", "superseded"}

LEMMA OutboxStep ==
  ASSUME TypeOK, Core, UNCHANGED <<pass, posts, overtaken>>,
         \A c \in Conditions :
           \/ notice'[c].state = notice[c].state /\ notice'[c].claim = notice[c].claim
           \/ notice'[c].state \in Unposted /\ notice[c].state \in Unposted
  PROVE  Core'
<1>1. \A p \in Passes : pass[p].cond \in Conditions => (Fenced(p)' <=> Fenced(p))
  BY DEF Fenced, Unposted
<1>2. \A p \in Passes : pass[p].pc = "send" \/ KnowsUnsent(p) => pass[p].cond \in Conditions
  BY DEF Core, OnItem, Busy, KnowsUnsent
<1>3. SendHeld' /\ Unsent'
  BY <1>1, <1>2 DEF Core, SendHeld, Unsent, KnowsUnsent
<1>4. OnItem' /\ Seen' /\ NoSecondPost'
  BY DEF Core, OnItem, Seen, NoSecondPost
<1>5. HonestOutbox'
  BY DEF Core, HonestOutbox, Unposted
<1>6. QED
  BY <1>3, <1>4, <1>5 DEF Core

LEMMA WithNoticeUnclaimed ==
  ASSUME TypeOK, NEW c \in Conditions
  PROVE  \A d \in Conditions :
           \/ WithNotice(c)[d] = notice[d]
           \/ WithNotice(c)[d].state \in Unposted /\ notice[d].state \in Unposted
BY Typed DEF WithNotice, PendingNotice, Unposted

LEMMA SupersededUnclaimed ==
  ASSUME TypeOK
  PROVE  \A d \in Conditions :
           \/ Superseded[d] = notice[d]
           \/ Superseded[d].state \in Unposted /\ notice[d].state \in Unposted
BY DEF Superseded, Unposted

(***************************************************************************)
(* A claim.  A row that was pending had not been posted; a claim that is   *)
(* taken over is looked into before anything is sent; and a sender who     *)
(* loses its claim is remembered as overtaken.                             *)
(***************************************************************************)
LEMMA ClaimStep ==
  ASSUME TypeOK, Core, NEW p \in Passes, NEW i \in pass[p].todo, Claim(p, i)
  PROVE  Core'
<1> DEFINE c == i.cond
<1>1. CASE UNCHANGED <<notice, overtaken>> /\ pass'[p].pc = "claim"
  BY <1>1, ClaimFacts, QuietStep
<1>2. CASE ~(UNCHANGED <<notice, overtaken>> /\ pass'[p].pc = "claim")
  <2>1. /\ c \in Conditions /\ Moved(p) /\ UNCHANGED posts
        /\ CanClaim(i)
        /\ notice' = [notice EXCEPT ![c] = [state |-> "posting", claim |-> p, stale |-> FALSE]]
        /\ overtaken' = [overtaken EXCEPT ![c] =
                           @ \/ \E q \in Passes : pass[q].pc = "send" /\ pass[q].cond = c]
        /\ pass'[p].pc = "reread" /\ pass'[p].cond = c
        /\ pass'[p].must = (i.claim # None)
    BY <1>2, ClaimFacts
  <2>2. \A d \in Conditions \ {c} : notice'[d] = notice[d] /\ overtaken'[d] = overtaken[d]
    BY <2>1, Typed DEF TypeOK
  <2>3. /\ notice'[c].state = "posting" /\ notice'[c].claim = p
        /\ overtaken[c] => overtaken'[c]
        /\ \A q \in Passes : pass[q].pc = "send" /\ pass[q].cond = c => overtaken'[c]
    BY <2>1, Typed DEF TypeOK
  <2>4. \A q \in Passes \ {p} : pass'[q] = pass[q]
    BY <2>1 DEF Moved
  <2>5. OnItem'
    BY <2>1, <2>4 DEF Core, OnItem
  <2>6. SendHeld'
    <3> SUFFICES ASSUME NEW q \in Passes, pass'[q].pc = "send", ~overtaken'[pass'[q].cond]
                 PROVE  Fenced(q)'
      BY DEF SendHeld
    <3>1. q # p /\ pass'[q] = pass[q]
      BY <2>1, <2>4
    <3>2. pass[q].cond \in Conditions
      BY <3>1 DEF Core, OnItem, Busy
    <3>3. pass[q].cond # c
      BY <2>3, <3>1
    <3>4. Fenced(q)
      BY <2>2, <3>1, <3>2, <3>3 DEF Core, SendHeld
    <3>5. QED
      BY <2>2, <3>1, <3>2, <3>3, <3>4 DEF Fenced
  <2>7. Unsent'
    <3> SUFFICES ASSUME NEW q \in Passes, KnowsUnsent(q)', Fenced(q)', ~overtaken'[pass'[q].cond]
                 PROVE  posts[pass'[q].cond] = 0
      BY <2>1 DEF Unsent
    <3>1. CASE q = p
      <4>1. i.claim = None
        BY <2>1, <3>1 DEF KnowsUnsent
      <4>2. notice[c].state = "pending"
        BY <2>1, <4>1 DEF CanClaim
      <4>3. ~overtaken[c]
        BY <2>1, <2>3, <3>1
      <4>4. QED
        BY <2>1, <3>1, <4>2, <4>3 DEF Core, HonestOutbox
    <3>2. CASE q # p
      <4>1. pass'[q] = pass[q] /\ KnowsUnsent(q)
        BY <2>4, <3>2 DEF KnowsUnsent
      <4>2. pass[q].cond \in Conditions
        BY <4>1 DEF Core, OnItem, Busy, KnowsUnsent
      <4>3. pass[q].cond # c
        BY <2>3, <3>2, <4>1 DEF Fenced
      <4>4. Fenced(q) /\ ~overtaken[pass[q].cond]
        BY <2>2, <4>1, <4>2, <4>3 DEF Fenced
      <4>5. QED
        BY <4>1, <4>4 DEF Core, Unsent
    <3>3. QED
      BY <3>1, <3>2
  <2>8. Seen'
    BY <2>1, <2>4 DEF Core, Seen
  <2>9. NoSecondPost' /\ HonestOutbox'
    <3>1. \A d \in Conditions : overtaken[d] => overtaken'[d]
      BY <2>2, <2>3
    <3>2. QED
      BY <2>1, <2>2, <2>3, <3>1 DEF Core, NoSecondPost, HonestOutbox
  <2>10. QED
    BY <2>5, <2>6, <2>7, <2>8, <2>9 DEF Core
<1>3. QED
  BY <1>1, <1>2

(***************************************************************************)
(* A step of a pass on its item that posts nothing and writes no row.      *)
(***************************************************************************)
LEMMA ItemStep ==
  ASSUME TypeOK, Core, NEW p \in Passes, pass[p].pc \in Busy, Moved(p),
         pass'[p].cond = pass[p].cond, pass'[p].must = pass[p].must \/ pass'[p].pc # "reread",
         pass'[p].pc \in Busy,
         pass'[p].pc = "send" => Fenced(p),
         pass'[p].pc = "mark" => posts[pass[p].cond] > 0,
         KnowsUnsent(p)' => KnowsUnsent(p) \/ posts[pass[p].cond] = 0,
         UNCHANGED <<notice, posts, overtaken>>
  PROVE  Core'
<1>1. \A q \in Passes \ {p} : pass'[q] = pass[q]
  BY DEF Moved
<1>2. pass[p].cond \in Conditions /\ (Fenced(p)' <=> Fenced(p))
  BY DEF Core, OnItem, Fenced
<1>3. OnItem'
  BY <1>1, <1>2 DEF Core, OnItem
<1>4. SendHeld'
  BY <1>1, <1>2 DEF Core, SendHeld, Fenced
<1>5. Unsent'
  <2> SUFFICES ASSUME NEW q \in Passes, KnowsUnsent(q)', Fenced(q)', ~overtaken'[pass'[q].cond]
               PROVE  posts'[pass'[q].cond] = 0
    BY DEF Unsent
  <2>1. CASE q = p
    BY <1>2, <2>1 DEF Core, Unsent
  <2>2. CASE q # p
    BY <1>1, <2>2 DEF Core, Unsent, KnowsUnsent, Fenced
  <2>3. QED
    BY <2>1, <2>2
<1>6. Seen'
  BY <1>1 DEF Core, Seen
<1>7. NoSecondPost' /\ HonestOutbox'
  BY DEF Core, NoSecondPost, HonestOutbox
<1>8. QED
  BY <1>3, <1>4, <1>5, <1>6, <1>7 DEF Core

(***************************************************************************)
(* Slack takes the message.  Unless the sender was overtaken it is the     *)
(* first, and nobody else holds the claim.                                 *)
(***************************************************************************)
LEMMA PostStep ==
  ASSUME TypeOK, Core, NEW p \in Passes, pass[p].pc = "send", Moved(p),
         posts' = Posted(pass[p].cond), UNCHANGED <<notice, overtaken>>,
         \/ pass'[p].pc = "mark" /\ pass'[p].cond = pass[p].cond
         \/ pass'[p].pc = "claim"
  PROVE  Core'
<1> DEFINE c == pass[p].cond
<1>1. \A q \in Passes \ {p} : pass'[q] = pass[q]
  BY DEF Moved
<1>2. c \in Conditions
  BY OnItemAt DEF Core
<1>3. /\ \A d \in Conditions \ {c} : posts'[d] = posts[d]
      /\ posts'[c] > 0 /\ (posts[c] = 0 => posts'[c] = 1)
  BY <1>2, PostedTyped
<1>4. ~overtaken[c] => Fenced(p) /\ posts[c] = 0
  BY DEF Core, SendHeld, Unsent, KnowsUnsent
<1>5. OnItem'
  BY <1>1, <1>2 DEF Core, OnItem, Busy
<1>6. SendHeld'
  BY <1>1 DEF Core, SendHeld, Fenced
<1>7. Unsent'
  <2> SUFFICES ASSUME NEW q \in Passes, KnowsUnsent(q)', Fenced(q)', ~overtaken[pass'[q].cond]
               PROVE  posts'[pass'[q].cond] = 0
    BY DEF Unsent
  <2>1. q # p /\ pass'[q] = pass[q]
    BY <1>1 DEF KnowsUnsent
  <2>2. KnowsUnsent(q) /\ Fenced(q) /\ pass[q].cond \in Conditions
    BY <2>1 DEF KnowsUnsent, Fenced, Core, OnItem, Busy
  <2>3. pass[q].cond # c
    BY <1>4, <2>1, <2>2 DEF Fenced
  <2>4. QED
    BY <1>3, <2>1, <2>2, <2>3 DEF Core, Unsent
<1>8. Seen'
  <2> SUFFICES ASSUME NEW q \in Passes, pass'[q].pc = "mark"
               PROVE  posts'[pass'[q].cond] > 0
    BY DEF Seen
  <2>1. CASE q = p
    BY <1>3, <2>1
  <2>2. CASE q # p
    <3>1. pass'[q] = pass[q] /\ posts[pass[q].cond] > 0 /\ pass[q].cond \in Conditions
      BY <1>1, <2>2 DEF Core, Seen, OnItem, Busy
    <3>2. QED
      BY <1>3, <3>1
  <2>3. QED
    BY <2>1, <2>2
<1>9. NoSecondPost'
  BY <1>3, <1>4 DEF Core, NoSecondPost
<1>10. HonestOutbox'
  <2>1. ~overtaken[c] => notice[c].state = "posting"
    BY <1>4 DEF Fenced
  <2>2. QED
    BY <1>3, <2>1 DEF Core, HonestOutbox
<1>11. QED
  BY <1>5, <1>6, <1>7, <1>8, <1>9, <1>10 DEF Core

(***************************************************************************)
(* The last write of an item.                                              *)
(***************************************************************************)
LEMMA EndStep ==
  ASSUME TypeOK, Core, NEW p \in Passes, NEW from \in Busy, NEW state \in States \ {"posting"},
         EndItem(p, from, state),
         (from = "mark" /\ state = "delivered") \/ (from \in {"requeue", "drop"} /\ state # "delivered")
  PROVE  Core'
<1> DEFINE c == pass[p].cond
<1>1. /\ Moved(p) /\ pass[p].pc = from /\ pass'[p].pc = "claim" /\ c \in Conditions
      /\ UNCHANGED <<posts, overtaken>>
      /\ notice' = IF Fenced(p) THEN [notice EXCEPT ![c] =
                                        [state |-> state, claim |-> None, stale |-> FALSE]]
                                ELSE notice
  BY EndFacts DEF Core
<1>2. CASE ~Fenced(p)
  BY <1>1, <1>2, QuietStep
<1>3. CASE Fenced(p)
  <2>1. /\ \A d \in Conditions \ {c} : notice'[d] = notice[d]
        /\ notice'[c].state = state
    BY <1>1, <1>3, Typed
  <2>2. \A q \in Passes \ {p} : pass'[q] = pass[q]
    BY <1>1 DEF Moved
  <2>3. OnItem' /\ Seen'
    BY <1>1, <2>2 DEF Core, OnItem, Seen, Busy
  <2>4. SendHeld'
    <3> SUFFICES ASSUME NEW q \in Passes, pass'[q].pc = "send", ~overtaken[pass'[q].cond]
                 PROVE  Fenced(q)'
      BY <1>1 DEF SendHeld
    <3>1. q # p /\ pass'[q] = pass[q]
      BY <1>1, <2>2
    <3>2. Fenced(q) /\ pass[q].cond \in Conditions
      BY <3>1 DEF Core, SendHeld, OnItem, Busy
    <3>3. pass[q].cond # c
      BY <1>3, <3>1, <3>2 DEF Fenced
    <3>4. QED
      BY <2>1, <3>1, <3>2, <3>3 DEF Fenced
  <2>5. Unsent'
    <3> SUFFICES ASSUME NEW q \in Passes, KnowsUnsent(q)', Fenced(q)', ~overtaken[pass'[q].cond]
                 PROVE  posts[pass'[q].cond] = 0
      BY <1>1 DEF Unsent
    <3>1. q # p /\ pass'[q] = pass[q] /\ KnowsUnsent(q)
      BY <1>1, <2>2 DEF KnowsUnsent
    <3>2. pass[q].cond \in Conditions
      BY <3>1 DEF Core, OnItem, Busy, KnowsUnsent
    <3>3. Fenced(q)
      BY <2>1, <3>1, <3>2 DEF Fenced
    <3>4. QED
      BY <3>1, <3>3 DEF Core, Unsent
  <2>6. NoSecondPost'
    BY <1>1 DEF Core, NoSecondPost
  <2>7. /\ from = "mark" => posts[c] > 0
        /\ from \in {"requeue", "drop"} => posts[c] = 0 \/ overtaken[c]
    BY <1>1, <1>3 DEF Core, Seen, Unsent, KnowsUnsent
  <2>8. HonestOutbox'
    BY <1>1, <2>1, <2>7 DEF Core, HonestOutbox
  <2>9. QED
    BY <2>3, <2>4, <2>5, <2>6, <2>8 DEF Core
<1>4. QED
  BY <1>2, <1>3

LEMMA CorePreserved ==
  ASSUME TypeOK, Core, [Next]_vars PROVE Core'
<1>1. CASE \E r \in Runs : AdmitAsk(r)
  BY <1>1, OutboxStep, WithNoticeUnclaimed, NoticesAssumption DEF AdmitAsk
<1>2. CASE \E r \in Runs : Route(r)
  BY <1>2, IdleStep DEF Route
<1>3. CASE \E c \in Conditions : RecordDeferral(c)
  BY <1>3, OutboxStep, WithNoticeUnclaimed DEF RecordDeferral
<1>4. CASE AnswerDelivered
  BY <1>4, OutboxStep, SupersededUnclaimed DEF AnswerDelivered
<1>5. CASE InboundAnswer
  BY <1>5, OutboxStep, SupersededUnclaimed DEF InboundAnswer
<1>6. CASE ExpireDeferral
  BY <1>6, OutboxStep, SupersededUnclaimed DEF ExpireDeferral
<1>7. CASE NoticeComesDue
  BY <1>7, IdleStep DEF NoticeComesDue
<1>8. CASE DeferralIsLeft
  BY <1>8, IdleStep DEF DeferralIsLeft
<1>9. CASE \E c \in Conditions : TaskFindsNothing(c)
  BY <1>9, IdleStep DEF TaskFindsNothing
<1>10. CASE \E p \in Passes, c \in Conditions : RunTask(p, c)
  <2>1. PICK p \in Passes, c \in Conditions : RunTask(p, c)
    BY <1>10
  <2>2. {c} \in SUBSET Conditions /\ StartPass(p, {c})
    BY <2>1 DEF RunTask
  <2>3. QED
    BY <2>2, StartFacts, QuietStep
<1>11. CASE \E c \in Conditions : TaskDies(c)
  BY <1>11, IdleStep DEF TaskDies
<1>12. CASE \E c \in Conditions : ClaimGrowsStale(c)
  BY <1>12, OutboxStep, StaleTyped DEF ClaimGrowsStale
<1>13. CASE \E p \in Passes : Sweep(p)
  BY <1>13, StartFacts, QuietStep DEF Sweep
<1>14. CASE \E p \in Passes : \E i \in pass[p].todo : Claim(p, i)
  BY <1>14, ClaimStep
<1>15. CASE \E p \in Passes : Reread(p)
  <2>1. PICK p \in Passes : Reread(p)
    BY <1>15
  <2>2. CASE ~Fenced(p)
    BY <2>1, <2>2, DoneFacts, QuietStep DEF Reread
  <2>3. CASE Fenced(p)
    <3>1. /\ Moved(p) /\ pass'[p].cond = pass[p].cond /\ UNCHANGED <<notice, posts, overtaken>>
          /\ pass[p].pc = "reread"
          /\ pass'[p].pc = IF pass[p].must THEN "read"
                           ELSE IF ask.status = "open" THEN "final" ELSE "drop"
      BY <2>1, <2>3, RereadFacts DEF Reread
    <3>2. KnowsUnsent(p)' => KnowsUnsent(p)
      BY <3>1 DEF KnowsUnsent
    <3>3. pass[p].pc \in Busy /\ pass'[p].pc \in Busy /\ pass'[p].pc \notin {"send", "mark", "reread"}
      BY <3>1 DEF Busy
    <3>4. QED
      BY <3>1, <3>2, <3>3, ItemStep
  <2>4. QED
    BY <2>2, <2>3
<1>16. CASE \E p \in Passes : ReadDestination(p)
  <2>1. PICK p \in Passes : ReadDestination(p)
    BY <1>16
  <2>2. PICK s \in {"mark", "final", "drop"} :
          Goto(p, s) /\ (s = "mark" => posts[pass[p].cond] > 0)
                     /\ (s # "mark" => ~(posts[pass[p].cond] > 0))
    BY <2>1 DEF ReadDestination
  <2>3. pass[p].pc = "read" /\ UNCHANGED <<notice, posts, overtaken>>
    BY <2>1 DEF ReadDestination
  <2>4. Moved(p) /\ pass'[p].pc = s /\ pass'[p].cond = pass[p].cond
    BY <2>2, GotoFacts, StepFacts
  <2>5. pass[p].pc \in Busy /\ pass'[p].pc \in Busy
    BY <2>2, <2>3, <2>4 DEF Busy
  <2>6. pass[p].cond \in Conditions
    BY <2>5 DEF Core, OnItem
  <2>7. s # "mark" => posts[pass[p].cond] = 0
    BY <2>2, <2>6 DEF TypeOK
  <2>8. KnowsUnsent(p)' => posts[pass[p].cond] = 0
    BY <2>4, <2>7 DEF KnowsUnsent
  <2>9. QED
    BY <2>2, <2>3, <2>4, <2>5, <2>8, ItemStep
<1>17. CASE \E p \in Passes : ReadUnknown(p)
  BY <1>17, DoneFacts, QuietStep DEF ReadUnknown
<1>18. CASE \E p \in Passes : FinalCheck(p)
  <2>1. PICK p \in Passes : FinalCheck(p)
    BY <1>18
  <2>2. CASE ~Fenced(p)
    BY <2>1, <2>2, DoneFacts, QuietStep DEF FinalCheck
  <2>3. CASE Fenced(p)
    <3>1. PICK s \in {"send", "drop"} : Goto(p, s)
      BY <2>1, <2>3 DEF FinalCheck
    <3>2. pass[p].pc = "final" /\ UNCHANGED <<notice, posts, overtaken>>
      BY <2>1 DEF FinalCheck
    <3>3. Moved(p) /\ pass'[p].pc = s /\ pass'[p].cond = pass[p].cond
      BY <3>1, GotoFacts, StepFacts
    <3>4. pass[p].pc \in Busy /\ pass'[p].pc \in Busy /\ KnowsUnsent(p)
      BY <3>1, <3>2, <3>3 DEF Busy, KnowsUnsent
    <3>5. QED
      BY <2>3, <3>1, <3>2, <3>3, <3>4, ItemStep
  <2>4. QED
    BY <2>2, <2>3
<1>19. CASE \E p \in Passes : SendAccepted(p)
  BY <1>19, GotoFacts, StepFacts, PostStep DEF SendAccepted
<1>20. CASE \E p \in Passes : SendUndecided(p)
  BY <1>20, DoneFacts, QuietStep, PostStep DEF SendUndecided
<1>21. CASE \E p \in Passes : SendRejected(p)
  <2>1. PICK p \in Passes : SendRejected(p)
    BY <1>21
  <2>2. pass[p].pc = "send" /\ UNCHANGED <<notice, posts, overtaken>> /\ Goto(p, "requeue")
    BY <2>1 DEF SendRejected
  <2>3. Moved(p) /\ pass'[p].pc = "requeue" /\ pass'[p].cond = pass[p].cond
    BY <2>2, GotoFacts, StepFacts
  <2>4. pass[p].pc \in Busy /\ pass'[p].pc \in Busy /\ KnowsUnsent(p)
    BY <2>2, <2>3 DEF Busy, KnowsUnsent
  <2>5. QED
    BY <2>2, <2>3, <2>4, ItemStep
<1>22. CASE \E p \in Passes : MarkDelivered(p)
  <2>1. PICK p \in Passes : EndItem(p, "mark", "delivered")
    BY <1>22 DEF MarkDelivered
  <2>2. "mark" \in Busy /\ "delivered" \in States \ {"posting"}
    BY DEF Busy, States
  <2>3. QED
    BY <2>1, <2>2, EndStep
<1>23. CASE \E p \in Passes : Requeue(p)
  <2>1. PICK p \in Passes : EndItem(p, "requeue", "pending")
    BY <1>23 DEF Requeue
  <2>2. "requeue" \in Busy /\ "pending" \in States \ {"posting"}
    BY DEF Busy, States
  <2>3. QED
    BY <2>1, <2>2, EndStep
<1>24. CASE \E p \in Passes : DropNotice(p)
  <2>1. PICK p \in Passes : EndItem(p, "drop", "superseded")
    BY <1>24 DEF DropNotice
  <2>2. "drop" \in Busy /\ "superseded" \in States \ {"posting"}
    BY DEF Busy, States
  <2>3. QED
    BY <2>1, <2>2, EndStep
<1>25. CASE \E p \in Passes : Finish(p)
  BY <1>25, IdleFacts, QuietStep DEF Finish
<1>26. CASE \E p \in Passes : ItemFails(p)
  BY <1>26, DoneFacts, QuietStep DEF ItemFails
<1>27. CASE \E p \in Passes : PassDies(p)
  BY <1>27, IdleFacts, QuietStep DEF PassDies
<1>28. CASE UNCHANGED vars
  BY <1>28, IdleStep DEF vars
<1>29. QED
  BY <1>1, <1>2, <1>3, <1>4, <1>5, <1>6, <1>7, <1>8, <1>9, <1>10, <1>11, <1>12, <1>13, <1>14,
     <1>15, <1>16, <1>17, <1>18, <1>19, <1>20, <1>21, <1>22, <1>23, <1>24, <1>25, <1>26, <1>27, <1>28
  DEF Next, PassStep, TaskStep

LEMMA NextIInv ==
  ASSUME IInv, [Next]_vars PROVE IInv'
BY TypePreserved, CorePreserved DEF IInv, Core

\* Who may be sending, who has seen what, and what the outbox says, taken together,
\* are inductive.
THEOREM Invariance == Spec => []IInv
BY InitIInv, NextIInv, PTL DEF Spec

(***************************************************************************)
(* Every variable keeps its type.                                          *)
(***************************************************************************)
THEOREM TypeCorrect == Spec => []TypeOK
<1>1. IInv => TypeOK
  BY DEF IInv
<1>2. QED
  BY Invariance, <1>1, PTL

(***************************************************************************)
(* Crashes, unclear answers, refusals and overlapping passes post no       *)
(* second notice: only a sender whose claim was taken over can.            *)
(***************************************************************************)
THEOREM PostedOnce == Spec => []NoSecondPost
<1>1. IInv => NoSecondPost
  BY DEF IInv, Core
<1>2. QED
  BY Invariance, <1>1, PTL

(***************************************************************************)
(* The state of a notice says what the destination shows.                  *)
(***************************************************************************)
THEOREM OutboxIsHonest == Spec => []HonestOutbox
<1>1. IInv => HonestOutbox
  BY DEF IInv, Core
<1>2. QED
  BY Invariance, <1>1, PTL

(***************************************************************************)
(* Nothing settles a deferral twice, or notices it after it was settled.   *)
(***************************************************************************)
NoNewNotice ==
  /\ ask'.status = ask.status
  /\ \A c \in Conditions : notice[c].state = "none" => notice'[c].state = "none"

LEMMA SettledStep ==
  ASSUME IInv, [Next]_vars, kind = "run_deferral", ask.status \in Terminal
  PROVE  NoNewNotice
<1>1. CASE \E r \in Runs : AdmitAsk(r)
  BY <1>1 DEF AdmitAsk
<1>2. CASE \E r \in Runs : Route(r)
  BY <1>2 DEF Route
<1>3. CASE \E c \in Conditions : RecordDeferral(c)
  BY <1>3 DEF RecordDeferral, Terminal, Active
<1>4. CASE AnswerDelivered
  BY <1>4 DEF AnswerDelivered, Terminal, Active
<1>5. CASE InboundAnswer
  BY <1>5 DEF InboundAnswer
<1>6. CASE ExpireDeferral
  BY <1>6 DEF ExpireDeferral, Terminal, Active
<1>7. CASE NoticeComesDue
  BY <1>7, Typed DEF NoticeComesDue, NoNewNotice, IInv, AskRow
<1>8. CASE DeferralIsLeft
  BY <1>8, Typed DEF DeferralIsLeft, NoNewNotice, IInv, AskRow
<1>9. CASE \E c \in Conditions : TaskFindsNothing(c)
  BY <1>9 DEF TaskFindsNothing, askVars, NoNewNotice
<1>10. CASE \E p \in Passes, c \in Conditions : RunTask(p, c)
  BY <1>10 DEF RunTask, StartPass, askVars, NoNewNotice
<1>11. CASE \E c \in Conditions : TaskDies(c)
  BY <1>11 DEF TaskDies, askVars, NoNewNotice
<1>12. CASE \E c \in Conditions : ClaimGrowsStale(c)
  BY <1>12, StaleTyped DEF ClaimGrowsStale, askVars, NoNewNotice, IInv
<1>13. CASE \E p \in Passes : Sweep(p)
  BY <1>13 DEF Sweep, StartPass, askVars, NoNewNotice
<1>14. CASE \E p \in Passes : \E i \in pass[p].todo : Claim(p, i)
  <2>0. PICK p \in Passes : \E i \in pass[p].todo : Claim(p, i)
    BY <1>14
  <2>1. PICK i \in pass[p].todo : Claim(p, i)
    BY <2>0
  <2>2. /\ i.cond \in Conditions /\ UNCHANGED ask
        /\ \/ UNCHANGED notice
           \/ /\ CanClaim(i)
              /\ notice' = [notice EXCEPT ![i.cond] =
                              [state |-> "posting", claim |-> p, stale |-> FALSE]]
    BY <2>1, ClaimFacts DEF IInv, askVars
  <2>3. CanClaim(i) => notice[i.cond].state # "none"
    BY DEF CanClaim
  <2>4. QED
    BY <2>2, <2>3, Typed DEF NoNewNotice, IInv
<1>15. CASE \E p \in Passes : Reread(p)
  BY <1>15 DEF Reread, askVars, NoNewNotice
<1>16. CASE \E p \in Passes : ReadDestination(p)
  BY <1>16 DEF ReadDestination, askVars, NoNewNotice
<1>17. CASE \E p \in Passes : ReadUnknown(p)
  BY <1>17 DEF ReadUnknown, askVars, NoNewNotice
<1>18. CASE \E p \in Passes : FinalCheck(p)
  BY <1>18 DEF FinalCheck, askVars, NoNewNotice
<1>19. CASE \E p \in Passes : SendAccepted(p)
  BY <1>19 DEF SendAccepted, askVars, NoNewNotice
<1>20. CASE \E p \in Passes : SendUndecided(p)
  BY <1>20 DEF SendUndecided, askVars, NoNewNotice
<1>21. CASE \E p \in Passes : SendRejected(p)
  BY <1>21 DEF SendRejected, askVars, NoNewNotice
<1>22. CASE \E p \in Passes : MarkDelivered(p)
  <2>1. PICK p \in Passes : EndItem(p, "mark", "delivered")
    BY <1>22 DEF MarkDelivered
  <2>2. /\ pass[p].cond \in Conditions /\ UNCHANGED ask
        /\ notice' = IF Fenced(p)
                       THEN [notice EXCEPT ![pass[p].cond] =
                               [state |-> "delivered", claim |-> None, stale |-> FALSE]]
                       ELSE notice
    BY <2>1, EndFacts, StepFacts DEF IInv, Core, askVars
  <2>3. QED
    BY <2>2, Typed DEF NoNewNotice, IInv, Fenced
<1>23. CASE \E p \in Passes : Requeue(p)
  <2>1. PICK p \in Passes : EndItem(p, "requeue", "pending")
    BY <1>23 DEF Requeue
  <2>2. /\ pass[p].cond \in Conditions /\ UNCHANGED ask
        /\ notice' = IF Fenced(p)
                       THEN [notice EXCEPT ![pass[p].cond] =
                               [state |-> "pending", claim |-> None, stale |-> FALSE]]
                       ELSE notice
    BY <2>1, EndFacts, StepFacts DEF IInv, Core, askVars
  <2>3. QED
    BY <2>2, Typed DEF NoNewNotice, IInv, Fenced
<1>24. CASE \E p \in Passes : DropNotice(p)
  <2>1. PICK p \in Passes : EndItem(p, "drop", "superseded")
    BY <1>24 DEF DropNotice
  <2>2. /\ pass[p].cond \in Conditions /\ UNCHANGED ask
        /\ notice' = IF Fenced(p)
                       THEN [notice EXCEPT ![pass[p].cond] =
                               [state |-> "superseded", claim |-> None, stale |-> FALSE]]
                       ELSE notice
    BY <2>1, EndFacts, StepFacts DEF IInv, Core, askVars
  <2>3. QED
    BY <2>2, Typed DEF NoNewNotice, IInv, Fenced
<1>25. CASE \E p \in Passes : Finish(p)
  BY <1>25 DEF Finish, askVars, NoNewNotice
<1>26. CASE \E p \in Passes : ItemFails(p)
  BY <1>26 DEF ItemFails, askVars, NoNewNotice
<1>27. CASE \E p \in Passes : PassDies(p)
  BY <1>27 DEF PassDies, askVars, NoNewNotice
<1>28. CASE UNCHANGED vars
  BY <1>28 DEF vars, NoNewNotice
<1>29. QED
  BY <1>1, <1>2, <1>3, <1>4, <1>5, <1>6, <1>7, <1>8, <1>9, <1>10, <1>11, <1>12, <1>13, <1>14,
     <1>15, <1>16, <1>17, <1>18, <1>19, <1>20, <1>21, <1>22, <1>23, <1>24, <1>25, <1>26, <1>27, <1>28
  DEF Next, PassStep, TaskStep

THEOREM SettledStays == Spec => SettledDeferralStays
<1>1. IInv /\ [Next]_vars =>
        [kind = "run_deferral" /\ ask.status \in Terminal =>
           /\ ask'.status = ask.status
           /\ \A c \in Conditions : notice[c].state = "none" => notice'[c].state = "none"]_vars
  BY SettledStep DEF NoNewNotice
<1>2. QED
  BY Invariance, <1>1, PTL DEF Spec, SettledDeferralStays

-----------------------------------------------------------------------------
(***************************************************************************)
(* The stamps.  A pass selects a notice once, and a claim that it selected *)
(* in order to take it over was stale and still is, or is no longer the    *)
(* claim: a stamp is not written again on a notice from which it was read. *)
(***************************************************************************)
Unclaimed == \A c \in Conditions : notice[c].state # "posting" => notice[c].claim = None

OneItem == \A p \in Passes : \A i, j \in pass[p].todo : i.cond = j.cond => i = j

Behind ==
  \A c \in Conditions : \A p \in Passes :
    notice[c].state = "posting" /\ notice[c].claim = p => \A j \in pass[p].todo : j.cond # c

Remembered ==
  \A p, q \in Passes : \A i \in pass[q].todo :
    i.claim = p => \A j \in pass[p].todo : j.cond # i.cond

Stamped ==
  \A q \in Passes : \A i \in pass[q].todo :
    i.claim # None /\ notice[i.cond].state = "posting" /\ notice[i.cond].claim = i.claim =>
      notice[i.cond].stale

Stamps == Unclaimed /\ OneItem /\ Behind /\ Remembered /\ Stamped

\* A step that selects nothing and claims nothing.
Calm ==
  /\ \A q \in Passes : pass'[q].todo \subseteq pass[q].todo
  /\ \A c \in Conditions : notice'[c].state # "posting" =>
       notice'[c] = notice[c] \/ notice'[c].claim = None
  /\ \A c \in Conditions : notice'[c].state = "posting" =>
       /\ notice[c].state = "posting" /\ notice'[c].claim = notice[c].claim
       /\ notice[c].stale => notice'[c].stale
  /\ overtaken' = overtaken

\* What is to do grows only when a pass starts.
LEMMA TodoKept ==
  ASSUME TypeOK, NEW p \in Passes,
         \/ \E s \in Steps : Goto(p, s)
         \/ ItemDone(p)
         \/ pass' = [pass EXCEPT ![p] = IdlePass]
         \/ Reread(p)
  PROVE  \A q \in Passes : pass'[q].todo \subseteq pass[q].todo
<1>1. CASE \E s \in Steps : Goto(p, s)
  BY <1>1, Typed DEF Goto, PassRow
<1>2. CASE ItemDone(p)
  BY <1>2, Typed DEF ItemDone, NextItem
<1>3. CASE pass' = [pass EXCEPT ![p] = IdlePass]
  <2>1. IdlePass.todo = {}
    BY DEF IdlePass, NextItem
  <2>2. QED
    BY <1>3, <2>1, Typed
<1>4. CASE Reread(p) /\ Fenced(p)
  <2> DEFINE place == IF pass[p].must THEN "read"
                      ELSE IF ask.status = "open" THEN "final" ELSE "drop"
             open == ask.status = "open"
  <2>1. pass' = [pass EXCEPT ![p].open = open, ![p].pc = place]
    BY <1>4 DEF Reread
  <2> HIDE DEF place, open
  <2>2. QED
    BY <2>1, Typed DEF PassRow
<1>5. QED
  BY <1>1, <1>2, <1>3, <1>4 DEF Reread

LEMMA CalmPass ==
  ASSUME TypeOK, NEW p \in Passes, UNCHANGED <<notice, overtaken>>,
         \/ \E s \in Steps : Goto(p, s)
         \/ ItemDone(p)
         \/ pass' = [pass EXCEPT ![p] = IdlePass]
         \/ Reread(p)
  PROVE  Calm
BY TodoKept DEF Calm

LEMMA CalmEnd ==
  ASSUME TypeOK, NEW p \in Passes, NEW from, NEW state \in States \ {"posting"},
         pass[p].cond \in Conditions, EndItem(p, from, state)
  PROVE  Calm
<1>1. \A q \in Passes : pass'[q].todo \subseteq pass[q].todo
  BY TodoKept DEF EndItem
<1>2. CASE notice' = notice
  BY <1>1, <1>2 DEF Calm, EndItem
<1>3. CASE notice' = [notice EXCEPT ![pass[p].cond] =
                        [state |-> state, claim |-> None, stale |-> FALSE]]
  BY <1>1, <1>3, Typed DEF Calm, EndItem
<1>4. QED
  BY <1>2, <1>3 DEF EndItem

LEMMA CalmRecord ==
  ASSUME TypeOK, UNCHANGED <<pass, overtaken>>,
         \/ notice' = notice
         \/ \E c \in Conditions : notice' = WithNotice(c)
         \/ notice' = Superseded
  PROVE  Calm
<1>1. CASE notice' = notice
  BY <1>1 DEF Calm
<1>2. CASE \E c \in Conditions : notice' = WithNotice(c)
  BY <1>2, Typed DEF Calm, WithNotice, PendingNotice
<1>3. CASE notice' = Superseded
  BY <1>3, Typed DEF Calm, Superseded
<1>4. QED
  BY <1>1, <1>2, <1>3

LEMMA CalmStale ==
  ASSUME TypeOK, NEW c \in Conditions, ClaimGrowsStale(c)
  PROVE  Calm
<1>1. /\ notice' = [notice EXCEPT ![c].stale = TRUE] /\ UNCHANGED <<pass, overtaken>>
  BY DEF ClaimGrowsStale
<1>2. \A d \in Conditions : /\ notice'[d].state = notice[d].state
                            /\ notice'[d].claim = notice[d].claim
                            /\ notice[d].stale => notice'[d].stale
                            /\ d # c => notice'[d] = notice[d]
  BY <1>1, Typed DEF NoticeRow
<1>3. notice[c].state = "posting"
  BY DEF ClaimGrowsStale
<1>4. QED
  BY <1>1, <1>2, <1>3 DEF Calm

\* Every step starts a pass, claims a notice, or is calm.
LEMMA ClaimKinds ==
  ASSUME IInv, [Next]_vars
  PROVE  \/ \E p \in Passes : \E cs \in SUBSET Conditions : StartPass(p, cs)
         \/ \E p \in Passes : \E i \in pass[p].todo : Claim(p, i)
         \/ Calm
<1>0. TypeOK /\ OnItem /\ SpecCondition \in Conditions
  BY NoticesAssumption DEF IInv, Core
<1>1. CASE \E r \in Runs : AdmitAsk(r) \/ Route(r)
  BY <1>0, <1>1, CalmRecord DEF AdmitAsk, Route
<1>2. CASE AnswerDelivered \/ InboundAnswer \/ ExpireDeferral \/ NoticeComesDue \/ DeferralIsLeft
  BY <1>0, <1>2, CalmRecord
  DEF AnswerDelivered, InboundAnswer, ExpireDeferral, NoticeComesDue, DeferralIsLeft
<1>3. CASE \E c \in Conditions : RecordDeferral(c) \/ TaskFindsNothing(c) \/ TaskDies(c)
  BY <1>0, <1>3, CalmRecord DEF RecordDeferral, TaskFindsNothing, TaskDies
<1>4. CASE \E c \in Conditions : ClaimGrowsStale(c)
  BY <1>0, <1>4, CalmStale
<1>5. CASE \E c \in Conditions, p \in Passes : RunTask(p, c)
  BY <1>5 DEF RunTask
<1>6. CASE \E p \in Passes : Sweep(p)
  BY <1>6 DEF Sweep
<1>7. ASSUME NEW p \in Passes,
             \/ Reread(p) \/ ReadDestination(p) \/ ReadUnknown(p) \/ FinalCheck(p)
             \/ SendAccepted(p) \/ SendUndecided(p) \/ SendRejected(p)
             \/ Finish(p) \/ ItemFails(p) \/ PassDies(p)
      PROVE  Calm
  <2>1. UNCHANGED <<notice, overtaken>>
    BY <1>7 DEF Reread, ReadDestination, ReadUnknown, FinalCheck, SendAccepted, SendUndecided,
                SendRejected, Finish, ItemFails, PassDies
  <2>2. CASE Reread(p)
    BY <1>0, <2>1, <2>2, CalmPass
  <2>3. CASE ReadUnknown(p) \/ SendUndecided(p) \/ ItemFails(p)
    BY <1>0, <2>1, <2>3, CalmPass DEF ReadUnknown, SendUndecided, ItemFails
  <2>4. CASE ReadDestination(p)
    <3>1. \E s \in {"mark", "final", "drop"} : Goto(p, s)
      BY <2>4 DEF ReadDestination
    <3>2. QED
      BY <1>0, <2>1, <3>1, StepFacts, CalmPass
  <2>5. CASE FinalCheck(p)
    <3>1. ItemDone(p) \/ \E s \in {"send", "drop"} : Goto(p, s)
      BY <2>5 DEF FinalCheck
    <3>2. QED
      BY <1>0, <2>1, <3>1, StepFacts, CalmPass
  <2>6. CASE SendAccepted(p) \/ SendRejected(p)
    <3>1. \E s \in {"mark", "requeue"} : Goto(p, s)
      BY <2>6 DEF SendAccepted, SendRejected
    <3>2. QED
      BY <1>0, <2>1, <3>1, StepFacts, CalmPass
  <2>7. CASE Finish(p) \/ PassDies(p)
    BY <1>0, <2>1, <2>7, CalmPass DEF Finish, PassDies
  <2>8. QED
    BY <1>7, <2>2, <2>3, <2>4, <2>5, <2>6, <2>7
<1>8. ASSUME NEW p \in Passes, MarkDelivered(p) \/ Requeue(p) \/ DropNotice(p)
      PROVE  Calm
  <2>1. PICK from \in {"mark", "requeue", "drop"}, state \in {"delivered", "pending", "superseded"} :
          EndItem(p, from, state)
    BY <1>8 DEF MarkDelivered, Requeue, DropNotice
  <2>2. pass[p].pc \in Busy
    BY <2>1, StepFacts DEF EndItem
  <2>3. pass[p].cond \in Conditions
    BY <1>0, <2>2 DEF OnItem
  <2>4. state \in States \ {"posting"}
    BY StepFacts
  <2>5. QED
    BY <1>0, <2>1, <2>3, <2>4, CalmEnd
<1>9. CASE UNCHANGED vars
  BY <1>0, <1>9, CalmRecord DEF vars
<1>10. QED
  BY <1>1, <1>2, <1>3, <1>4, <1>5, <1>6, <1>7, <1>8, <1>9 DEF Next, PassStep, TaskStep

LEMMA InitStamps ==
  Init => Stamps
<1> SUFFICES ASSUME Init PROVE Stamps
  OBVIOUS
<1>1. \A p \in Passes : pass[p].todo = {}
  BY DEF Init, IdlePass, NextItem
<1>2. \A c \in Conditions : notice[c].state = "none" /\ notice[c].claim = None
  BY DEF Init
<1>3. QED
  BY <1>1, <1>2 DEF Stamps, Unclaimed, OneItem, Behind, Remembered, Stamped

LEMMA CalmStamps ==
  ASSUME IInv, IInv', Stamps, Calm PROVE Stamps'
<1>0. \A q \in Passes : \A i \in pass'[q].todo : i \in pass[q].todo /\ i.cond \in Conditions
  BY Typed DEF Calm, IInv, PassRow, Snapshots
<1>1. Unclaimed' /\ OneItem'
  BY <1>0 DEF Stamps, Unclaimed, OneItem, Calm
<1>2. Behind'
  BY <1>0 DEF Stamps, Behind, Calm
<1>3. Remembered'
  BY <1>0 DEF Stamps, Remembered
<1>4. Stamped'
  BY <1>0 DEF Stamps, Stamped, Calm
<1>5. QED
  BY <1>1, <1>2, <1>3, <1>4 DEF Stamps

\* A pass that starts selects each notice once, and a claim only when it is stale.
LEMMA StartStamps ==
  ASSUME IInv, Stamps, NEW p \in Passes, NEW cs \in SUBSET Conditions, StartPass(p, cs)
  PROVE  Stamps'
<1>0. TypeOK /\ notice' = notice /\ Unremembered(p)
  BY DEF IInv, StartPass
<1>1. pass'[p].todo = Selected(cs) /\ \A q \in Passes \ {p} : pass'[q] = pass[q]
  BY <1>0, Typed DEF StartPass, NextItem
<1>2. \A i \in Selected(cs) : /\ i.cond \in Conditions /\ i.claim = notice[i.cond].claim
                              /\ notice[i.cond].state = "posting" => notice[i.cond].stale
  BY DEF Selected, Claimable
<1>3. Unclaimed'
  BY <1>0 DEF Stamps, Unclaimed
<1>4. OneItem'
  <2>1. \A i, j \in Selected(cs) : i.cond = j.cond => i = j
    BY DEF Selected
  <2>2. QED
    BY <1>1, <2>1 DEF Stamps, OneItem
<1>5. Behind'
  BY <1>0, <1>1 DEF Stamps, Behind, Unremembered
<1>6. Remembered'
  <2> SUFFICES ASSUME NEW q \in Passes, NEW r \in Passes, NEW i \in pass'[r].todo, i.claim = q,
                      NEW j \in pass'[q].todo, j.cond = i.cond
               PROVE  FALSE
    BY DEF Remembered
  <2>1. CASE r = p
    <3>1. i.cond \in Conditions /\ notice[i.cond].claim = q /\ q # None
      BY <1>1, <1>2, <2>1, Constants
    <3>2. notice[i.cond].state = "posting"
      BY <3>1 DEF Stamps, Unclaimed
    <3>3. q # p
      BY <1>0, <3>1, <3>2 DEF Unremembered
    <3>4. QED
      BY <1>1, <3>1, <3>2, <3>3 DEF Stamps, Behind
  <2>2. CASE r # p
    <3>1. q # p
      BY <1>0, <1>1, <2>2 DEF Unremembered
    <3>2. QED
      BY <1>1, <2>2, <3>1 DEF Stamps, Remembered
  <2>3. QED
    BY <2>1, <2>2
<1>7. Stamped'
  BY <1>0, <1>1, <1>2 DEF Stamps, Stamped
<1>8. QED
  BY <1>3, <1>4, <1>5, <1>6, <1>7 DEF Stamps

LEMMA ClaimTodo ==
  ASSUME TypeOK, NEW p \in Passes, NEW i \in pass[p].todo, Claim(p, i)
  PROVE  pass'[p].todo = pass[p].todo \ {i} /\ \A q \in Passes \ {p} : pass'[q] = pass[q]
<1>1. CASE CanClaim(i)
  BY <1>1, Typed DEF Claim
<1>2. CASE ~CanClaim(i)
  <2>1. pass' = [pass EXCEPT ![p].todo = @ \ {i}]
    BY <1>2 DEF Claim
  <2>2. QED
    BY <2>1, Typed DEF PassRow
<1>3. QED
  BY <1>1, <1>2

\* A claim puts a stamp on a notice from which nobody has read that stamp.
LEMMA ClaimStamps ==
  ASSUME IInv, Stamps, NEW p \in Passes, NEW i \in pass[p].todo, Claim(p, i)
  PROVE  Stamps'
<1>0. TypeOK
  BY DEF IInv
<1>1. /\ \A q \in Passes : pass'[q].todo \subseteq pass[q].todo
      /\ i \notin pass'[p].todo
  BY <1>0, ClaimTodo
<1>2. OneItem' /\ Remembered'
  BY <1>1 DEF Stamps, OneItem, Remembered
<1>3. i.cond \in Conditions
  BY <1>0, ClaimFacts
<1>4. CASE notice' = notice
  BY <1>1, <1>2, <1>4 DEF Stamps, Unclaimed, Behind, Stamped
<1>5. CASE notice' = [notice EXCEPT ![i.cond] = [state |-> "posting", claim |-> p, stale |-> FALSE]]
  <2>1. /\ \A d \in Conditions \ {i.cond} : notice'[d] = notice[d]
        /\ notice'[i.cond].state = "posting" /\ notice'[i.cond].claim = p
    BY <1>0, <1>3, <1>5, Typed
  <2>2. Unclaimed'
    BY <2>1 DEF Stamps, Unclaimed
  <2>3. Behind'
    <3>1. \A j \in pass'[p].todo : j.cond # i.cond
      BY <1>1 DEF Stamps, OneItem
    <3>2. QED
      BY <1>1, <2>1, <3>1 DEF Stamps, Behind
  <2>4. Stamped'
    <3> SUFFICES ASSUME NEW q \in Passes, NEW j \in pass'[q].todo, j.claim # None,
                        notice'[j.cond].state = "posting", notice'[j.cond].claim = j.claim
                 PROVE  notice'[j.cond].stale
      BY DEF Stamped
    <3>1. j \in pass[q].todo /\ j.cond \in Conditions
      BY <1>0, <1>1, Typed DEF PassRow, Snapshots
    <3>2. j.cond # i.cond
      BY <2>1, <3>1 DEF Stamps, Remembered
    <3>3. QED
      BY <2>1, <3>1, <3>2 DEF Stamps, Stamped
  <2>5. QED
    BY <1>2, <2>2, <2>3, <2>4 DEF Stamps
<1>6. QED
  BY <1>0, <1>4, <1>5, ClaimFacts

\* A claim that a pass has selected to take over is stale, or is no longer the claim.
THEOREM StampsHold == Spec => []Stamps
<1>1. IInv /\ IInv' /\ Stamps /\ [Next]_vars => Stamps'
  BY ClaimKinds, CalmStamps, StartStamps, ClaimStamps
<1>2. QED
  BY Invariance, InitStamps, <1>1, PTL DEF Spec

(***************************************************************************)
(* The one exception of PostedOnce and OutboxIsHonest, and what removes    *)
(* it.  A claim bears the time its pass started, not the time it was made, *)
(* so the grace of STALE_NOTICE_POSTING_GRACE has to cover every item that *)
(* the pass handled before, and the chunks of the message: the timeout of  *)
(* one HTTP request does not bound it.  When every request is over before  *)
(* its claim is older than the grace, no sender is ever overtaken: each    *)
(* notice is posted at most once, and the outbox says exactly what Slack   *)
(* shows.                                                                  *)
(***************************************************************************)
TimelySends ==
  \A p \in Passes : pass[p].pc = "send" /\ Fenced(p) => ~notice[pass[p].cond].stale

NeverOvertaken == \A c \in Conditions : ~overtaken[c]

LEMMA TimelyStep ==
  ASSUME IInv, Stamps, TimelySends, NeverOvertaken, [Next]_vars
  PROVE  NeverOvertaken'
<1>0. TypeOK
  BY DEF IInv
<1>1. CASE Calm
  BY <1>1 DEF Calm, NeverOvertaken
<1>2. ASSUME NEW p \in Passes, NEW cs \in SUBSET Conditions, StartPass(p, cs)
      PROVE  NeverOvertaken'
  BY <1>2 DEF StartPass, NeverOvertaken
<1>3. ASSUME NEW p \in Passes, NEW i \in pass[p].todo, Claim(p, i)
      PROVE  NeverOvertaken'
  <2>1. CASE ~CanClaim(i)
    BY <1>3, <2>1 DEF Claim, NeverOvertaken
  <2>2. CASE CanClaim(i)
    <3>1. ASSUME NEW q \in Passes, pass[q].pc = "send", pass[q].cond = i.cond
          PROVE  FALSE
      <4>1. i.cond \in Conditions
        BY <1>0, <1>3, ClaimFacts
      <4>2. notice[i.cond].state = "posting" /\ notice[i.cond].claim = q
        BY <3>1, <4>1 DEF IInv, Core, SendHeld, Fenced, NeverOvertaken
      <4>3. i.claim # None /\ notice[i.cond].claim = i.claim
        BY <2>2, <4>2 DEF CanClaim
      <4>4. notice[i.cond].stale
        BY <4>2, <4>3 DEF Stamps, Stamped
      <4>5. QED
        BY <3>1, <4>2, <4>4 DEF TimelySends, Fenced
    <3>2. overtaken' = [overtaken EXCEPT ![i.cond] =
                          @ \/ \E q \in Passes : /\ pass[q].pc = "send"
                                                 /\ pass[q].cond = i.cond]
      BY <1>3, <2>2 DEF Claim
    <3>3. QED
      BY <1>0, <3>1, <3>2 DEF NeverOvertaken, TypeOK
  <2>3. QED
    BY <2>1, <2>2
<1>4. QED
  BY <1>1, <1>2, <1>3, ClaimKinds

\* With requests to Slack that end within the grace of their claim, a notice is posted at
\* most once, delivered means posted, and a notice that waits or was dropped is not there.
THEOREM TimelySendsPostOnce ==
  Spec /\ []TimelySends =>
    [](\A c \in Conditions :
         /\ posts[c] \in {0, 1}
         /\ notice[c].state = "delivered" => posts[c] = 1
         /\ notice[c].state \in {"none", "pending", "superseded"} => posts[c] = 0)
<1>1. Init => NeverOvertaken
  BY DEF Init, NeverOvertaken
<1>2. IInv /\ Stamps /\ TimelySends /\ NeverOvertaken /\ [Next]_vars => NeverOvertaken'
  BY TimelyStep
<1>3. IInv /\ NeverOvertaken =>
        \A c \in Conditions :
          /\ posts[c] \in {0, 1}
          /\ notice[c].state = "delivered" => posts[c] = 1
          /\ notice[c].state \in {"none", "pending", "superseded"} => posts[c] = 0
  BY DEF IInv, TypeOK, Core, NoSecondPost, HonestOutbox, NeverOvertaken
<1>4. QED
  BY Invariance, StampsHold, <1>1, <1>2, <1>3, PTL DEF Spec
=============================================================================
