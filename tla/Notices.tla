------------------------------- MODULE Notices -------------------------------
(***************************************************************************)
(* One answer obligation (an OpenAsk row) and the outbox of its notices:   *)
(* systems/runs/open_asks.py, run_deferrals.py, open_ask_settlement.py and *)
(* obligation_notices.py.                                                  *)
(*                                                                         *)
(* A notice is written in the transaction of its obligation and delivered  *)
(* afterwards by passes that run on their own: each database transaction   *)
(* of a pass is one step, the call of Slack is another, and other passes,  *)
(* settlements and crashes come in between.  A pass is known by the stamp  *)
(* it writes in claimed_at, so a pass and its stamp are one value here; a  *)
(* stamp is used again only when nobody remembers it.  Time is reduced to  *)
(* the three comparisons the code makes: the notice delay is over, the     *)
(* claim is older than the grace, the deferral is older than its expiry.   *)
(***************************************************************************)
EXTENDS Naturals, FiniteSets

CONSTANTS
  Conditions,    \* notice conditions: the key of a notice under its obligation
  SpecCondition, \* the condition of the typed obligation spec
  Passes,        \* delivery passes, by the stamp they write
  Runs,          \* agent runs that may own the obligation
  None,          \* no run, no pass, no condition
  MaxFaults,     \* bound: faults in a behaviour
  Sweeps         \* does anybody call deliver_pending_obligation_notices
                 \* besides the post-commit tasks?

ASSUME NoticesAssumption ==
  /\ SpecCondition \in Conditions
  /\ None \notin Passes \cup Runs \cup Conditions
  /\ Sweeps \in BOOLEAN
  /\ MaxFaults \in Nat
  /\ Runs # {}

VARIABLES
  kind,       \* obligation_kind of the row
  typed,      \* the origin run carries an obligation_spec
  ask,        \* the row: status, origin run, delay over, free to expire
  admitted,   \* runs whose admission recorded the ask
  notice,     \* condition -> outbox row
  tasks,      \* conditions with a post-commit delivery task
  pass,       \* pass -> what it is doing
  posts,      \* condition -> messages in the Slack destination (2: several)
  overtaken,  \* history: a claim was taken over while its holder was sending
  faults      \* crashes, errors, unclear answers and slow passes so far

vars == <<kind, typed, ask, admitted, notice, tasks, pass, posts,
          overtaken, faults>>

askVars == <<kind, typed, ask, admitted>>

Kinds == {"human_ask", "run_deferral"}
Statuses == {"none", "open", "answered", "routed", "expired"}
Active == {"open", "routed"}
Terminal == {"answered", "expired"}
States == {"none", "pending", "posting", "delivered", "superseded"}
Steps == {"idle", "claim", "reread", "read", "final", "send", "mark",
          "requeue", "drop"}

Snapshots == [cond : Conditions, claim : Passes \cup {None}]

(* A pass between items: what it selected is still to do. *)
NextItem(todo) ==
  [pc |-> "claim", todo |-> todo, cond |-> None, must |-> FALSE, open |-> TRUE]

IdlePass == [NextItem({}) EXCEPT !.pc = "idle"]

Init ==
  /\ kind \in Kinds
  /\ typed \in BOOLEAN
  /\ kind = "human_ask" => typed
  /\ ask = [status |-> "none", origin |-> None, due |-> FALSE, old |-> FALSE]
  /\ admitted = {}
  /\ notice = [c \in Conditions |->
                 [state |-> "none", claim |-> None, stale |-> FALSE]]
  /\ tasks = {}
  /\ pass = [p \in Passes |-> IdlePass]
  /\ posts = [c \in Conditions |-> 0]
  /\ overtaken = [c \in Conditions |-> FALSE]
  /\ faults = 0

Fault == faults < MaxFaults /\ faults' = faults + 1

-----------------------------------------------------------------------------
(* The obligation *)

PendingNotice == [state |-> "pending", claim |-> None, stale |-> FALSE]

(* record_obligation_notice: the first record of a condition creates the   *)
(* row; a pending row takes the fresher text, any other is left alone.     *)
WithNotice(c) ==
  IF notice[c].state = "none" THEN [notice EXCEPT ![c] = PendingNotice]
                              ELSE notice

(* supersede_pending_obligation_notices *)
Superseded ==
  [c \in Conditions |->
     IF notice[c].state = "pending"
       THEN [state |-> "superseded", claim |-> None, stale |-> FALSE]
       ELSE notice[c]]

(* record_open_ask: an admitted ask opens the row, or opens it again for a *)
(* run that is not its origin, and records the notice of its spec.         *)
AdmitAsk(r) ==
  /\ kind = "human_ask"
  /\ r \notin admitted
  /\ admitted' = admitted \cup {r}
  /\ ask' = [status |-> "open", origin |-> r, due |-> FALSE, old |-> FALSE]
  /\ notice' = WithNotice(SpecCondition)
  /\ UNCHANGED <<kind, typed, tasks, pass, posts, overtaken, faults>>

(* The key of a deferral's row is its run. *)
DeferralRun == CHOOSE r \in Runs : TRUE

(* record_run_deferral and the delivery it schedules at commit.  A settled *)
(* deferral takes no notice; otherwise the task is scheduled whether the   *)
(* notice is new or not.                                                   *)
\* Mutant of RecordDeferral: a settled deferral is noticed all the same.
RecordSettledDeferral(c) ==
  /\ kind = "run_deferral"
  /\ typed => c # SpecCondition
  /\ ask' = IF ask.status = "none"
              THEN [status |-> "open", origin |-> DeferralRun, due |-> FALSE, old |-> FALSE]
              ELSE ask
  /\ notice' = WithNotice(c)
  /\ tasks' = tasks \cup {c}
  /\ UNCHANGED <<kind, typed, admitted, pass, posts, overtaken,
                 faults>>

\* Mutant of RecordDeferral: no delivery is scheduled at commit.
RecordDeferralOnly(c) ==
  /\ kind = "run_deferral"
  /\ typed => c # SpecCondition
  /\ ask.status \notin Terminal
  /\ ask' = IF ask.status = "none"
              THEN [status |-> "open", origin |-> DeferralRun, due |-> FALSE, old |-> FALSE]
              ELSE ask
  /\ notice' = WithNotice(c)
  /\ UNCHANGED <<kind, typed, admitted, tasks, pass, posts, overtaken,
                 faults>>

RecordDeferral(c) ==
  /\ kind = "run_deferral"
  /\ typed => c # SpecCondition
  /\ ask.status \notin Terminal
  /\ ask' = IF ask.status = "none"
              THEN [status |-> "open", origin |-> DeferralRun, due |-> FALSE, old |-> FALSE]
              ELSE ask
  /\ notice' = WithNotice(c)
  /\ tasks' = tasks \cup {c}
  /\ UNCHANGED <<kind, typed, admitted, pass, posts, overtaken,
                 faults>>

(* record_delivered_slack_answer: an answer in the thread settles it. *)
AnswerDelivered ==
  /\ ask.status \in Active
  /\ ask' = [ask EXCEPT !.status = "answered"]
  /\ notice' = Superseded
  /\ UNCHANGED <<kind, typed, admitted, tasks, pass, posts,
                 overtaken, faults>>

(* record_inbound_slack_obligation_answer: the answerer replied. *)
InboundAnswer ==
  /\ kind = "human_ask"
  /\ ask.status \in Active
  /\ notice[SpecCondition].state # "none"
  /\ ask' = [ask EXCEPT !.status = "answered"]
  /\ notice' = Superseded
  /\ UNCHANGED <<kind, typed, admitted, tasks, pass, posts,
                 overtaken, faults>>

(* record_delivered_slack_route: the origin run named a human answerer. *)
Route(r) ==
  /\ kind = "human_ask"
  /\ ask.origin = r
  /\ ask.status = "open"
  /\ ask' = [ask EXCEPT !.status = "routed"]
  /\ UNCHANGED <<kind, typed, admitted, notice, tasks, pass, posts,
                 overtaken, faults>>

(* expire_stale_run_deferrals *)
ExpireDeferral ==
  /\ kind = "run_deferral"
  /\ ask.status = "open"
  /\ ask.old
  /\ ask' = [ask EXCEPT !.status = "expired"]
  /\ notice' = Superseded
  /\ UNCHANGED <<kind, typed, admitted, tasks, pass, posts,
                 overtaken, faults>>

(* Time, and the run that owns a deferral, go on by themselves: the notice *)
(* delay is over; the deferral is past its expiry and its run has ended.   *)
NoticeComesDue ==
  /\ typed
  /\ ask.status # "none"
  /\ ~ask.due
  /\ ask' = [ask EXCEPT !.due = TRUE]
  /\ UNCHANGED <<kind, typed, admitted, notice, tasks, pass, posts,
                 overtaken, faults>>

DeferralIsLeft ==
  /\ kind = "run_deferral"
  /\ ask.status = "open"
  /\ ~ask.old
  /\ ask' = [ask EXCEPT !.old = TRUE]
  /\ UNCHANGED <<kind, typed, admitted, notice, tasks, pass, posts,
                 overtaken, faults>>

(* The claim is older than STALE_NOTICE_POSTING_GRACE: its pass is slow, or *)
(* has left it.                                                            *)
ClaimGrowsStale(c) ==
  /\ notice[c].state = "posting"
  /\ ~notice[c].stale
  /\ notice' = [notice EXCEPT ![c].stale = TRUE]
  /\ Fault
  /\ UNCHANGED <<askVars, tasks, pass, posts, overtaken>>

-----------------------------------------------------------------------------
(* Delivery *)

(* _claimable_clause *)
Claimable(c) ==
  \/ notice[c].state = "pending"
  \/ notice[c].state = "posting" /\ notice[c].stale

(* _notice_is_due: the typed spec of the origin run delays the notice, and *)
(* refuses one whose condition is not its own.                             *)
Due(c) ==
  \/ notice[c].state = "posting"
  \/ ~typed
  \/ c = SpecCondition /\ ask.due

Selected(cs) ==
  {[cond |-> c, claim |-> notice[c].claim] : c \in {d \in cs : Claimable(d) /\ Due(d)}}

(* No row and no other pass remembers the stamp. *)
Unremembered(p) ==
  /\ pass[p].pc = "idle"
  /\ \A c \in Conditions : notice[c].state = "posting" => notice[c].claim # p
  /\ \A q \in Passes : \A i \in pass[q].todo : i.claim # p

StartPass(p, cs) ==
  /\ Unremembered(p)
  /\ Selected(cs) # {}
  /\ pass' = [pass EXCEPT ![p] = NextItem(Selected(cs))]
  /\ UNCHANGED <<askVars, notice, posts, overtaken, faults>>

(* A sweep over every notice: what the text of the module calls periodic. *)
Sweep(p) == Sweeps /\ StartPass(p, Conditions) /\ UNCHANGED tasks

(* _deliver_when_visible: one pass over the notice that was committed. *)
RunTask(p, c) ==
  /\ c \in tasks
  /\ StartPass(p, {c})
  /\ tasks' = tasks \ {c}

(* ... which gives up when the notice stays unclaimable. *)
TaskFindsNothing(c) ==
  /\ c \in tasks
  /\ Selected({c}) = {}
  /\ tasks' = tasks \ {c}
  /\ UNCHANGED <<askVars, notice, pass, posts, overtaken, faults>>

Goto(p, pc) == pass' = [pass EXCEPT ![p].pc = pc]
ItemDone(p) == pass' = [pass EXCEPT ![p] = NextItem(pass[p].todo)]

(* The fence of every later write and read of the item. *)
Fenced(p) == notice[pass[p].cond].state = "posting" /\ notice[pass[p].cond].claim = p

(* The claim: state = 'pending', or the stale claim that was selected. *)
CanClaim(i) ==
  IF i.claim = None
    THEN notice[i.cond].state = "pending"
    ELSE notice[i.cond].state = "posting" /\ notice[i.cond].claim = i.claim

Claim(p, i) ==
  /\ pass[p].pc = "claim"
  /\ i \in pass[p].todo
  /\ IF CanClaim(i)
       THEN /\ notice' = [notice EXCEPT ![i.cond] =
                            [state |-> "posting", claim |-> p, stale |-> FALSE]]
            /\ pass' = [pass EXCEPT ![p] =
                          [pc |-> "reread", todo |-> pass[p].todo \ {i},
                           cond |-> i.cond, must |-> i.claim # None, open |-> TRUE]]
            /\ overtaken' = [overtaken EXCEPT ![i.cond] =
                               @ \/ \E q \in Passes : /\ pass[q].pc = "send"
                                                      /\ pass[q].cond = i.cond]
       ELSE /\ pass' = [pass EXCEPT ![p].todo = @ \ {i}]
            /\ UNCHANGED <<notice, overtaken>>
  /\ UNCHANGED <<askVars, tasks, posts, faults>>

(* _verified_reread after the claim *)
\* Mutant of Reread: the claim that was taken over is not looked into.
RereadTrusting(p) ==
  /\ pass[p].pc = "reread"
  /\ IF ~Fenced(p) THEN ItemDone(p)
     ELSE pass' = [pass EXCEPT
            ![p].open = ask.status = "open",
            ![p].pc = IF ask.status = "open" THEN "final"
                      ELSE IF pass[p].must THEN "read" ELSE "drop"]
  /\ UNCHANGED <<askVars, notice, tasks, posts, overtaken, faults>>

Reread(p) ==
  /\ pass[p].pc = "reread"
  /\ IF ~Fenced(p) THEN ItemDone(p)
     ELSE pass' = [pass EXCEPT
            ![p].open = ask.status = "open",
            ![p].pc = IF pass[p].must THEN "read"
                      ELSE IF ask.status = "open" THEN "final" ELSE "drop"]
  /\ UNCHANGED <<askVars, notice, tasks, posts, overtaken, faults>>

(* _disambiguate: the message is there, or a complete read shows it is not *)
ReadDestination(p) ==
  /\ pass[p].pc = "read"
  /\ Goto(p, IF posts[pass[p].cond] > 0 THEN "mark"
             ELSE IF pass[p].open THEN "final" ELSE "drop")
  /\ UNCHANGED <<askVars, notice, tasks, posts, overtaken, faults>>

(* ... or the read failed or was incomplete. *)
ReadUnknown(p) ==
  /\ pass[p].pc = "read"
  /\ ItemDone(p)
  /\ Fault
  /\ UNCHANGED <<askVars, notice, tasks, posts, overtaken>>

(* The last check before Slack. *)
FinalCheck(p) ==
  /\ pass[p].pc = "final"
  /\ IF ~Fenced(p) THEN ItemDone(p)
     ELSE Goto(p, IF ask.status = "open" THEN "send" ELSE "drop")
  /\ UNCHANGED <<askVars, notice, tasks, posts, overtaken, faults>>

Posted(c) == [posts EXCEPT ![c] = IF @ < 2 THEN @ + 1 ELSE 2]

SendAccepted(p) ==
  /\ pass[p].pc = "send"
  /\ posts' = Posted(pass[p].cond)
  /\ Goto(p, "mark")
  /\ UNCHANGED <<askVars, notice, tasks, overtaken, faults>>

(* SlackDeliveryError, another exception, or an answer without a timestamp:*)
(* Slack may have taken the message; the claim stays for a later reader.   *)
\* Mutant of SendUndecided: every error is a refusal.
SendFailed(p) ==
  /\ pass[p].pc = "send"
  /\ posts' \in {posts, Posted(pass[p].cond)}
  /\ Goto(p, "requeue")
  /\ Fault
  /\ UNCHANGED <<askVars, notice, tasks, overtaken>>

SendUndecided(p) ==
  /\ pass[p].pc = "send"
  /\ posts' \in {posts, Posted(pass[p].cond)}
  /\ ItemDone(p)
  /\ Fault
  /\ UNCHANGED <<askVars, notice, tasks, overtaken>>

(* SlackApiError: Slack refused. *)
SendRejected(p) ==
  /\ pass[p].pc = "send"
  /\ Goto(p, "requeue")
  /\ Fault
  /\ UNCHANGED <<askVars, notice, tasks, posts, overtaken>>

(* The fenced writes that end an item; one that lost its claim writes      *)
(* nothing.  (A delivered row keeps its stamp, which nobody reads again.)  *)
EndItem(p, pc, state) ==
  /\ pass[p].pc = pc
  /\ notice' = IF Fenced(p)
                 THEN [notice EXCEPT ![pass[p].cond] =
                         [state |-> state, claim |-> None, stale |-> FALSE]]
                 ELSE notice
  /\ ItemDone(p)
  /\ UNCHANGED <<askVars, tasks, posts, overtaken, faults>>

MarkDelivered(p) == EndItem(p, "mark", "delivered")

\* Mutant of Requeue: a state the outbox does not have.
RequeueAsFailed(p) == EndItem(p, "requeue", "failed")

Requeue(p) == EndItem(p, "requeue", "pending")
DropNotice(p) == EndItem(p, "drop", "superseded")

Finish(p) ==
  /\ pass[p].pc = "claim"
  /\ pass[p].todo = {}
  /\ pass' = [pass EXCEPT ![p] = IdlePass]
  /\ UNCHANGED <<askVars, notice, tasks, posts, overtaken, faults>>

(* An exception is contained: the pass goes on with its next item. *)
ItemFails(p) ==
  /\ pass[p].pc \notin {"idle", "claim", "send"}
  /\ ItemDone(p)
  /\ Fault
  /\ UNCHANGED <<askVars, notice, tasks, posts, overtaken>>

(* The process dies: its pass is gone, or the task it had not started. *)
PassDies(p) ==
  /\ pass[p].pc # "idle"
  /\ pass' = [pass EXCEPT ![p] = IdlePass]
  /\ Fault
  /\ UNCHANGED <<askVars, notice, tasks, posts, overtaken>>

TaskDies(c) ==
  /\ c \in tasks
  /\ tasks' = tasks \ {c}
  /\ Fault
  /\ UNCHANGED <<askVars, notice, pass, posts, overtaken>>

PassStep(p) ==
  \/ \E i \in pass[p].todo : Claim(p, i)
  \/ Reread(p)
  \/ ReadDestination(p)
  \/ ReadUnknown(p)
  \/ FinalCheck(p)
  \/ SendAccepted(p)
  \/ SendUndecided(p)
  \/ SendRejected(p)
  \/ MarkDelivered(p)
  \/ Requeue(p)
  \/ DropNotice(p)
  \/ Finish(p)

TaskStep(c) ==
  \/ TaskFindsNothing(c)
  \/ \E p \in Passes : RunTask(p, c)

Next ==
  \/ \E r \in Runs : AdmitAsk(r) \/ Route(r)
  \/ AnswerDelivered
  \/ InboundAnswer
  \/ ExpireDeferral
  \/ NoticeComesDue
  \/ DeferralIsLeft
  \/ \E c \in Conditions : RecordDeferral(c) \/ TaskStep(c) \/ TaskDies(c) \/ ClaimGrowsStale(c)
  \/ \E p \in Passes : Sweep(p) \/ PassStep(p) \/ ItemFails(p) \/ PassDies(p)

Spec == Init /\ [][Next]_vars

(* Each task of the event loop is run, and a pass that is running goes on. *)
(* Nothing is assumed of users, of Slack or of the sweeps.                 *)
Fairness ==
  /\ \A c \in Conditions : WF_vars(TaskStep(c))
  /\ \A p \in Passes : WF_vars(PassStep(p))

FairSpec == Spec /\ Fairness

-----------------------------------------------------------------------------
(* Properties *)

AskRow == [status : Statuses, origin : Runs \cup {None}, due : BOOLEAN, old : BOOLEAN]
NoticeRow == [state : States, claim : Passes \cup {None}, stale : BOOLEAN]
PassRow == [pc : Steps, todo : SUBSET Snapshots, cond : Conditions \cup {None},
            must : BOOLEAN, open : BOOLEAN]

TypeOK ==
  /\ kind \in Kinds
  /\ typed \in BOOLEAN
  /\ ask \in AskRow
  /\ admitted \subseteq Runs
  /\ notice \in [Conditions -> NoticeRow]
  /\ tasks \subseteq Conditions
  /\ pass \in [Passes -> PassRow]
  /\ posts \in [Conditions -> 0..2]
  /\ overtaken \in [Conditions -> BOOLEAN]
  /\ faults \in Nat

(* A notice is posted twice only when a claim went stale, and was taken     *)
(* over, while its holder's request was on its way to Slack: no crash, no   *)
(* unclear answer, no requeue and no second pass makes a duplicate.         *)
NoSecondPost == \A c \in Conditions : posts[c] > 1 => overtaken[c]

(* The outbox says what Slack shows: a delivered notice is there, one that  *)
(* is waiting or was superseded is not (a sender that was overtaken may     *)
(* still add its message).                                                  *)
HonestOutbox ==
  \A c \in Conditions :
    /\ notice[c].state = "delivered" => posts[c] > 0
    /\ notice[c].state \in {"none", "pending", "superseded"} =>
         posts[c] = 0 \/ overtaken[c]

(* A deferral that was answered or has expired stays so, and no condition   *)
(* that was not noticed before is noticed any more.                         *)
SettledDeferralStays ==
  [][kind = "run_deferral" /\ ask.status \in Terminal =>
       /\ ask'.status = ask.status
       /\ \A c \in Conditions : notice[c].state = "none" => notice'[c].state = "none"
    ]_vars

(* Without a fault, the notice of a deferral is delivered or superseded by  *)
(* the task its own commit started.  (A run with a typed spec is left out:  *)
(* its deferral never comes due, see Due.)                                  *)
DeferralIsNoticed ==
  \A c \in Conditions :
    kind = "run_deferral" /\ ~typed /\ notice[c].state \in {"pending", "posting"}
      ~> notice[c].state \in {"delivered", "superseded"} \/ faults > 0

(* "Failures are contained for a later sweep", "the periodic sweep is the   *)
(* fallback": a notice that can be claimed and is due is settled.           *)
NoticeSettles ==
  \A c \in Conditions :
    Claimable(c) /\ Due(c) ~> notice[c].state \in {"delivered", "superseded"}
=============================================================================
