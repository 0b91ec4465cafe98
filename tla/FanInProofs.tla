----------------------------- MODULE FanInProofs -----------------------------
(***************************************************************************)
(* Proofs about FanIn, for any number of workers.                          *)
(***************************************************************************)
EXTENDS FanIn, TLAPS

LEMMA MemberFacts ==
  /\ Anchor \in Members /\ Workers \subseteq Members /\ Nobody \notin Members
  /\ Anchor \notin Workers
BY MembersAssumption DEF Members

(***************************************************************************)
(* The lock discipline.  A terminal transaction is in progress exactly for *)
(* the run that holds the anchor's lock; its run is open until it commits; *)
(* and what it has seen is the committed state, but for its own write and  *)
(* for open workers that were canceled since.                              *)
(***************************************************************************)
SeenBy(r) ==
  \A s \in Members \ {r} :
    \/ txn[r].seen[s] = state[s]
    \/ txn[r].seen[s] = "open" /\ s \in Cancelable /\ state[s] = "canceled"

LockDiscipline ==
  \A r \in Members :
    /\ txn[r] # NoTxn <=> owner = r
    /\ txn[r] # NoTxn => state[r] = "open"
    /\ txn[r].phase = "observed" => SeenBy(r) /\ txn[r].seen[r] \in Settled

\* A worker that is to be joined exists.
JoinsSpawned == \A w \in joins : state[w] # "absent"

\* A continuation and its event are committed together.
Paired == \A c \in followUps : QueuedAs(c.kind)

IInv == TypeOK /\ LockDiscipline /\ JoinsSpawned /\ Paired /\ QueuedOnce /\ EvidenceHonest

LEMMA StateFacts ==
  /\ Settled \subseteq States /\ "open" \in States /\ "open" \notin Settled
  /\ "absent" \notin Settled /\ "absent" \in States
BY DEF States, Settled

\* The phases tell the three forms of a transaction apart.
LEMMA TxnFacts ==
  ASSUME TypeOK, NEW r \in Members
  PROVE  /\ txn[r] \in {NoTxn, Locked} \cup Observed
         /\ NoTxn # Locked
         /\ txn[r].phase = "observed" => /\ txn[r] # NoTxn
                                         /\ txn[r].seen \in [Members -> States]
         /\ NoTxn.phase # "observed" /\ Locked.phase # "observed"
<1>1. txn[r] \in {NoTxn, Locked} \cup Observed
  BY DEF TypeOK
<1>2. NoTxn.phase = "none" /\ Locked.phase = "locked"
  BY DEF NoTxn, Locked
<1>3. txn[r].phase = "observed" => txn[r] \in Observed
  BY <1>1, <1>2
<1>4. QED
  BY <1>1, <1>2, <1>3 DEF Observed

\* A complete barrier leaves nothing for a concurrent cancellation to change:
\* what the transaction has seen is what its commit leaves behind.
LEMMA BarrierSeen ==
  ASSUME TypeOK, LockDiscipline, NEW r \in Members, txn[r].phase = "observed",
         Barrier(txn[r].seen), state' = [state EXCEPT ![r] = txn[r].seen[r]]
  PROVE  state' = txn[r].seen
<1>1. txn[r].seen \in [Members -> States]
  BY TxnFacts
<1>2. SeenBy(r)
  BY DEF LockDiscipline
<1>3. ASSUME NEW s \in Members \ {r} PROVE txn[r].seen[s] = state[s]
  <2>1. txn[r].seen[s] # "open"
    BY StateFacts DEF Barrier, Spawned, Members
  <2>2. QED
    BY <1>2, <2>1 DEF SeenBy
<1>4. state' \in [Members -> States] /\ \A s \in Members : state'[s] = txn[r].seen[s]
  BY <1>1, <1>3 DEF TypeOK
<1>5. QED
  BY <1>1, <1>4

(***************************************************************************)
(* The hook.                                                               *)
(***************************************************************************)

LEMMA HookTyped ==
  ASSUME TypeOK, NEW seen \in [Members -> States], Hook(seen)
  PROVE  /\ receipt' \in {"none", "ok", "degraded"}
         /\ queued' \in SUBSET [kind : Kinds, workers : SUBSET Workers]
         /\ followUps' \in SUBSET [kind : Kinds, workers : SUBSET Workers, degraded : BOOLEAN]
         /\ blocked' \in BOOLEAN
<1>1. receipt' \in {"none", "ok", "degraded"}
  BY DEF Hook, EvidenceHealth, TypeOK
<1>2. Kind \in Kinds /\ Spawned(seen) \in SUBSET Workers
  BY DEF Kind, Kinds, Spawned
<1>3. CASE QueueContinuation(seen)
  <2>1. [kind |-> Kind, workers |-> Spawned(seen), degraded |-> EvidenceHealth(seen) = "degraded"]
          \in [kind : Kinds, workers : SUBSET Workers, degraded : BOOLEAN]
    BY <1>2
  <2>2. [kind |-> Kind, workers |-> Spawned(seen)] \in [kind : Kinds, workers : SUBSET Workers]
    BY <1>2
  <2>3. QED
    BY <1>1, <1>3, <2>1, <2>2 DEF QueueContinuation, TypeOK
<1>4. CASE UNCHANGED <<queued, followUps>>
  BY <1>1, <1>4 DEF Hook, TypeOK, QueueContinuation
<1>5. QED
  BY <1>3, <1>4 DEF Hook

\* What the hook adds: at most one continuation, for a barrier that is complete
\* in what it has seen, with its event, and the first of its kind.
LEMMA HookAdds ==
  ASSUME TypeOK, Paired, NEW seen \in [Members -> States], Hook(seen)
  PROVE  \/ UNCHANGED <<queued, followUps>> /\ (Wanted(seen) => blocked')
         \/ /\ Wanted(seen) /\ UNCHANGED blocked
            /\ \A c \in followUps : c.kind # Kind
            /\ followUps' = followUps \cup
                 {[kind |-> Kind, workers |-> Spawned(seen),
                   degraded |-> EvidenceHealth(seen) = "degraded"]}
            /\ queued' = queued \cup {[kind |-> Kind, workers |-> Spawned(seen)]}
<1>1. CASE Wanted(seen) /\ QueueContinuation(seen)
  <2>1. ~QueuedAs(Kind)
    BY <1>1 DEF Wanted, Kind
  <2>2. \A c \in followUps : c.kind # Kind
    BY <2>1 DEF Paired
  <2>3. QED
    BY <1>1, <2>2 DEF QueueContinuation
<1>2. QED
  BY <1>1 DEF Hook

\* Continuations and events after a hook, given that a complete barrier it has
\* seen is the one it leaves behind.
LEMMA HookKeeps ==
  ASSUME TypeOK, Paired, QueuedOnce, EvidenceHonest,
         NEW seen \in [Members -> States], Hook(seen),
         Barrier(seen) => state' = seen,
         \A w \in Workers : state[w] = "completed" => state'[w] = "completed"
  PROVE  /\ Paired' /\ QueuedOnce' /\ EvidenceHonest'
         /\ \A c \in followUps' \ followUps :
              Barrier(state') /\ c.workers = Spawned(state')
<1> DEFINE new == [kind |-> Kind, workers |-> Spawned(seen),
                   degraded |-> EvidenceHealth(seen) = "degraded"]
           event == [kind |-> Kind, workers |-> Spawned(seen)]
<1>1. \A c \in followUps : ~c.degraded => \A w \in c.workers : state'[w] = "completed"
  BY DEF EvidenceHonest, TypeOK
<1>2. CASE UNCHANGED <<queued, followUps>>
  BY <1>1, <1>2 DEF Paired, QueuedOnce, EvidenceHonest, QueuedAs
<1>3. CASE /\ Wanted(seen)
           /\ \A c \in followUps : c.kind # Kind
           /\ followUps' = followUps \cup {new}
           /\ queued' = queued \cup {event}
  <2>1. new.kind = Kind /\ new.workers = Spawned(seen)
        /\ (new.degraded <=> EvidenceHealth(seen) = "degraded")
    OBVIOUS
  <2>2. event.kind = Kind /\ event.workers = Spawned(seen)
    OBVIOUS
  <2> HIDE DEF new, event
  <2>3. Barrier(seen) /\ state' = seen
    BY <1>3 DEF Wanted
  <2>4. Paired'
    BY <1>3, <2>1, <2>2 DEF Paired, QueuedAs
  <2>5. QueuedOnce'
    BY <1>3, <2>1, <2>2 DEF QueuedOnce
  <2>6. ~new.degraded => \A w \in new.workers : state'[w] = "completed"
    <3> SUFFICES ASSUME ~new.degraded, NEW w \in Spawned(seen) PROVE seen[w] = "completed"
      BY <2>1, <2>3
    <3>1. seen[w] \in Settled
      BY <2>3 DEF Barrier
    <3>2. QED
      BY <2>1, <3>1 DEF EvidenceHealth
  <2>7. EvidenceHonest'
    BY <1>1, <1>3, <2>6 DEF EvidenceHonest
  <2>8. QED
    BY <1>3, <2>1, <2>3, <2>4, <2>5, <2>7
<1>4. QED
  BY <1>2, <1>3, HookAdds

(***************************************************************************)
(* The inductive step, one lemma per kind of step.                         *)
(***************************************************************************)

LEMMA IInvInit == Init => IInv
<1> SUFFICES ASSUME Init PROVE IInv
  OBVIOUS
<1>1. TypeOK
  BY StateFacts, MemberFacts DEF Init, TypeOK
<1>2. LockDiscipline
  BY <1>1, TxnFacts, MemberFacts DEF Init, LockDiscipline
<1>3. QED
  BY <1>1, <1>2 DEF IInv, Init, JoinsSpawned, Paired, QueuedOnce, EvidenceHonest
\* Steps that touch neither the rows nor what follows from them.
LEMMA QuietStep ==
  ASSUME IInv, TypeOK', UNCHANGED <<state, joins, queued, followUps, owner, txn>>
  PROVE  IInv'
BY DEF IInv, LockDiscipline, SeenBy, JoinsSpawned, Paired, QueuedAs, QueuedOnce, EvidenceHonest

LEMMA SurroundingsStep ==
  ASSUME IInv, \/ EnterRecipe \/ LeaveRecipe \/ DeclareChantier \/ CredentialChanges
               \/ DeleteThread \/ GiveUp \/ EvidenceLost
  PROVE  IInv' /\ UNCHANGED <<state, joins, queued, followUps, blocked, owner>>
<1>1. UNCHANGED <<state, joins, queued, followUps, blocked, owner, txn>>
  BY DEF EnterRecipe, LeaveRecipe, DeclareChantier, CredentialChanges, DeleteThread, GiveUp,
         EvidenceLost, surroundings, followVars
<1>2. TypeOK'
  <2>1. CASE EnterRecipe \/ LeaveRecipe
    BY <2>1 DEF IInv, TypeOK, EnterRecipe, LeaveRecipe, followVars
  <2>2. CASE DeclareChantier
    BY <2>2 DEF IInv, TypeOK, DeclareChantier, followVars
  <2>3. CASE CredentialChanges
    BY <2>3 DEF IInv, TypeOK, CredentialChanges, followVars
  <2>4. CASE DeleteThread
    BY <2>4 DEF IInv, TypeOK, DeleteThread, followVars
  <2>5. CASE GiveUp
    BY <2>5 DEF IInv, TypeOK, GiveUp, surroundings, followVars
  <2>6. CASE EvidenceLost
    BY <2>6 DEF IInv, TypeOK, EvidenceLost, surroundings
  <2>7. QED
    BY <2>1, <2>2, <2>3, <2>4, <2>5, <2>6
<1>3. QED
  BY <1>1, <1>2, QuietStep

\* Taking the locks, and running the queries: the rows stay as they are.
LEMMA LockStep ==
  ASSUME IInv, NEW r \in Members, LockBoundary(r) \/ Observe(r)
  PROVE  IInv' /\ UNCHANGED <<state, joins, queued, followUps, blocked>> /\ owner' # Nobody
<1> USE MemberFacts, StateFacts
<1>1. CASE LockBoundary(r)
  <2>1. TypeOK'
    BY <1>1 DEF IInv, TypeOK, LockBoundary, surroundings, followVars
  <2>2. LockDiscipline'
    BY <1>1, TxnFacts DEF IInv, TypeOK, LockBoundary, LockDiscipline, SeenBy
  <2>3. QED
    BY <1>1, <2>1, <2>2
    DEF IInv, LockBoundary, surroundings, followVars, JoinsSpawned, Paired, QueuedAs, QueuedOnce,
        EvidenceHonest
<1>2. CASE Observe(r)
  <2>1. PICK outcome \in Settled :
          txn' = [txn EXCEPT ![r] = [phase |-> "observed", seen |-> [state EXCEPT ![r] = outcome]]]
    BY <1>2 DEF Observe
  <2> DEFINE t == [phase |-> "observed", seen |-> [state EXCEPT ![r] = outcome]]
  <2>2. t \in Observed /\ t.phase = "observed" /\ t.seen = [state EXCEPT ![r] = outcome]
    BY DEF IInv, TypeOK, Observed
  <2>3. t # NoTxn
    BY <2>2 DEF NoTxn
  <2> HIDE DEF t
  <2>4. txn' = [txn EXCEPT ![r] = t] /\ txn[r] = Locked
    BY <1>2, <2>1 DEF t, Observe
  <2>5. UNCHANGED <<state, surroundings, followVars, givenUp, owner>>
    BY <1>2 DEF Observe
  <2>6. TypeOK'
    BY <2>2, <2>4, <2>5 DEF IInv, TypeOK, surroundings, followVars
  <2>7. owner = r
    BY <2>4, TxnFacts DEF IInv, LockDiscipline
  <2>8. LockDiscipline'
    <3> SUFFICES ASSUME NEW s \in Members
                 PROVE  /\ txn'[s] # NoTxn <=> owner' = s
                        /\ txn'[s] # NoTxn => state'[s] = "open"
                        /\ txn'[s].phase = "observed" =>
                             SeenBy(s)' /\ txn'[s].seen[s] \in Settled
      BY DEF LockDiscipline
    <3>1. CASE s = r
      <4>1. txn'[r] = t
        BY <2>4 DEF IInv, TypeOK
      <4>2. state[r] = "open"
        BY <2>4, TxnFacts DEF IInv, LockDiscipline
      <4>3. t.seen[r] = outcome /\ \A q \in Members \ {r} : t.seen[q] = state[q]
        BY <2>2 DEF IInv, TypeOK
      <4>4. QED
        BY <2>3, <2>5, <2>7, <3>1, <4>1, <4>2, <4>3 DEF SeenBy
    <3>2. CASE s # r
      BY <2>4, <2>5, <3>2 DEF IInv, TypeOK, LockDiscipline, SeenBy
    <3>3. QED
      BY <3>1, <3>2
  <2>9. QED
    BY <2>5, <2>6, <2>7, <2>8
    DEF IInv, surroundings, followVars, JoinsSpawned, Paired, QueuedAs, QueuedOnce, EvidenceHonest
<1>3. QED
  BY <1>1, <1>2

\* A transaction that ends leaves no lock and no transaction behind.
LEMMA EndTxnLocks ==
  ASSUME TypeOK, LockDiscipline, NEW r \in Members, txn[r].phase = "observed", EndTxn(r)
  PROVE  /\ owner = r /\ owner' = Nobody
         /\ \A s \in Members : txn'[s] = NoTxn
         /\ LockDiscipline'
<1>1. owner = r
  BY TxnFacts DEF LockDiscipline
<1>2. \A s \in Members : txn'[s] = NoTxn
  BY <1>1 DEF EndTxn, TypeOK, LockDiscipline
<1>3. QED
  BY <1>1, <1>2, TxnFacts, MemberFacts DEF EndTxn, LockDiscipline

LEMMA RollBackStep ==
  ASSUME IInv, NEW r \in Members, RollBack(r)
  PROVE  IInv' /\ UNCHANGED <<state, joins, queued, followUps, blocked>> /\ state[r] = "open"
<1>1. TypeOK'
  BY MemberFacts DEF IInv, TypeOK, RollBack, EndTxn, surroundings, followVars
<1>2. LockDiscipline' /\ owner = r
  BY EndTxnLocks DEF IInv, RollBack
<1>3. state[r] = "open"
  BY TxnFacts DEF IInv, RollBack, LockDiscipline
<1>4. QED
  BY <1>1, <1>2, <1>3
  DEF IInv, RollBack, EndTxn, surroundings, followVars, JoinsSpawned, Paired, QueuedAs, QueuedOnce,
      EvidenceHonest

LEMMA CommitStep ==
  ASSUME IInv, NEW r \in Members, Commit(r)
  PROVE  /\ IInv'
         /\ \A c \in followUps' \ followUps : Barrier(state') /\ c.workers = Spawned(state')
<1> DEFINE seen == txn[r].seen
<1>1. /\ TypeOK /\ LockDiscipline /\ Paired /\ QueuedOnce /\ EvidenceHonest /\ JoinsSpawned
      /\ txn[r].phase = "observed" /\ Hook(seen) /\ EndTxn(r)
      /\ state' = [state EXCEPT ![r] = seen[r]]
  BY DEF IInv, Commit
<1>2. seen \in [Members -> States] /\ seen[r] \in Settled /\ state[r] = "open"
  BY <1>1, TxnFacts DEF LockDiscipline
<1>3. Barrier(seen) => state' = seen
  BY <1>1, BarrierSeen
<1> HIDE DEF seen
<1>4. \A s \in Members : state'[s] = IF s = r THEN seen[r] ELSE state[s]
  BY <1>1 DEF TypeOK
<1>5. \A w \in Workers : state[w] = "completed" => state'[w] = "completed"
  BY <1>2, <1>4, MemberFacts
<1>6. /\ Paired' /\ QueuedOnce' /\ EvidenceHonest'
      /\ \A c \in followUps' \ followUps : Barrier(state') /\ c.workers = Spawned(state')
  BY <1>1, <1>2, <1>3, <1>5, HookKeeps
<1>7. TypeOK'
  BY <1>1, <1>2, HookTyped, StateFacts, MemberFacts DEF TypeOK, EndTxn, surroundings
<1>8. LockDiscipline'
  BY <1>1, EndTxnLocks
<1>9. JoinsSpawned'
  BY <1>1, <1>2, <1>4, StateFacts, MemberFacts DEF JoinsSpawned, TypeOK, EndTxn, surroundings
<1>10. QED
  BY <1>6, <1>7, <1>8, <1>9 DEF IInv

LEMMA RecoverStep ==
  ASSUME IInv, Recover
  PROVE  /\ IInv'
         /\ \A c \in followUps' \ followUps : Barrier(state') /\ c.workers = Spawned(state')
<1>1. state \in [Members -> States] /\ Hook(state)
      /\ UNCHANGED <<state, surroundings, givenUp, owner, txn>>
  BY DEF IInv, TypeOK, Recover
<1>2. /\ Paired' /\ QueuedOnce' /\ EvidenceHonest'
      /\ \A c \in followUps' \ followUps : Barrier(state') /\ c.workers = Spawned(state')
  BY <1>1, HookKeeps DEF IInv
<1>3. TypeOK'
  BY <1>1, HookTyped DEF IInv, TypeOK, surroundings
<1>4. QED
  BY <1>1, <1>2, <1>3 DEF IInv, LockDiscipline, SeenBy, JoinsSpawned, surroundings

\* A worker is inserted, or a run canceled, behind the back of no transaction
\* that could have seen a complete barrier with it.
LEMMA SpawnStep ==
  ASSUME IInv, NEW w \in Workers, Spawn(w)
  PROVE  IInv' /\ UNCHANGED <<queued, followUps, blocked, owner>> /\ state'[w] = "open"
<1> USE MemberFacts, StateFacts
<1>1. UNCHANGED <<queued, followUps, blocked, owner, txn>>
  BY DEF Spawn, followVars
<1>2. \A s \in Members : state'[s] = IF s = w THEN "open" ELSE state[s]
  BY DEF Spawn, IInv, TypeOK
<1>3. TypeOK'
  BY DEF Spawn, IInv, TypeOK, followVars
<1>4. LockDiscipline'
  <2>1. \A r \in Members : txn[r] = NoTxn
    BY DEF Spawn, IInv, LockDiscipline
  <2>2. QED
    BY <1>1, <2>1, <1>3, TxnFacts DEF IInv, LockDiscipline
<1>5. JoinsSpawned'
  BY <1>2 DEF Spawn, IInv, TypeOK, JoinsSpawned
<1>6. EvidenceHonest'
  BY <1>1, <1>2 DEF Spawn, IInv, TypeOK, EvidenceHonest
<1>7. QED
  BY <1>1, <1>2, <1>3, <1>4, <1>5, <1>6 DEF IInv, Paired, QueuedAs, QueuedOnce

LEMMA CancelStep ==
  ASSUME IInv, NEW r \in Members, CancelRun(r)
  PROVE  IInv' /\ UNCHANGED followUps
<1> USE MemberFacts, StateFacts
<1>1. UNCHANGED <<joins, queued, followUps, owner, txn>>
  BY DEF CancelRun, surroundings, followVars
<1>2. \A s \in Members : state'[s] = IF s = r THEN "canceled" ELSE state[s]
  BY DEF CancelRun, IInv, TypeOK
<1>3. TypeOK'
  BY DEF CancelRun, IInv, TypeOK, surroundings, followVars, Settled
<1>4. LockDiscipline'
  BY <1>1, <1>2 DEF CancelRun, IInv, LockDiscipline, SeenBy
<1>5. EvidenceHonest'
  BY <1>1, <1>2 DEF CancelRun, IInv, TypeOK, EvidenceHonest
<1>6. QED
  BY <1>1, <1>2, <1>3, <1>4, <1>5 DEF IInv, TypeOK, JoinsSpawned, Paired, QueuedAs, QueuedOnce

\* One step: the invariant is kept, and a continuation is admitted only for a
\* complete barrier and with all of its workers.
LEMMA IInvNext ==
  ASSUME IInv, [Next]_vars
  PROVE  /\ IInv'
         /\ \A c \in followUps' \ followUps : Barrier(state') /\ c.workers = Spawned(state')
<1>1. CASE \E r \in Members : LockBoundary(r) \/ Observe(r)
  BY <1>1, LockStep
<1>2. CASE \E r \in Members : Commit(r)
  BY <1>2, CommitStep
<1>3. CASE \E r \in Members : RollBack(r)
  BY <1>3, RollBackStep
<1>4. CASE \E r \in Members : CancelRun(r)
  BY <1>4, CancelStep
<1>5. CASE \E w \in Workers : Spawn(w)
  BY <1>5, SpawnStep
<1>6. CASE Recover
  BY <1>6, RecoverStep
<1>7. CASE \/ EnterRecipe \/ LeaveRecipe \/ DeclareChantier \/ CredentialChanges
           \/ DeleteThread \/ GiveUp \/ EvidenceLost
  BY <1>7, SurroundingsStep
<1>8. CASE UNCHANGED vars
  <2>1. UNCHANGED <<state, joins, queued, followUps, owner, txn>> /\ TypeOK'
    BY <1>8 DEF IInv, TypeOK, vars, surroundings, followVars
  <2>2. QED
    BY <2>1, QuietStep
<1>9. QED
  BY <1>1, <1>2, <1>3, <1>4, <1>5, <1>6, <1>7, <1>8 DEF Next

LEMMA Invariance == Spec => []IInv
<1>1. IInv /\ [Next]_vars => IInv'
  BY IInvNext
<1>2. QED
  BY <1>1, IInvInit, PTL DEF Spec

\* Types, for any number of workers.
THEOREM FanInTypeCorrect == Spec => []TypeOK
<1>1. IInv => TypeOK
  BY DEF IInv
<1>2. QED
  BY <1>1, Invariance, PTL

\* However many workers a fan-out has and whenever they are spawned, it gets at
\* most one continuation of a kind, and the event names its workers.
THEOREM QueuedOnceTheorem == Spec => []QueuedOnce
<1>1. IInv => QueuedOnce
  BY DEF IInv
<1>2. QED
  BY <1>1, Invariance, PTL

\* A continuation that is told that nothing is missing is told the truth, also
\* when runs are canceled while the hook runs.
THEOREM EvidenceTheorem == Spec => []EvidenceHonest
<1>1. IInv => EvidenceHonest
  BY DEF IInv
<1>2. QED
  BY <1>1, Invariance, PTL

\* A continuation is admitted for a complete fan-out and with all its workers.
THEOREM LeftBehindTheorem == Spec => NoWorkerLeftBehind
<1>1. IInv /\ [Next]_vars =>
        [\A c \in followUps' \ followUps :
           Barrier(state') /\ c.workers = Spawned(state')]_vars
  BY IInvNext
<1>2. QED
  BY <1>1, Invariance, PTL DEF Spec, NoWorkerLeftBehind

(***************************************************************************)
(* The continuation is not lost, but by a cancellation.                    *)
(***************************************************************************)

\* A run that is open keeps the barrier incomplete.
LEMMA OpenBlocksBarrier ==
  ASSUME NEW s, NEW r \in Members, s[r] = "open"
  PROVE  ~Barrier(s)
BY StateFacts DEF Barrier, Spawned, Members

\* The hook on a complete barrier that is to be joined.
LEMMA HookContinues ==
  ASSUME TypeOK, Paired, NEW seen \in [Members -> States], Hook(seen), Barrier(seen),
         joins \cap Spawned(seen) # {}
  PROVE  queued' # {} \/ blocked'
<1>1. CASE Wanted(seen)
  BY <1>1, HookAdds
<1>2. CASE ~Wanted(seen)
  <2>1. \E k \in Kinds : QueuedAs(k)
    BY <1>2 DEF Wanted, Kinds
  <2>2. queued # {} /\ UNCHANGED queued
    BY <1>2, <2>1 DEF QueuedAs, Hook
  <2>3. QED
    BY <2>2
<1>3. QED
  BY <1>1, <1>2

LEMMA HookKeepsContinuation ==
  ASSUME TypeOK, Paired, NEW seen \in [Members -> States], Hook(seen), queued # {} \/ blocked
  PROVE  queued' # {} \/ blocked'
BY HookAdds DEF Hook

\* A transaction that has seen all others as they are continues the fan-out
\* that it completes.
LEMMA CommitContinues ==
  ASSUME IInv, NEW r \in Members, Commit(r), Barrier(state'), joins' # {},
         \A s \in Members \ {r} : txn[r].seen[s] = state[s]
  PROVE  queued' # {} \/ blocked'
<1> DEFINE seen == txn[r].seen
<1>1. /\ TypeOK /\ LockDiscipline /\ Paired /\ JoinsSpawned /\ Hook(seen) /\ UNCHANGED joins
      /\ txn[r].phase = "observed" /\ state' = [state EXCEPT ![r] = seen[r]]
  BY DEF IInv, Commit, EndTxn, surroundings
<1>2. /\ seen \in [Members -> States] /\ seen[r] \in Settled
      /\ \A s \in Members \ {r} : seen[s] = state[s]
  BY <1>1, TxnFacts DEF LockDiscipline
<1> HIDE DEF seen
<1>3. \A s \in Members : state'[s] = seen[s]
  BY <1>1, <1>2 DEF TypeOK
<1>4. state' = seen
  BY <1>1, <1>2, <1>3 DEF TypeOK
<1>5. joins \cap Spawned(seen) # {}
  BY <1>1, <1>2, StateFacts, MemberFacts DEF JoinsSpawned, Spawned, TypeOK
<1>6. QED
  BY <1>1, <1>2, <1>4, <1>5, HookContinues

LEMMA ContinuedNext ==
  ASSUME IInv, ContinuedUnlessCanceled, [Next]_vars
  PROVE  ContinuedUnlessCanceled'
<1> SUFFICES ASSUME Barrier(state'), joins' # {}, owner' = Nobody,
                    \A r \in Cancelable : state'[r] # "canceled"
             PROVE  queued' # {} \/ blocked'
  BY DEF ContinuedUnlessCanceled, BarrierContinued, Barrier, Spawned
<1>1. CASE \E r \in Members : LockBoundary(r) \/ Observe(r)
  BY <1>1, LockStep
<1>2. ASSUME NEW r \in Members, Commit(r) PROVE queued' # {} \/ blocked'
  <2>1. /\ TypeOK /\ LockDiscipline /\ txn[r].phase = "observed"
        /\ state' = [state EXCEPT ![r] = txn[r].seen[r]]
    BY <1>2 DEF IInv, Commit
  <2>2. \A s \in Members \ {r} : txn[r].seen[s] = state[s]
    BY <2>1 DEF LockDiscipline, SeenBy, TypeOK
  <2>3. QED
    BY <1>2, <2>2, CommitContinues
<1>3. ASSUME NEW r \in Members, RollBack(r) PROVE FALSE
  BY <1>3, RollBackStep, OpenBlocksBarrier
<1>4. ASSUME NEW r \in Members, CancelRun(r) PROVE FALSE
  BY <1>4, CancelableAssumption DEF CancelRun, IInv, TypeOK
<1>5. ASSUME NEW w \in Workers, Spawn(w) PROVE FALSE
  BY <1>5, SpawnStep, OpenBlocksBarrier, MemberFacts
<1>6. CASE Recover
  BY <1>6, HookKeepsContinuation
  DEF IInv, TypeOK, Recover, Recoverable, ContinuedUnlessCanceled, BarrierContinued, surroundings
<1>7. CASE \/ EnterRecipe \/ LeaveRecipe \/ DeclareChantier \/ CredentialChanges
           \/ DeleteThread \/ GiveUp \/ EvidenceLost
  BY <1>7, SurroundingsStep DEF ContinuedUnlessCanceled, BarrierContinued
<1>8. CASE UNCHANGED vars
  BY <1>8 DEF ContinuedUnlessCanceled, BarrierContinued, vars, surroundings, followVars
<1>9. QED
  BY <1>1, <1>2, <1>3, <1>4, <1>5, <1>6, <1>7, <1>8 DEF Next

\* A joined fan-out of any size gets its continuation from whoever settles
\* last, or waits for a sign-in, unless a person canceled a member.
THEOREM ContinuationTheorem == Spec => []ContinuedUnlessCanceled
<1>1. Init => ContinuedUnlessCanceled
  BY DEF Init, ContinuedUnlessCanceled, BarrierContinued
<1>2. IInv /\ ContinuedUnlessCanceled /\ [Next]_vars => ContinuedUnlessCanceled'
  BY ContinuedNext
<1>3. QED
  BY <1>1, <1>2, Invariance, PTL DEF Spec

(***************************************************************************)
(* What would rule the finding on BarrierContinued out.  It is not enough  *)
(* that a cancellation is never the last to settle: one that commits       *)
(* between the queries of the last transaction and its commit is not seen  *)
(* by its hook.  It is enough that cancellations also wait for the lock on *)
(* the anchor's row.                                                       *)
(***************************************************************************)
CancelsInTurn ==
  [][\A r \in Members : CancelRun(r) => owner = Nobody /\ ~Barrier(state')]_vars

SeenExactly ==
  \A r \in Members : txn[r].phase = "observed" =>
    \A s \in Members \ {r} : txn[r].seen[s] = state[s]

LEMMA SeenExactlyNext ==
  ASSUME IInv, SeenExactly, [Next]_vars,
         [\A r \in Members : CancelRun(r) => owner = Nobody /\ ~Barrier(state')]_vars
  PROVE  SeenExactly'
<1> USE TxnFacts, MemberFacts
<1>0. TypeOK /\ LockDiscipline
  BY DEF IInv
<1>1. CASE \E r \in Members : LockBoundary(r)
  BY <1>0, <1>1 DEF LockBoundary, SeenExactly, TypeOK
<1>2. ASSUME NEW r \in Members, Observe(r) PROVE SeenExactly'
  <2>1. PICK outcome \in Settled :
          txn' = [txn EXCEPT ![r] = [phase |-> "observed", seen |-> [state EXCEPT ![r] = outcome]]]
    BY <1>2 DEF Observe
  <2>2. state' = state
    BY <1>2 DEF Observe
  <2>3. \A s \in Members \ {r} : txn'[r].seen[s] = state[s]
    BY <1>0, <2>1 DEF TypeOK
  <2>4. \A q \in Members \ {r} : txn'[q] = txn[q]
    BY <1>0, <2>1 DEF TypeOK
  <2>5. QED
    BY <2>2, <2>3, <2>4 DEF SeenExactly
<1>3. ASSUME NEW r \in Members, Commit(r) \/ RollBack(r) PROVE SeenExactly'
  <2>1. \A s \in Members : txn'[s] = NoTxn
    BY <1>0, <1>3, EndTxnLocks DEF Commit, RollBack
  <2>2. QED
    BY <1>0, <2>1 DEF SeenExactly
<1>4. ASSUME NEW r \in Members, CancelRun(r) PROVE SeenExactly'
  <2>1. state' # state
    BY <1>0, <1>4 DEF CancelRun, TypeOK
  <2>2. owner = Nobody /\ txn' = txn
    BY <1>4, <2>1 DEF CancelRun, vars
  <2>3. \A s \in Members : txn'[s] = NoTxn
    BY <1>0, <2>2 DEF LockDiscipline
  <2>4. QED
    BY <1>0, <2>3 DEF SeenExactly
<1>5. ASSUME NEW w \in Workers, Spawn(w) PROVE SeenExactly'
  <2>1. \A s \in Members : txn'[s] = NoTxn
    BY <1>0, <1>5 DEF Spawn, LockDiscipline
  <2>2. QED
    BY <1>0, <2>1 DEF SeenExactly
<1>6. CASE \/ EnterRecipe \/ LeaveRecipe \/ DeclareChantier \/ CredentialChanges
           \/ DeleteThread \/ GiveUp \/ EvidenceLost \/ Recover
  <2>1. UNCHANGED <<state, txn>>
    BY <1>6 DEF EnterRecipe, LeaveRecipe, DeclareChantier, CredentialChanges, DeleteThread,
                GiveUp, EvidenceLost, Recover
  <2>2. QED
    BY <2>1 DEF SeenExactly
<1>7. CASE UNCHANGED vars
  BY <1>7 DEF SeenExactly, vars
<1>8. QED
  BY <1>1, <1>2, <1>3, <1>4, <1>5, <1>6, <1>7 DEF Next

LEMMA InTurnNext ==
  ASSUME IInv, SeenExactly, BarrierContinued, [Next]_vars,
         [\A r \in Members : CancelRun(r) => owner = Nobody /\ ~Barrier(state')]_vars
  PROVE  BarrierContinued'
<1> SUFFICES ASSUME Barrier(state'), joins' # {}, owner' = Nobody
             PROVE  queued' # {} \/ blocked'
  BY DEF BarrierContinued, Barrier, Spawned
<1>1. CASE \E r \in Members : LockBoundary(r) \/ Observe(r)
  BY <1>1, LockStep
<1>2. ASSUME NEW r \in Members, Commit(r) PROVE queued' # {} \/ blocked'
  BY <1>2, CommitContinues DEF SeenExactly, Commit
<1>3. ASSUME NEW r \in Members, RollBack(r) PROVE FALSE
  BY <1>3, RollBackStep, OpenBlocksBarrier
<1>4. ASSUME NEW r \in Members, CancelRun(r) PROVE FALSE
  <2>1. state' # state
    BY <1>4 DEF CancelRun, IInv, TypeOK
  <2>2. QED
    BY <1>4, <2>1 DEF vars
<1>5. ASSUME NEW w \in Workers, Spawn(w) PROVE FALSE
  BY <1>5, SpawnStep, OpenBlocksBarrier, MemberFacts
<1>6. CASE Recover
  BY <1>6, HookKeepsContinuation
  DEF IInv, TypeOK, Recover, Recoverable, BarrierContinued, surroundings
<1>7. CASE \/ EnterRecipe \/ LeaveRecipe \/ DeclareChantier \/ CredentialChanges
           \/ DeleteThread \/ GiveUp \/ EvidenceLost
  BY <1>7, SurroundingsStep DEF BarrierContinued
<1>8. CASE UNCHANGED vars
  BY <1>8 DEF BarrierContinued, vars, surroundings, followVars
<1>9. QED
  BY <1>1, <1>2, <1>3, <1>4, <1>5, <1>6, <1>7, <1>8 DEF Next

\* Where cancellations take their turn at the anchor's lock and leave another
\* member to settle last, a joined fan-out of any size is continued.
THEOREM CancelsInTurnContinue == Spec /\ CancelsInTurn => []BarrierContinued
<1>1. Init => SeenExactly /\ BarrierContinued
  BY DEF Init, SeenExactly, BarrierContinued, NoTxn
<1>2. /\ IInv /\ SeenExactly /\ BarrierContinued /\ [Next]_vars
      /\ [\A r \in Members : CancelRun(r) => owner = Nobody /\ ~Barrier(state')]_vars
      => (SeenExactly /\ BarrierContinued)'
  BY SeenExactlyNext, InTurnNext
<1>3. QED
  BY <1>1, <1>2, Invariance, PTL DEF Spec, CancelsInTurn

(***************************************************************************)
(* The members of a fan-out live as AgentRun says: FanIn lets nothing      *)
(* happen to a run that its row would not allow.                           *)
(***************************************************************************)
Life == INSTANCE RunLife WITH Runs <- Members, Endings <- Settled, life <- state

\* A worker is spawned once, and no terminal transaction, however long it was
\* under way, writes over an outcome or over a cancellation.
THEOREM MembersLive == Spec => Life!Spec
<1>1. Init => Life!Init
  BY DEF Init, Life!Init
<1>2. IInv /\ [Next]_vars => [Life!Next]_state
  <2> SUFFICES ASSUME IInv, [Next]_vars PROVE [Life!Next]_state
    OBVIOUS
  <2>1. CASE \E r \in Members : LockBoundary(r) \/ Observe(r) \/ RollBack(r)
    BY <2>1 DEF LockBoundary, Observe, RollBack
  <2>2. ASSUME NEW r \in Members, Commit(r) PROVE Life!Settle(r)
    <3>1. txn[r].phase = "observed" /\ state' = [state EXCEPT ![r] = txn[r].seen[r]]
      BY <2>2 DEF Commit
    <3>2. state[r] = "open" /\ txn[r].seen[r] \in Settled
      BY <3>1, TxnFacts DEF IInv, LockDiscipline
    <3>3. QED
      BY <3>1, <3>2 DEF Life!Settle
  <2>3. ASSUME NEW r \in Members, CancelRun(r) PROVE Life!Settle(r)
    BY <2>3 DEF CancelRun, Settled, Life!Settle
  <2>4. ASSUME NEW w \in Workers, Spawn(w) PROVE Life!Admit(w)
    BY <2>4 DEF Spawn, Life!Admit
  <2>5. CASE Recover \/ GiveUp \/ EvidenceLost
    BY <2>5 DEF Recover, GiveUp, EvidenceLost
  <2>6. CASE EnterRecipe \/ LeaveRecipe \/ DeclareChantier \/ CredentialChanges \/ DeleteThread
    BY <2>6 DEF EnterRecipe, LeaveRecipe, DeclareChantier, CredentialChanges, DeleteThread
  <2>7. CASE UNCHANGED vars
    BY <2>7 DEF vars
  <2>8. QED
    BY <2>1, <2>2, <2>3, <2>4, <2>5, <2>6, <2>7, MemberFacts DEF Next, Life!Next
<1>3. QED
  BY <1>1, <1>2, Invariance, PTL DEF Spec, Life!Spec
=============================================================================
