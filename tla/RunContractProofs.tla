-------------------------- MODULE RunContractProofs --------------------------
(***************************************************************************)
(* What follows from the contract of the run store alone, without a look   *)
(* at slots, leases and sweeps.  AgentRunProofs takes it over for the rows *)
(* of AgentRun.                                                            *)
(***************************************************************************)
EXTENDS RunContract, TLAPS

(***************************************************************************)
(* The executions that were entered were granted, and no more are granted  *)
(* than one for the admission and one for each requeue.                    *)
(***************************************************************************)
Budgeted ==
  /\ phase \in [Runs -> {"absent", "open"} \cup Outcomes]
  /\ allowance \in [Runs -> 0..(MaxRequeues + 1)]
  /\ entries \in [Runs -> 0..(MaxRequeues + 1)]
  /\ \A r \in Runs : entries[r] <= allowance[r]
  /\ \A r \in Runs : phase[r] = "absent" => entries[r] = 0

Sensible == MaxRequeues \in Nat /\ "absent" \notin Outcomes

(* No run is entered more often than its requeues allow, where "absent" is *)
(* no outcome.                                                             *)
THEOREM ContractBudget == Sensible /\ Spec => []Budgeted
<1> SUFFICES ASSUME Sensible PROVE Spec => []Budgeted
  OBVIOUS
<1>1. Init => Budgeted
  BY DEF Init, Budgeted, Sensible
<1>2. Budgeted /\ [Next]_vars => Budgeted'
  <2> SUFFICES ASSUME Budgeted, [Next]_vars PROVE Budgeted'
    OBVIOUS
  <2> USE DEF Budgeted, Sensible
  <2>1. ASSUME NEW r \in Runs, Admit(r) PROVE Budgeted'
    BY <2>1 DEF Admit
  <2>2. ASSUME NEW r \in Runs, Enter(r) PROVE Budgeted'
    BY <2>2 DEF Enter
  <2>3. ASSUME NEW r \in Runs, Requeue(r) PROVE Budgeted'
    BY <2>3 DEF Requeue
  <2>4. ASSUME NEW r \in Runs, Settle(r) PROVE Budgeted'
    BY <2>4 DEF Settle
  <2>5. CASE UNCHANGED vars
    BY <2>5 DEF vars
  <2> QED
    BY <2>1, <2>2, <2>3, <2>4, <2>5 DEF Next
<1> QED
  BY <1>1, <1>2, PTL DEF Spec

(***************************************************************************)
(* Executions and requeues are not seen from outside: what is left of the  *)
(* contract is the life of its runs.                                       *)
(***************************************************************************)
Life == INSTANCE RunLife WITH Endings <- Outcomes, life <- phase

(* A run that keeps the contract is admitted once and settled once.        *)
THEOREM ContractIsLife == Spec => Life!Spec
<1>1. Init => Life!Init
  BY DEF Init, Life!Init
<1>2. [Next]_vars => [Life!Next]_phase
  BY DEF Next, Admit, Enter, Requeue, Settle, vars, Life!Next, Life!Admit, Life!Settle
<1> QED
  BY <1>1, <1>2, PTL DEF Spec, Life!Spec
=============================================================================
