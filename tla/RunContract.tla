---------------------------- MODULE RunContract ----------------------------
(***************************************************************************)
(* What the run store promises about one AgentRun, with no slots, leases,  *)
(* sweeps or clocks: a run is admitted once, its recipe is entered at most *)
(* once for the admission and once for each of at most MaxRequeues         *)
(* requeues, and it is settled once, with one outcome, for good.           *)
(***************************************************************************)
EXTENDS Naturals

CONSTANTS Runs, Outcomes, MaxRequeues

VARIABLES
  phase,      \* "absent", "open" or the outcome
  allowance,  \* executions granted so far
  entries     \* executions entered so far

vars == <<phase, allowance, entries>>

Init ==
  /\ phase = [r \in Runs |-> "absent"]
  /\ allowance = [r \in Runs |-> 0]
  /\ entries = [r \in Runs |-> 0]

Admit(r) ==
  /\ phase[r] = "absent"
  /\ phase' = [phase EXCEPT ![r] = "open"]
  /\ allowance' = [allowance EXCEPT ![r] = 1]
  /\ UNCHANGED entries

Enter(r) ==
  /\ phase[r] = "open" /\ entries[r] < allowance[r]
  /\ entries' = [entries EXCEPT ![r] = @ + 1]
  /\ UNCHANGED <<phase, allowance>>

Requeue(r) ==
  /\ phase[r] = "open" /\ allowance[r] <= MaxRequeues
  /\ allowance' = [allowance EXCEPT ![r] = @ + 1]
  /\ UNCHANGED <<phase, entries>>

Settle(r) ==
  /\ phase[r] = "open"
  /\ \E outcome \in Outcomes : phase' = [phase EXCEPT ![r] = outcome]
  /\ UNCHANGED <<allowance, entries>>

Next == \E r \in Runs : Admit(r) \/ Enter(r) \/ Requeue(r) \/ Settle(r)

Spec == Init /\ [][Next]_vars
=============================================================================
