---------------------------- MODULE CycleContract ----------------------------
(***************************************************************************)
(* What a recurring cycle promises its owner, with no loops, lists, locks, *)
(* recoveries or settlements: an occurrence waits, is started at most once *)
(* and only while fewer than Capacity are working, and is settled for good *)
(* whether it was started or not; the work it was given ends once.         *)
(***************************************************************************)
EXTENDS Naturals, FiniteSets

CONSTANTS Occurrences, Capacity

VARIABLES
  phase,  \* occurrence -> "absent", "waiting", "working" or "settled"
  work    \* occurrence -> its agent run: "none", "open" or "over"

vars == <<phase, work>>

Init ==
  /\ phase = [r \in Occurrences |-> "absent"]
  /\ work = [r \in Occurrences |-> "none"]

Working == {r \in Occurrences : phase[r] = "working"}

(* A slot comes, or somebody asks; without room it is settled at once. *)
Insert(r) ==
  /\ phase[r] = "absent"
  /\ \E first \in {"waiting", "settled"} : phase' = [phase EXCEPT ![r] = first]
  /\ UNCHANGED work

Start(r) ==
  /\ phase[r] = "waiting" /\ work[r] = "none"
  /\ Cardinality(Working) < Capacity
  /\ phase' = [phase EXCEPT ![r] = "working"]
  /\ work' = [work EXCEPT ![r] = "open"]

Finish(r) ==
  /\ work[r] = "open"
  /\ work' = [work EXCEPT ![r] = "over"]
  /\ UNCHANGED phase

(* Several at once, when a recovery catches up. *)
Settle(batch) ==
  /\ \A r \in batch : phase[r] \in {"waiting", "working"}
  /\ phase' = [r \in Occurrences |-> IF r \in batch THEN "settled" ELSE phase[r]]
  /\ UNCHANGED work

Next ==
  \/ \E r \in Occurrences : Insert(r) \/ Start(r) \/ Finish(r)
  \/ \E batch \in SUBSET Occurrences : Settle(batch)

Spec == Init /\ [][Next]_vars
=============================================================================
