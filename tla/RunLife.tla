------------------------------- MODULE RunLife -------------------------------
(***************************************************************************)
(* The life of agent runs as the rest of the system knows it: a run is     *)
(* admitted once and settled once, with one outcome.  AgentRun promises    *)
(* this of its rows; the modules in which agent runs appear as a variable  *)
(* that changes of its own accord make use of no more.                     *)
(***************************************************************************)
CONSTANTS Runs, Endings

VARIABLE life  \* run -> "absent", "open" or its outcome

Init == life \in [Runs -> {"absent", "open"}]

Admit(r) ==
  /\ life[r] = "absent"
  /\ life' = [life EXCEPT ![r] = "open"]

Settle(r) ==
  /\ life[r] = "open"
  /\ \E outcome \in Endings : life' = [life EXCEPT ![r] = outcome]

Next == \E r \in Runs : Admit(r) \/ Settle(r)

Spec == Init /\ [][Next]_life
=============================================================================
