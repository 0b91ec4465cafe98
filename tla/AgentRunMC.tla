----------------------------- MODULE AgentRunMC -----------------------------
(* Values for the constants of AgentRun. *)
EXTENDS AgentRun, TLC

CONSTANTS r1, r2

\* One root run, or a root and a child, with nothing deferred.
OneRun == {r1}
TwoRuns == {r1, r2}
SelfRooted == [r \in Runs |-> r]
ChildOfFirst == [r \in Runs |-> r1]
NoneDeferred == [r \in Runs |-> NoRun]
NoOlder == [r \in Runs |-> {}]

\* The second run was queued after the first, in the same thread.
SecondAfterFirst == [r \in Runs |-> IF r = r2 THEN r1 ELSE NoRun]
FirstIsOlder == [r \in Runs |-> IF r = r2 THEN {r1} ELSE {}]

\* Whose deadline comes.
AllDated == Runs
RootDated == {r1}

WorkerSymmetry == Permutations(Workers)
=============================================================================
