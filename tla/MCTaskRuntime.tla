--------------------------- MODULE MCTaskRuntime ---------------------------
(* Values of the constants for the runs of TaskRuntime.  *)
EXTENDS TaskRuntime, TLC
CONSTANTS t1, t2, t3
Manual == [t \in Tasks |-> "manual"]
Rules == [t \in Tasks |-> IF t = t3 THEN "schedule" ELSE "trigger"]
WaitingStates == Waiting
AnyState == States
Slots == Permutations(Agents)
=============================================================================
