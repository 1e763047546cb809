--------------------------- MODULE TaskLifecycle ---------------------------
(***************************************************************************)
(* What the task ledger promises its users, without supervisor, broker or  *)
(* transactions.  A task is attempted by one attempt at a time; it is only *)
(* final once; and after an attempt was lost with effects nobody reviewed  *)
(* it is not attempted again before somebody resumes it.                   *)
(***************************************************************************)
CONSTANT Tasks

VARIABLES
  phase,     \* [Tasks -> Phases]
  unknown    \* [Tasks -> BOOLEAN]: a lost attempt had called tools

Phases == {"none", "ready", "running", "waiting", "succeeded", "cancelled"}
Final == {"succeeded", "cancelled"}

Init ==
  /\ phase = [t \in Tasks |-> "none"]
  /\ unknown = [t \in Tasks |-> FALSE]

Move(t, from, to) == phase[t] \in from /\ phase'[t] = to

Accept(t)  == Move(t, {"none"}, "ready") /\ unknown'[t] = unknown[t]
Attempt(t) == Move(t, {"ready"}, "running") /\ ~unknown[t] /\ ~unknown'[t]
Verify(t)  == Move(t, {"running"}, "succeeded") /\ ~unknown'[t]
Retry(t)   == Move(t, {"running"}, "ready") /\ ~unknown[t] /\ ~unknown'[t]
Lose(t)    == Move(t, {"running"}, "running") /\ unknown'[t]
Suspend(t) == Move(t, {"ready", "running"}, "waiting") /\ (unknown[t] => unknown'[t])
Resume(t)  == Move(t, {"waiting", "ready"}, "ready") /\ ~unknown'[t]
Wake(t)    == Move(t, {"waiting"}, "ready") /\ ~unknown[t] /\ ~unknown'[t]
Cancel(t)  == Move(t, Phases \ (Final \cup {"none"}), "cancelled") /\ ~unknown'[t]
Keep(t)    == phase'[t] = phase[t] /\ unknown'[t] = unknown[t]

(* A crash loses, and a restart suspends, several attempts at once.  *)
Next ==
  /\ phase' \in [Tasks -> Phases] /\ unknown' \in [Tasks -> BOOLEAN]
  /\ \A t \in Tasks :
       \/ Accept(t) \/ Attempt(t) \/ Verify(t) \/ Retry(t) \/ Lose(t)
       \/ Suspend(t) \/ Resume(t) \/ Wake(t) \/ Cancel(t) \/ Keep(t)

Spec == Init /\ [][Next]_<<phase, unknown>>
=============================================================================
