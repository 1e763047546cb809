------------------------------ MODULE MCGoals ------------------------------
(* A behaviour is one of the board or of the turn (Goals); the other part stays
   as it began.  A model repeats a call, fetches, and updates the work.       *)
EXTENDS Goals
CONSTANTS act, read, fetch, update

SomePlans == [foreground \in BOOLEAN |->
  IF foreground THEN {<<update, act>>} ELSE {<<read>>, <<fetch, fetch>>, <<act, read>>}]

VARIABLE part
turnVars == <<turnPc, free, round, active, base, turnSeen, latest, start, acted, stalled, blocked,
  attempt, msgs, plan, begun, count, failed, fetched, waiting, joined, heard, stop, work, outcome,
  inputs, turns>>

GoalsInit == part \in {"board", "turn"} /\ Init /\ Turn!Init
GoalsNext ==
  \/ part = "board" /\ Next /\ UNCHANGED <<part, turnVars>>
  \/ part = "turn" /\ Turn!Next /\ UNCHANGED <<part, vars>>
GoalsSpec ==
  GoalsInit /\ [][GoalsNext]_<<part, vars, turnVars>>
    /\ WF_vars(part = "board" /\ RunGoal)
    /\ WF_turnVars(part = "turn" /\ (Turn!Model \/ Turn!Tool \/ Turn!Loop))

(* A bounded turn ends, however often it is steered, retried and refused. *)
BoundedTurnsEnd == Turn!BoundedTurnsEnd
=============================================================================
