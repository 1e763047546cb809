-------------------------------- MODULE Goals --------------------------------
(* What a model drives, a goal at a time: the goal of a board (EdgeAgent) and the
   turn of a conversation (ModelTurn).  They share no state.                  *)
EXTENDS EdgeAgent

CONSTANTS
  Acts, Reads, References, Update, Versions, Plans,    \* of ModelTurn
  RoundBudget, Continuations, StallLimit, RetryLimit,
  MaxMessages, MaxInputs, MaxTurns

\* A model answers with calls of tools; the limits of a turn are numbers.
ASSUME TurnAssumption ==
  /\ Plans \in [BOOLEAN -> SUBSET Seq(Acts \cup Reads \cup References \cup {Update})]
  /\ RoundBudget \in Nat \ {0} /\ Continuations \in Nat
  /\ StallLimit \in Nat \ {0} /\ RetryLimit \in Nat \ {0}
  /\ MaxMessages \in Nat /\ MaxInputs \in Nat /\ MaxTurns \in Nat

VARIABLES
  turnPc, free, round, active, base, turnSeen, latest, start, acted, stalled, blocked, attempt,
  msgs, plan, begun, count, failed, fetched, waiting, joined, heard, stop, work, outcome, inputs, turns

Turn == INSTANCE ModelTurn WITH pc <- turnPc, seen <- turnSeen

(* The turn: no request with an unpaired call or receipt, no call that the
   user's later words overtook, and no work complete that its checks do not
   verify any more.                                                          *)
TurnsAreSound ==
  Turn!TypeOK /\ Turn!PairsComplete /\ Turn!NoStaleCall /\ Turn!CompleteIsChecked
=============================================================================
