----------------------------- MODULE ModelTurn -----------------------------
(* One turn of the conversation (ChatAgent.reply and _reply, src/terminal/llm.py)
   with the work record of the session it serves (src/terminal/session_task.py):
   rounds of a model request and a batch of tool calls, steering that joins
   between them, the guards against repetition, the budgets, and the checks
   that decide whether registered work is complete.

   A foreground turn has no cap on its rounds, takes steering and is held to
   its work record; a bounded turn (a worker, a timer) has a cap and neither.
   The worker thread runs alone; the user writes and stops at any time.

   ToolNames is the set of calls (a tool with its arguments) the model can make;
   RoundBudget, Continuations >= 0, StallLimit (6), RetryLimit (5) >= 1.       *)
EXTENDS Naturals, Sequences, FiniteSets

CONSTANTS
  Acts, Reads, References,  \* calls by kind: change something, read, fetch
  Update,         \* session_task_update
  Versions,       \* what a read can find
  RoundBudget, Continuations, StallLimit, RetryLimit,
  Plans,          \* bound: [free -> the batches of calls the model answers with]
  MaxMessages,    \* the context a model takes, in messages
  MaxInputs,      \* bound: messages the user sends into the turn
  MaxTurns        \* bound: turns of the session

ToolNames == Acts \cup Reads \cup References
Calls == ToolNames \cup {Update}
Unlimited == RoundBudget * (1 + Continuations) + 1

VARIABLES
  pc,      \* "idle", "round", "fit", "drop", "request", "call", "running", "ended"
  free,    \* a foreground turn
  round, active, base,  \* round_index, active_budget, segment_progress
  seen, latest, start,  \* progress_keys, last_progress_round, round_progress
  acted, stalled, blocked, \* round_has_execution, stalled_rounds, continuation_blocked
  attempt, \* model_attempt, 0 when no request is made
  msgs,    \* the context: what role each message has
  plan,    \* the calls of this batch still to be made
  begun,   \* one of this batch was made
  count, failed, \* failure_counts, failed_requests
  fetched, \* reference_requests
  waiting, \* messages the user has sent
  joined,  \* ghost: messages that have joined the turn
  heard,   \* ghost: those the answering model had been sent
  stop,
  work,    \* [state, exec, checks, good, tried]: SessionTask.data
  outcome, \* "none", "answer" or "error"
  inputs, turns  \* bounds

progress == <<round, active, base, seen, latest, start, acted, stalled, blocked>>
guards == <<count, failed, fetched>>
input == <<waiting, joined, heard>>
batch == <<plan, begun>>
user == <<stop, inputs>>
vars == <<pc, free, progress, attempt, msgs, batch, guards, input, user, work, outcome, turns>>

Hard == IF free THEN Unlimited ELSE RoundBudget * (1 + Continuations)
NoWork == [state |-> "idle", exec |-> FALSE, checks |-> {}, good |-> {}, tried |-> FALSE]

Message(role, n) == [role |-> role, calls |-> n]
UserMessage == Message("user", 0)
Excerpts == Message("excerpt", 0)  \* a message of the user, in front of what he wrote
Receipt == Message("tool", 0)
Copies(m, n) == [i \in 1..n |-> m]

TypeOK ==
  /\ pc \in {"idle", "round", "fit", "drop", "request", "call", "running", "ended"} /\ free \in BOOLEAN
  /\ round \in 0..Unlimited /\ active \in 0..Unlimited /\ stalled \in 0..StallLimit
  /\ seen \subseteq ToolNames \cup (ToolNames \X Versions) /\ attempt \in 0..RetryLimit
  /\ count \in [Calls -> 0..2] /\ failed \subseteq Calls /\ fetched \subseteq References
  /\ work.state \in {"idle", "running", "active", "waiting_input", "needs_review", "complete"}
  /\ outcome \in {"none", "answer", "error"} /\ waiting \in 0..MaxInputs

Init ==
  /\ pc = "idle" /\ free = TRUE /\ outcome = "none" /\ turns = 0
  /\ round = 0 /\ active = 0 /\ base = 0 /\ seen = {} /\ latest = 0 /\ start = 0
  /\ acted = FALSE /\ stalled = 0 /\ blocked = FALSE /\ attempt = 0
  /\ msgs = <<>> /\ plan = <<>> /\ begun = FALSE
  /\ count = [c \in Calls |-> 0] /\ failed = {} /\ fetched = {}
  /\ waiting = 0 /\ joined = 0 /\ heard = 0
  /\ stop = FALSE /\ inputs = 0 /\ work = NoWork

-----------------------------------------------------------------------------
(* The work record. *)

\* assess, over the receipts of this turn
Passes(checks, good) == checks # {} /\ checks \subseteq good

\* begin
Begun(w) == [w EXCEPT !.state = "running", !.exec = FALSE, !.good = {}]

(* continuation: registered work of this turn that its receipts do not verify
   holds the answer back; work they verify becomes complete on the way.       *)
Held(w) == w.exec /\ w.state \notin {"waiting_input", "complete"} /\ ~Passes(w.checks, w.good)
Looked(w) ==
  IF w.exec /\ w.state \notin {"waiting_input", "complete"} /\ Passes(w.checks, w.good)
  THEN [w EXCEPT !.state = "complete"] ELSE w
Gated(w) == IF free THEN Looked(w) ELSE w

\* receipt: any later action takes completion back; only acts are checked here
Observed(w, c, ok) ==
  [w EXCEPT !.good = IF ok /\ c \in Acts THEN @ \cup {c} ELSE @ \ {c},
            !.tried = TRUE,
            !.state = IF @ = "complete" THEN "needs_review" ELSE @]

\* update, which refuses a completion its checks do not verify
Updated(w, state, checks) ==
  [w EXCEPT !.state = state, !.checks = checks, !.exec = @ \/ state = "active"]
Accepts(state, checks) == state = "complete" => Passes(checks, work.good)

\* finish
Finished(w, o) ==
  [w EXCEPT !.state = IF o = "error" THEN "needs_review"
                      ELSE IF @ # "running" THEN @
                      ELSE IF w.tried THEN "needs_review" ELSE "waiting_input"]

-----------------------------------------------------------------------------
(* Shared effects. *)

\* the variables of _reply, at its start and when it is over
Blank ==
  /\ round' = 0 /\ base' = 0 /\ seen' = {} /\ latest' = 0 /\ start' = 0
  /\ acted' = FALSE /\ stalled' = 0 /\ blocked' = FALSE /\ attempt' = 0
  /\ plan' = <<>> /\ begun' = FALSE
  /\ count' = [c \in Calls |-> 0] /\ failed' = {} /\ fetched' = {}
  /\ joined' = 0 /\ heard' = 0

(* The end of a turn; the work record is the foreground's. *)
EndWith(o, w) ==
  /\ pc' = "ended" /\ outcome' = o
  /\ work' = IF free THEN Finished(w, o) ELSE w
  /\ Blank /\ active' = 0 /\ msgs' = <<>>
  /\ UNCHANGED <<free, waiting, user, turns>>
End(o) == EndWith(o, work)

\* Mutant of Onward: no round is counted.
OnwardUncounted(grown) == pc' = "round" /\ stalled' = grown /\ attempt' = 0 /\ UNCHANGED round

(* The next iteration of the loop over rounds.  The rounds of a foreground turn
   are not counted: no number of them means anything.                        *)
Onward(grown) ==
  /\ pc' = "round" /\ round' = (IF free THEN round ELSE round + 1)
  /\ stalled' = grown /\ attempt' = 0

(* steer: the first n waiting messages join. Bounded turns take none, and the
   terminal gives none while paused or when the first is too long.            *)
Joins(n) == free /\ ~stop /\ n \in 1..waiting
Join(n) == waiting' = waiting - n /\ joined' = joined + n

(* fit drops what is in front of this turn, and then whole batches, calls with
   their receipts, oldest first; the newest and what the user wrote stay.    *)
Batches(ms) == {i \in DOMAIN ms : ms[i].role = "assistant" /\ ms[i].calls > 0}
Oldest(ms) == {i \in Batches(ms) : \A j \in Batches(ms) : i <= j}
Few(ms) == \A i \in Batches(ms) : i \in Oldest(ms)
\* Mutant of Past: the first receipt of a batch is dropped with it, the others stay.
PastOne(ms, i) == {i + 2}

\* the first message behind a batch that is no receipt
Past(ms, i) == {k \in (i + 1)..(Len(ms) + 1) :
                 /\ k = Len(ms) + 1 \/ ms[k].role # "tool"
                 /\ \A j \in (i + 1)..(k - 1) : ms[j].role = "tool"}
Without(ms, from, to) == SubSeq(ms, 1, from - 1) \o SubSeq(ms, to, Len(ms))

Earlier == msgs # <<>> /\ msgs[1].role = "excerpt"
\* excerpts of what was dropped are put in front
Fitted == IF pc = "drop" THEN <<Excerpts>> \o msgs ELSE msgs

-----------------------------------------------------------------------------
(* The turn. *)

Start(kind) ==
  /\ pc \in {"idle", "ended"} /\ turns < MaxTurns
  /\ turns' = turns + 1 /\ pc' = "round" /\ free' = kind /\ outcome' = "none" /\ stop' = FALSE
  /\ Blank /\ active' = (IF kind THEN Unlimited ELSE RoundBudget) /\ msgs' = <<UserMessage>>
  /\ work' = IF kind THEN Begun(work) ELSE work
  /\ UNCHANGED <<waiting, inputs>>

\* the checks of stop_event between two steps of a turn
StopIsSeen ==
  /\ pc \in {"round", "call"} /\ stop
  /\ pc = "call" => plan # <<>> \/ begun
  /\ End("error")

Stalls == stalled >= StallLimit
Reached == IF Stalls THEN round ELSE active
(* Another segment of rounds, for a bounded turn that has found something new
   in its last two rounds and was not blocked.                               *)
Extends ==
  /\ round = active /\ active < Hard /\ ~Stalls
  /\ Cardinality(seen) > base /\ latest + 2 >= active /\ ~blocked

BeginRound(n) ==
  /\ pc = "round" /\ ~stop
  /\ active' = IF Extends THEN active + RoundBudget ELSE Reached
  /\ base' = IF Extends THEN Cardinality(seen) ELSE base
  /\ start' = Cardinality(seen) /\ acted' = FALSE
  /\ \/ n = 0 /\ UNCHANGED <<waiting, joined>>
     \/ round < active' /\ Joins(n) /\ Join(n)
  /\ msgs' = msgs \o Copies(UserMessage, n) /\ pc' = "fit"
  /\ UNCHANGED <<free, round, seen, latest, stalled, blocked, attempt, batch, guards, heard, user, work, outcome, turns>>

(* The loops of fit.  What one message takes is left open, and so is how much is
   dropped: the size that makes fit drop and the size at which it gives up are
   settings, and either may be the smaller.                                   *)
DropEarlier ==
  /\ pc = "fit" /\ Earlier
  /\ msgs' = Tail(msgs) /\ pc' = "drop"
  /\ UNCHANGED <<free, progress, attempt, batch, guards, input, user, work, outcome, turns>>

DropOldest(i, k) ==
  /\ pc \in {"fit", "drop"} /\ ~Earlier /\ ~Few(msgs) /\ i \in Oldest(msgs) /\ k \in Past(msgs, i)
  /\ msgs' = Without(msgs, i, k) /\ pc' = "drop"
  /\ UNCHANGED <<free, progress, attempt, batch, guards, input, user, work, outcome, turns>>

Request ==
  /\ pc \in {"fit", "drop"} /\ Len(Fitted) <= MaxMessages
  /\ msgs' = Fitted /\ heard' = joined /\ attempt' = 1 /\ pc' = "request"
  /\ work' = Gated(work)
  /\ UNCHANGED <<free, progress, batch, guards, waiting, joined, user, outcome, turns>>

\* too large nevertheless: the request is not sent
ContextFull == pc \in {"fit", "drop"} /\ Len(Fitted) > MaxMessages /\ End("error")

\* a model error, final when the key, the account or the address is refused
ModelFails(final) ==
  /\ pc = "request"
  /\ IF stop \/ final \/ attempt = RetryLimit
     THEN End("error")
     ELSE /\ attempt' = attempt + 1
          /\ UNCHANGED <<pc, free, progress, msgs, batch, guards, input, user, work, outcome, turns>>

StoppedAnswer == pc = "request" /\ stop /\ End("error")

\* new input: the response it makes stale is thrown away
StaleAnswer(n) ==
  /\ pc = "request" /\ round < active /\ Joins(n)
  /\ Join(n) /\ msgs' = msgs \o Copies(UserMessage, n)
  /\ Onward(stalled)
  /\ UNCHANGED <<free, active, base, seen, latest, start, acted, blocked, batch, guards, heard, user, work, outcome, turns>>

Heard == pc = "request" /\ ~stop
HoldsBack == free /\ Held(work) /\ round < active /\ ~blocked

\* prose is not an outcome: registered work goes on
Prose ==
  /\ Heard /\ HoldsBack
  /\ msgs' = Append(msgs, Message("assistant", 0))
  /\ Onward(stalled + 1)
  /\ UNCHANGED <<free, active, base, seen, latest, start, acted, blocked, batch, guards, input, user, work, outcome, turns>>

Answer ==
  /\ Heard /\ ~HoldsBack
  /\ EndWith("answer", Gated(work))

OutOfBudget == Heard /\ round = active /\ End("error")

CallTools(calls) ==
  /\ Heard /\ round < active
  /\ plan' = calls /\ begun' = FALSE
  /\ msgs' = Append(msgs, Message("assistant", Len(calls)))
  /\ pc' = "call" /\ attempt' = 0
  /\ UNCHANGED <<free, progress, guards, input, user, work, outcome, turns>>

-----------------------------------------------------------------------------
(* A batch of calls. *)

Calling == pc = "call" /\ ~stop /\ plan # <<>>

\* new input between two calls: the rest is answered without being made
SkipRest(n) ==
  /\ Calling /\ begun /\ Joins(n) /\ Join(n)
  /\ msgs' = msgs \o Copies(Receipt, Len(plan)) \o Copies(UserMessage, n)
  /\ plan' = <<>>
  /\ UNCHANGED <<pc, free, progress, attempt, begun, guards, heard, user, work, outcome, turns>>

Known == Head(plan) \in failed \cup fetched

(* What is left of a call once its result is known: the guards, the receipt of
   the work record and the message for the model.                            *)
Receive(w) ==
  /\ msgs' = Append(msgs, Receipt)
  /\ plan' = Tail(plan) /\ begun' = TRUE /\ pc' = "call"
  /\ work' = IF free THEN w ELSE work
  /\ UNCHANGED <<free, round, active, base, start, stalled, attempt, input, user, outcome, turns>>

\* a repeated fetch, or one more try of what has failed for good
Repeated ==
  /\ Calling /\ Known
  /\ Receive(IF Head(plan) = Update THEN work ELSE Observed(work, Head(plan), FALSE))
  /\ UNCHANGED <<seen, latest, acted, blocked, guards>>

Dispatch ==
  /\ Calling /\ ~Known
  /\ pc' = "running"
  /\ UNCHANGED <<free, progress, attempt, msgs, batch, guards, input, user, work, outcome, turns>>

\* what a tool can come back with, besides new evidence
Failures == {"retryable", "fatal", "denied", "stopped", "nonzero"}
Counted(c, r) == [count EXCEPT ![c] = IF r \in Failures /\ @ < 2 THEN @ + 1 ELSE @]
Doomed(c, r) == r \in {"fatal", "denied"} \/ count'[c] >= 2
Erred(r) == r \in {"retryable", "fatal", "denied", "garbled"}

Fails(r) ==
  /\ pc = "running"
  /\ LET c == Head(plan) IN
     /\ r \in {"stopped", "nonzero"} => c \in Acts
     /\ count' = Counted(c, r)
     /\ failed' = IF Doomed(c, r) THEN failed \cup {c} ELSE failed
     /\ blocked' = (blocked \/ r \in {"denied", "stopped"})
     /\ acted' = (acted \/ (c \in Acts /\ ~Erred(r)))
     /\ Receive(IF c = Update THEN work ELSE Observed(work, c, FALSE))
  /\ UNCHANGED <<seen, latest, fetched>>

(* A result without error. A read is evidence by what it found; one that finds
   the same again, or from the cache, is none.                               *)
Succeeds(v, ok) ==
  /\ pc = "running" /\ Head(plan) \in ToolNames
  /\ LET c == Head(plan)
         key == IF c \in Reads THEN <<c, v>> ELSE c
     IN /\ seen' = seen \cup {key}
        /\ latest' = IF key \in seen THEN latest ELSE round
        /\ acted' = (acted \/ c \in Acts)
        /\ fetched' = IF c \in References THEN fetched \cup {c} ELSE fetched
        /\ Receive(Observed(work, c, ok))
  /\ UNCHANGED <<count, failed, blocked>>

UpdateWork(state, checks) ==
  /\ pc = "running" /\ Head(plan) = Update /\ Accepts(state, checks)
  /\ Receive(Updated(work, state, checks))
  /\ UNCHANGED <<seen, latest, acted, blocked, guards>>

BatchDone ==
  /\ pc = "call" /\ ~stop /\ plan = <<>>
  /\ Onward(IF Cardinality(seen) = start /\ ~acted THEN stalled + 1 ELSE 0)
  /\ UNCHANGED <<free, active, base, seen, latest, start, acted, blocked, msgs, batch, guards, input, user, work, outcome, turns>>

-----------------------------------------------------------------------------
\* the user
Write ==
  /\ pc \notin {"idle", "ended"} /\ inputs < MaxInputs
  /\ inputs' = inputs + 1 /\ waiting' = waiting + 1
  /\ UNCHANGED <<pc, free, progress, attempt, msgs, batch, guards, joined, heard, stop, work, outcome, turns>>

PressStop ==
  /\ pc \notin {"idle", "ended"} /\ ~stop
  /\ stop' = TRUE
  /\ UNCHANGED <<pc, free, progress, attempt, msgs, batch, guards, input, inputs, work, outcome, turns>>

Model ==
  \/ \E final \in BOOLEAN : ModelFails(final)
  \/ StoppedAnswer \/ Prose \/ Answer \/ OutOfBudget
  \/ \E n \in 1..MaxInputs : StaleAnswer(n)
  \/ \E calls \in Plans[free] : CallTools(calls)
Tool ==
  \/ \E r \in Failures \cup {"garbled"} : Fails(r)
  \/ \E v \in Versions, ok \in BOOLEAN : Succeeds(v, ok)
  \/ \E s \in {"active", "waiting_input", "needs_review", "complete"}, checks \in SUBSET Acts :
       UpdateWork(s, checks)
Loop ==
  \/ StopIsSeen \/ DropEarlier \/ Request \/ ContextFull \/ Repeated \/ Dispatch \/ BatchDone
  \/ \E n \in 0..MaxInputs : BeginRound(n)
  \/ \E i \in DOMAIN msgs : \E k \in Past(msgs, i) : DropOldest(i, k)
  \/ \E n \in 1..MaxInputs : SkipRest(n)
Next == Model \/ Tool \/ Loop \/ Write \/ PressStop \/ \E kind \in BOOLEAN : Start(kind)

Spec == Init /\ [][Next]_vars

(* Every request comes back or times out, and so does every tool. *)
Fairness == WF_vars(Model \/ Tool \/ Loop)
FairSpec == Spec /\ Fairness

-----------------------------------------------------------------------------
(* Properties. *)

(* The context of every request is one a model accepts: each batch of calls is
   followed by exactly its receipts, and there are no others, whatever steering,
   skipping and compaction did to it.                                        *)
Paired(ms) ==
  /\ \A i \in Batches(ms) :
       /\ Len(ms) >= i + ms[i].calls
       /\ \A j \in (i + 1)..(i + ms[i].calls) : ms[j].role = "tool"
  /\ \A j \in DOMAIN ms : ms[j].role = "tool" =>
       \E i \in Batches(ms) : i < j /\ j <= i + ms[i].calls
PairsComplete == pc = "request" => Paired(msgs)

(* No call is made that was planned before the user's latest words joined. *)
NoStaleCall == pc = "running" => heard = joined

(* Work stands as complete only while its checks hold for what the tools have
   last returned in this turn.                                               *)
CompleteIsChecked == work.state = "complete" => Passes(work.checks, work.good)

(* A bounded turn ends, however often it is steered, retried and refused. *)
BoundedTurnsEnd == (pc = "round" /\ ~free) ~> pc = "ended"
=============================================================================
