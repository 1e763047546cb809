------------------------------ MODULE EdgeAgent -----------------------------
(***************************************************************************)
(* The ESP32 agent of firmware/esp32/src/main.cpp: one thread that drives  *)
(* the kernel of AgentMethods through a goal, a remote model that replies  *)
(* what it likes, a clock that moves on, and a user who may press Ctrl-C   *)
(* at any moment but is heard at the boundaries only.                      *)
(***************************************************************************)
EXTENDS AgentMethods, Sequences, FiniteSets

CONSTANTS
  MAX_CALLS, MAX_MODELS, Timeout,   \* budgets and deadline of a goal
  TaskIds,      \* 2^32 in the code: next_task counts modulo this
  RemoteIds,    \* ids a remote model may give its tool calls
  Uptime,       \* bound: last value of the clock of the board
  MaxBatch      \* bound: tool calls in one reply

ASSUME EdgeAssumption ==
  /\ MAX_CALLS \in Nat \ {0} /\ MAX_MODELS \in Nat \ {0} /\ Timeout \in Nat \ {0}
  /\ TaskIds \in Nat \ {0, 1} /\ Uptime \in Nat /\ MaxBatch \in Nat
  /\ MaxClock \in Nat /\ Uptime + Timeout <= MaxClock
  /\ Tools = {0, 1} /\ Conversation \notin Tools

device_uptime == 0
free_heap == 1

VARIABLES
  agent,        \* kernel
  pc,           \* where run_goal stands; "idle" in loop()
  clock,        \* now_ms()
  ctrlC,        \* a Ctrl-C waits in the serial buffer
  next_task,
  require,      \* require_uptime of the goal
  seen,         \* seen_ids
  sequence,
  batch,        \* tools of the reply still to be called
  overflowed,   \* history.overflowed()
  printed,      \* history: what the goal told the user at its end
  uptimeRead,   \* history: device_uptime ran in this goal
  late          \* history: requests and tools begun while a Ctrl-C waits

locals == <<next_task, require, seen, sequence, batch, overflowed>>
vars == <<agent, pc, clock, ctrlC, locals, printed, uptimeRead, late>>

TypeOK ==
  /\ agent \in Agent
  /\ pc \in {"idle", "ask", "request", "tool", "dispatch", "receipt"}
  /\ clock \in 0 .. Uptime
  /\ {ctrlC, require, overflowed, uptimeRead} \subseteq BOOLEAN
  /\ next_task \in 0 .. TaskIds - 1
  /\ seen \subseteq RemoteIds /\ sequence \in Nat /\ late \in Nat
  /\ batch \in Seq(Tools)
  /\ printed \in {"nothing", "verified", "unchecked"}

Init ==
  /\ agent = Default /\ pc = "idle" /\ clock = 0 /\ ctrlC = FALSE
  /\ next_task = 0 /\ require = FALSE /\ seen = {} /\ sequence = 0 /\ batch = <<>>
  /\ overflowed = FALSE /\ printed = "nothing" /\ uptimeRead = FALSE /\ late = 0

-----------------------------------------------------------------------------
(* The surroundings.  *)
TimePasses ==
  /\ clock < Uptime /\ clock' = clock + 1
  /\ UNCHANGED <<agent, pc, ctrlC, locals, printed, uptimeRead, late>>

PressCtrlC ==
  /\ ~ctrlC /\ ctrlC' = TRUE
  /\ UNCHANGED <<agent, pc, clock, locals, printed, uptimeRead, late>>

(* loop(): between goals a Ctrl-C only empties the line.  *)
DropCtrlC ==
  /\ pc = "idle" /\ ctrlC
  /\ ctrlC' = FALSE /\ late' = 0
  /\ UNCHANGED <<agent, pc, clock, locals, printed, uptimeRead>>

-----------------------------------------------------------------------------
(* Ends of run_goal.  *)
Return(a) ==
  /\ agent' = a /\ pc' = "idle"
  /\ UNCHANGED <<clock, ctrlC, locals, printed, uptimeRead, late>>

(* Line 187, where a break of the loop leads.  *)
Break(a) ==
  Return(IF a.state # "Blocked" THEN Abort(a, "Invalid").a ELSE a)

(* cancelled(), when it says yes  *)
StopHere ==
  /\ ctrlC /\ ctrlC' = FALSE /\ late' = 0
  /\ agent' = Cancelled(agent) /\ pc' = "idle"
  /\ UNCHANGED <<clock, locals, printed, uptimeRead>>

NextTask == LET n == (next_task + 1) % TaskIds IN IF n = 0 THEN 1 ELSE n

GoalConfig(uptime) ==
  [session |-> 1, task |-> NextTask, allowed |-> {device_uptime, free_heap},
   check |-> IF uptime THEN device_uptime ELSE Conversation,
   maxCalls |-> MAX_CALLS, maxModels |-> MAX_MODELS, timeout |-> Timeout]

StartGoal ==
  \E uptime \in BOOLEAN :
    LET o == Begin(agent, GoalConfig(uptime), clock) IN
    /\ pc = "idle"
    /\ next_task' = NextTask
    /\ agent' = o.a
    /\ pc' = IF o.e = "None" THEN "ask" ELSE "idle"
    /\ require' = uptime
    /\ seen' = {} /\ sequence' = 0 /\ batch' = <<>> /\ overflowed' = FALSE
    /\ printed' = "nothing" /\ uptimeRead' = FALSE
    /\ UNCHANGED <<clock, ctrlC, late>>

(* Mutant of AskModel: a continuation is not counted as a request.  *)
AskModelOnce ==
  LET o == IF agent.models = 0 THEN RequestModel(agent, clock) ELSE Accept(agent) IN
  /\ pc = "ask" /\ agent.state = "Model"
  /\ \/ StopHere
     \/ /\ ~ctrlC
        /\ agent' = o.a
        /\ pc' = IF o.e = "None" THEN "request" ELSE "idle"
        /\ UNCHANGED <<clock, ctrlC, locals, printed, uptimeRead, late>>

(* The head of the loop: its condition, which never fails here (the goal   *)
(* would hang and GoalEnds fail), cancelled() and request_model.           *)
AskModel ==
  LET o == RequestModel(agent, clock) IN
  /\ pc = "ask" /\ agent.state = "Model"
  /\ \/ StopHere
     \/ /\ ~ctrlC
        /\ agent' = o.a
        /\ pc' = IF o.e = "None" THEN "request" ELSE "idle"
        /\ UNCHANGED <<clock, ctrlC, locals, printed, uptimeRead, late>>

(* request() says no: no network, no heap, no room or no usable JSON.  *)
RequestFails == pc = "request" /\ Return(Abort(agent, "Adapter").a)

ReplyDiscarded == pc = "request" /\ StopHere

(* Mutant of ReplyRejected: a return where the code breaks.  *)
ReplyRejectedReturns == pc = "request" /\ ~ctrlC /\ Return(agent)

(* tool_calls is no array, or an answer or a batch is not complete.  *)
ReplyRejected == pc = "request" /\ ~ctrlC /\ Break(agent)

(* The model answers in prose.  Without a passing receipt it is told to go *)
(* on; otherwise the answer is printed with the kernel's verdict.          *)
ReplyAnswers ==
  LET o == Answer(agent, clock) IN
  /\ pc = "request" /\ ~ctrlC
  /\ \/ /\ o.e = "Unverified" /\ agent' = o.a /\ pc' = "ask"
        /\ UNCHANGED <<clock, ctrlC, locals, printed, uptimeRead, late>>
     \/ o.e \notin {"None", "Unverified"} /\ Break(o.a)
     \/ /\ o.e = "None" /\ agent' = o.a /\ pc' = "idle"
        /\ printed' = IF o.a.verified THEN "verified" ELSE "unchecked"
        /\ UNCHANGED <<clock, ctrlC, locals, uptimeRead, late>>

-----------------------------------------------------------------------------
ToolCall == [id: RemoteIds, tool: Tools]
Batches == UNION {[1 .. n -> ToolCall] : n \in 1 .. MaxBatch}
Ids(calls) == {calls[i].id : i \in DOMAIN calls}

(* The whole batch is validated before any dispatch.  *)
ValidBatch(calls) ==
  /\ Len(calls) <= MAX_CALLS - Cardinality(seen)
  /\ Cardinality(Ids(calls)) = Len(calls) /\ Ids(calls) \cap seen = {}

ReplyCalls ==
  \E calls \in Batches :
    /\ pc = "request" /\ ~ctrlC
    /\ \/ ~ValidBatch(calls) /\ Break(agent)
       \/ /\ ValidBatch(calls)
          /\ seen' = seen \cup Ids(calls)
          /\ batch' = [i \in DOMAIN calls |-> calls[i].tool]
          /\ pc' = "tool"
          /\ UNCHANGED <<agent, clock, ctrlC, next_task, require, sequence, overflowed,
                         printed, uptimeRead, late>>

(* Mutant of ProposeTool: Ctrl-C is heard after the batch only.  *)
ProposeToolDeaf ==
  LET o == Propose(agent, sequence + 1, Head(batch), clock) IN
  /\ pc = "tool"
  /\ \/ /\ batch = <<>> /\ pc' = "ask"
        /\ UNCHANGED <<agent, clock, ctrlC, locals, printed, uptimeRead, late>>
     \/ /\ batch # <<>>
        /\ sequence' = sequence + 1
        /\ agent' = IF o.e = "None" THEN o.a ELSE Abort(o.a, o.e).a
        /\ pc' = IF o.e = "None" THEN "dispatch" ELSE "idle"
        /\ UNCHANGED <<clock, ctrlC, next_task, require, seen, batch, overflowed,
                       printed, uptimeRead, late>>

(* The head of the loop over the batch: cancelled() and propose.  *)
ProposeTool ==
  LET o == Propose(agent, sequence + 1, Head(batch), clock) IN
  /\ pc = "tool"
  /\ \/ /\ batch = <<>> /\ pc' = "ask"
        /\ UNCHANGED <<agent, clock, ctrlC, locals, printed, uptimeRead, late>>
     \/ batch # <<>> /\ StopHere
     \/ /\ batch # <<>> /\ ~ctrlC
        /\ sequence' = sequence + 1
        /\ agent' = IF o.e = "None" THEN o.a ELSE Abort(o.a, o.e).a
        /\ pc' = IF o.e = "None" THEN "dispatch" ELSE "idle"
        /\ UNCHANGED <<clock, ctrlC, next_task, require, seen, batch, overflowed,
                       printed, uptimeRead, late>>

(* The history may have no room for the intent, the board no heap; a refusal*)
(* blocks the run.  The tool is read right after the admission.            *)
DispatchTool ==
  \E heap, fits \in BOOLEAN :
    LET o == Dispatch(agent, heap, ~overflowed /\ fits, clock)
        admitted == o.e = "None" IN
    /\ pc = "dispatch"
    /\ agent' = IF admitted THEN o.a ELSE Abort(o.a, o.e).a
    /\ pc' = IF admitted THEN "receipt" ELSE "idle"
    /\ uptimeRead' = (uptimeRead \/ (admitted /\ agent.tool = device_uptime))
    /\ late' = IF admitted /\ ctrlC THEN late + 1 ELSE late
    /\ UNCHANGED <<clock, ctrlC, locals, printed>>

(* The value is written to the history, which may overflow, and the kernel *)
(* gets its receipt.                                                       *)
ReceiptOfTool ==
  \E full \in BOOLEAN :
    LET lost == overflowed \/ full
        id == [session |-> 1, task |-> next_task, call |-> sequence]
        o == Receive(agent, id, ~lost, Head(batch) = device_uptime, clock) IN
    /\ pc = "receipt"
    /\ overflowed' = lost
    /\ agent' = IF o.e = "None" THEN o.a ELSE Abort(o.a, o.e).a
    /\ pc' = IF o.e = "None" THEN "tool" ELSE "idle"
    /\ batch' = Tail(batch)
    /\ UNCHANGED <<clock, ctrlC, next_task, require, seen, sequence, printed, uptimeRead, late>>

RunGoal ==
  \/ AskModel \/ RequestFails \/ ReplyDiscarded \/ ReplyRejected \/ ReplyAnswers \/ ReplyCalls
  \/ ProposeTool \/ DispatchTool \/ ReceiptOfTool

Next == TimePasses \/ PressCtrlC \/ DropCtrlC \/ StartGoal \/ RunGoal

Spec == Init /\ [][Next]_vars

(* Network calls have a finite timeout and nothing else of a goal waits:   *)
(* the thread keeps running.                                               *)
FairSpec == Spec /\ WF_vars(RunGoal)

-----------------------------------------------------------------------------
(* However a goal ends - fourteen returns and breaks - the kernel is left  *)
(* ready for the next one: begin would refuse every later goal of a kernel *)
(* that still stands in a run.                                             *)
KernelReleased == pc = "idle" => agent.state \notin Active

(* The adapter's own count of the calls and the kernel's agree: a batch    *)
(* that passed the validation never fails on the budget half way, and      *)
(* seen_ids never outgrows its array.                                      *)
BatchFitsBudget ==
  /\ agent.calls <= sequence
  /\ pc # "idle" => sequence + Len(batch) <=
       Cardinality(seen) + (IF pc \in {"dispatch", "receipt"} THEN 1 ELSE 0)
  /\ Cardinality(seen) <= MAX_CALLS
  /\ agent.error = "Budget" => agent.models = MAX_MODELS

(* A goal that asked for the uptime check prints an answer only as         *)
(* verified, and only if device_uptime ran in this very goal; no other     *)
(* answer is called verified.                                              *)
VerdictIsEarned ==
  printed # "nothing" => /\ require = (printed = "verified")
                         /\ require => uptimeRead

(* Once Ctrl-C is pressed at most the tool that is being admitted runs.    *)
CtrlCIsHeard == late <= 1

(* Every goal ends whatever the model replies and even if the clock stands *)
(* still: the budgets alone bound it.                                      *)
GoalEnds == (pc # "idle") ~> (pc = "idle")
=============================================================================
