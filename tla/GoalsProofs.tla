---------------------------- MODULE GoalsProofs ----------------------------
(***************************************************************************)
(* Theorems about the goal of a board and the turn of a conversation, for  *)
(* any budgets, deadlines, tools and clock.                                *)
(*                                                                         *)
(* The board: the invariant ties the place of run_goal to the state of the *)
(* kernel, which is what its early returns could get wrong.  The turn: the *)
(* context is paired up to the receipts of the calls that are left.        *)
(***************************************************************************)
EXTENDS Goals, AgentMethodLemmas, SequenceTheorems, TLAPS


Places == {"idle", "ask", "request", "tool", "dispatch", "receipt"}

(* Where run_goal stands decides the state of the kernel.                  *)
Agrees(p, a) ==
  /\ p = "idle" => a.state \notin Active
  /\ p \in {"ask", "request", "tool"} => a.state = "Model"
  /\ p = "dispatch" => a.state = "Tool"
  /\ p = "receipt" => a.state = "Receipt"

AgentTyped == agent \in Agent

PlaceTyped == pc \in Places /\ clock \in Nat /\ require \in BOOLEAN /\ uptimeRead \in BOOLEAN

CallsTyped ==
  /\ sequence \in Nat /\ next_task \in Nat /\ batch \in Seq(Tools)
  /\ pc \in {"dispatch", "receipt"} => batch # <<>>

(* The check of the goal and the tool in the context are what the verdict  *)
(* rests on.                                                               *)
CheckKept ==
  pc # "idle" =>
    /\ agent.check = IF require THEN device_uptime ELSE Conversation
    /\ agent.verified => require /\ uptimeRead
    /\ printed = "nothing"
    /\ pc \in {"dispatch", "receipt"} => agent.tool \in Tools
    /\ pc = "receipt" /\ agent.tool = device_uptime => uptimeRead

(* A Ctrl-C that waits was not heard since one tool at most was admitted.  *)
Waiting ==
  /\ late \in Nat /\ late <= 1
  /\ ~ctrlC => late = 0
  /\ pc = "dispatch" => late = 0

EdgeInv ==
  /\ AgentTyped /\ PlaceTyped /\ CallsTyped
  /\ Agrees(pc, agent) /\ CheckKept /\ VerdictIsEarned /\ Waiting

-----------------------------------------------------------------------------
(* The goal as the kernel registers it is well formed.                     *)
LEMMA GoalTyped ==
  ASSUME NEW uptime \in BOOLEAN, next_task \in Nat
  PROVE  /\ GoalConfig(uptime) \in Config
         /\ GoalConfig(uptime).check = IF uptime THEN device_uptime ELSE Conversation
         /\ NextTask \in Nat
  <1>1. NextTask \in Nat
    BY EdgeAssumption DEF NextTask
  <1> DEFINE n == NextTask
  <1>2. n \in Nat
    BY <1>1
  <1> HIDE DEF n
  <1>3. GoalConfig(uptime) =
          [session |-> 1, task |-> n, allowed |-> {device_uptime, free_heap},
           check |-> IF uptime THEN device_uptime ELSE Conversation,
           maxCalls |-> MAX_CALLS, maxModels |-> MAX_MODELS, timeout |-> Timeout]
    BY DEF GoalConfig, n
  <1>4. GoalConfig(uptime) \in Config
    BY <1>2, <1>3, EdgeAssumption DEF Config, Checks, device_uptime, free_heap
  <1> QED BY <1>1, <1>3, <1>4

LEMMA InitEdgeInv == Init => EdgeInv
  <1> SUFFICES ASSUME Init PROVE EdgeInv
    OBVIOUS
  <1>1. Default \in Agent /\ Default.state = "Idle" /\ ~Default.verified
    BY DEF Default, Agent, KernelStates, Errors, Checks
  <1>5. <<>> \in Seq(Tools)
    OBVIOUS
  <1>6. AgentTyped /\ PlaceTyped
    BY <1>1 DEF Init, AgentTyped, PlaceTyped, Places
  <1>2. CallsTyped
    BY <1>5 DEF Init, CallsTyped
  <1>3. Agrees(pc, agent)
    BY <1>1 DEF Init, Agrees, Active
  <1>4. CheckKept /\ VerdictIsEarned /\ Waiting
    BY DEF Init, CheckKept, VerdictIsEarned, Waiting
  <1> QED BY <1>2, <1>3, <1>4, <1>6 DEF EdgeInv

(* Every return without an answer that leaves the kernel out of a run      *)
(* keeps the invariant.                                                    *)
LEMMA ReturnKeeps ==
  ASSUME EdgeInv, pc # "idle", agent' \in Agent, agent'.state \notin Active, pc' = "idle",
         UNCHANGED <<clock, ctrlC, locals, printed, uptimeRead, late>>
  PROVE  EdgeInv'
  BY DEF EdgeInv, AgentTyped, PlaceTyped, CallsTyped, Agrees, CheckKept, VerdictIsEarned,
    Waiting, Places, locals

LEMMA AbortedReturns ==
  ASSUME EdgeInv, pc # "idle", NEW a \in Agent, NEW e \in Errors, Return(Abort(a, e).a)
  PROVE  EdgeInv'
  <1>1. agent' \in Agent /\ agent'.state \notin Active
    BY AbortOutcome DEF Return, Active
  <1> QED BY <1>1, ReturnKeeps DEF Return

LEMMA BreakKeeps ==
  ASSUME EdgeInv, pc # "idle", NEW a \in Agent, Break(a)
  PROVE  EdgeInv'
  <1>1. CASE a.state # "Blocked"
    BY <1>1, AbortedReturns, ErrorNames DEF Break
  <1>2. CASE a.state = "Blocked"
    BY <1>2, ReturnKeeps DEF Break, Return, Active
  <1> QED BY <1>1, <1>2

LEMMA StopKeeps ==
  ASSUME EdgeInv, StopHere
  PROVE  EdgeInv'
  <1>0. agent \in Agent
    BY DEF EdgeInv, AgentTyped
  <1>6. Cancelled(agent) = agent \/ Cancelled(agent).state = "Cancelled"
    BY <1>0, CancelledOutcome
  <1>7. agent.state \in Active => Cancelled(agent).state = "Cancelled"
    BY <1>0, CancelledOutcome DEF Cancelled, Agent
  <1>1. agent' \in Agent /\ agent'.state \notin Active
    BY <1>0, <1>6, <1>7, CancelledOutcome DEF StopHere, Active
  <1>2. /\ pc' = "idle" /\ ~ctrlC' /\ late' = 0
        /\ UNCHANGED <<clock, locals, printed, uptimeRead>>
    BY DEF StopHere
  <1>3. AgentTyped' /\ PlaceTyped' /\ CallsTyped'
    BY <1>1, <1>2 DEF EdgeInv, AgentTyped, PlaceTyped, CallsTyped, Places, locals
  <1>4. Agrees(pc, agent)' /\ CheckKept'
    BY <1>1, <1>2 DEF Agrees, CheckKept
  <1>5. VerdictIsEarned' /\ Waiting'
    BY <1>2 DEF EdgeInv, VerdictIsEarned, Waiting, locals
  <1> QED BY <1>3, <1>4, <1>5 DEF EdgeInv

LEMMA StepEdgeInv == EdgeInv /\ [Next]_vars => EdgeInv'
  <1> SUFFICES ASSUME EdgeInv, [Next]_vars PROVE EdgeInv'
    OBVIOUS
  <1>0. /\ agent \in Agent /\ clock \in Nat /\ sequence \in Nat /\ next_task \in Nat
        /\ require \in BOOLEAN /\ uptimeRead \in BOOLEAN /\ batch \in Seq(Tools)
    BY DEF EdgeInv, AgentTyped, PlaceTyped, CallsTyped
  <1>1. CASE TimePasses
    BY <1>1 DEF TimePasses, EdgeInv, AgentTyped, PlaceTyped, CallsTyped, Agrees, CheckKept,
      VerdictIsEarned, Waiting, locals
  <1>2. CASE PressCtrlC
    BY <1>2 DEF PressCtrlC, EdgeInv, AgentTyped, PlaceTyped, CallsTyped, Agrees, CheckKept,
      VerdictIsEarned, Waiting, locals
  <1>3. CASE DropCtrlC
    BY <1>3 DEF DropCtrlC, EdgeInv, AgentTyped, PlaceTyped, CallsTyped, Agrees, CheckKept,
      VerdictIsEarned, Waiting, locals
  <1>4. CASE StartGoal
    <2> PICK uptime \in BOOLEAN :
          LET o == Begin(agent, GoalConfig(uptime), clock) IN
          /\ pc = "idle"
          /\ next_task' = NextTask
          /\ agent' = o.a
          /\ pc' = IF o.e = "None" THEN "ask" ELSE "idle"
          /\ require' = uptime
          /\ seen' = {} /\ sequence' = 0 /\ batch' = <<>> /\ overflowed' = FALSE
          /\ printed' = "nothing" /\ uptimeRead' = FALSE
          /\ UNCHANGED <<clock, ctrlC, late>>
      BY <1>4 DEF StartGoal
    <2> DEFINE c == GoalConfig(uptime)
    <2>1. c \in Config /\ c.check = (IF uptime THEN device_uptime ELSE Conversation)
          /\ NextTask \in Nat
      BY <1>0, GoalTyped
    <2> HIDE DEF c
    <2>2. /\ Begin(agent, c, clock).a \in Agent
          /\ Begin(agent, c, clock).e # "None" => Begin(agent, c, clock).a = agent
          /\ Begin(agent, c, clock).e = "None" =>
               /\ Begin(agent, c, clock).a.state = "Model"
               /\ ~Begin(agent, c, clock).a.verified
               /\ Begin(agent, c, clock).a.check = c.check
      BY <1>0, <2>1, BeginOutcome
    <2>3. /\ agent' = Begin(agent, c, clock).a
          /\ pc' = IF Begin(agent, c, clock).e = "None" THEN "ask" ELSE "idle"
      BY DEF c
    <2>7. <<>> \in Seq(Tools)
      OBVIOUS
    <2>8. AgentTyped' /\ PlaceTyped'
      BY <1>0, <2>2, <2>3 DEF AgentTyped, PlaceTyped, Places
    <2>4. CallsTyped'
      BY <2>1, <2>3, <2>7 DEF CallsTyped
    <2>5. Agrees(pc, agent)'
      BY <2>2, <2>3 DEF EdgeInv, Agrees
    <2>6. CheckKept' /\ VerdictIsEarned' /\ Waiting'
      BY <2>1, <2>2, <2>3 DEF EdgeInv, CheckKept, VerdictIsEarned, Waiting
    <2> QED BY <2>4, <2>5, <2>6, <2>8 DEF EdgeInv
  <1>5. CASE AskModel
    <2> DEFINE o == RequestModel(agent, clock)
    <2>1. /\ o.a \in Agent
          /\ o.e # "None" => o.a.state = "Blocked"
          /\ o.e = "None" => /\ o.a.state = "Model" /\ o.a.verified = agent.verified
                             /\ o.a.check = agent.check
      BY <1>0, <1>5, RequestModelOutcome DEF AskModel, SameRun
    <2>2. CASE StopHere
      BY <2>2, StopKeeps
    <2>3. CASE ~StopHere
      <3>1. /\ pc = "ask" /\ agent' = o.a
            /\ pc' = IF o.e = "None" THEN "request" ELSE "idle"
            /\ UNCHANGED <<clock, ctrlC, locals, printed, uptimeRead, late>>
        BY <1>5, <2>3 DEF AskModel
      <3> HIDE DEF o
      <3>2. CASE o.e # "None"
        BY <2>1, <3>1, <3>2, ReturnKeeps DEF Active
      <3>3. CASE o.e = "None"
        BY <2>1, <3>1, <3>3 DEF EdgeInv, AgentTyped, PlaceTyped, CallsTyped, Agrees, CheckKept,
          VerdictIsEarned, Waiting, Places, locals
      <3> QED BY <3>2, <3>3
    <2> QED BY <2>2, <2>3
  <1>6. CASE RequestFails
    BY <1>0, <1>6, AbortedReturns, ErrorNames DEF RequestFails
  <1>7. CASE ReplyDiscarded
    BY <1>7, StopKeeps DEF ReplyDiscarded
  <1>8. CASE ReplyRejected
    BY <1>0, <1>8, BreakKeeps DEF ReplyRejected
  <1>9. CASE ReplyAnswers
    <2> DEFINE o == Answer(agent, clock)
    <2>1. /\ o.a \in Agent
          /\ o.e # "None" => NoProgress(agent, o.a)
          /\ o.e = "Unverified" => o.a.state = "Model"
          /\ o.e = "None" => /\ o.a.state = "Complete" /\ o.a.verified = agent.verified
                             /\ (agent.check = Conversation \/ agent.verified)
      BY <1>0, AnswerOutcome
    <2>0. /\ pc = "request"
          /\ \/ /\ o.e = "Unverified" /\ agent' = o.a /\ pc' = "ask"
                /\ UNCHANGED <<clock, ctrlC, locals, printed, uptimeRead, late>>
             \/ Break(o.a)
             \/ /\ o.e = "None" /\ agent' = o.a /\ pc' = "idle"
                /\ printed' = IF o.a.verified THEN "verified" ELSE "unchecked"
                /\ UNCHANGED <<clock, ctrlC, locals, uptimeRead, late>>
      BY <1>9 DEF ReplyAnswers
    <2> HIDE DEF o
    <2>2. CASE Break(o.a)
      BY <2>0, <2>1, <2>2, BreakKeeps
    <2>3. CASE /\ o.e = "Unverified" /\ agent' = o.a /\ pc' = "ask"
               /\ UNCHANGED <<clock, ctrlC, locals, printed, uptimeRead, late>>
      BY <2>0, <2>1, <2>3 DEF EdgeInv, AgentTyped, PlaceTyped, CallsTyped, Agrees, CheckKept,
        VerdictIsEarned, Waiting, Places, locals, NoProgress, SameRun
    <2>4. CASE /\ o.e = "None" /\ agent' = o.a /\ pc' = "idle"
               /\ printed' = IF o.a.verified THEN "verified" ELSE "unchecked"
               /\ UNCHANGED <<clock, ctrlC, locals, uptimeRead, late>>
      <3>1. VerdictIsEarned'
        <4>1. device_uptime # Conversation
          BY EdgeAssumption DEF device_uptime
        <4> QED BY <1>0, <2>0, <2>1, <2>4, <4>1 DEF EdgeInv, VerdictIsEarned, CheckKept, locals
      <3> QED BY <2>0, <2>1, <2>4, <3>1 DEF EdgeInv, AgentTyped, PlaceTyped, CallsTyped, Agrees,
        CheckKept, Waiting, Places, locals, Active
    <2> QED BY <2>0, <2>2, <2>3, <2>4
  <1>10. CASE ReplyCalls
    <2> PICK calls \in Batches :
          /\ pc = "request"
          /\ \/ Break(agent)
             \/ /\ batch' = [i \in DOMAIN calls |-> calls[i].tool]
                /\ pc' = "tool"
                /\ UNCHANGED <<agent, clock, ctrlC, next_task, require, sequence, overflowed,
                               printed, uptimeRead, late>>
      BY <1>10 DEF ReplyCalls
    <2>1. CASE Break(agent)
      BY <1>0, <2>1, BreakKeeps
    <2>2. CASE ~Break(agent)
      <3>1. batch' \in Seq(Tools)
        <4> PICK n \in 1 .. MaxBatch : calls \in [1 .. n -> ToolCall]
          BY DEF Batches
        <4>1. n \in Nat /\ DOMAIN calls = 1 .. n
          BY EdgeAssumption
        <4>2. \A i \in 1 .. n : calls[i].tool \in Tools
          BY DEF ToolCall
        <4>3. batch' \in [1 .. n -> Tools]
          BY <2>2, <4>1, <4>2
        <4> QED BY <4>1, <4>3
      <3> QED BY <2>2, <3>1 DEF EdgeInv, AgentTyped, PlaceTyped, CallsTyped, Agrees, CheckKept,
        VerdictIsEarned, Waiting, Places
    <2> QED BY <2>1, <2>2
  <1>11. CASE ProposeTool
    <2> DEFINE call == sequence + 1
               tool == Head(batch)
               o == Propose(agent, call, tool, clock)
    <2>1. CASE StopHere
      BY <2>1, StopKeeps
    <2>2. CASE batch = <<>> /\ ~StopHere
      BY <1>11, <2>2 DEF ProposeTool, EdgeInv, AgentTyped, PlaceTyped, CallsTyped, Agrees,
        CheckKept, VerdictIsEarned, Waiting, Places, locals
    <2>3. CASE batch # <<>> /\ ~StopHere
      <3>1. /\ pc = "tool" /\ ~ctrlC
            /\ sequence' = sequence + 1
            /\ agent' = IF o.e = "None" THEN o.a ELSE Abort(o.a, o.e).a
            /\ pc' = IF o.e = "None" THEN "dispatch" ELSE "idle"
            /\ UNCHANGED <<clock, ctrlC, next_task, require, seen, batch, overflowed,
                           printed, uptimeRead, late>>
        BY <1>11, <2>3 DEF ProposeTool
      <3>2. tool \in Tools /\ call \in Nat /\ sequence' = call
        BY <1>0, <2>3, <3>1
      <3> HIDE DEF call, tool
      <3>3. /\ o.a \in Agent /\ o.e \in Errors
            /\ o.e = "None" => /\ SameRun(agent, o.a) /\ o.a.state = "Tool"
                               /\ o.a.verified = agent.verified /\ o.a.tool = tool
        BY <1>0, <3>2, ProposeOutcome
      <3>4. Abort(o.a, o.e).a \in Agent /\ Abort(o.a, o.e).a.state = "Blocked"
        BY <3>3, AbortOutcome
      <3> HIDE DEF o
      <3>5. CASE o.e = "None"
        BY <2>3, <3>1, <3>2, <3>3, <3>5 DEF EdgeInv, AgentTyped, PlaceTyped, CallsTyped, Agrees,
          CheckKept, VerdictIsEarned, Waiting, Places, SameRun
      <3>6. CASE o.e # "None"
        BY <3>1, <3>2, <3>4, <3>6 DEF EdgeInv, AgentTyped, PlaceTyped, CallsTyped, Agrees,
          CheckKept, VerdictIsEarned, Waiting, Places, Active
      <3> QED BY <3>5, <3>6
    <2> QED BY <2>1, <2>2, <2>3
  <1>12. CASE DispatchTool
    <2> PICK heap \in BOOLEAN, fits \in BOOLEAN :
          LET o == Dispatch(agent, heap, ~overflowed /\ fits, clock)
              admitted == o.e = "None" IN
          /\ pc = "dispatch"
          /\ agent' = IF admitted THEN o.a ELSE Abort(o.a, o.e).a
          /\ pc' = IF admitted THEN "receipt" ELSE "idle"
          /\ uptimeRead' = (uptimeRead \/ (admitted /\ agent.tool = device_uptime))
          /\ late' = IF admitted /\ ctrlC THEN late + 1 ELSE late
          /\ UNCHANGED <<clock, ctrlC, locals, printed>>
      BY <1>12 DEF DispatchTool
    <2>1. PICK recorded \in BOOLEAN : recorded = (~overflowed /\ fits)
      OBVIOUS
    <2> DEFINE o == Dispatch(agent, heap, recorded, clock)
    <2>2. /\ pc = "dispatch"
          /\ agent' = IF o.e = "None" THEN o.a ELSE Abort(o.a, o.e).a
          /\ pc' = IF o.e = "None" THEN "receipt" ELSE "idle"
          /\ uptimeRead' = (uptimeRead \/ (o.e = "None" /\ agent.tool = device_uptime))
          /\ late' = IF o.e = "None" /\ ctrlC THEN late + 1 ELSE late
          /\ UNCHANGED <<clock, ctrlC, locals, printed>>
      BY <2>1
    <2>3. /\ o.a \in Agent /\ o.e \in Errors
          /\ o.e = "None" => /\ SameRun(agent, o.a) /\ o.a.state = "Receipt"
                             /\ o.a.verified = agent.verified /\ o.a.tool = agent.tool
      BY <1>0, DispatchOutcome
    <2>4. Abort(o.a, o.e).a \in Agent /\ Abort(o.a, o.e).a.state = "Blocked"
      BY <2>3, AbortOutcome
    <2> HIDE DEF o
    <2>5. CASE o.e = "None"
      <3>1. AgentTyped' /\ PlaceTyped' /\ CallsTyped' /\ Agrees(pc, agent)'
        BY <2>2, <2>3, <2>5 DEF EdgeInv, AgentTyped, PlaceTyped, CallsTyped, Agrees, Places, locals
      <3>4. /\ pc = "dispatch" /\ require' = require /\ printed' = printed
            /\ (uptimeRead => uptimeRead') /\ (agent.tool = device_uptime => uptimeRead')
            /\ agent'.tool = agent.tool /\ agent'.check = agent.check
            /\ agent'.verified = agent.verified
        BY <2>2, <2>3, <2>5 DEF SameRun, locals
      <3>2. CheckKept' /\ VerdictIsEarned'
        BY <3>4 DEF EdgeInv, CheckKept, VerdictIsEarned
      <3>3. Waiting'
        <4>1. late = 0 /\ late' \in {0, 1} /\ (~ctrlC' => late' = 0) /\ pc' = "receipt"
          BY <2>2, <2>5 DEF EdgeInv, Waiting
        <4> QED BY <4>1 DEF Waiting
      <3> QED BY <3>1, <3>2, <3>3 DEF EdgeInv
    <2>6. CASE o.e # "None"
      BY <2>2, <2>4, <2>6 DEF EdgeInv, AgentTyped, PlaceTyped, CallsTyped, Agrees, CheckKept,
        VerdictIsEarned, Waiting, Places, Active, locals
    <2> QED BY <2>5, <2>6
  <1>13. CASE ReceiptOfTool
    <2> PICK full \in BOOLEAN :
          LET lost == overflowed \/ full
              id == [session |-> 1, task |-> next_task, call |-> sequence]
              o == Receive(agent, id, ~lost, Head(batch) = device_uptime, clock) IN
          /\ pc = "receipt"
          /\ overflowed' = lost
          /\ agent' = IF o.e = "None" THEN o.a ELSE Abort(o.a, o.e).a
          /\ pc' = IF o.e = "None" THEN "tool" ELSE "idle"
          /\ batch' = Tail(batch)
          /\ UNCHANGED <<clock, ctrlC, next_task, require, seen, sequence, printed, uptimeRead,
                         late>>
      BY <1>13 DEF ReceiptOfTool
    <2> DEFINE r == [call |-> [session |-> 1, task |-> next_task, call |-> sequence],
                     ok |-> ~(overflowed \/ full), checked |-> Head(batch) = device_uptime]
               o == Receive(agent, r.call, r.ok, r.checked, clock)
    <2>1. r.ok \in BOOLEAN /\ r.checked \in BOOLEAN
      OBVIOUS
    <2>2. /\ pc = "receipt"
          /\ agent' = IF o.e = "None" THEN o.a ELSE Abort(o.a, o.e).a
          /\ pc' = IF o.e = "None" THEN "tool" ELSE "idle"
          /\ batch' = Tail(batch)
          /\ UNCHANGED <<clock, ctrlC, next_task, require, seen, sequence, printed, uptimeRead,
                         late>>
      OBVIOUS
    <2> HIDE DEF r
    <2>3. /\ o.a \in Agent /\ o.e \in Errors
          /\ o.e = "None" => /\ SameRun(agent, o.a) /\ o.a.state = "Model"
                             /\ o.a.verified => agent.verified \/ agent.check = agent.tool
      BY <1>0, <2>1, ReceiveOutcome
    <2>4. Abort(o.a, o.e).a \in Agent /\ Abort(o.a, o.e).a.state = "Blocked"
      BY <2>3, AbortOutcome
    <2> HIDE DEF o
    <2>5. batch # <<>> /\ Tail(batch) \in Seq(Tools)
      BY <1>0, <2>2 DEF EdgeInv, CallsTyped
    <2>6. CASE o.e = "None"
      <3>1. agent'.verified => require /\ uptimeRead
        <4>1. Conversation \notin Tools
          BY EdgeAssumption
        <4> QED BY <1>0, <2>2, <2>3, <2>6, <4>1 DEF EdgeInv, CheckKept
      <3> QED BY <2>2, <2>3, <2>5, <2>6, <3>1 DEF EdgeInv, AgentTyped, PlaceTyped, CallsTyped,
        Agrees, CheckKept, VerdictIsEarned, Waiting, Places, SameRun
    <2>7. CASE o.e # "None"
      BY <2>2, <2>4, <2>5, <2>7 DEF EdgeInv, AgentTyped, PlaceTyped, CallsTyped, Agrees,
        CheckKept, VerdictIsEarned, Waiting, Places, Active
    <2> QED BY <2>6, <2>7
  <1>14. CASE UNCHANGED vars
    BY <1>14 DEF vars, EdgeInv, AgentTyped, PlaceTyped, CallsTyped, Agrees, CheckKept,
      VerdictIsEarned, Waiting, locals
  <1> QED
    BY <1>1, <1>2, <1>3, <1>4, <1>5, <1>6, <1>7, <1>8, <1>9, <1>10, <1>11, <1>12, <1>13, <1>14
    DEF Next, RunGoal

LEMMA EdgeInvariant == Spec => []EdgeInv
  BY InitEdgeInv, StepEdgeInv, PTL DEF Spec

(* Whatever the model replies, however run_goal returns, the kernel is     *)
(* left ready for the next goal.                                           *)
THEOREM GoalsReleaseTheKernel == Spec => []KernelReleased
  <1>1. EdgeInv => KernelReleased
    BY DEF EdgeInv, Agrees, KernelReleased
  <1> QED BY <1>1, EdgeInvariant, PTL

(* An answer is called verified only for a goal that asked for the check   *)
(* and in which device_uptime ran.                                         *)
THEOREM VerdictsAreEarned == Spec => []VerdictIsEarned
  <1>1. EdgeInv => VerdictIsEarned
    BY DEF EdgeInv
  <1> QED BY <1>1, EdgeInvariant, PTL

(* After Ctrl-C at most one more tool is admitted.                         *)
THEOREM CtrlCStopsTools == Spec => []CtrlCIsHeard
  <1>1. EdgeInv => CtrlCIsHeard
    BY DEF EdgeInv, Waiting, CtrlCIsHeard
  <1> QED BY <1>1, EdgeInvariant, PTL

-----------------------------------------------------------------------------
(***************************************************************************)
(* The turn of a conversation.                                             *)
(***************************************************************************)
Messages == [role : {"user", "excerpt", "assistant", "tool"}, calls : Nat]
Context == Seq(Messages)
\* a message that has nothing to do with calls
Word(m) == m.role \in {"user", "excerpt"} \/ (m.role = "assistant" /\ m.calls = 0)
WorkStates == {"idle", "running", "active", "waiting_input", "needs_review", "complete"}
WorkRecords ==
  [state : WorkStates, exec : BOOLEAN, checks : SUBSET Acts, good : SUBSET Acts, tried : BOOLEAN]

TurnTyped ==
  /\ Turn!TypeOK
  /\ msgs \in Context /\ plan \in Seq(Turn!Calls) /\ work \in WorkRecords
  /\ inputs \in 0..MaxInputs /\ waiting <= inputs /\ stop \in BOOLEAN

\* A budget of rounds is a number of whole segments; nothing caps a foreground turn.
Segments ==
  IF free THEN active = Turn!Unlimited
          ELSE \E n \in 1..(1 + Continuations) : active = RoundBudget * n

(* The budget is cut to the rounds made only for a turn that stalls, and such a
   turn makes no further round.                                              *)
Budgets ==
  /\ free => round = 0
  /\ round <= active
  /\ turnPc = "round" => Segments
  /\ turnPc \in {"fit", "drop", "request"} /\ round < active => Segments /\ ~Turn!Stalls
  /\ turnPc \in {"call", "running"} => round < active /\ Segments /\ ~Turn!Stalls

(* The context is paired between two batches, and in a batch it will be once the
   calls that are left have their receipts.                                  *)
Contexts ==
  /\ turnPc \in {"round", "fit", "drop", "request"} => Turn!Paired(msgs)
  /\ turnPc \in {"call", "running"} => Turn!Paired(msgs \o Turn!Copies(Turn!Receipt, Len(plan)))

\* A plan was made on all that has joined.
Current ==
  /\ turnPc = "request" => heard = joined
  /\ turnPc \in {"call", "running"} /\ plan # <<>> => heard = joined
  /\ turnPc = "running" => plan # <<>>

TurnInv == TurnTyped /\ Budgets /\ Contexts /\ Current /\ Turn!CompleteIsChecked

LEMMA Elements ==
  ASSUME NEW ms \in Context
  PROVE  /\ Len(ms) \in Nat /\ DOMAIN ms = 1..Len(ms)
         /\ \A i \in 1..Len(ms) : /\ ms[i] \in Messages /\ ms[i].calls \in Nat
                                  /\ ms[i].role \in {"user", "excerpt", "assistant", "tool"}
         /\ Turn!Batches(ms) = {i \in 1..Len(ms) : ms[i].role = "assistant" /\ ms[i].calls > 0}
  <1>1. Len(ms) \in Nat /\ DOMAIN ms = 1..Len(ms) /\ \A i \in 1..Len(ms) : ms[i] \in Messages
    BY DEF Context
  <1>2. \A m \in Messages : m.calls \in Nat /\ m.role \in {"user", "excerpt", "assistant", "tool"}
    BY DEF Messages
  <1> QED BY <1>1, <1>2 DEF Turn!Batches

LEMMA SomeCopies ==
  ASSUME NEW n \in Nat
  PROVE  /\ Turn!Copies(Turn!Receipt, n) \in Context /\ Len(Turn!Copies(Turn!Receipt, n)) = n
         /\ \A i \in 1..n : Turn!Copies(Turn!Receipt, n)[i] = Turn!Receipt
         /\ Turn!Copies(Turn!UserMessage, n) \in Context /\ Len(Turn!Copies(Turn!UserMessage, n)) = n
         /\ \A i \in 1..n : Turn!Copies(Turn!UserMessage, n)[i] = Turn!UserMessage
         /\ Turn!Receipt \in Messages /\ Turn!Receipt.role = "tool"
         /\ Turn!UserMessage \in Messages /\ Word(Turn!UserMessage)
         /\ Turn!Excerpts \in Messages /\ Word(Turn!Excerpts)
  BY DEF Turn!Copies, Turn!Receipt, Turn!UserMessage, Turn!Excerpts, Turn!Message, Context, Messages, Word

LEMMA NoReceiptsDue ==
  ASSUME NEW ms \in Context
  PROVE  ms \o Turn!Copies(Turn!Receipt, 0) = ms
  <1> DEFINE none == Turn!Copies(Turn!Receipt, 0)
  <1>1. none \in Seq(Messages) /\ Len(none) = 0
    BY SomeCopies DEF Context
  <1> HIDE DEF none
  <1>2. none = <<>>
    BY <1>1, EmptySeq
  <1>3. ms \o <<>> = ms
    BY ConcatEmptySeq DEF Context
  <1> QED BY <1>2, <1>3 DEF none

\* A receipt is the next of those that are due.
LEMMA OneReceiptLess ==
  ASSUME NEW ms \in Context, NEW n \in Nat, n > 0
  PROVE  Append(ms, Turn!Receipt) \o Turn!Copies(Turn!Receipt, n - 1) = ms \o Turn!Copies(Turn!Receipt, n)
  <1> DEFINE due == Turn!Copies(Turn!Receipt, n)
             rest == Turn!Copies(Turn!Receipt, n - 1)
             more == Append(ms, Turn!Receipt)
  <1>1. /\ due \in Seq(Messages) /\ Len(due) = n /\ \A i \in 1..n : due[i] = Turn!Receipt
        /\ rest \in Seq(Messages) /\ Len(rest) = n - 1 /\ \A i \in 1..(n - 1) : rest[i] = Turn!Receipt
        /\ ms \in Seq(Messages) /\ Turn!Receipt \in Messages /\ Len(ms) \in Nat
    BY SomeCopies DEF Context
  <1> HIDE DEF due, rest, more
  <1>2. /\ more \in Seq(Messages) /\ Len(more) = Len(ms) + 1
        /\ \A i \in 1..Len(ms) : more[i] = ms[i]
        /\ more[Len(ms) + 1] = Turn!Receipt
    BY <1>1, AppendProperties DEF more
  <1> DEFINE left == more \o rest
             right == ms \o due
  <1>3. /\ left \in Seq(Messages) /\ Len(left) = Len(more) + Len(rest)
        /\ \A i \in 1..(Len(more) + Len(rest)) :
             left[i] = IF i <= Len(more) THEN more[i] ELSE rest[i - Len(more)]
    BY <1>1, <1>2, ConcatProperties
  <1>4. /\ right \in Seq(Messages) /\ Len(right) = Len(ms) + Len(due)
        /\ \A i \in 1..(Len(ms) + Len(due)) :
             right[i] = IF i <= Len(ms) THEN ms[i] ELSE due[i - Len(ms)]
    BY <1>1, ConcatProperties
  <1> HIDE DEF left, right
  <1>5. ASSUME NEW i \in 1..(Len(ms) + n) PROVE left[i] = right[i]
    <2>1. CASE i <= Len(ms)
      <3>1. i \in 1..Len(ms) /\ i \in 1..(Len(ms) + Len(due)) /\ i \in 1..(Len(more) + Len(rest)) /\ i <= Len(more)
        BY <1>1, <1>2, <2>1
      <3>2. left[i] = more[i]
        BY <1>3, <3>1
      <3>3. right[i] = ms[i]
        BY <1>4, <2>1, <3>1
      <3> QED BY <1>2, <3>1, <3>2, <3>3
    <2>2. CASE i = Len(ms) + 1
      <3>1. right[i] = Turn!Receipt
        <4>1. i \in 1..(Len(ms) + Len(due)) /\ ~(i <= Len(ms)) /\ i - Len(ms) \in 1..n
          BY <1>1, <2>2
        <4>2. right[i] = due[i - Len(ms)]
          BY <1>4, <4>1
        <4> QED BY <1>1, <4>1, <4>2
      <3>2. left[i] = more[Len(ms) + 1]
        <4>1. i \in 1..(Len(more) + Len(rest)) /\ i <= Len(more)
          BY <1>1, <1>2, <2>2
        <4>2. left[i] = more[i]
          BY <1>3, <4>1
        <4> QED BY <2>2, <4>2
      <3> QED BY <1>2, <3>1, <3>2
    <2>3. CASE i > Len(ms) + 1
      <3>1. right[i] = Turn!Receipt
        <4>1. i \in 1..(Len(ms) + Len(due)) /\ ~(i <= Len(ms)) /\ i - Len(ms) \in 1..n
          BY <1>1, <2>3
        <4>2. right[i] = due[i - Len(ms)]
          BY <1>4, <4>1
        <4> QED BY <1>1, <4>1, <4>2
      <3>2. left[i] = Turn!Receipt
        <4>1. i \in 1..(Len(more) + Len(rest)) /\ ~(i <= Len(more)) /\ i - Len(more) \in 1..(n - 1)
          BY <1>1, <1>2, <2>3
        <4>2. left[i] = rest[i - Len(more)]
          BY <1>3, <4>1
        <4> QED BY <1>1, <4>1, <4>2
      <3> QED BY <3>1, <3>2
    <2> QED BY <1>1, <2>1, <2>2, <2>3
  <1>6. Len(left) = Len(ms) + n /\ Len(right) = Len(ms) + n
    BY <1>1, <1>2, <1>3, <1>4
  <1>7. left = right
    BY <1>3, <1>4, <1>5, <1>6, SeqEqual
  <1> QED BY <1>7 DEF left, right, due, rest, more

\* Words in front and behind leave paired what is paired.
LEMMA PairedInside ==
  ASSUME NEW ms \in Context, Turn!Paired(ms), NEW all \in Context, NEW d \in Nat,
         Len(ms) + d <= Len(all),
         \A i \in 1..Len(ms) : all[i + d] = ms[i],
         \A i \in 1..Len(all) : i <= d \/ i > Len(ms) + d => Word(all[i])
  PROVE  Turn!Paired(all)
  <1>1. /\ Len(ms) \in Nat /\ DOMAIN ms = 1..Len(ms)
        /\ \A i \in 1..Len(ms) : ms[i].calls \in Nat
        /\ Turn!Batches(ms) = {i \in 1..Len(ms) : ms[i].role = "assistant" /\ ms[i].calls > 0}
    BY Elements
  <1>2. /\ Len(all) \in Nat /\ DOMAIN all = 1..Len(all)
        /\ Turn!Batches(all) = {i \in 1..Len(all) : all[i].role = "assistant" /\ all[i].calls > 0}
    BY Elements
  <1>3. \A i \in 1..Len(all) : ~Word(all[i]) => i - d \in 1..Len(ms) /\ all[i] = ms[i - d]
    <2> SUFFICES ASSUME NEW i \in 1..Len(all), ~Word(all[i])
                 PROVE  i - d \in 1..Len(ms) /\ all[i] = ms[i - d]
      OBVIOUS
    <2>1. i - d \in 1..Len(ms)
      BY <1>1, <1>2
    <2>2. all[(i - d) + d] = ms[i - d] /\ (i - d) + d = i
      BY <2>1
    <2> QED BY <2>1, <2>2
  <1>4. \A i \in Turn!Batches(all) : i - d \in Turn!Batches(ms) /\ all[i] = ms[i - d]
    BY <1>1, <1>2, <1>3 DEF Word
  <1>5. \A i \in Turn!Batches(ms) : i + d \in Turn!Batches(all) /\ all[i + d] = ms[i]
    BY <1>1, <1>2
  <1>6. ASSUME NEW i \in Turn!Batches(all)
        PROVE  Len(all) >= i + all[i].calls /\ \A j \in (i + 1)..(i + all[i].calls) : all[j].role = "tool"
    <2> DEFINE k == i - d
    <2>1. k \in Turn!Batches(ms) /\ all[i] = ms[k] /\ k \in 1..Len(ms) /\ i = k + d /\ ms[k].calls \in Nat
      BY <1>1, <1>2, <1>4
    <2> HIDE DEF k
    <2>2. Len(ms) >= k + ms[k].calls /\ \A j \in (k + 1)..(k + ms[k].calls) : ms[j].role = "tool"
      BY <2>1 DEF Turn!Paired
    <2>3. ASSUME NEW j \in (i + 1)..(i + ms[k].calls) PROVE all[j].role = "tool"
      <3>1. j - d \in (k + 1)..(k + ms[k].calls) /\ j - d \in 1..Len(ms) /\ (j - d) + d = j
        BY <1>1, <2>1, <2>2
      <3>2. all[(j - d) + d] = ms[j - d]
        BY <3>1
      <3> QED BY <2>2, <3>1, <3>2
    <2> QED BY <1>1, <1>2, <2>1, <2>2, <2>3
  <1>7. ASSUME NEW j \in 1..Len(all), all[j].role = "tool"
        PROVE  \E i \in Turn!Batches(all) : i < j /\ j <= i + all[i].calls
    <2>1. j - d \in 1..Len(ms) /\ all[j] = ms[j - d]
      BY <1>3, <1>7 DEF Word
    <2>2. PICK i \in Turn!Batches(ms) : i < j - d /\ j - d <= i + ms[i].calls
      BY <1>1, <1>7, <2>1 DEF Turn!Paired
    <2>3. i + d < j /\ j <= (i + d) + ms[i].calls
      BY <1>1, <2>1, <2>2
    <2> QED BY <1>5, <2>2, <2>3
  <1> QED BY <1>2, <1>6, <1>7 DEF Turn!Paired

\* Words of the user behind what is paired.
LEMMA PairedWithWords ==
  ASSUME NEW ms \in Context, Turn!Paired(ms), NEW n \in Nat
  PROVE  /\ ms \o Turn!Copies(Turn!UserMessage, n) \in Context
         /\ Turn!Paired(ms \o Turn!Copies(Turn!UserMessage, n))
  <1> DEFINE words == Turn!Copies(Turn!UserMessage, n)
             all == ms \o words
  <1>0. words \in Context /\ Len(words) = n /\ \A i \in 1..n : words[i] = Turn!UserMessage
    BY SomeCopies
  <1> HIDE DEF words
  <1>1. /\ words \in Seq(Messages) /\ Len(words) = n /\ \A i \in 1..n : Word(words[i])
        /\ ms \in Seq(Messages) /\ Len(ms) \in Nat
    <2>1. Word(Turn!UserMessage)
      BY SomeCopies
    <2> QED BY <1>0, <2>1 DEF Context
  <1>2. /\ all \in Seq(Messages) /\ Len(all) = Len(ms) + Len(words)
        /\ \A i \in 1..(Len(ms) + Len(words)) :
             all[i] = IF i <= Len(ms) THEN ms[i] ELSE words[i - Len(ms)]
    BY <1>1, ConcatProperties
  <1> HIDE DEF all
  <1>3. ASSUME NEW i \in 1..Len(ms) PROVE all[i + 0] = ms[i]
    <2>1. i + 0 = i /\ i \in 1..(Len(ms) + Len(words)) /\ i <= Len(ms)
      BY <1>1
    <2> QED BY <1>2, <2>1
  <1>4. \A i \in 1..Len(all) : i <= 0 \/ i > Len(ms) + 0 => Word(all[i])
    <2> SUFFICES ASSUME NEW i \in 1..Len(all), i <= 0 \/ i > Len(ms) + 0 PROVE Word(all[i])
      OBVIOUS
    <2>1. i \in 1..(Len(ms) + Len(words)) /\ ~(i <= Len(ms)) /\ i - Len(ms) \in 1..n
      BY <1>1, <1>2
    <2>2. all[i] = words[i - Len(ms)]
      BY <1>2, <2>1
    <2> QED BY <1>1, <2>1, <2>2
  <1>5. all \in Context /\ Len(ms) + 0 <= Len(all) /\ 0 \in Nat
    BY <1>1, <1>2 DEF Context
  <1>6. Turn!Paired(all)
    BY <1>3, <1>4, <1>5, PairedInside
  <1> QED BY <1>5, <1>6 DEF all, words

\* The excerpts in front of what is paired, and without them again.
LEMMA PairedWithHead ==
  ASSUME NEW ms \in Context, Turn!Paired(ms), NEW m \in Messages, Word(m)
  PROVE  <<m>> \o ms \in Context /\ Turn!Paired(<<m>> \o ms)
  <1> DEFINE one == <<m>>
             all == one \o ms
  <1>1. /\ one \in Seq(Messages) /\ Len(one) = 1 /\ Word(one[1])
        /\ ms \in Seq(Messages) /\ Len(ms) \in Nat
    BY DEF Context
  <1> HIDE DEF one
  <1>2. /\ all \in Seq(Messages) /\ Len(all) = Len(one) + Len(ms)
        /\ \A i \in 1..(Len(one) + Len(ms)) :
             all[i] = IF i <= Len(one) THEN one[i] ELSE ms[i - Len(one)]
    BY <1>1, ConcatProperties
  <1> HIDE DEF all
  <1>3. ASSUME NEW i \in 1..Len(ms) PROVE all[i + 1] = ms[i]
    <2>1. i + 1 \in 1..(Len(one) + Len(ms)) /\ ~(i + 1 <= Len(one)) /\ (i + 1) - Len(one) = i
      BY <1>1
    <2> QED BY <1>2, <2>1
  <1>4. \A i \in 1..Len(all) : i <= 1 \/ i > Len(ms) + 1 => Word(all[i])
    <2> SUFFICES ASSUME NEW i \in 1..Len(all), i <= 1 \/ i > Len(ms) + 1 PROVE Word(all[i])
      OBVIOUS
    <2>1. i = 1 /\ i \in 1..(Len(one) + Len(ms)) /\ i <= Len(one)
      BY <1>1, <1>2
    <2>2. all[i] = one[i]
      BY <1>2, <2>1
    <2> QED BY <1>1, <2>1, <2>2
  <1>5. all \in Context /\ Len(ms) + 1 <= Len(all) /\ 1 \in Nat
    BY <1>1, <1>2 DEF Context
  <1>6. Turn!Paired(all)
    BY <1>3, <1>4, <1>5, PairedInside
  <1> QED BY <1>5, <1>6 DEF all, one

LEMMA PairedWithoutHead ==
  ASSUME NEW ms \in Context, Turn!Paired(ms), ms # <<>>, Word(ms[1])
  PROVE  Tail(ms) \in Context /\ Turn!Paired(Tail(ms))
  <1> DEFINE rest == Tail(ms)
  <1>1. /\ Len(ms) \in Nat /\ DOMAIN ms = 1..Len(ms)
        /\ Turn!Batches(ms) = {i \in 1..Len(ms) : ms[i].role = "assistant" /\ ms[i].calls > 0}
    BY Elements
  <1>2. rest \in Context /\ Len(rest) = Len(ms) - 1 /\ \A i \in 1..Len(rest) : rest[i] = ms[i + 1]
    BY HeadTailProperties DEF Context
  <1> HIDE DEF rest
  <1>3. /\ Len(rest) \in Nat /\ DOMAIN rest = 1..Len(rest)
        /\ \A i \in 1..Len(rest) : rest[i].calls \in Nat
        /\ Turn!Batches(rest) = {i \in 1..Len(rest) : rest[i].role = "assistant" /\ rest[i].calls > 0}
    BY <1>2, Elements
  <1>4. ASSUME NEW i \in Turn!Batches(rest)
        PROVE  Len(rest) >= i + rest[i].calls /\ \A j \in (i + 1)..(i + rest[i].calls) : rest[j].role = "tool"
    <2> DEFINE n == rest[i].calls
    <2>1. i \in 1..Len(rest) /\ i + 1 \in 1..Len(ms) /\ rest[i] = ms[i + 1] /\ n \in Nat
      BY <1>1, <1>2, <1>3
    <2>2. i + 1 \in Turn!Batches(ms) /\ ms[i + 1].calls = n
      BY <1>1, <1>3, <2>1
    <2>3. Len(ms) >= (i + 1) + n /\ \A j \in ((i + 1) + 1)..((i + 1) + n) : ms[j].role = "tool"
      BY <2>2 DEF Turn!Paired
    <2> HIDE DEF n
    <2>4. Len(rest) >= i + n
      BY <1>1, <1>2, <2>1, <2>3
    <2>5. ASSUME NEW j \in (i + 1)..(i + n) PROVE rest[j].role = "tool"
      <3>1. j \in 1..Len(rest) /\ j + 1 \in ((i + 1) + 1)..((i + 1) + n)
        BY <1>3, <2>1, <2>4
      <3>2. rest[j] = ms[j + 1]
        BY <1>2, <3>1
      <3> QED BY <2>3, <3>1, <3>2
    <2> QED BY <2>4, <2>5 DEF n
  <1>5. ASSUME NEW j \in 1..Len(rest), rest[j].role = "tool"
        PROVE  \E i \in Turn!Batches(rest) : i < j /\ j <= i + rest[i].calls
    <2>1. j + 1 \in DOMAIN ms /\ ms[j + 1].role = "tool"
      BY <1>1, <1>2, <1>3, <1>5
    <2>2. PICK b \in Turn!Batches(ms) : b < j + 1 /\ j + 1 <= b + ms[b].calls
      BY <2>1 DEF Turn!Paired
    <2> DEFINE i == b - 1
    <2>3. b \in 1..Len(ms) /\ b # 1
      BY <1>1, <2>2 DEF Word
    <2>4. i \in 1..Len(rest) /\ i + 1 = b
      BY <1>1, <1>2, <2>3
    <2> HIDE DEF i
    <2>5. rest[i] = ms[b]
      BY <1>2, <2>4
    <2> DEFINE n == rest[i].calls
    <2>6. i \in Turn!Batches(rest) /\ n \in Nat
      BY <1>1, <1>3, <2>2, <2>4, <2>5
    <2>7. b < j + 1 /\ j + 1 <= b + n
      BY <2>2, <2>5
    <2> HIDE DEF n
    <2>8. i < j /\ j <= i + n
      BY <1>3, <2>4, <2>6, <2>7
    <2> QED BY <2>6, <2>8 DEF n
  <1>6. Turn!Paired(rest)
    BY <1>3, <1>4, <1>5 DEF Turn!Paired
  <1> QED BY <1>2, <1>6 DEF rest

LEMMA PairedWithProse ==
  ASSUME NEW ms \in Context, Turn!Paired(ms)
  PROVE  /\ Append(ms, Turn!Message("assistant", 0)) \in Context
         /\ Turn!Paired(Append(ms, Turn!Message("assistant", 0)))
  <1> DEFINE prose == Turn!Message("assistant", 0)
             longer == Append(ms, prose)
  <1>1. prose \in Messages /\ Word(prose) /\ ms \in Seq(Messages) /\ Len(ms) \in Nat
    BY DEF Turn!Message, Messages, Word, Context
  <1> HIDE DEF prose
  <1>2. /\ longer \in Seq(Messages) /\ Len(longer) = Len(ms) + 1
        /\ \A i \in 1..Len(ms) : longer[i] = ms[i]
        /\ longer[Len(ms) + 1] = prose
    BY <1>1, AppendProperties
  <1> HIDE DEF longer
  <1>3. \A i \in 1..Len(ms) : longer[i + 0] = ms[i]
    BY <1>1, <1>2
  <1>4. \A i \in 1..Len(longer) : i <= 0 \/ i > Len(ms) + 0 => Word(longer[i])
    BY <1>1, <1>2
  <1>5. Turn!Paired(longer)
    BY <1>1, <1>2, <1>3, <1>4, PairedInside DEF Context
  <1> QED BY <1>2, <1>5 DEF longer, prose, Context

\* A batch of calls will be paired when each has its receipt.
LEMMA PairedWithBatch ==
  ASSUME NEW ms \in Context, Turn!Paired(ms), NEW n \in Nat
  PROVE  /\ Append(ms, Turn!Message("assistant", n)) \in Context
         /\ Turn!Paired(Append(ms, Turn!Message("assistant", n)) \o Turn!Copies(Turn!Receipt, n))
  <1> DEFINE head == Turn!Message("assistant", n)
             open == Append(ms, head)
             due == Turn!Copies(Turn!Receipt, n)
             all == open \o due
  <1>1. /\ head \in Messages /\ head.role = "assistant" /\ head.calls = n
        /\ due \in Seq(Messages) /\ Len(due) = n /\ \A i \in 1..n : due[i].role = "tool"
        /\ ms \in Seq(Messages)
    BY SomeCopies DEF Turn!Message, Messages, Context
  <1>0. /\ Len(ms) \in Nat /\ DOMAIN ms = 1..Len(ms)
        /\ \A i \in 1..Len(ms) : ms[i].calls \in Nat
        /\ Turn!Batches(ms) = {i \in 1..Len(ms) : ms[i].role = "assistant" /\ ms[i].calls > 0}
    BY Elements
  <1> HIDE DEF head, due
  <1>2. /\ open \in Seq(Messages) /\ Len(open) = Len(ms) + 1
        /\ \A i \in 1..Len(ms) : open[i] = ms[i]
        /\ open[Len(ms) + 1] = head
    BY <1>1, AppendProperties
  <1> HIDE DEF open
  <1>3. /\ all \in Seq(Messages) /\ Len(all) = Len(open) + Len(due)
        /\ \A i \in 1..(Len(open) + Len(due)) :
             all[i] = IF i <= Len(open) THEN open[i] ELSE due[i - Len(open)]
    BY <1>1, <1>2, ConcatProperties
  <1> HIDE DEF all
  <1>4. /\ DOMAIN all = 1..Len(all)
        /\ Turn!Batches(all) = {i \in 1..Len(all) : all[i].role = "assistant" /\ all[i].calls > 0}
    BY <1>3, Elements DEF Context
  <1>5. /\ Len(all) = Len(ms) + 1 + n
        /\ \A i \in 1..Len(ms) : all[i] = ms[i]
        /\ all[Len(ms) + 1] = head
    BY <1>0, <1>1, <1>2, <1>3
  <1>6. \A i \in 1..Len(all) : i > Len(ms) + 1 => all[i].role = "tool"
    <2> SUFFICES ASSUME NEW i \in 1..Len(all), i > Len(ms) + 1 PROVE all[i].role = "tool"
      OBVIOUS
    <2>1. all[i] = due[i - Len(open)] /\ i - Len(open) \in 1..n
      BY <1>0, <1>1, <1>2, <1>3, <1>5
    <2> QED BY <1>1, <2>1
  <1>7. ASSUME NEW i \in Turn!Batches(all)
        PROVE  Len(all) >= i + all[i].calls /\ \A j \in (i + 1)..(i + all[i].calls) : all[j].role = "tool"
    <2>1. i \in 1..Len(all) /\ all[i].role = "assistant" /\ all[i].calls > 0
      BY <1>4
    <2>2. CASE i <= Len(ms)
      <3>1. i \in Turn!Batches(ms) /\ all[i] = ms[i] /\ ms[i].calls \in Nat
        BY <1>0, <1>5, <2>1, <2>2
      <3>2. Len(ms) >= i + ms[i].calls /\ \A j \in (i + 1)..(i + ms[i].calls) : ms[j].role = "tool"
        BY <3>1 DEF Turn!Paired
      <3> QED BY <1>0, <1>5, <2>1, <3>1, <3>2
    <2>3. CASE i = Len(ms) + 1
      BY <1>0, <1>1, <1>5, <1>6, <2>3
    <2> QED BY <1>0, <1>6, <2>1, <2>2, <2>3
  <1>8. ASSUME NEW j \in 1..Len(all), all[j].role = "tool"
        PROVE  \E i \in Turn!Batches(all) : i < j /\ j <= i + all[i].calls
    <2>1. CASE j <= Len(ms)
      <3>1. PICK i \in Turn!Batches(ms) : i < j /\ j <= i + ms[i].calls
        BY <1>0, <1>5, <1>8, <2>1 DEF Turn!Paired
      <3>2. i \in Turn!Batches(all) /\ all[i] = ms[i]
        BY <1>0, <1>4, <1>5, <3>1
      <3> QED BY <3>1, <3>2
    <2>2. CASE j > Len(ms)
      <3>1. j > Len(ms) + 1 /\ n > 0
        BY <1>0, <1>1, <1>5, <1>8, <2>2
      <3>2. Len(ms) + 1 \in Turn!Batches(all)
        BY <1>0, <1>1, <1>4, <1>5, <3>1
      <3> QED BY <1>0, <1>1, <1>5, <3>1, <3>2
    <2> QED BY <1>0, <2>1, <2>2
  <1>9. Turn!Paired(all)
    BY <1>4, <1>7, <1>8 DEF Turn!Paired
  <1> QED BY <1>2, <1>9 DEF all, open, due, head, Context

\* The first batch ends where its receipts do.
LEMMA PastTheReceipts ==
  ASSUME NEW ms \in Context, Turn!Paired(ms), NEW i \in Turn!Oldest(ms), NEW k \in Turn!Past(ms, i)
  PROVE  /\ i \in 1..Len(ms) /\ k \in Nat /\ k = i + ms[i].calls + 1 /\ k <= Len(ms) + 1 /\ ms[i].calls \in Nat
         /\ \A j \in 1..Len(ms) : j < i => Word(ms[j])
  <1>1. /\ Len(ms) \in Nat /\ DOMAIN ms = 1..Len(ms)
        /\ \A j \in 1..Len(ms) : ms[j].calls \in Nat /\ ms[j].role \in {"user", "excerpt", "assistant", "tool"}
        /\ Turn!Batches(ms) = {j \in 1..Len(ms) : ms[j].role = "assistant" /\ ms[j].calls > 0}
    BY Elements
  <1>2. i \in Turn!Batches(ms) /\ \A j \in Turn!Batches(ms) : i <= j
    BY DEF Turn!Oldest
  <1>3. i \in 1..Len(ms) /\ ms[i].calls \in Nat
    BY <1>1, <1>2
  <1>4. i + ms[i].calls <= Len(ms) /\ \A j \in (i + 1)..(i + ms[i].calls) : ms[j].role = "tool"
    BY <1>1, <1>2, <1>3 DEF Turn!Paired
  <1>5. /\ k \in (i + 1)..(Len(ms) + 1) /\ (k = Len(ms) + 1 \/ ms[k].role # "tool")
        /\ \A j \in (i + 1)..(k - 1) : ms[j].role = "tool"
    BY DEF Turn!Past
  <1>6. k > i + ms[i].calls
    <2> SUFFICES ASSUME k <= i + ms[i].calls PROVE FALSE
      BY <1>1, <1>3, <1>5
    <2>1. k \in (i + 1)..(i + ms[i].calls) /\ k # Len(ms) + 1
      BY <1>1, <1>3, <1>4, <1>5
    <2> QED BY <1>4, <1>5, <2>1
  <1>7. k <= i + ms[i].calls + 1
    <2> SUFFICES ASSUME k > i + ms[i].calls + 1 PROVE FALSE
      BY <1>1, <1>3, <1>5
    <2> DEFINE t == i + ms[i].calls + 1
    <2>1. t \in 1..Len(ms) /\ t \in (i + 1)..(k - 1) /\ ms[t].role = "tool"
      BY <1>1, <1>3, <1>5
    <2>2. PICK j \in Turn!Batches(ms) : j < t /\ t <= j + ms[j].calls
      BY <1>1, <2>1 DEF Turn!Paired
    <2>3. j \in 1..Len(ms) /\ ms[j].role = "assistant" /\ i <= j
      BY <1>1, <1>2, <2>2
    <2>4. j # i
      BY <1>3, <2>2
    <2>5. j \in (i + 1)..(k - 1)
      BY <1>1, <1>3, <1>5, <2>1, <2>2, <2>3, <2>4
    <2> QED BY <1>5, <2>3, <2>5
  <1>8. ASSUME NEW j \in 1..Len(ms), j < i PROVE Word(ms[j])
    <2>1. j \notin Turn!Batches(ms)
      BY <1>1, <1>2, <1>3, <1>8
    <2>2. ms[j].role # "tool"
      <3> SUFFICES ASSUME ms[j].role = "tool" PROVE FALSE
        OBVIOUS
      <3>1. PICK b \in Turn!Batches(ms) : b < j
        BY <1>1 DEF Turn!Paired
      <3> QED BY <1>1, <1>2, <1>3, <1>8, <3>1
    <2> QED BY <1>1, <2>1, <2>2 DEF Word
  <1>9. k \in Nat /\ k <= Len(ms) + 1
    BY <1>1, <1>3, <1>5
  <1>10. k = i + ms[i].calls + 1
    <2> DEFINE n == ms[i].calls
    <2>1. n \in Nat /\ i \in Nat /\ k > i + n /\ k <= i + n + 1
      BY <1>1, <1>3, <1>6, <1>7
    <2> HIDE DEF n
    <2>2. k = i + n + 1
      BY <1>9, <2>1
    <2> QED BY <2>2 DEF n
  <1> QED BY <1>3, <1>8, <1>9, <1>10

\* What is behind the first batch is paired on its own.
LEMMA PairedBehind ==
  ASSUME NEW ms \in Context, Turn!Paired(ms), NEW i \in Turn!Oldest(ms), NEW k \in Turn!Past(ms, i),
         NEW rest \in Context, Len(rest) = Len(ms) + 1 - k,
         \A j \in 1..Len(rest) : rest[j] = ms[j + k - 1]
  PROVE  Turn!Paired(rest)
  <1>1. /\ Len(ms) \in Nat /\ DOMAIN ms = 1..Len(ms)
        /\ \A j \in 1..Len(ms) : ms[j].calls \in Nat
        /\ Turn!Batches(ms) = {j \in 1..Len(ms) : ms[j].role = "assistant" /\ ms[j].calls > 0}
    BY Elements
  <1>2. /\ Len(rest) \in Nat /\ DOMAIN rest = 1..Len(rest)
        /\ Turn!Batches(rest) = {j \in 1..Len(rest) : rest[j].role = "assistant" /\ rest[j].calls > 0}
    BY Elements
  <1>0. PICK n \in Nat : n = ms[i].calls /\ k = i + n + 1
    BY PastTheReceipts
  <1>3. i \in 1..Len(ms) /\ i \in Nat /\ k \in Nat /\ i < k /\ k <= Len(ms) + 1
    <2>1. i \in 1..Len(ms) /\ k \in Nat /\ k <= Len(ms) + 1
      BY PastTheReceipts
    <2>2. i \in Nat
      BY <1>1, <2>1
    <2>3. k = i + n + 1
      BY <1>0
    <2>4. i < k
      BY <2>2, <2>3
    <2> QED BY <2>1, <2>2, <2>4
  <1>4. i \in Turn!Batches(ms) /\ \A j \in Turn!Batches(ms) : i <= j
    BY DEF Turn!Oldest
  <1>5. \A j \in (i + 1)..(k - 1) : ms[j].role = "tool"
    BY DEF Turn!Past
  <1>6. \A j \in Turn!Batches(rest) : j + k - 1 \in Turn!Batches(ms) /\ rest[j] = ms[j + k - 1]
    BY <1>1, <1>2, <1>3
  <1>7. ASSUME NEW j \in Turn!Batches(rest)
        PROVE  Len(rest) >= j + rest[j].calls /\ \A l \in (j + 1)..(j + rest[j].calls) : rest[l].role = "tool"
    <2> DEFINE b == j + k - 1
               m == ms[b].calls
    <2>1. b \in Turn!Batches(ms) /\ rest[j] = ms[b] /\ b \in 1..Len(ms) /\ ms[b].calls \in Nat /\ j \in 1..Len(rest)
      BY <1>1, <1>2, <1>6
    <2>2. Len(ms) >= b + ms[b].calls /\ \A l \in (b + 1)..(b + ms[b].calls) : ms[l].role = "tool"
      BY <2>1 DEF Turn!Paired
    <2>5. m \in Nat /\ Len(ms) >= b + m /\ b \in Nat
      BY <1>1, <2>1, <2>2
    <2> HIDE DEF m
    <2>3. Len(rest) >= j + m
      BY <1>1, <1>2, <1>3, <2>1, <2>5
    <2>4. ASSUME NEW l \in (j + 1)..(j + m) PROVE rest[l].role = "tool"
      <3>1. l \in 1..Len(rest) /\ l + k - 1 \in (b + 1)..(b + m)
        BY <1>1, <1>2, <1>3, <2>1, <2>3, <2>5
      <3>2. ms[l + k - 1].role = "tool"
        BY <2>2, <3>1 DEF m
      <3> QED BY <3>1, <3>2
    <2> HIDE DEF b
    <2> QED BY <2>1, <2>3, <2>4 DEF m
  <1>8. ASSUME NEW j \in 1..Len(rest), rest[j].role = "tool"
        PROVE  \E b \in Turn!Batches(rest) : b < j /\ j <= b + rest[b].calls
    <2>1. j + k - 1 \in 1..Len(ms) /\ ms[j + k - 1].role = "tool"
      BY <1>1, <1>2, <1>3, <1>8
    <2>2. PICK b \in Turn!Batches(ms) : b < j + k - 1 /\ j + k - 1 <= b + ms[b].calls
      BY <1>1, <2>1 DEF Turn!Paired
    <2>3. b \in 1..Len(ms) /\ ms[b].role = "assistant" /\ ms[b].calls \in Nat /\ i <= b
      BY <1>1, <1>4, <2>2
    <2> DEFINE m == ms[b].calls
    <2>0. m \in Nat /\ b \in Nat /\ b < j + k - 1 /\ j + k - 1 <= b + m /\ j \in Nat
      BY <1>1, <1>2, <2>2, <2>3
    <2>4. b # i
      <3>1. ASSUME b = i PROVE FALSE
        <4>1. n = m
          BY <1>0, <3>1
        <4> HIDE DEF m
        <4> QED BY <1>0, <1>2, <1>3, <2>0, <3>1, <4>1
      <3> QED BY <3>1
    <2> HIDE DEF m
    <2>5. b >= k
      <3> SUFFICES ASSUME b < k PROVE FALSE
        BY <1>3, <2>0
      <3>1. b \in (i + 1)..(k - 1)
        BY <1>3, <2>0, <2>3, <2>4
      <3> QED BY <1>5, <2>3, <3>1
    <2> DEFINE c == b - k + 1
    <2>6. c \in 1..Len(rest) /\ c + k - 1 = b
      BY <1>1, <1>2, <1>3, <2>0, <2>3, <2>5
    <2>7. rest[c] = ms[c + k - 1]
      BY <2>6
    <2>8. c \in Turn!Batches(rest) /\ rest[c].calls = ms[b].calls
      BY <1>1, <1>2, <2>2, <2>6, <2>7
    <2>9. c < j /\ j <= c + m
      BY <1>2, <1>3, <2>0
    <2> QED BY <2>8, <2>9 DEF m
  <1> QED BY <1>2, <1>7, <1>8 DEF Turn!Paired

LEMMA PairedWithout ==
  ASSUME NEW ms \in Context, Turn!Paired(ms), NEW i \in Turn!Oldest(ms), NEW k \in Turn!Past(ms, i)
  PROVE  Turn!Without(ms, i, k) \in Context /\ Turn!Paired(Turn!Without(ms, i, k))
  <1> DEFINE front == SubSeq(ms, 1, i - 1)
             rest == SubSeq(ms, k, Len(ms))
             all == front \o rest
  <1>1. /\ i \in 1..Len(ms) /\ k \in Nat /\ k <= Len(ms) + 1 /\ k >= 1
        /\ \A j \in 1..Len(ms) : j < i => Word(ms[j])
    <2>1. PICK n \in Nat : n = ms[i].calls /\ k = i + n + 1
      BY PastTheReceipts
    <2> QED BY <2>1, PastTheReceipts
  <1>2. Len(ms) \in Nat /\ \A j \in 1..Len(ms) : ms[j] \in Messages
    BY Elements
  <1>3. /\ front \in Seq(Messages) /\ Len(front) = i - 1
        /\ \A j \in 1..(i - 1) : front[j] = ms[j]
    <2>1. 1 \in Int /\ i - 1 \in Int /\ \A j \in 1..(i - 1) : ms[j] \in Messages
      BY <1>1, <1>2
    <2>2. /\ front \in Seq(Messages) /\ Len(front) = IF 1 <= i - 1 THEN (i - 1) - 1 + 1 ELSE 0
          /\ \A j \in 1..((i - 1) - 1 + 1) : front[j] = ms[1 + j - 1]
      BY <2>1, SubSeqProperties
    <2> HIDE DEF front
    <2> QED BY <1>1, <2>2
  <1>4. /\ rest \in Seq(Messages) /\ Len(rest) = Len(ms) + 1 - k
        /\ \A j \in 1..Len(rest) : rest[j] = ms[j + k - 1]
    <2>1. k \in Int /\ Len(ms) \in Int /\ \A j \in k..Len(ms) : ms[j] \in Messages
      BY <1>1, <1>2
    <2>2. /\ rest \in Seq(Messages) /\ Len(rest) = IF k <= Len(ms) THEN Len(ms) - k + 1 ELSE 0
          /\ \A j \in 1..(Len(ms) - k + 1) : rest[j] = ms[k + j - 1]
      BY <2>1, SubSeqProperties
    <2> HIDE DEF rest
    <2>3. Len(rest) = Len(ms) + 1 - k
      <3>1. CASE k <= Len(ms)
        BY <1>1, <1>2, <2>2, <3>1
      <3>2. CASE k = Len(ms) + 1
        <4>1. Len(rest) = 0
          BY <1>1, <1>2, <2>2, <3>2
        <4> QED BY <1>1, <1>2, <3>2, <4>1
      <3> QED BY <1>1, <1>2, <3>1, <3>2
    <2>4. ASSUME NEW j \in 1..Len(rest) PROVE rest[j] = ms[j + k - 1]
      <3>1. j \in 1..(Len(ms) - k + 1) /\ k + j - 1 = j + k - 1
        BY <1>1, <1>2, <2>3
      <3> QED BY <2>2, <3>1
    <2> QED BY <2>2, <2>3, <2>4
  <1> HIDE DEF front, rest
  <1>5. Turn!Paired(rest)
    BY <1>4, PairedBehind DEF Context
  <1>6. /\ all \in Seq(Messages) /\ Len(all) = Len(front) + Len(rest)
        /\ \A j \in 1..(Len(front) + Len(rest)) :
             all[j] = IF j <= Len(front) THEN front[j] ELSE rest[j - Len(front)]
    BY <1>3, <1>4, ConcatProperties
  <1> HIDE DEF all
  <1> DEFINE d == Len(front)
  <1>7. rest \in Context /\ all \in Context /\ d \in Nat /\ Len(rest) \in Nat /\ Len(rest) + d <= Len(all)
    BY <1>1, <1>2, <1>3, <1>4, <1>6 DEF Context
  <1>8. \A j \in 1..Len(rest) : all[j + d] = rest[j]
    BY <1>6, <1>7
  <1>9. \A j \in 1..Len(all) : j <= d \/ j > Len(rest) + d => Word(all[j])
    <2> SUFFICES ASSUME NEW j \in 1..Len(all), j <= d \/ j > Len(rest) + d PROVE Word(all[j])
      OBVIOUS
    <2>1. j <= d /\ all[j] = front[j]
      BY <1>6, <1>7
    <2>2. j \in 1..(i - 1) /\ j \in 1..Len(ms) /\ j < i
      BY <1>1, <1>2, <1>3, <2>1
    <2> QED BY <1>1, <1>3, <2>1, <2>2
  <1> HIDE DEF d
  <1>10. Turn!Paired(all)
    BY <1>5, <1>7, <1>8, <1>9, PairedInside
  <1> QED BY <1>7, <1>10 DEF all, front, rest, Turn!Without

LEMMA SegmentBounds ==
  ASSUME NEW n \in 1..(1 + Continuations)
  PROVE  /\ RoundBudget * n \in Nat /\ RoundBudget * n <= RoundBudget * (1 + Continuations)
         /\ RoundBudget * (1 + Continuations) \in Nat
         /\ RoundBudget * n < RoundBudget * (1 + Continuations) =>
              n + 1 \in 1..(1 + Continuations) /\ RoundBudget * (n + 1) = RoundBudget * n + RoundBudget
  <1>1. RoundBudget \in Nat /\ Continuations \in Nat /\ n \in Nat /\ n <= 1 + Continuations
    BY TurnAssumption
  <1>2. PICK m \in Nat : 1 + Continuations = n + m
    <2>1. 1 + Continuations - n \in Nat /\ 1 + Continuations = n + (1 + Continuations - n)
      BY <1>1
    <2> QED BY <2>1
  <1>3. RoundBudget * n \in Nat /\ RoundBudget * m \in Nat
    BY <1>1
  <1>4. RoundBudget * (n + m) = RoundBudget * n + RoundBudget * m
    BY <1>1
  <1>5. RoundBudget * (n + 1) = RoundBudget * n + RoundBudget
    BY <1>1
  <1>6. m = 0 => RoundBudget * m = 0
    BY <1>1
  <1>7. m # 0 => n + 1 \in 1..(1 + Continuations)
    BY <1>1, <1>2
  <1> QED BY <1>2, <1>3, <1>4, <1>5, <1>6, <1>7

\* Work that stands as complete is checked, and every change to the record keeps it so.
Sound(w) == w \in WorkRecords /\ (w.state = "complete" => Turn!Passes(w.checks, w.good))

LEMMA WorkKept ==
  ASSUME NEW w, Sound(w)
  PROVE  /\ Sound(Turn!Begun(w)) /\ Sound(Turn!Gated(w))
         /\ Sound(Turn!Finished(w, "answer")) /\ Sound(Turn!Finished(w, "error"))
         /\ \A c \in Turn!Calls, ok \in BOOLEAN : Sound(Turn!Observed(w, c, ok))
         /\ \A s \in {"active", "waiting_input", "needs_review", "complete"}, checks \in SUBSET Acts :
              (s = "complete" => Turn!Passes(checks, w.good)) => Sound(Turn!Updated(w, s, checks))
  <1> USE DEF Sound, WorkRecords, WorkStates
  <1>1. Sound(Turn!Begun(w))
    BY DEF Turn!Begun
  <1>2. Sound(Turn!Gated(w))
    BY DEF Turn!Gated, Turn!Looked
  <1>3. Sound(Turn!Finished(w, "answer")) /\ Sound(Turn!Finished(w, "error"))
    BY DEF Turn!Finished
  <1>4. ASSUME NEW c \in Turn!Calls, NEW ok \in BOOLEAN PROVE Sound(Turn!Observed(w, c, ok))
    BY DEF Turn!Observed
  <1>5. ASSUME NEW s \in {"active", "waiting_input", "needs_review", "complete"}, NEW checks \in SUBSET Acts,
               s = "complete" => Turn!Passes(checks, w.good)
        PROVE  Sound(Turn!Updated(w, s, checks))
    BY <1>5 DEF Turn!Updated
  <1> QED BY <1>1, <1>2, <1>3, <1>4, <1>5

LEMMA InitTurnInv == Turn!Init => TurnInv
  <1> SUFFICES ASSUME Turn!Init PROVE TurnInv
    OBVIOUS
  <1> USE DEF Turn!Init
  <1>1. Turn!Unlimited \in Nat
    BY TurnAssumption DEF Turn!Unlimited
  <1>2. work \in WorkRecords /\ work.state = "idle"
    BY DEF Turn!NoWork, WorkRecords, WorkStates
  <1>3. Turn!TypeOK
    BY <1>1, <1>2, TurnAssumption DEF Turn!TypeOK, Turn!Calls
  <1>4. TurnTyped
    <2>1. msgs \in Context /\ plan \in Seq(Turn!Calls)
      BY DEF Context
    <2>2. inputs = 0 /\ waiting = 0 /\ stop = FALSE
      OBVIOUS
    <2>3. inputs \in 0..MaxInputs /\ waiting <= inputs
      BY <2>2, TurnAssumption
    <2> QED BY <1>2, <1>3, <2>1, <2>2, <2>3 DEF TurnTyped
  <1> QED BY <1>2, <1>4 DEF TurnInv, Budgets, Contexts, Current, Turn!CompleteIsChecked

LEMMA AtHand == TurnInv => Turn!Unlimited \in Nat /\ Sound(work) /\ Turn!Unlimited > 0
  BY TurnAssumption DEF TurnInv, TurnTyped, Sound, Turn!CompleteIsChecked, Turn!Unlimited

LEMMA EndStep ==
  ASSUME TurnInv, NEW o \in {"answer", "error"}, NEW w, Sound(w), Turn!EndWith(o, w)
  PROVE  TurnInv'
  <1> USE DEF Turn!EndWith, Turn!Blank, Turn!user
  <1>1. Sound(work')
    BY WorkKept
  <1>2. Turn!TypeOK'
    BY <1>1, AtHand, TurnAssumption DEF TurnInv, TurnTyped, Turn!TypeOK, Turn!Calls, Sound, WorkRecords, WorkStates
  <1>3. TurnTyped'
    BY <1>1, <1>2 DEF TurnInv, TurnTyped, Context, Sound
  <1>4. Budgets'
    BY DEF Budgets
  <1> QED BY <1>1, <1>3, <1>4 DEF TurnInv, Contexts, Current, Turn!CompleteIsChecked, Sound

LEMMA StartStep ==
  ASSUME TurnInv, NEW kind \in BOOLEAN, Turn!Start(kind)
  PROVE  TurnInv'
  <1> USE DEF Turn!Start, Turn!Blank
  <1>1. Sound(work')
    BY AtHand, WorkKept
  <1>2. round' = 0 /\ active' \in 0..Turn!Unlimited /\ free' = kind
        /\ (IF kind THEN active' = Turn!Unlimited ELSE active' = RoundBudget * 1)
    <2>1. RoundBudget * 1 = RoundBudget /\ RoundBudget \in Nat /\ 1 \in 1..(1 + Continuations)
      BY TurnAssumption
    <2>2. RoundBudget * 1 <= RoundBudget * (1 + Continuations) /\ RoundBudget * (1 + Continuations) \in Nat
      BY <2>1, SegmentBounds
    <2> HIDE DEF Turn!Start
    <2>3. RoundBudget \in 0..Turn!Unlimited
      BY <2>1, <2>2 DEF Turn!Unlimited
    <2> QED BY <2>1, <2>3, AtHand DEF Turn!Start
  <1>3. Turn!UserMessage \in Messages /\ Word(Turn!UserMessage) /\ msgs' = <<Turn!UserMessage>>
    BY SomeCopies
  <1>4. msgs' \in Context /\ Turn!Paired(msgs')
    <2>1. <<>> \in Context /\ Turn!Paired(<<>>)
      BY DEF Context, Turn!Paired, Turn!Batches
    <2>2. <<Turn!UserMessage>> \o <<>> = <<Turn!UserMessage>>
      BY <1>3, ConcatEmptySeq
    <2>3. <<Turn!UserMessage>> \o <<>> \in Context /\ Turn!Paired(<<Turn!UserMessage>> \o <<>>)
      BY <1>3, <2>1, PairedWithHead
    <2> QED BY <1>3, <2>2, <2>3
  <1>5. /\ waiting' = waiting /\ inputs' = inputs /\ waiting <= inputs
        /\ waiting \in 0..MaxInputs /\ inputs \in 0..MaxInputs
    BY DEF TurnInv, TurnTyped, Turn!TypeOK
  <1>6. TurnTyped'
    <2>1. work' \in WorkRecords
      BY <1>1 DEF Sound
    <2> HIDE DEF Turn!Start, Turn!Blank
    <2>2. /\ turnPc' = "round" /\ turnSeen' = {} /\ stalled' = 0 /\ attempt' = 0 /\ failed' = {} /\ fetched' = {}
          /\ count' = [c \in Turn!Calls |-> 0] /\ outcome' = "none" /\ plan' = <<>> /\ stop' = FALSE
      BY DEF Turn!Start, Turn!Blank
    <2>3. 0 \in 0..StallLimit /\ 0 \in 0..RetryLimit /\ 0 \in 0..Turn!Unlimited
      BY AtHand, TurnAssumption
    <2>4. Turn!TypeOK'
      BY <1>2, <1>5, <2>1, <2>2, <2>3 DEF Turn!TypeOK, Turn!Calls, WorkRecords, WorkStates
    <2>5. plan' \in Seq(Turn!Calls)
      <3>1. plan' = <<>>
        BY <2>2
      <3> QED BY <3>1
    <2>6. stop' \in BOOLEAN
      BY <2>2
    <2> QED BY <1>4, <1>5, <2>1, <2>4, <2>5, <2>6 DEF TurnTyped
  <1>7. Budgets'
    <2>1. 1 \in 1..(1 + Continuations)
      BY TurnAssumption
    <2>2. Segments'
      BY <1>2, <2>1 DEF Segments, Turn!Unlimited
    <2> QED BY <1>2, <2>2 DEF Budgets
  <1> QED BY <1>1, <1>4, <1>6, <1>7 DEF TurnInv, Contexts, Current, Turn!CompleteIsChecked, Sound

LEMMA BeginRoundStep ==
  ASSUME TurnInv, NEW n \in 0..MaxInputs, Turn!BeginRound(n)
  PROVE  TurnInv'
  <1> USE DEF Turn!BeginRound
  <1>0. /\ round \in Nat /\ active \in Nat /\ round <= active /\ active <= Turn!Unlimited /\ Turn!Unlimited \in Nat
        /\ Segments /\ (free => round = 0) /\ Turn!Unlimited > 0 /\ free \in BOOLEAN
    BY AtHand DEF TurnInv, TurnTyped, Turn!TypeOK, Budgets
  <1>1. /\ active' \in 0..Turn!Unlimited /\ round' = round /\ round' <= active' /\ free' = free
        /\ (round' < active' => Segments' /\ ~Turn!Stalls')
    <2>0. RoundBudget \in Nat
      BY TurnAssumption
    <2>1. CASE Turn!Extends
      <3>1. active = round /\ active < Turn!Hard /\ ~Turn!Stalls
        BY <2>1 DEF Turn!Extends
      <3>2. ~free
        BY <1>0, <3>1 DEF Segments
      <3>3. PICK k \in 1..(1 + Continuations) : active = RoundBudget * k
        BY <1>0, <3>2 DEF Segments
      <3>4. Turn!Hard = RoundBudget * (1 + Continuations)
        BY <3>2 DEF Turn!Hard
      <3>5. k + 1 \in 1..(1 + Continuations) /\ RoundBudget * (k + 1) = active + RoundBudget
        BY <3>1, <3>3, <3>4, SegmentBounds
      <3>6. active' = RoundBudget * (k + 1)
        BY <2>1, <3>5
      <3>7. active' <= RoundBudget * (1 + Continuations) /\ RoundBudget * (1 + Continuations) \in Nat
        BY <3>5, <3>6, SegmentBounds
      <3>8. active' = active + RoundBudget
        BY <2>1
      <3>9. active' \in 0..Turn!Unlimited
        BY <1>0, <2>0, <3>7, <3>8 DEF Turn!Unlimited
      <3>10. free' = free /\ stalled' = stalled
        OBVIOUS
      <3>11. Segments' /\ ~Turn!Stalls'
        BY <3>1, <3>2, <3>5, <3>6, <3>10 DEF Segments, Turn!Stalls
      <3> QED BY <1>0, <2>0, <3>8, <3>9, <3>11
    <2>2. CASE ~Turn!Extends
      <3>1. active' = Turn!Reached
        BY <2>2
      <3> QED BY <1>0, <3>1 DEF Turn!Reached, Segments, Turn!Stalls, Turn!Unlimited
    <2> QED BY <2>1, <2>2
  <1>2. waiting' \in 0..MaxInputs /\ waiting' <= inputs
    <2>0. waiting \in Nat /\ inputs \in Nat /\ waiting <= inputs /\ inputs <= MaxInputs /\ MaxInputs \in Nat
      BY TurnAssumption DEF TurnInv, TurnTyped, Turn!TypeOK
    <2>1. CASE UNCHANGED waiting
      BY <2>0, <2>1
    <2>2. CASE Turn!Joins(n) /\ Turn!Join(n)
      BY <2>0, <2>2 DEF Turn!Joins, Turn!Join
    <2> QED BY <2>1, <2>2
  <1>3. msgs' \in Context /\ Turn!Paired(msgs')
    <2>1. n \in Nat /\ msgs \in Context /\ Turn!Paired(msgs)
      BY TurnAssumption DEF TurnInv, TurnTyped, Contexts
    <2> QED BY <2>1, PairedWithWords
  <1>4. TurnTyped'
    BY <1>0, <1>1, <1>2, <1>3 DEF TurnInv, TurnTyped, Turn!TypeOK, Turn!batch, Turn!guards, Turn!user
  <1>5. Budgets'
    BY <1>0, <1>1 DEF Budgets
  <1> QED BY <1>3, <1>4, <1>5 DEF TurnInv, Contexts, Current, Turn!CompleteIsChecked

LEMMA FitStep ==
  ASSUME TurnInv,
         Turn!Request \/ Turn!DropEarlier \/ \E i \in DOMAIN msgs : \E k \in Turn!Past(msgs, i) : Turn!DropOldest(i, k)
  PROVE  TurnInv'
  <1> USE DEF Turn!progress, Turn!batch, Turn!guards, Turn!input, Turn!user
  <1>0. msgs \in Context /\ (turnPc \in {"fit", "drop"} => Turn!Paired(msgs))
    BY DEF TurnInv, TurnTyped, Contexts
  <1>1. CASE Turn!Request
    <2>1. msgs' \in Context /\ Turn!Paired(msgs')
      <3>1. msgs' = msgs \/ msgs' = <<Turn!Excerpts>> \o msgs
        BY <1>1 DEF Turn!Request, Turn!Fitted
      <3>2. Turn!Paired(msgs)
        BY <1>0, <1>1 DEF Turn!Request
      <3> QED BY <1>0, <3>1, <3>2, SomeCopies, PairedWithHead
    <2>2. Sound(work')
      BY <1>1, AtHand, WorkKept DEF Turn!Request
    <2>3. TurnTyped'
      BY <1>1, <2>1, <2>2, TurnAssumption
         DEF Turn!Request, TurnInv, TurnTyped, Turn!TypeOK, Sound, WorkRecords, WorkStates
    <2>4. Budgets'
      BY <1>1 DEF Turn!Request, TurnInv, Budgets, Segments, Turn!Stalls
    <2> QED BY <1>1, <2>1, <2>2, <2>3, <2>4
            DEF Turn!Request, TurnInv, Contexts, Current, Turn!CompleteIsChecked, Sound
  <1>2. ASSUME NEW i \in DOMAIN msgs, NEW k \in Turn!Past(msgs, i), Turn!DropOldest(i, k) PROVE TurnInv'
    <2> USE <1>2 DEF Turn!DropOldest
    <2>1. msgs' \in Context /\ Turn!Paired(msgs')
      BY <1>0, PairedWithout
    <2>2. TurnTyped'
      BY <2>1 DEF TurnInv, TurnTyped, Turn!TypeOK
    <2>3. Budgets'
      BY DEF TurnInv, Budgets, Segments, Turn!Stalls
    <2> QED BY <2>1, <2>2, <2>3 DEF TurnInv, Contexts, Current, Turn!CompleteIsChecked
  <1>3. CASE Turn!DropEarlier
    <2> USE <1>3 DEF Turn!DropEarlier
    <2>1. msgs' \in Context /\ Turn!Paired(msgs')
      BY <1>0, PairedWithoutHead DEF Turn!Earlier, Word
    <2>2. TurnTyped'
      BY <2>1 DEF TurnInv, TurnTyped, Turn!TypeOK
    <2>3. Budgets'
      BY DEF TurnInv, Budgets, Segments, Turn!Stalls
    <2> QED BY <2>1, <2>2, <2>3 DEF TurnInv, Contexts, Current, Turn!CompleteIsChecked
  <1> QED BY <1>1, <1>2, <1>3

LEMMA EndsStep ==
  ASSUME TurnInv, Turn!StopIsSeen \/ Turn!ContextFull \/ Turn!StoppedAnswer \/ Turn!Answer \/ Turn!OutOfBudget
  PROVE  TurnInv'
  <1>1. Sound(work) /\ Sound(Turn!Gated(work))
    BY AtHand, WorkKept
  <1>2. CASE Turn!Answer
    BY <1>1, <1>2, EndStep DEF Turn!Answer
  <1>3. CASE Turn!StopIsSeen \/ Turn!ContextFull \/ Turn!StoppedAnswer \/ Turn!OutOfBudget
    <2>1. Turn!EndWith("error", work)
      BY <1>3 DEF Turn!StopIsSeen, Turn!ContextFull, Turn!StoppedAnswer, Turn!OutOfBudget, Turn!End
    <2> QED BY <1>1, <2>1, EndStep
  <1> QED BY <1>2, <1>3

\* The next round of a turn that had one left, with a context that is paired.
LEMMA OnwardStep ==
  ASSUME TurnInv, round < active, Segments, NEW grown \in 0..StallLimit, Turn!Onward(grown),
         msgs' \in Context, Turn!Paired(msgs'), waiting' \in 0..MaxInputs, waiting' <= inputs,
         UNCHANGED <<free, active, turnSeen, plan, count, failed, fetched, inputs, stop, work, outcome>>
  PROVE  TurnInv'
  <1> USE DEF Turn!Onward
  <1>1. /\ round \in Nat /\ active \in Nat /\ active <= Turn!Unlimited /\ Turn!Unlimited \in Nat
        /\ (free => round = 0) /\ free \in BOOLEAN
    BY AtHand DEF TurnInv, TurnTyped, Turn!TypeOK, Budgets
  <1>2. /\ round' \in 0..Turn!Unlimited /\ round' <= active' /\ (free' => round' = 0) /\ turnPc' = "round"
        /\ stalled' \in 0..StallLimit /\ attempt' \in 0..RetryLimit
    BY <1>1, TurnAssumption
  <1>3. Segments'
    BY DEF Segments
  <1>4. TurnTyped'
    BY <1>2 DEF TurnInv, TurnTyped, Turn!TypeOK
  <1> QED BY <1>2, <1>3, <1>4 DEF TurnInv, Budgets, Contexts, Current, Turn!CompleteIsChecked

\* Words that join leave fewer that wait.
LEMMA JoinedWords ==
  ASSUME TurnInv, NEW n \in 1..MaxInputs, Turn!Joins(n), Turn!Join(n), inputs' = inputs
  PROVE  n \in Nat /\ waiting' \in 0..MaxInputs /\ waiting' <= inputs
  <1>1. waiting \in Nat /\ inputs \in Nat /\ waiting <= inputs /\ inputs <= MaxInputs /\ MaxInputs \in Nat
    BY TurnAssumption DEF TurnInv, TurnTyped, Turn!TypeOK
  <1> QED BY <1>1 DEF Turn!Joins, Turn!Join

LEMMA BackToTheLoop ==
  ASSUME TurnInv, Turn!Prose \/ Turn!BatchDone \/ \E n \in 1..MaxInputs : Turn!StaleAnswer(n)
  PROVE  TurnInv'
  <1>0. /\ msgs \in Context /\ waiting \in 0..MaxInputs /\ waiting <= inputs
        /\ stalled \in 0..StallLimit /\ StallLimit \in Nat /\ StallLimit > 0
    BY TurnAssumption DEF TurnInv, TurnTyped, Turn!TypeOK
  <1>1. CASE Turn!Prose
    <2>1. turnPc = "request" /\ round < active
      BY <1>1 DEF Turn!Prose, Turn!Heard, Turn!HoldsBack
    <2>2. Segments /\ ~Turn!Stalls /\ Turn!Paired(msgs)
      BY <2>1 DEF TurnInv, Budgets, Contexts
    <2>3. stalled + 1 \in 0..StallLimit
      BY <1>0, <2>2 DEF Turn!Stalls
    <2>4. msgs' \in Context /\ Turn!Paired(msgs')
      BY <1>0, <1>1, <2>2, PairedWithProse DEF Turn!Prose
    <2>5. /\ Turn!Onward(stalled + 1) /\ waiting' = waiting
          /\ UNCHANGED <<free, active, turnSeen, plan, count, failed, fetched, inputs, stop, work, outcome>>
      BY <1>1 DEF Turn!Prose, Turn!batch, Turn!guards, Turn!input, Turn!user
    <2> QED BY <1>0, <2>1, <2>2, <2>3, <2>4, <2>5, OnwardStep
  <1>2. CASE Turn!BatchDone
    <2>1. turnPc = "call" /\ plan = <<>>
      BY <1>2 DEF Turn!BatchDone
    <2>2. round < active /\ Segments /\ ~Turn!Stalls
      BY <2>1 DEF TurnInv, Budgets
    <2>3. PICK grown \in {stalled + 1, 0} : Turn!Onward(grown)
      BY <1>2 DEF Turn!BatchDone
    <2>4. grown \in 0..StallLimit
      BY <1>0, <2>2 DEF Turn!Stalls
    <2>5. Turn!Paired(msgs)
      <3>1. Len(plan) = 0
        BY <2>1
      <3>2. Turn!Paired(msgs \o Turn!Copies(Turn!Receipt, 0))
        BY <2>1, <3>1 DEF TurnInv, Contexts
      <3> QED BY <1>0, <3>2, NoReceiptsDue
    <2>6. /\ waiting' = waiting /\ msgs' = msgs
          /\ UNCHANGED <<free, active, turnSeen, plan, count, failed, fetched, inputs, stop, work, outcome>>
      BY <1>2 DEF Turn!BatchDone, Turn!batch, Turn!guards, Turn!input, Turn!user
    <2>7. msgs' \in Context /\ Turn!Paired(msgs') /\ waiting' \in 0..MaxInputs /\ waiting' <= inputs
      BY <1>0, <2>5, <2>6
    <2> QED BY <2>2, <2>3, <2>4, <2>6, <2>7, OnwardStep
  <1>3. ASSUME NEW n \in 1..MaxInputs, Turn!StaleAnswer(n) PROVE TurnInv'
    <2>1. turnPc = "request" /\ round < active
      BY <1>3 DEF Turn!StaleAnswer
    <2>2. Segments /\ Turn!Paired(msgs)
      BY <2>1 DEF TurnInv, Budgets, Contexts
    <2>3. /\ Turn!Onward(stalled) /\ Turn!Joins(n) /\ Turn!Join(n)
          /\ msgs' = msgs \o Turn!Copies(Turn!UserMessage, n)
          /\ UNCHANGED <<free, active, turnSeen, plan, count, failed, fetched, inputs, stop, work, outcome>>
      BY <1>3 DEF Turn!StaleAnswer, Turn!batch, Turn!guards, Turn!user
    <2>4. n \in Nat /\ waiting' \in 0..MaxInputs /\ waiting' <= inputs
      BY <2>3, JoinedWords
    <2>5. msgs' \in Context /\ Turn!Paired(msgs')
      BY <1>0, <2>2, <2>3, <2>4, PairedWithWords
    <2> QED BY <1>0, <2>1, <2>2, <2>3, <2>4, <2>5, OnwardStep
  <1> QED BY <1>1, <1>2, <1>3

LEMMA ModelStep ==
  ASSUME TurnInv, (\E final \in BOOLEAN : Turn!ModelFails(final)) \/ \E calls \in Plans[free] : Turn!CallTools(calls)
  PROVE  TurnInv'
  <1>0. /\ msgs \in Context /\ free \in BOOLEAN /\ Sound(work)
        /\ (turnPc = "request" => Turn!Paired(msgs))
    BY AtHand DEF TurnInv, TurnTyped, Turn!TypeOK, Contexts
  <1>1. ASSUME NEW final \in BOOLEAN, Turn!ModelFails(final) PROVE TurnInv'
    <2>1. CASE Turn!End("error")
      BY <1>0, <2>1, EndStep DEF Turn!End
    <2>2. CASE ~Turn!End("error")
      <3>1. /\ attempt # RetryLimit /\ attempt' = attempt + 1
            /\ UNCHANGED <<turnPc, free, round, active, turnSeen, stalled, msgs, plan, count, failed, fetched,
                           waiting, joined, heard, stop, inputs, work, outcome>>
        BY <1>1, <2>2 DEF Turn!ModelFails, Turn!progress, Turn!batch, Turn!guards, Turn!input, Turn!user
      <3>2. attempt' \in 0..RetryLimit
        BY <3>1, TurnAssumption DEF TurnInv, TurnTyped, Turn!TypeOK
      <3>3. TurnTyped'
        BY <3>1, <3>2 DEF TurnInv, TurnTyped, Turn!TypeOK
      <3>4. Budgets'
        BY <3>1 DEF TurnInv, Budgets, Segments, Turn!Stalls
      <3> QED BY <3>1, <3>3, <3>4 DEF TurnInv, Contexts, Current, Turn!CompleteIsChecked
    <2> QED BY <2>1, <2>2
  <1>2. ASSUME NEW calls \in Plans[free], Turn!CallTools(calls) PROVE TurnInv'
    <2>1. /\ turnPc = "request" /\ round < active /\ plan' = calls /\ turnPc' = "call"
          /\ msgs' = Append(msgs, Turn!Message("assistant", Len(calls)))
          /\ attempt' = 0
          /\ UNCHANGED <<free, round, active, turnSeen, stalled, count, failed, fetched,
                         waiting, joined, heard, stop, inputs, work, outcome>>
      BY <1>2 DEF Turn!CallTools, Turn!Heard, Turn!progress, Turn!guards, Turn!input, Turn!user
    <2>2. calls \in Seq(Turn!Calls)
      BY <1>0, TurnAssumption DEF Turn!Calls, Turn!ToolNames
    <2>3. /\ Append(msgs, Turn!Message("assistant", Len(calls))) \in Context
          /\ Turn!Paired(Append(msgs, Turn!Message("assistant", Len(calls))) \o Turn!Copies(Turn!Receipt, Len(calls)))
      <3>1. Len(calls) \in Nat /\ Turn!Paired(msgs)
        BY <1>0, <2>1, <2>2
      <3> QED BY <1>0, <3>1, PairedWithBatch
    <2>4. TurnTyped'
      BY <2>1, <2>2, <2>3, TurnAssumption DEF TurnInv, TurnTyped, Turn!TypeOK
    <2>5. Budgets'
      BY <2>1 DEF TurnInv, Budgets, Segments, Turn!Stalls
    <2>6. Contexts'
      BY <2>1, <2>3 DEF Contexts
    <2>7. Current'
      BY <2>1 DEF TurnInv, Current
    <2> QED BY <2>1, <2>4, <2>5, <2>6, <2>7 DEF TurnInv, Turn!CompleteIsChecked
  <1> QED BY <1>1, <1>2

\* The receipt of a call that was made, or would have been.
LEMMA ReceiveStep ==
  ASSUME TurnInv, turnPc \in {"call", "running"}, plan # <<>>,
         NEW w, Sound(w), Turn!Receive(w),
         turnSeen' \subseteq Turn!ToolNames \cup (Turn!ToolNames \X Versions),
         count' \in [Turn!Calls -> 0..2], failed' \subseteq Turn!Calls, fetched' \subseteq References
  PROVE  TurnInv'
  <1>1. /\ msgs' = Append(msgs, Turn!Receipt) /\ plan' = Tail(plan) /\ turnPc' = "call"
        /\ (work' = w \/ work' = work)
        /\ UNCHANGED <<free, round, active, stalled, attempt, waiting, joined, heard, stop, inputs, outcome>>
    BY DEF Turn!Receive, Turn!input, Turn!user
  <1>2. Sound(work')
    BY <1>1, AtHand
  <1>3. msgs \in Context /\ plan \in Seq(Turn!Calls) /\ Turn!Receipt \in Messages /\ 0 \in Nat
    BY SomeCopies DEF TurnInv, TurnTyped
  <1>4. msgs' \in Context
    BY <1>1, <1>3, AppendProperties DEF Context
  <1>5. /\ plan' \in Seq(Turn!Calls) /\ Len(plan') = Len(plan) - 1
        /\ Len(plan) \in Nat /\ Len(plan) > 0
    BY <1>1, <1>3
  <1>6. Turn!Paired(msgs' \o Turn!Copies(Turn!Receipt, Len(plan')))
    <2>1. Turn!Paired(msgs \o Turn!Copies(Turn!Receipt, Len(plan)))
      BY DEF TurnInv, Contexts
    <2>2. Append(msgs, Turn!Receipt) \o Turn!Copies(Turn!Receipt, Len(plan) - 1)
            = msgs \o Turn!Copies(Turn!Receipt, Len(plan))
      BY <1>3, <1>5, OneReceiptLess
    <2> QED BY <1>1, <1>5, <2>1, <2>2
  <1>7. TurnTyped'
    BY <1>1, <1>2, <1>4, <1>5 DEF TurnInv, TurnTyped, Turn!TypeOK, Sound, WorkRecords, WorkStates
  <1>8. Budgets'
    BY <1>1 DEF TurnInv, Budgets, Segments, Turn!Stalls
  <1>9. Contexts'
    BY <1>1, <1>6 DEF Contexts
  <1>10. Current'
    BY <1>1 DEF TurnInv, Current
  <1> QED BY <1>2, <1>7, <1>8, <1>9, <1>10 DEF TurnInv, Sound, Turn!CompleteIsChecked

LEMMA ToolStep ==
  ASSUME TurnInv, Turn!Tool \/ Turn!Repeated
  PROVE  TurnInv'
  <1>0. /\ turnSeen \subseteq Turn!ToolNames \cup (Turn!ToolNames \X Versions)
        /\ count \in [Turn!Calls -> 0..2] /\ failed \subseteq Turn!Calls /\ fetched \subseteq References
        /\ Sound(work) /\ plan \in Seq(Turn!Calls)
        /\ (turnPc = "running" => plan # <<>>)
    BY AtHand DEF TurnInv, TurnTyped, Turn!TypeOK, Current
  <1>1. CASE Turn!Repeated
    <2>1. turnPc = "call" /\ plan # <<>>
      BY <1>1 DEF Turn!Repeated, Turn!Calling
    <2>2. Head(plan) \in Turn!Calls
      BY <1>0, <2>1
    <2>3. Sound(IF Head(plan) = Update THEN work ELSE Turn!Observed(work, Head(plan), FALSE))
      BY <1>0, <2>2, WorkKept
    <2>4. UNCHANGED <<turnSeen, count, failed, fetched>>
      BY <1>1 DEF Turn!Repeated, Turn!guards
    <2> QED BY <1>0, <1>1, <2>1, <2>3, <2>4, ReceiveStep DEF Turn!Repeated
  <1>2. ASSUME NEW r \in Turn!Failures \cup {"garbled"}, Turn!Fails(r) PROVE TurnInv'
    <2> DEFINE c == Head(plan)
    <2>1. turnPc = "running" /\ plan # <<>> /\ c \in Turn!Calls
      BY <1>0, <1>2 DEF Turn!Fails
    <2>2. /\ count' = Turn!Counted(c, r)
          /\ (failed' = failed \/ failed' = failed \cup {c})
          /\ turnSeen' = turnSeen /\ fetched' = fetched
          /\ Turn!Receive(IF c = Update THEN work ELSE Turn!Observed(work, c, FALSE))
      BY <1>2 DEF Turn!Fails
    <2> HIDE DEF c
    <2>3. Sound(IF c = Update THEN work ELSE Turn!Observed(work, c, FALSE))
      BY <1>0, <2>1, WorkKept
    <2>4. count' \in [Turn!Calls -> 0..2]
      BY <1>0, <2>1, <2>2 DEF Turn!Counted
    <2>5. failed' \subseteq Turn!Calls
      BY <1>0, <2>1, <2>2
    <2>6. turnSeen' \subseteq Turn!ToolNames \cup (Turn!ToolNames \X Versions) /\ fetched' \subseteq References
      BY <1>0, <2>2
    <2> QED BY <2>1, <2>2, <2>3, <2>4, <2>5, <2>6, ReceiveStep
  <1>3. ASSUME NEW v \in Versions, NEW ok \in BOOLEAN, Turn!Succeeds(v, ok) PROVE TurnInv'
    <2> DEFINE c == Head(plan)
               key == IF c \in Reads THEN <<c, v>> ELSE c
    <2>1. turnPc = "running" /\ plan # <<>> /\ c \in Turn!ToolNames /\ c \in Turn!Calls
      BY <1>0, <1>3 DEF Turn!Succeeds, Turn!Calls
    <2>2. /\ turnSeen' = turnSeen \cup {key}
          /\ fetched' = (IF c \in References THEN fetched \cup {c} ELSE fetched)
          /\ count' = count /\ failed' = failed
          /\ Turn!Receive(Turn!Observed(work, c, ok))
      BY <1>3 DEF Turn!Succeeds
    <2>3. key \in Turn!ToolNames \cup (Turn!ToolNames \X Versions)
      BY <2>1
    <2> HIDE DEF c, key
    <2>4. Sound(Turn!Observed(work, c, ok))
      BY <1>0, <2>1, WorkKept
    <2>5. turnSeen' \subseteq Turn!ToolNames \cup (Turn!ToolNames \X Versions)
      BY <1>0, <2>2, <2>3
    <2>6. fetched' \subseteq References
      BY <1>0, <2>2
    <2> QED BY <1>0, <2>1, <2>2, <2>4, <2>5, <2>6, ReceiveStep
  <1>4. ASSUME NEW s \in {"active", "waiting_input", "needs_review", "complete"}, NEW checks \in SUBSET Acts,
               Turn!UpdateWork(s, checks)
        PROVE  TurnInv'
    <2>1. turnPc = "running" /\ plan # <<>>
      BY <1>0, <1>4 DEF Turn!UpdateWork
    <2>2. Sound(Turn!Updated(work, s, checks))
      BY <1>0, <1>4, WorkKept DEF Turn!UpdateWork, Turn!Accepts
    <2>3. UNCHANGED <<turnSeen, count, failed, fetched>> /\ Turn!Receive(Turn!Updated(work, s, checks))
      BY <1>4 DEF Turn!UpdateWork, Turn!guards
    <2> QED BY <1>0, <2>1, <2>2, <2>3, ReceiveStep
  <1> QED BY <1>1, <1>2, <1>3, <1>4 DEF Turn!Tool

LEMMA CallStep ==
  ASSUME TurnInv, Turn!Dispatch \/ \E n \in 1..MaxInputs : Turn!SkipRest(n)
  PROVE  TurnInv'
  <1>1. CASE Turn!Dispatch
    <2>1. /\ turnPc = "call" /\ plan # <<>> /\ turnPc' = "running"
          /\ UNCHANGED <<free, round, active, turnSeen, stalled, attempt, msgs, plan, count, failed, fetched,
                         waiting, joined, heard, stop, inputs, work, outcome>>
      BY <1>1 DEF Turn!Dispatch, Turn!Calling, Turn!progress, Turn!batch, Turn!guards, Turn!input, Turn!user
    <2>2. TurnTyped'
      BY <2>1 DEF TurnInv, TurnTyped, Turn!TypeOK
    <2>3. Budgets'
      BY <2>1 DEF TurnInv, Budgets, Segments, Turn!Stalls
    <2> QED BY <2>1, <2>2, <2>3 DEF TurnInv, Contexts, Current, Turn!CompleteIsChecked
  <1>2. ASSUME NEW n \in 1..MaxInputs, Turn!SkipRest(n) PROVE TurnInv'
    <2> DEFINE due == msgs \o Turn!Copies(Turn!Receipt, Len(plan))
    <2>1. /\ turnPc = "call" /\ Turn!Joins(n) /\ Turn!Join(n) /\ plan' = <<>>
          /\ msgs' = due \o Turn!Copies(Turn!UserMessage, n)
          /\ UNCHANGED <<turnPc, free, round, active, turnSeen, stalled, attempt, count, failed, fetched,
                         stop, inputs, work, outcome>>
      BY <1>2 DEF Turn!SkipRest, Turn!Calling, Turn!progress, Turn!guards, Turn!user
    <2>2. n \in Nat /\ waiting' \in 0..MaxInputs /\ waiting' <= inputs
      BY <2>1, JoinedWords
    <2>3. due \in Context /\ Turn!Paired(due)
      <3>1. msgs \in Context /\ plan \in Seq(Turn!Calls) /\ Turn!Paired(due)
        BY <2>1 DEF TurnInv, TurnTyped, Contexts
      <3>2. Len(plan) \in Nat
        BY <3>1
      <3>3. Turn!Copies(Turn!Receipt, Len(plan)) \in Context
        BY <3>2, SomeCopies
      <3> QED BY <3>1, <3>3, ConcatProperties DEF Context
    <2> HIDE DEF due
    <2>4. msgs' \in Context /\ Turn!Paired(msgs')
      BY <2>1, <2>2, <2>3, PairedWithWords
    <2>5. Turn!Paired(msgs' \o Turn!Copies(Turn!Receipt, 0))
      BY <2>4, NoReceiptsDue
    <2>6. plan' \in Seq(Turn!Calls) /\ Len(plan') = 0
      <3>1. plan' = <<>>
        BY <2>1
      <3> QED BY <3>1
    <2>7. TurnTyped'
      BY <2>1, <2>2, <2>4, <2>6 DEF TurnInv, TurnTyped, Turn!TypeOK
    <2>8. Budgets'
      BY <2>1 DEF TurnInv, Budgets, Segments, Turn!Stalls
    <2>9. Contexts'
      BY <2>1, <2>5, <2>6 DEF Contexts
    <2>10. Current'
      BY <2>1 DEF Current
    <2> QED BY <2>1, <2>7, <2>8, <2>9, <2>10 DEF TurnInv, Turn!CompleteIsChecked
  <1> QED BY <1>1, <1>2

LEMMA UserStep ==
  ASSUME TurnInv, Turn!Write \/ Turn!PressStop \/ UNCHANGED Turn!vars
  PROVE  TurnInv'
  <1>1. UNCHANGED <<turnPc, free, round, active, turnSeen, stalled, attempt, msgs, plan, count, failed, fetched,
                    joined, heard, work, outcome>>
    BY DEF Turn!Write, Turn!PressStop, Turn!vars, Turn!progress, Turn!batch, Turn!guards, Turn!input
  <1>2. /\ inputs' \in 0..MaxInputs /\ waiting' \in 0..MaxInputs /\ waiting' <= inputs' /\ stop' \in BOOLEAN
    <2>0. /\ waiting \in Nat /\ inputs \in Nat /\ waiting <= inputs /\ inputs <= MaxInputs /\ MaxInputs \in Nat
          /\ stop \in BOOLEAN
      BY TurnAssumption DEF TurnInv, TurnTyped, Turn!TypeOK
    <2>1. CASE Turn!Write
      BY <2>0, <2>1 DEF Turn!Write
    <2>2. CASE Turn!PressStop
      BY <2>0, <2>2 DEF Turn!PressStop, Turn!input
    <2>3. CASE UNCHANGED Turn!vars
      BY <2>0, <2>3 DEF Turn!vars, Turn!input, Turn!user
    <2> QED BY <2>1, <2>2, <2>3
  <1>3. TurnTyped'
    BY <1>1, <1>2 DEF TurnInv, TurnTyped, Turn!TypeOK
  <1>4. Budgets'
    BY <1>1 DEF TurnInv, Budgets, Segments, Turn!Stalls
  <1> QED BY <1>1, <1>3, <1>4 DEF TurnInv, Contexts, Current, Turn!CompleteIsChecked

(* No request has an unpaired call or receipt, no call is made that the user's
   later words overtook, and work stands as complete only while its checks hold,
   for every set of tools, budget and length of the context.                 *)
THEOREM TurnsAreAlwaysSound == Turn!Spec => []TurnsAreSound
  <1>1. TurnInv /\ [Turn!Next]_(Turn!vars) => TurnInv'
    <2> SUFFICES ASSUME TurnInv, [Turn!Next]_(Turn!vars) PROVE TurnInv'
      OBVIOUS
    <2>1. CASE Turn!Model
      BY <2>1, EndsStep, BackToTheLoop, ModelStep DEF Turn!Model
    <2>2. CASE Turn!Tool
      BY <2>2, ToolStep
    <2>3. CASE Turn!Loop
      BY <2>3, EndsStep, FitStep, ToolStep, CallStep, BackToTheLoop, BeginRoundStep DEF Turn!Loop
    <2>4. CASE Turn!Write \/ Turn!PressStop \/ UNCHANGED Turn!vars
      BY <2>4, UserStep
    <2>5. CASE \E kind \in BOOLEAN : Turn!Start(kind)
      BY <2>5, StartStep
    <2> QED BY <2>1, <2>2, <2>3, <2>4, <2>5 DEF Turn!Next
  <1>2. TurnInv => TurnsAreSound
    BY DEF TurnInv, TurnTyped, Contexts, Current, TurnsAreSound, Turn!PairsComplete, Turn!NoStaleCall
  <1> QED BY InitTurnInv, <1>1, <1>2, PTL DEF Turn!Spec
=============================================================================
