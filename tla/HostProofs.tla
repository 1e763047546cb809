----------------------------- MODULE HostProofs -----------------------------
(***************************************************************************)
(* Theorems about what runs close to the machine (Host): the execution     *)
(* kernel, for any tools, configurations, call ids and clock; the serial   *)
(* port and the motors on it; the loop that judges a physical attempt; the *)
(* processes of the host; and the installed release.  Each part has an     *)
(* inductive invariant of its own, stated before its lemmas.               *)
(***************************************************************************)
EXTENDS Host, AgentMethodLemmas, Sequences, TLAPS


-----------------------------------------------------------------------------
(***************************************************************************)
(* The inductive invariant.  A receipt is matched by session, task and     *)
(* call id alone, so that it belongs to this run and to the tool in the    *)
(* context must follow from what was dispatched: task ids are new in every *)
(* run and call ids grow within one.                                       *)
(***************************************************************************)
Sent == working \cup {r.call : r \in reports}

SentCalls ==
  \A d \in Sent :
    /\ d.run <= run
    /\ d.task = agent.task => d.run = run
    /\ d.run = run => /\ d.call <= agent.call
                      /\ d.call = agent.call => agent.state # "Tool" /\ d.tool = agent.tool

Proposal == agent.state = "Tool" => agent.calls < agent.maxCalls

KernelInv ==
  /\ TypeOK /\ SentCalls /\ Proposal
  /\ WithinBudgets /\ FreshCallIds /\ ReceiptsMatchCalls
  /\ VerifiedByReceipt /\ CompleteIsVerified

LEMMA InitKernelInv == Init => KernelInv
  <1> SUFFICES ASSUME Init PROVE KernelInv
    OBVIOUS
  <1>1. Default \in Agent
    BY DEF Default, Agent, KernelStates, Errors, Checks
  <1>2. /\ Default.state = "Idle" /\ ~Default.verified /\ Default.calls = 0
        /\ Default.models = 0 /\ Default.call = 0 /\ Default.maxCalls = 0
        /\ Default.maxModels = 0
    BY DEF Default
  <1> HIDE DEF Default
  <1>3. TypeOK
    BY <1>1 DEF Init, TypeOK
  <1>4. SentCalls
    BY DEF Init, SentCalls, Sent
  <1>5. Proposal /\ WithinBudgets /\ FreshCallIds /\ ReceiptsMatchCalls
    BY <1>2 DEF Init, Proposal, WithinBudgets, FreshCallIds, ReceiptsMatchCalls
  <1>6. VerifiedByReceipt /\ CompleteIsVerified
    BY <1>2 DEF Init, VerifiedByReceipt, CompleteIsVerified
  <1> QED BY <1>3, <1>4, <1>5, <1>6 DEF KernelInv

(* A call that fails, or aborts the run, keeps the invariant.              *)
LEMMA NoProgressKeeps ==
  ASSUME KernelInv, agent' \in Agent, NoProgress(agent, agent'), Keep
  PROVE  KernelInv'
  BY DEF KernelInv, TypeOK, SentCalls, Sent, Proposal, WithinBudgets, FreshCallIds,
    ReceiptsMatchCalls, VerifiedByReceipt, CompleteIsVerified, NoProgress, SameRun, Keep, Agent

LEMMA StepKernelInv == KernelInv /\ [Next]_vars => KernelInv'
  <1> SUFFICES ASSUME KernelInv, [Next]_vars PROVE KernelInv'
    OBVIOUS
  <1>0. /\ agent \in Agent /\ agent.calls \in Nat /\ agent.call \in Nat /\ agent.models \in Nat
        /\ agent.maxCalls \in Nat /\ agent.maxModels \in Nat /\ Clock \subseteq Nat
        /\ run \in Nat /\ receipts \in Nat
    BY KernelAssumption DEF KernelInv, TypeOK, Agent, Clock
  <1>F. ASSUME agent' \in Agent, NoProgress(agent, agent'), Keep PROVE KernelInv'
    BY <1>F, NoProgressKeeps
  <1> USE DEF KernelInv, TypeOK, SentCalls, Sent, Proposal, WithinBudgets, FreshCallIds,
      ReceiptsMatchCalls, VerifiedByReceipt, CompleteIsVerified
  <1>1. CASE CallBegin
    <2> PICK c \in Configs, now \in Clock :
          LET o == Begin(agent, c, now) IN
          /\ c.task \notin {d.task : d \in working \cup {r.call : r \in reports}}
          /\ agent' = o.a
          /\ run' = IF o.e = "None" THEN run + 1 ELSE run
          /\ receipts' = IF o.e = "None" THEN 0 ELSE receipts
          /\ latest' = IF o.e = "None" THEN FALSE ELSE latest
          /\ UNCHANGED <<working, reports>>
      BY <1>1 DEF CallBegin
    <2>0. c \in Config
      BY KernelAssumption
    <2>1. agent' \in Agent
      BY <1>0, <2>0, BeginOutcome
    <2>2. CASE Begin(agent, c, now).e # "None"
      BY <1>0, <2>0, <2>2, BeginOutcome
    <2>3. CASE Begin(agent, c, now).e = "None"
      <3>1. /\ agent'.state = "Model" /\ ~agent'.verified /\ agent'.task = c.task
            /\ agent'.calls = 0 /\ agent'.models = 0 /\ agent'.call = 0
            /\ run' = run + 1 /\ receipts' = 0 /\ latest' = FALSE
            /\ working' = working /\ reports' = reports
        BY <1>0, <2>0, <2>3, BeginOutcome
      <3>2. agent'.maxCalls \in Nat /\ agent'.maxModels \in Nat
        BY <2>1 DEF Agent
      <3>3. \A d \in Sent' : d.run \in Nat /\ d.run <= run /\ d.task # agent'.task
        BY <3>1 DEF DispatchedCall, Report
      <3>4. SentCalls'
        BY <1>0, <3>1, <3>3
      <3>5. TypeOK'
        <4>1. run' \in Nat /\ receipts' \in Nat
          BY <1>0, <3>1
        <4>3. latest' \in BOOLEAN
          BY <3>1
        <4>2. working' \subseteq DispatchedCall /\ reports' \subseteq Report
          BY <3>1
        <4> QED BY <2>1, <4>1, <4>2, <4>3
      <3>7. WithinBudgets' /\ FreshCallIds' /\ ReceiptsMatchCalls' /\ Proposal'
        BY <3>1, <3>2
      <3>6. VerifiedByReceipt' /\ CompleteIsVerified'
        BY <3>1
      <3> QED BY <3>4, <3>5, <3>6, <3>7
    <2> QED BY <2>2, <2>3
  <1>2. CASE CallRequestModel
    <2> PICK now \in Clock : agent' = RequestModel(agent, now).a
      BY <1>2 DEF CallRequestModel
    <2>1. CASE RequestModel(agent, now).e # "None"
      <3>1. agent' \in Agent /\ NoProgress(agent, agent')
        BY <1>0, <2>1, RequestModelOutcome
      <3>2. Keep
        BY <1>2 DEF CallRequestModel
      <3> QED BY <1>F, <3>1, <3>2
    <2>2. CASE RequestModel(agent, now).e = "None"
      <3>1. /\ agent' \in Agent /\ SameRun(agent, agent')
            /\ agent'.state = agent.state /\ agent'.verified = agent.verified
            /\ agent'.models = agent.models + 1 /\ agent'.models <= agent.maxModels
            /\ agent'.calls = agent.calls /\ agent'.call = agent.call /\ agent'.tool = agent.tool
        BY <1>0, <2>2, RequestModelOutcome
      <3>2. UNCHANGED <<working, reports, run, receipts, latest>>
        BY <1>2 DEF CallRequestModel, Keep
      <3> QED BY <1>0, <3>1, <3>2 DEF SameRun
    <2> QED BY <2>1, <2>2
  <1>3. CASE CallPropose
    <2> PICK now \in Clock, id \in Calls, tool \in Tools :
          agent' = Propose(agent, id, tool, now).a
      BY <1>3 DEF CallPropose
    <2>0. id \in Nat
      BY KernelAssumption
    <2>1. CASE Propose(agent, id, tool, now).e # "None"
      <3>1. agent' \in Agent /\ NoProgress(agent, agent')
        BY <1>0, <2>0, <2>1, ProposeOutcome
      <3>2. Keep
        BY <1>3 DEF CallPropose
      <3> QED BY <1>F, <3>1, <3>2
    <2>2. CASE Propose(agent, id, tool, now).e = "None"
      <3>1. /\ agent' \in Agent /\ SameRun(agent, agent') /\ agent.state = "Model"
            /\ agent'.state = "Tool" /\ agent'.verified = agent.verified
            /\ agent'.models = agent.models /\ agent'.calls = agent.calls
            /\ agent.calls < agent.maxCalls /\ agent'.call = id /\ id > agent.call
        BY <1>0, <2>0, <2>2, ProposeOutcome
      <3>2. UNCHANGED <<working, reports, run, receipts, latest>>
        BY <1>3 DEF CallPropose, Keep
      <3>3. \A d \in Sent : d.call \in Nat
        BY DEF DispatchedCall, Report
      <3>4. SentCalls'
        BY <1>0, <2>0, <3>1, <3>2, <3>3 DEF SameRun
      <3> QED BY <1>0, <2>0, <3>1, <3>2, <3>4 DEF SameRun
    <2> QED BY <2>1, <2>2
  <1>4. CASE CallDispatch
    <2> PICK now \in Clock, resources \in BOOLEAN, recorded \in BOOLEAN :
          LET o == Dispatch(agent, resources, recorded, now) IN
          /\ agent' = o.a
          /\ working' = IF o.e # "None" THEN working ELSE
               working \cup {[run |-> run, session |-> agent.session, task |-> agent.task,
                             call |-> agent.call, tool |-> agent.tool]}
          /\ UNCHANGED <<reports, run, receipts, latest>>
      BY <1>4 DEF CallDispatch
    <2>1. CASE Dispatch(agent, resources, recorded, now).e # "None"
      <3>1. agent' \in Agent /\ NoProgress(agent, agent')
        BY <1>0, <2>1, DispatchOutcome
      <3>2. Keep
        BY <2>1 DEF Keep
      <3> QED BY <1>F, <3>1, <3>2
    <2>2. CASE Dispatch(agent, resources, recorded, now).e = "None"
      <3> DEFINE d == [run |-> run, session |-> agent.session, task |-> agent.task,
                       call |-> agent.call, tool |-> agent.tool]
      <3>1. d \in DispatchedCall /\ d.run = run /\ d.task = agent.task /\ d.call = agent.call
            /\ d.tool = agent.tool
        BY <1>0 DEF DispatchedCall, Agent
      <3>2. /\ agent' \in Agent /\ SameRun(agent, agent') /\ agent.state = "Tool"
            /\ agent'.state = "Receipt" /\ agent'.verified = agent.verified
            /\ agent'.models = agent.models /\ agent'.calls = agent.calls + 1
            /\ agent'.call = agent.call /\ agent'.tool = agent.tool
        BY <1>0, <2>2, DispatchOutcome
      <3> HIDE DEF d
      <3>3. working' = working \cup {d} /\ UNCHANGED <<reports, run, receipts, latest>>
        BY <2>2 DEF d
      <3>4. SentCalls'
        BY <1>0, <3>1, <3>2, <3>3 DEF SameRun
      <3> QED BY <1>0, <3>1, <3>2, <3>3, <3>4 DEF SameRun
    <2> QED BY <2>1, <2>2
  <1>5. CASE CallReceipt
    <2> PICK r \in reports, now \in Clock :
          LET o == Receive(agent, r.call, r.ok, r.checked, now) IN
          /\ agent' = o.a
          /\ receipts' = IF o.e = "None" THEN receipts + 1 ELSE receipts
          /\ latest' = IF o.e = "None" THEN r.ok ELSE latest
          /\ UNCHANGED <<working, reports, run>>
      BY <1>5 DEF CallReceipt
    <2>0. r \in Report /\ r.ok \in BOOLEAN /\ r.checked \in BOOLEAN
      BY DEF Report
    <2>1. CASE Receive(agent, r.call, r.ok, r.checked, now).e # "None"
      <3>1. agent' \in Agent /\ NoProgress(agent, agent')
        BY <1>0, <2>0, <2>1, ReceiveOutcome
      <3>2. Keep
        BY <2>1 DEF Keep
      <3> QED BY <1>F, <3>1, <3>2
    <2>2. CASE Receive(agent, r.call, r.ok, r.checked, now).e = "None"
      <3>1. /\ agent' \in Agent /\ SameRun(agent, agent') /\ agent.state = "Receipt"
            /\ agent'.state = "Model" /\ agent'.models = agent.models
            /\ agent'.calls = agent.calls /\ agent'.call = agent.call
            /\ agent'.tool = agent.tool
            /\ r.call.task = agent.task /\ r.call.call = agent.call
            /\ agent'.verified =>
                 r.ok /\ (agent.verified \/ (r.checked /\ agent.check = agent.tool))
        BY <1>0, <2>0, <2>2, ReceiveOutcome
      <3>2. receipts' = receipts + 1 /\ latest' = r.ok /\ UNCHANGED <<working, reports, run>>
        BY <2>2
      <3>3. r.call.run = run /\ r.call.tool = agent.tool
        BY <3>1
      <3>4. VerifiedByReceipt'
        BY <3>1, <3>2, <3>3 DEF SameRun
      <3>5. SentCalls'
        BY <3>1, <3>2 DEF SameRun
      <3> QED BY <1>0, <2>0, <3>1, <3>2, <3>4, <3>5 DEF SameRun
    <2> QED BY <2>1, <2>2
  <1>6. CASE CallAnswer
    <2> PICK now \in Clock : agent' = Answer(agent, now).a
      BY <1>6 DEF CallAnswer
    <2>1. CASE Answer(agent, now).e # "None"
      <3>1. agent' \in Agent /\ NoProgress(agent, agent')
        BY <1>0, <2>1, AnswerOutcome
      <3>2. Keep
        BY <1>6 DEF CallAnswer
      <3> QED BY <1>F, <3>1, <3>2
    <2>2. CASE Answer(agent, now).e = "None"
      <3>1. /\ agent' \in Agent /\ SameRun(agent, agent') /\ agent.state = "Model"
            /\ agent'.state = "Complete" /\ agent'.verified = agent.verified
            /\ (agent.check = Conversation \/ agent.verified)
            /\ agent'.models = agent.models /\ agent'.calls = agent.calls
            /\ agent'.call = agent.call /\ agent'.tool = agent.tool
        BY <1>0, <2>2, AnswerOutcome
      <3>2. UNCHANGED <<working, reports, run, receipts, latest>>
        BY <1>6 DEF CallAnswer, Keep
      <3> QED BY <1>0, <3>1, <3>2 DEF SameRun
    <2> QED BY <2>1, <2>2
  <1>7. CASE CallCancel
    BY <1>0, <1>7, CancelledOutcome DEF CallCancel, Keep, SameRun
  <1>8. CASE CallFail
    <2> PICK e \in Failures : agent' = Abort(agent, e).a
      BY <1>8 DEF CallFail
    <2>1. e \in Errors
      BY KernelAssumption
    <2>2. agent' \in Agent /\ NoProgress(agent, agent')
      BY <1>0, <2>1, AbortOutcome
    <2>3. Keep
      BY <1>8 DEF CallFail
    <2> QED BY <1>F, <2>2, <2>3
  <1>9. CASE DriverReports
    <2> PICK d \in working, ok \in BOOLEAN, checked \in BOOLEAN :
          /\ working' = working \ {d}
          /\ reports' = reports \cup {[call |-> d, ok |-> ok, checked |-> checked]}
          /\ UNCHANGED <<agent, run, receipts, latest>>
      BY <1>9 DEF DriverReports
    <2>1. [call |-> d, ok |-> ok, checked |-> checked] \in Report
      BY DEF Report
    <2>2. Sent' \subseteq Sent
      OBVIOUS
    <2>3. SentCalls'
      BY <2>2
    <2> QED BY <2>1, <2>3
  <1>10. CASE UNCHANGED vars
    BY <1>10 DEF vars
  <1> QED
    BY <1>1, <1>2, <1>3, <1>4, <1>5, <1>6, <1>7, <1>8, <1>9, <1>10 DEF Next

LEMMA KernelInvariant == Spec => []KernelInv
  BY InitKernelInv, StepKernelInv, PTL DEF Spec

(* Whatever an adapter calls, in whatever order, the calls and requests of *)
(* a run stay within its budgets, each call has an id of its own and at    *)
(* most one receipt.                                                       *)
THEOREM BudgetsAndReceipts == Spec => [](WithinBudgets /\ FreshCallIds /\ ReceiptsMatchCalls)
  <1>1. KernelInv => WithinBudgets /\ FreshCallIds /\ ReceiptsMatchCalls
    BY DEF KernelInv
  <1> QED BY <1>1, KernelInvariant, PTL

(* A check holds only on a passing report of its own tool in its own run,  *)
(* although receipts may be late, duplicated or of earlier runs.           *)
THEOREM VerificationIsEvidence == Spec => []VerifiedByReceipt
  <1>1. KernelInv => VerifiedByReceipt
    BY DEF KernelInv
  <1> QED BY <1>1, KernelInvariant, PTL

(* Prose never completes a task that registered a check.                   *)
THEOREM CompletionIsVerified == Spec => []CompleteIsVerified
  <1>1. KernelInv => CompleteIsVerified
    BY DEF KernelInv
  <1> QED BY <1>1, KernelInvariant, PTL

LEMMA StepEnded ==
  KernelInv /\ [Next]_vars =>
    [agent.state \notin Active /\ run' = run
       => agent'.state \in {agent.state, "Blocked"} /\ (agent'.verified => agent.verified)]_vars
  <1> SUFFICES ASSUME KernelInv, Next, agent.state \notin Active, run' = run
               PROVE  agent'.state \in {agent.state, "Blocked"} /\ (agent'.verified => agent.verified)
    OBVIOUS
  <1>0. agent \in Agent /\ run \in Nat /\ Clock \subseteq Nat /\ Calls \subseteq Nat
        /\ Failures \subseteq Errors /\ reports \subseteq Report
    BY KernelAssumption DEF KernelInv, TypeOK, Clock
  <1>1. ASSUME NoProgress(agent, agent')
        PROVE  agent'.state \in {agent.state, "Blocked"} /\ (agent'.verified => agent.verified)
    BY <1>1 DEF NoProgress
  <1>2. CASE CallBegin
    <2> PICK c \in Configs, now \in Clock :
          /\ agent' = Begin(agent, c, now).a
          /\ run' = IF Begin(agent, c, now).e = "None" THEN run + 1 ELSE run
      BY <1>2 DEF CallBegin
    <2>1. c \in Config
      BY KernelAssumption
    <2> QED BY <1>0, <2>1, BeginOutcome
  <1>3. CASE CallRequestModel
    <2> PICK now \in Clock : agent' = RequestModel(agent, now).a
      BY <1>3 DEF CallRequestModel
    <2>1. RequestModel(agent, now).e = "None" => agent'.state = agent.state /\ agent'.verified = agent.verified
      BY <1>0, RequestModelOutcome
    <2>2. RequestModel(agent, now).e # "None" => NoProgress(agent, agent')
      BY <1>0, RequestModelOutcome
    <2> QED BY <1>1, <2>1, <2>2
  <1>4. CASE CallPropose
    <2> PICK now \in Clock, id \in Calls, tool \in Tools :
          agent' = Propose(agent, id, tool, now).a
      BY <1>4 DEF CallPropose
    <2>1. Propose(agent, id, tool, now).e # "None"
      BY <1>0, ProposeOutcome DEF Active
    <2>2. NoProgress(agent, agent')
      BY <1>0, <2>1, ProposeOutcome
    <2> QED BY <1>1, <2>2
  <1>5. CASE CallDispatch
    <2> PICK now \in Clock, resources \in BOOLEAN, recorded \in BOOLEAN :
          agent' = Dispatch(agent, resources, recorded, now).a
      BY <1>5 DEF CallDispatch
    <2>1. Dispatch(agent, resources, recorded, now).e # "None"
      BY <1>0, DispatchOutcome DEF Active
    <2>2. NoProgress(agent, agent')
      BY <1>0, <2>1, DispatchOutcome
    <2> QED BY <1>1, <2>2
  <1>6. CASE CallReceipt
    <2> PICK r \in reports, now \in Clock :
          agent' = Receive(agent, r.call, r.ok, r.checked, now).a
      BY <1>6 DEF CallReceipt
    <2>1. r.ok \in BOOLEAN /\ r.checked \in BOOLEAN
      BY <1>0 DEF Report
    <2>2. Receive(agent, r.call, r.ok, r.checked, now).e # "None"
      BY <1>0, <2>1, ReceiveOutcome DEF Active
    <2>3. NoProgress(agent, agent')
      BY <1>0, <2>1, <2>2, ReceiveOutcome
    <2> QED BY <1>1, <2>3
  <1>7. CASE CallAnswer
    <2> PICK now \in Clock : agent' = Answer(agent, now).a
      BY <1>7 DEF CallAnswer
    <2>1. Answer(agent, now).e # "None"
      BY <1>0, AnswerOutcome DEF Active
    <2>2. NoProgress(agent, agent')
      BY <1>0, <2>1, AnswerOutcome
    <2> QED BY <1>1, <2>2
  <1>8. CASE CallCancel
    BY <1>0, <1>8 DEF CallCancel, Cancelled
  <1>9. CASE CallFail
    <2> PICK e \in Failures : agent' = Abort(agent, e).a
      BY <1>9 DEF CallFail
    <2> QED BY <1>0, AbortOutcome
  <1>10. CASE DriverReports
    BY <1>10 DEF DriverReports
  <1> QED
    BY <1>2, <1>3, <1>4, <1>5, <1>6, <1>7, <1>8, <1>9, <1>10 DEF Next

(* A run that completed, was blocked or cancelled is not revived by any    *)
(* later call: only begin starts a run, and only fail still blocks.        *)
THEOREM EndedRunsStayEnded == Spec => EndedStaysEnded
  BY KernelInvariant, StepEnded, PTL DEF Spec, EndedStaysEnded

-----------------------------------------------------------------------------
(***************************************************************************)
(* The bus.                                                                *)
(***************************************************************************)

\* user owns the port, from its lock on
Owner(u) == user[u].pc \in {"locked", "exclusive", "session"}

OnLine == [to : Bus!Kinds, lag : 0..MaxLag]
BusCall ==
  [op : {"identify", "read", "move"}, req : Moves \cup {Absent}, step : 1..6, waiting : BOOLEAN, got : Seq(Bus!Kinds)]

BusTyped ==
  /\ user \in [PortUsers -> [pc : {"closed", "opened", "locked", "exclusive", "session"},
                             saved : {Absent, "own", "raw"}]]
  /\ lock \in PortUsers \cup {Absent} /\ exclusive \in BOOLEAN /\ settings \in {"own", "raw"}
  /\ exchange \in BusCall \cup {Bus!NoCall} /\ line \in Seq(OnLine)
  /\ accepted \subseteq reserved /\ reserved \subseteq Moves /\ taken \in [Moves -> 0..1]

\* The lock is the owner's, a session keeps the settings it found, and a call is
\* made by the bus that has the port.
PortKept ==
  /\ \A u \in PortUsers : user[u].pc = "session" => user[u].saved \in {"own", "raw"}
  /\ \A u \in PortUsers : Owner(u) <=> lock = u
  /\ Bus!Busy => Bus!OnBus

\* What the motor took was reserved before, what was accepted it took.
Commands ==
  /\ \A m \in Moves : taken[m] = 1 => m \in reserved
  /\ \A m \in accepted : taken[m] = 1

\* how many exchanges of the call have begun
Begun == IF exchange.waiting THEN exchange.step ELSE exchange.step - 1

(* The line: later answers are later, an answer that is fewer exchanges late
   than the call has made is of the call, and once the register behind the
   model has been read there is none of the exchanges before.                *)
Line ==
  /\ \A i, j \in DOMAIN line : i < j => line[i].lag > line[j].lag
  /\ \A i \in DOMAIN line :
       line[i].lag < Begun => line[i].to = Bus!Steps[exchange.op][Begun - line[i].lag]
  /\ exchange.step >= 4 => \A i \in DOMAIN line : exchange.waiting /\ line[i].lag = 0

(* The call: what it got so far is what it asked for, but for the ping; a move
   has its request, which is reserved from the write on, and taken when an answer
   to the write is on its way.                                               *)
CallKept ==
  /\ exchange.step \in 1..Len(Bus!Steps[exchange.op])
  /\ Len(exchange.got) = exchange.step - 1
  /\ \A i \in DOMAIN exchange.got :
       i # 1 => exchange.got[i] = Bus!Steps[exchange.op][i]
  /\ exchange.op = "move" =>
       /\ exchange.req \in Moves
       /\ exchange.step < 6 \/ ~exchange.waiting => exchange.req \notin reserved
       /\ exchange.step = 6 /\ exchange.waiting =>
            exchange.req \in reserved /\ (line # <<>> => taken[exchange.req] = 1)

BusInv == BusTyped /\ PortKept /\ Commands /\ (Bus!Busy => Line /\ CallKept)
        /\ \A i, j \in DOMAIN line : i < j => line[i].lag > line[j].lag

\* The calls ask for the same registers in the same order, as far as each goes.
LEMMA StepsAre ==
  ASSUME NEW k \in {"identify", "read", "move"}
  PROVE  /\ Len(Bus!Steps[k]) = IF k = "identify" THEN 2 ELSE IF k = "read" THEN 5 ELSE 6
         /\ \A i \in 1..Len(Bus!Steps[k]) :
              Bus!Steps[k][i] = <<"ping", "model", "mode", "torque", "state", "write">>[i]
  <1>1. CASE k = "identify"
    <2>1. Bus!Steps[k] = <<"ping", "model">>
      BY <1>1 DEF Bus!Steps
    <2> QED BY <1>1, <2>1
  <1>2. CASE k = "read"
    <2>1. Bus!Steps[k] = <<"ping", "model", "mode", "torque", "state">>
      BY <1>2 DEF Bus!Steps
    <2> QED BY <1>2, <2>1
  <1>3. CASE k = "move"
    <2>1. Bus!Steps[k] = <<"ping", "model", "mode", "torque", "state", "write">>
      BY <1>3 DEF Bus!Steps
    <2> QED BY <1>3, <2>1
  <1> QED BY <1>1, <1>2, <1>3

LEMMA BytesAre ==
  /\ \A k \in Bus!Kinds : Bus!Bytes[k] = 0 <=> k \in {"ping", "write"}
  /\ \A k \in Bus!Kinds : Bus!Bytes[k] = 2 <=> k = "model"
  /\ \A k \in Bus!Kinds : Bus!Bytes[k] = 1 <=> k \in {"mode", "torque"}
  /\ \A k \in Bus!Kinds : Bus!Bytes[k] = 8 <=> k = "state"
  BY DEF Bus!Bytes, Bus!Kinds

LEMMA PortStep ==
  ASSUME BusInv, NEW u \in PortUsers,
         \/ Bus!Open(u) \/ Bus!Lock(u) \/ Bus!Exclude(u) \/ Bus!Configure(u) \/ Bus!OpenFails(u) \/ Bus!Close(u)
  PROVE  BusInv'
  <1> USE BusAssumption
  <1>1. /\ BusTyped /\ PortKept /\ Commands /\ exchange' = exchange /\ line' = line
        /\ Bus!Busy => Line /\ CallKept
        /\ \A i, j \in DOMAIN line : i < j => line[i].lag > line[j].lag
    BY DEF BusInv, Bus!Open, Bus!Lock, Bus!Exclude, Bus!Configure, Bus!OpenFails, Bus!Close, Bus!Released, Bus!Rest
  <1>2. CASE ~Bus!Configure(u)
    <2>1. UNCHANGED <<reserved, accepted, taken>>
      BY <1>2 DEF Bus!Open, Bus!Lock, Bus!Exclude, Bus!OpenFails, Bus!Close, Bus!Released, Bus!Rest
    <2>2. /\ user' \in [PortUsers -> [pc : {"closed", "opened", "locked", "exclusive", "session"}, saved : {Absent, "own", "raw"}]]
          /\ lock' \in PortUsers \cup {Absent} /\ exclusive' \in BOOLEAN /\ settings' \in {"own", "raw"}
      <3>1. user' \in [PortUsers -> [pc : {"closed", "opened", "locked", "exclusive", "session"}, saved : {Absent, "own", "raw"}]]
        BY <1>1, <1>2 DEF BusTyped, Bus!Open, Bus!Lock, Bus!Exclude, Bus!OpenFails, Bus!Close, Bus!Released, Bus!At
      <3>2. lock' \in PortUsers \cup {Absent}
        BY <1>1, <1>2 DEF BusTyped, Bus!Open, Bus!Lock, Bus!Exclude, Bus!OpenFails, Bus!Close, Bus!Released
      <3>3. exclusive' \in BOOLEAN
        BY <1>1, <1>2 DEF BusTyped, Bus!Open, Bus!Lock, Bus!Exclude, Bus!OpenFails, Bus!Close
      <3>4. settings' \in {"own", "raw"}
        BY <1>1, <1>2 DEF BusTyped, PortKept, Bus!Open, Bus!Lock, Bus!Exclude, Bus!OpenFails, Bus!Close
      <3> QED BY <3>1, <3>2, <3>3, <3>4
    <2>3. BusTyped' /\ Commands'
      BY <1>1, <2>1, <2>2 DEF BusTyped, Commands
    <2>4. \A v \in PortUsers : (Owner(v) <=> lock = v)'
      BY <1>1, <1>2 DEF PortKept, BusTyped, Owner, Bus!Open, Bus!Lock, Bus!Exclude, Bus!OpenFails, Bus!Close, Bus!Released, Bus!At
    <2>5. ASSUME Bus!Busy' PROVE Bus!OnBus'
      <3>1. Bus!Busy
        BY <1>1, <2>5 DEF Bus!Busy
      <3>2. PICK b \in BusUsers : user[b].pc = "session"
        BY <1>1, <3>1 DEF PortKept, Bus!OnBus
      <3>3. b # u
        BY <1>1, <1>2, <3>1, <3>2 DEF Bus!Busy, Bus!Open, Bus!Lock, Bus!Exclude, Bus!OpenFails, Bus!Close
      <3>4. user'[b] = user[b]
        BY <1>1, <1>2, <3>3 DEF BusTyped, Bus!Open, Bus!Lock, Bus!Exclude, Bus!OpenFails, Bus!Close, Bus!Released, Bus!At
      <3> QED BY <3>2, <3>4 DEF Bus!OnBus
    <2>7. \A v \in PortUsers : (user[v].pc = "session" => user[v].saved \in {"own", "raw"})'
      BY <1>1, <1>2 DEF PortKept, BusTyped, Bus!Open, Bus!Lock, Bus!Exclude, Bus!OpenFails, Bus!Close, Bus!Released, Bus!At
    <2>6. Bus!Busy' => Line' /\ CallKept'
      BY <1>1, <2>1 DEF Bus!Busy, Line, CallKept, Begun
    <2> QED BY <1>1, <2>3, <2>4, <2>5, <2>6, <2>7 DEF BusInv, PortKept
  <1>3. CASE Bus!Configure(u)
    <2>1. ~Bus!Busy
      <3>1. ASSUME NEW b \in BusUsers, user[b].pc = "session" PROVE FALSE
        <4>1. lock = b /\ lock = u
          BY <1>1, <1>3, <3>1 DEF PortKept, Owner, Bus!Configure
        <4> QED BY <1>3, <3>1, <4>1 DEF Bus!Configure
      <3> QED BY <1>1, <3>1 DEF PortKept, Bus!OnBus
    <2>2. ~Bus!Busy'
      BY <1>1, <2>1 DEF Bus!Busy
    <2>3. BusTyped'
      BY <1>1, <1>3 DEF BusTyped, Bus!Configure
    <2>4. Commands'
      BY <1>1, <1>3 DEF BusTyped, Commands, Bus!Configure
    <2>5. \A v \in PortUsers : (Owner(v) <=> lock = v)'
      BY <1>1, <1>3 DEF PortKept, BusTyped, Owner, Bus!Configure
    <2>6. \A v \in PortUsers : (user[v].pc = "session" => user[v].saved \in {"own", "raw"})'
      BY <1>1, <1>3 DEF PortKept, BusTyped, Bus!Configure
    <2> QED BY <1>1, <2>2, <2>3, <2>4, <2>5, <2>6 DEF BusInv, PortKept
  <1> QED BY <1>2, <1>3

LEMMA LineTyped ==
  ASSUME BusTyped
  PROVE  \A i \in DOMAIN line : line[i] \in OnLine /\ line[i].lag \in 0..2 /\ line[i].to \in Bus!Kinds
  <1>1. ASSUME NEW i \in DOMAIN line PROVE line[i] \in OnLine
    BY <1>1 DEF BusTyped
  <1>2. ASSUME NEW a \in OnLine PROVE a.lag \in 0..2 /\ a.to \in Bus!Kinds
    BY <1>2, BusAssumption DEF OnLine
  <1> QED BY <1>1, <1>2

\* what an exchange may find on the line, by what it asks for
LEMMA OwnAnswer ==
  ASSUME BusTyped, Bus!Busy, Line, CallKept, exchange.waiting, line # <<>>,
         exchange.step # 1, Bus!Fits(Head(line))
  PROVE  /\ Head(line).to = Bus!Step
         /\ exchange.step >= 3 => Head(line).lag = 0
  <1> DEFINE h == Head(line)  s == exchange.step
  <1>1. /\ exchange \in BusCall /\ h \in OnLine /\ h = line[1] /\ 1 \in DOMAIN line
        /\ s \in 2..6 /\ h.lag \in {0, 1, 2} /\ h.to \in Bus!Kinds
    <2>1. exchange \in BusCall
      BY DEF BusTyped, Bus!Busy
    <2>2. h = line[1] /\ 1 \in DOMAIN line
      BY DEF BusTyped
    <2>3. s \in 2..6
      BY <2>1 DEF BusCall
    <2> QED BY <2>1, <2>2, <2>3, LineTyped
  <1>2. Begun = s
    BY DEF Begun
  <1>3. /\ h.lag < s => h.to = Bus!Steps[exchange.op][s - h.lag]
        /\ s >= 4 => h.lag = 0
    BY <1>1, <1>2 DEF Line
  <1>4. Bus!Step = Bus!Steps[exchange.op][s] /\ Bus!Bytes[h.to] = Bus!Bytes[Bus!Step]
    BY DEF Bus!Step, Bus!Fits
  <1>5. exchange.op \in {"identify", "read", "move"} /\ s \in 1..Len(Bus!Steps[exchange.op])
    BY <1>1 DEF BusCall, CallKept
  <1> HIDE DEF h, s
  <1>6. CASE s = 2
    <2>1. Bus!Step = "model"
      BY <1>4, <1>5, <1>6, StepsAre
    <2> QED BY <2>1, <1>1, <1>4, <1>6, BytesAre DEF Bus!Kinds, h, s
  <1>7. CASE s = 3
    <2>1. Bus!Step = "mode" /\ Bus!Steps[exchange.op][2] = "model" /\ Bus!Steps[exchange.op][1] = "ping"
      BY <1>4, <1>5, <1>7, StepsAre
    <2>2. CASE h.lag = 0
      BY <2>1, <2>2, <1>3, <1>4, <1>7 DEF h, s
    <2>3. CASE h.lag = 1
      <3>1. h.to = "model"
        BY <2>1, <2>3, <1>3, <1>7
      <3> QED BY <3>1, <2>1, <1>4, BytesAre DEF Bus!Kinds
    <2>4. CASE h.lag = 2
      <3>1. h.to = "ping"
        BY <2>1, <2>4, <1>3, <1>7
      <3> QED BY <3>1, <2>1, <1>4, BytesAre DEF Bus!Kinds
    <2> QED BY <2>2, <2>3, <2>4, <1>1
  <1>8. CASE s \in 4..6
    BY <1>8, <1>3, <1>4 DEF h, s
  <1> QED BY <1>1, <1>6, <1>7, <1>8

LEMMA CallStep ==
  ASSUME BusInv, NEW kind \in {"identify", "read", "move"}, NEW m, kind = "move" => m \in Moves, Bus!Call(kind, m)
  PROVE  BusInv'
  <1>1. /\ BusTyped /\ PortKept /\ Commands /\ ~Bus!Busy /\ Bus!OnBus
        /\ UNCHANGED <<user, lock, exclusive, settings, line, reserved, accepted, taken>>
        /\ \A i, j \in DOMAIN line : i < j => line[i].lag > line[j].lag
        /\ kind = "move" => m \notin reserved
    BY DEF BusInv, Bus!Call, Bus!Fixed, Bus!port, Bus!Busy
  <1>2. exchange' = [op |-> kind, req |-> IF kind = "move" THEN m ELSE Absent, step |-> 1, waiting |-> FALSE, got |-> <<>>]
    BY DEF Bus!Call, Bus!NoCall
  <1>3. exchange' \in BusCall
    BY <1>2 DEF BusCall
  <1>4. BusTyped'
    BY <1>1, <1>3 DEF BusTyped
  <1>5. PortKept' /\ Commands'
    BY <1>1 DEF PortKept, Commands, Owner, Bus!OnBus
  <1>6. Line'
    <2>1. Begun' = 0 /\ exchange'.step = 1
      BY <1>2 DEF Begun
    <2>2. \A i \in DOMAIN line : line[i].lag \in Nat
      BY <1>1, LineTyped
    <2> QED BY <1>1, <2>1, <2>2 DEF Line
  <1>7. CallKept'
    <2>1. 1 \in 1..Len(Bus!Steps[kind])
      <3>1. Len(Bus!Steps[kind]) \in {2, 5, 6}
        BY StepsAre
      <3> QED BY <3>1
    <2>2. exchange'.op = kind /\ exchange'.step = 1 /\ exchange'.got = <<>> /\ ~exchange'.waiting
          /\ (kind = "move" => exchange'.req = m)
      BY <1>2
    <2>3. Len(exchange'.got) = exchange'.step - 1 /\ \A i \in DOMAIN exchange'.got : FALSE
      BY <2>2
    <2>4. kind = "move" => m \in Moves /\ m \notin reserved'
      BY <1>1
    <2>5. (exchange.step \in 1..Len(Bus!Steps[exchange.op]))'
      BY <2>1, <2>2
    <2> QED BY <2>2, <2>3, <2>4, <2>5 DEF CallKept
  <1> QED BY <1>1, <1>4, <1>5, <1>6, <1>7 DEF BusInv

LEMMA LostStep == ASSUME BusInv, Bus!Lost PROVE BusInv'
  <1>1. /\ BusTyped /\ PortKept /\ Commands /\ line # <<>> /\ line' = Tail(line)
        /\ UNCHANGED <<user, lock, exclusive, settings, exchange, reserved, accepted, taken>>
        /\ \A i, j \in DOMAIN line : i < j => line[i].lag > line[j].lag
        /\ Bus!Busy => Line /\ CallKept
    BY DEF BusInv, Bus!Lost, Bus!Fixed, Bus!port
  <1>2. /\ Tail(line) \in Seq(OnLine)
        /\ \A i \in DOMAIN Tail(line) : i + 1 \in DOMAIN line /\ Tail(line)[i] = line[i + 1]
    BY <1>1 DEF BusTyped
  <1>3. BusTyped' /\ PortKept' /\ Commands'
    BY <1>1, <1>2 DEF BusTyped, PortKept, Commands, Owner, Bus!Busy, Bus!OnBus
  <1>4. \A i, j \in DOMAIN line' : i < j => line'[i].lag > line'[j].lag
    BY <1>1, <1>2 DEF BusTyped
  <1>5. Bus!Busy' => Line' /\ CallKept'
    BY <1>1, <1>2, <1>4 DEF Bus!Busy, Line, CallKept, Begun
  <1> QED BY <1>3, <1>4, <1>5 DEF BusInv

LEMMA FailsStep == ASSUME BusInv, Bus!Fails PROVE BusInv'
  BY DEF BusInv, Bus!Fails, Bus!Fixed, Bus!port, Bus!Busy, BusTyped, PortKept, Commands, Owner, Bus!OnBus

LEMMA SendStep == ASSUME BusInv, Bus!Send PROVE BusInv'
  <1> DEFINE s == exchange.step
             sent == line' = Append(Bus!Aged, [to |-> Bus!Step, lag |-> 0])
  <1>1. /\ BusTyped /\ PortKept /\ Commands /\ Bus!Busy /\ ~exchange.waiting /\ Line /\ CallKept
        /\ UNCHANGED <<user, lock, exclusive, settings, accepted>>
        /\ \A i \in DOMAIN line : line[i].lag < MaxLag
        /\ exchange' = [exchange EXCEPT !.waiting = TRUE]
        /\ reserved' = IF Bus!Step = "write" THEN reserved \cup {exchange.req} ELSE reserved
        /\ \/ sent /\ taken' = IF Bus!Step = "write" THEN [taken EXCEPT ![exchange.req] = @ + 1] ELSE taken
           \/ line' = Bus!Aged /\ taken' = taken
    BY DEF BusInv, Bus!Send, Bus!Fixed, Bus!port, Bus!Reserved
  <1>2. /\ exchange \in BusCall /\ s \in 1..6 /\ exchange' \in BusCall
        /\ exchange'.step = s /\ exchange'.op = exchange.op /\ exchange'.req = exchange.req
        /\ exchange'.got = exchange.got /\ exchange'.waiting = TRUE
    BY <1>1 DEF BusTyped, Bus!Busy, BusCall
  <1>3. Bus!Step = "write" <=> s = 6 /\ exchange.op = "move"
    <2>1. exchange.op \in {"identify", "read", "move"} /\ s \in 1..Len(Bus!Steps[exchange.op])
      BY <1>1, <1>2 DEF CallKept, BusCall
    <2>2. Bus!Step = <<"ping", "model", "mode", "torque", "state", "write">>[s]
      BY <2>1, StepsAre DEF Bus!Step
    <2>3. Bus!Step = "write" <=> s = 6
      BY <2>2, <1>2
    <2>4. s = 6 => exchange.op = "move"
      <3> DEFINE n == Len(Bus!Steps[exchange.op])
      <3>1. exchange.op # "move" => n \in {2, 5}
        BY <2>1, StepsAre
      <3>2. s \in 1..n
        BY <2>1
      <3> HIDE DEF n, s
      <3> QED BY <3>1, <3>2, <1>2
    <2> QED BY <2>3, <2>4
  <1>4. Bus!Step \in Bus!Kinds
    <2>1. exchange.op \in {"identify", "read", "move"} /\ s \in 1..Len(Bus!Steps[exchange.op])
      BY <1>1, <1>2 DEF CallKept, BusCall
    <2>2. Bus!Step = <<"ping", "model", "mode", "torque", "state", "write">>[s]
      BY <2>1, StepsAre DEF Bus!Step
    <2> QED BY <2>2, <1>2 DEF Bus!Kinds
  <1>5. /\ Bus!Aged \in Seq(OnLine) /\ Len(Bus!Aged) = Len(line) /\ DOMAIN Bus!Aged = DOMAIN line
        /\ \A i \in DOMAIN line : Bus!Aged[i] = [line[i] EXCEPT !.lag = @ + 1] /\ Bus!Aged[i].lag = line[i].lag + 1
                                  /\ Bus!Aged[i].to = line[i].to
    <2>1. \A i \in DOMAIN line : /\ Bus!Aged[i] = [line[i] EXCEPT !.lag = @ + 1] /\ Bus!Aged[i].lag = line[i].lag + 1
                                 /\ Bus!Aged[i].to = line[i].to /\ Bus!Aged[i] \in OnLine
      <3> TAKE i \in DOMAIN line
      <3>1. Bus!Aged[i] = [line[i] EXCEPT !.lag = @ + 1]
        BY DEF Bus!Aged
      <3>2. line[i] \in OnLine /\ line[i].lag < MaxLag
        BY <1>1, LineTyped
      <3> QED BY <3>1, <3>2, BusAssumption DEF OnLine
    <2>2. Len(line) \in Nat /\ DOMAIN line = 1..Len(line)
      BY <1>1 DEF BusTyped
    <2>3. Bus!Aged \in [1..Len(line) -> OnLine]
      BY <2>1, <2>2 DEF Bus!Aged
    <2> QED BY <2>1, <2>2, <2>3
  <1>6. line' \in Seq(OnLine) /\ DOMAIN line \subseteq DOMAIN line'
        /\ \A i \in DOMAIN line : line'[i].lag = line[i].lag + 1 /\ line'[i].to = line[i].to
    <2>1. CASE sent
      <3>1. [to |-> Bus!Step, lag |-> 0] \in OnLine
        BY <1>4, BusAssumption DEF OnLine
      <3> HIDE DEF sent
      <3> QED BY <2>1, <3>1, <1>5 DEF sent
    <2>2. CASE line' = Bus!Aged
      BY <2>2, <1>5
    <2> QED BY <2>1, <2>2, <1>1
  <1>7. \A i \in DOMAIN line' : \/ i \in DOMAIN line
                                \/ /\ sent /\ i = Len(line) + 1 /\ line'[i].lag = 0 /\ line'[i].to = Bus!Step
    <2>1. CASE sent
      BY <2>1, <1>5
    <2>2. CASE line' = Bus!Aged
      BY <2>2, <1>5
    <2> QED BY <2>1, <2>2, <1>1
  <1> HIDE DEF sent, s
  <1>8. \A i \in DOMAIN line : i \in Nat /\ i < Len(line) + 1 /\ line[i].lag \in 0..2
    BY <1>1, LineTyped DEF BusTyped
  <1>9. taken' \in [Moves -> 0..1] /\ Commands' /\ reserved' \subseteq Moves /\ accepted' \subseteq reserved'
    <2>1. CASE Bus!Step = "write"
      <3>1. exchange.req \in Moves /\ exchange.req \notin reserved
        BY <2>1, <1>1, <1>3 DEF CallKept
      <3>2. taken[exchange.req] = 0
        BY <3>1, <1>1 DEF BusTyped, Commands
      <3> QED BY <2>1, <3>1, <3>2, <1>1 DEF BusTyped, Commands
    <2>2. CASE Bus!Step # "write"
      BY <2>2, <1>1 DEF BusTyped, Commands
    <2> QED BY <2>1, <2>2
  <1>10. BusTyped'
    BY <1>1, <1>2, <1>6, <1>9 DEF BusTyped
  <1>11. PortKept'
    BY <1>1 DEF PortKept, Owner, Bus!OnBus
  <1>12. \A i, j \in DOMAIN line' : i < j => line'[i].lag > line'[j].lag
    <2> SUFFICES ASSUME NEW i \in DOMAIN line', NEW j \in DOMAIN line', i < j PROVE line'[i].lag > line'[j].lag
      OBVIOUS
    <2>1. CASE j \in DOMAIN line
      <3>1. i \in DOMAIN line
        BY <2>1, <1>7, <1>8
      <3> QED BY <2>1, <3>1, <1>1, <1>6, <1>8 DEF Line
    <2>2. CASE j \notin DOMAIN line
      <3>1. line'[j].lag = 0 /\ j = Len(line) + 1
        BY <2>2, <1>7
      <3>2. i \in DOMAIN line
        BY <3>1, <1>7
      <3> QED BY <3>1, <3>2, <1>6, <1>8
    <2> QED BY <2>1, <2>2
  <1>13. Begun' = s /\ Begun = s - 1 /\ s \in 1..6
    BY <1>1, <1>2 DEF Begun, s
  <1>14. Line'
    <2>1. ASSUME NEW i \in DOMAIN line', line'[i].lag < s
          PROVE  line'[i].to = Bus!Steps[exchange.op][s - line'[i].lag]
      <3>1. CASE i \in DOMAIN line
        <4>1. line[i].lag < Begun /\ s - line'[i].lag = Begun - line[i].lag
          BY <2>1, <3>1, <1>6, <1>8, <1>13
        <4> QED BY <3>1, <4>1, <1>1, <1>6 DEF Line
      <3>2. CASE i \notin DOMAIN line
        <4>1. line'[i].lag = 0 /\ line'[i].to = Bus!Step
          BY <3>2, <1>7
        <4>2. s - line'[i].lag = s
          BY <4>1, <1>13
        <4> QED BY <4>1, <4>2 DEF Bus!Step, s
      <3> QED BY <3>1, <3>2
    <2>2. ASSUME s >= 4, NEW i \in DOMAIN line' PROVE line'[i].lag = 0
      BY <2>2, <1>1, <1>7 DEF Line, s
    <2>3. exchange'.step = s /\ exchange'.op = exchange.op /\ exchange'.waiting
      BY <1>2 DEF s
    <2> QED BY <2>1, <2>2, <2>3, <1>12, <1>13 DEF Line
  <1>15. CallKept'
    <2>1. exchange'.op = "move" /\ s < 6 => exchange'.req \notin reserved'
      BY <1>1, <1>2, <1>3 DEF CallKept, s
    <2>2. ASSUME exchange'.op = "move", s = 6, line' # <<>> PROVE taken'[exchange'.req] = 1
      <3>1. exchange.req \in Moves /\ exchange.req \notin reserved /\ Bus!Step = "write"
        BY <2>2, <1>1, <1>2, <1>3 DEF CallKept
      <3>2. taken[exchange.req] = 0
        BY <3>1, <1>1 DEF BusTyped, Commands
      <3>3. PICK i \in DOMAIN line' : TRUE
        BY <2>2, <1>6
      <3>4. i \notin DOMAIN line
        BY <2>2, <1>1 DEF Line, s
      <3>5. sent
        BY <3>3, <3>4, <1>7
      <3>6. taken' # taken => taken' = [taken EXCEPT ![exchange.req] = @ + 1]
        BY <1>1, <3>1 DEF sent
      <3>7. line' # Bus!Aged
        BY <3>3, <3>4, <1>5
      <3> QED BY <1>1, <1>2, <3>1, <3>2, <3>7 DEF BusTyped, sent
    <2>3. exchange'.op = "move" => exchange'.req \in Moves /\ (s = 6 => exchange'.req \in reserved')
      BY <1>1, <1>2, <1>3 DEF CallKept, s
    <2>4. exchange'.step = s /\ s \in 1..6
      BY <1>2, <1>13 DEF s
    <2> QED BY <1>1, <1>2, <2>1, <2>2, <2>3, <2>4 DEF CallKept
  <1> QED BY <1>10, <1>11, <1>9, <1>12, <1>14, <1>15 DEF BusInv

LEMMA ArriveStep == ASSUME BusInv, Bus!Arrive PROVE BusInv'
  <1> DEFINE s == exchange.step
             got == Append(exchange.got, Head(line).to)
  <1>1. /\ BusTyped /\ PortKept /\ Commands /\ Bus!Busy /\ exchange.waiting /\ Line /\ CallKept
        /\ line # <<>> /\ line' = Tail(line)
        /\ UNCHANGED <<user, lock, exclusive, settings, taken>>
    BY DEF BusInv, Bus!Arrive, Bus!Fixed, Bus!port
  <1>2. CASE ~Bus!Fits(Head(line))
    <2>1. BusInv /\ Bus!Lost
      BY <1>2, <1>1 DEF Bus!Arrive, Bus!Lost
    <2> QED BY <2>1, LostStep
  <1>3. CASE Bus!Fits(Head(line))
    <2>1. /\ exchange' = IF Bus!Goes THEN [exchange EXCEPT !.step = @ + 1, !.waiting = FALSE, !.got = got] ELSE Bus!NoCall
          /\ accepted' = IF Bus!Step = "write" THEN accepted \cup {exchange.req} ELSE accepted
          /\ reserved' = reserved \cup accepted'
      BY <1>3 DEF Bus!Arrive
    <2>2. /\ Tail(line) \in Seq(OnLine) /\ Head(line) = line[1] /\ 1 \in DOMAIN line /\ DOMAIN line = 1..Len(line)
          /\ \A i \in DOMAIN Tail(line) : i + 1 \in DOMAIN line /\ 1 < i + 1 /\ Tail(line)[i] = line[i + 1]
      BY <1>1 DEF BusTyped
    <2>3. /\ exchange \in BusCall /\ s \in 1..6 /\ exchange.op \in {"identify", "read", "move"}
          /\ s \in 1..Len(Bus!Steps[exchange.op])
      BY <1>1 DEF BusTyped, Bus!Busy, BusCall, CallKept
    <2>4. Bus!Step = "write" => s = 6 /\ exchange.op = "move"
      BY <2>3, StepsAre DEF Bus!Step
    <2>5. Bus!Step = "write" => exchange.req \in reserved /\ exchange.req \in Moves /\ taken[exchange.req] = 1
      BY <1>1, <2>4 DEF CallKept
    <2>6. Commands' /\ reserved' = reserved /\ accepted' \subseteq reserved'
      BY <1>1, <2>1, <2>5 DEF Commands, BusTyped
    <2>7. PortKept'
      BY <1>1 DEF PortKept, Owner, Bus!OnBus
    <2>8. \A i, j \in DOMAIN line' : i < j => line'[i].lag > line'[j].lag
      BY <1>1, <2>2 DEF Line
    <2>9. CASE ~Bus!Goes
      <3>1. exchange' = Bus!NoCall
        BY <2>1, <2>9
      <3>2. BusTyped' /\ ~Bus!Busy'
        BY <1>1, <2>2, <2>6, <3>1 DEF BusTyped, Bus!Busy, Bus!NoCall
      <3> QED BY <2>6, <2>7, <2>8, <3>2 DEF BusInv
    <2>10. CASE Bus!Goes
      <3>1. exchange' = [exchange EXCEPT !.step = @ + 1, !.waiting = FALSE, !.got = got]
        BY <2>1, <2>10
      <3>2. s + 1 \in 1..Len(Bus!Steps[exchange.op]) /\ s + 1 \in 1..6
        <4> DEFINE n == Len(Bus!Steps[exchange.op])
        <4>1. n \in {2, 5, 6}
          BY <2>3, StepsAre
        <4>2. s # n
          BY <2>10 DEF Bus!Goes, Bus!Last
        <4>3. s \in 1..n
          BY <2>3
        <4> HIDE DEF s, n
        <4>4. s + 1 \in 1..n /\ s + 1 \in 1..6
          BY <4>1, <4>2, <4>3
        <4> QED BY <4>4 DEF n
      <3>3. Head(line).to \in Bus!Kinds /\ exchange.got \in Seq(Bus!Kinds)
        BY <2>2, <2>3, <1>1, LineTyped DEF BusCall
      <3>4. got \in Seq(Bus!Kinds) /\ Len(got) = Len(exchange.got) + 1
            /\ (\A i \in DOMAIN got : got[i] = IF i = Len(got) THEN Head(line).to ELSE exchange.got[i])
            /\ \A i \in DOMAIN got : i = Len(got) \/ i \in DOMAIN exchange.got
        BY <3>3
      <3> HIDE DEF got, s
      <3>5. /\ exchange' \in BusCall /\ exchange'.step = s + 1 /\ exchange'.got = got /\ ~exchange'.waiting
            /\ exchange'.op = exchange.op /\ exchange'.req = exchange.req
        BY <3>1, <3>2, <3>4, <2>3 DEF BusCall, s
      <3>6. BusTyped'
        BY <1>1, <2>2, <2>6, <3>5 DEF BusTyped
      <3>7. Begun' = s /\ Begun = s
        BY <1>1, <2>3, <3>5 DEF Begun, s
      <3>8. s >= 3 => line' = <<>>
        <4> SUFFICES ASSUME s >= 3, NEW i \in DOMAIN line' PROVE FALSE
          BY <1>1, <2>2
        <4>1. line[1].lag = 0
          BY <1>1, <1>3, <2>2, <2>3, OwnAnswer DEF s
        <4>2. i + 1 \in DOMAIN line /\ line[1].lag > line[i + 1].lag /\ line[i + 1].lag \in 0..2
          BY <1>1, <2>2, LineTyped DEF Line
        <4> QED BY <4>1, <4>2
      <3>9. Line'
        <4>1. \A i \in DOMAIN line' : line'[i].lag < s => line'[i].to = Bus!Steps[exchange.op][s - line'[i].lag]
          BY <1>1, <2>2, <3>7 DEF Line
        <4>2. s + 1 >= 4 => line' = <<>>
          BY <3>2, <3>8, <2>3
        <4>3. exchange'.step >= 4 => \A i \in DOMAIN line' : FALSE
          BY <4>2, <3>5
        <4> QED BY <4>1, <4>3, <3>5, <3>7, <2>8 DEF Line
      <3>10. CallKept'
        <4>1. Len(got) = s /\ (exchange.step \in 1..Len(Bus!Steps[exchange.op]))'
          BY <1>1, <2>3, <3>2, <3>4, <3>5 DEF CallKept, s
        <4>2. Len(exchange'.got) = exchange'.step - 1
          BY <4>1, <3>5, <2>3
        <4>3. ASSUME NEW i \in DOMAIN got, i # 1 PROVE got[i] = Bus!Steps[exchange.op][i]
          <5>1. CASE i = Len(got)
            <6>1. i = s
              BY <5>1, <4>1
            <6>2. got[i] = Head(line).to
              BY <5>1, <3>4
            <6> QED BY <6>1, <6>2, <4>3, <1>1, <1>3, OwnAnswer DEF s, Bus!Step
          <5>2. CASE i # Len(got)
            BY <5>2, <4>3, <3>4, <1>1 DEF CallKept
          <5> QED BY <5>1, <5>2
        <4>4. exchange'.op = "move" => exchange'.req \in Moves /\ exchange'.req \notin reserved'
          <5> SUFFICES ASSUME exchange.op = "move" PROVE exchange.req \in Moves /\ exchange.req \notin reserved
            BY <3>5, <2>6
          <5>1. exchange.step < 6
            BY <3>2, <2>3 DEF s
          <5> QED BY <5>1, <1>1 DEF CallKept
        <4> QED BY <4>1, <4>2, <4>3, <4>4, <3>5 DEF CallKept
      <3>11. Bus!Busy' => Line' /\ CallKept'
        BY <3>9, <3>10
      <3> QED BY <3>6, <2>6, <2>7, <2>8, <3>11 DEF BusInv
    <2> QED BY <2>9, <2>10
  <1> QED BY <1>2, <1>3

LEMMA InitBusInv == Bus!Init => BusInv
  <1> SUFFICES ASSUME Bus!Init PROVE BusInv
    OBVIOUS
  <1>1. exchange = Bus!NoCall /\ line = <<>> /\ reserved = {} /\ accepted = {} /\ lock = Absent
        /\ user = [u \in PortUsers |-> [pc |-> "closed", saved |-> Absent]]
        /\ exclusive = FALSE /\ settings = "own" /\ taken = [m \in Moves |-> 0]
    BY DEF Bus!Init
  <1>2. line \in Seq(OnLine) /\ DOMAIN line = {}
    BY <1>1
  <1>3. BusTyped
    <2>1. user \in [PortUsers -> [pc : {"closed", "opened", "locked", "exclusive", "session"},
                                 saved : {Absent, "own", "raw"}]]
      BY <1>1
    <2>2. taken \in [Moves -> 0..1]
      BY <1>1
    <2> QED BY <2>1, <2>2, <1>1, <1>2 DEF BusTyped
  <1>4. PortKept /\ ~Bus!Busy
    BY <1>1, BusAssumption DEF PortKept, Owner, Bus!Busy
  <1>5. Commands
    BY <1>1 DEF Commands
  <1> QED BY <1>2, <1>3, <1>4, <1>5 DEF BusInv

LEMMA StepBusInv == BusInv /\ [Bus!Next]_(Bus!vars) => BusInv'
  <1>1. ASSUME BusInv, UNCHANGED Bus!vars PROVE BusInv'
    BY <1>1 DEF BusInv, Bus!vars, Bus!port, BusTyped, PortKept, Commands, Owner, Bus!Busy, Bus!OnBus, Line, CallKept, Begun
  <1>2. ASSUME BusInv, Bus!Next PROVE BusInv'
    <2>1. CASE \E u \in PortUsers : Bus!Open(u) \/ Bus!Lock(u) \/ Bus!Exclude(u) \/ Bus!Configure(u) \/ Bus!OpenFails(u) \/ Bus!Close(u)
      BY <2>1, <1>2, PortStep
    <2>2. CASE \E m \in Moves : Bus!Call("move", m)
      BY <2>2, <1>2, CallStep
    <2>3. CASE Bus!Call("identify", Absent)
      BY <2>3, <1>2, CallStep
    <2>4. CASE Bus!Call("read", Absent)
      BY <2>4, <1>2, CallStep
    <2> QED BY <1>2, <2>1, <2>2, <2>3, <2>4, SendStep, LostStep, ArriveStep, FailsStep DEF Bus!Next
  <1> QED BY <1>1, <1>2

(* The bus is sound however late answers come, whoever else opens the port, and
   however often a command is given again (Bus._exchange, SerialPort.open).   *)
THEOREM BusIsAlwaysSound == Bus!Spec => []BusIsSound
  <1>1. BusInv => BusIsSound
    <2> SUFFICES ASSUME BusInv PROVE BusIsSound
      OBVIOUS
    <2>1. Bus!TypeOK
      <3>1. \A i \in DOMAIN line : line[i].to \in Bus!Kinds /\ line[i].lag \in 0..MaxLag
        <4>1. ASSUME NEW i \in DOMAIN line PROVE line[i] \in OnLine
          BY <4>1 DEF BusInv, BusTyped
        <4> QED BY <4>1 DEF OnLine
      <3>2. exchange.op \in {Absent, "identify", "read", "move"} /\ exchange.got \in Seq(Bus!Kinds)
        <4>1. CASE exchange \in BusCall
          BY <4>1 DEF BusCall
        <4>2. CASE exchange = Bus!NoCall
          BY <4>2 DEF Bus!NoCall
        <4> QED BY <4>1, <4>2 DEF BusInv, BusTyped
      <3>3. \A u \in PortUsers : user[u].pc \in {"closed", "opened", "locked", "exclusive", "session"}
        BY DEF BusInv, BusTyped
      <3> QED BY <3>1, <3>2, <3>3 DEF BusInv, BusTyped, Bus!TypeOK
    <2>2. Bus!PortIsExclusive
      BY DEF BusInv, PortKept, Owner, Bus!PortIsExclusive
    <2>3. Bus!CommandedOnce
      BY DEF BusInv, BusTyped, Commands, Bus!CommandedOnce
    <2>4. Bus!AnswersAreMatched
      <3>1. CASE ~Bus!Busy
        BY <3>1 DEF Bus!Busy, Bus!NoCall, Bus!AnswersAreMatched
      <3>2. CASE Bus!Busy
        <4>1. CallKept /\ exchange \in BusCall /\ exchange.op \in {"identify", "read", "move"}
          BY <3>2 DEF BusInv, BusTyped, Bus!Busy, BusCall
        <4>2. 1 \in 1..Len(Bus!Steps[exchange.op])
          BY <4>1 DEF CallKept, BusCall
        <4>3. Bus!Steps[exchange.op][1] = "ping"
          BY <4>1, <4>2, StepsAre
        <4> QED BY <4>1, <4>3 DEF CallKept, Bus!AnswersAreMatched
      <3> QED BY <3>1, <3>2
    <2> QED BY <2>1, <2>2, <2>3, <2>4 DEF BusIsSound
  <1> QED BY <1>1, InitBusInv, StepBusInv, PTL DEF Bus!Spec

-----------------------------------------------------------------------------
(***************************************************************************)
(* The loop that moves a body until the reviewer is satisfied.             *)
(***************************************************************************)

Sighting == Loop!Observations \cup {Loop!None}
LoopTyped ==
  /\ runtime \in Runtimes /\ attempt \in 0..MaxAttempts /\ late \in BOOLEAN
  /\ pc \in {"admit", "open", "begin", "plan", "intent", "execute", "look", "stop", "store", "review", "close", "done"}
  /\ episode \in [before : Sighting, intent : BOOLEAN, after : Sighting, error : Loop!Errors]
  /\ body \in [at : {"start", "away", "goal"}, driven : BOOLEAN]
  /\ log \in [Loop!Kinds -> Nat] /\ moves \in Nat /\ stuck \in Nat
  /\ review \in {"none", "pass", "fail", "inconclusive"}
  /\ result \in {"none", "refused", "raised", "pass", "fail", "inconclusive"}

\* What was seen after the action of this attempt
Evidence ==
  /\ episode.intent /\ episode.after \in Loop!Observations
  /\ (episode.after.own /\ episode.after.new => episode.after.at = body.at)
  /\ (runtime = "rust" => episode.after.own /\ episode.after.new)
Earned ==
  /\ Evidence /\ episode.after.own /\ episode.after.at = "goal"
  /\ stuck = 0 /\ ~body.driven

\* The records count the moves and the attempts.
Recorded ==
  /\ log["intent"] = IF pc = "execute" THEN moves + 1 ELSE moves
  /\ pc \in {"admit", "open"} => attempt = 0 /\ log["episode"] = 0
  /\ pc \in {"begin", "plan", "intent", "execute", "look", "stop", "store"} => attempt = log["episode"] + 1
  /\ pc \in {"review", "close"} => attempt = log["episode"]
  /\ result \in {"pass", "fail", "inconclusive"} => attempt = log["episode"]

(* What each call of the attempt may rely on: an attempt without an error has
   its evidence, one whose stop did not fail left the body undriven, and a verdict
   is a pass only if it was earned.                                          *)
Attempted ==
  /\ pc \in {"execute", "look"} => episode.intent
  /\ pc \in {"stop", "store", "review"} /\ episode.error = "no" => Evidence
  /\ pc \in {"store", "review"} /\ episode.error # "stop" => stuck = 0 /\ ~body.driven
  /\ stuck # 0 => stuck = moves + 1 /\ pc \in {"store", "review", "close", "done"}
  /\ pc = "close" => review # "none" /\ (review = "pass" => Earned)
  /\ result = "pass" => Earned
  /\ result # "none" => pc = "done"

LoopInv == LoopTyped /\ Recorded /\ Attempted

LEMMA InitLoopInv == Loop!Init => LoopInv
  <1> SUFFICES ASSUME Loop!Init PROVE LoopInv
    OBVIOUS
  <1>1. LoopTyped
    <2>1. episode \in [before : Sighting, intent : BOOLEAN, after : Sighting, error : Loop!Errors]
      BY DEF Loop!Init, Loop!Fresh, Sighting, Loop!Errors
    <2>2. log \in [Loop!Kinds -> Nat]
      BY DEF Loop!Init
    <2>3. attempt \in 0..MaxAttempts /\ body \in [at : {"start", "away", "goal"}, driven : BOOLEAN]
      BY LoopAssumption DEF Loop!Init
    <2> QED BY <2>1, <2>2, <2>3 DEF Loop!Init, LoopTyped
  <1>2. Recorded
    BY DEF Loop!Init, Recorded, Loop!Kinds
  <1>3. Attempted
    BY DEF Loop!Init, Attempted
  <1> QED BY <1>1, <1>2, <1>3 DEF LoopInv

LEMMA BeforeTheStop ==
  ASSUME LoopInv, Loop!Admit \/ Loop!Open \/ Loop!Begin \/ Loop!Plan \/ Loop!Intent PROVE LoopInv'
  <1> USE LoopAssumption DEF LoopInv, Loop!Same, Loop!Go, Loop!Fail, Loop!Ends, Loop!Appended
  <1>1. ASSUME Loop!Admit PROVE LoopInv'
    BY <1>1 DEF Loop!Admit, LoopTyped, Recorded, Attempted, Evidence, Earned
  <1>2. ASSUME Loop!Open PROVE LoopInv'
    BY <1>2 DEF Loop!Open, LoopTyped, Recorded, Attempted, Evidence, Earned, Loop!Kinds
  <1>3. ASSUME Loop!Begin PROVE LoopInv'
    <2>1. /\ pc = "begin" /\ pc' \in {"plan", "stop"} /\ (pc' = "stop" => episode'.error # "no")
          /\ episode' \in [before : Sighting, intent : BOOLEAN, after : Sighting, error : Loop!Errors]
          /\ UNCHANGED <<runtime, attempt, late, body, review, log, result, moves, stuck>>
      <3>1. CASE late
        BY <1>3, <3>1 DEF Loop!Begin, LoopTyped, Loop!Errors
      <3>2. CASE Loop!Fail("driver")
        BY <1>3, <3>2 DEF Loop!Begin, LoopTyped, Loop!Errors
      <3>3. CASE ~late /\ ~Loop!Fail("driver")
        <4>1. PICK o \in Loop!Observations :
                IF Loop!Admissible(o) THEN Loop!Go("plan") /\ episode' = [episode EXCEPT !.before = o]
                ELSE Loop!Go("stop") /\ episode' = [episode EXCEPT !.before = o, !.error = "observation"]
          BY <1>3, <3>3 DEF Loop!Begin
        <4>2. o \in Sighting
          BY <4>1 DEF Sighting
        <4>3. episode \in [before : Sighting, intent : BOOLEAN, after : Sighting, error : Loop!Errors]
          BY DEF LoopTyped
        <4>4. "observation" \in Loop!Errors
          BY DEF Loop!Errors
        <4> QED BY <1>3, <4>1, <4>2, <4>3, <4>4 DEF Loop!Begin
      <3> QED BY <3>1, <3>2, <3>3
    <2> QED BY <2>1 DEF LoopTyped, Recorded, Attempted, Evidence, Earned
  <1>4. ASSUME Loop!Plan PROVE LoopInv'
    BY <1>4 DEF Loop!Plan, LoopTyped, Recorded, Attempted, Evidence, Earned, Loop!Errors
  <1>5. ASSUME Loop!Intent PROVE LoopInv'
    <2>1. LoopTyped'
      <3>1. log' \in [Loop!Kinds -> Nat]
        BY <1>5 DEF Loop!Intent, LoopTyped, Loop!Kinds
      <3>2. episode' \in [before : Sighting, intent : BOOLEAN, after : Sighting, error : Loop!Errors]
        BY <1>5 DEF Loop!Intent, LoopTyped, Loop!Errors
      <3> QED BY <1>5, <3>1, <3>2 DEF Loop!Intent, LoopTyped
    <2>2. Recorded'
      BY <1>5 DEF Loop!Intent, LoopTyped, Recorded, Loop!Kinds
    <2>3. Attempted'
      BY <1>5 DEF Loop!Intent, LoopTyped, Attempted, Evidence, Earned
    <2> QED BY <2>1, <2>2, <2>3
  <1> QED BY <1>1, <1>2, <1>3, <1>4, <1>5

LEMMA FromTheMove ==
  ASSUME LoopInv, Loop!Execute \/ Loop!Look \/ Loop!Stop PROVE LoopInv'
  <1> USE LoopAssumption DEF LoopInv, Loop!Same, Loop!Go, Loop!Fail
  <1>1. ASSUME Loop!Execute PROVE LoopInv'
    BY <1>1 DEF Loop!Execute, LoopTyped, Recorded, Attempted, Evidence, Earned, Loop!Errors
  <1>2. ASSUME Loop!Look PROVE LoopInv'
    <2>1. /\ pc = "look" /\ pc' = "stop" /\ (episode'.error = "no" => Evidence')
          /\ episode' \in [before : Sighting, intent : BOOLEAN, after : Sighting, error : Loop!Errors]
          /\ UNCHANGED <<runtime, attempt, late, body, review, log, result, moves, stuck>>
      <3>1. CASE Loop!Fail("driver")
        BY <1>2, <3>1 DEF Loop!Look, LoopTyped, Loop!Errors
      <3>2. CASE ~Loop!Fail("driver")
        <4> DEFINE Error(o) == IF runtime = "rust" /\ ~Loop!Admissible(o) THEN "observation"
                               ELSE IF late THEN "expired" ELSE "no"
        <4>1. PICK o \in Loop!Observations :
                Loop!Observed(o) /\ episode' = [episode EXCEPT !.after = o, !.error = Error(o)]
          BY <1>2, <3>2 DEF Loop!Look
        <4>2. o \in Sighting /\ Error(o) \in Loop!Errors
          BY <4>1 DEF Sighting, Loop!Errors
        <4>3. episode \in [before : Sighting, intent : BOOLEAN, after : Sighting, error : Loop!Errors]
          BY DEF LoopTyped
        <4>4. Error(o) = "no" => (runtime = "rust" => o.own /\ o.new)
          BY DEF Loop!Admissible
        <4>5. pc = "look" /\ pc' = "stop" /\ UNCHANGED <<runtime, attempt, late, body, review, log, result, moves, stuck>>
          BY <1>2 DEF Loop!Look
        <4> HIDE DEF Error
        <4>6. episode' \in [before : Sighting, intent : BOOLEAN, after : Sighting, error : Loop!Errors]
              /\ episode'.after = o /\ episode'.error = Error(o) /\ episode'.intent = episode.intent
          BY <4>1, <4>2, <4>3
        <4>7. episode.intent
          BY <4>5 DEF Attempted
        <4> QED BY <4>1, <4>4, <4>5, <4>6, <4>7 DEF Evidence, Loop!Observed
      <3> QED BY <3>1, <3>2
    <2> QED BY <2>1 DEF LoopTyped, Recorded, Attempted, Evidence, Earned
  <1>3. ASSUME Loop!Stop PROVE LoopInv'
    <2>1. LoopTyped'
      <3>1. body' \in [at : {"start", "away", "goal"}, driven : BOOLEAN]
        <4>1. body' = body \/ body' = [body EXCEPT !.driven = FALSE]
          BY <1>3 DEF Loop!Stop
        <4>2. body \in [at : {"start", "away", "goal"}, driven : BOOLEAN]
          BY DEF LoopTyped
        <4> QED BY <4>1, <4>2
      <3>2. episode' \in [before : Sighting, intent : BOOLEAN, after : Sighting, error : Loop!Errors]
        BY <1>3 DEF Loop!Stop, LoopTyped, Loop!Errors
      <3>3. stuck' \in Nat
        BY <1>3 DEF Loop!Stop, LoopTyped
      <3> QED BY <1>3, <3>1, <3>2, <3>3 DEF Loop!Stop, LoopTyped
    <2>2. Recorded'
      BY <1>3 DEF Loop!Stop, Recorded
    <2>3. Attempted'
      BY <1>3 DEF Loop!Stop, LoopTyped, Attempted, Evidence, Earned
    <2> QED BY <2>1, <2>2, <2>3
  <1> QED BY <1>1, <1>2, <1>3

\* How a review goes on, once the review of the attempt and its episode are stored
LEMMA OnwardStep ==
  ASSUME LoopTyped, NEW v \in {"pass", "fail", "inconclusive"}, review' = v, Loop!Onward(v),
         moves = log["intent"], stuck # 0 => stuck = moves + 1 /\ v = "inconclusive", v = "pass" => Earned,
         log' \in [Loop!Kinds -> Nat], log'["intent"] = log["intent"], log'["episode"] = attempt, result = "none",
         UNCHANGED <<runtime, late, body, moves, stuck>>
  PROVE  LoopInv'
  <1>1. CASE Loop!Again(v)
    <2>1. /\ pc' = "begin" /\ attempt' = attempt + 1 /\ episode' = Loop!Fresh /\ result' = "none" /\ v = "fail"
          /\ attempt < MaxAttempts
      BY <1>1 DEF Loop!Onward, Loop!Go, Loop!Again
    <2>2. episode' \in [before : Sighting, intent : BOOLEAN, after : Sighting, error : Loop!Errors]
      BY <2>1 DEF Loop!Fresh, Sighting, Loop!Errors
    <2>3. LoopTyped'
      BY <2>1, <2>2, LoopAssumption DEF LoopTyped
    <2>4. Recorded' /\ Attempted'
      BY <2>1 DEF Recorded, Attempted, LoopTyped
    <2> QED BY <2>3, <2>4 DEF LoopInv
  <1>2. CASE ~Loop!Again(v)
    <2>1. UNCHANGED <<attempt, episode>> /\ ((pc' = "done" /\ result' = v) \/ (pc' = "close" /\ result' = "none"))
      BY <1>2 DEF Loop!Onward, Loop!Go, Loop!Ends
    <2>2. LoopTyped'
      BY <2>1 DEF LoopTyped
    <2>3. Recorded'
      BY <2>1 DEF Recorded
    <2>4. Attempted'
      BY <2>1 DEF Attempted, Earned, Evidence
    <2> QED BY <2>2, <2>3, <2>4 DEF LoopInv
  <1> QED BY <1>1, <1>2

\* A verdict is a pass only of an attempt that earned it.
LEMMA VerdictIs ==
  ASSUME LoopInv, pc \in {"store", "review"}
  PROVE  /\ Loop!Verdict \in {"pass", "fail", "inconclusive"}
         /\ Loop!Verdict = "pass" => Earned
         /\ stuck # 0 => stuck = moves + 1 /\ Loop!Verdict = "inconclusive"
  BY DEF LoopInv, Attempted, Earned, Evidence, Loop!Verdict, Loop!Seen, Loop!Sound

LEMMA StoreStep == ASSUME LoopInv, Loop!Store PROVE LoopInv'
  <1> USE DEF LoopInv
  <1>1. pc = "store" /\ UNCHANGED <<runtime, late, body, moves, stuck>>
    BY DEF Loop!Store
  <1>2. CASE Loop!Ends("raised") /\ UNCHANGED <<log, review, attempt, episode>>
    BY <1>1, <1>2 DEF Loop!Ends, Loop!Go, LoopTyped, Recorded, Attempted, Evidence, Earned
  <1>3. ASSUME Loop!Appended("episode") PROVE LoopInv'
    <2>1. /\ log' \in [Loop!Kinds -> Nat] /\ log'["intent"] = log["intent"] /\ log'["episode"] = attempt
          /\ moves = log["intent"] /\ result = "none"
      BY <1>1, <1>3 DEF Loop!Appended, LoopTyped, Recorded, Attempted, Loop!Kinds
    <2>2. CASE Loop!Go("review") /\ UNCHANGED <<review, attempt, episode, result>>
      BY <1>1, <2>1, <2>2 DEF Loop!Go, LoopTyped, Recorded, Attempted, Evidence, Earned
    <2>3. CASE review' = Loop!Verdict /\ Loop!Onward(Loop!Verdict)
      BY <1>1, <2>1, <2>3, VerdictIs, OnwardStep
    <2> QED BY <1>3, <2>2, <2>3, <1>2 DEF Loop!Store
  <1> QED BY <1>2, <1>3 DEF Loop!Store

LEMMA ReviewStep == ASSUME LoopInv, Loop!Review PROVE LoopInv'
  <1> USE DEF LoopInv
  <1>1. pc = "review" /\ UNCHANGED <<runtime, late, body, moves, stuck>>
    BY DEF Loop!Review
  <1>2. PICK v \in {Loop!Verdict, "inconclusive"} :
          review' = v /\ (\/ Loop!Appended("review") /\ Loop!Onward(v)
                          \/ Loop!Ends("raised") /\ UNCHANGED <<log, attempt, episode>>)
    BY DEF Loop!Review
  <1>3. v \in {"pass", "fail", "inconclusive"} /\ (v = "pass" => Earned) /\ (stuck # 0 => stuck = moves + 1 /\ v = "inconclusive")
    BY <1>1, <1>2, VerdictIs DEF Attempted
  <1>4. CASE Loop!Appended("review") /\ Loop!Onward(v)
    <2>1. /\ log' \in [Loop!Kinds -> Nat] /\ log'["intent"] = log["intent"] /\ log'["episode"] = attempt
          /\ moves = log["intent"] /\ result = "none"
      BY <1>1, <1>4 DEF Loop!Appended, LoopTyped, Recorded, Attempted, Loop!Kinds
    <2> QED BY <1>1, <1>2, <1>3, <1>4, <2>1, OnwardStep
  <1>5. CASE Loop!Ends("raised") /\ UNCHANGED <<log, attempt, episode>>
    BY <1>1, <1>2, <1>3, <1>5 DEF Loop!Ends, Loop!Go, LoopTyped, Recorded, Attempted, Evidence, Earned
  <1> QED BY <1>2, <1>4, <1>5

LEMMA CloseStep == ASSUME LoopInv, Loop!Close \/ Loop!Expire PROVE LoopInv'
  <1> USE DEF LoopInv
  <1>1. ASSUME Loop!Close PROVE LoopInv'
    <2>1. /\ log' \in [Loop!Kinds -> Nat] /\ log'["intent"] = log["intent"] /\ log'["episode"] = log["episode"]
          /\ pc = "close" /\ pc' = "done" /\ result' \in {review, "raised"}
          /\ UNCHANGED <<runtime, attempt, late, body, episode, review, moves, stuck>>
      BY <1>1 DEF Loop!Close, Loop!Appended, Loop!Ends, Loop!Go, Loop!Same, LoopTyped, Loop!Kinds
    <2> QED BY <2>1 DEF LoopTyped, Recorded, Attempted, Evidence, Earned
  <1>2. ASSUME Loop!Expire PROVE LoopInv'
    BY <1>2 DEF Loop!Expire, LoopTyped, Recorded, Attempted, Evidence, Earned
  <1> QED BY <1>1, <1>2

LEMMA StepLoopInv == LoopInv /\ [Loop!Next]_(Loop!vars) => LoopInv'
  <1>1. ASSUME LoopInv, UNCHANGED Loop!vars PROVE LoopInv'
    BY <1>1 DEF LoopInv, Loop!vars, LoopTyped, Recorded, Attempted, Evidence, Earned
  <1> QED BY <1>1, BeforeTheStop, FromTheMove, StoreStep, ReviewStep, CloseStep DEF Loop!Next, Loop!Step

(* An attempt of either loop passes only on evidence of its own, and every target
   the body was given stands in the record (Loop.run, robotics::run).        *)
THEOREM LoopIsAlwaysSound == Loop!Spec => []LoopIsSound
  <1>1. LoopInv => LoopIsSound
    BY DEF LoopInv, LoopTyped, Recorded, Attempted, Evidence, Earned, LoopIsSound,
       Loop!TypeOK, Loop!PassIsEarned, Loop!MovesAreOnRecord
  <1> QED BY <1>1, InitLoopInv, StepLoopInv, PTL DEF Loop!Spec

-----------------------------------------------------------------------------
(***************************************************************************)
(* The processes of the host.                                              *)
(***************************************************************************)

Handles == [target : Processes!Ids, at : Processes!Ids]
StopCall ==
  [pc : {"none", "verify", "opening", "again", "signal", "aimed", "waiting", "done"},
   targets : SUBSET Processes!Ids, todo : SUBSET Processes!Ids,
   handles : SUBSET Handles, aim : SUBSET Handles, signals : Seq({"INT", "KILL"})]

NodeStates ==
  [pc : {"none", "accepted", "run", "exited", "closing", "interrupt", "wait", "closed", "refused"},
   pid : Pids \cup {0}, life : 0..MaxLives]
HostTyped ==
  /\ proc \in [Pids -> [life : 0..MaxLives, st : {"free", "run", "zombie"}]]
  /\ \A i \in Pids : proc[i].st # "free" => proc[i].life # 0

ProcessTyped ==
  /\ HostTyped
  /\ seen \subseteq Processes!Ids /\ call \in [StopCalls -> StopCall]
  /\ asked \in [StopCalls -> {"none", "waiting", "refused", "failed", "unknown", "stopped", "remaining"}]
  /\ hit \in [StopCalls -> SUBSET Processes!Ids]
  /\ node \in NodeStates

\* An identity that was seen: its process has lived, as it is now or before
Born(i) == i.life <= proc[i.pid].life

\* A process that is gone; its identity names no other ever after
Dead(i) == proc[i.pid].st = "free" \/ i.life < proc[i.pid].life

(* A handle is of a target of the call with a pid of its own, and once it is
   confirmed it stands for the target or for nothing.                        *)
Opened(k, h) ==
  /\ h.target \in k.targets /\ h.target.pid \notin Protected
  /\ h.at.pid = h.target.pid /\ Born(h.at)
Settled(h) == h.at = h.target \/ Dead(h.at)

Handled(k) ==
  /\ \A h \in k.handles : Opened(k, h)
  /\ k.pc \in {"verify", "signal", "aimed", "waiting"} =>
       \A h \in k.handles : Settled(h)
  /\ k.pc = "verify" => \A h \in k.handles : h.target \notin k.todo
  /\ k.pc \in {"opening", "again"} =>
       /\ \A h \in k.handles : h.target \in k.todo \/ Settled(h)
       /\ \A h, g \in k.handles : h.target \in k.todo /\ g.target \in k.todo => h = g
  /\ k.pc = "opening" => \A h \in k.handles : h.target \in k.todo => h.at = h.target
  /\ k.aim \subseteq k.handles /\ (k.aim # {} => k.pc = "aimed")

(* What a call did and what the terminal heard of it: signals follow the
   verification of all targets, and an answer ends the call.                 *)
Answers(c) ==
  /\ \A t \in call[c].targets : Born(t)
  /\ call[c].todo \subseteq call[c].targets
  /\ hit[c] \subseteq call[c].targets /\ \A i \in hit[c] : i.pid \notin Protected
  /\ call[c].pc \in {"none", "verify", "opening", "again"} => hit[c] = {}
  /\ call[c].pc \in {"verify", "opening", "again", "signal", "aimed"} => call[c].signals # <<>>
  /\ asked[c] \in {"refused", "stopped"} => call[c].pc = "done"
  /\ asked[c] = "refused" => hit[c] = {}
  /\ asked[c] = "stopped" => \A t \in call[c].targets : ~Processes!Alive(t)

(* The program of the node keeps its pid while the node has not reaped it, and is
   the one that was reviewed.                                                *)
NodeKept ==
  /\ node.pc \in {"run", "closing", "interrupt", "wait"} =>
       node.pid \in Pids /\ proc[node.pid].st # "free" /\ proc[node.pid].life = node.life
  /\ node.pc \notin {"wait", "closed"} => interrupted = {}
  /\ interrupted \subseteq {[pid |-> node.pid, life |-> node.life]}
  /\ node.pc \in {"none", "accepted"} => ran = 0
  /\ ran # 0 => ran = reviewed

ProcessInv ==
  /\ ProcessTyped /\ NodeKept
  /\ \A i \in seen : Born(i)
  /\ \A c \in StopCalls : Handled(call[c]) /\ Answers(c)

\* What can become of a process: it ends, it is reaped, and a new one has a new life.
Evolves ==
  \A i \in Pids :
    /\ proc'[i].life >= proc[i].life
    /\ proc'[i].life = proc[i].life => (proc[i].st # "run" => proc'[i].st # "run")
                                       /\ (proc[i].st = "free" => proc'[i].st = "free")

\* The program of the node is not reaped by others.
Spared ==
  \A i \in Pids : node.pid = i /\ node.pc \in {"run", "closing", "interrupt", "wait"} =>
    proc'[i].st # "free" /\ proc'[i].life = proc[i].life

LEMMA MatchesIs ==
  ASSUME NEW t \in Processes!Ids
  PROVE  Processes!Matches(t) <=> proc[t.pid].life = t.life
  BY DEF Processes!Matches, Processes!Id, Processes!Ids

LEMMA IdsAre ==
  ASSUME HostTyped, NEW i \in Pids, proc[i].st # "free"
  PROVE  Processes!Id(i) \in Processes!Ids /\ Processes!Id(i).pid = i /\ Born(Processes!Id(i)) /\ ~Dead(Processes!Id(i))
  BY ProcessAssumption DEF HostTyped, Processes!Id, Processes!Ids, Born, Dead

\* An identity stays born, dead, or no longer alive.
LEMMA IdsEvolve ==
  ASSUME HostTyped, HostTyped', Evolves, NEW i \in Processes!Ids, Born(i)
  PROVE  /\ Born(i)'
         /\ Dead(i) => Dead(i)'
         /\ ~Processes!Alive(i) => ~Processes!Alive(i)'
  <1>1. i.pid \in Pids /\ i.life \in Nat /\ proc[i.pid].life \in Nat /\ proc'[i.pid].life \in Nat
    BY ProcessAssumption DEF HostTyped, Processes!Ids
  <1>2. Born(i)' /\ (Dead(i) => Dead(i)')
    BY <1>1 DEF Evolves, Born, Dead
  <1>3. Processes!Matches(i)' => proc'[i.pid].life = i.life
    BY DEF Processes!Matches, Processes!Id, Processes!Ids
  <1>4. Processes!Matches(i) <=> proc[i.pid].life = i.life
    BY MatchesIs
  <1>5. ~Processes!Alive(i) => ~Processes!Alive(i)'
    BY <1>1, <1>3, <1>4 DEF Evolves, Born, Processes!Alive, Processes!Live
  <1> QED BY <1>2, <1>5

LEMMA HandlesAre ==
  ASSUME ProcessTyped, NEW c \in StopCalls, NEW h \in call[c].handles
  PROVE  h \in Handles /\ h.target \in Processes!Ids /\ h.at \in Processes!Ids
  BY DEF ProcessTyped, StopCall, Handles

\* What a step of the host, of the node or of another call leaves of a call
LEMMA CallUntouched ==
  ASSUME ProcessInv, HostTyped', Evolves, NEW c \in StopCalls,
         call'[c] = call[c], asked'[c] = asked[c], hit'[c] = hit[c]
  PROVE  Handled(call[c])' /\ Answers(c)'
  <1>1. ProcessTyped /\ HostTyped /\ Handled(call[c]) /\ Answers(c)
    BY DEF ProcessInv, ProcessTyped
  <1>2. ASSUME NEW h \in call[c].handles PROVE Opened(call[c], h)' /\ (Settled(h) => Settled(h)')
    <2>1. h.at \in Processes!Ids
      BY <1>1, HandlesAre
    <2>2. Opened(call[c], h)
      BY <1>1 DEF Handled
    <2> QED BY <1>1, <2>1, <2>2, IdsEvolve DEF Opened, Settled
  <1>3. ASSUME NEW t \in call[c].targets PROVE Born(t)' /\ (~Processes!Alive(t) => ~Processes!Alive(t)')
    <2>1. t \in Processes!Ids /\ Born(t)
      BY <1>1 DEF ProcessTyped, StopCall, Answers
    <2> QED BY <1>1, <2>1, IdsEvolve
  <1>4. Handled(call[c])'
    BY <1>1, <1>2 DEF Handled
  <1>5. Answers(c)'
    BY <1>1, <1>3 DEF Answers
  <1> QED BY <1>4, <1>5

LEMMA SeenUntouched ==
  ASSUME ProcessInv, HostTyped', Evolves PROVE \A i \in seen : Born(i)'
  BY IdsEvolve DEF ProcessInv, ProcessTyped

LEMMA NodeUntouched ==
  ASSUME ProcessInv, UNCHANGED <<node, reviewed, ran, interrupted>>,
         Spared
  PROVE  NodeKept'
  BY DEF Spared, ProcessInv, NodeKept

\* A step that leaves the calls alone
LEMMA CallsUntouched ==
  ASSUME ProcessInv, HostTyped', Evolves, UNCHANGED <<call, asked, hit>>, NodeKept',
         node' \in NodeStates,
         seen' \subseteq Processes!Ids, \A i \in seen' : Born(i)'
  PROVE  ProcessInv'
  <1>1. ProcessTyped'
    BY DEF ProcessInv, ProcessTyped
  <1>2. \A c \in StopCalls : Handled(call[c])' /\ Answers(c)'
    BY CallUntouched
  <1> QED BY <1>1, <1>2 DEF ProcessInv

LEMMA InitProcessInv == Processes!Init => ProcessInv
  <1> SUFFICES ASSUME Processes!Init PROVE ProcessInv
    OBVIOUS
  <1>1. HostTyped
    BY ProcessAssumption DEF Processes!Init, HostTyped
  <1>2. call \in [StopCalls -> StopCall] /\ \A c \in StopCalls : call[c] = Processes!NoCall
    <2>1. Processes!NoCall \in StopCall
      BY DEF Processes!NoCall, StopCall
    <2> QED BY <2>1 DEF Processes!Init
  <1>3. node = Processes!NoNode /\ interrupted = {} /\ ran = 0 /\ seen = {}
        /\ asked = [c \in StopCalls |-> "none"] /\ hit = [c \in StopCalls |-> {}]
    BY DEF Processes!Init
  <1>4. ProcessTyped
    BY <1>1, <1>2, <1>3, ProcessAssumption DEF ProcessTyped, NodeStates, Processes!NoNode
  <1>5. NodeKept
    BY <1>3 DEF NodeKept, Processes!NoNode
  <1>6. \A c \in StopCalls : Handled(call[c]) /\ Answers(c)
    BY <1>2, <1>3 DEF Handled, Answers, Processes!NoCall
  <1> QED BY <1>3, <1>4, <1>5, <1>6 DEF ProcessInv

\* Programs that come and go, and what process_inspect reports of them
LEMMA HostStep ==
  ASSUME ProcessInv, NEW i, Processes!Inspect \/ (i \in Pids /\ (Processes!Start(i) \/ Processes!Exit(i) \/ Processes!Reap(i)))
  PROVE  ProcessInv'
  <1>1. HostTyped /\ ProcessTyped /\ NodeKept
    BY DEF ProcessInv, ProcessTyped
  <1>2. UNCHANGED <<call, asked, hit, node, reviewed, ran, interrupted>>
    BY DEF Processes!Start, Processes!Exit, Processes!Reap, Processes!Inspect, Processes!calls, Processes!nodes
  <1>3. HostTyped' /\ Evolves /\ Spared
    <2>1. ASSUME i \in Pids, Processes!Start(i) PROVE HostTyped' /\ Evolves /\ Spared
      <3>1. proc[i].st = "free" /\ proc[i].life < MaxLives /\ proc' = [proc EXCEPT ![i] = [life |-> proc[i].life + 1, st |-> "run"]]
        BY <2>1 DEF Processes!Start, Processes!CanStart, Processes!Born
      <3>2. HostTyped'
        BY <2>1, <1>1, <3>1, ProcessAssumption DEF HostTyped
      <3>3. Evolves
        BY <2>1, <1>1, <3>1, ProcessAssumption DEF HostTyped, Evolves
      <3> QED BY <2>1, <1>1, <3>1, <3>2, <3>3 DEF HostTyped, NodeKept, Spared
    <2>2. ASSUME i \in Pids, Processes!Exit(i) PROVE HostTyped' /\ Evolves /\ Spared
      <3>1. proc[i].st = "run" /\ proc' = [proc EXCEPT ![i].st = "zombie"]
        BY <2>2 DEF Processes!Exit, Processes!Live
      <3> QED BY <2>2, <1>1, <3>1, ProcessAssumption DEF HostTyped, NodeKept, Evolves, Spared
    <2>3. ASSUME i \in Pids, Processes!Reap(i) PROVE HostTyped' /\ Evolves /\ Spared
      <3>1. proc[i].st = "zombie" /\ ~Processes!Own(i) /\ proc' = [proc EXCEPT ![i].st = "free"]
        BY <2>3 DEF Processes!Reap
      <3> QED BY <2>3, <1>1, <3>1, ProcessAssumption DEF HostTyped, NodeKept, Evolves, Spared, Processes!Own
    <2>4. ASSUME Processes!Inspect PROVE HostTyped' /\ Evolves /\ Spared
      <3>1. proc' = proc
        BY <2>4 DEF Processes!Inspect
      <3> QED BY <1>1, <3>1, ProcessAssumption DEF HostTyped, NodeKept, Evolves, Spared
    <2> QED BY <2>1, <2>2, <2>3, <2>4
  <1>4. NodeKept'
    BY <1>2, <1>3, NodeUntouched
  <1>5. seen' \subseteq Processes!Ids /\ \A s \in seen' : Born(s)'
    <2>1. CASE Processes!Inspect
      <3>1. proc' = proc /\ \A s \in seen' : \E k \in Pids : s = Processes!Id(k) /\ proc[k].st # "free"
        BY <2>1 DEF Processes!Inspect, Processes!Row
      <3> QED BY <3>1, <1>1, IdsAre DEF Born
    <2>2. CASE ~Processes!Inspect
      <3>1. seen' = seen
        BY <2>2 DEF Processes!Start, Processes!Exit, Processes!Reap
      <3> QED BY <3>1, <1>1, <1>3, SeenUntouched DEF ProcessTyped
    <2> QED BY <2>1, <2>2
  <1> QED BY <1>1, <1>2, <1>3, <1>4, <1>5, CallsUntouched DEF ProcessTyped

\* The reviewed program of the node, while no process of the host changes
LEMMA NodeWaitsStep ==
  ASSUME ProcessInv, \/ Processes!Edit \/ Processes!ReviewProfile \/ Processes!Accept \/ Processes!Close
                     \/ Processes!Interrupting \/ Processes!Interrupt
  PROVE  ProcessInv'
  <1>1. ProcessTyped /\ NodeKept /\ UNCHANGED <<proc, seen, call, asked, hit>>
    BY DEF ProcessInv, Processes!Edit, Processes!ReviewProfile, Processes!Accept, Processes!Close,
           Processes!Interrupting, Processes!Interrupt, Processes!host, Processes!calls
  <1>2. HostTyped' /\ Evolves
    BY <1>1, ProcessAssumption DEF ProcessTyped, HostTyped, Evolves
  <1>3. NodeKept' /\ node' \in NodeStates
    <2> USE <1>1 DEF ProcessTyped, NodeKept, NodeStates
    <2>1. ASSUME Processes!Edit PROVE NodeKept' /\ node' \in NodeStates
      BY <2>1 DEF Processes!Edit
    <2>2. ASSUME Processes!ReviewProfile PROVE NodeKept' /\ node' \in NodeStates
      BY <2>2 DEF Processes!ReviewProfile
    <2>3. ASSUME Processes!Accept PROVE NodeKept' /\ node' \in NodeStates
      BY <2>3 DEF Processes!Accept
    <2>4. ASSUME Processes!Close PROVE NodeKept' /\ node' \in NodeStates
      BY <2>4 DEF Processes!Close
    <2>5. ASSUME Processes!Interrupting PROVE NodeKept' /\ node' \in NodeStates
      BY <2>5 DEF Processes!Interrupting
    <2>6. ASSUME Processes!Interrupt PROVE NodeKept' /\ node' \in NodeStates
      BY <2>6 DEF Processes!Interrupt, Processes!Id
    <2> QED BY <2>1, <2>2, <2>3, <2>4, <2>5, <2>6
  <1>4. seen' \subseteq Processes!Ids /\ \A s \in seen' : Born(s)'
    BY <1>1, <1>2, SeenUntouched DEF ProcessTyped
  <1> QED BY <1>1, <1>2, <1>3, <1>4, CallsUntouched

\* The program is started, and reaped by its worker.
LEMMA NodeRunsStep ==
  ASSUME ProcessInv, Processes!Launch \/ Processes!Snapshot \/ Processes!CloseAfterExit \/ Processes!Waits
  PROVE  ProcessInv'
  <1>1. ProcessTyped /\ HostTyped /\ NodeKept /\ UNCHANGED <<seen, call, asked, hit>>
    BY DEF ProcessInv, ProcessTyped, Processes!Launch, Processes!Snapshot, Processes!CloseAfterExit, Processes!Waits, Processes!calls
  <1>2. /\ HostTyped' /\ Evolves /\ NodeKept'
        /\ node' \in NodeStates
    <2>1. ASSUME Processes!Launch PROVE HostTyped' /\ Evolves /\ NodeKept' /\ node' \in NodeStates
      <3>1. CASE Processes!Unchanged
        <4>1. PICK i \in Pids :
                /\ proc[i].st = "free" /\ proc[i].life < MaxLives /\ proc' = [proc EXCEPT ![i] = [life |-> proc[i].life + 1, st |-> "run"]]
                /\ node' = [pc |-> "run", pid |-> i, life |-> proc'[i].life] /\ ran' = file
          BY <2>1, <3>1 DEF Processes!Launch, Processes!CanStart, Processes!Born
        <4>2. node.pc = "accepted" /\ file = reviewed /\ reviewed' = reviewed /\ interrupted' = interrupted
          BY <2>1, <3>1 DEF Processes!Launch, Processes!Unchanged
        <4>3. HostTyped' /\ Evolves
          BY <1>1, <4>1, ProcessAssumption DEF HostTyped, Evolves
        <4>4. proc'[i].life \in 0..MaxLives /\ proc'[i].st = "run"
          BY <1>1, <4>1, ProcessAssumption DEF HostTyped
        <4>5. NodeKept'
          BY <1>1, <4>1, <4>2, <4>4 DEF NodeKept
        <4> QED BY <4>1, <4>3, <4>4, <4>5 DEF NodeStates
      <3>2. CASE ~Processes!Unchanged
        <4>1. node.pc = "accepted" /\ node' = [node EXCEPT !.pc = "refused"] /\ UNCHANGED <<proc, ran, reviewed, interrupted>>
          BY <2>1, <3>2 DEF Processes!Launch
        <4>2. HostTyped' /\ Evolves
          BY <1>1, <4>1, ProcessAssumption DEF HostTyped, Evolves
        <4> QED BY <1>1, <4>1, <4>2 DEF NodeKept, ProcessTyped, NodeStates
      <3> QED BY <3>1, <3>2
    <2>2. CASE Processes!Snapshot \/ Processes!CloseAfterExit \/ Processes!Waits
      <3>1. /\ node.pc \in {"run", "closing", "wait"} /\ proc[node.pid].st # "run"
            /\ proc' = [proc EXCEPT ![node.pid].st = "free"]
            /\ UNCHANGED <<ran, reviewed, interrupted>>
            /\ \/ node' = [node EXCEPT !.pc = "exited"] /\ node.pc = "run"
               \/ node' = [node EXCEPT !.pc = "closed"]
        BY <2>2 DEF Processes!Snapshot, Processes!CloseAfterExit, Processes!Waits, Processes!Reaps, Processes!Live
      <3>2. HostTyped' /\ Evolves
        BY <1>1, <3>1, ProcessAssumption DEF HostTyped, Evolves, NodeKept
      <3> QED BY <1>1, <3>1, <3>2 DEF NodeKept, ProcessTyped, NodeStates
    <2> QED BY <2>1, <2>2
  <1>3. seen' \subseteq Processes!Ids /\ \A s \in seen' : Born(s)'
    BY <1>1, <1>2, SeenUntouched DEF ProcessTyped
  <1> QED BY <1>1, <1>2, <1>3, CallsUntouched

\* What is left to show of a step of one call
LEMMA CallStepIs ==
  ASSUME ProcessInv, NEW c \in StopCalls, HostTyped', Evolves, Spared,
         NEW new \in StopCall, call' = [call EXCEPT ![c] = new],
         asked' = asked \/ \E how \in {"waiting", "refused", "failed", "unknown", "stopped", "remaining"} : asked' = [asked EXCEPT ![c] = how],
         hit' = hit \/ \E ids \in SUBSET Processes!Ids : hit' = [hit EXCEPT ![c] = ids],
         seen' \subseteq seen, UNCHANGED <<node, reviewed, ran, interrupted>>,
         Handled(call[c])', Answers(c)'
  PROVE  ProcessInv'
  <1>1. ProcessTyped
    BY DEF ProcessInv
  <1>2. ProcessTyped'
    BY <1>1 DEF ProcessTyped
  <1>3. ASSUME NEW d \in StopCalls, d # c PROVE Handled(call[d])' /\ Answers(d)'
    <2>1. call'[d] = call[d] /\ asked'[d] = asked[d] /\ hit'[d] = hit[d]
      BY <1>1, <1>3 DEF ProcessTyped
    <2> QED BY <2>1, CallUntouched
  <1>4. \A i \in seen' : Born(i)'
    BY SeenUntouched
  <1>5. NodeKept'
    BY NodeUntouched
  <1> QED BY <1>2, <1>3, <1>4, <1>5 DEF ProcessInv

LEMMA HostRests ==
  ASSUME ProcessInv, UNCHANGED proc PROVE HostTyped' /\ Evolves /\ Spared
  BY ProcessAssumption DEF ProcessInv, ProcessTyped, HostTyped, NodeKept, Evolves, Spared

LEMMA CallIs ==
  ASSUME ProcessInv, NEW c \in StopCalls
  PROVE  /\ ProcessTyped /\ HostTyped /\ Handled(call[c]) /\ Answers(c)
         /\ call[c] \in StopCall /\ hit[c] \subseteq Processes!Ids
         /\ asked[c] \in {"none", "waiting", "refused", "failed", "unknown", "stopped", "remaining"}
  BY DEF ProcessInv, ProcessTyped

LEMMA RequestStep == ASSUME ProcessInv, NEW c \in StopCalls, Processes!Request(c) PROVE ProcessInv'
  <1>1. PICK ts \in Processes!Requests, m \in Processes!Modes :
          call' = [call EXCEPT ![c] = [pc |-> "verify", targets |-> ts, todo |-> ts, handles |-> {}, aim |-> {}, signals |-> m]]
    BY DEF Processes!Request
  <1>2. /\ call[c].pc = "none" /\ seen' = {} /\ asked' = [asked EXCEPT ![c] = "waiting"]
        /\ UNCHANGED <<proc, hit, node, reviewed, ran, interrupted>>
    BY DEF Processes!Request, Processes!nodes
  <1> DEFINE new == [pc |-> "verify", targets |-> ts, todo |-> ts, handles |-> {}, aim |-> {}, signals |-> m]
  <1>3. ts \subseteq seen /\ m \in Seq({"INT", "KILL"}) /\ m # <<>>
    <2>1. m = <<"INT">> \/ m = <<"KILL">> \/ m = <<"INT", "KILL">>
      BY DEF Processes!Modes
    <2>2. ts \subseteq seen
      BY DEF Processes!Requests
    <2>3. /\ <<"INT">> \in Seq({"INT", "KILL"}) /\ <<"INT">> # <<>>
          /\ <<"KILL">> \in Seq({"INT", "KILL"}) /\ <<"KILL">> # <<>>
          /\ <<"INT", "KILL">> \in Seq({"INT", "KILL"}) /\ <<"INT", "KILL">> # <<>>
      OBVIOUS
    <2> QED BY <2>1, <2>2, <2>3, Zenon
  <1>4. seen \subseteq Processes!Ids /\ \A i \in seen : Born(i)
    BY DEF ProcessInv, ProcessTyped
  <1>5. new \in StopCall
    BY <1>3, <1>4 DEF StopCall
  <1>6. call'[c] = new /\ asked'[c] = "waiting" /\ hit'[c] = {}
    BY <1>1, <1>2, CallIs DEF ProcessTyped, Answers
  <1>7. Handled(call[c])'
    BY <1>6 DEF Handled
  <1>8. \A t \in ts : Born(t)'
    BY <1>2, <1>3, <1>4 DEF Born
  <1>9. Answers(c)'
    BY <1>3, <1>6, <1>8 DEF Answers
  <1> QED BY <1>1, <1>2, <1>5, <1>7, <1>9, HostRests, CallStepIs

\* A call that ends says what is so.
LEMMA OverStep ==
  ASSUME ProcessInv, NEW c \in StopCalls, call' = Processes!Over(c), UNCHANGED <<proc, seen, hit, node, reviewed, ran, interrupted>>,
         NEW how \in {"waiting", "refused", "failed", "unknown", "stopped", "remaining"},
         Processes!Answered(c, how) \/ (how = "unknown" /\ asked' = [asked EXCEPT ![c] = how]),
         how = "refused" => hit[c] = {}, how = "stopped" => \A t \in call[c].targets : ~Processes!Alive(t)
  PROVE  ProcessInv'
  <1> DEFINE new == [Processes!NoCall EXCEPT !.pc = "done", !.targets = call[c].targets]
             heard == asked'[c]
  <1>1. ProcessTyped /\ Handled(call[c]) /\ Answers(c) /\ call[c] \in StopCall
    BY CallIs
  <1>2. call' = [call EXCEPT ![c] = new]
    BY DEF Processes!Over
  <1>3. new \in StopCall /\ new.pc = "done" /\ new.targets = call[c].targets /\ new.todo = {} /\ new.handles = {} /\ new.aim = {}
    <2>1. call[c].targets \subseteq Processes!Ids
      BY <1>1 DEF StopCall
    <2>2. Processes!NoCall \in StopCall /\ Processes!NoCall.todo = {} /\ Processes!NoCall.handles = {} /\ Processes!NoCall.aim = {}
      BY DEF Processes!NoCall, StopCall
    <2> QED BY <2>1, <2>2 DEF StopCall
  <1>4. call'[c] = new
    BY <1>1, <1>2 DEF ProcessTyped
  <1>5. asked' = [asked EXCEPT ![c] = how] \/ asked' = asked
    BY <1>1 DEF Processes!Answered, ProcessTyped
  <1>6. heard \in {how, asked[c]}
    BY <1>1, <1>5 DEF ProcessTyped
  <1> HIDE DEF new
  <1>7. Handled(call[c])'
    BY <1>3, <1>4 DEF Handled
  <1>8. \A t \in call[c].targets : Processes!Alive(t)' <=> Processes!Alive(t)
    BY DEF Processes!Alive, Processes!Live, Processes!Matches, Processes!Id
  <1>9. Answers(c)'
    BY <1>1, <1>3, <1>4, <1>6, <1>8 DEF Answers, Born
  <1> QED BY <1>2, <1>3, <1>5, <1>7, <1>9, HostRests, CallStepIs

LEMMA EndsStep ==
  ASSUME ProcessInv, NEW c \in StopCalls, Processes!Breaks(c) \/ Processes!GiveUp(c) PROVE ProcessInv'
  <1>1. UNCHANGED <<proc, seen, hit, node, reviewed, ran, interrupted>>
    BY DEF Processes!Breaks, Processes!GiveUp, Processes!host, Processes!nodes
  <1>2. CASE Processes!Breaks(c)
    BY <1>1, <1>2, OverStep DEF Processes!Breaks
  <1>3. CASE Processes!GiveUp(c)
    <2>1. asked[c] = "waiting" /\ asked' = [asked EXCEPT ![c] = "unknown"]
      BY <1>3 DEF Processes!GiveUp
    <2>2. CASE UNCHANGED call
      <3>1. ProcessTyped /\ Handled(call[c]) /\ Answers(c) /\ call[c] \in StopCall
        BY CallIs
      <3>2. call' = [call EXCEPT ![c] = call[c]] /\ call'[c] = call[c] /\ asked'[c] = "unknown" /\ hit'[c] = hit[c]
        BY <1>1, <2>1, <2>2, <3>1 DEF ProcessTyped
      <3>3. HostTyped' /\ Evolves /\ Spared
        BY <1>1, HostRests
      <3>4. Handled(call[c])' /\ Answers(c)'
        BY <1>1, <3>1, <3>2 DEF Handled, Answers, Opened, Settled, Born, Dead
      <3> QED BY <1>1, <2>1, <3>1, <3>2, <3>3, <3>4, CallStepIs
    <2>3. CASE call' = Processes!Over(c)
      BY <1>1, <2>1, <2>3, OverStep
    <2> QED BY <1>3, <2>2, <2>3 DEF Processes!GiveUp
  <1> QED BY <1>2, <1>3

\* What is left to show of a step that signals nothing and answers nothing
LEMMA MoveStep ==
  ASSUME ProcessInv, NEW c \in StopCalls, NEW new \in StopCall, call' = [call EXCEPT ![c] = new],
         UNCHANGED <<proc, seen, asked, hit, node, reviewed, ran, interrupted>>,
         call[c].pc # "done", new.targets = call[c].targets, new.todo \subseteq new.targets, Handled(new),
         new.pc \in {"none", "verify", "opening", "again"} => call[c].pc \in {"verify", "opening", "again"},
         new.pc \in {"verify", "opening", "again", "signal", "aimed"} => new.signals # <<>>
  PROVE  ProcessInv'
  <1>1. ProcessTyped /\ Answers(c)
    BY CallIs
  <1>2. call'[c] = new /\ asked'[c] = asked[c] /\ hit'[c] = hit[c]
    BY <1>1 DEF ProcessTyped
  <1>3. Handled(call[c])'
    BY <1>2 DEF Handled, Opened, Settled, Born, Dead
  <1>4. Answers(c)'
    BY <1>1, <1>2 DEF Answers, Born
  <1> QED BY <1>3, <1>4, HostRests, CallStepIs

LEMMA VerifyStep == ASSUME ProcessInv, NEW c \in StopCalls, Processes!Verify(c) PROVE ProcessInv'
  <1>1. ProcessTyped /\ HostTyped /\ Handled(call[c]) /\ Answers(c) /\ call[c] \in StopCall /\ call[c].pc = "verify"
    BY CallIs DEF Processes!Verify
  <1>2. PICK t \in call[c].todo :
          \/ Processes!Refuse(c)
          \/ /\ t.pid \notin Protected /\ (Processes!Row(t.pid) => Processes!Matches(t))
             /\ call' = [call EXCEPT ![c].todo = IF Processes!Live(t.pid) THEN @ ELSE @ \ {t},
                                     ![c].pc = IF Processes!Live(t.pid) THEN "opening" ELSE "verify",
                                     ![c].handles = IF Processes!Live(t.pid) THEN @ \cup {[target |-> t, at |-> t]} ELSE @]
             /\ UNCHANGED <<proc, seen, asked, hit, node, reviewed, ran, interrupted>>
    BY DEF Processes!Verify, Processes!host, Processes!nodes
  <1>3. t \in call[c].targets /\ t \in Processes!Ids /\ Born(t)
    BY <1>1, <1>2 DEF Answers, StopCall
  <1>4. CASE Processes!Refuse(c)
    BY <1>1, <1>4, OverStep DEF Processes!Refuse, Processes!host, Processes!nodes, Answers
  <1>5. CASE ~Processes!Refuse(c) /\ Processes!Live(t.pid)
    <2> DEFINE new == [call[c] EXCEPT !.pc = "opening", !.handles = @ \cup {[target |-> t, at |-> t]}]
    <2>1. call' = [call EXCEPT ![c] = new]
      BY <1>1, <1>2, <1>5 DEF ProcessTyped, StopCall
    <2>2. /\ new \in StopCall /\ new.targets = call[c].targets /\ new.todo = call[c].todo /\ new.pc = "opening"
          /\ new.signals = call[c].signals /\ new.handles = call[c].handles \cup {[target |-> t, at |-> t]} /\ new.aim = call[c].aim
      <3>1. [target |-> t, at |-> t] \in Handles
        BY <1>3 DEF Handles
      <3> QED BY <1>1, <3>1 DEF StopCall
    <2> HIDE DEF new
    <2>3. Handled(new)
      BY <1>1, <1>2, <1>3, <1>5, <2>2 DEF Handled, Opened, Settled
    <2> QED BY <1>1, <1>2, <1>5, <2>1, <2>2, <2>3, MoveStep DEF Answers
  <1>6. CASE ~Processes!Refuse(c) /\ ~Processes!Live(t.pid)
    <2> DEFINE new == [call[c] EXCEPT !.todo = @ \ {t}]
    <2>1. call' = [call EXCEPT ![c] = new]
      BY <1>1, <1>2, <1>6 DEF ProcessTyped, StopCall
    <2>2. /\ new \in StopCall /\ new.targets = call[c].targets /\ new.todo = call[c].todo \ {t} /\ new.pc = "verify"
          /\ new.signals = call[c].signals /\ new.handles = call[c].handles /\ new.aim = call[c].aim
      BY <1>1, <1>3 DEF StopCall, Handles
    <2> HIDE DEF new
    <2>3. Handled(new)
      BY <1>1, <2>2 DEF Handled, Opened, Settled
    <2> QED BY <1>1, <1>2, <1>6, <2>1, <2>2, <2>3, MoveStep DEF Answers
  <1> QED BY <1>4, <1>5, <1>6

LEMMA OpenHandleStep == ASSUME ProcessInv, NEW c \in StopCalls, Processes!OpenHandle(c) PROVE ProcessInv'
  <1>1. /\ ProcessTyped /\ HostTyped /\ Handled(call[c]) /\ Answers(c) /\ call[c] \in StopCall /\ call[c].pc = "opening"
        /\ UNCHANGED <<proc, seen, asked, hit, node, reviewed, ran, interrupted>>
    BY CallIs DEF Processes!OpenHandle, Processes!host, Processes!nodes
  <1>2. PICK h \in Processes!Pending(c) :
          IF Processes!Row(h.target.pid)
          THEN call' = [call EXCEPT ![c].pc = "again",
                                    ![c].handles = (@ \ {h}) \cup {[h EXCEPT !.at = Processes!Id(h.target.pid)]}]
          ELSE call' = [call EXCEPT ![c].pc = "verify", ![c].handles = @ \ {h}, ![c].todo = @ \ {h.target}]
    BY DEF Processes!OpenHandle
  <1>3. /\ h \in call[c].handles /\ h.target \in call[c].todo /\ h \in Handles
        /\ h.target \in Processes!Ids /\ h.target.pid \in Pids /\ Opened(call[c], h)
    BY <1>1, <1>2, HandlesAre DEF Processes!Pending, Handled, Processes!Ids
  <1>4. CASE Processes!Row(h.target.pid)
    <2> DEFINE i == Processes!Id(h.target.pid)
               g == [h EXCEPT !.at = i]
               new == [call[c] EXCEPT !.pc = "again", !.handles = (@ \ {h}) \cup {g}]
    <2>1. call' = [call EXCEPT ![c] = new]
      BY <1>1, <1>2, <1>4 DEF ProcessTyped, StopCall
    <2>2. i \in Processes!Ids /\ i.pid = h.target.pid /\ Born(i)
      BY <1>1, <1>3, <1>4, IdsAre DEF Processes!Row
    <2> HIDE DEF i
    <2>3. g \in Handles /\ g.target = h.target /\ g.at = i
      BY <1>3, <2>2 DEF Handles
    <2> HIDE DEF g
    <2>4. /\ new \in StopCall /\ new.targets = call[c].targets /\ new.todo = call[c].todo /\ new.pc = "again"
          /\ new.signals = call[c].signals /\ new.handles = (call[c].handles \ {h}) \cup {g} /\ new.aim = call[c].aim
      BY <1>1, <2>3 DEF StopCall
    <2> HIDE DEF new
    <2>5. Handled(new)
      <3>1. \A k \in new.handles : Opened(new, k)
        BY <1>1, <1>3, <2>2, <2>3, <2>4 DEF Handled, Opened
      <3>2. \A k \in new.handles : k.target \in new.todo => k = g
        BY <1>1, <1>3, <2>3, <2>4 DEF Handled
      <3>3. \A k \in new.handles : k.target \in new.todo \/ Settled(k)
        BY <1>1, <1>3, <2>3, <2>4 DEF Handled
      <3> QED BY <1>1, <2>4, <3>1, <3>2, <3>3 DEF Handled
    <2> QED BY <1>1, <2>1, <2>4, <2>5, MoveStep DEF Answers
  <1>5. CASE ~Processes!Row(h.target.pid)
    <2> DEFINE new == [call[c] EXCEPT !.pc = "verify", !.handles = @ \ {h}, !.todo = @ \ {h.target}]
    <2>1. call' = [call EXCEPT ![c] = new]
      BY <1>1, <1>2, <1>5 DEF ProcessTyped, StopCall
    <2>2. /\ new \in StopCall /\ new.targets = call[c].targets /\ new.todo = call[c].todo \ {h.target} /\ new.pc = "verify"
          /\ new.signals = call[c].signals /\ new.handles = call[c].handles \ {h} /\ new.aim = call[c].aim
      BY <1>1 DEF StopCall
    <2> HIDE DEF new
    <2>3. Handled(new)
      BY <1>1, <1>3, <2>2 DEF Handled, Opened
    <2> QED BY <1>1, <2>1, <2>2, <2>3, MoveStep DEF Answers
  <1> QED BY <1>4, <1>5

\* A handle that is confirmed stands for the target, or for a process that is gone.
LEMMA ConfirmStep == ASSUME ProcessInv, NEW c \in StopCalls, Processes!Confirm(c) PROVE ProcessInv'
  <1>1. ProcessTyped /\ HostTyped /\ Handled(call[c]) /\ Answers(c) /\ call[c] \in StopCall /\ call[c].pc = "again"
    BY CallIs DEF Processes!Confirm
  <1>2. PICK h \in Processes!Pending(c) :
          \/ Processes!Refuse(c)
          \/ /\ Processes!Row(h.target.pid) => Processes!Matches(h.target)
             /\ call' = [call EXCEPT ![c].pc = "verify", ![c].todo = @ \ {h.target}]
             /\ UNCHANGED <<proc, seen, asked, hit, node, reviewed, ran, interrupted>>
    BY DEF Processes!Confirm, Processes!host, Processes!nodes
  <1>3. /\ h \in call[c].handles /\ h.target \in call[c].todo /\ h.at \in Processes!Ids
        /\ h.target \in Processes!Ids /\ Opened(call[c], h)
    BY <1>1, <1>2, HandlesAre DEF Processes!Pending, Handled
  <1>4. CASE Processes!Refuse(c)
    BY <1>1, <1>4, OverStep DEF Processes!Refuse, Processes!host, Processes!nodes, Answers
  <1>5. CASE ~Processes!Refuse(c)
    <2> DEFINE new == [call[c] EXCEPT !.pc = "verify", !.todo = @ \ {h.target}]
    <2>1. call' = [call EXCEPT ![c] = new]
      BY <1>1, <1>2, <1>5 DEF ProcessTyped, StopCall
    <2>2. /\ new \in StopCall /\ new.targets = call[c].targets /\ new.todo = call[c].todo \ {h.target} /\ new.pc = "verify"
          /\ new.signals = call[c].signals /\ new.handles = call[c].handles /\ new.aim = call[c].aim
      BY <1>1 DEF StopCall
    <2> HIDE DEF new
    <2>3. Settled(h)
      <3>1. CASE ~Processes!Row(h.target.pid)
        BY <3>1, <1>3 DEF Settled, Dead, Opened, Processes!Row
      <3>2. CASE Processes!Row(h.target.pid)
        <4>1. proc[h.target.pid].life = h.target.life
          BY <1>2, <1>3, <1>5, <3>2, MatchesIs
        <4>2. h.at.life <= h.target.life /\ h.at.pid = h.target.pid /\ h.at.life \in Nat /\ h.target.life \in Nat
          BY <1>3, <4>1, ProcessAssumption DEF Opened, Born, Processes!Ids
        <4>3. CASE h.at.life = h.target.life
          BY <4>2, <4>3, <1>3 DEF Settled, Processes!Ids
        <4>4. CASE h.at.life # h.target.life
          BY <4>1, <4>2, <4>4 DEF Settled, Dead
        <4> QED BY <4>3, <4>4
      <3> QED BY <3>1, <3>2
    <2>4. Handled(new)
      <3>1. \A g \in new.handles : Settled(g) /\ g.target \notin new.todo
        BY <1>1, <1>3, <2>2, <2>3 DEF Handled
      <3> QED BY <1>1, <2>2, <3>1 DEF Handled, Opened
    <2> QED BY <1>1, <1>2, <1>5, <2>1, <2>2, <2>4, MoveStep DEF Answers
  <1> QED BY <1>4, <1>5

\* All targets are verified: there is a handle for each that is left.
LEMMA VerifiedStep == ASSUME ProcessInv, NEW c \in StopCalls, Processes!Verified(c) PROVE ProcessInv'
  <1>1. /\ ProcessTyped /\ Handled(call[c]) /\ Answers(c) /\ call[c] \in StopCall /\ call[c].pc = "verify"
        /\ UNCHANGED <<proc, seen, asked, hit, node, reviewed, ran, interrupted>>
    BY CallIs DEF Processes!Verified, Processes!host, Processes!nodes
  <1> DEFINE left == {h.target : h \in call[c].handles}
             new == [call[c] EXCEPT !.pc = "signal", !.todo = left]
  <1>2. call' = [call EXCEPT ![c] = new]
    BY <1>1 DEF Processes!Verified, ProcessTyped, StopCall
  <1>3. left \subseteq call[c].targets /\ left \subseteq Processes!Ids
    BY <1>1, HandlesAre DEF Handled, Opened
  <1> HIDE DEF left
  <1>4. /\ new \in StopCall /\ new.targets = call[c].targets /\ new.todo = left /\ new.pc = "signal"
        /\ new.signals = call[c].signals /\ new.handles = call[c].handles /\ new.aim = call[c].aim
    BY <1>1, <1>3 DEF StopCall
  <1> HIDE DEF new
  <1>5. Handled(new)
    BY <1>1, <1>4 DEF Handled, Opened
  <1> QED BY <1>1, <1>2, <1>3, <1>4, <1>5, MoveStep DEF Answers

LEMMA AimStep == ASSUME ProcessInv, NEW c \in StopCalls, Processes!Aim(c) PROVE ProcessInv'
  <1>1. /\ ProcessTyped /\ Handled(call[c]) /\ Answers(c) /\ call[c] \in StopCall /\ call[c].pc = "signal"
        /\ UNCHANGED <<proc, seen, asked, hit, node, reviewed, ran, interrupted>>
    BY CallIs DEF Processes!Aim, Processes!host, Processes!nodes
  <1>2. PICK h \in Processes!Pending(c) :
          call' = [call EXCEPT ![c].todo = @ \ {h.target},
                               ![c].pc = IF Processes!Alive(h.target) THEN "aimed" ELSE "signal",
                               ![c].aim = IF Processes!Alive(h.target) THEN {h} ELSE {}]
    BY DEF Processes!Aim
  <1> DEFINE to == IF Processes!Alive(h.target) THEN "aimed" ELSE "signal"
             aim == IF Processes!Alive(h.target) THEN {h} ELSE {}
             new == [call[c] EXCEPT !.todo = @ \ {h.target}, !.pc = to, !.aim = aim]
  <1>3. h \in call[c].handles /\ h \in Handles
    BY <1>1, <1>2, HandlesAre DEF Processes!Pending
  <1>4. to \in {"aimed", "signal"} /\ aim \subseteq {h} /\ (aim # {} => to = "aimed")
    OBVIOUS
  <1>5. call' = [call EXCEPT ![c] = new]
    BY <1>1, <1>2 DEF ProcessTyped, StopCall
  <1> HIDE DEF to, aim
  <1>6. /\ new \in StopCall /\ new.targets = call[c].targets /\ new.todo = call[c].todo \ {h.target} /\ new.pc = to
        /\ new.signals = call[c].signals /\ new.handles = call[c].handles /\ new.aim = aim
    BY <1>1, <1>3, <1>4 DEF StopCall
  <1> HIDE DEF new
  <1>7. Handled(new)
    BY <1>1, <1>3, <1>4, <1>6 DEF Handled, Opened
  <1> QED BY <1>1, <1>4, <1>5, <1>6, <1>7, MoveStep DEF Answers

LEMMA SignalledStep == ASSUME ProcessInv, NEW c \in StopCalls, Processes!Signalled(c) PROVE ProcessInv'
  <1>1. /\ ProcessTyped /\ Handled(call[c]) /\ Answers(c) /\ call[c] \in StopCall /\ call[c].pc = "signal"
        /\ UNCHANGED <<proc, seen, asked, hit, node, reviewed, ran, interrupted>>
    BY CallIs DEF Processes!Signalled, Processes!host, Processes!nodes
  <1> DEFINE rest == Tail(call[c].signals)
             new == [call[c] EXCEPT !.pc = "waiting", !.signals = rest]
  <1>2. call' = [call EXCEPT ![c] = new]
    BY <1>1 DEF Processes!Signalled, ProcessTyped, StopCall
  <1>3. rest \in Seq({"INT", "KILL"})
    <2>1. call[c].signals \in Seq({"INT", "KILL"}) /\ call[c].signals # <<>>
      BY <1>1 DEF StopCall, Answers
    <2> QED BY <2>1
  <1> HIDE DEF rest
  <1>4. /\ new \in StopCall /\ new.targets = call[c].targets /\ new.todo = call[c].todo /\ new.pc = "waiting"
        /\ new.handles = call[c].handles /\ new.aim = call[c].aim
    BY <1>1, <1>3 DEF StopCall
  <1> HIDE DEF new
  <1>5. Handled(new)
    BY <1>1, <1>4 DEF Handled, Opened
  <1> QED BY <1>1, <1>2, <1>4, <1>5, MoveStep DEF Answers

LEMMA WaitedStep == ASSUME ProcessInv, NEW c \in StopCalls, Processes!Waited(c) PROVE ProcessInv'
  <1>1. /\ ProcessTyped /\ Handled(call[c]) /\ Answers(c) /\ call[c] \in StopCall /\ call[c].pc = "waiting"
        /\ UNCHANGED <<proc, seen, hit, node, reviewed, ran, interrupted>>
    BY CallIs DEF Processes!Waited, Processes!host, Processes!nodes
  <1>2. CASE Processes!Remaining(c) # {} /\ call[c].signals # <<>>
    <2> DEFINE left == {h.target : h \in call[c].handles}
               new == [call[c] EXCEPT !.pc = "signal", !.todo = left]
    <2>1. call' = [call EXCEPT ![c] = new] /\ UNCHANGED asked
      BY <1>1, <1>2 DEF Processes!Waited, ProcessTyped, StopCall
    <2>2. left \subseteq call[c].targets /\ left \subseteq Processes!Ids
      BY <1>1, HandlesAre DEF Handled, Opened
    <2> HIDE DEF left
    <2>3. /\ new \in StopCall /\ new.targets = call[c].targets /\ new.todo = left /\ new.pc = "signal"
          /\ new.signals = call[c].signals /\ new.handles = call[c].handles /\ new.aim = call[c].aim
      BY <1>1, <2>2 DEF StopCall
    <2> HIDE DEF new
    <2>4. Handled(new)
      BY <1>1, <2>3 DEF Handled, Opened
    <2> QED BY <1>1, <1>2, <2>1, <2>2, <2>3, <2>4, MoveStep
  <1>3. CASE ~(Processes!Remaining(c) # {} /\ call[c].signals # <<>>)
    <2> DEFINE how == IF Processes!Remaining(c) = {} THEN "stopped" ELSE "remaining"
    <2>1. call' = Processes!Over(c) /\ Processes!Answered(c, how)
      BY <1>3 DEF Processes!Waited
    <2>2. how = "stopped" => \A t \in call[c].targets : ~Processes!Alive(t)
      BY DEF Processes!Remaining
    <2>3. how \in {"waiting", "refused", "failed", "unknown", "stopped", "remaining"} /\ how # "refused"
      OBVIOUS
    <2> HIDE DEF how
    <2> QED BY <1>1, <2>1, <2>2, <2>3, OverStep
  <1> QED BY <1>2, <1>3

(* A signal reaches what the handle stands for, which is the target if anything. *)
LEMMA SignalStep == ASSUME ProcessInv, NEW c \in StopCalls, Processes!Signal(c) PROVE ProcessInv'
  <1>1. /\ ProcessTyped /\ HostTyped /\ Handled(call[c]) /\ Answers(c) /\ call[c] \in StopCall /\ call[c].pc = "aimed"
        /\ UNCHANGED <<seen, asked, node, reviewed, ran, interrupted>>
    BY CallIs DEF Processes!Signal, Processes!nodes
  <1>2. PICK h \in call[c].aim :
          /\ hit' = [hit EXCEPT ![c] = @ \cup Processes!Reached(h)]
          /\ proc' = [i \in Pids |-> IF Head(call[c].signals) = "KILL" /\ i \in {s.pid : s \in Processes!Reached(h)}
                                     THEN [proc[i] EXCEPT !.st = "zombie"] ELSE proc[i]]
    BY DEF Processes!Signal
  <1>3. h \in call[c].handles /\ Opened(call[c], h) /\ Settled(h) /\ h.at \in Processes!Ids /\ h.target \in Processes!Ids
    BY <1>1, <1>2, HandlesAre DEF Handled
  <1>4. ASSUME NEW i \in Processes!Reached(h) PROVE i = h.target /\ proc[i.pid].st # "free"
    <2>1. i = h.at /\ proc[i.pid].st # "free" /\ Processes!Matches(i)
      BY <1>4 DEF Processes!Reached, Processes!Row
    <2>2. proc[i.pid].life = i.life
      BY <2>1, <1>3, MatchesIs
    <2>3. ~Dead(h.at)
      BY <2>1, <2>2, <1>3, ProcessAssumption DEF Dead, Processes!Ids
    <2> QED BY <2>1, <2>3, <1>3 DEF Settled
  <1>5. Processes!Reached(h) \subseteq call[c].targets /\ Processes!Reached(h) \subseteq Processes!Ids
        /\ \A i \in Processes!Reached(h) : i.pid \notin Protected
    BY <1>3, <1>4 DEF Opened
  <1>6. \A i \in Pids : proc'[i] = proc[i] \/ (proc[i].st # "free" /\ proc'[i] = [proc[i] EXCEPT !.st = "zombie"])
    <2> SUFFICES ASSUME NEW i \in Pids, i \in {s.pid : s \in Processes!Reached(h)} PROVE proc[i].st # "free"
      BY <1>2
    <2>1. PICK s \in Processes!Reached(h) : i = s.pid
      OBVIOUS
    <2> QED BY <2>1, <1>4
  <1>7. HostTyped'
    <2>1. ASSUME NEW i \in Pids
          PROVE  proc'[i] \in [life : 0..MaxLives, st : {"free", "run", "zombie"}] /\ (proc'[i].st # "free" => proc'[i].life # 0)
      BY <1>1, <1>6 DEF HostTyped
    <2> QED BY <1>2, <2>1 DEF HostTyped
  <1>8. Evolves /\ Spared
    <2>1. ASSUME NEW i \in Pids
          PROVE  /\ proc'[i].life = proc[i].life /\ proc[i].life \in Nat
                 /\ (proc[i].st # "run" => proc'[i].st # "run")
                 /\ (proc[i].st = "free" <=> proc'[i].st = "free")
      <3>1. proc[i] \in [life : 0..MaxLives, st : {"free", "run", "zombie"}]
        BY <1>1 DEF HostTyped
      <3>2. proc[i].life \in Nat
        BY <3>1, ProcessAssumption
      <3> QED BY <1>6, <3>1, <3>2
    <2>2. NodeKept
      BY DEF ProcessInv
    <2> QED BY <2>1, <2>2 DEF Evolves, Spared, NodeKept
  <1> DEFINE new == [call[c] EXCEPT !.pc = "signal", !.aim = {}]
             ids == hit[c] \cup Processes!Reached(h)
  <1>9. call' = [call EXCEPT ![c] = new]
    BY <1>1 DEF Processes!Signal, ProcessTyped, StopCall
  <1>10. /\ new \in StopCall /\ new.targets = call[c].targets /\ new.todo = call[c].todo /\ new.pc = "signal"
         /\ new.signals = call[c].signals /\ new.handles = call[c].handles /\ new.aim = {}
    BY <1>1 DEF StopCall
  <1>11. ids \in SUBSET Processes!Ids /\ hit' = [hit EXCEPT ![c] = ids]
    BY <1>1, <1>2, <1>5, CallIs DEF ProcessTyped
  <1> HIDE DEF new, ids
  <1>12. call'[c] = new /\ hit'[c] = ids
    BY <1>1, <1>9, <1>11 DEF ProcessTyped
  <1>13. ASSUME NEW g \in call[c].handles PROVE Opened(call[c], g)' /\ Settled(g)'
    <2>1. Opened(call[c], g) /\ Settled(g) /\ g.at \in Processes!Ids
      BY <1>1, HandlesAre DEF Handled
    <2>2. Born(g.at)' /\ (Dead(g.at) => Dead(g.at)')
      BY <1>1, <1>7, <1>8, <2>1, IdsEvolve DEF Opened
    <2> QED BY <1>10, <1>12, <2>1, <2>2 DEF Opened, Settled
  <1>14. Handled(call[c])'
    BY <1>10, <1>12, <1>13 DEF Handled
  <1>15. \A t \in call[c].targets : Born(t)'
    BY <1>1, <1>7, <1>8, IdsEvolve DEF Answers, StopCall
  <1>16. ids \subseteq call[c].targets /\ \A i \in ids : i.pid \notin Protected
    BY <1>1, <1>5 DEF Answers, ids
  <1>17. Answers(c)'
    BY <1>1, <1>10, <1>12, <1>15, <1>16 DEF Answers
  <1> QED BY <1>1, <1>7, <1>8, <1>9, <1>10, <1>11, <1>14, <1>17, CallStepIs

LEMMA StepProcessInv == ProcessInv /\ [Processes!Next]_(Processes!vars) => ProcessInv'
  <1>1. ASSUME ProcessInv, UNCHANGED Processes!vars PROVE ProcessInv'
    <2>1. UNCHANGED <<proc, seen, call, asked, hit, node, file, reviewed, ran, interrupted>>
      BY <1>1 DEF Processes!vars
    <2>2. HostTyped' /\ Evolves /\ Spared
      BY <1>1, <2>1, HostRests
    <2>3. NodeKept'
      BY <1>1, <2>1, <2>2, NodeUntouched
    <2> QED BY <1>1, <2>1, <2>2, <2>3, SeenUntouched, CallsUntouched DEF ProcessInv, ProcessTyped
  <1>2. ASSUME ProcessInv, Processes!Next PROVE ProcessInv'
    <2>1. CASE \E c \in StopCalls : Processes!Stop(c)
      BY <1>2, <2>1, RequestStep, VerifyStep, OpenHandleStep, ConfirmStep, VerifiedStep, AimStep, SignalStep,
         SignalledStep, WaitedStep, EndsStep DEF Processes!Stop
    <2>2. CASE \E i \in Pids : Processes!Start(i) \/ Processes!Exit(i) \/ Processes!Reap(i)
      BY <1>2, <2>2, HostStep
    <2>3. CASE Processes!Inspect
      BY <1>2, <2>3, HostStep
    <2> QED BY <1>2, <2>1, <2>2, <2>3, NodeWaitsStep, NodeRunsStep DEF Processes!Next
  <1> QED BY <1>1, <1>2

(* Signals reach what was inspected and nothing else however pids are used again,
   answers are true, and a node runs what was reviewed (ProcessStop, ProcessNode). *)
THEOREM ProcessesAreAlwaysSound == Processes!Spec => []ProcessesAreSound
  <1>1. ProcessInv => ProcessesAreSound
    <2> SUFFICES ASSUME ProcessInv PROVE ProcessesAreSound
      OBVIOUS
    <2>1. Processes!TypeOK
      BY DEF ProcessInv, ProcessTyped, HostTyped, NodeStates, StopCall, Handles, Answers, Processes!TypeOK
    <2>2. Processes!SignalsHitTheirTarget /\ Processes!AnswersAreTrue /\ Processes!RunsWhatWasReviewed
      BY DEF ProcessInv, Answers, NodeKept, Processes!SignalsHitTheirTarget, Processes!AnswersAreTrue, Processes!RunsWhatWasReviewed
    <2> QED BY <2>1, <2>2 DEF ProcessesAreSound
  <1> QED BY <1>1, InitProcessInv, StepProcessInv, PTL DEF Processes!Spec

-----------------------------------------------------------------------------
(***************************************************************************)
(* The installed release.                                                  *)
(***************************************************************************)

Operation ==
  [kind : {"none", "install", "rollback", "uninstall"},
   step : {"none", "guard", "build", "control", "commands", "commit", "committed", "unlink", "remove", "last", "undo", "clean"},
   env : Envs \cup {0}, version : Nat, state : BOOLEAN, guard : BOOLEAN, replace : BOOLEAN,
   todo : SUBSET Names, made : SUBSET Names]

ReleaseTyped ==
  /\ record \in [env : Envs \cup {0}, version : Nat, prev : Envs \cup {0}]
  /\ env \in [Envs -> {"unused", "partial", "ready", "removed"}] /\ version \in [Envs -> Nat]
  /\ cmd \in [Names -> {"absent", "foreign", "ours"}] /\ backup \subseteq Foreign
  /\ op \in Operation /\ dispatcher \in BOOLEAN
  /\ sess \in [Sessions -> [at : {"off", "started", "leased", "running"}, env : Envs \cup {0}]]

\* A foreign command that maintenance has taken away is in a backup until it is undone.
CommandsKept ==
  /\ Release!ForeignCommandsAreKept
  /\ \A n \in Names : cmd[n] = "foreign" => n \in Foreign
  /\ op.step # "clean" => op.made \cap Foreign \subseteq backup
  /\ op.kind = "uninstall" => \A n \in op.todo : cmd[n] = "ours"

(* The steps of a maintenance: the candidate of an install is not the current
   release until the commit, and what is committed is ready.                 *)
OperationKept ==
  /\ op.kind = "none" \/ op.step = "none" => op = Release!NoOp
  /\ record = Release!NoRelease \/ record.env # 0
  /\ record.env # 0 => env[record.env] \in {"ready", "removed"}
  /\ op.step \in {"build", "control", "commands", "undo", "clean"} => op.kind = "install"
  /\ op.step = "guard" => op.env = 0 /\ op.made = {}
  /\ op.step \in {"unlink", "remove", "last"} => op.kind = "uninstall"
  /\ op.step = "commit" => op.kind \in {"install", "rollback"}
  /\ op.step \in {"build", "control", "commit", "clean"} => op.env # 0
  /\ op.step = "build" => env[op.env] \in {"unused", "partial"}
  /\ op.step \in {"control", "commands", "commit"} /\ op.env # 0 => env[op.env] = "ready"
  /\ op.kind = "install" /\ op.step \in {"build", "control", "commands", "commit"} => op.env = 0 \/ op.env # record.env
  /\ op.step \in {"undo", "clean"} /\ ~Interrupts => op.env = 0 \/ op.env # record.env

ReleaseInv == ReleaseTyped /\ CommandsKept /\ OperationKept /\ Release!MaintenanceIsAlone

LEMMA InitReleaseInv == Release!Init => ReleaseInv
  <1> SUFFICES ASSUME Release!Init PROVE ReleaseInv
    OBVIOUS
  <1> USE ReleaseAssumption DEF Release!Init, Release!NoRelease, Release!NoOp
  <1>1. ReleaseTyped
    <2>1. op \in Operation
      BY DEF Operation
    <2>2. /\ record \in [env : Envs \cup {0}, version : Nat, prev : Envs \cup {0}]
          /\ env \in [Envs -> {"unused", "partial", "ready", "removed"}] /\ version \in [Envs -> Nat]
      OBVIOUS
    <2>3. /\ cmd \in [Names -> {"absent", "foreign", "ours"}] /\ backup \subseteq Foreign /\ dispatcher \in BOOLEAN
          /\ sess \in [Sessions -> [at : {"off", "started", "leased", "running"}, env : Envs \cup {0}]]
      OBVIOUS
    <2> QED BY <2>1, <2>2, <2>3 DEF ReleaseTyped
  <1>2. CommandsKept
    BY DEF CommandsKept, Release!ForeignCommandsAreKept
  <1>3. OperationKept /\ Release!MaintenanceIsAlone
    BY DEF OperationKept, Release!MaintenanceIsAlone
  <1> QED BY <1>1, <1>2, <1>3 DEF ReleaseInv

\* A session is started and takes its lease only while no maintenance goes on.
LEMMA SessionStep == ASSUME ReleaseInv, NEW s \in Sessions, Release!Session(s) PROVE ReleaseInv'
  <1>1. /\ ReleaseTyped /\ CommandsKept /\ OperationKept /\ Release!MaintenanceIsAlone
        /\ UNCHANGED <<record, env, version, cmd, backup, dispatcher, op>>
    BY DEF ReleaseInv, Release!Session, Release!Dispatch, Release!TakeLease, Release!TakeSlot, Release!Quit, Release!Move, Release!site
  <1>2. PICK at \in {"off", "started", "leased", "running"}, e \in Envs \cup {0} :
          /\ sess' = [sess EXCEPT ![s] = [at |-> at, env |-> e]]
          /\ at \in {"leased", "running"} /\ s \in Managed /\ op.kind # "none" => sess[s].at \in {"leased", "running"}
          /\ at = "running" => ~op.guard
    <2> USE <1>1 DEF ReleaseTyped
    <2>1. sess[s].env \in Envs \cup {0} /\ record.env \in Envs \cup {0}
      OBVIOUS
    <2>2. CASE Release!Dispatch(s)
      BY <2>1, <2>2 DEF Release!Dispatch, Release!Move
    <2>3. CASE Release!TakeLease(s)
      BY <2>1, <2>3 DEF Release!TakeLease, Release!Move
    <2>4. CASE Release!TakeSlot(s)
      BY <2>1, <2>4 DEF Release!TakeSlot, Release!Move
    <2>5. CASE Release!Quit(s)
      BY <2>5 DEF Release!Quit, Release!Move
    <2> QED BY <2>2, <2>3, <2>4, <2>5 DEF Release!Session
  <1>3. ReleaseTyped'
    BY <1>1, <1>2 DEF ReleaseTyped
  <1>4. CommandsKept' /\ OperationKept'
    BY <1>1 DEF CommandsKept, OperationKept, Release!ForeignCommandsAreKept
  <1>5. Release!MaintenanceIsAlone'
    <2>1. ASSUME NEW k \in Sessions, k # s PROVE sess'[k] = sess[k]
      BY <1>1, <1>2, <2>1 DEF ReleaseTyped
    <2>2. sess'[s].at = at
      BY <1>1, <1>2 DEF ReleaseTyped
    <2>3. op.kind # "none" => Release!Leased' = {}
      BY <1>1, <1>2, <2>1, <2>2, ReleaseAssumption DEF Release!MaintenanceIsAlone, Release!Leased
    <2>4. op.guard => Release!Slots' = {}
      BY <1>1, <1>2, <2>1, <2>2 DEF Release!MaintenanceIsAlone, Release!Slots
    <2> QED BY <1>1, <2>3, <2>4 DEF Release!MaintenanceIsAlone
  <1> QED BY <1>3, <1>4, <1>5 DEF ReleaseInv

\* The end of a maintenance, whatever it did before
LEMMA DoneStep ==
  ASSUME ReleaseInv, op' = Release!NoOp, UNCHANGED <<record, version, cmd, backup, sess>>, dispatcher' \in BOOLEAN,
         env' \in [Envs -> {"unused", "partial", "ready", "removed"}],
         record.env # 0 => env'[record.env] \in {"ready", "removed"}
  PROVE  ReleaseInv'
  <1>1. op' \in Operation
    BY DEF Operation, Release!NoOp
  <1>2. ReleaseTyped'
    BY <1>1 DEF ReleaseInv, ReleaseTyped
  <1>3. CommandsKept'
    BY DEF ReleaseInv, CommandsKept, Release!ForeignCommandsAreKept, Release!NoOp
  <1>4. OperationKept'
    BY DEF ReleaseInv, OperationKept, Release!NoOp, Release!NoRelease
  <1>5. Release!MaintenanceIsAlone'
    BY DEF Release!MaintenanceIsAlone, Release!NoOp
  <1> QED BY <1>2, <1>3, <1>4, <1>5 DEF ReleaseInv

LEMMA BeginStep == ASSUME ReleaseInv, Release!Begin PROVE ReleaseInv'
  <1>1. /\ ReleaseTyped /\ CommandsKept /\ OperationKept /\ Release!MaintenanceIsAlone
        /\ op.kind = "none" /\ Release!Leased = {}
        /\ UNCHANGED <<record, env, version, cmd, backup, dispatcher, sess>>
    BY DEF ReleaseInv, Release!Begin, Release!Alone, Release!site
  <1>2. PICK kind \in {"install", "rollback", "uninstall"}, v \in Versions, replace \in BOOLEAN, state \in BOOLEAN :
          op' = [Release!NoOp EXCEPT !.state = state, !.kind = kind, !.step = "guard", !.version = v, !.replace = replace]
    BY DEF Release!Begin
  <1>3. Release!NoOp \in Operation /\ Release!NoOp.guard = FALSE /\ Release!NoOp.todo = {} /\ Release!NoOp.made = {} /\ Release!NoOp.env = 0
    BY DEF Operation, Release!NoOp
  <1>4. v \in Nat
    BY ReleaseAssumption
  <1>5. op' \in Operation /\ op'.guard = FALSE /\ op'.todo = {} /\ op'.made = {} /\ op'.env = 0 /\ op'.step = "guard" /\ op'.kind = kind
    BY <1>2, <1>3, <1>4 DEF Operation
  <1>6. ReleaseTyped'
    BY <1>1, <1>5 DEF ReleaseTyped
  <1>7. CommandsKept'
    BY <1>1, <1>5 DEF CommandsKept, Release!ForeignCommandsAreKept
  <1>8. OperationKept'
    BY <1>1, <1>2, <1>5 DEF OperationKept
  <1>9. Release!MaintenanceIsAlone'
    BY <1>1, <1>5 DEF Release!MaintenanceIsAlone, Release!Leased, Release!Slots
  <1> QED BY <1>6, <1>7, <1>8, <1>9 DEF ReleaseInv

\* A step of the maintenance leaves the sessions, and its lock, alone.
LEMMA AloneKept ==
  ASSUME ReleaseInv, UNCHANGED sess, op.kind # "none", op'.guard => op.guard PROVE Release!MaintenanceIsAlone'
  BY DEF ReleaseInv, Release!MaintenanceIsAlone, Release!Leased, Release!Slots

LEMMA GuardStep == ASSUME ReleaseInv, Release!Guard PROVE ReleaseInv'
  <1>1. /\ ReleaseTyped /\ CommandsKept /\ OperationKept /\ Release!MaintenanceIsAlone
        /\ op.step = "guard" /\ Release!GuardHolds /\ op.made = {} /\ op.env = 0
        /\ UNCHANGED <<record, env, version, cmd, backup, dispatcher, sess>>
    BY DEF ReleaseInv, Release!Guard, Release!site, OperationKept
  <1>2. op.kind # "none"
    BY <1>1 DEF OperationKept, Release!NoOp
  <1>3. Release!MaintenanceIsAlone'
    <2>1. op'.guard = op.state
      BY <1>1 DEF Release!Guard, Release!RollsBack, ReleaseTyped, Operation
    <2> QED BY <1>1, <1>2, <2>1 DEF Release!MaintenanceIsAlone, Release!GuardHolds, Release!Leased, Release!Slots
  <1>4. CASE op.kind = "install" /\ op' = [op EXCEPT !.guard = op.state, !.step = "commands", !.todo = Names]
    <2>1. op' \in Operation /\ op'.step = "commands" /\ op'.env = 0 /\ op'.made = {} /\ op'.kind = "install"
      BY <1>1, <1>4 DEF ReleaseTyped, Operation
    <2>2. ReleaseTyped' /\ CommandsKept' /\ OperationKept'
      BY <1>1, <2>1 DEF ReleaseTyped, CommandsKept, OperationKept, Release!ForeignCommandsAreKept
    <2> QED BY <1>3, <2>2 DEF ReleaseInv
  <1>5. ASSUME op.kind = "install", NEW e \in Envs, env[e] = "unused",
               op' = [op EXCEPT !.guard = op.state, !.step = "build", !.env = e, !.todo = Names]
        PROVE  ReleaseInv'
    <2>1. op' \in Operation /\ op'.step = "build" /\ op'.env = e /\ op'.made = {} /\ op'.kind = "install"
      BY <1>1, <1>5 DEF ReleaseTyped, Operation
    <2>2. e # 0 /\ e # record.env
      BY <1>1, <1>5, ReleaseAssumption DEF OperationKept
    <2>3. ReleaseTyped' /\ CommandsKept' /\ OperationKept'
      BY <1>1, <1>5, <2>1, <2>2 DEF ReleaseTyped, CommandsKept, OperationKept, Release!ForeignCommandsAreKept
    <2> QED BY <1>3, <2>3 DEF ReleaseInv
  <1>6. CASE /\ op.kind = "rollback" /\ record.prev # 0 /\ env[record.prev] = "ready"
             /\ op' = [op EXCEPT !.guard = op.state, !.step = "commit", !.env = record.prev]
    <2>1. op' \in Operation /\ op'.step = "commit" /\ op'.env = record.prev /\ op'.made = {} /\ op'.kind = "rollback"
      BY <1>1, <1>6 DEF ReleaseTyped, Operation
    <2>2. ReleaseTyped' /\ CommandsKept' /\ OperationKept'
      BY <1>1, <1>6, <2>1 DEF ReleaseTyped, CommandsKept, OperationKept, Release!ForeignCommandsAreKept
    <2> QED BY <1>3, <2>2 DEF ReleaseInv
  <1>7. CASE op.kind = "uninstall" /\ op' = [op EXCEPT !.guard = op.state, !.step = "unlink", !.todo = {n \in Names : cmd[n] = "ours"}]
    <2>1. op' \in Operation /\ op'.step = "unlink" /\ op'.env = 0 /\ op'.made = {} /\ op'.kind = "uninstall"
          /\ op'.todo = {n \in Names : cmd[n] = "ours"}
      BY <1>1, <1>7 DEF ReleaseTyped, Operation
    <2>2. ReleaseTyped' /\ CommandsKept' /\ OperationKept'
      BY <1>1, <2>1 DEF ReleaseTyped, CommandsKept, OperationKept, Release!ForeignCommandsAreKept
    <2> QED BY <1>3, <2>2 DEF ReleaseInv
  <1> QED BY <1>4, <1>5, <1>6, <1>7 DEF Release!Guard, Release!RollsBack

\* The steps that end a maintenance without touching a command
LEMMA EndStep ==
  ASSUME ReleaseInv, Release!Committed \/ Release!RemoveLast \/ Release!Clean \/ Release!Kill PROVE ReleaseInv'
  <1>1. ReleaseTyped /\ OperationKept
    BY DEF ReleaseInv
  <1>2. op' = Release!NoOp /\ UNCHANGED <<record, version, cmd, backup, sess>>
    BY DEF Release!Committed, Release!RemoveLast, Release!Clean, Release!Kill, Release!Done, Release!site
  <1>3. dispatcher' \in BOOLEAN
    BY <1>1 DEF Release!Committed, Release!RemoveLast, Release!Clean, Release!Kill, Release!site, ReleaseTyped
  <1>4. env' = env \/ env' = [env EXCEPT ![op.env] = "removed"]
    BY DEF Release!Committed, Release!RemoveLast, Release!Clean, Release!Kill, Release!site
  <1>5. env' \in [Envs -> {"unused", "partial", "ready", "removed"}]
    BY <1>1, <1>4 DEF ReleaseTyped
  <1>6. record.env # 0 => env'[record.env] \in {"ready", "removed"}
    BY <1>1, <1>4 DEF ReleaseTyped, OperationKept
  <1> QED BY <1>2, <1>3, <1>5, <1>6, DoneStep

LEMMA BuildStep == ASSUME ReleaseInv, Release!Build PROVE ReleaseInv'
  <1>1. /\ ReleaseTyped /\ CommandsKept /\ OperationKept
        /\ op.kind = "install" /\ op.step = "build" /\ op.env \in Envs /\ op.env # record.env
        /\ env[op.env] \in {"unused", "partial"}
        /\ UNCHANGED <<record, cmd, backup, dispatcher, sess>>
    BY ReleaseAssumption DEF ReleaseInv, Release!Build, Release!At, OperationKept, ReleaseTyped, Operation
  <1> DEFINE next == IF env[op.env] = "unused" THEN "build" ELSE "control"
             built == IF env[op.env] = "unused" THEN "partial" ELSE "ready"
  <1>2. env' = [env EXCEPT ![op.env] = built] /\ version' = [version EXCEPT ![op.env] = op.version] /\ op' = [op EXCEPT !.step = next]
    BY DEF Release!Build, Release!Step
  <1>3. (next = "build" /\ built = "partial") \/ (next = "control" /\ built = "ready")
    OBVIOUS
  <1> HIDE DEF next, built
  <1>4. /\ op' \in Operation /\ op'.step = next /\ op'.env = op.env /\ op'.made = op.made /\ op'.kind = op.kind
        /\ op'.guard = op.guard /\ op'.todo = op.todo
    BY <1>1, <1>2, <1>3 DEF ReleaseTyped, Operation
  <1>5. /\ env' \in [Envs -> {"unused", "partial", "ready", "removed"}] /\ version' \in [Envs -> Nat]
        /\ env'[op.env] = built /\ (record.env # 0 => env'[record.env] = env[record.env])
    BY <1>1, <1>2, <1>3 DEF ReleaseTyped, Operation
  <1>6. ReleaseTyped'
    BY <1>1, <1>4, <1>5 DEF ReleaseTyped
  <1>7. CommandsKept'
    BY <1>1, <1>3, <1>4 DEF CommandsKept, Release!ForeignCommandsAreKept
  <1>8. OperationKept'
    BY <1>1, <1>3, <1>4, <1>5, ReleaseAssumption DEF OperationKept
  <1> QED BY <1>1, <1>4, <1>6, <1>7, <1>8, AloneKept DEF ReleaseInv

LEMMA ControlStep == ASSUME ReleaseInv, Release!Control PROVE ReleaseInv'
  <1>1. /\ ReleaseTyped /\ CommandsKept /\ OperationKept /\ op.kind = "install" /\ op.step = "control"
        /\ op' = [op EXCEPT !.step = "commands"] /\ dispatcher' = TRUE
        /\ UNCHANGED <<record, env, version, cmd, backup, sess>>
    BY DEF ReleaseInv, Release!Control, Release!At, Release!Step
  <1>2. /\ op' \in Operation /\ op'.step = "commands" /\ op'.env = op.env /\ op'.made = op.made /\ op'.kind = op.kind
        /\ op'.guard = op.guard /\ op'.todo = op.todo
    BY <1>1 DEF ReleaseTyped, Operation
  <1>3. ReleaseTyped' /\ CommandsKept' /\ OperationKept'
    BY <1>1, <1>2 DEF ReleaseTyped, CommandsKept, OperationKept, Release!ForeignCommandsAreKept
  <1> QED BY <1>1, <1>2, <1>3, AloneKept DEF ReleaseInv

\* A command is renamed to a backup before ours takes its place.
LEMMA ReplaceStep == ASSUME ReleaseInv, NEW n \in Names, Release!ReplaceCommand(n) PROVE ReleaseInv'
  <1>1. /\ ReleaseTyped /\ CommandsKept /\ OperationKept /\ op.kind = "install" /\ op.step = "commands"
        /\ UNCHANGED <<record, env, version, dispatcher, sess>>
    BY DEF ReleaseInv, Release!ReplaceCommand, Release!At
  <1>2. /\ op' \in Operation /\ op'.step = "commands" /\ op'.env = op.env /\ op'.kind = op.kind /\ op'.guard = op.guard
        /\ op'.made = IF cmd[n] = "ours" THEN op.made ELSE op.made \cup {n}
    <2>1. op \in Operation
      BY <1>1 DEF ReleaseTyped
    <2>2. CASE cmd[n] = "ours" /\ op' = [op EXCEPT !.todo = @ \ {n}]
      BY <1>1, <2>1, <2>2 DEF Operation
    <2>3. CASE cmd[n] = "foreign" /\ op' = [op EXCEPT !.made = @ \cup {n}]
      BY <1>1, <2>1, <2>3 DEF Operation
    <2>4. CASE cmd[n] = "absent" /\ op' = [op EXCEPT !.made = @ \cup {n}, !.todo = @ \ {n}]
      BY <1>1, <2>1, <2>4 DEF Operation
    <2> QED BY <2>2, <2>3, <2>4 DEF Release!ReplaceCommand
  <1>3. /\ cmd' \in [Names -> {"absent", "foreign", "ours"}]
        /\ \A k \in Names : k # n => cmd'[k] = cmd[k]
        /\ cmd[n] = "ours" => cmd'[n] = "ours" /\ backup' = backup
        /\ cmd[n] = "foreign" => cmd'[n] = "absent" /\ backup' = backup \cup {n}
        /\ cmd[n] = "absent" => cmd'[n] = "ours" /\ backup' = backup
        /\ cmd[n] \in {"ours", "foreign", "absent"}
    BY <1>1 DEF Release!ReplaceCommand, ReleaseTyped
  <1>4. backup' \subseteq Foreign /\ backup \subseteq backup'
    BY <1>1, <1>3 DEF ReleaseTyped, CommandsKept
  <1>5. ReleaseTyped'
    BY <1>1, <1>2, <1>3, <1>4 DEF ReleaseTyped
  <1>6. CommandsKept'
    BY <1>1, <1>2, <1>3, <1>4, ReleaseAssumption DEF CommandsKept, Release!ForeignCommandsAreKept
  <1>7. OperationKept'
    BY <1>1, <1>2 DEF OperationKept
  <1> QED BY <1>1, <1>2, <1>5, <1>6, <1>7, AloneKept DEF ReleaseInv

LEMMA CommandedStep == ASSUME ReleaseInv, Release!Commanded PROVE ReleaseInv'
  <1>1. /\ ReleaseTyped /\ CommandsKept /\ OperationKept /\ op.kind = "install" /\ op.step = "commands"
        /\ UNCHANGED <<record, env, version, cmd, backup, dispatcher, sess>>
    BY DEF ReleaseInv, Release!Commanded, Release!At, Release!site
  <1>2. CASE op.env = 0
    <2>1. op' = Release!NoOp
      BY <1>2 DEF Release!Commanded, Release!Done
    <2> QED BY <1>1, <2>1, DoneStep DEF ReleaseTyped, OperationKept
  <1>3. CASE op.env # 0
    <2>1. op' = [op EXCEPT !.step = "commit"]
      BY <1>3 DEF Release!Commanded, Release!Step
    <2>2. /\ op' \in Operation /\ op'.step = "commit" /\ op'.env = op.env /\ op'.made = op.made /\ op'.kind = op.kind
          /\ op'.guard = op.guard /\ op'.todo = op.todo
      BY <1>1, <2>1 DEF ReleaseTyped, Operation
    <2>3. ReleaseTyped' /\ CommandsKept' /\ OperationKept'
      BY <1>1, <1>3, <2>2 DEF ReleaseTyped, CommandsKept, OperationKept, Release!ForeignCommandsAreKept
    <2> QED BY <1>1, <2>2, <2>3, AloneKept DEF ReleaseInv
  <1> QED BY <1>2, <1>3

LEMMA CommitStep == ASSUME ReleaseInv, Release!Commit PROVE ReleaseInv'
  <1>1. /\ ReleaseTyped /\ CommandsKept /\ OperationKept /\ op.step = "commit" /\ op.kind \in {"install", "rollback"}
        /\ op.env \in Envs /\ op.env # 0 /\ env[op.env] = "ready"
        /\ record' = [env |-> op.env, version |-> version[op.env], prev |-> record.env]
        /\ op' = [op EXCEPT !.step = "committed"]
        /\ UNCHANGED <<env, version, cmd, backup, dispatcher, sess>>
    BY DEF ReleaseInv, Release!Commit, Release!Step, OperationKept, ReleaseTyped, Operation
  <1>2. /\ op' \in Operation /\ op'.step = "committed" /\ op'.env = op.env /\ op'.made = op.made /\ op'.kind = op.kind
        /\ op'.guard = op.guard /\ op'.todo = op.todo
    BY <1>1 DEF ReleaseTyped, Operation
  <1>3. record' \in [env : Envs \cup {0}, version : Nat, prev : Envs \cup {0}] /\ record'.env = op.env
    BY <1>1 DEF ReleaseTyped
  <1>4. ReleaseTyped' /\ CommandsKept'
    BY <1>1, <1>2, <1>3 DEF ReleaseTyped, CommandsKept, Release!ForeignCommandsAreKept
  <1>5. OperationKept'
    BY <1>1, <1>2, <1>3 DEF OperationKept
  <1> QED BY <1>1, <1>2, <1>4, <1>5, AloneKept DEF ReleaseInv

LEMMA UninstallStep == ASSUME ReleaseInv, Release!Unlink \/ Release!Remove PROVE ReleaseInv'
  <1>1. /\ ReleaseTyped /\ CommandsKept /\ OperationKept /\ op.kind = "uninstall" /\ op.step \in {"unlink", "remove"}
        /\ UNCHANGED <<version, backup, dispatcher, sess>>
    BY DEF ReleaseInv, Release!Unlink, Release!Remove, Release!At
  <1>2. /\ op' \in Operation /\ op'.step \in {"unlink", "remove", "last"} /\ op'.env = op.env /\ op'.made = op.made /\ op'.kind = op.kind
        /\ op'.guard = op.guard /\ op'.todo \subseteq op.todo
    BY <1>1 DEF Release!Unlink, Release!Remove, Release!At, Release!Step, ReleaseTyped, Operation
  <1>3. /\ cmd' \in [Names -> {"absent", "foreign", "ours"}]
        /\ \A n \in Names : cmd'[n] = cmd[n] \/ (n \in op.todo /\ n \notin op'.todo /\ cmd'[n] = "absent")
    <2>1. CASE cmd' = cmd
      BY <1>1, <2>1 DEF ReleaseTyped
    <2>2. CASE cmd' # cmd
      <3>1. PICK n \in op.todo : cmd' = [cmd EXCEPT ![n] = "absent"] /\ op' = [op EXCEPT !.todo = @ \ {n}]
        BY <2>2 DEF Release!Unlink, Release!Remove
      <3>2. op'.todo = op.todo \ {n}
        BY <1>1, <3>1 DEF ReleaseTyped, Operation
      <3> QED BY <1>1, <3>1, <3>2 DEF ReleaseTyped
    <2> QED BY <2>1, <2>2
  <1>4. /\ env' \in [Envs -> {"unused", "partial", "ready", "removed"}]
        /\ \A e \in Envs : env'[e] \in {env[e], "removed"}
    BY <1>1 DEF Release!Unlink, Release!Remove, ReleaseTyped
  <1>5. record' = record \/ record' = Release!NoRelease
    BY DEF Release!Unlink, Release!Remove
  <1>6. ReleaseTyped'
    BY <1>1, <1>2, <1>3, <1>4, <1>5 DEF ReleaseTyped, Release!NoRelease
  <1>7. CommandsKept'
    BY <1>1, <1>2, <1>3, ReleaseAssumption DEF CommandsKept, Release!ForeignCommandsAreKept, ReleaseTyped, Operation
  <1>8. OperationKept'
    <2>1. record'.env # 0 => record' = record
      BY <1>5 DEF Release!NoRelease
    <2>2. record.env # 0 => env'[record.env] \in {"ready", "removed"}
      BY <1>1, <1>4 DEF OperationKept, ReleaseTyped
    <2> QED BY <1>1, <1>2, <1>5, <2>1, <2>2 DEF OperationKept, Release!NoRelease, Release!NoOp
  <1> QED BY <1>1, <1>2, <1>6, <1>7, <1>8, AloneKept DEF ReleaseInv

LEMMA RaiseStep == ASSUME ReleaseInv, Release!Raise PROVE ReleaseInv'
  <1>1. /\ ReleaseTyped /\ CommandsKept /\ OperationKept /\ op.kind # "none" /\ op.step \notin {"undo", "clean"}
        /\ UNCHANGED <<record, env, version, cmd, backup, dispatcher, sess>>
    BY DEF ReleaseInv, Release!Raise, Release!site
  <1>2. CASE op.kind = "install" /\ op.step # "guard"
    <2>1. op' = [op EXCEPT !.step = "undo"] /\ Release!Interruptible
      BY <1>2 DEF Release!Raise, Release!Step
    <2>2. /\ op' \in Operation /\ op'.step = "undo" /\ op'.env = op.env /\ op'.made = op.made /\ op'.kind = op.kind
          /\ op'.guard = op.guard /\ op'.todo = op.todo
      BY <1>1, <2>1 DEF ReleaseTyped, Operation
    <2>3. ~Interrupts => op.env = 0 \/ op.env # record.env
      <3> SUFFICES ASSUME ~Interrupts PROVE op.env = 0 \/ op.env # record.env
        OBVIOUS
      <3>1. op.step \in {"build", "control", "commands", "commit"}
        BY <1>1, <1>2, <2>1 DEF Release!Interruptible, OperationKept, ReleaseTyped, Operation, Release!NoOp
      <3> QED BY <1>1, <1>2, <3>1 DEF OperationKept
    <2>4. ReleaseTyped' /\ CommandsKept'
      BY <1>1, <2>2 DEF ReleaseTyped, CommandsKept, Release!ForeignCommandsAreKept
    <2>5. OperationKept'
      BY <1>1, <1>2, <2>2, <2>3 DEF OperationKept
    <2> QED BY <1>1, <2>2, <2>4, <2>5, AloneKept DEF ReleaseInv
  <1>3. CASE ~(op.kind = "install" /\ op.step # "guard")
    <2>1. op' = Release!NoOp
      BY <1>3 DEF Release!Raise, Release!Done
    <2> QED BY <1>1, <2>1, DoneStep DEF ReleaseTyped, OperationKept
  <1> QED BY <1>2, <1>3

\* What an install made is undone, and what it renamed comes back.
LEMMA UndoStep == ASSUME ReleaseInv, Release!Undo PROVE ReleaseInv'
  <1>1. /\ ReleaseTyped /\ CommandsKept /\ OperationKept /\ op.step = "undo" /\ op.kind = "install"
        /\ cmd' = [n \in Names |-> IF n \notin op.made THEN cmd[n] ELSE IF n \in backup THEN "foreign" ELSE "absent"]
        /\ backup' = backup \ op.made
        /\ UNCHANGED <<record, env, version, dispatcher, sess>>
    BY DEF ReleaseInv, Release!Undo, OperationKept
  <1>2. \/ op' = Release!NoOp
        \/ op.env # 0 /\ op' = [op EXCEPT !.step = "clean"]
    BY DEF Release!Undo, Release!Done, Release!Step
  <1>3. cmd' \in [Names -> {"absent", "foreign", "ours"}] /\ backup' \subseteq Foreign
    BY <1>1 DEF ReleaseTyped
  <1>4. Release!ForeignCommandsAreKept' /\ \A n \in Names : cmd'[n] = "foreign" => n \in Foreign
    BY <1>1, ReleaseAssumption DEF CommandsKept, Release!ForeignCommandsAreKept, ReleaseTyped
  <1>5. CASE op' = Release!NoOp
    <2>1. op' \in Operation
      BY <1>5 DEF Operation, Release!NoOp
    <2>2. ReleaseTyped'
      BY <1>1, <1>3, <2>1 DEF ReleaseTyped
    <2>3. CommandsKept' /\ OperationKept' /\ Release!MaintenanceIsAlone'
      BY <1>1, <1>4, <1>5 DEF CommandsKept, OperationKept, Release!MaintenanceIsAlone, Release!NoOp, Release!NoRelease
    <2> QED BY <2>2, <2>3 DEF ReleaseInv
  <1>6. CASE op.env # 0 /\ op' = [op EXCEPT !.step = "clean"]
    <2>1. /\ op' \in Operation /\ op'.step = "clean" /\ op'.env = op.env /\ op'.made = op.made /\ op'.kind = op.kind
          /\ op'.guard = op.guard /\ op'.todo = op.todo
      BY <1>1, <1>6 DEF ReleaseTyped, Operation
    <2>2. ReleaseTyped' /\ CommandsKept' /\ OperationKept'
      BY <1>1, <1>3, <1>4, <1>6, <2>1 DEF ReleaseTyped, CommandsKept, OperationKept
    <2> QED BY <1>1, <2>1, <2>2, AloneKept DEF ReleaseInv
  <1> QED BY <1>2, <1>5, <1>6

LEMMA StepReleaseInv == ReleaseInv /\ [Release!Next]_(Release!vars) => ReleaseInv'
  <1>1. ASSUME ReleaseInv, UNCHANGED Release!vars PROVE ReleaseInv'
    BY <1>1 DEF ReleaseInv, Release!vars, Release!site, ReleaseTyped, CommandsKept, OperationKept,
       Release!ForeignCommandsAreKept, Release!MaintenanceIsAlone, Release!Leased, Release!Slots
  <1>2. ASSUME ReleaseInv, Release!Maintain PROVE ReleaseInv'
    BY <1>2, BeginStep, GuardStep, BuildStep, ControlStep, ReplaceStep, CommandedStep, CommitStep, UninstallStep,
       RaiseStep, UndoStep, EndStep DEF Release!Maintain
  <1> QED BY <1>1, <1>2, SessionStep DEF Release!Next

\* The promise of one step of an update or a rollback to a release that works
Keeps ==
  Release!Installed /\ op.kind # "uninstall" =>
    /\ Release!Installed'
    /\ record' # record => record'.prev = record.env /\ env'[record.env] = "ready"

LEMMA WorkingStep == ASSUME Interrupts = FALSE, ReleaseInv, Release!Next PROVE Keeps
  <1> SUFFICES ASSUME Release!Installed, op.kind # "uninstall"
               PROVE  /\ Release!Installed'
                      /\ record' # record => record'.prev = record.env /\ env'[record.env] = "ready"
    BY DEF Keeps
  <1>1. /\ ReleaseTyped /\ OperationKept /\ dispatcher /\ record # Release!NoRelease /\ env[record.env] = "ready"
        /\ op.made = {} /\ \A n \in Names : cmd[n] = "ours"
    BY DEF ReleaseInv, Release!Installed, Release!Works
  <1>2. record.env \in Envs
    BY <1>1 DEF OperationKept, ReleaseTyped
  <1>3. CASE Release!Commit
    <2>1. /\ record' = [env |-> op.env, version |-> version[op.env], prev |-> record.env]
          /\ op' = [op EXCEPT !.step = "committed"] /\ UNCHANGED <<env, version, cmd, dispatcher>>
          /\ op.env # 0 /\ env[op.env] = "ready"
      BY <1>1, <1>3 DEF Release!Commit, Release!Step, OperationKept
    <2>2. op'.made = {}
      BY <1>1, <2>1 DEF ReleaseTyped, Operation
    <2>3. record' # Release!NoRelease /\ record'.env = op.env /\ record'.prev = record.env
      BY <2>1 DEF Release!NoRelease
    <2> QED BY <1>1, <2>1, <2>2, <2>3 DEF Release!Installed, Release!Works
  <1>4. CASE /\ UNCHANGED <<record, cmd>> /\ op'.made = {} /\ dispatcher' = TRUE
             /\ env'[record.env] = "ready"
    BY <1>1, <1>4 DEF Release!Installed, Release!Works
  <1>5. CASE \E s \in Sessions : Release!Session(s)
    <2>1. UNCHANGED <<record, env, cmd, dispatcher, op>>
      BY <1>5 DEF Release!Session, Release!Dispatch, Release!TakeLease, Release!TakeSlot, Release!Quit, Release!Move, Release!site
    <2> QED BY <1>1, <1>4, <2>1
  <1>6. CASE Release!Begin \/ Release!Guard \/ Release!Commanded \/ Release!Committed \/ Release!Raise \/ Release!Kill
    <2>1. UNCHANGED <<record, env, cmd, dispatcher>>
      BY <1>6 DEF Release!Begin, Release!Guard, Release!Commanded, Release!Committed, Release!Raise, Release!Kill, Release!site
    <2>2. op'.made = {}
      <3>1. CASE Release!Begin
        BY <3>1 DEF Release!Begin, Release!NoOp
      <3>2. CASE Release!Guard
        BY <1>1, <3>2 DEF Release!Guard, Release!RollsBack, ReleaseTyped, Operation
      <3>3. CASE Release!Commanded \/ Release!Committed \/ Release!Raise \/ Release!Kill
        <4>1. op' = Release!NoOp \/ (\E step \in {"commit", "undo"} : op' = [op EXCEPT !.step = step])
          BY <3>3 DEF Release!Commanded, Release!Committed, Release!Raise, Release!Kill, Release!Done, Release!Step
        <4> QED BY <1>1, <4>1 DEF ReleaseTyped, Operation, Release!NoOp
      <3> QED BY <1>6, <3>1, <3>2, <3>3
    <2> QED BY <1>1, <1>4, <2>1, <2>2
  <1>7. CASE Release!Build \/ Release!Clean
    <2>1. op.kind = "install" /\ op.env # record.env /\ op.step \in {"build", "clean"}
      <3>1. op.kind = "install" /\ op.env # 0 /\ op.step \in {"build", "clean"}
        BY <1>1, <1>7 DEF Release!Build, Release!Clean, Release!At, OperationKept
      <3> QED BY <1>1, <3>1 DEF OperationKept
    <2>2. UNCHANGED <<record, cmd, dispatcher>> /\ \E how \in {"partial", "ready", "removed"} : env' = [env EXCEPT ![op.env] = how]
      BY <1>7 DEF Release!Build, Release!Clean
    <2>3. env'[record.env] = "ready"
      BY <1>1, <1>2, <2>1, <2>2 DEF ReleaseTyped
    <2>4. op' = Release!NoOp \/ (\E step \in {"build", "control"} : op' = [op EXCEPT !.step = step])
      BY <1>7 DEF Release!Build, Release!Clean, Release!Done, Release!Step
    <2>5. op'.made = {}
      BY <1>1, <2>4 DEF ReleaseTyped, Operation, Release!NoOp
    <2> QED BY <1>1, <1>4, <2>2, <2>3, <2>5
  <1>8. CASE Release!Control
    <2>1. UNCHANGED <<record, cmd, env>> /\ dispatcher' = TRUE /\ op' = [op EXCEPT !.step = "commands"]
      BY <1>8 DEF Release!Control, Release!Step
    <2>2. op'.made = {}
      BY <1>1, <2>1 DEF ReleaseTyped, Operation
    <2> QED BY <1>1, <1>4, <2>1, <2>2
  <1>9. CASE \E n \in Names : Release!ReplaceCommand(n)
    <2>1. PICK n \in Names : op' = [op EXCEPT !.todo = @ \ {n}] /\ UNCHANGED <<record, cmd, env, dispatcher>>
      BY <1>1, <1>9 DEF Release!ReplaceCommand
    <2>2. op'.made = {}
      BY <1>1, <2>1 DEF ReleaseTyped, Operation
    <2> QED BY <1>1, <1>4, <2>1, <2>2
  <1>10. CASE Release!Undo
    <2>1. \A n \in Names : cmd'[n] = "ours"
      BY <1>1, <1>10 DEF Release!Undo
    <2>2. UNCHANGED <<record, env, dispatcher>> /\ (op' = Release!NoOp \/ op' = [op EXCEPT !.step = "clean"])
      BY <1>10 DEF Release!Undo, Release!Done, Release!Step
    <2>3. op'.made = {}
      BY <1>1, <2>2 DEF ReleaseTyped, Operation, Release!NoOp
    <2> QED BY <1>1, <2>1, <2>2, <2>3 DEF Release!Installed, Release!Works
  <1>11. CASE Release!Unlink \/ Release!Remove \/ Release!RemoveLast
    BY <1>11 DEF Release!Unlink, Release!Remove, Release!RemoveLast, Release!At
  <1> QED BY <1>3, <1>5, <1>6, <1>7, <1>8, <1>9, <1>10, <1>11 DEF Release!Next, Release!Maintain

(* Maintenance is alone and commands of others are kept, whatever interrupts it
   (maintenance, state_guard, write_launchers).                              *)
THEOREM MaintenanceIsAlwaysAlone ==
  Release!Spec => [](Release!TypeOK /\ Release!MaintenanceIsAlone /\ Release!ForeignCommandsAreKept)
  <1>1. ReleaseInv => Release!TypeOK /\ Release!MaintenanceIsAlone /\ Release!ForeignCommandsAreKept
    BY DEF ReleaseInv, ReleaseTyped, CommandsKept, Release!TypeOK
  <1> QED BY <1>1, InitReleaseInv, StepReleaseInv, PTL DEF Release!Spec

(* Without an interrupt right after the commit, an installation that works goes on
   working through every update and rollback that completes, fails or is killed
   (ReleaseClient.install, rollback).                                        *)
THEOREM ReleaseIsAlwaysSound ==
  ASSUME Interrupts = FALSE
  PROVE  Release!Spec => ReleaseIsSound
  <1>1. ReleaseInv /\ [Release!Next]_(Release!vars) => [Keeps]_(Release!vars)
    BY WorkingStep
  <1>2. Release!Spec => Release!UpdateKeepsWorking
    BY <1>1, InitReleaseInv, StepReleaseInv, PTL DEF Release!Spec, Release!UpdateKeepsWorking, Keeps
  <1> QED BY <1>2, MaintenanceIsAlwaysAlone, PTL DEF ReleaseIsSound
=============================================================================
