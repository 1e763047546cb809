---------------------------- MODULE AgentKernel ----------------------------
(***************************************************************************)
(* The execution kernel of rust/core/src/agent.rs under any adapter: Next  *)
(* lets it call any method in any state with any argument, and lets the    *)
(* reports of a driver arrive late, twice, out of order or after the run   *)
(* they belong to.                                                         *)
(***************************************************************************)
EXTENDS AgentMethods

CONSTANTS
  Configs,      \* what an application may ask begin to run
  Calls,        \* call ids a model adapter may pass; 0 among them
  Failures,     \* error codes an adapter passes to loop_core_fail
  MaxRuns       \* bound: successful begins in a behaviour

ASSUME KernelAssumption ==
  /\ Failures \subseteq Errors \ {"None", "State"}     \* what loop_core_fail maps to
  /\ Conversation \notin Tools
  /\ Calls \subseteq Nat
  /\ Configs \subseteq Config
  /\ MaxClock \in Nat /\ MaxRuns \in Nat

VARIABLES
  agent,      \* the context of the kernel
  working,    \* dispatched calls the driver has not reported
  reports,    \* what the driver reported of the others
  run,        \* history: number of the run (successful begins)
  receipts,   \* history: receipts accepted in this run
  latest      \* history: was the receipt accepted last ok?

vars == <<agent, working, reports, run, receipts, latest>>

-----------------------------------------------------------------------------
DispatchedCall == [run: Nat, session: Nat, task: Nat, call: Nat, tool: Checks]
Report == [call: DispatchedCall, ok: BOOLEAN, checked: BOOLEAN]

TypeOK ==
  /\ agent \in Agent
  /\ working \subseteq DispatchedCall /\ reports \subseteq Report
  /\ run \in Nat /\ receipts \in Nat /\ latest \in BOOLEAN

Init ==
  /\ agent = Default
  /\ working = {} /\ reports = {}
  /\ run = 0 /\ receipts = 0 /\ latest = FALSE

Keep == UNCHANGED <<working, reports, run, receipts, latest>>

(* The application registers a task; the ids it registers are new (the     *)
(* firmware counts them).                                                  *)
CallBegin ==
  \E c \in Configs, now \in Clock :
    LET o == Begin(agent, c, now) IN
    /\ run < MaxRuns
    /\ c.task \notin {d.task : d \in working \cup {r.call : r \in reports}}
    /\ agent' = o.a
    /\ run' = IF o.e = "None" THEN run + 1 ELSE run
    /\ receipts' = IF o.e = "None" THEN 0 ELSE receipts
    /\ latest' = IF o.e = "None" THEN FALSE ELSE latest
    /\ UNCHANGED <<working, reports>>

CallRequestModel ==
  \E now \in Clock : agent' = RequestModel(agent, now).a /\ Keep

CallPropose ==
  \E now \in Clock, call \in Calls, tool \in Tools :
    agent' = Propose(agent, call, tool, now).a /\ Keep

CallDispatch ==
  \E now \in Clock, resources, recorded \in BOOLEAN :
    LET o == Dispatch(agent, resources, recorded, now) IN
    /\ agent' = o.a
    /\ working' = IF o.e # "None" THEN working ELSE
         working \cup {[run |-> run, session |-> agent.session, task |-> agent.task,
                       call |-> agent.call, tool |-> agent.tool]}
    /\ UNCHANGED <<reports, run, receipts, latest>>

(* External: a driver reports once what became of a dispatched call, if at *)
(* all; perhaps after the run ended.                                       *)
DriverReports ==
  \E d \in working, ok, checked \in BOOLEAN :
    /\ working' = working \ {d}
    /\ reports' = reports \cup {[call |-> d, ok |-> ok, checked |-> checked]}
    /\ UNCHANGED <<agent, run, receipts, latest>>

(* The adapter passes on a report: the current one, an old one, or one it  *)
(* has passed on before.                                                   *)
CallReceipt ==
  \E r \in reports, now \in Clock :
    LET o == Receive(agent, r.call, r.ok, r.checked, now) IN
    /\ agent' = o.a
    /\ receipts' = IF o.e = "None" THEN receipts + 1 ELSE receipts
    /\ latest' = IF o.e = "None" THEN r.ok ELSE latest
    /\ UNCHANGED <<working, reports, run>>

CallAnswer == \E now \in Clock : agent' = Answer(agent, now).a /\ Keep

CallCancel == agent' = Cancelled(agent) /\ Keep

(* loop_core_fail  *)
CallFail == \E e \in Failures : agent' = Abort(agent, e).a /\ Keep

Next ==
  \/ CallBegin \/ CallRequestModel \/ CallPropose \/ CallDispatch \/ CallReceipt
  \/ CallAnswer \/ CallCancel \/ CallFail \/ DriverReports

Spec == Init /\ [][Next]_vars

-----------------------------------------------------------------------------
(* Whatever an adapter calls, no run makes more model requests or tool     *)
(* calls than its application granted.                                     *)
WithinBudgets == agent.calls <= agent.maxCalls /\ agent.models <= agent.maxModels

(* While a run goes on its deadline lies ahead of the last time the kernel *)
(* saw, and is a time its clock can show: now + timeout never wraps.       *)
DeadlineAhead ==
  agent.state \in Active => agent.last < agent.deadline /\ agent.deadline <= MaxClock

(* Every dispatched call had an id of its own: ids grow, and each dispatch *)
(* consumes a proposal.                                                    *)
FreshCallIds ==
  agent.calls + (IF agent.state = "Tool" THEN 1 ELSE 0) <= agent.call

(* Receipts pair up with dispatches: none is accepted twice, and no call   *)
(* is dispatched while another waits for its receipt.                      *)
ReceiptsMatchCalls ==
  /\ receipts <= agent.calls /\ agent.calls <= receipts + 1
  /\ agent.state \in {"Model", "Tool", "Complete"} => receipts = agent.calls
  /\ agent.state = "Receipt" => agent.calls = receipts + 1

(* A check holds only on a report of its tool, made for a call of this     *)
(* very run, and not after a later call failed.                            *)
VerifiedByReceipt ==
  agent.verified =>
    /\ latest
    /\ \E r \in reports :
         r.call.run = run /\ r.call.tool = agent.check /\ r.ok /\ r.checked

(* A task with a registered check completes only while the check holds.    *)
CompleteIsVerified ==
  agent.state = "Complete" => agent.check = Conversation \/ agent.verified

(* A late receipt, answer or dispatch never revives a run that ended: only *)
(* begin starts another, and only loop_core_fail still may block it.       *)
EndedStaysEnded ==
  [][agent.state \notin Active /\ run' = run
       => agent'.state \in {agent.state, "Blocked"} /\ (agent'.verified => agent.verified)]_vars
=============================================================================
