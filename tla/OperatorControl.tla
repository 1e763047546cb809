-------------------------- MODULE OperatorControl --------------------------
(* What the operator of a terminal controls: the permission gate and its queue
   of approvals (src/terminal/permissions.py), the commands that change rules,
   approve and stop (src/terminal/control.py), and the tools they govern as
   far as the gate is concerned: the simulated body, a simulation node, the
   viewer, sub-agents and a change of settings (App._tool in src/terminal/app.py,
   src/terminal/nodes.py, src/terminal/settings.py).

   Tools are called by several threads: the turn of the model, the broker for a
   sub-agent, the operator's own commands.  The rules are rows of a database that
   every check reads anew; nodes, the body and the approvals have locks of their own. *)
EXTENDS Naturals, FiniteSets

CONSTANTS
  Threads,      \* callers of tools
  Subs,         \* sub-agents there may be
  Nothing,
  MaxRequests,  \* bound: approvals asked for
  MaxPending,   \* approvals that may wait at a time (32 in the code)
  MaxCommands,  \* bound: commands of the operator
  MaxCalls      \* bound: calls of tools

Acts == {"move_sim", "node_start", "open_simulator", "spawn_agent", "settings_update"}

ASSUME ControlConstants == MaxRequests \in Nat /\ Nothing \notin Threads \cup Acts

VARIABLES
  mode, rule,        \* the database: "sim" or "plan", and a rule per action
  pending,           \* [Requests -> the action that waits for approval, or Nothing]
  approving,         \* requests that are being executed
  motionStop,        \* motion_stop
  mover, nodeLock,   \* who has motion_lock and nodes.lock
  held,              \* the simulated joints are commanded to where they are
  node, viewer, sub, \* what is alive
  thread,            \* per thread: [pc, act, id], id the request it executes
  console,           \* the operator's command: [pc, cmd, left]
  asked, commands, calls, \* counters
  begun,             \* ghost: executions begun on the strength of each request
  halted, existed    \* ghosts: /stop has returned and no motion was allowed since;
                     \* the sub-agents there were when it was given

gate == <<mode, rule>>
approvals == <<pending, approving, asked, begun>>
motion == <<motionStop, mover, held>>
things == <<node, viewer, sub>>
ghosts == <<halted, existed>>
vars == <<gate, approvals, motion, nodeLock, things, thread, console, commands, calls, ghosts>>

Requests == 1..MaxRequests
PlanBlocked == Acts \ {"settings_update"}
Defaults == [a \in Acts |-> IF a = "settings_update" THEN "ask" ELSE "allow"]
Open(s) == sub[s] \in {"queued", "running"}
Rest == [pc |-> "rest", act |-> Nothing, id |-> 0]
Prompt == [pc |-> "prompt", cmd |-> Nothing, left |-> {}]

TypeOK ==
  /\ mode \in {"sim", "plan"} /\ rule \in [Acts -> {"allow", "ask", "deny"}]
  /\ pending \in [Requests -> Acts \cup {Nothing}] /\ approving \subseteq Requests
  /\ asked \in 0..MaxRequests /\ begun \in [Requests -> Nat]
  /\ motionStop \in BOOLEAN /\ halted \in BOOLEAN /\ held \in BOOLEAN
  /\ mover \in Threads \cup {Nothing} /\ nodeLock \in Threads \cup {Nothing}
  /\ node \in {"none", "alive"} /\ viewer \in {"closed", "open"}
  /\ sub \in [Subs -> {"none", "queued", "running", "done", "cancelled"}] /\ existed \subseteq Subs
  /\ thread \in [Threads -> [pc: {"rest", "check", "run", "moving"}, act: Acts \cup {Nothing},
                             id: {0} \cup Requests]]
  /\ console \in [pc: {"prompt", "viewer", "nodes", "clear", "close", "deny", "list", "cancel"},
                  cmd: {Nothing, "rules", "allow motion", "stop"}, left: SUBSET Subs]

Init ==
  /\ mode = "sim" /\ rule = Defaults
  /\ pending = [i \in Requests |-> Nothing] /\ approving = {} /\ asked = 0
  /\ begun = [i \in Requests |-> 0]
  /\ motionStop = FALSE /\ mover = Nothing /\ held = TRUE /\ nodeLock = Nothing
  /\ node = "none" /\ viewer = "closed" /\ sub = [s \in Subs |-> "none"]
  /\ thread = [t \in Threads |-> Rest] /\ console = Prompt
  /\ commands = 0 /\ calls = 0 /\ halted = FALSE /\ existed = {}

-----------------------------------------------------------------------------
(* The gate. *)

Blocked(a) == (mode = "plan" /\ a \in PlanBlocked) \/ rule[a] = "deny"
At(t, pc) == thread[t].pc = pc
Act(t) == thread[t].act
Request(t) == thread[t].id
Unapproved(t) == rule[Act(t)] = "ask" /\ Request(t) = 0
Waiting == {i \in Requests : pending[i] # Nothing}

\* a call ends; an approval is consumed unless it is kept for another try
Ends(t, keep) ==
  /\ thread' = [thread EXCEPT ![t] = Rest]
  /\ pending' = [i \in Requests |-> IF i = Request(t) /\ ~keep THEN Nothing ELSE pending[i]]
  /\ approving' = approving \ {Request(t)}
\* effects begin
Begins(t) == begun' = [i \in Requests |-> IF i = Request(t) THEN begun[i] + 1 ELSE begun[i]]

\* the tools of nodes check and act with nodes.lock held
HoldsNodes(a) == a = "node_start"
Takes(t, a) ==
  IF HoldsNodes(a) THEN nodeLock = Nothing /\ nodeLock' = t ELSE UNCHANGED nodeLock
Leaves(t) == nodeLock' = IF nodeLock = t THEN Nothing ELSE nodeLock

Call(t, a) ==
  /\ At(t, "rest") /\ calls < MaxCalls /\ calls' = calls + 1
  /\ Takes(t, a)
  /\ thread' = [thread EXCEPT ![t] = [pc |-> "check", act |-> a, id |-> 0]]
  /\ UNCHANGED <<gate, approvals, motion, things, console, commands, ghosts>>

Refused(t) ==
  /\ At(t, "check") /\ (Blocked(Act(t)) \/ (Unapproved(t) /\ (Cardinality(Waiting) >= MaxPending \/ asked = MaxRequests)))
  /\ Ends(t, FALSE) /\ Leaves(t)
  /\ UNCHANGED <<gate, asked, begun, motion, things, console, commands, calls, ghosts>>

AsksApproval(t) ==
  /\ At(t, "check") /\ ~Blocked(Act(t)) /\ Unapproved(t)
  /\ Cardinality(Waiting) < MaxPending /\ asked < MaxRequests
  /\ asked' = asked + 1 /\ pending' = [pending EXCEPT ![asked + 1] = Act(t)]
  /\ thread' = [thread EXCEPT ![t] = Rest] /\ Leaves(t)
  /\ UNCHANGED <<gate, approving, begun, motion, things, console, commands, calls, ghosts>>

Passes(t) ==
  /\ At(t, "check") /\ ~Blocked(Act(t)) /\ ~Unapproved(t)
  /\ thread' = [thread EXCEPT ![t].pc = "run"]
  /\ UNCHANGED <<gate, approvals, motion, nodeLock, things, console, commands, calls, ghosts>>

Approvable(i) == pending[i] # Nothing /\ i \notin approving

\* /approve ID: confirmed checks the rules of now, in the thread that was approved
Approve(t, i) ==
  /\ At(t, "rest") /\ Approvable(i)
  /\ approving' = approving \cup {i} /\ Takes(t, pending[i])
  /\ thread' = [thread EXCEPT ![t] = [pc |-> "check", act |-> pending[i], id |-> i]]
  /\ UNCHANGED <<gate, pending, asked, begun, motion, things, console, commands, calls, ghosts>>

Reject(i) ==
  /\ Approvable(i) /\ pending' = [pending EXCEPT ![i] = Nothing]
  /\ UNCHANGED <<gate, approving, asked, begun, motion, nodeLock, things, thread, console, commands, calls, ghosts>>

-----------------------------------------------------------------------------
(* The tools, after the check. *)

Running(t, a) == At(t, "run") /\ Act(t) = a

\* an error of any kind, with whatever was done by then
Errs(t) ==
  /\ At(t, "run") /\ Ends(t, FALSE) /\ Begins(t) /\ Leaves(t)
  /\ UNCHANGED <<gate, asked, motion, things, console, commands, calls, ghosts>>

\* nodes.tool: the rules a simulation node depends on
StartNode(t) ==
  /\ Running(t, "node_start") /\ Ends(t, FALSE) /\ Begins(t) /\ Leaves(t)
  /\ node' = IF rule["move_sim"] = "deny" THEN node ELSE "alive"
  /\ UNCHANGED <<gate, asked, motion, viewer, sub, console, commands, calls, ghosts>>

OpenViewer(t) ==
  /\ Running(t, "open_simulator") /\ Ends(t, FALSE) /\ Begins(t) /\ viewer' = "open"
  /\ UNCHANGED <<gate, asked, motion, nodeLock, node, sub, console, commands, calls, ghosts>>

Spawn(t) ==
  /\ Running(t, "spawn_agent") /\ Ends(t, FALSE) /\ Begins(t)
  /\ \E s \in Subs :
       /\ sub[s] = "none"
       /\ sub' = [sub EXCEPT ![s] = IF \E r \in Subs : sub[r] = "running" THEN "queued" ELSE "running"]
  /\ UNCHANGED <<gate, asked, motion, nodeLock, node, viewer, console, commands, calls, ghosts>>

(* settings.update: nothing is changed while a sub-agent is there, and the
   approval then stays.                                                      *)
Busy == \E s \in Subs : Open(s)
Settings(t) ==
  /\ Running(t, "settings_update") /\ Ends(t, Busy)
  /\ IF Busy THEN UNCHANGED begun ELSE Begins(t)
  /\ UNCHANGED <<gate, asked, motion, nodeLock, things, console, commands, calls, ghosts>>

\* move_sim: the body is moved by one thread at a time
StartMotion(t) ==
  /\ Running(t, "move_sim") /\ mover = Nothing
  /\ mover' = t /\ held' = FALSE /\ Begins(t)
  /\ thread' = [thread EXCEPT ![t].pc = "moving"]
  /\ UNCHANGED <<gate, pending, approving, asked, motionStop, nodeLock, things, console, commands, calls, ghosts>>

\* Mutant of MayStep: the body is moved to its target whatever was asked meanwhile.
MayStepAlways == TRUE

(* MujocoBody.execute looks at the event before each step of the physics; the look and
   its step are one action.                                                  *)
MayStep == ~motionStop
Advance(t) ==
  /\ At(t, "moving") /\ MayStep /\ ~held
  /\ UNCHANGED <<gate, approvals, motion, nodeLock, things, thread, console, commands, calls, ghosts>>
\* done, cancelled, expired or failed: the joints are held where they are
EndMotion(t) ==
  /\ At(t, "moving") /\ Ends(t, FALSE)
  /\ mover' = Nothing /\ held' = TRUE
  /\ UNCHANGED <<gate, asked, begun, motionStop, nodeLock, things, console, commands, calls, ghosts>>

\* the broker: a free place is taken by a sub-agent that waits
SubStarts(s) ==
  /\ sub[s] = "queued" /\ \A r \in Subs : sub[r] # "running"
  /\ sub' = [sub EXCEPT ![s] = "running"]
  /\ UNCHANGED <<gate, approvals, motion, nodeLock, node, viewer, thread, console, commands, calls, ghosts>>
SubEnds(s) ==
  /\ sub[s] = "running" /\ sub' = [sub EXCEPT ![s] = "done"]
  /\ UNCHANGED <<gate, approvals, motion, nodeLock, node, viewer, thread, console, commands, calls, ghosts>>

-----------------------------------------------------------------------------
(* The operator's commands, one at a time. *)

Console(pc) == console.pc = pc
Goto(pc) == console' = [console EXCEPT !.pc = pc]

\* /permissions and /mode: the database first
SetRule(a, r) == rule' = [rule EXCEPT ![a] = r] /\ UNCHANGED mode
SetProfile(p) ==
  /\ mode' = IF p = "plan" THEN "plan" ELSE "sim"
  /\ rule' = CASE p = "yolo" -> [a \in Acts |-> "allow"]
               [] p = "ask" -> [a \in Acts |-> "ask"]
               [] OTHER -> Defaults
Command(cmd) ==
  /\ Console("prompt") /\ commands < MaxCommands /\ commands' = commands + 1
  /\ console' = [Prompt EXCEPT !.pc = "viewer", !.cmd = cmd]
Permissions ==
  /\ \E a \in Acts, r \in {"allow", "ask", "deny"} :
       /\ Command(IF a = "move_sim" /\ r = "allow" THEN "allow motion" ELSE "rules") /\ SetRule(a, r)
  /\ UNCHANGED <<approvals, motion, nodeLock, things, thread, calls, ghosts>>
Profile ==
  /\ \E p \in {"default", "plan", "ask", "yolo"} : Command("rules") /\ SetProfile(p)
  /\ UNCHANGED <<approvals, motion, nodeLock, things, thread, calls, ghosts>>

\* enforce_node_permissions: the viewer, then the nodes under their lock
EnforceViewer ==
  /\ Console("viewer") /\ Goto("nodes")
  /\ viewer' = IF Blocked("open_simulator") THEN "closed" ELSE viewer
  /\ UNCHANGED <<gate, approvals, motion, nodeLock, node, sub, thread, commands, calls, ghosts>>
Forbidden == mode = "plan" \/ rule["node_start"] = "deny" \/ rule["move_sim"] = "deny"
EnforceNodes ==
  /\ Console("nodes") /\ nodeLock = Nothing
  /\ node' = IF Forbidden THEN "none" ELSE node
  /\ Goto(CASE console.cmd = "stop" -> "list" [] console.cmd = "allow motion" -> "clear" [] OTHER -> "prompt")
  /\ UNCHANGED <<gate, approvals, motion, nodeLock, viewer, sub, thread, commands, calls, ghosts>>
AllowMotion ==
  /\ Console("clear") /\ Goto("prompt") /\ motionStop' = FALSE /\ halted' = FALSE
  /\ UNCHANGED <<gate, approvals, mover, held, nodeLock, things, thread, commands, calls, existed>>

\* /stop
Stop ==
  /\ Console("prompt") /\ commands < MaxCommands /\ commands' = commands + 1
  /\ console' = [Prompt EXCEPT !.pc = "close", !.cmd = "stop"]
  /\ motionStop' = TRUE /\ existed' = {s \in Subs : Open(s)}
  /\ UNCHANGED <<gate, approvals, mover, held, nodeLock, things, thread, calls, halted>>
StopViewer ==
  /\ Console("close") /\ Goto("deny") /\ viewer' = "closed"
  /\ UNCHANGED <<gate, approvals, motion, nodeLock, node, sub, thread, commands, calls, ghosts>>
StopDenies ==
  /\ Console("deny") /\ Goto("viewer") /\ SetRule("move_sim", "deny")
  /\ UNCHANGED <<approvals, motion, nodeLock, things, thread, commands, calls, ghosts>>
StopLists ==
  /\ Console("list")
  /\ console' = [console EXCEPT !.pc = "cancel", !.left = {s \in Subs : sub[s] = "running"}]
  /\ UNCHANGED <<gate, approvals, motion, nodeLock, things, thread, commands, calls, ghosts>>
StopCancels ==
  /\ Console("cancel")
  /\ \E s \in console.left :
       /\ console' = [console EXCEPT !.left = @ \ {s}]
       /\ sub' = [sub EXCEPT ![s] = IF Open(s) THEN "cancelled" ELSE @]
  /\ UNCHANGED <<gate, approvals, motion, nodeLock, node, viewer, thread, commands, calls, ghosts>>
StopReturns ==
  /\ Console("cancel") /\ console.left = {} /\ Goto("prompt") /\ halted' = TRUE
  /\ UNCHANGED <<gate, approvals, motion, nodeLock, things, thread, commands, calls, existed>>

Tool(t) ==
  \/ \E a \in Acts : Call(t, a)
  \/ \E i \in Requests : Approve(t, i)
  \/ Refused(t) \/ AsksApproval(t) \/ Passes(t) \/ Errs(t)
  \/ StartNode(t) \/ OpenViewer(t) \/ Spawn(t) \/ Settings(t)
  \/ StartMotion(t) \/ Advance(t) \/ EndMotion(t)
Operator ==
  \/ Permissions \/ Profile \/ EnforceViewer \/ EnforceNodes \/ AllowMotion
  \/ Stop \/ StopViewer \/ StopDenies \/ StopLists \/ StopCancels \/ StopReturns
  \/ \E i \in Requests : Reject(i)
Next ==
  \/ \E t \in Threads : Tool(t)
  \/ \E s \in Subs : SubStarts(s) \/ SubEnds(s)
  \/ Operator

Spec == Init /\ [][Next]_vars

-----------------------------------------------------------------------------
(* Properties. *)

(* An approval is good for one execution: whoever gives it again, concurrently or
   after an error, the action it stands for does not begin twice.            *)
ApprovedOnce == \A i \in Requests : begun[i] <= 1

(* Once /stop has returned the simulated body makes no further step, whichever
   call had passed the gate or waited for the body, until the operator allows motion. *)
NoMotionAfterStop == halted => \A t \in Threads : ~(At(t, "moving") /\ MayStep)

(* When a command of the operator has returned, no node lives that the rules forbid:
   one that was being started at the time has been stopped.                  *)
NoForbiddenNode == Console("prompt") /\ Forbidden => node = "none"

(* The operator is obeyed: an approval is good for one execution, no simulated
   joint moves after /stop has returned, and when a command has returned no node
   lives that the rules forbid, whatever threads were on the way.            *)
ControlIsSound == TypeOK /\ ApprovedOnce /\ NoMotionAfterStop /\ NoForbiddenNode

(* docs/CONTROL_SURFACE.md:67: "并取消现有子任务", /stop cancels the sub-agents
   there are: when it has returned none of them goes on.                      *)
StopCancelsAgents == halted /\ Console("prompt") => \A s \in existed : ~Open(s)
=============================================================================
