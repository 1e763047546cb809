--------------------------- MODULE ServicesProofs ---------------------------
(***************************************************************************)
(* Theorems about the services of a terminal, for any threads, sub-agents,   *)
(* approvals, commands, processes, endpoints, keys and tasks.  The operator:  *)
(* an approval is good for one execution, the body stands still once /stop   *)
(* has returned, and no forbidden node outlives a command.  Memory: it goes   *)
(* forward, ends with the newest success, and offers what was earned.  Keys   *)
(* and profiles: a save that is cut off loses no key, and a profile is shown  *)
(* as passed with the key that was tried.                                    *)
(***************************************************************************)
EXTENDS Services, FiniteSetTheorems, SequenceTheorems, WellFoundedInduction, TLAPS

-----------------------------------------------------------------------------
(* The operator: the invariant. *)

\* An approval that is being executed waits until its execution has begun and
\* ends; at most one thread has it.
Approval(i) ==
  /\ begun[i] <= 1
  /\ pending[i] # Nothing => i <= asked
  /\ i > asked => begun[i] = 0
  /\ \A t \in Threads : Request(t) = i => i \in approving /\ pending[i] # Nothing
  /\ \A t, u \in Threads : Request(t) = i /\ Request(u) = i => t = u
  /\ pending[i] # Nothing /\ (\A t \in Threads : Request(t) = i => ~At(t, "moving")) => begun[i] = 0
Approvals == \A i \in Requests : Approval(i)

\* From its first step to its return /stop has the motion stopped.
Standstill ==
  /\ console.pc \in {"close", "deny", "list", "cancel"} => console.cmd = "stop"
  /\ console.cmd = "stop" /\ console.pc # "prompt" => motionStop
  /\ halted => motionStop

\* A tool of nodes has nodes.lock from its check to its end, so that a command
\* which enforces the rules meets none that was checked against older ones.
Enforcing == console.pc \in {"close", "deny", "viewer", "nodes"}
Starting(t) == thread[t].pc \in {"check", "run"} /\ HoldsNodes(Act(t))
NodeRules ==
  /\ \A t \in Threads : Starting(t) => nodeLock = t
  /\ ~Enforcing => /\ Forbidden => node = "none"
                   /\ \A t \in Threads : Starting(t) /\ At(t, "run") => ~Blocked("node_start")

ControlInv == TypeOK /\ Approvals /\ Standstill /\ NodeRules

-----------------------------------------------------------------------------
(* The operator: the typing, in parts. *)

Thread == [pc: {"rest", "check", "run", "moving"}, act: Acts \cup {Nothing}, id: {0} \cup Requests]

Order == [pc: {"prompt", "viewer", "nodes", "clear", "close", "deny", "list", "cancel"},
          cmd: {Nothing, "rules", "allow motion", "stop"}, left: SUBSET Subs]

GateTyped == mode \in {"sim", "plan"} /\ rule \in [Acts -> {"allow", "ask", "deny"}]
PendingTyped == pending \in [Requests -> Acts \cup {Nothing}] /\ approving \subseteq Requests
AskedTyped == asked \in 0..MaxRequests
BegunTyped == begun \in [Requests -> Nat]
FlagsTyped == motionStop \in BOOLEAN /\ halted \in BOOLEAN /\ held \in BOOLEAN /\ existed \subseteq Subs
MoverTyped == mover \in Threads \cup {Nothing}
LockTyped == nodeLock \in Threads \cup {Nothing}
NodeTyped == node \in {"none", "alive"}
ViewerTyped == viewer \in {"closed", "open"}
SubTyped == sub \in [Subs -> {"none", "queued", "running", "done", "cancelled"}]
ThreadsTyped == thread \in [Threads -> Thread]
ConsoleTyped == console \in Order

Typed == /\ GateTyped /\ PendingTyped /\ AskedTyped /\ BegunTyped /\ FlagsTyped /\ MoverTyped /\ LockTyped
         /\ NodeTyped /\ ViewerTyped /\ SubTyped /\ ThreadsTyped /\ ConsoleTyped

LEMMA TypeParts == TypeOK <=> Typed
  BY DEF TypeOK, Typed, GateTyped, PendingTyped, AskedTyped, BegunTyped, FlagsTyped, MoverTyped,
         LockTyped, NodeTyped, ViewerTyped, SubTyped, ThreadsTyped, ConsoleTyped, Thread, Order

\* What a step leaves alone keeps its type.
LEMMA Frames ==
  ASSUME Typed
  PROVE  /\ UNCHANGED gate => GateTyped'
         /\ UNCHANGED <<pending, approving>> => PendingTyped'
         /\ UNCHANGED asked => AskedTyped'
         /\ UNCHANGED begun => BegunTyped'
         /\ UNCHANGED approvals => PendingTyped' /\ AskedTyped' /\ BegunTyped'
         /\ UNCHANGED <<motionStop, held, ghosts>> => FlagsTyped'
         /\ UNCHANGED mover => MoverTyped'
         /\ UNCHANGED <<motion, ghosts>> => FlagsTyped' /\ MoverTyped'
         /\ UNCHANGED nodeLock => LockTyped'
         /\ UNCHANGED node => NodeTyped'
         /\ UNCHANGED viewer => ViewerTyped'
         /\ UNCHANGED sub => SubTyped'
         /\ UNCHANGED things => NodeTyped' /\ ViewerTyped' /\ SubTyped'
         /\ UNCHANGED thread => ThreadsTyped'
         /\ UNCHANGED console => ConsoleTyped'
  <1>1. UNCHANGED gate => GateTyped'
    BY DEF Typed, GateTyped, gate
  <1>2. /\ UNCHANGED <<pending, approving>> => PendingTyped'
        /\ UNCHANGED asked => AskedTyped'
        /\ UNCHANGED begun => BegunTyped'
        /\ UNCHANGED approvals => PendingTyped' /\ AskedTyped' /\ BegunTyped'
    BY DEF Typed, PendingTyped, AskedTyped, BegunTyped, approvals
  <1>3. /\ UNCHANGED <<motionStop, held, ghosts>> => FlagsTyped'
        /\ UNCHANGED mover => MoverTyped'
        /\ UNCHANGED <<motion, ghosts>> => FlagsTyped' /\ MoverTyped'
    BY DEF Typed, FlagsTyped, MoverTyped, motion, ghosts
  <1>4. /\ UNCHANGED nodeLock => LockTyped'
        /\ UNCHANGED node => NodeTyped'
        /\ UNCHANGED viewer => ViewerTyped'
        /\ UNCHANGED sub => SubTyped'
        /\ UNCHANGED things => NodeTyped' /\ ViewerTyped' /\ SubTyped'
    BY DEF Typed, LockTyped, NodeTyped, ViewerTyped, SubTyped, things
  <1>5. /\ UNCHANGED thread => ThreadsTyped'
        /\ UNCHANGED console => ConsoleTyped'
    BY DEF Typed, ThreadsTyped, ConsoleTyped
  <1> QED
    BY <1>1, <1>2, <1>3, <1>4, <1>5

LEMMA ThreadTyped ==
  ASSUME Typed, NEW t \in Threads
  PROVE  /\ thread[t] \in Thread /\ thread[t].pc \in {"rest", "check", "run", "moving"}
         /\ Act(t) \in Acts \cup {Nothing} /\ Request(t) \in {0} \cup Requests
  <1>1. thread[t] \in Thread
    BY DEF Typed, ThreadsTyped
  <1> QED
    BY <1>1 DEF Thread, Act, Request

LEMMA RestTyped == Rest \in Thread /\ Rest.pc = "rest" /\ Rest.act = Nothing /\ Rest.id = 0
  BY DEF Rest, Thread

\* What the end of a call does.
LEMMA Ending ==
  ASSUME Typed, NEW t \in Threads, NEW keep \in BOOLEAN, Ends(t, keep)
  PROVE  /\ ThreadsTyped' /\ PendingTyped'
         /\ thread'[t] = Rest /\ \A u \in Threads \ {t} : thread'[u] = thread[u]
         /\ \A i \in Requests \ {Request(t)} : pending'[i] = pending[i]
         /\ \A i \in Requests : ~keep /\ i = Request(t) => pending'[i] = Nothing
         /\ keep => pending' = pending
         /\ approving' = approving \ {Request(t)}
  <1>1. thread \in [Threads -> Thread] /\ pending \in [Requests -> Acts \cup {Nothing}]
        /\ approving \subseteq Requests
    BY DEF Typed, ThreadsTyped, PendingTyped
  <1>2. thread' \in [Threads -> Thread] /\ thread'[t] = Rest
        /\ \A u \in Threads \ {t} : thread'[u] = thread[u]
    <2> HIDE DEF Thread
    <2> QED
      BY <1>1, RestTyped DEF Ends
  <1>3. pending' = [i \in Requests |-> IF i = Request(t) /\ ~keep THEN Nothing ELSE pending[i]]
        /\ approving' = approving \ {Request(t)}
    BY DEF Ends
  <1>4. keep => pending' = pending
    BY <1>1, <1>3
  <1>5. pending' \in [Requests -> Acts \cup {Nothing}]
    BY <1>1, <1>3
  <1> QED
    BY <1>1, <1>2, <1>3, <1>4, <1>5 DEF ThreadsTyped, PendingTyped

LEMMA Beginning ==
  ASSUME Typed, NEW t \in Threads, Begins(t)
  PROVE  /\ BegunTyped'
         /\ \A i \in Requests : begun'[i] = IF i = Request(t) THEN begun[i] + 1 ELSE begun[i]
  BY DEF Begins, Typed, BegunTyped

LEMMA Moving ==
  ASSUME Typed, NEW t \in Threads, NEW r \in Thread, thread' = [thread EXCEPT ![t] = r]
  PROVE  /\ ThreadsTyped' /\ thread'[t] = r
         /\ \A u \in Threads \ {t} : thread'[u] = thread[u]
  BY DEF Typed, ThreadsTyped

LEMMA Advancing ==
  ASSUME Typed, NEW t \in Threads, NEW pc \in {"check", "run", "moving"},
         thread' = [thread EXCEPT ![t].pc = pc]
  PROVE  /\ ThreadsTyped' /\ \A u \in Threads \ {t} : thread'[u] = thread[u]
         /\ thread'[t].pc = pc /\ thread'[t].act = Act(t) /\ thread'[t].id = Request(t)
  <1>1. thread \in [Threads -> Thread] /\ thread[t] \in Thread
    BY DEF Typed, ThreadsTyped
  <1>2. [thread[t] EXCEPT !.pc = pc] \in Thread
    BY <1>1 DEF Thread
  <1>3. thread' = [thread EXCEPT ![t] = [thread[t] EXCEPT !.pc = pc]]
    BY <1>1
  <1>4. /\ thread'[t] = [thread[t] EXCEPT !.pc = pc]
        /\ \A u \in Threads \ {t} : thread'[u] = thread[u]
        /\ thread' \in [Threads -> Thread]
    <2> HIDE DEF Thread
    <2> QED
      BY <1>1, <1>2, <1>3
  <1>5. thread'[t].pc = pc /\ thread'[t].act = thread[t].act /\ thread'[t].id = thread[t].id
    BY <1>1, <1>4 DEF Thread
  <1>6. Act(t) = thread[t].act /\ Request(t) = thread[t].id
    BY DEF Act, Request
  <1> QED
    BY <1>4, <1>5, <1>6 DEF ThreadsTyped

LEMMA CallTyped ==
  ASSUME NEW a \in Acts, NEW i \in {0} \cup Requests
  PROVE  LET r == [pc |-> "check", act |-> a, id |-> i]
         IN  r \in Thread /\ r.pc = "check" /\ r.act = a /\ r.id = i
  BY DEF Thread

LEMMA Locking ==
  ASSUME Typed, NEW t \in Threads
  PROVE  /\ \A a \in Acts : Takes(t, a) => LockTyped'
         /\ Leaves(t) => LockTyped'
  BY DEF Typed, LockTyped, Takes, Leaves

LEMMA ToolTyped ==
  ASSUME Typed, NEW t \in Threads, Tool(t)
  PROVE  Typed'
  <1>1. ASSUME NEW a \in Acts, Call(t, a) PROVE Typed'
    <2>1. ThreadsTyped' /\ LockTyped'
      BY <1>1, CallTyped, Moving, Locking DEF Call
    <2> QED
      BY <1>1, <2>1, Frames DEF Call, Typed
  <1>2. ASSUME NEW i \in Requests, Approve(t, i) PROVE Typed'
    <2>1. pending[i] \in Acts
      BY <1>2 DEF Approve, Approvable, Typed, PendingTyped
    <2>2. ThreadsTyped' /\ LockTyped'
      BY <1>2, <2>1, CallTyped, Moving, Locking DEF Approve
    <2>3. PendingTyped'
      BY <1>2 DEF Approve, Typed, PendingTyped
    <2> QED
      BY <1>2, <2>2, <2>3, Frames DEF Approve, Typed
  <1>3. CASE Refused(t)
    BY <1>3, Ending, Locking, Frames DEF Refused, Typed
  <1>4. CASE AsksApproval(t)
    <2>1. Act(t) \in Acts \cup {Nothing}
      BY ThreadTyped
    <2>2. asked + 1 \in Requests /\ asked' = asked + 1 /\ asked' \in 0..MaxRequests
      BY <1>4, ControlConstants DEF AsksApproval, Typed, AskedTyped, Requests
    <2>3. PendingTyped'
      BY <1>4, <2>1, <2>2 DEF AsksApproval, Typed, PendingTyped
    <2>4. ThreadsTyped' /\ LockTyped'
      BY <1>4, RestTyped, Moving, Locking DEF AsksApproval
    <2> QED
      BY <1>4, <2>2, <2>3, <2>4, Frames DEF AsksApproval, Typed, AskedTyped
  <1>5. CASE Passes(t)
    <2>1. ThreadsTyped'
      BY <1>5, Advancing DEF Passes
    <2> QED
      BY <1>5, <2>1, Frames DEF Passes, Typed
  <1>6. CASE Errs(t)
    BY <1>6, Ending, Beginning, Locking, Frames DEF Errs, Typed
  <1>7. CASE StartNode(t)
    <2>1. NodeTyped'
      BY <1>7 DEF StartNode, Typed, NodeTyped
    <2> QED
      BY <1>7, <2>1, Ending, Beginning, Locking, Frames DEF StartNode, Typed
  <1>8. CASE OpenViewer(t)
    <2>1. ViewerTyped'
      BY <1>8 DEF OpenViewer, ViewerTyped
    <2> QED
      BY <1>8, <2>1, Ending, Beginning, Frames DEF OpenViewer, Typed
  <1>9. CASE Spawn(t)
    <2>1. SubTyped'
      BY <1>9 DEF Spawn, Typed, SubTyped
    <2> QED
      BY <1>9, <2>1, Ending, Beginning, Frames DEF Spawn, Typed
  <1>10. CASE Settings(t)
    <2>1. Busy \in BOOLEAN
      BY DEF Busy
    <2>2. ThreadsTyped' /\ PendingTyped'
      BY <1>10, <2>1, Ending DEF Settings
    <2>3. BegunTyped'
      BY <1>10, Beginning, Frames DEF Settings
    <2> QED
      BY <1>10, <2>2, <2>3, Frames DEF Settings, Typed
  <1>11. CASE StartMotion(t)
    <2>1. ThreadsTyped'
      BY <1>11, Advancing DEF StartMotion
    <2>2. FlagsTyped' /\ MoverTyped'
      BY <1>11 DEF StartMotion, Typed, FlagsTyped, MoverTyped, ghosts
    <2> QED
      BY <1>11, <2>1, <2>2, Beginning, Frames DEF StartMotion, Typed
  <1>12. CASE Advance(t)
    BY <1>12, Frames DEF Advance, Typed
  <1>13. CASE EndMotion(t)
    <2>1. FlagsTyped' /\ MoverTyped'
      BY <1>13 DEF EndMotion, Typed, FlagsTyped, MoverTyped, ghosts
    <2> QED
      BY <1>13, <2>1, Ending, Frames DEF EndMotion, Typed
  <1> QED
    BY <1>1, <1>2, <1>3, <1>4, <1>5, <1>6, <1>7, <1>8, <1>9, <1>10, <1>11, <1>12, <1>13 DEF Tool

LEMMA SubKeepsTypes ==
  ASSUME Typed, NEW s \in Subs, SubStarts(s) \/ SubEnds(s)
  PROVE  Typed'
  <1>1. SubTyped'
    BY DEF SubStarts, SubEnds, Typed, SubTyped
  <1> QED
    BY <1>1, Frames DEF SubStarts, SubEnds, Typed

LEMMA Going ==
  ASSUME Typed
  PROVE  /\ \A pc \in {"prompt", "viewer", "nodes", "clear", "close", "deny", "list", "cancel"} :
              Goto(pc) => ConsoleTyped' /\ console'.pc = pc /\ console'.cmd = console.cmd
         /\ \A cmd \in {"rules", "allow motion", "stop"}, pc \in {"viewer", "close"} :
              console' = [Prompt EXCEPT !.pc = pc, !.cmd = cmd]
              => ConsoleTyped' /\ console'.pc = pc /\ console'.cmd = cmd
  <1>1. console \in Order /\ Prompt \in Order
    BY DEF Typed, ConsoleTyped, Prompt, Order
  <1> QED
    BY <1>1 DEF Goto, ConsoleTyped, Order

LEMMA OperatorTyped ==
  ASSUME Typed, Operator
  PROVE  Typed'
  <1>1. ASSUME NEW a \in Acts, NEW r \in {"allow", "ask", "deny"}, SetRule(a, r) PROVE GateTyped'
    BY <1>1 DEF SetRule, Typed, GateTyped
  <1>2. CASE Permissions
    <2>1. ConsoleTyped' /\ GateTyped'
      BY <1>1, <1>2, Going DEF Permissions, Command
    <2> QED
      BY <1>2, <2>1, Frames DEF Permissions, Typed
  <1>3. CASE Profile
    <2>1. ConsoleTyped'
      BY <1>3, Going DEF Profile, Command
    <2>2. GateTyped'
      BY <1>3 DEF Profile, SetProfile, GateTyped, Defaults
    <2> QED
      BY <1>3, <2>1, <2>2, Frames DEF Profile, Typed
  <1>4. CASE EnforceViewer
    <2>1. ViewerTyped' /\ ConsoleTyped'
      BY <1>4, Going DEF EnforceViewer, Typed, ViewerTyped
    <2> QED
      BY <1>4, <2>1, Frames DEF EnforceViewer, Typed
  <1>5. CASE EnforceNodes
    <2>1. NodeTyped' /\ ConsoleTyped'
      BY <1>5, Going DEF EnforceNodes, Typed, NodeTyped
    <2> QED
      BY <1>5, <2>1, Frames DEF EnforceNodes, Typed
  <1>6. CASE AllowMotion
    <2>1. FlagsTyped' /\ ConsoleTyped'
      BY <1>6, Going DEF AllowMotion, Typed, FlagsTyped
    <2> QED
      BY <1>6, <2>1, Frames DEF AllowMotion, Typed
  <1>7. CASE Stop
    <2>1. FlagsTyped' /\ ConsoleTyped'
      BY <1>7, Going DEF Stop, Typed, FlagsTyped
    <2> QED
      BY <1>7, <2>1, Frames DEF Stop, Typed
  <1>8. CASE StopViewer
    <2>1. ViewerTyped' /\ ConsoleTyped'
      BY <1>8, Going DEF StopViewer, ViewerTyped
    <2> QED
      BY <1>8, <2>1, Frames DEF StopViewer, Typed
  <1>9. CASE StopDenies
    <2>1. GateTyped' /\ ConsoleTyped'
      BY <1>1, <1>9, Going DEF StopDenies, Acts
    <2> QED
      BY <1>9, <2>1, Frames DEF StopDenies, Typed
  <1>10. CASE StopLists
    <2>1. ConsoleTyped'
      BY <1>10 DEF StopLists, Typed, ConsoleTyped, Order
    <2> QED
      BY <1>10, <2>1, Frames DEF StopLists, Typed
  <1>11. CASE StopCancels
    <2>1. PICK s \in console.left : /\ console' = [console EXCEPT !.left = @ \ {s}]
                                    /\ sub' = [sub EXCEPT ![s] = IF Open(s) THEN "cancelled" ELSE @]
      BY <1>11 DEF StopCancels
    <2>2. ConsoleTyped'
      BY <2>1 DEF Typed, ConsoleTyped, Order
    <2>3. SubTyped'
      BY <2>1 DEF Typed, SubTyped
    <2> QED
      BY <1>11, <2>2, <2>3, Frames DEF StopCancels, Typed
  <1>12. CASE StopReturns
    <2>1. FlagsTyped' /\ ConsoleTyped'
      BY <1>12, Going DEF StopReturns, Typed, FlagsTyped, motion
    <2> QED
      BY <1>12, <2>1, Frames DEF StopReturns, Typed, motion
  <1>13. ASSUME NEW i \in Requests, Reject(i) PROVE Typed'
    <2>1. PendingTyped'
      BY <1>13 DEF Reject, Typed, PendingTyped
    <2> QED
      BY <1>13, <2>1, Frames DEF Reject, Typed
  <1> QED
    BY <1>2, <1>3, <1>4, <1>5, <1>6, <1>7, <1>8, <1>9, <1>10, <1>11, <1>12, <1>13 DEF Operator

-----------------------------------------------------------------------------
(* An approval is good for one execution. *)

\* The approvals and who has them are as they were.
LEMMA ApprovalsKept ==
  ASSUME Approvals, UNCHANGED <<pending, approving, asked, begun>>,
         \A t \in Threads : /\ thread'[t].id = Request(t)
                            /\ thread'[t].pc = "moving" <=> At(t, "moving")
  PROVE  Approvals'
  BY DEF Approvals, Approval, Request, At

\* The approval of a thread is consumed with the end of its call.
LEMMA ApprovalConsumed ==
  ASSUME Approvals, NEW t \in Threads, NEW j, j = Request(t), UNCHANGED asked,
         \A i \in Requests : i # j => pending'[i] = pending[i] /\ begun'[i] = begun[i],
         j \in Requests => pending'[j] = Nothing /\ begun'[j] <= 1,
         j \in Requests /\ j > asked => begun'[j] = 0,
         approving' = approving \ {j}, thread'[t].id = 0, 0 \notin Requests,
         \A u \in Threads \ {t} : thread'[u] = thread[u]
  PROVE  Approvals'
  <1> SUFFICES ASSUME NEW i \in Requests PROVE Approval(i)'
    BY DEF Approvals
  <1>1. i # 0
    OBVIOUS
  <1>2. CASE i = j
    <2>1. \A u \in Threads : thread'[u].id # i
      BY <1>1, <1>2 DEF Approvals, Approval, Request
    <2> QED
      BY <1>2, <2>1 DEF Approvals, Approval, Request, At
  <1>3. CASE i # j
    <2>1. /\ thread'[t].id # i /\ Request(t) # i
          /\ pending'[i] = pending[i] /\ begun'[i] = begun[i]
          /\ i \in approving' <=> i \in approving
      BY <1>1, <1>3
    <2>2. \A u \in Threads : (thread'[u].id = i <=> Request(u) = i)
                             /\ (Request(u) = i => thread'[u] = thread[u])
      BY <2>1 DEF Request
    <2> QED
      BY <2>1, <2>2 DEF Approvals, Approval, Request, At
  <1> QED
    BY <1>2, <1>3

LEMMA RequestsPositive == Requests \subseteq Nat \ {0} /\ 0 \notin Requests
  BY ControlConstants DEF Requests

\* What the approval of a thread allows: none has begun before its call runs.
LEMMA ApprovalOf ==
  ASSUME Typed, Approvals, NEW t \in Threads, Request(t) \in Requests
  PROVE  /\ Request(t) \in approving /\ pending[Request(t)] # Nothing /\ Request(t) <= asked
         /\ ~At(t, "moving") => begun[Request(t)] = 0
         /\ begun[Request(t)] <= 1
         /\ ~(Request(t) > asked)
  <1> DEFINE i == Request(t)
  <1>1. Approval(i)
    BY DEF Approvals
  <1>2. asked \in Nat /\ i \in Nat
    <2>1. asked \in 0..MaxRequests /\ MaxRequests \in Nat
      BY ControlConstants DEF Typed, AskedTyped
    <2>2. asked \in Nat
      BY <2>1
    <2>3. i \in Nat
      BY RequestsPositive
    <2> QED
      BY <2>2, <2>3
  <1>3. /\ i \in approving /\ pending[i] # Nothing /\ i <= asked /\ begun[i] <= 1
        /\ \A u \in Threads : Request(u) = i => u = t
    BY <1>1 DEF Approval
  <1>4. ~At(t, "moving") => begun[i] = 0
    BY <1>1, <1>3 DEF Approval
  <1>5. ~(i > asked)
    BY <1>2, <1>3
  <1> QED
    BY <1>3, <1>4, <1>5

\* The end of a call that consumes its approval, begun or not.
LEMMA EndKeepsApprovals ==
  ASSUME Typed, Approvals, NEW t \in Threads, Ends(t, FALSE), UNCHANGED asked,
         \A i \in Requests : i # Request(t) => begun'[i] = begun[i],
         Request(t) \in Requests => begun'[Request(t)] <= 1
  PROVE  Approvals'
  <1>1. FALSE \in BOOLEAN
    OBVIOUS
  <1>2. /\ thread'[t] = Rest
        /\ \A u \in Threads \ {t} : thread'[u] = thread[u]
        /\ \A i \in Requests \ {Request(t)} : pending'[i] = pending[i]
        /\ \A i \in Requests : i = Request(t) => pending'[i] = Nothing
        /\ approving' = approving \ {Request(t)}
    BY <1>1, Ending
  <1>3. thread'[t].id = 0
    BY <1>2, RestTyped
  <1>4. \A i \in Requests : i # Request(t) => pending'[i] = pending[i] /\ begun'[i] = begun[i]
    BY <1>2
  <1>5. Request(t) \in Requests => pending'[Request(t)] = Nothing /\ begun'[Request(t)] <= 1
    BY <1>2
  <1>6. ~(Request(t) \in Requests /\ Request(t) > asked)
    BY ApprovalOf
  <1> QED
    BY <1>2, <1>3, <1>4, <1>5, <1>6, ApprovalConsumed, RequestsPositive

\* An execution that ends as it begins.
LEMMA BeginningKeepsApprovals ==
  ASSUME Typed, Approvals, NEW t \in Threads, At(t, "run"), Begins(t)
  PROVE  /\ \A i \in Requests : i # Request(t) => begun'[i] = begun[i]
         /\ Request(t) \in Requests => begun'[Request(t)] = 1
  <1>1. \A i \in Requests : begun'[i] = IF i = Request(t) THEN begun[i] + 1 ELSE begun[i]
    BY Beginning
  <1>2. Request(t) \in Requests => begun[Request(t)] = 0
    BY ApprovalOf DEF At
  <1> QED
    BY <1>1, <1>2

\* A thread takes up an approval, or none, and begins nothing.
LEMMA HandOver ==
  ASSUME Approvals, NEW t \in Threads, NEW r, UNCHANGED <<pending, asked, begun>>,
         ~At(t, "moving"), thread'[t].pc # "moving", thread'[t].id = r, 0 \notin Requests,
         \A u \in Threads \ {t} : thread'[u] = thread[u],
         \A i \in Requests : i \in approving /\ i # Request(t) => i \in approving',
         r \in Requests => /\ r \in approving' /\ pending[r] # Nothing
                           /\ \A u \in Threads \ {t} : Request(u) # r
  PROVE  Approvals'
  <1> SUFFICES ASSUME NEW i \in Requests PROVE Approval(i)'
    BY DEF Approvals
  <1>1. Approval(i)
    BY DEF Approvals
  <1>2. \A u \in Threads : u # t => Request(u)' = Request(u) /\ (At(u, "moving")' <=> At(u, "moving"))
    BY DEF Request, At
  <1>3. Request(t)' = r /\ ~At(t, "moving")'
    BY DEF Request, At
  <1>4. begun'[i] <= 1 /\ (pending'[i] # Nothing => i <= asked') /\ (i > asked' => begun'[i] = 0)
    BY <1>1 DEF Approval
  <1>5. ASSUME NEW u \in Threads, Request(u)' = i PROVE i \in approving' /\ pending'[i] # Nothing
    <2>1. CASE u = t
      BY <1>3, <1>5, <2>1
    <2>2. CASE u # t
      <3>1. Request(u) = i /\ i \in approving /\ pending[i] # Nothing
        BY <1>1, <1>2, <1>5, <2>2 DEF Approval
      <3>2. i # Request(t)
        BY <1>1, <2>2, <3>1 DEF Approval
      <3> QED
        BY <3>1, <3>2
    <2> QED
      BY <2>1, <2>2
  <1>6. ASSUME NEW u \in Threads, NEW v \in Threads, Request(u)' = i, Request(v)' = i PROVE u = v
    <2>1. CASE u # t /\ v # t
      BY <1>1, <1>2, <1>6, <2>1 DEF Approval
    <2>2. CASE u = t \/ v = t
      BY <1>2, <1>3, <1>6, <2>2
    <2> QED
      BY <2>1, <2>2
  <1>7. ASSUME pending'[i] # Nothing, \A u \in Threads : Request(u)' = i => ~At(u, "moving")'
        PROVE  begun'[i] = 0
    <2>1. \A u \in Threads : Request(u) = i => ~At(u, "moving")
      BY <1>2, <1>7
    <2> QED
      BY <1>1, <1>7, <2>1 DEF Approval
  <1> QED
    BY <1>4, <1>5, <1>6, <1>7 DEF Approval

LEMMA CallKeepsApprovals ==
  ASSUME Typed, Approvals, NEW t \in Threads, NEW a, NEW i \in {0} \cup Requests,
         a \in Acts, thread' = [thread EXCEPT ![t] = [pc |-> "check", act |-> a, id |-> i]],
         At(t, "rest"), UNCHANGED <<pending, asked, begun>>, approving \subseteq approving',
         i \in Requests => i \in approving' /\ Approvable(i)
  PROVE  Approvals'
  <1> DEFINE r == [pc |-> "check", act |-> a, id |-> i]
  <1>1. r \in Thread /\ r.id = i /\ r.pc = "check"
    BY CallTyped
  <1>2. thread'[t] = r /\ \A u \in Threads \ {t} : thread'[u] = thread[u]
    <2>1. thread' = [thread EXCEPT ![t] = r]
      OBVIOUS
    <2> HIDE DEF r
    <2> QED
      BY <1>1, <2>1, Moving
  <1>3. thread'[t].id = i /\ thread'[t].pc # "moving" /\ ~At(t, "moving")
    BY <1>1, <1>2 DEF At
  <1>4. i \in Requests => pending[i] # Nothing /\ \A u \in Threads \ {t} : Request(u) # i
    BY DEF Approvable, Approvals, Approval
  <1> QED
    BY <1>2, <1>3, <1>4, HandOver, RequestsPositive

LEMMA PassKeepsApprovals ==
  ASSUME Typed, Approvals, NEW t \in Threads, Passes(t)
  PROVE  Approvals'
  <1>1. /\ \A u \in Threads \ {t} : thread'[u] = thread[u]
        /\ thread'[t].pc = "run" /\ thread'[t].id = Request(t)
    BY Advancing DEF Passes
  <1>2. UNCHANGED <<pending, approving, asked, begun>> /\ ~At(t, "moving")
    BY DEF Passes, approvals, At
  <1>3. Request(t) \in Requests => \A u \in Threads \ {t} : Request(u) # Request(t)
    BY DEF Approvals, Approval
  <1> QED
    BY <1>1, <1>2, <1>3, ApprovalOf, HandOver, RequestsPositive

LEMMA SettingsKeepApprovals ==
  ASSUME Typed, Approvals, NEW t \in Threads, Settings(t), Busy
  PROVE  Approvals'
  <1>1. TRUE \in BOOLEAN /\ Busy = TRUE
    BY DEF Busy
  <1>2. Ends(t, TRUE) /\ UNCHANGED <<asked, begun>> /\ ~At(t, "moving")
    BY <1>1 DEF Settings, Running, At
  <1>3. /\ thread'[t] = Rest /\ pending' = pending
        /\ \A u \in Threads \ {t} : thread'[u] = thread[u]
        /\ approving' = approving \ {Request(t)}
    BY <1>1, <1>2, Ending
  <1>4. thread'[t].id = 0 /\ thread'[t].pc # "moving"
    BY <1>3, RestTyped
  <1> QED
    BY <1>2, <1>3, <1>4, HandOver, RequestsPositive

LEMMA AskingKeepsApprovals ==
  ASSUME Typed, Approvals, NEW t \in Threads, AsksApproval(t)
  PROVE  Approvals'
  <1> DEFINE n == asked + 1
  <1>1. /\ asked \in Nat /\ asked' = n /\ n \in Nat /\ n > asked
        /\ \A i \in Requests : i \in Nat
    <2>1. asked \in 0..MaxRequests /\ MaxRequests \in Nat
      BY ControlConstants DEF Typed, AskedTyped
    <2> QED
      BY <2>1, RequestsPositive DEF AsksApproval
  <1>2. /\ \A i \in Requests : i <= asked => i <= n /\ i # n
        /\ \A i \in Requests : i > n => i > asked
    BY <1>1
  <1>3. /\ \A i \in Requests : i # n => pending'[i] = pending[i]
        /\ UNCHANGED <<approving, begun>>
    BY DEF AsksApproval, Typed, PendingTyped
  <1>4. Request(t) = 0 /\ 0 \notin Requests /\ ~At(t, "moving")
    BY RequestsPositive DEF AsksApproval, Unapproved, At
  <1>5. /\ thread'[t].id = 0 /\ thread'[t].pc = "rest"
        /\ \A u \in Threads \ {t} : thread'[u] = thread[u]
    BY RestTyped, Moving DEF AsksApproval
  <1>6. \A u \in Threads : /\ Request(u)' = Request(u)
                           /\ At(u, "moving")' <=> At(u, "moving")
    BY <1>4, <1>5 DEF Request, At
  <1> SUFFICES ASSUME NEW i \in Requests PROVE Approval(i)'
    BY DEF Approvals
  <1>7. Approval(i)
    BY DEF Approvals
  <1> HIDE DEF n
  <1>8. CASE i = n
    <2>1. i > asked /\ ~(i <= asked) /\ i <= n /\ ~(i > n)
      BY <1>1, <1>8
    <2>2. begun[i] = 0 /\ \A u \in Threads : Request(u) # i
      BY <1>7, <2>1 DEF Approval
    <2> QED
      BY <1>1, <1>3, <1>6, <2>1, <2>2 DEF Approval
  <1>9. CASE i # n
    <2>1. pending'[i] = pending[i]
      BY <1>3, <1>9
    <2> QED
      BY <1>1, <1>2, <1>3, <1>6, <1>7, <2>1 DEF Approval
  <1> QED
    BY <1>8, <1>9

LEMMA MotionKeepsApprovals ==
  ASSUME Typed, Approvals, NEW t \in Threads, StartMotion(t)
  PROVE  Approvals'
  <1>1. /\ \A u \in Threads \ {t} : thread'[u] = thread[u]
        /\ thread'[t].pc = "moving" /\ thread'[t].id = Request(t)
    BY Advancing DEF StartMotion
  <1>2. UNCHANGED <<pending, approving, asked>> /\ At(t, "run") /\ Begins(t)
    BY DEF StartMotion, Running
  <1>3. \A u \in Threads : Request(u)' = Request(u)
    BY <1>1 DEF Request
  <1>4. \A u \in Threads : At(u, "moving") => At(u, "moving")'
    BY <1>1, <1>2 DEF At
  <1> SUFFICES ASSUME NEW i \in Requests PROVE Approval(i)'
    BY DEF Approvals
  <1>5. Approval(i)
    BY DEF Approvals
  <1>6. CASE i = Request(t)
    <2>1. /\ i \in approving /\ pending[i] # Nothing /\ i <= asked /\ ~(i > asked)
          /\ begun'[i] = 1 /\ At(t, "moving")'
      BY <1>1, <1>2, <1>6, ApprovalOf, BeginningKeepsApprovals DEF At
    <2> QED
      BY <1>2, <1>3, <1>5, <1>6, <2>1 DEF Approval
  <1>7. CASE i # Request(t)
    <2>1. begun'[i] = begun[i]
      BY <1>2, <1>7, BeginningKeepsApprovals
    <2>2. \A u \in Threads : Request(u) = i => (At(u, "moving")' <=> At(u, "moving"))
      BY <1>1, <1>7 DEF At
    <2> QED
      BY <1>2, <1>3, <1>5, <2>1, <2>2 DEF Approval
  <1> QED
    BY <1>6, <1>7

LEMMA ToolKeepsApprovals ==
  ASSUME Typed, Approvals, NEW t \in Threads, Tool(t)
  PROVE  Approvals'
  <1>1. ASSUME NEW a \in Acts, Call(t, a) PROVE Approvals'
    BY <1>1, CallKeepsApprovals, RequestsPositive DEF Call, approvals
  <1>2. ASSUME NEW i \in Requests, Approve(t, i) PROVE Approvals'
    <2>1. pending[i] \in Acts
      BY <1>2 DEF Approve, Approvable, Typed, PendingTyped
    <2> QED
      BY <1>2, <2>1, CallKeepsApprovals DEF Approve
  <1>3. ASSUME Ends(t, FALSE), UNCHANGED <<asked, begun>> PROVE Approvals'
    <2>1. Request(t) \in Requests => begun'[Request(t)] <= 1
      BY <1>3, ApprovalOf
    <2> QED
      BY <1>3, <2>1, EndKeepsApprovals
  <1>4. ASSUME At(t, "run"), Ends(t, FALSE), Begins(t), UNCHANGED asked PROVE Approvals'
    <2>1. Request(t) \in Requests => begun'[Request(t)] <= 1
      BY <1>4, BeginningKeepsApprovals
    <2> QED
      BY <1>4, <2>1, BeginningKeepsApprovals, EndKeepsApprovals
  <1>5. CASE Refused(t) \/ EndMotion(t)
    BY <1>3, <1>5 DEF Refused, EndMotion
  <1>6. CASE Errs(t) \/ StartNode(t) \/ OpenViewer(t) \/ Spawn(t)
    BY <1>4, <1>6 DEF Errs, StartNode, OpenViewer, Spawn, Running
  <1>7. CASE Settings(t)
    <2>1. CASE Busy
      BY <1>7, <2>1, SettingsKeepApprovals
    <2>2. CASE ~Busy
      <3>1. Busy = FALSE
        BY <2>2 DEF Busy
      <3> QED
        BY <1>4, <1>7, <3>1 DEF Settings, Running
    <2> QED
      BY <2>1, <2>2
  <1>8. CASE Advance(t)
    BY <1>8, ApprovalsKept DEF Advance, approvals, Request, At
  <1> QED
    BY <1>1, <1>2, <1>5, <1>6, <1>7, <1>8, AskingKeepsApprovals, PassKeepsApprovals, MotionKeepsApprovals
    DEF Tool

LEMMA OperatorKeepsApprovals ==
  ASSUME Typed, Approvals, Operator
  PROVE  Approvals'
  <1>1. ASSUME UNCHANGED <<approvals, thread>> PROVE Approvals'
    BY <1>1, ApprovalsKept DEF approvals, Request, At
  <1>2. ASSUME NEW i \in Requests, Reject(i) PROVE Approvals'
    <2>1. /\ \A k \in Requests : k # i => pending'[k] = pending[k]
          /\ pending'[i] = Nothing /\ i \notin approving
          /\ UNCHANGED <<approving, asked, begun, thread>>
      BY <1>2 DEF Reject, Approvable, Typed, PendingTyped
    <2> SUFFICES ASSUME NEW k \in Requests PROVE Approval(k)'
      BY DEF Approvals
    <2>2. Approval(k)
      BY DEF Approvals
    <2> QED
      BY <2>1, <2>2 DEF Approval, Request, At
  <1> QED
    BY <1>1, <1>2 DEF Operator, Permissions, Profile, EnforceViewer, EnforceNodes, AllowMotion,
                      Stop, StopViewer, StopDenies, StopLists, StopCancels, StopReturns

-----------------------------------------------------------------------------
(* The body stands still. *)

LEMMA StandstillKept ==
  ASSUME Standstill, UNCHANGED <<console, motionStop, halted>>
  PROVE  Standstill'
  BY DEF Standstill

LEMMA OperatorKeepsStandstill ==
  ASSUME Typed, Standstill, Operator
  PROVE  Standstill'
  <1>1. CASE Permissions \/ Profile
    <2>1. PICK cmd \in {"rules", "allow motion"} : Command(cmd)
      BY <1>1 DEF Permissions, Profile
    <2>2. console'.pc = "viewer" /\ console'.cmd = cmd
      BY <2>1, Going DEF Command
    <2>3. UNCHANGED <<motionStop, halted>>
      BY <1>1 DEF Permissions, Profile, motion, ghosts
    <2> QED
      BY <2>1, <2>2, <2>3 DEF Standstill
  <1>2. CASE EnforceViewer \/ StopViewer \/ StopDenies
    <2>1. /\ Console("viewer") \/ Console("close") \/ Console("deny")
          /\ console'.pc \in {"nodes", "deny", "viewer"} /\ console'.cmd = console.cmd
          /\ Console("viewer") => console'.pc = "nodes"
          /\ UNCHANGED <<motionStop, halted>>
      BY <1>2, Going DEF EnforceViewer, StopViewer, StopDenies, Console, motion, ghosts
    <2> QED
      BY <2>1 DEF Standstill, Console
  <1>3. CASE EnforceNodes
    <2>1. /\ console'.cmd = console.cmd /\ Console("nodes") /\ UNCHANGED <<motionStop, halted>>
          /\ console'.pc = IF console.cmd = "stop" THEN "list"
                           ELSE IF console.cmd = "allow motion" THEN "clear" ELSE "prompt"
      BY <1>3, Going DEF EnforceNodes, Console, motion, ghosts
    <2> QED
      BY <2>1 DEF Standstill, Console
  <1>4. CASE AllowMotion
    BY <1>4, Going DEF AllowMotion, Standstill
  <1>5. CASE Stop
    <2>1. console'.pc = "close" /\ console'.cmd = "stop" /\ motionStop' = TRUE
      BY <1>5, Going DEF Stop
    <2> QED
      BY <2>1 DEF Standstill
  <1>6. CASE StopLists \/ StopCancels
    <2>1. /\ Console("list") \/ Console("cancel")
          /\ console'.pc = "cancel" /\ console'.cmd = console.cmd
          /\ UNCHANGED <<motionStop, halted>>
      BY <1>6 DEF StopLists, StopCancels, Typed, ConsoleTyped, Order, Console, motion, ghosts
    <2> QED
      BY <2>1 DEF Standstill, Console
  <1>7. CASE StopReturns
    BY <1>7, Going DEF StopReturns, Standstill, Console, motion
  <1>8. CASE \E i \in Requests : Reject(i)
    BY <1>8, StandstillKept DEF Reject, motion, ghosts
  <1> QED
    BY <1>1, <1>2, <1>3, <1>4, <1>5, <1>6, <1>7, <1>8 DEF Operator

-----------------------------------------------------------------------------
(* The rules and the nodes. *)

LEMMA ToolStepKeepsNodeRules ==
  ASSUME NodeRules, NEW t \in Threads, UNCHANGED <<gate, console>>,
         \A u \in Threads \ {t} : thread'[u] = thread[u],
         \A u \in Threads \ {t} : nodeLock = u => nodeLock' = u,
         Starting(t)' => nodeLock' = t,
         Starting(t)' /\ At(t, "run")' => ~Blocked("node_start"),
         ~Enforcing /\ Forbidden => node = "none" /\ node' = "none"
  PROVE  NodeRules'
  <1>1. /\ Enforcing' = Enforcing /\ Forbidden' = Forbidden
        /\ Blocked("node_start")' = Blocked("node_start")
    BY DEF Enforcing, Forbidden, Blocked, gate
  <1>2. \A u \in Threads : u # t => /\ Starting(u)' <=> Starting(u)
                                    /\ At(u, "run")' <=> At(u, "run")
    BY DEF Starting, At, Act
  <1>3. \A u \in Threads : Starting(u)' => nodeLock' = u
    BY <1>2 DEF NodeRules
  <1>4. ASSUME ~Enforcing, NEW u \in Threads, Starting(u)', At(u, "run")' PROVE ~Blocked("node_start")
    BY <1>2, <1>4 DEF NodeRules
  <1> QED
    BY <1>1, <1>3, <1>4 DEF NodeRules

\* No other thread starts a node than the one that has nodes.lock.
LEMMA Locks ==
  ASSUME NodeRules, NEW t \in Threads
  PROVE  /\ Leaves(t) => \A u \in Threads \ {t} : nodeLock = u => nodeLock' = u
         /\ \A a : Takes(t, a) => /\ \A u \in Threads \ {t} : nodeLock = u => nodeLock' = u
                                  /\ HoldsNodes(a) => nodeLock' = t
         /\ ~Enforcing /\ Forbidden => node = "none"
  BY ControlConstants DEF Leaves, Takes, NodeRules

LEMMA EndKeepsNodeRules ==
  ASSUME Typed, NodeRules, NEW t \in Threads, UNCHANGED <<gate, console>>,
         thread' = [thread EXCEPT ![t] = Rest], Leaves(t) \/ UNCHANGED nodeLock,
         ~Enforcing /\ Forbidden => node' = "none"
  PROVE  NodeRules'
  <1>1. thread'[t].pc = "rest" /\ \A u \in Threads \ {t} : thread'[u] = thread[u]
    BY RestTyped, Moving
  <1>2. ~Starting(t)'
    BY <1>1 DEF Starting
  <1> QED
    BY <1>1, <1>2, Locks, ToolStepKeepsNodeRules

LEMMA CallKeepsNodeRules ==
  ASSUME Typed, NodeRules, NEW t \in Threads, UNCHANGED <<gate, console, node>>,
         NEW a \in Acts, NEW i \in {0} \cup Requests, Takes(t, a),
         thread' = [thread EXCEPT ![t] = [pc |-> "check", act |-> a, id |-> i]]
  PROVE  NodeRules'
  <1> DEFINE r == [pc |-> "check", act |-> a, id |-> i]
  <1>1. r \in Thread /\ r.act = a /\ r.pc = "check"
    BY CallTyped
  <1>2. thread'[t] = r /\ \A u \in Threads \ {t} : thread'[u] = thread[u]
    <2>1. thread' = [thread EXCEPT ![t] = r]
      OBVIOUS
    <2> HIDE DEF r
    <2> QED
      BY <1>1, <2>1, Moving
  <1>3. /\ Starting(t)' => HoldsNodes(a)
        /\ ~At(t, "run")'
    BY <1>1, <1>2 DEF Starting, At, Act, HoldsNodes
  <1> QED
    BY <1>2, <1>3, Locks, ToolStepKeepsNodeRules

LEMMA ToolKeepsNodeRules ==
  ASSUME Typed, NodeRules, NEW t \in Threads, Tool(t)
  PROVE  NodeRules'
  <1>1. ASSUME NEW a \in Acts, Call(t, a) PROVE NodeRules'
    BY <1>1, CallKeepsNodeRules DEF Call, things
  <1>2. ASSUME NEW i \in Requests, Approve(t, i) PROVE NodeRules'
    <2>1. pending[i] \in Acts
      BY <1>2 DEF Approve, Approvable, Typed, PendingTyped
    <2> QED
      BY <1>2, <2>1, CallKeepsNodeRules DEF Approve, things
  <1>3. CASE Refused(t) \/ AsksApproval(t) \/ Errs(t) \/ OpenViewer(t) \/ Spawn(t) \/ Settings(t)
             \/ EndMotion(t)
    <2>1. /\ thread' = [thread EXCEPT ![t] = Rest] /\ UNCHANGED <<gate, console, node>>
          /\ Leaves(t) \/ UNCHANGED nodeLock
      BY <1>3 DEF Refused, AsksApproval, Errs, OpenViewer, Spawn, Settings, EndMotion, Ends, things
    <2> QED
      BY <2>1, Locks, EndKeepsNodeRules
  <1>4. CASE StartNode(t)
    <2>1. /\ thread' = [thread EXCEPT ![t] = Rest] /\ UNCHANGED <<gate, console>> /\ Leaves(t)
          /\ node' = IF rule["move_sim"] = "deny" THEN node ELSE "alive"
      BY <1>4 DEF StartNode, Ends
    <2>2. Starting(t) /\ At(t, "run")
      BY <1>4 DEF StartNode, Running, Starting, At, HoldsNodes
    <2>3. ~Enforcing => ~Blocked("node_start")
      BY <2>2 DEF NodeRules
    <2>4. ~Enforcing /\ Forbidden => rule["move_sim"] = "deny"
      BY <2>3 DEF Blocked, Forbidden, PlanBlocked, Acts
    <2> QED
      BY <2>1, <2>4, Locks, EndKeepsNodeRules
  <1>5. CASE Passes(t)
    <2>1. /\ \A u \in Threads \ {t} : thread'[u] = thread[u]
          /\ thread'[t].pc = "run" /\ thread'[t].act = Act(t)
      BY <1>5, Advancing DEF Passes
    <2>2. UNCHANGED <<gate, console, node, nodeLock>> /\ At(t, "check") /\ ~Blocked(Act(t))
      BY <1>5 DEF Passes, things
    <2>3. Starting(t)' => Starting(t) /\ Act(t) = "node_start"
      BY <2>1, <2>2 DEF Starting, At, Act, HoldsNodes
    <2>4. Starting(t)' => nodeLock' = t
      BY <2>2, <2>3 DEF NodeRules
    <2> QED
      BY <2>1, <2>2, <2>3, <2>4, Locks, ToolStepKeepsNodeRules
  <1>6. CASE StartMotion(t)
    <2>1. /\ \A u \in Threads \ {t} : thread'[u] = thread[u]
          /\ thread'[t].pc = "moving"
      BY <1>6, Advancing DEF StartMotion
    <2>2. ~Starting(t)'
      BY <2>1 DEF Starting
    <2>3. UNCHANGED <<gate, console, node, nodeLock>>
      BY <1>6 DEF StartMotion, things
    <2> QED
      BY <2>1, <2>2, <2>3, Locks, ToolStepKeepsNodeRules
  <1>7. CASE Advance(t)
    BY <1>7 DEF Advance, NodeRules, Enforcing, Forbidden, Blocked, Starting, At, Act, gate, things
  <1> QED
    BY <1>1, <1>2, <1>3, <1>4, <1>5, <1>6, <1>7 DEF Tool

LEMMA OperatorKeepsNodeRules ==
  ASSUME Typed, NodeRules, Operator
  PROVE  NodeRules'
  <1>1. ASSUME UNCHANGED <<thread, nodeLock>>, Enforcing' PROVE NodeRules'
    BY <1>1 DEF NodeRules, Starting, Act
  <1>2. ASSUME UNCHANGED <<gate, thread, nodeLock, node>>, ~Enforcing PROVE NodeRules'
    BY <1>2 DEF NodeRules, Starting, Act, At, Forbidden, Blocked, gate
  <1>3. CASE Permissions \/ Profile
    <2>1. PICK cmd \in {"rules", "allow motion"} : Command(cmd)
      BY <1>3 DEF Permissions, Profile
    <2>2. console'.pc = "viewer"
      BY <2>1, Going DEF Command
    <2> QED
      BY <1>1, <1>3, <2>2 DEF Permissions, Profile, Enforcing
  <1>4. CASE EnforceViewer \/ StopViewer \/ StopDenies
    <2>1. console'.pc \in {"nodes", "deny", "viewer"}
      BY <1>4, Going DEF EnforceViewer, StopViewer, StopDenies
    <2> QED
      BY <1>1, <1>4, <2>1 DEF EnforceViewer, StopViewer, StopDenies, Enforcing
  <1>5. CASE EnforceNodes
    <2>1. /\ nodeLock = Nothing /\ UNCHANGED <<gate, thread, nodeLock>>
          /\ Forbidden => node' = "none"
      BY <1>5 DEF EnforceNodes
    <2>2. \A t \in Threads : ~Starting(t)
      BY <2>1, ControlConstants DEF NodeRules
    <2>3. \A t \in Threads : ~Starting(t)'
      BY <2>1, <2>2 DEF Starting, Act
    <2>4. Forbidden' = Forbidden
      BY <2>1 DEF Forbidden, gate
    <2> QED
      BY <2>1, <2>3, <2>4 DEF NodeRules
  <1>6. CASE Stop
    <2>1. console'.pc = "close"
      BY <1>6, Going DEF Stop
    <2> QED
      BY <1>1, <1>6, <2>1 DEF Stop, Enforcing
  <1>7. CASE AllowMotion \/ StopLists \/ StopCancels \/ StopReturns
    <2>1. ~Enforcing
      BY <1>7 DEF AllowMotion, StopLists, StopCancels, StopReturns, Console, Enforcing
    <2> QED
      BY <1>2, <1>7, <2>1 DEF AllowMotion, StopLists, StopCancels, StopReturns, things
  <1>8. CASE \E i \in Requests : Reject(i)
    BY <1>8 DEF Reject, NodeRules, Enforcing, Forbidden, Blocked, Starting, At, Act, gate, things
  <1> QED
    BY <1>3, <1>4, <1>5, <1>6, <1>7, <1>8 DEF Operator

-----------------------------------------------------------------------------
(* The theorems. *)

LEMMA InitEstablishes == Init => ControlInv
  <1> SUFFICES ASSUME Init PROVE ControlInv
    OBVIOUS
  <1>1. /\ GateTyped /\ PendingTyped /\ AskedTyped /\ BegunTyped /\ FlagsTyped /\ MoverTyped
        /\ LockTyped /\ NodeTyped /\ ViewerTyped /\ SubTyped
    <2>1. GateTyped /\ PendingTyped /\ BegunTyped /\ SubTyped
      BY DEF Init, GateTyped, PendingTyped, BegunTyped, SubTyped, Defaults
    <2>2. AskedTyped
      BY ControlConstants DEF Init, AskedTyped
    <2> QED
      BY <2>1, <2>2 DEF Init, FlagsTyped, MoverTyped, LockTyped, NodeTyped, ViewerTyped
  <1>2. ThreadsTyped /\ ConsoleTyped
    BY RestTyped DEF Init, ThreadsTyped, ConsoleTyped, Order, Prompt
  <1>3. TypeOK
    BY <1>1, <1>2, TypeParts DEF Typed
  <1>4. \A t \in Threads : thread[t].id = 0 /\ thread[t].pc = "rest"
    BY RestTyped DEF Init
  <1>5. Approvals
    BY <1>4, RequestsPositive DEF Init, Approvals, Approval, Request, At
  <1>6. Standstill
    BY DEF Init, Standstill, Prompt
  <1>7. NodeRules
    BY <1>4 DEF Init, NodeRules, Starting
  <1> QED
    BY <1>3, <1>5, <1>6, <1>7 DEF ControlInv

LEMMA NextKeeps == ControlInv /\ [Next]_vars => ControlInv'
  <1> SUFFICES ASSUME ControlInv, [Next]_vars PROVE ControlInv'
    OBVIOUS
  <1>0. Typed /\ Approvals /\ Standstill /\ NodeRules
    BY TypeParts DEF ControlInv
  <1>1. Typed' => TypeOK'
    BY TypeParts, PTL
  <1>2. ASSUME NEW t \in Threads, Tool(t) PROVE ControlInv'
    <2>1. UNCHANGED <<console, motionStop, halted>>
      BY <1>2 DEF Tool, Call, Approve, Refused, AsksApproval, Passes, Errs, StartNode, OpenViewer,
                  Spawn, Settings, StartMotion, Advance, EndMotion, motion, ghosts
    <2> QED
      BY <1>0, <1>1, <1>2, <2>1, ToolTyped, ToolKeepsApprovals, StandstillKept, ToolKeepsNodeRules
      DEF ControlInv
  <1>3. ASSUME NEW s \in Subs, SubStarts(s) \/ SubEnds(s) PROVE ControlInv'
    <2>1. UNCHANGED <<gate, approvals, motion, nodeLock, node, thread, console, ghosts>>
      BY <1>3 DEF SubStarts, SubEnds
    <2>2. Approvals' /\ Standstill'
      BY <1>0, <2>1, ApprovalsKept, StandstillKept DEF approvals, motion, ghosts, Request, At
    <2>3. NodeRules'
      BY <1>0, <2>1 DEF NodeRules, Enforcing, Forbidden, Blocked, Starting, At, Act, gate
    <2> QED
      BY <1>0, <1>1, <1>3, <2>2, <2>3, SubKeepsTypes DEF ControlInv
  <1>4. CASE Operator
    BY <1>0, <1>1, <1>4, OperatorTyped, OperatorKeepsApprovals, OperatorKeepsStandstill,
       OperatorKeepsNodeRules DEF ControlInv
  <1>5. CASE UNCHANGED vars
    <2>1. UNCHANGED <<gate, approvals, motion, nodeLock, things, thread, console, ghosts>>
      BY <1>5 DEF vars
    <2>2. Typed'
      BY <1>0, <2>1, Frames DEF Typed
    <2>3. Approvals' /\ Standstill'
      BY <1>0, <2>1, ApprovalsKept, StandstillKept DEF approvals, motion, ghosts, Request, At
    <2>4. NodeRules'
      BY <1>0, <2>1 DEF NodeRules, Enforcing, Forbidden, Blocked, Starting, At, Act, gate, things
    <2> QED
      BY <1>1, <2>2, <2>3, <2>4 DEF ControlInv
  <1> QED
    BY <1>2, <1>3, <1>4, <1>5 DEF Next

LEMMA InvariantIsSound == ControlInv => ControlIsSound
  <1> SUFFICES ASSUME ControlInv PROVE ControlIsSound
    OBVIOUS
  <1>1. ApprovedOnce
    BY DEF ControlInv, Approvals, Approval, ApprovedOnce
  <1>2. NoMotionAfterStop
    BY DEF ControlInv, Standstill, NoMotionAfterStop, MayStep
  <1>3. NoForbiddenNode
    BY DEF ControlInv, NodeRules, Enforcing, NoForbiddenNode, Console
  <1> QED
    BY <1>1, <1>2, <1>3 DEF ControlInv, ControlIsSound

(* The invariant holds whatever the threads, the broker and the operator do. *)
THEOREM ControlInvariant == Spec => []ControlInv
  BY InitEstablishes, NextKeeps, PTL DEF Spec

(* The operator is obeyed (permissions.py, control.py): an approval is good for one
   execution however often and by whomever it is given, once /stop has returned no
   simulated joint moves until motion is allowed again, and when a command has
   returned no node lives that the rules forbid.                              *)
THEOREM ControlSound == Spec => []ControlIsSound
  BY ControlInvariant, InvariantIsSound, PTL

-----------------------------------------------------------------------------
(* Numbers. *)

\* Numbers have a least one, since < is well founded.
LEMMA LeastExists ==
  ASSUME NEW S \in SUBSET Nat, S # {}
  PROVE  \E x \in S : \A y \in S : x <= y
  <1>1. PICK x \in S : \A y \in S : ~ (<<y, x>> \in OpToRel(<, Nat))
    BY WFMin, NatLessThanWellFounded
  <1>2. ASSUME NEW y \in S PROVE x <= y
    <2>1. <<y, x>> \in Nat \X Nat /\ ~(<<y, x>> \in OpToRel(<, Nat))
      BY <1>1
    <2>2. ~(y < x)
      BY <2>1 DEF OpToRel
    <2> QED BY <2>2
  <1> QED BY <1>2

\* Numbers below a bound have a greatest one, the one that is least far from it.
LEMMA GreatestExists ==
  ASSUME NEW n \in Nat, NEW S \in SUBSET Nat, S # {}, \A x \in S : x <= n
  PROVE  \E x \in S : \A y \in S : x >= y
  <1> DEFINE T == {k \in Nat : \E x \in S : k = n - x}
  <1>1. \A x \in S : n - x \in T
    OBVIOUS
  <1>2. PICK k \in T : \A j \in T : k <= j
    BY <1>1, LeastExists
  <1>3. PICK x \in S : k = n - x
    OBVIOUS
  <1>4. ASSUME NEW y \in S PROVE x >= y
    <2>1. k <= n - y
      BY <1>1, <1>2
    <2> QED BY <2>1, <1>3
  <1> QED BY <1>4

-----------------------------------------------------------------------------
(* Memory. *)

MemoryKinds == {"detail", "procedure", "success"}
MemoryItem == [at: Nat, status: {"absent", "kept", "reusable", "needs_review"}, sources: Seq(Nat)]
ProcedureRun == [ok: BOOLEAN, at: Nat, row: Nat]
MemorySteps == {"idle", "record", "import", "importing", "mark", "retain", "run", "promote", "suspend",
                "connect", "reread", "keep", "looked"}
MemoryJob == [at: MemorySteps, task: Tasks \cup {0}, attempt: Nat, ok: BOOLEAN, row: Nat, seen: Nat,
              todo: SUBSET ProcedureRun]
ExperienceRow == [task: Tasks \cup {0}, attempt: Nat, ok: BOOLEAN, at: Nat]

MemoryCounted == now \in Nat /\ jobs \in Nat /\ stops \in Nat /\ success \in Nat /\ success <= now /\ now >= 1
MemoryJobs == work \in [Processes -> MemoryJob]
MemoryItems ==
  /\ item \in [detail: MemoryItem, procedure: MemoryItem, success: MemoryItem]
  /\ \A k \in MemoryKinds : item[k].at <= now /\ Len(item[k].sources) <= 3
MemoryRows ==
  /\ experience \subseteq ExperienceRow /\ Memory!Old \in experience
  /\ \A r \in experience : r.attempt <= jobs /\ r.at <= now
  /\ \A r, q \in experience : r.task = q.task /\ r.attempt = q.attempt => r = q
MemoryFlags == imported \in BOOLEAN /\ knows \subseteq Processes

\* What a job carries was so when it was read
MemoryCarried ==
  /\ item.success.at <= success
  /\ \A p \in Processes : /\ work[p].attempt <= jobs /\ work[p].row <= now
                          /\ work[p].at = "keep" => work[p].seen <= success

\* A task of which a run counts as verified is one of those that were verified;
\* three of them are behind whatever was found reusable.
MemoryEarned ==
  /\ IsFiniteSet(earned) /\ earned \subseteq Tasks
  /\ DOMAIN runs \subseteq Tasks /\ runs \in [DOMAIN runs -> ProcedureRun]
  /\ \A k \in DOMAIN runs : runs[k].ok => k \in earned
  /\ \A p \in Processes : /\ work[p].at \notin {"idle", "looked"} => work[p].task \in Tasks
                          /\ work[p].ok => work[p].task \in earned
                          /\ work[p].at = "promote" => Cardinality(earned) >= 3
  /\ item.procedure.status = "reusable" => Cardinality(earned) >= 3

\* While the newest success is not the one in memory, somebody is about to save it
MemoryBehind ==
  stops = 0 => \/ item.success.at = success
               \/ \E p \in Processes : \/ work[p].at = "reread"
                                       \/ work[p].at = "keep" /\ work[p].seen = success

MemoryNotes ==
  /\ notes \in Seq([on: Nat, active: BOOLEAN])
  /\ \A n \in DOMAIN notes : notes[n].on = n - 1

MemoryInv ==
  /\ MemoryCounted /\ MemoryJobs /\ MemoryItems /\ MemoryRows /\ MemoryFlags
  /\ MemoryCarried /\ MemoryEarned /\ MemoryBehind /\ MemoryNotes

\* Instances count alike.
LEMMA MemoryCardinality == ASSUME NEW S PROVE Memory!Cardinality(S) = Cardinality(S)
  BY DEF Memory!Cardinality, Cardinality

\* The invariant gives the properties of a state.
LEMMA MemoryInvSuffices ==
  ASSUME MemoryInv
  PROVE  Memory!TypeOK /\ Memory!ProcedureIsEarned /\ Memory!MemoryIsNewest /\ Memory!NotesAreLinear
  <1>1. Memory!TypeOK
    BY DEF MemoryInv, MemoryItems, MemoryRows, MemoryFlags, MemoryEarned, MemoryCounted, Memory!TypeOK, MemoryKinds
  <1>2. Memory!ProcedureIsEarned
    BY MemoryCardinality DEF MemoryInv, MemoryEarned, Memory!ProcedureIsEarned, Memory!Recalled
  <1>3. Memory!MemoryIsNewest
    BY DEF MemoryInv, MemoryBehind, Memory!MemoryIsNewest
  <1>4. Memory!NotesAreLinear
    BY DEF MemoryInv, MemoryNotes, Memory!NotesAreLinear
  <1> QED BY <1>1, <1>2, <1>3, <1>4

\* A terminal that has just been installed satisfies the invariant.
LEMMA MemoryInitially == Memory!Init => MemoryInv
  <1> SUFFICES ASSUME Memory!Init PROVE MemoryInv
    OBVIOUS
  <1> USE DEF Memory!Init
  <1>1. MemoryCounted
    BY DEF MemoryCounted
  <1>2. MemoryJobs
    BY DEF MemoryJobs, MemoryJob, MemorySteps, Memory!Idle
  <1>3. MemoryItems
    <2>1. Memory!None \in MemoryItem /\ Memory!None.at = 0 /\ Len(Memory!None.sources) = 0
      BY DEF Memory!None, MemoryItem
    <2> HIDE DEF Memory!None
    <2> QED BY <2>1 DEF MemoryItems, MemoryKinds
  <1>4. MemoryRows
    BY DEF MemoryRows, ExperienceRow, Memory!Old
  <1>5. MemoryFlags /\ MemoryCarried
    <2>1. MemoryFlags
      BY DEF MemoryFlags
    <2>2. MemoryCarried
      BY DEF MemoryCarried, Memory!Idle, Memory!None
    <2> QED BY <2>1, <2>2
  <1>6. MemoryEarned
    BY FS_EmptySet DEF MemoryEarned, Memory!Idle, Memory!None
  <1>7. MemoryBehind
    BY DEF MemoryBehind, Memory!None
  <1>8. MemoryNotes
    BY DEF MemoryNotes
  <1> QED BY <1>1, <1>2, <1>3, <1>4, <1>5, <1>6, <1>7, <1>8 DEF MemoryInv

\* What a save leaves: the other items, and of this one the later time
LEMMA MemorySaved ==
  ASSUME MemoryItems, now \in Nat, now' \in Nat, now <= now',
         NEW k \in MemoryKinds, NEW when \in Nat, when <= now,
         NEW status \in {"kept", "reusable"}, NEW source \in Nat,
         Memory!Saved(k, when, status, source)
  PROVE  /\ MemoryItems'
         /\ \A j \in MemoryKinds : item'[j].at >= item[j].at
         /\ \A j \in MemoryKinds \ {k} : item'[j] = item[j]
         /\ item'[k].at = IF item[k].at <= when THEN when ELSE item[k].at
         /\ item'[k].status \in {item[k].status, status}
  <1> DEFINE all == IF Memory!Contains(item[k].sources, source) THEN item[k].sources ELSE Append(item[k].sources, source)
             last == IF Len(all) > 3 THEN Tail(all) ELSE all
             new == [at |-> when, status |-> status, sources |-> last]
  <1>1. item[k] \in MemoryItem /\ item[k].sources \in Seq(Nat) /\ Len(item[k].sources) <= 3
    BY DEF MemoryItems, MemoryKinds, MemoryItem
  <1>2. all \in Seq(Nat) /\ Len(all) <= 4
    <2>1. Append(item[k].sources, source) \in Seq(Nat) /\ Len(Append(item[k].sources, source)) = Len(item[k].sources) + 1
      BY <1>1
    <2>2. Len(item[k].sources) \in Nat
      BY <1>1
    <2> QED BY <1>1, <2>1, <2>2
  <1>3. last \in Seq(Nat) /\ Len(last) <= 3
    <2> HIDE DEF all
    <2>1. Len(all) > 3 => Tail(all) \in Seq(Nat) /\ Len(Tail(all)) = Len(all) - 1
      BY <1>2
    <2> QED BY <1>2, <2>1
  <1>4. new \in MemoryItem
    BY <1>3 DEF MemoryItem
  <1>5. item' = IF item[k].at <= when THEN [item EXCEPT ![k] = new] ELSE item
    BY DEF Memory!Saved, Memory!Newer
  <1> HIDE DEF all, last
  <1>6. item \in [MemoryKinds -> MemoryItem]
    BY DEF MemoryItems, MemoryKinds
  <1>7. item' \in [MemoryKinds -> MemoryItem] /\ \A j \in MemoryKinds \ {k} : item'[j] = item[j]
    BY <1>4, <1>5, <1>6
  <1>8. item'[k] = IF item[k].at <= when THEN new ELSE item[k]
    BY <1>5, <1>6
  <1>9. ASSUME NEW j \in MemoryKinds PROVE item'[j].at >= item[j].at /\ item'[j].at <= now' /\ Len(item'[j].sources) <= 3
    <2>1. item[j].at \in Nat /\ item[j].at <= now /\ Len(item[j].sources) <= 3
      BY <1>6 DEF MemoryItems, MemoryItem
    <2>2. CASE j = k
      BY <2>1, <2>2, <1>8, <1>3
    <2>3. CASE j # k
      BY <2>1, <2>3, <1>7
    <2> QED BY <2>2, <2>3
  <1>10. item' \in [detail: MemoryItem, procedure: MemoryItem, success: MemoryItem]
    BY <1>7 DEF MemoryKinds
  <1>11. MemoryItems'
    BY <1>9, <1>10 DEF MemoryItems
  <1>12. item'[k].status \in {item[k].status, status} /\ item'[k].at = IF item[k].at <= when THEN when ELSE item[k].at
    BY <1>8
  <1> QED BY <1>7, <1>9, <1>11, <1>12

\* A process takes one of its steps
MemoryDoes(p) ==
  \/ \E k \in Tasks, ok \in BOOLEAN : Memory!Report(p, k, ok)
  \/ Memory!Insert(p) \/ Memory!Import(p) \/ Memory!Importing(p) \/ Memory!Mark(p) \/ Memory!Retain(p)
  \/ Memory!Run(p) \/ Memory!Promote(p) \/ Memory!Suspend(p)
  \/ Memory!Connect(p) \/ Memory!Reread(p) \/ Memory!Keep(p) \/ Memory!Look(p) \/ Memory!Revise(p) \/ Memory!Stop(p)

\* Counters and times go forward.
LEMMA MemoryCountedStep ==
  ASSUME MemoryInv, NEW p \in Processes, MemoryDoes(p)
  PROVE  /\ MemoryCounted' /\ now <= now' /\ jobs <= jobs' /\ stops <= stops' /\ success <= success'
  <1>1. now \in Nat /\ jobs \in Nat /\ stops \in Nat /\ success \in Nat /\ success <= now /\ now >= 1
    BY DEF MemoryInv, MemoryCounted
  <1>2. work[p].row \in Nat /\ work[p].row <= now
    BY DEF MemoryInv, MemoryJobs, MemoryJob, MemoryCarried
  <1> USE DEF MemoryCounted, Memory!Bounds, Memory!Ticks, Memory!data
  <1>3. CASE \E k \in Tasks, ok \in BOOLEAN : Memory!Report(p, k, ok)
    BY <1>1, <1>3 DEF Memory!Report
  <1>4. CASE Memory!Insert(p)
    BY <1>1, <1>4 DEF Memory!Insert
  <1>5. CASE Memory!Import(p) \/ Memory!Importing(p) \/ Memory!Mark(p)
    BY <1>1, <1>5 DEF Memory!Import, Memory!Importing, Memory!Mark
  <1>6. CASE Memory!Retain(p) \/ Memory!Run(p) \/ Memory!Promote(p) \/ Memory!Suspend(p)
    BY <1>1, <1>6 DEF Memory!Retain, Memory!Run, Memory!Promote, Memory!Suspend
  <1>7. CASE Memory!Connect(p)
    BY <1>1, <1>2, <1>7 DEF Memory!Connect
  <1>8. CASE Memory!Reread(p) \/ Memory!Keep(p)
    BY <1>1, <1>8 DEF Memory!Reread, Memory!Keep
  <1>9. CASE Memory!Look(p) \/ Memory!Revise(p) \/ Memory!Stop(p)
    BY <1>1, <1>9 DEF Memory!Look, Memory!Revise, Memory!Stop
  <1> QED BY <1>3, <1>4, <1>5, <1>6, <1>7, <1>8, <1>9 DEF MemoryDoes

\* The rows: an attempt that is recorded is not recorded again.
LEMMA MemoryRowsStep ==
  ASSUME MemoryInv, NEW p \in Processes, MemoryDoes(p)
  PROVE  MemoryRows' /\ MemoryFlags'
  <1>1. now \in Nat /\ now' \in Nat /\ now <= now' /\ jobs \in Nat /\ jobs' \in Nat /\ jobs <= jobs'
    BY MemoryCountedStep DEF MemoryInv, MemoryCounted
  <1>2. MemoryRows /\ MemoryFlags
    BY DEF MemoryInv
  <1>3. experience \subseteq ExperienceRow
    BY <1>2 DEF MemoryRows
  <1>4. ASSUME UNCHANGED experience PROVE MemoryRows'
    <2>1. ASSUME NEW r \in experience PROVE r.attempt <= jobs' /\ r.at <= now'
      <3>1. r.attempt \in Nat /\ r.at \in Nat /\ r.attempt <= jobs /\ r.at <= now
        BY <1>2, <1>3 DEF MemoryRows, ExperienceRow
      <3> QED BY <3>1, <1>1
    <2> QED BY <1>2, <1>4, <2>1 DEF MemoryRows, Memory!Old
  <1>5. ASSUME Memory!Insert(p), ~UNCHANGED experience PROVE MemoryRows'
    <2> DEFINE row == [task |-> work[p].task, attempt |-> work[p].attempt, ok |-> work[p].ok, at |-> now]
               old == {r \in experience : r.task = work[p].task /\ r.attempt = work[p].attempt}
    <2>1. old = {} /\ experience' = experience \cup {row} /\ now' = now + 1 /\ jobs' = jobs
      BY <1>5 DEF Memory!Insert, Memory!Ticks, Memory!Bounds
    <2>2. row \in ExperienceRow /\ row.attempt <= jobs /\ row.at = now
      BY <1>1 DEF MemoryInv, MemoryJobs, MemoryJob, MemoryCarried, ExperienceRow
    <2>3. \A r \in experience : ~(r.task = row.task /\ r.attempt = row.attempt)
      BY <2>1
    <2> HIDE DEF row, old
    <2>4. \A r \in experience' : r.attempt <= jobs' /\ r.at <= now'
      <3>1. ASSUME NEW r \in experience PROVE r.attempt <= jobs' /\ r.at <= now'
        <4>1. r.attempt \in Nat /\ r.at \in Nat /\ r.attempt <= jobs /\ r.at <= now
          BY <1>2, <1>3 DEF MemoryRows, ExperienceRow
        <4> QED BY <4>1, <1>1
      <3> QED BY <3>1, <2>1, <2>2, <1>1
    <2>5. \A r, q \in experience' : r.task = q.task /\ r.attempt = q.attempt => r = q
      BY <2>1, <2>3, <1>2 DEF MemoryRows
    <2>6. experience' \subseteq ExperienceRow /\ Memory!Old \in experience'
      BY <2>1, <2>2, <1>2 DEF MemoryRows
    <2>7. Memory!Old = Memory!Old'
      BY DEF Memory!Old
    <2> QED BY <2>4, <2>5, <2>6, <2>7 DEF MemoryRows
  <1>6. UNCHANGED experience \/ Memory!Insert(p)
    BY DEF MemoryDoes, Memory!data, Memory!Report, Memory!Import, Memory!Importing, Memory!Mark, Memory!Retain,
           Memory!Run, Memory!Promote, Memory!Suspend, Memory!Connect, Memory!Reread, Memory!Keep, Memory!Look,
           Memory!Revise, Memory!Stop
  <1>7. MemoryFlags'
    <2>1. imported' \in {imported, TRUE} /\ knows' \in {knows, knows \cup {p}, knows \ {p}}
      BY DEF MemoryDoes, Memory!data, Memory!Insert, Memory!Report, Memory!Import, Memory!Importing, Memory!Mark, Memory!Retain,
           Memory!Run, Memory!Promote, Memory!Suspend, Memory!Connect, Memory!Reread, Memory!Keep, Memory!Look,
           Memory!Revise, Memory!Stop
    <2>2. imported \in BOOLEAN /\ knows \subseteq Processes
      BY <1>2 DEF MemoryFlags
    <2>3. imported' \in BOOLEAN
      BY <2>1, <2>2, Zenon
    <2>4. knows' \subseteq Processes
      BY <2>1, <2>2
    <2> QED BY <2>3, <2>4 DEF MemoryFlags
  <1> QED BY <1>4, <1>5, <1>6, <1>7

\* The runs of the procedure are of tasks.
LEMMA MemoryRunsStep ==
  ASSUME MemoryInv, NEW p \in Processes, Memory!Run(p)
  PROVE  /\ DOMAIN runs' \subseteq Tasks /\ runs' \in [DOMAIN runs' -> ProcedureRun]
         /\ \A k \in DOMAIN runs' : runs'[k].ok => k \in earned
  <1> DEFINE k == work[p].task
             run == [ok |-> work[p].ok, at |-> now, row |-> work[p].row]
  <1>1. k \in Tasks /\ (work[p].ok => k \in earned)
    BY DEF MemoryInv, MemoryEarned, Memory!Run
  <1>2. run \in ProcedureRun
    BY DEF MemoryInv, MemoryJobs, MemoryJob, MemoryCounted, ProcedureRun
  <1>3. runs' = [j \in DOMAIN runs \cup {k} |-> IF j = k THEN run ELSE runs[j]]
    BY DEF Memory!Run, Memory!Counted, Memory!RunOf
  <1>4. run.ok = work[p].ok
    OBVIOUS
  <1> HIDE DEF k, run
  <1>5. DOMAIN runs \subseteq Tasks /\ runs \in [DOMAIN runs -> ProcedureRun] /\ \A j \in DOMAIN runs : runs[j].ok => j \in earned
    BY DEF MemoryInv, MemoryEarned
  <1> QED BY <1>1, <1>2, <1>3, <1>4, <1>5

\* The attempts of a task are counted from one: one more than has been jobs.
LEMMA MemoryAttempts ==
  ASSUME MemoryInv, NEW p \in Processes, NEW k \in Tasks, NEW ok \in BOOLEAN, Memory!Report(p, k, ok)
  PROVE  \E j \in MemoryJob :
           /\ j.at = "record" /\ j.task = k /\ j.ok = ok /\ j.row = 0 /\ j.attempt <= jobs'
           /\ work' = [work EXCEPT ![p] = j]
  <1> DEFINE S == {0} \cup {r.attempt : r \in {r \in experience : r.task = k}}
             last == Memory!Max(S)
  <1>1. jobs \in Nat /\ jobs' = jobs + 1
    BY DEF MemoryInv, MemoryCounted, Memory!Report
  <1>2. S \in SUBSET Nat /\ S # {} /\ \A x \in S : x <= jobs
    BY <1>1 DEF MemoryInv, MemoryRows, ExperienceRow
  <1>3. last \in S
    <2> HIDE DEF S
    <2>1. PICK m \in S : \A y \in S : m >= y
      BY <1>1, <1>2, GreatestExists
    <2> QED BY <2>1 DEF Memory!Max
  <1>4. PICK a \in {last, last + 1} \ {0} :
          work' = [work EXCEPT ![p] = [Memory!Idle EXCEPT !.at = "record", !.task = k, !.attempt = a, !.ok = ok]]
    BY DEF Memory!Report
  <1>5. a \in Nat /\ a <= jobs'
    <2>1. last \in Nat /\ last <= jobs
      BY <1>2, <1>3
    <2> HIDE DEF last, S
    <2> QED BY <2>1, <1>1, <1>4
  <1>6. [Memory!Idle EXCEPT !.at = "record", !.task = k, !.attempt = a, !.ok = ok] \in MemoryJob
    BY <1>5 DEF Memory!Idle, MemoryJob, MemorySteps
  <1> QED BY <1>4, <1>5, <1>6 DEF Memory!Idle

\* The job of one process changes, and only that
LEMMA MemoryJobsStep ==
  ASSUME MemoryInv, NEW p \in Processes, MemoryDoes(p)
  PROVE  MemoryJobs' /\ \A q \in Processes \ {p} : work'[q] = work[q]
  <1>1. work \in [Processes -> MemoryJob]
    BY DEF MemoryInv, MemoryJobs
  <1>2. now \in Nat /\ success \in Nat
    BY DEF MemoryInv, MemoryCounted
  <1>3. SUFFICES \E j \in MemoryJob : work' = [work EXCEPT ![p] = j]
    BY <1>1 DEF MemoryJobs
  <1>4. Memory!Idle \in MemoryJob
    BY DEF Memory!Idle, MemoryJob, MemorySteps
  <1>5. ASSUME NEW s \in MemorySteps, work' = [work EXCEPT ![p].at = s]
        PROVE  \E j \in MemoryJob : work' = [work EXCEPT ![p] = j]
    <2>1. [work[p] EXCEPT !.at = s] \in MemoryJob
      BY <1>1 DEF MemoryJob
    <2> QED BY <2>1, <1>5
  <1>6. CASE \E k \in Tasks, ok \in BOOLEAN : Memory!Report(p, k, ok)
    <2>1. PICK k \in Tasks, ok \in BOOLEAN : Memory!Report(p, k, ok)
      BY <1>6
    <2>2. PICK j \in MemoryJob : work' = [work EXCEPT ![p] = j]
      BY <2>1, MemoryAttempts
    <2> QED BY <2>2
  <1>7. CASE Memory!Insert(p)
    <2> DEFINE old == {r \in experience : r.task = work[p].task /\ r.attempt = work[p].attempt}
               n == IF old = {} THEN now ELSE (CHOOSE r \in old : TRUE).at
               s == IF p \in knows THEN "retain" ELSE "import"
    <2>1. n \in Nat
      BY <1>2 DEF MemoryInv, MemoryRows, ExperienceRow
    <2>2. work' = [work EXCEPT ![p].row = n, ![p].at = s]
      BY <1>7 DEF Memory!Insert
    <2>3. [work[p] EXCEPT !.row = n, !.at = s] \in MemoryJob
      <3> HIDE DEF n
      <3> QED BY <1>1, <2>1 DEF MemoryJob, MemorySteps
    <2> HIDE DEF n, s, old
    <2> QED BY <2>2, <2>3, <1>1
  <1>8. CASE Memory!Run(p)
    <2>1. PICK s \in {"promote", "suspend"}, T \in SUBSET {runs'[k] : k \in DOMAIN runs'} : work' = [work EXCEPT ![p].at = s, ![p].todo = T]
      BY <1>8 DEF Memory!Run, Memory!Newest
    <2>2. {runs'[k] : k \in DOMAIN runs'} \subseteq ProcedureRun
      BY <1>8, MemoryRunsStep
    <2>3. [work[p] EXCEPT !.at = s, !.todo = T] \in MemoryJob
      BY <1>1, <2>1, <2>2 DEF MemoryJob, MemorySteps
    <2> QED BY <2>1, <2>3, <1>1
  <1>9. CASE Memory!Promote(p)
    <2>1. PICK run \in work[p].todo, s \in {"promote", "connect", "idle"} : work' = [work EXCEPT ![p].todo = work[p].todo \ {run}, ![p].at = s]
      BY <1>9, <1>1 DEF Memory!Promote, Memory!Then, MemoryJob
    <2>2. [work[p] EXCEPT !.todo = work[p].todo \ {run}, !.at = s] \in MemoryJob
      BY <1>1, <2>1 DEF MemoryJob, MemorySteps
    <2> QED BY <2>1, <2>2, <1>1
  <1>10. CASE Memory!Reread(p)
    <2>1. work' = [work EXCEPT ![p].at = "keep", ![p].seen = success]
      BY <1>10 DEF Memory!Reread
    <2>2. [work[p] EXCEPT !.at = "keep", !.seen = success] \in MemoryJob
      BY <1>1, <1>2 DEF MemoryJob, MemorySteps
    <2> QED BY <2>1, <2>2, <1>1
  <1>11. CASE Memory!Look(p)
    <2>1. work' = [work EXCEPT ![p] = [Memory!Idle EXCEPT !.at = "looked", !.seen = Len(notes)]] /\ Len(notes) \in Nat
      BY <1>11 DEF Memory!Look, MemoryInv, MemoryNotes
    <2>2. [Memory!Idle EXCEPT !.at = "looked", !.seen = Len(notes)] \in MemoryJob
      BY <2>1 DEF MemoryJob, MemorySteps, Memory!Idle
    <2> QED BY <2>1, <2>2
  <1>12. CASE Memory!Stop(p)
    BY <1>4, <1>12 DEF Memory!Stop
  <1>13. CASE Memory!Import(p) \/ Memory!Importing(p) \/ Memory!Mark(p) \/ Memory!Retain(p) \/ Memory!Suspend(p)
              \/ Memory!Connect(p) \/ Memory!Keep(p) \/ Memory!Revise(p)
    <2>1. \E s \in MemorySteps : work' = [work EXCEPT ![p].at = s]
      BY <1>13 DEF Memory!Import, Memory!Importing, Memory!Mark, Memory!Retain, Memory!Suspend, Memory!Connect,
                   Memory!Keep, Memory!Revise, Memory!Goes, Memory!Then, MemorySteps
    <2> QED BY <2>1, <1>5
  <1> QED BY <1>6, <1>7, <1>8, <1>9, <1>10, <1>11, <1>12, <1>13 DEF MemoryDoes

\* No step takes an item back; only a promotion makes the procedure reusable, and
\* only the end of a connection changes the success in memory.
LEMMA MemoryItemsStep ==
  ASSUME MemoryInv, NEW p \in Processes, MemoryDoes(p)
  PROVE  /\ MemoryItems' /\ \A k \in MemoryKinds : item'[k].at >= item[k].at
         /\ item'.procedure.status = "reusable" => item.procedure.status = "reusable" \/ Memory!Promote(p)
         /\ Memory!Keep(p) \/ item'.success = item.success
  <1>1. MemoryItems /\ now \in Nat /\ now' \in Nat /\ now <= now' /\ success \in Nat /\ success <= now /\ now >= 1
    BY MemoryCountedStep DEF MemoryInv, MemoryCounted
  <1>2. item \in [detail: MemoryItem, procedure: MemoryItem, success: MemoryItem]
    BY <1>1 DEF MemoryItems
  <1>3. work[p] \in MemoryJob
    BY DEF MemoryInv, MemoryJobs
  <1>4. /\ item["procedure"] = item.procedure /\ item'["procedure"] = item'.procedure
        /\ item["success"] = item.success /\ item'["success"] = item'.success
    OBVIOUS
  <1>5. CASE UNCHANGED item
    <2>1. ASSUME NEW k \in MemoryKinds PROVE item'[k].at <= now' /\ item'[k].at >= item[k].at
      <3>1. item[k].at \in Nat /\ item[k].at <= now
        BY <1>1, <1>2 DEF MemoryItems, MemoryItem, MemoryKinds
      <3> QED BY <3>1, <1>1, <1>5
    <2> QED BY <2>1, <1>1, <1>5 DEF MemoryItems
  <1>6. CASE Memory!Importing(p)
    <2>1. Memory!Saved("detail", 1, "kept", 1)
      BY <1>6 DEF Memory!Importing, Memory!Old
    <2> QED BY <1>1, <1>4, <2>1, MemorySaved DEF MemoryKinds
  <1>7. CASE Memory!Retain(p)
    <2>1. Memory!Saved("detail", now, "kept", work[p].row) /\ work[p].row \in Nat
      BY <1>3, <1>7 DEF Memory!Retain, MemoryJob
    <2> QED BY <1>1, <1>4, <2>1, MemorySaved DEF MemoryKinds
  <1>8. CASE Memory!Promote(p)
    <2>1. PICK run \in work[p].todo : Memory!Saved("procedure", now, "reusable", run.row)
      BY <1>8 DEF Memory!Promote
    <2>2. run.row \in Nat
      BY <2>1, <1>3 DEF MemoryJob, ProcedureRun
    <2> QED BY <1>1, <1>4, <1>8, <2>1, <2>2, MemorySaved DEF MemoryKinds
  <1>9. CASE Memory!Keep(p)
    <2>1. Memory!Saved("success", work[p].seen, "kept", work[p].seen) /\ work[p].seen \in Nat /\ work[p].seen <= success
      BY <1>3, <1>9 DEF Memory!Keep, MemoryJob, MemoryInv, MemoryCarried
    <2>2. work[p].seen <= now
      BY <1>1, <2>1
    <2> QED BY <1>1, <1>4, <1>9, <2>1, <2>2, MemorySaved DEF MemoryKinds
  <1>10. CASE Memory!Suspend(p) /\ ~UNCHANGED item
    <2>1. item' = [item EXCEPT !.procedure.status = "needs_review"] /\ now' = now
      BY <1>10 DEF Memory!Suspend
    <2>2. /\ item' \in [detail: MemoryItem, procedure: MemoryItem, success: MemoryItem]
          /\ item'.success = item.success /\ item'.detail = item.detail
          /\ item'.procedure = [item.procedure EXCEPT !.status = "needs_review"]
      BY <2>1, <1>2 DEF MemoryItem
    <2>3. item'.procedure.status = "needs_review" /\ item'.procedure.at = item.procedure.at /\ item'.procedure.sources = item.procedure.sources
      BY <2>2, <1>2 DEF MemoryItem
    <2>4. ASSUME NEW k \in MemoryKinds PROVE item'[k].at = item[k].at /\ item'[k].sources = item[k].sources
      BY <2>2, <2>3 DEF MemoryKinds
    <2>5. ASSUME NEW k \in MemoryKinds PROVE item[k].at \in Nat
      BY <1>2 DEF MemoryKinds, MemoryItem
    <2> QED BY <1>1, <2>1, <2>2, <2>3, <2>4, <2>5 DEF MemoryItems
  <1> QED
    <2>1. \/ UNCHANGED item \/ Memory!Importing(p) \/ Memory!Retain(p) \/ Memory!Promote(p) \/ Memory!Keep(p) \/ Memory!Suspend(p)
      BY DEF MemoryDoes, Memory!data, Memory!Report, Memory!Insert, Memory!Import, Memory!Mark, Memory!Run,
             Memory!Connect, Memory!Reread, Memory!Look, Memory!Revise, Memory!Stop
    <2> QED BY <2>1, <1>5, <1>6, <1>7, <1>8, <1>9, <1>10

\* What a job carries stays true of what was read.
LEMMA MemoryCarriedStep ==
  ASSUME MemoryInv, NEW p \in Processes, MemoryDoes(p)
  PROVE  MemoryCarried'
  <1>1. /\ now \in Nat /\ now' \in Nat /\ now <= now' /\ jobs \in Nat /\ jobs' \in Nat /\ jobs <= jobs'
        /\ success \in Nat /\ success' \in Nat /\ success <= success'
    BY MemoryCountedStep DEF MemoryInv, MemoryCounted
  <1>2. work \in [Processes -> MemoryJob] /\ work' \in [Processes -> MemoryJob] /\ \A q \in Processes \ {p} : work'[q] = work[q]
    BY MemoryJobsStep DEF MemoryInv, MemoryJobs
  <1>3. ASSUME NEW q \in Processes
        PROVE  work[q].attempt <= jobs' /\ work[q].row <= now' /\ (work[q].at = "keep" => work[q].seen <= success')
    <2>1. work[q].attempt \in Nat /\ work[q].row \in Nat /\ work[q].seen \in Nat
      BY <1>2 DEF MemoryJob
    <2>2. work[q].attempt <= jobs /\ work[q].row <= now /\ (work[q].at = "keep" => work[q].seen <= success)
      BY DEF MemoryInv, MemoryCarried
    <2> QED BY <1>1, <2>1, <2>2
  <1>4. work'[p].attempt <= jobs' /\ work'[p].row <= now' /\ (work'[p].at = "keep" => work'[p].seen <= success')
    <2>1. CASE \E k \in Tasks, ok \in BOOLEAN : Memory!Report(p, k, ok)
      <3>1. PICK k \in Tasks, ok \in BOOLEAN : Memory!Report(p, k, ok)
        BY <2>1
      <3>2. PICK j \in MemoryJob : j.at = "record" /\ j.row = 0 /\ j.attempt <= jobs' /\ work' = [work EXCEPT ![p] = j]
        BY <3>1, MemoryAttempts
      <3>3. work'[p] = j
        BY <3>2, <1>2
      <3> QED BY <3>2, <3>3, <1>1
    <2>2. CASE Memory!Insert(p)
      <3> DEFINE old == {r \in experience : r.task = work[p].task /\ r.attempt = work[p].attempt}
                 n == IF old = {} THEN now ELSE (CHOOSE r \in old : TRUE).at
                 s == IF p \in knows THEN "retain" ELSE "import"
      <3>1. n \in Nat /\ n <= now
        <4>1. \A r \in old : r.at \in Nat /\ r.at <= now
          BY DEF MemoryInv, MemoryRows, ExperienceRow
        <4>2. CASE old = {}
          BY <4>2, <1>1
        <4>3. CASE old # {}
          <5>1. (CHOOSE r \in old : TRUE) \in old
            BY <4>3
          <5> QED BY <4>1, <4>3, <5>1
        <4> QED BY <4>2, <4>3
      <3>2. work' = [work EXCEPT ![p].row = n, ![p].at = s]
        BY <2>2 DEF Memory!Insert
      <3>3. s \in {"retain", "import"}
        OBVIOUS
      <3> HIDE DEF n, s, old
      <3>4. work'[p].attempt = work[p].attempt /\ work'[p].row = n /\ work'[p].at = s
        BY <3>2, <1>2 DEF MemoryJob
      <3> QED BY <3>1, <3>3, <3>4, <1>1, <1>3
    <2>3. CASE Memory!Reread(p)
      <3>1. work'[p].attempt = work[p].attempt /\ work'[p].row = work[p].row /\ work'[p].seen = success
        BY <2>3, <1>2 DEF Memory!Reread, MemoryJob
      <3> QED BY <3>1, <1>1, <1>3
    <2>4. CASE Memory!Look(p) \/ Memory!Stop(p)
      <3> DEFINE looked == [Memory!Idle EXCEPT !.at = "looked", !.seen = Len(notes)]
      <3>1. work'[p] = Memory!Idle \/ work'[p] = looked
        BY <2>4, <1>2 DEF Memory!Look, Memory!Stop
      <3>2. /\ Memory!Idle.attempt = 0 /\ Memory!Idle.row = 0 /\ Memory!Idle.at = "idle"
            /\ looked.attempt = 0 /\ looked.row = 0 /\ looked.at = "looked"
        BY DEF Memory!Idle
      <3> HIDE DEF looked
      <3>3. work'[p].attempt = 0 /\ work'[p].row = 0 /\ work'[p].at # "keep"
        BY <3>1, <3>2
      <3> QED BY <3>3, <1>1
    <2>5. CASE Memory!Import(p) \/ Memory!Importing(p) \/ Memory!Mark(p) \/ Memory!Retain(p) \/ Memory!Suspend(p)
              \/ Memory!Connect(p) \/ Memory!Keep(p) \/ Memory!Revise(p)
      <3>1. \E s \in MemorySteps \ {"keep"} : work' = [work EXCEPT ![p].at = s]
        BY <2>5 DEF Memory!Import, Memory!Importing, Memory!Mark, Memory!Retain, Memory!Suspend, Memory!Connect,
                   Memory!Keep, Memory!Revise, Memory!Goes, Memory!Then, MemorySteps
      <3>2. work'[p].attempt = work[p].attempt /\ work'[p].row = work[p].row /\ work'[p].at # "keep"
        BY <3>1, <1>2 DEF MemoryJob
      <3> QED BY <3>2, <1>3
    <2>6. CASE Memory!Run(p)
      <3>1. \E s \in MemorySteps \ {"keep"} : \E T : work' = [work EXCEPT ![p].at = s, ![p].todo = T]
        BY <2>6 DEF Memory!Run, MemorySteps
      <3>2. work'[p].attempt = work[p].attempt /\ work'[p].row = work[p].row /\ work'[p].at # "keep"
        BY <3>1, <1>2 DEF MemoryJob
      <3> QED BY <3>2, <1>3
    <2>7. CASE Memory!Promote(p)
      <3>1. PICK run \in work[p].todo :
              work' = [work EXCEPT ![p].todo = @ \ {run}, ![p].at = IF work[p].todo = {run} THEN Memory!Then(work[p]) ELSE @]
        BY <2>7 DEF Memory!Promote
      <3>2. work[p].at = "promote" /\ Memory!Then(work[p]) \in {"connect", "idle"}
        BY <2>7 DEF Memory!Promote, Memory!Then
      <3>3. work'[p].attempt = work[p].attempt /\ work'[p].row = work[p].row /\ work'[p].at # "keep"
        BY <3>1, <3>2, <1>2 DEF MemoryJob
      <3> QED BY <3>3, <1>3
    <2> QED BY <2>1, <2>2, <2>3, <2>4, <2>5, <2>6, <2>7 DEF MemoryDoes
  <1>5. item'.success.at <= success'
    <2>1. item.success.at \in Nat /\ item.success.at <= success
      BY DEF MemoryInv, MemoryItems, MemoryItem, MemoryCarried
    <2>2. CASE ~Memory!Keep(p)
      BY <1>1, <2>1, <2>2, MemoryItemsStep
    <2>3. CASE Memory!Keep(p)
      <3>1. Memory!Saved("success", work[p].seen, "kept", work[p].seen) /\ work[p].at = "keep"
        BY <2>3 DEF Memory!Keep
      <3>2. work[p].seen \in Nat /\ work[p].seen <= success /\ success <= now
        BY <1>2, <3>1 DEF MemoryInv, MemoryCarried, MemoryCounted, MemoryJob
      <3>3. work[p].seen <= now
        BY <1>1, <3>2
      <3>4. item'["success"].at = IF item["success"].at <= work[p].seen THEN work[p].seen ELSE item["success"].at
        BY <1>1, <3>1, <3>2, <3>3, MemorySaved DEF MemoryInv, MemoryKinds
      <3>5. item'["success"].at \in Nat /\ item'["success"].at <= success
        BY <2>1, <3>2, <3>4
      <3> QED BY <3>5, <1>1
    <2> QED BY <2>2, <2>3
  <1> QED BY <1>2, <1>3, <1>4, <1>5 DEF MemoryCarried

\* What a step does to the job of its process, as far as promotions go: the task
\* is one of the tasks, verified if the job says so, and a promotion is begun only
\* by a run that finds three verified ones.
LEMMA MemoryJobEarned ==
  ASSUME MemoryInv, NEW p \in Processes, MemoryDoes(p)
  PROVE  /\ earned \subseteq earned' /\ IsFiniteSet(earned') /\ earned' \subseteq Tasks
         /\ work'[p].at \notin {"idle", "looked"} => work'[p].task \in Tasks
         /\ work'[p].ok => work'[p].task \in earned'
         /\ work'[p].at = "promote" => Memory!Run(p) \/ work[p].at = "promote"
  <1>1. work \in [Processes -> MemoryJob]
    BY DEF MemoryInv, MemoryJobs
  <1>2. /\ IsFiniteSet(earned) /\ earned \subseteq Tasks
        /\ work[p].at \notin {"idle", "looked"} => work[p].task \in Tasks
        /\ work[p].ok => work[p].task \in earned
    BY DEF MemoryInv, MemoryEarned
  <1>3. CASE \E k \in Tasks, ok \in BOOLEAN : Memory!Report(p, k, ok)
    <2>1. PICK k \in Tasks, ok \in BOOLEAN : Memory!Report(p, k, ok)
      BY <1>3
    <2>2. PICK j \in MemoryJob : j.at = "record" /\ j.task = k /\ j.ok = ok /\ work' = [work EXCEPT ![p] = j]
      BY <2>1, MemoryAttempts
    <2>3. work'[p] = j /\ j.at = "record" /\ j.task = k /\ j.ok = ok
      BY <2>2, <1>1
    <2>4. earned' = IF ok THEN earned \cup {k} ELSE earned
      BY <2>1 DEF Memory!Report
    <2>5. IsFiniteSet(earned \cup {k})
      BY <1>2, FS_AddElement
    <2> QED BY <2>3, <2>4, <2>5, <1>2
  <1>4. CASE Memory!Insert(p)
    <2>1. \E n, s : s \in {"retain", "import"} /\ work' = [work EXCEPT ![p].row = n, ![p].at = s]
      BY <1>4 DEF Memory!Insert
    <2>2. earned' = earned /\ work[p].at = "record"
      BY <1>4 DEF Memory!Insert, Memory!Bounds
    <2>3. work'[p].task = work[p].task /\ work'[p].ok = work[p].ok /\ work'[p].at # "promote"
      BY <2>1, <1>1 DEF MemoryJob
    <2> QED BY <2>2, <2>3, <1>2
  <1>5. CASE Memory!Run(p)
    <2>1. \E s, T : work' = [work EXCEPT ![p].at = s, ![p].todo = T]
      BY <1>5 DEF Memory!Run
    <2>2. earned' = earned /\ work[p].at = "run"
      BY <1>5 DEF Memory!Run, Memory!Bounds
    <2>3. work'[p].task = work[p].task /\ work'[p].ok = work[p].ok
      BY <2>1, <1>1 DEF MemoryJob
    <2> QED BY <2>2, <2>3, <1>2, <1>5
  <1>6. CASE Memory!Promote(p)
    <2>1. \E s, T : work' = [work EXCEPT ![p].todo = T, ![p].at = s]
      BY <1>6 DEF Memory!Promote
    <2>2. earned' = earned /\ work[p].at = "promote"
      BY <1>6 DEF Memory!Promote, Memory!Bounds
    <2>3. work'[p].task = work[p].task /\ work'[p].ok = work[p].ok
      BY <2>1, <1>1 DEF MemoryJob
    <2> QED BY <2>2, <2>3, <1>2
  <1>7. CASE Memory!Reread(p)
    <2>1. work' = [work EXCEPT ![p].at = "keep", ![p].seen = success] /\ earned' = earned /\ work[p].at = "reread"
      BY <1>7 DEF Memory!Reread, Memory!Bounds
    <2>2. work'[p].task = work[p].task /\ work'[p].ok = work[p].ok /\ work'[p].at = "keep"
      BY <2>1, <1>1 DEF MemoryJob
    <2> QED BY <2>1, <2>2, <1>2
  <1>8. CASE Memory!Look(p) \/ Memory!Stop(p)
    <2> DEFINE looked == [Memory!Idle EXCEPT !.at = "looked", !.seen = Len(notes)]
    <2>1. work'[p] = Memory!Idle \/ work'[p] = looked
      BY <1>8, <1>1 DEF Memory!Look, Memory!Stop
    <2>2. earned' = earned
      BY <1>8 DEF Memory!Look, Memory!Stop
    <2>3. /\ Memory!Idle.at = "idle" /\ Memory!Idle.ok = FALSE
          /\ looked.at = "looked" /\ looked.ok = FALSE
      BY DEF Memory!Idle
    <2> HIDE DEF looked
    <2> QED BY <2>1, <2>2, <2>3, <1>2
  <1>9. CASE Memory!Import(p) \/ Memory!Importing(p) \/ Memory!Mark(p) \/ Memory!Retain(p) \/ Memory!Suspend(p)
              \/ Memory!Connect(p) \/ Memory!Keep(p)
    <2>1. \E s \in MemorySteps \ {"promote"} : work' = [work EXCEPT ![p].at = s]
      BY <1>9 DEF Memory!Import, Memory!Importing, Memory!Mark, Memory!Retain, Memory!Suspend, Memory!Connect,
                 Memory!Keep, Memory!Goes, Memory!Then, MemorySteps
    <2>2. earned' = earned /\ work[p].at \notin {"idle", "looked"}
      BY <1>9 DEF Memory!Import, Memory!Importing, Memory!Mark, Memory!Retain, Memory!Suspend, Memory!Connect,
                 Memory!Keep, Memory!Bounds
    <2>3. work'[p].task = work[p].task /\ work'[p].ok = work[p].ok /\ work'[p].at # "promote"
      BY <2>1, <1>1 DEF MemoryJob
    <2> QED BY <2>2, <2>3, <1>2
  <1>10. CASE Memory!Revise(p)
    <2>1. work' = [work EXCEPT ![p].at = "idle"] /\ earned' = earned
      BY <1>10 DEF Memory!Revise, Memory!Goes, Memory!Bounds
    <2>2. work'[p].task = work[p].task /\ work'[p].ok = work[p].ok /\ work'[p].at = "idle"
      BY <2>1, <1>1 DEF MemoryJob
    <2> QED BY <2>1, <2>2, <1>2
  <1> QED BY <1>3, <1>4, <1>5, <1>6, <1>7, <1>8, <1>9, <1>10 DEF MemoryDoes

\* The last three runs were verified: three tasks were.
LEMMA MemoryReady ==
  ASSUME MemoryInv, NEW p \in Processes, Memory!Run(p), work'[p].at = "promote"
  PROVE  Cardinality(earned) >= 3
  <1> DEFINE S == Memory!Newest(runs')
  <1>1. work \in [Processes -> MemoryJob]
    BY DEF MemoryInv, MemoryJobs
  <1>2. Memory!Ready(runs')
    <2>1. \E T : work' = [work EXCEPT ![p].at = IF Memory!Ready(runs') THEN "promote" ELSE "suspend", ![p].todo = T]
      BY DEF Memory!Run
    <2>2. work'[p].at = IF Memory!Ready(runs') THEN "promote" ELSE "suspend"
      BY <2>1, <1>1 DEF MemoryJob
    <2> QED BY <2>2
  <1>3. Cardinality(S) = 3 /\ \A k \in S : runs'[k].ok
    BY <1>2, MemoryCardinality DEF Memory!Ready
  <1>4. S \subseteq DOMAIN runs'
    BY DEF Memory!Newest
  <1>5. S \subseteq earned /\ IsFiniteSet(earned)
    BY <1>3, <1>4, MemoryRunsStep DEF MemoryInv, MemoryEarned
  <1> HIDE DEF S
  <1>6. Cardinality(S) <= Cardinality(earned)
    BY <1>5, FS_Subset
  <1>7. Cardinality(earned) \in Nat
    BY <1>5, FS_CardinalityType
  <1> QED BY <1>3, <1>6, <1>7

\* No step makes a procedure reusable before three tasks were verified.
LEMMA MemoryEarnedStep ==
  ASSUME MemoryInv, NEW p \in Processes, MemoryDoes(p)
  PROVE  MemoryEarned'
  <1>1. MemoryEarned
    BY DEF MemoryInv
  <1>2. earned \subseteq earned' /\ IsFiniteSet(earned') /\ earned' \subseteq Tasks
    BY MemoryJobEarned
  <1>3. Cardinality(earned) >= 3 => Cardinality(earned') >= 3
    <2>1. Cardinality(earned) <= Cardinality(earned')
      BY <1>2, FS_Subset
    <2>2. Cardinality(earned) \in Nat /\ Cardinality(earned') \in Nat
      BY <1>1, <1>2, FS_CardinalityType DEF MemoryEarned
    <2> QED BY <2>1, <2>2
  <1>4. DOMAIN runs' \subseteq Tasks /\ runs' \in [DOMAIN runs' -> ProcedureRun] /\ \A k \in DOMAIN runs' : runs'[k].ok => k \in earned'
    <2>1. CASE UNCHANGED runs
      BY <2>1, <1>1, <1>2 DEF MemoryEarned
    <2>2. CASE Memory!Run(p)
      BY <2>2, <1>2, MemoryRunsStep
    <2>3. UNCHANGED runs \/ Memory!Run(p)
      BY DEF MemoryDoes, Memory!data, Memory!Report, Memory!Insert, Memory!Import, Memory!Importing, Memory!Mark, Memory!Retain,
             Memory!Promote, Memory!Suspend, Memory!Connect, Memory!Reread, Memory!Keep, Memory!Look, Memory!Revise, Memory!Stop
    <2> QED BY <2>1, <2>2, <2>3
  <1>5. ASSUME NEW q \in Processes
        PROVE  /\ work'[q].at \notin {"idle", "looked"} => work'[q].task \in Tasks
               /\ work'[q].ok => work'[q].task \in earned'
               /\ work'[q].at = "promote" => Cardinality(earned') >= 3
    <2>1. CASE q # p
      <3>1. work'[q] = work[q]
        BY <2>1, MemoryJobsStep
      <3> QED BY <3>1, <1>1, <1>2, <1>3 DEF MemoryEarned
    <2>2. CASE q = p
      <3>1. work'[p].at = "promote" => Cardinality(earned) >= 3
        <4>1. work[p].at = "promote" => Cardinality(earned) >= 3
          BY <1>1 DEF MemoryEarned
        <4> QED BY <4>1, MemoryReady, MemoryJobEarned
      <3> QED BY <2>2, <3>1, <1>3, MemoryJobEarned
    <2> QED BY <2>1, <2>2
  <1>6. item'.procedure.status = "reusable" => Cardinality(earned') >= 3
    <2>1. Memory!Promote(p) => work[p].at = "promote"
      BY DEF Memory!Promote
    <2> QED BY <2>1, <1>1, <1>3, MemoryItemsStep DEF MemoryEarned
  <1> QED BY <1>2, <1>4, <1>5, <1>6 DEF MemoryEarned

\* A newer success has a process on its way to memory with it.
LEMMA MemoryBehindStep ==
  ASSUME MemoryInv, NEW p \in Processes, MemoryDoes(p)
  PROVE  MemoryBehind'
  <1> SUFFICES ASSUME stops' = 0
               PROVE  \/ item'.success.at = success'
                      \/ \E q \in Processes : \/ work'[q].at = "reread"
                                              \/ work'[q].at = "keep" /\ work'[q].seen = success'
    BY DEF MemoryBehind
  <1>1. work \in [Processes -> MemoryJob]
    BY DEF MemoryInv, MemoryJobs
  <1>2. stops = 0 /\ ~Memory!Stop(p)
    <2>1. stops \in Nat /\ stops' \in Nat /\ stops <= stops'
      BY MemoryCountedStep DEF MemoryInv, MemoryCounted
    <2> QED BY <2>1 DEF Memory!Stop
  <1>3. \/ item.success.at = success
        \/ \E q \in Processes : \/ work[q].at = "reread"
                                \/ work[q].at = "keep" /\ work[q].seen = success
    BY <1>2 DEF MemoryInv, MemoryBehind
  <1>4. \A q \in Processes \ {p} : work'[q] = work[q]
    BY MemoryJobsStep
  <1>5. CASE Memory!Connect(p)
    <2>1. work' = [work EXCEPT ![p].at = "reread"]
      BY <1>5 DEF Memory!Connect, Memory!Goes
    <2>2. work'[p].at = "reread"
      BY <2>1, <1>1 DEF MemoryJob
    <2> QED BY <2>2
  <1>6. CASE Memory!Reread(p)
    <2>1. work' = [work EXCEPT ![p].at = "keep", ![p].seen = success] /\ success' = success
      BY <1>6 DEF Memory!Reread, Memory!data
    <2>2. work'[p].at = "keep" /\ work'[p].seen = success'
      BY <2>1, <1>1 DEF MemoryJob
    <2> QED BY <2>2
  <1>7. CASE Memory!Keep(p)
    <2>1. Memory!Saved("success", work[p].seen, "kept", work[p].seen) /\ success' = success /\ work[p].at = "keep"
      BY <1>7 DEF Memory!Keep
    <2>2. work[p].seen \in Nat /\ work[p].seen <= success /\ success \in Nat /\ success <= now /\ now \in Nat /\ now' \in Nat /\ now <= now'
      BY <1>1, <2>1, MemoryCountedStep DEF MemoryInv, MemoryCarried, MemoryCounted, MemoryJob
    <2>3. item'["success"].at = IF item["success"].at <= work[p].seen THEN work[p].seen ELSE item["success"].at
      BY <2>1, <2>2, MemorySaved DEF MemoryInv, MemoryKinds
    <2>4. item["success"].at \in Nat
      BY DEF MemoryInv, MemoryItems, MemoryItem
    <2>5. CASE work[p].seen = success \/ item["success"].at = success
      <3>1. \A a, s, n \in Nat : a <= n /\ s <= n /\ (s = n \/ a = n) => (IF a <= s THEN s ELSE a) = n
        OBVIOUS
      <3>2. item["success"].at <= success
        BY DEF MemoryInv, MemoryCarried
      <3>3. (IF item["success"].at <= work[p].seen THEN work[p].seen ELSE item["success"].at) = success
        BY <2>2, <2>4, <2>5, <3>1, <3>2
      <3> QED BY <2>1, <2>3, <3>3
    <2>6. CASE ~(work[p].seen = success \/ item["success"].at = success)
      <3>1. PICK q \in Processes : \/ work[q].at = "reread"
                                   \/ work[q].at = "keep" /\ work[q].seen = success
        BY <1>3, <2>6
      <3>2. q # p
        BY <3>1, <2>1, <2>6
      <3> QED BY <3>1, <3>2, <1>4, <2>1
    <2> QED BY <2>5, <2>6
  <1>8. CASE ~Memory!Connect(p) /\ ~Memory!Reread(p) /\ ~Memory!Keep(p)
    <2>1. success' = success /\ work[p].at \notin {"reread", "keep"}
      BY <1>2, <1>8 DEF MemoryDoes, Memory!data, Memory!Report, Memory!Insert, Memory!Import, Memory!Importing, Memory!Mark, Memory!Retain,
             Memory!Promote, Memory!Suspend, Memory!Run, Memory!Look, Memory!Revise
    <2>2. item'.success = item.success
      BY <1>8, MemoryItemsStep
    <2> QED BY <2>1, <2>2, <1>3, <1>4
  <1> QED BY <1>5, <1>6, <1>7, <1>8

\* A revision of a note is of the one before it, also after a stop.
LEMMA MemoryNotesStep ==
  ASSUME MemoryInv, NEW p \in Processes, MemoryDoes(p)
  PROVE  MemoryNotes'
  <1> DEFINE Revision == [on: Nat, active: BOOLEAN]
  <1>1. notes \in Seq(Revision) /\ \A n \in DOMAIN notes : notes[n].on = n - 1
    BY DEF MemoryInv, MemoryNotes
  <1>2. CASE UNCHANGED notes
    BY <1>1, <1>2 DEF MemoryNotes
  <1>3. CASE Memory!Revise(p) /\ ~UNCHANGED notes
    <2>1. PICK on \in BOOLEAN : notes' = Append(notes, [on |-> work[p].seen, active |-> on]) /\ Len(notes) = work[p].seen
      BY <1>3 DEF Memory!Revise, Memory!Unchanged
    <2> DEFINE r == [on |-> Len(notes), active |-> on]
    <2>2. Len(notes) \in Nat /\ r \in Revision /\ r.on = Len(notes)
      BY <1>1
    <2>3. notes' = Append(notes, r)
      BY <2>1
    <2> HIDE DEF r
    <2>4. /\ notes' \in Seq(Revision) /\ DOMAIN notes' = 1..(Len(notes) + 1) /\ DOMAIN notes = 1..Len(notes)
          /\ notes'[Len(notes) + 1] = r /\ \A n \in 1..Len(notes) : notes'[n] = notes[n]
      BY <1>1, <2>2, <2>3, AppendProperties
    <2>5. ASSUME NEW n \in DOMAIN notes' PROVE notes'[n].on = n - 1
      <3>1. CASE n = Len(notes) + 1
        BY <2>2, <2>4, <3>1
      <3>2. CASE n # Len(notes) + 1
        <4>1. n \in DOMAIN notes
          BY <2>2, <2>4, <3>2
        <4> QED BY <1>1, <2>4, <4>1
      <3> QED BY <3>1, <3>2
    <2> QED BY <2>4, <2>5 DEF MemoryNotes
  <1> QED
    <2>1. UNCHANGED notes \/ Memory!Revise(p)
      BY DEF MemoryDoes, Memory!data, Memory!Report, Memory!Insert, Memory!Import, Memory!Importing, Memory!Mark, Memory!Retain,
             Memory!Promote, Memory!Suspend, Memory!Run, Memory!Connect, Memory!Reread, Memory!Keep, Memory!Look, Memory!Stop
    <2> QED BY <2>1, <1>2, <1>3

\* Every step of every process keeps the invariant.
LEMMA MemoryStep == MemoryInv /\ [Memory!Next]_(Memory!vars) => MemoryInv'
  <1> SUFFICES ASSUME MemoryInv, [Memory!Next]_(Memory!vars) PROVE MemoryInv'
    OBVIOUS
  <1>1. CASE Memory!Next
    <2>1. PICK p \in Processes : MemoryDoes(p)
      BY <1>1 DEF Memory!Next, MemoryDoes
    <2>2. MemoryCounted'
      BY <2>1, MemoryCountedStep
    <2>3. MemoryJobs'
      BY <2>1, MemoryJobsStep
    <2>4. MemoryItems'
      BY <2>1, MemoryItemsStep
    <2>5. MemoryRows' /\ MemoryFlags'
      BY <2>1, MemoryRowsStep
    <2>6. MemoryCarried' /\ MemoryEarned'
      BY <2>1, MemoryCarriedStep, MemoryEarnedStep
    <2>7. MemoryBehind' /\ MemoryNotes'
      BY <2>1, MemoryBehindStep, MemoryNotesStep
    <2> QED BY <2>2, <2>3, <2>4, <2>5, <2>6, <2>7 DEF MemoryInv
  <1>2. CASE UNCHANGED Memory!vars
    <2>1. MemoryCounted' /\ MemoryJobs' /\ MemoryFlags' /\ MemoryCarried' /\ MemoryBehind' /\ MemoryNotes'
      BY <1>2 DEF Memory!vars, MemoryInv, MemoryCounted, MemoryJobs, MemoryFlags, MemoryCarried, MemoryBehind, MemoryNotes
    <2>2. MemoryItems' /\ MemoryRows' /\ MemoryEarned'
      BY <1>2 DEF Memory!vars, MemoryInv, MemoryItems, MemoryRows, MemoryEarned, Memory!Old
    <2> QED BY <2>1, <2>2 DEF MemoryInv
  <1> QED BY <1>1, <1>2

(* Memory, for any processes, tasks and bounds: what was read earlier never
   replaces what was saved since, the newest success is in memory or on its way
   there, a procedure is offered only after three verified tasks, and each
   revision of a note is of the one before it.                                *)
THEOREM MemoryIsAlwaysSound == Memory!Spec => MemoryIsSound
  <1> DEFINE Good == Memory!TypeOK /\ Memory!ProcedureIsEarned /\ Memory!MemoryIsNewest /\ Memory!NotesAreLinear
             Forward == \A k \in DOMAIN item : item'[k].at >= item[k].at
  <1>1. MemoryInv => Good
    BY MemoryInvSuffices
  <1>2. MemoryInv /\ [Memory!Next]_(Memory!vars) => [Forward]_(Memory!vars)
    <2> SUFFICES ASSUME MemoryInv, Memory!Next PROVE Forward
      OBVIOUS
    <2>1. PICK p \in Processes : MemoryDoes(p)
      BY DEF Memory!Next, MemoryDoes
    <2>2. DOMAIN item = MemoryKinds
      BY DEF MemoryInv, MemoryItems, MemoryKinds
    <2> QED BY <2>1, <2>2, MemoryItemsStep
  <1>3. Memory!Spec => []MemoryInv
    BY MemoryInitially, MemoryStep, PTL DEF Memory!Spec
  <1>4. Memory!Spec => []Good
    BY <1>1, <1>3, PTL
  <1>5. Memory!Spec => Memory!MemoryGoesForward
    <2>1. Memory!Spec => [][Forward]_(Memory!vars)
      BY <1>2, <1>3, PTL DEF Memory!Spec
    <2> QED BY <2>1 DEF Memory!MemoryGoesForward
  <1> QED BY <1>4, <1>5 DEF MemoryIsSound

-----------------------------------------------------------------------------
(* Keys and profiles. *)

SetupKeys == {0} \cup Keys
SetupEntry == {e \in [key: SetupKeys, legacy: BOOLEAN] : e.legacy => e.key # 0}
SetupConfig == [url: Urls, model: Models]
SetupSaving == {"merge", "replace", "unlink"}
SetupCalm == {"idle", "ask", "answer", "record", "recover", "list", "choose", "setup", "insert", "use", "dedupe", "apply"}
SetupSteps == SetupSaving \cup SetupCalm
SetupProcess == [at: SetupSteps, then: SetupCalm, starting: BOOLEAN, config: SetupConfig, key: SetupKeys,
                 put: {<<>>} \cup (Urls \X Keys), data: {<<>>} \cup [Urls -> SetupEntry],
                 name: Nat, listed: SUBSET Nat, passed: BOOLEAN]
SetupCheck == [print: [config: SetupConfig, key: SetupKeys], status: {"passed", "failed"}]

SetupFiles == saved \in [Urls -> SetupEntry] /\ creds \in [Urls -> SetupKeys] /\ given \in [Urls -> SetupKeys]
SetupRows ==
  /\ names \in Nat /\ DOMAIN profiles \subseteq 1..names /\ profiles \in [DOMAIN profiles -> SetupConfig]
  /\ master \in DOMAIN profiles
  /\ DOMAIN checks \subseteq DOMAIN profiles /\ checks \in [DOMAIN checks -> SetupCheck]
SetupProcesses ==
  /\ proc \in [Processes -> SetupProcess]
  /\ \A p \in Processes : proc[p].at \in {"merge", "replace"} => proc[p].put \in Urls \X Keys /\ proc[p].data \in [Urls -> SetupEntry]

\* As long as saves did not overlap, at most one process saves, and from what is
\* in the files now: what it writes has every key that is found, and before the
\* old file goes the new one has them all.
SetupSaves ==
  ~raced =>
    /\ \A u \in Urls : Setup!Found(u) = given[u]
    /\ \A p, q \in Processes : proc[p].at \in SetupSaving /\ proc[q].at \in SetupSaving => p = q
    /\ \A p \in Processes :
         /\ proc[p].at = "merge" => proc[p].data = saved
         /\ proc[p].at = "replace" => proc[p].data = Setup!Merged(saved, proc[p].put[1], proc[p].put[2])
         /\ proc[p].at = "unlink" => \A u \in Urls : saved[u].key # 0 \/ creds[u] = 0

\* A check that passed is about to be recorded, and its endpoint has answered.
SetupPassed == \A p \in Processes :
  proc[p].passed => /\ proc[p].at = "record" \/ (proc[p].at \in SetupSaving /\ proc[p].then = "record")
                    /\ <<proc[p].config.url, proc[p].key>> \in reached
SetupReached ==
  ~mixed => \A n \in DOMAIN checks :
    checks[n].status = "passed" => <<checks[n].print.config.url, checks[n].print.key>> \in reached

SetupInv == SetupFiles /\ SetupRows /\ SetupProcesses /\ SetupSaves /\ SetupPassed /\ SetupReached

\* The invariant gives the property.
LEMMA SetupInvSuffices == ASSUME SetupInv PROVE KeysAreSound
  <1>1. Setup!TypeOK
    BY DEF SetupInv, SetupFiles, SetupRows, Setup!TypeOK, SetupEntry, SetupKeys, SetupConfig, Setup!Config, Setup!NoKey
  <1>2. Setup!KeysAreKept
    BY DEF SetupInv, SetupSaves, Setup!KeysAreKept
  <1>3. Setup!PassedWasReached
    <2> SUFFICES ASSUME ~mixed, NEW n \in DOMAIN profiles, Setup!Shown(n) = "passed"
                 PROVE  <<profiles[n].url, Setup!Found(profiles[n].url)>> \in reached
      BY DEF Setup!PassedWasReached
    <2>1. n \in DOMAIN checks /\ checks[n].print = Setup!Fingerprint(n) /\ checks[n].status = "passed"
      BY DEF Setup!Shown
    <2>2. checks[n].print.config = profiles[n] /\ checks[n].print.key = Setup!Found(profiles[n].url)
      BY <2>1 DEF Setup!Fingerprint
    <2> QED BY <2>1, <2>2 DEF SetupInv, SetupReached
  <1> QED BY <1>1, <1>2, <1>3 DEF KeysAreSound

\* The least of the endpoints, the models and the keys
LEMMA SetupLeast == Setup!Min(Urls) \in Urls /\ Setup!Min(Models) \in Models /\ Setup!Min(Keys) \in Keys
  <1>1. ASSUME NEW S \in SUBSET Nat, S # {} PROVE Setup!Min(S) \in S
    <2>1. PICK x \in S : \A y \in S : x <= y
      BY <1>1, LeastExists
    <2> QED BY <2>1 DEF Setup!Min
  <1>2. Urls \subseteq Nat /\ Urls # {}
    <2>1. Cardinality(Urls) \in Nat
      BY SetupAssumption, FS_CardinalityType
    <2> QED BY <2>1, SetupAssumption
  <1>3. Models \subseteq Nat /\ Models # {} /\ Keys \subseteq Nat /\ Keys # {}
    BY SetupAssumption
  <1> QED BY <1>1, <1>2, <1>3

\* An idle process is a process.
LEMMA SetupIdle ==
  /\ Setup!Idle \in SetupProcess /\ Setup!Idle.at = "idle" /\ Setup!Idle.passed = FALSE
  <1>1. [url |-> Setup!Min(Urls), model |-> Setup!Min(Models)] \in SetupConfig
    BY SetupLeast DEF SetupConfig
  <1> QED BY <1>1 DEF Setup!Idle, SetupProcess, SetupSteps, SetupCalm, Setup!NoKey, SetupKeys

\* The key that is found for an endpoint is one of the keys, or none.
LEMMA SetupFound ==
  ASSUME SetupInv, NEW u \in Urls
  PROVE  Setup!Found(u) \in SetupKeys /\ (Setup!Pending(u) => Setup!Found(u) \in Keys)
  <1>1. saved[u] \in SetupEntry /\ creds[u] \in SetupKeys
    BY DEF SetupInv, SetupFiles
  <1> QED BY <1>1 DEF SetupEntry, SetupKeys, Setup!Found, Setup!Pending, Setup!NoKey

\* An upgraded installation satisfies the invariant.
LEMMA SetupInitially == Setup!Init => SetupInv
  <1> SUFFICES ASSUME Setup!Init PROVE SetupInv
    OBVIOUS
  <1> USE DEF Setup!Init
  <1>1. Setup!Min(Urls) \in Urls /\ Setup!Min(Models) \in Models /\ Setup!Min(Keys) \in Keys
    BY SetupLeast
  <1>2. SetupFiles
    <2>1. [key |-> Setup!NoKey, legacy |-> FALSE] \in SetupEntry
      BY DEF SetupEntry, SetupKeys, Setup!NoKey
    <2> QED BY <1>1, <2>1 DEF SetupFiles, SetupKeys
  <1>3. SetupRows
    <2>1. Cardinality(Urls) \in Nat /\ Urls = 1..Cardinality(Urls) /\ 1 \in Urls
      <3>1. Cardinality(Urls) \in Nat
        BY SetupAssumption, FS_CardinalityType
      <3> QED BY <3>1, SetupAssumption
    <2>2. names = Cardinality(Urls)
      BY DEF Setup!Cardinality, Cardinality
    <2>3. DOMAIN profiles = Urls /\ profiles \in [Urls -> SetupConfig]
      BY <1>1 DEF SetupConfig
    <2>4. DOMAIN checks = {} /\ checks \in [DOMAIN checks -> SetupCheck]
      OBVIOUS
    <2> QED BY <2>1, <2>2, <2>3, <2>4 DEF SetupRows
  <1>4. SetupProcesses /\ SetupPassed
    <2>1. \A p \in Processes : proc[p] = Setup!Idle
      OBVIOUS
    <2> QED BY <2>1, SetupIdle DEF SetupProcesses, SetupPassed
  <1>5. SetupSaves
    <2>1. \A p \in Processes : proc[p].at = "idle"
      BY SetupIdle
    <2>2. \A u \in Urls : Setup!Found(u) = given[u]
      BY DEF Setup!Found, Setup!NoKey
    <2> QED BY <2>1, <2>2 DEF SetupSaves, SetupSaving
  <1>6. SetupReached
    BY DEF SetupReached
  <1> QED BY <1>2, <1>3, <1>4, <1>5, <1>6 DEF SetupInv

\* The steps beside the save of a key
SetupOther(p) ==
  \/ Setup!Start(p) \/ Setup!Ask(p) \/ Setup!Answer(p) \/ Setup!Cancel(p) \/ Setup!Record(p)
  \/ Setup!Recover(p) \/ Setup!List(p) \/ Setup!Retry(p) \/ Setup!Choose(p) \/ Setup!Insert(p) \/ Setup!Use(p)
  \/ Setup!Dedupe(p) \/ Setup!Apply(p) \/ Setup!Switch(p) \/ Setup!Edit(p) \/ Setup!Remove(p) \/ Setup!Crash(p)
SetupBegins(p) == Setup!Migrate(p) \/ Setup!Setup(p) \/ Setup!NewKey(p)

\* Such a step leaves the files and begins no save; a process that has passed a
\* check is about to record it.
SetupMoves(p) ==
  /\ UNCHANGED <<saved, creds, given, raced>> /\ reached \subseteq reached'
  /\ \E j \in SetupProcess : /\ proc' = [proc EXCEPT ![p] = j] /\ j.at \notin SetupSaving
                             /\ j.passed => j.at = "record" /\ <<j.config.url, j.key>> \in reached'
LEMMA SetupOtherMoves ==
  ASSUME SetupInv, NEW p \in Processes, SetupOther(p)
  PROVE  SetupMoves(p)
  <1>1. proc \in [Processes -> SetupProcess] /\ proc[p] \in SetupProcess
    BY DEF SetupInv, SetupProcesses
  <1>2. profiles \in [DOMAIN profiles -> SetupConfig] /\ master \in DOMAIN profiles /\ DOMAIN profiles \subseteq 1..names /\ names \in Nat
    BY DEF SetupInv, SetupRows
  <1>3. proc[p].passed => /\ proc[p].at = "record" \/ (proc[p].at \in SetupSaving /\ proc[p].then = "record")
                          /\ <<proc[p].config.url, proc[p].key>> \in reached
    BY DEF SetupInv, SetupPassed
  <1>4. \* the process goes to another step
        ASSUME NEW s \in SetupCalm, proc' = [proc EXCEPT ![p].at = s], proc[p].at \notin SetupSaving \cup {"record"},
               UNCHANGED <<saved, creds, given, raced, reached>>
        PROVE  SetupMoves(p)
    <2> DEFINE j == [proc[p] EXCEPT !.at = s]
    <2>1. j \in SetupProcess /\ j.at = s /\ j.passed = proc[p].passed /\ proc' = [proc EXCEPT ![p] = j]
      BY <1>1, <1>4 DEF SetupProcess, SetupSteps, SetupSaving, SetupCalm
    <2>2. ~proc[p].passed
      BY <1>3, <1>4
    <2> HIDE DEF j
    <2> QED BY <2>1, <2>2, <1>4 DEF SetupMoves, SetupCalm, SetupSaving
  <1>5. \* the process ends
        ASSUME proc' = [proc EXCEPT ![p] = Setup!Idle], UNCHANGED <<saved, creds, given, raced, reached>>
        PROVE  SetupMoves(p)
    BY <1>5, SetupIdle DEF SetupMoves, SetupSaving
  <1>6. \* a profile is applied
        ASSUME NEW n \in DOMAIN profiles, Setup!Applied(p, n), proc[p].at \in {"choose", "apply"},
               UNCHANGED <<saved, creds, given, raced, reached>>
        PROVE  SetupMoves(p)
    <2>1. CASE ~proc[p].starting
      BY <1>1, <1>5, <1>6, <2>1 DEF Setup!Applied
    <2>2. CASE proc[p].starting
      <3> DEFINE j == [proc[p] EXCEPT !.at = "ask", !.config = profiles[n], !.listed = {}]
      <3>1. proc' = [proc EXCEPT ![p] = j]
        BY <1>1, <1>6, <2>2 DEF Setup!Applied
      <3>2. j \in SetupProcess /\ j.at = "ask" /\ j.passed = proc[p].passed
        BY <1>1, <1>2, <1>6 DEF SetupProcess, SetupCalm, SetupSteps, SetupSaving
      <3>3. ~proc[p].passed
        BY <1>3, <1>6 DEF SetupSaving
      <3> HIDE DEF j
      <3> QED BY <3>1, <3>2, <3>3, <1>6 DEF SetupMoves, SetupSaving
    <2> QED BY <2>1, <2>2
  <1> USE DEF Setup!Files, Setup!Rest, Setup!Used
  <1>7. CASE Setup!Start(p)
    <2> DEFINE j == [Setup!Idle EXCEPT !.at = "ask", !.starting = TRUE, !.config = profiles[master]]
    <2>1. proc' = [proc EXCEPT ![p] = j]
      BY <1>7 DEF Setup!Start
    <2>2. j \in SetupProcess /\ j.at = "ask" /\ j.passed = FALSE
      BY SetupIdle, <1>2 DEF SetupProcess, SetupCalm, SetupSteps, SetupSaving
    <2> HIDE DEF j
    <2> QED BY <1>7, <2>1, <2>2 DEF SetupMoves, SetupSaving, Setup!Start
  <1>8. CASE Setup!Ask(p)
    <2> DEFINE k == Setup!Found(proc[p].config.url)
               s == IF k = Setup!NoKey THEN "record" ELSE "answer"
               j == [proc[p] EXCEPT !.key = k, !.passed = FALSE, !.at = s]
    <2>1. proc' = [proc EXCEPT ![p] = j]
      BY <1>1, <1>8 DEF Setup!Ask
    <2>2. k \in SetupKeys
      BY <1>1, SetupFound DEF SetupProcess, SetupConfig, SetupSteps, SetupSaving, SetupCalm
    <2>3. s \in SetupCalm
      BY DEF SetupCalm, SetupSaving, SetupSteps
    <2> HIDE DEF k, s
    <2>4. j \in SetupProcess /\ j.at = s /\ j.passed = FALSE
      BY <1>1, <2>2, <2>3 DEF SetupProcess, SetupSteps, SetupSaving, SetupCalm
    <2> HIDE DEF j
    <2> QED BY <1>8, <2>1, <2>3, <2>4 DEF SetupMoves, SetupCalm, SetupSaving, Setup!Ask
  <1>9. CASE Setup!Answer(p)
    <2>1. PICK ok \in BOOLEAN :
            /\ proc' = [proc EXCEPT ![p].passed = ok, ![p].at = "record"]
            /\ reached' = IF ok THEN reached \cup {<<proc[p].config.url, proc[p].key>>} ELSE reached
      BY <1>9 DEF Setup!Answer
    <2> DEFINE j == [proc[p] EXCEPT !.passed = ok, !.at = "record"]
    <2>2. /\ proc' = [proc EXCEPT ![p] = j] /\ j \in SetupProcess
          /\ j.at = "record" /\ j.passed = ok /\ j.config = proc[p].config /\ j.key = proc[p].key
      BY <1>1, <2>1 DEF SetupProcess, SetupCalm, SetupSteps, SetupSaving
    <2> HIDE DEF j
    <2>3. j.passed => <<j.config.url, j.key>> \in reached'
      BY <2>1, <2>2
    <2>4. reached \subseteq reached'
      BY <2>1
    <2> QED BY <1>9, <2>2, <2>3, <2>4 DEF SetupMoves, Setup!Answer, SetupSaving
  <1>10. CASE Setup!Cancel(p) \/ Setup!Crash(p)
    BY <1>5, <1>10 DEF Setup!Cancel, Setup!Crash
  <1>11. CASE Setup!Record(p)
    <2>1. CASE proc[p].passed
      BY <1>5, <1>11, <2>1 DEF Setup!Record
    <2>2. CASE ~proc[p].passed
      <3> DEFINE j == [proc[p] EXCEPT !.at = "recover", !.key = Setup!NoKey]
      <3>1. proc' = [proc EXCEPT ![p] = j]
        BY <1>1, <1>11, <2>2 DEF Setup!Record
      <3>2. j \in SetupProcess /\ j.at = "recover" /\ j.passed = proc[p].passed
        BY <1>1 DEF SetupProcess, SetupCalm, Setup!NoKey, SetupKeys, SetupSteps, SetupSaving
      <3> HIDE DEF j
      <3> QED BY <1>11, <2>2, <3>1, <3>2 DEF SetupMoves, SetupSaving, Setup!Record
    <2> QED BY <2>1, <2>2
  <1>12. CASE Setup!List(p)
    <2>1. PICK s \in {"setup", "choose"} : proc' = [proc EXCEPT ![p].listed = DOMAIN profiles, ![p].at = s]
      BY <1>12 DEF Setup!List
    <2> DEFINE j == [proc[p] EXCEPT !.listed = DOMAIN profiles, !.at = s]
    <2>2. /\ proc' = [proc EXCEPT ![p] = j] /\ j \in SetupProcess /\ j.at = s /\ j.passed = proc[p].passed
      <3>1. proc' = [proc EXCEPT ![p] = j]
        BY <1>1, <2>1
      <3>2. DOMAIN profiles \in SUBSET Nat /\ s \in SetupCalm
        BY <1>2, <2>1 DEF SetupCalm, SetupSteps, SetupSaving
      <3>3. j \in SetupProcess /\ j.at = s /\ j.passed = proc[p].passed
        BY <1>1, <3>2 DEF SetupProcess, SetupSteps, SetupSaving, SetupCalm
      <3> QED BY <3>1, <3>3
    <2>3. ~proc[p].passed
      BY <1>3, <1>12 DEF Setup!List, Setup!Looked, SetupSaving
    <2> HIDE DEF j
    <2> QED BY <1>12, <2>1, <2>2, <2>3 DEF SetupMoves, SetupSaving, Setup!List
  <1>13. CASE Setup!Retry(p) \/ Setup!Apply(p)
    BY <1>2, <1>6, <1>13 DEF Setup!Retry, Setup!Apply
  <1>14. CASE Setup!Choose(p)
    <2>1. PICK n \in proc[p].listed :
            \/ n \in DOMAIN profiles /\ Setup!Applied(p, n)
            \/ Setup!Goes(p, "recover")
      BY <1>14 DEF Setup!Choose
    <2>2. CASE n \in DOMAIN profiles /\ Setup!Applied(p, n)
      BY <1>6, <1>14, <2>2 DEF Setup!Choose
    <2>3. CASE Setup!Goes(p, "recover")
      BY <1>4, <1>14, <2>3 DEF Setup!Choose, Setup!Goes, SetupCalm, SetupSaving, SetupSteps
    <2> QED BY <2>1, <2>2, <2>3
  <1>15. CASE Setup!Insert(p)
    <2> DEFINE j == [proc[p] EXCEPT !.name = names', !.at = "use"]
    <2>1. proc' = [proc EXCEPT ![p] = j] /\ names' \in Nat
      <3>1. names' = names + 1
        BY <1>15 DEF Setup!Insert
      <3>2. proc' = [proc EXCEPT ![p].name = names', ![p].at = "use"]
        BY <1>15 DEF Setup!Insert
      <3>3. proc' = [proc EXCEPT ![p] = j]
        BY <1>1, <3>2
      <3> QED BY <1>2, <3>1, <3>3
    <2>2. j \in SetupProcess /\ j.at = "use" /\ j.passed = proc[p].passed
      BY <1>1, <2>1 DEF SetupProcess, SetupCalm, SetupSteps, SetupSaving
    <2>3. ~proc[p].passed
      BY <1>3, <1>15 DEF Setup!Insert, SetupSaving
    <2> HIDE DEF j
    <2> QED BY <1>15, <2>1, <2>2, <2>3 DEF SetupMoves, SetupSaving, Setup!Insert
  <1>16. CASE Setup!Recover(p) \/ Setup!Use(p) \/ Setup!Dedupe(p)
    <2>1. PICK s \in SetupCalm : proc' = [proc EXCEPT ![p].at = s]
      BY <1>16 DEF Setup!Recover, Setup!Use, Setup!Dedupe, Setup!Goes, SetupCalm, SetupSaving, SetupSteps
    <2>2. proc[p].at \notin SetupSaving \cup {"record"} /\ UNCHANGED <<saved, creds, given, raced, reached>>
      BY <1>16 DEF Setup!Recover, Setup!Use, Setup!Dedupe, SetupSaving
    <2> QED BY <1>4, <2>1, <2>2
  <1>17. CASE Setup!Switch(p) \/ Setup!Edit(p) \/ Setup!Remove(p)
    <2>1. proc' = proc /\ proc[p].at = "idle" /\ UNCHANGED <<saved, creds, given, raced, reached>>
      BY <1>17 DEF Setup!Switch, Setup!Edit, Setup!Remove
    <2>2. proc' = [proc EXCEPT ![p] = proc[p]] /\ ~proc[p].passed
      BY <1>1, <1>3, <2>1 DEF SetupSaving
    <2> QED BY <1>1, <2>1, <2>2 DEF SetupMoves, SetupSaving
  <1> QED BY <1>7, <1>8, <1>9, <1>10, <1>11, <1>12, <1>13, <1>14, <1>15, <1>16, <1>17 DEF SetupOther

\* A save begins with the reading of config.json.
SetupReads(p) ==
  /\ UNCHANGED <<saved, creds, given, reached>>
  /\ raced' = (raced \/ \E o \in Processes \ {p} : proc[o].at \in SetupSaving)
  /\ \E j \in SetupProcess : /\ proc' = [proc EXCEPT ![p] = j] /\ j.at = "merge" /\ j.put \in Urls \X Keys /\ j.data = saved
                             /\ j.passed => j.then = "record" /\ <<j.config.url, j.key>> \in reached
\* Setup, a new key and the migration of an old one begin it.
LEMMA SetupSaveReads ==
  ASSUME SetupInv, NEW p \in Processes, NEW q \in SetupProcess, NEW u \in Urls, NEW k \in Keys, Setup!Save(p, q, u, k),
         q.passed => q.then = "record" /\ <<q.config.url, q.key>> \in reached, UNCHANGED reached
  PROVE  SetupReads(p)
  <1> DEFINE j == [q EXCEPT !.at = "merge", !.put = <<u, k>>, !.data = saved]
  <1>1. proc' = [proc EXCEPT ![p] = j] /\ raced' = (raced \/ \E o \in Processes \ {p} : proc[o].at \in SetupSaving)
    BY DEF Setup!Save, Setup!Saving, SetupSaving
  <1>2. saved \in [Urls -> SetupEntry] /\ <<u, k>> \in Urls \X Keys
    BY DEF SetupInv, SetupFiles
  <1>3. /\ j \in SetupProcess /\ j.at = "merge" /\ j.put = <<u, k>> /\ j.data = saved
        /\ j.passed = q.passed /\ j.then = q.then /\ j.config = q.config /\ j.key = q.key
    BY <1>2 DEF SetupProcess, SetupSteps, SetupSaving
  <1> HIDE DEF j
  <1> QED BY <1>1, <1>2, <1>3 DEF SetupReads, Setup!Save

\* The steps that begin a save are of a process that is not saving.
LEMMA SetupBeginsSave ==
  ASSUME SetupInv, NEW p \in Processes, SetupBegins(p)
  PROVE  SetupReads(p) /\ proc[p].at \notin SetupSaving /\ UNCHANGED <<profiles, master, checks, names, mixed>>
  <1>1. proc \in [Processes -> SetupProcess] /\ proc[p] \in SetupProcess
    BY DEF SetupInv, SetupProcesses
  <1>2. CASE Setup!Migrate(p)
    <2>1. PICK u \in Setup!Consulted(p) : Setup!Pending(u) /\ Setup!Save(p, [proc[p] EXCEPT !.then = proc[p].at], u, Setup!Found(u))
      BY <1>2 DEF Setup!Migrate
    <2>2. proc[p].at \in {"ask", "record", "list"} /\ u \in Urls
      BY <1>1, <2>1 DEF Setup!Consulted, SetupInv, SetupRows, SetupProcess, SetupConfig
    <2>3. Setup!Found(u) \in Keys
      BY <2>1, <2>2, SetupFound
    <2> DEFINE q == [proc[p] EXCEPT !.then = proc[p].at]
    <2>4. /\ q \in SetupProcess /\ q.passed = proc[p].passed /\ q.then = proc[p].at
          /\ q.config = proc[p].config /\ q.key = proc[p].key
      BY <1>1, <2>2 DEF SetupProcess, SetupCalm
    <2>5. q.passed => q.then = "record" /\ <<q.config.url, q.key>> \in reached
      BY <2>2, <2>4 DEF SetupInv, SetupPassed, SetupSaving
    <2>6. Setup!Save(p, q, u, Setup!Found(u)) /\ UNCHANGED <<profiles, master, checks, names, mixed, reached>>
      BY <1>2, <2>1 DEF Setup!Migrate, Setup!Save, Setup!Store, Setup!Rest
    <2> HIDE DEF q
    <2> QED BY <2>2, <2>3, <2>4, <2>5, <2>6, SetupSaveReads DEF SetupSaving
  <1>3. CASE Setup!Setup(p)
    <2>1. PICK c \in SetupConfig, k \in Keys :
            Setup!Save(p, [Setup!Idle EXCEPT !.then = "insert", !.starting = proc[p].at # "idle", !.config = c], c.url, k)
      BY <1>3 DEF Setup!Setup, Setup!Config, SetupConfig
    <2> DEFINE q == [Setup!Idle EXCEPT !.then = "insert", !.starting = proc[p].at # "idle", !.config = c]
    <2>2. q \in SetupProcess /\ q.passed = FALSE
      BY SetupIdle DEF SetupProcess, SetupCalm
    <2>3. Setup!Save(p, q, c.url, k) /\ c.url \in Urls /\ UNCHANGED <<profiles, master, checks, names, mixed, reached>>
      BY <1>3, <2>1 DEF Setup!Setup, Setup!Save, Setup!Store, Setup!Rest, Setup!Used, SetupConfig
    <2>4. proc[p].at \notin SetupSaving
      BY <1>3 DEF Setup!Setup, SetupSaving
    <2> HIDE DEF q
    <2> QED BY <2>2, <2>3, <2>4, SetupSaveReads
  <1>4. CASE Setup!NewKey(p)
    <2>1. PICK u \in Urls, k \in Keys : Setup!Save(p, Setup!Idle, u, k)
      BY <1>4 DEF Setup!NewKey
    <2>2. UNCHANGED <<profiles, master, checks, names, mixed, reached>> /\ proc[p].at \notin SetupSaving
      BY <1>4 DEF Setup!NewKey, Setup!Save, Setup!Store, Setup!Used, SetupSaving
    <2> QED BY <2>1, <2>2, SetupIdle, SetupSaveReads
  <1> QED BY <1>2, <1>3, <1>4 DEF SetupBegins

\* What a save writes is a file of keys.
LEMMA SetupMergedTyped ==
  ASSUME SetupFiles, NEW d \in [Urls -> SetupEntry], NEW u \in Urls, NEW k \in Keys
  PROVE  Setup!Merged(d, u, k) \in [Urls -> SetupEntry]
  <1>1. ASSUME NEW v \in Urls
        PROVE  (IF v = u THEN [key |-> k, legacy |-> FALSE]
                ELSE IF d[v].key = 0 /\ creds[v] # 0 THEN [key |-> creds[v], legacy |-> TRUE] ELSE d[v]) \in SetupEntry
    BY DEF SetupFiles, SetupEntry, SetupKeys
  <1> QED BY <1>1 DEF Setup!Merged, Setup!NoKey

\* The steps of a save
SetupGoesOn(p) == Setup!Merge(p) \/ Setup!Replace(p) \/ Setup!Unlink(p)
LEMMA SetupSaveMoves ==
  ASSUME SetupInv, NEW p \in Processes, SetupGoesOn(p)
  PROVE  /\ SetupFiles' /\ UNCHANGED <<profiles, master, checks, names, mixed, reached, raced>>
         /\ \E j \in SetupProcess :
              /\ proc' = [proc EXCEPT ![p] = j]
              /\ j.at \in {"merge", "replace"} => j.put \in Urls \X Keys /\ j.data \in [Urls -> SetupEntry]
              /\ j.passed => /\ j.at = "record" \/ (j.at \in SetupSaving /\ j.then = "record")
                             /\ <<j.config.url, j.key>> \in reached
              /\ Setup!Merge(p) => j.at = "replace" /\ j.put = proc[p].put /\ j.data = Setup!Merged(proc[p].data, j.put[1], j.put[2])
              /\ Setup!Replace(p) => j.at = "unlink"
              /\ Setup!Unlink(p) => j.at \notin SetupSaving
  <1>1. proc \in [Processes -> SetupProcess] /\ proc[p] \in SetupProcess
    BY DEF SetupInv, SetupProcesses
  <1>2. proc[p].at \in {"merge", "replace"} => proc[p].put \in Urls \X Keys /\ proc[p].data \in [Urls -> SetupEntry]
    BY DEF SetupInv, SetupProcesses
  <1>3. proc[p].at \in SetupSaving /\ SetupFiles
    BY DEF SetupGoesOn, Setup!Merge, Setup!Replace, Setup!Unlink, SetupSaving, SetupInv
  <1>4. proc[p].passed => proc[p].then = "record" /\ <<proc[p].config.url, proc[p].key>> \in reached
    BY <1>3 DEF SetupInv, SetupPassed, SetupSaving
  <1>5. UNCHANGED <<profiles, master, checks, names, mixed, reached, raced>>
    BY DEF SetupGoesOn, Setup!Merge, Setup!Replace, Setup!Unlink, Setup!Files, Setup!Store, Setup!Rest
  <1>6. CASE Setup!Merge(p)
    <2> DEFINE d == Setup!Merged(proc[p].data, proc[p].put[1], proc[p].put[2])
               j == [proc[p] EXCEPT !.at = "replace", !.data = d]
    <2>1. proc[p].at = "merge" /\ UNCHANGED <<saved, creds, given>>
      BY <1>6 DEF Setup!Merge, Setup!Files
    <2>2. d \in [Urls -> SetupEntry]
      BY <1>2, <1>3, <2>1, SetupMergedTyped
    <2>3. proc' = [proc EXCEPT ![p] = j]
      BY <1>1, <1>6 DEF Setup!Merge
    <2>4. ~Setup!Replace(p) /\ ~Setup!Unlink(p)
      BY <2>1 DEF Setup!Replace, Setup!Unlink
    <2>5. d = Setup!Merged(proc[p].data, proc[p].put[1], proc[p].put[2])
      OBVIOUS
    <2> HIDE DEF d
    <2>6. /\ j \in SetupProcess /\ j.at = "replace" /\ j.put = proc[p].put /\ j.data = d /\ j.passed = proc[p].passed
          /\ j.then = proc[p].then /\ j.config = proc[p].config /\ j.key = proc[p].key
      BY <1>1, <2>2 DEF SetupProcess, SetupSteps, SetupSaving
    <2> HIDE DEF j
    <2>7. SetupFiles'
      BY <1>3, <2>1 DEF SetupFiles
    <2> QED BY <1>2, <1>4, <1>5, <2>1, <2>2, <2>3, <2>4, <2>5, <2>6, <2>7 DEF SetupSaving
  <1>7. CASE Setup!Replace(p)
    <2> DEFINE j == [proc[p] EXCEPT !.at = "unlink", !.put = <<>>, !.data = <<>>]
    <2>1. proc[p].at = "replace" /\ saved' = proc[p].data /\ given' = [given EXCEPT ![proc[p].put[1]] = proc[p].put[2]] /\ creds' = creds
      BY <1>7 DEF Setup!Replace
    <2>2. proc' = [proc EXCEPT ![p] = j]
      BY <1>1, <1>7 DEF Setup!Replace
    <2>3. ~Setup!Merge(p) /\ ~Setup!Unlink(p)
      BY <2>1 DEF Setup!Merge, Setup!Unlink
    <2>4. /\ j \in SetupProcess /\ j.at = "unlink" /\ j.passed = proc[p].passed
          /\ j.then = proc[p].then /\ j.config = proc[p].config /\ j.key = proc[p].key
      BY <1>1 DEF SetupProcess, SetupSteps, SetupSaving
    <2> HIDE DEF j
    <2>5. SetupFiles'
      BY <1>2, <1>3, <2>1 DEF SetupFiles, SetupKeys
    <2> QED BY <1>4, <1>5, <2>2, <2>3, <2>4, <2>5 DEF SetupSaving
  <1>8. CASE Setup!Unlink(p)
    <2> DEFINE j == [proc[p] EXCEPT !.at = proc[p].then, !.then = "idle"]
    <2>1. proc[p].at = "unlink" /\ saved' = saved /\ given' = given /\ creds' = [u \in Urls |-> Setup!NoKey]
      BY <1>8 DEF Setup!Unlink
    <2>2. proc' = [proc EXCEPT ![p] = j]
      BY <1>1, <1>8 DEF Setup!Unlink
    <2>3. ~Setup!Merge(p) /\ ~Setup!Replace(p)
      BY <2>1 DEF Setup!Merge, Setup!Replace
    <2>4. /\ j \in SetupProcess /\ j.at = proc[p].then /\ j.passed = proc[p].passed
          /\ j.config = proc[p].config /\ j.key = proc[p].key
      BY <1>1 DEF SetupProcess, SetupSteps, SetupCalm
    <2> HIDE DEF j
    <2>5. SetupFiles'
      BY <1>3, <2>1 DEF SetupFiles, SetupKeys, Setup!NoKey
    <2>6. proc[p].then \in SetupCalm
      BY <1>1 DEF SetupProcess
    <2> QED BY <1>4, <1>5, <2>2, <2>3, <2>4, <2>5, <2>6 DEF SetupSaving, SetupCalm
  <1> QED BY <1>6, <1>7, <1>8 DEF SetupGoesOn

SetupDoes(p) == SetupGoesOn(p) \/ SetupBegins(p) \/ SetupOther(p)

\* Every step leaves processes processes.
LEMMA SetupProcessesStep ==
  ASSUME SetupInv, NEW p \in Processes, SetupDoes(p)
  PROVE  SetupFiles' /\ SetupProcesses' /\ SetupPassed' /\ \A q \in Processes \ {p} : proc'[q] = proc[q]
  <1>1. proc \in [Processes -> SetupProcess] /\ SetupFiles
    BY DEF SetupInv, SetupProcesses
  <1>2. /\ SetupFiles' /\ reached \subseteq reached'
        /\ \E j \in SetupProcess :
             /\ proc' = [proc EXCEPT ![p] = j]
             /\ j.at \in {"merge", "replace"} => j.put \in Urls \X Keys /\ j.data \in [Urls -> SetupEntry]
             /\ j.passed => /\ j.at = "record" \/ (j.at \in SetupSaving /\ j.then = "record")
                            /\ <<j.config.url, j.key>> \in reached'
    <2>1. CASE SetupGoesOn(p)
      BY <2>1, SetupSaveMoves
    <2>2. CASE SetupBegins(p)
      <3>1. SetupReads(p)
        BY <2>2, SetupBeginsSave
      <3>2. SetupFiles'
        BY <1>1, <3>1 DEF SetupReads, SetupFiles
      <3> QED BY <1>1, <3>1, <3>2 DEF SetupReads, SetupFiles, SetupSaving
    <2>3. CASE SetupOther(p)
      <3>1. SetupMoves(p)
        BY <2>3, SetupOtherMoves
      <3>2. SetupFiles'
        BY <1>1, <3>1 DEF SetupMoves, SetupFiles
      <3> QED BY <3>1, <3>2 DEF SetupMoves, SetupSaving
    <2> QED BY <2>1, <2>2, <2>3 DEF SetupDoes
  <1>3. PICK j \in SetupProcess :
             /\ proc' = [proc EXCEPT ![p] = j]
             /\ j.at \in {"merge", "replace"} => j.put \in Urls \X Keys /\ j.data \in [Urls -> SetupEntry]
             /\ j.passed => /\ j.at = "record" \/ (j.at \in SetupSaving /\ j.then = "record")
                            /\ <<j.config.url, j.key>> \in reached'
    BY <1>2
  <1>4. proc' \in [Processes -> SetupProcess] /\ proc'[p] = j /\ \A q \in Processes \ {p} : proc'[q] = proc[q]
    BY <1>1, <1>3
  <1>5. ASSUME NEW q \in Processes
        PROVE  proc'[q].at \in {"merge", "replace"} => proc'[q].put \in Urls \X Keys /\ proc'[q].data \in [Urls -> SetupEntry]
    BY <1>3, <1>4 DEF SetupInv, SetupProcesses
  <1>6. ASSUME NEW q \in Processes
        PROVE  proc'[q].passed => /\ proc'[q].at = "record" \/ (proc'[q].at \in SetupSaving /\ proc'[q].then = "record")
                                  /\ <<proc'[q].config.url, proc'[q].key>> \in reached'
    <2>1. CASE q = p
      BY <1>3, <1>4, <2>1
    <2>2. CASE q # p
      BY <1>2, <1>4, <2>2 DEF SetupInv, SetupPassed
    <2> QED BY <2>1, <2>2
  <1> QED BY <1>2, <1>4, <1>5, <1>6 DEF SetupProcesses, SetupPassed

\* The profile that stays for an endpoint is one of it.
LEMMA SetupWinner ==
  ASSUME SetupRows, NEW n \in DOMAIN profiles, NEW newest
  PROVE  Setup!Winner(profiles[n].url, newest) \in DOMAIN profiles
  <1> DEFINE same == {m \in DOMAIN profiles : profiles[m].url = profiles[n].url}
  <1>1. same \in SUBSET Nat /\ same # {} /\ names \in Nat /\ \A m \in same : m <= names
    BY DEF SetupRows
  <1>2. Setup!Max(same) \in same
    <2> HIDE DEF same
    <2>1. PICK m \in same : \A k \in same : m >= k
      BY <1>1, GreatestExists
    <2> QED BY <2>1 DEF Setup!Max
  <1>3. Setup!Winner(profiles[n].url, newest) = IF newest \in same THEN newest ELSE Setup!Max(same)
    BY DEF Setup!Winner
  <1> QED BY <1>2, <1>3

\* The profiles that are left when doubles are removed are profiles.
LEMMA SetupDedupes ==
  ASSUME SetupRows, NEW newest, Setup!Deduplicate(newest)
  PROVE  SetupRows'
  <1> DEFINE S == {Setup!Winner(profiles[n].url, newest) : n \in DOMAIN profiles}
  <1>1. S \subseteq DOMAIN profiles
    BY SetupWinner
  <1>2. master' \in S /\ names' = names
    BY DEF Setup!Deduplicate, SetupRows
  <1>3. profiles' = [n \in S |-> profiles[n]] /\ checks' = [n \in DOMAIN checks \cap S |-> checks[n]]
    BY DEF Setup!Deduplicate, Setup!Kept
  <1> HIDE DEF S
  <1> QED BY <1>1, <1>2, <1>3 DEF SetupRows

\* Every step leaves a table of profiles with a master.
LEMMA SetupRowsStep ==
  ASSUME SetupInv, NEW p \in Processes, SetupDoes(p)
  PROVE  SetupRows'
  <1>1. SetupRows
    BY DEF SetupInv
  <1>2. proc[p] \in SetupProcess
    BY DEF SetupInv, SetupProcesses
  <1>3. CASE UNCHANGED <<profiles, master, checks, names>>
    BY <1>1, <1>3 DEF SetupRows
  <1>4. CASE Setup!Recover(p) \/ Setup!Dedupe(p)
    BY <1>1, <1>4, SetupDedupes DEF Setup!Recover, Setup!Dedupe
  <1>5. CASE Setup!Choose(p) \/ Setup!Use(p) \/ Setup!Switch(p)
    <2>1. UNCHANGED <<profiles, checks, names>> /\ master' \in DOMAIN profiles
      <3>1. CASE Setup!Choose(p)
        BY <1>1, <3>1 DEF Setup!Choose, SetupRows
      <3>2. CASE Setup!Use(p)
        BY <1>1, <3>2 DEF Setup!Use, SetupRows
      <3>3. CASE Setup!Switch(p)
        BY <1>1, <3>3 DEF Setup!Switch, SetupRows
      <3> QED BY <1>5, <3>1, <3>2, <3>3
    <2> QED BY <1>1, <2>1 DEF SetupRows
  <1>6. CASE Setup!Insert(p)
    <2>1. /\ names' = names + 1 /\ UNCHANGED <<master, checks>>
          /\ profiles' = [n \in DOMAIN profiles \cup {names'} |-> IF n = names' THEN proc[p].config ELSE profiles[n]]
      BY <1>6 DEF Setup!Insert
    <2>2. proc[p].config \in SetupConfig
      BY <1>2 DEF SetupProcess
    <2>3. DOMAIN profiles' = DOMAIN profiles \cup {names'} /\ profiles' \in [DOMAIN profiles' -> SetupConfig]
      BY <1>1, <2>1, <2>2 DEF SetupRows
    <2>4. names' \in Nat /\ DOMAIN profiles' \subseteq 1..names'
      BY <1>1, <2>1, <2>3 DEF SetupRows
    <2> QED BY <1>1, <2>1, <2>3, <2>4 DEF SetupRows
  <1>7. CASE Setup!Edit(p)
    <2>1. PICK n \in DOMAIN profiles, m \in Models : profiles' = [profiles EXCEPT ![n].model = m]
      BY <1>7 DEF Setup!Edit
    <2>2. [profiles[n] EXCEPT !.model = m] \in SetupConfig
      BY <1>1, <2>1 DEF SetupRows, SetupConfig
    <2>3. DOMAIN profiles' = DOMAIN profiles /\ profiles' \in [DOMAIN profiles -> SetupConfig]
      BY <1>1, <2>1, <2>2 DEF SetupRows
    <2> QED BY <1>1, <1>7, <2>3 DEF SetupRows, Setup!Edit
  <1>8. CASE Setup!Remove(p)
    <2>1. PICK n \in DOMAIN profiles \ {master} : Setup!Kept(DOMAIN profiles \ {n})
      BY <1>8 DEF Setup!Remove
    <2> DEFINE S == DOMAIN profiles \ {n}
    <2>2. /\ profiles' = [k \in S |-> profiles[k]] /\ checks' = [k \in DOMAIN checks \cap S |-> checks[k]]
          /\ master' = master /\ names' = names
      BY <1>8, <2>1 DEF Setup!Remove, Setup!Kept
    <2>3. S \subseteq DOMAIN profiles /\ master \in S
      BY <1>1, <2>1 DEF SetupRows
    <2> HIDE DEF S
    <2> QED BY <1>1, <2>2, <2>3 DEF SetupRows
  <1>9. CASE Setup!Record(p)
    <2> DEFINE c(n) == [print |-> Setup!Fingerprint(n), status |-> IF proc[p].passed THEN "passed" ELSE "failed"]
    <2>1. checks' = [n \in DOMAIN checks \cup {master} |-> IF n # master THEN checks[n] ELSE c(n)]
      BY <1>9 DEF Setup!Record
    <2>2. UNCHANGED <<profiles, master, names>>
      BY <1>9 DEF Setup!Record
    <2>3. c(master) \in SetupCheck
      <3>1. profiles[master] \in SetupConfig /\ profiles[master].url \in Urls
        BY <1>1 DEF SetupRows, SetupConfig
      <3>2. Setup!Found(profiles[master].url) \in SetupKeys
        BY <3>1, SetupFound
      <3> QED BY <3>1, <3>2 DEF SetupCheck, Setup!Fingerprint
    <2> HIDE DEF c
    <2>4. DOMAIN checks' = DOMAIN checks \cup {master} /\ checks' \in [DOMAIN checks' -> SetupCheck]
      BY <1>1, <2>1, <2>3 DEF SetupRows
    <2> QED BY <1>1, <2>2, <2>4 DEF SetupRows
  <1> QED
    <2>1. CASE SetupGoesOn(p)
      BY <1>3, <2>1, SetupSaveMoves
    <2>2. CASE SetupBegins(p)
      BY <1>3, <2>2, SetupBeginsSave
    <2>3. CASE SetupOther(p)
      BY <1>3, <1>4, <1>5, <1>6, <1>7, <1>8, <1>9, <2>3
      DEF SetupOther, Setup!Start, Setup!Ask, Setup!Answer, Setup!Cancel, Setup!List, Setup!Retry, Setup!Apply, Setup!Crash, Setup!Store
    <2> QED BY <2>1, <2>2, <2>3 DEF SetupDoes

\* The ghosts only grow.
LEMMA SetupMixes ==
  ASSUME SetupInv, NEW p \in Processes, SetupDoes(p), ~mixed'
  PROVE  ~mixed /\ reached \subseteq reached'
  <1>1. CASE SetupGoesOn(p) \/ SetupBegins(p)
    BY <1>1, SetupSaveMoves, SetupBeginsSave DEF SetupReads
  <1>2. CASE SetupOther(p)
    <2>1. reached \subseteq reached'
      BY <1>2, SetupOtherMoves DEF SetupMoves
    <2>2. CASE Setup!Record(p)
      <3>1. mixed' = (mixed \/ profiles[master] # proc[p].config \/ Setup!Found(proc[p].config.url) # proc[p].key)
        BY <2>2 DEF Setup!Record
      <3>2. ~mixed
        BY <3>1, Zenon
      <3> QED BY <2>1, <3>2
    <2>3. CASE ~Setup!Record(p)
      <3>1. mixed' = mixed
        BY <1>2, <2>3 DEF SetupOther, Setup!Start, Setup!Ask, Setup!Answer, Setup!Cancel, Setup!Recover, Setup!List,
          Setup!Retry, Setup!Choose, Setup!Insert, Setup!Use, Setup!Dedupe, Setup!Apply, Setup!Switch, Setup!Edit, Setup!Remove,
          Setup!Crash, Setup!Rest, Setup!Used
      <3> QED BY <2>1, <3>1
    <2> QED BY <2>2, <2>3
  <1> QED BY <1>1, <1>2 DEF SetupDoes

\* A verdict that passed is recorded of the profile and the key that were tried.
LEMMA SetupReachedStep ==
  ASSUME SetupInv, NEW p \in Processes, SetupDoes(p)
  PROVE  SetupReached'
  <1> SUFFICES ASSUME ~mixed', NEW n \in DOMAIN checks', checks'[n].status = "passed"
               PROVE  <<checks'[n].print.config.url, checks'[n].print.key>> \in reached'
    BY DEF SetupReached
  <1>1. ~mixed /\ reached \subseteq reached'
    BY SetupMixes
  <1>2. \A k \in DOMAIN checks : checks[k].status = "passed" => <<checks[k].print.config.url, checks[k].print.key>> \in reached
    BY <1>1 DEF SetupInv, SetupReached
  <1>3. CASE n \in DOMAIN checks /\ checks'[n] = checks[n]
    BY <1>1, <1>2, <1>3
  <1>4. CASE Setup!Record(p)
    <2>1. checks' = [k \in DOMAIN checks \cup {master} |->
                       IF k # master THEN checks[k]
                       ELSE [print |-> Setup!Fingerprint(k), status |-> IF proc[p].passed THEN "passed" ELSE "failed"]]
      BY <1>4 DEF Setup!Record
    <2>2. CASE n # master
      <3>1. n \in DOMAIN checks /\ checks'[n] = checks[n]
        BY <2>1, <2>2
      <3> QED BY <1>3, <3>1
    <2>3. CASE n = master
      <3>1. checks'[n] = [print |-> Setup!Fingerprint(n), status |-> IF proc[p].passed THEN "passed" ELSE "failed"]
        BY <2>1, <2>3
      <3>2. proc[p].passed /\ checks'[n].print = Setup!Fingerprint(n)
        BY <3>1
      <3>3. profiles[master] = proc[p].config /\ Setup!Found(proc[p].config.url) = proc[p].key
        BY <1>4 DEF Setup!Record
      <3>4. checks'[n].print.config = proc[p].config /\ checks'[n].print.key = proc[p].key
        BY <2>3, <3>2, <3>3 DEF Setup!Fingerprint
      <3>5. <<proc[p].config.url, proc[p].key>> \in reached
        BY <3>2 DEF SetupInv, SetupPassed
      <3> QED BY <1>1, <3>4, <3>5
    <2> QED BY <2>2, <2>3
  <1>5. CASE Setup!Recover(p) \/ Setup!Dedupe(p) \/ Setup!Remove(p)
    <2>1. PICK S : checks' = [k \in DOMAIN checks \cap S |-> checks[k]]
      BY <1>5 DEF Setup!Recover, Setup!Dedupe, Setup!Remove, Setup!Deduplicate, Setup!Kept
    <2> QED BY <1>3, <2>1
  <1>6. UNCHANGED checks \/ Setup!Record(p) \/ Setup!Recover(p) \/ Setup!Dedupe(p) \/ Setup!Remove(p)
    <2>1. CASE SetupGoesOn(p) \/ SetupBegins(p)
      BY <2>1, SetupSaveMoves, SetupBeginsSave
    <2>2. CASE SetupOther(p)
      BY <2>2 DEF SetupOther, Setup!Start, Setup!Ask, Setup!Answer, Setup!Cancel, Setup!List, Setup!Retry, Setup!Choose,
        Setup!Insert, Setup!Use, Setup!Apply, Setup!Switch, Setup!Edit, Setup!Crash, Setup!Store
    <2> QED BY <2>1, <2>2 DEF SetupDoes
  <1> QED BY <1>3, <1>4, <1>5, <1>6

\* A save that nobody overlaps writes what the files had, and loses no key.
LEMMA SetupSavesStep ==
  ASSUME SetupInv, NEW p \in Processes, SetupDoes(p)
  PROVE  SetupSaves'
  <1> DEFINE Kept == \A u \in Urls : Setup!Found(u) = given[u]
             Alone == \A q, r \in Processes : proc[q].at \in SetupSaving /\ proc[r].at \in SetupSaving => q = r
             Fits(q) == /\ proc[q].at = "merge" => proc[q].data = saved
                        /\ proc[q].at = "replace" => proc[q].data = Setup!Merged(saved, proc[q].put[1], proc[q].put[2])
                        /\ proc[q].at = "unlink" => \A u \in Urls : saved[u].key # 0 \/ creds[u] = 0
  <1>1. SUFFICES ASSUME ~raced' PROVE Kept' /\ Alone' /\ \A q \in Processes : Fits(q)'
    BY DEF SetupSaves
  <1>2. proc \in [Processes -> SetupProcess] /\ proc' \in [Processes -> SetupProcess] /\ SetupFiles
    BY SetupProcessesStep DEF SetupInv, SetupProcesses
  <1>3. \A q \in Processes \ {p} : proc'[q] = proc[q]
    BY SetupProcessesStep
  <1>4. ~raced
    <2>1. CASE SetupGoesOn(p)
      BY <1>1, <2>1, SetupSaveMoves
    <2>2. CASE SetupBegins(p)
      <3>1. raced' = (raced \/ \E o \in Processes \ {p} : proc[o].at \in SetupSaving)
        BY <2>2, SetupBeginsSave DEF SetupReads
      <3> QED BY <1>1, <3>1, Zenon
    <2>3. CASE SetupOther(p)
      BY <1>1, <2>3, SetupOtherMoves DEF SetupMoves
    <2> QED BY <2>1, <2>2, <2>3 DEF SetupDoes
  <1>5. Kept /\ Alone /\ \A q \in Processes : Fits(q)
    BY <1>4 DEF SetupInv, SetupSaves
  <1>6. CASE SetupOther(p)
    <2>1. UNCHANGED <<saved, creds, given>> /\ proc'[p].at \notin SetupSaving
      BY <1>2, <1>6, SetupOtherMoves DEF SetupMoves
    <2>2. Kept'
      BY <1>5, <2>1 DEF Setup!Found
    <2>3. Alone'
      BY <1>3, <1>5, <2>1
    <2>4. ASSUME NEW q \in Processes PROVE Fits(q)'
      <3>1. CASE q = p
        BY <2>1, <3>1 DEF SetupSaving
      <3>2. CASE q # p
        BY <1>3, <1>5, <2>1, <3>2 DEF Setup!Merged
      <3> QED BY <3>1, <3>2
    <2> QED BY <2>2, <2>3, <2>4
  <1>7. CASE SetupBegins(p)
    <2>1. /\ UNCHANGED <<saved, creds, given>>
          /\ raced' = (raced \/ \E o \in Processes \ {p} : proc[o].at \in SetupSaving)
      BY <1>7, SetupBeginsSave DEF SetupReads
    <2>2. proc'[p].at = "merge" /\ proc'[p].data = saved
      BY <1>2, <1>7, SetupBeginsSave DEF SetupReads
    <2>3. \A o \in Processes \ {p} : proc[o].at \notin SetupSaving
      BY <1>1, <2>1, Zenon
    <2>4. Kept'
      BY <1>5, <2>1 DEF Setup!Found
    <2>5. Alone'
      BY <1>3, <2>3
    <2>6. ASSUME NEW q \in Processes PROVE Fits(q)'
      <3>1. CASE q = p
        BY <2>1, <2>2, <3>1
      <3>2. CASE q # p
        BY <1>3, <2>3, <3>2 DEF SetupSaving
      <3> QED BY <3>1, <3>2
    <2> QED BY <2>4, <2>5, <2>6
  <1>8. ASSUME SetupGoesOn(p) PROVE Alone' /\ \A q \in Processes \ {p} : proc'[q].at \notin SetupSaving
    <2>1. proc[p].at \in SetupSaving
      BY <1>8 DEF SetupGoesOn, Setup!Merge, Setup!Replace, Setup!Unlink, SetupSaving
    <2>2. \A q \in Processes \ {p} : proc'[q].at \notin SetupSaving
      BY <1>3, <1>5, <2>1
    <2> QED BY <2>2
  <1>9. ASSUME SetupGoesOn(p), Fits(p)' PROVE \A q \in Processes : Fits(q)'
    BY <1>8, <1>9 DEF SetupSaving
  <1>10. CASE Setup!Merge(p)
    <2>1. UNCHANGED <<saved, creds, given>> /\ proc[p].at = "merge" /\ proc[p].data = saved
      BY <1>5, <1>10 DEF Setup!Merge, Setup!Files
    <2>2. proc'[p].at = "replace" /\ proc'[p].data = Setup!Merged(saved, proc'[p].put[1], proc'[p].put[2])
      BY <1>2, <1>10, <2>1, SetupSaveMoves DEF SetupGoesOn
    <2>3. Kept'
      BY <1>5, <2>1 DEF Setup!Found
    <2>4. Fits(p)'
      BY <2>1, <2>2 DEF Setup!Merged
    <2> QED BY <1>8, <1>9, <1>10, <2>3, <2>4 DEF SetupGoesOn
  <1>11. CASE Setup!Replace(p)
    <2> DEFINE a == proc[p].put[1]
               k == proc[p].put[2]
    <2>1. /\ proc[p].at = "replace" /\ saved' = proc[p].data /\ given' = [given EXCEPT ![a] = k] /\ creds' = creds
      BY <1>11 DEF Setup!Replace
    <2>2. a \in Urls /\ k \in Keys /\ k # 0
      BY <2>1, SetupAssumption DEF SetupInv, SetupProcesses
    <2>3. saved' = Setup!Merged(saved, a, k)
      BY <1>5, <2>1
    <2>4. proc'[p].at = "unlink"
      BY <1>2, <1>11, SetupSaveMoves DEF SetupGoesOn
    <2> HIDE DEF a, k
    <2>5. ASSUME NEW u \in Urls
          PROVE  /\ saved'[u].key # 0 \/ creds'[u] = 0
                 /\ (IF saved'[u].key # 0 THEN saved'[u].key ELSE creds'[u]) = given'[u]
      <3>1. saved'[u] = IF u = a THEN [key |-> k, legacy |-> FALSE]
                        ELSE IF saved[u].key = 0 /\ creds[u] # 0 THEN [key |-> creds[u], legacy |-> TRUE] ELSE saved[u]
        BY <2>3 DEF Setup!Merged, Setup!NoKey
      <3>2. given'[u] = IF u = a THEN k ELSE given[u]
        BY <1>2, <2>1, <2>2 DEF SetupFiles
      <3>3. given[u] = IF saved[u].key # 0 THEN saved[u].key ELSE creds[u]
        BY <1>5 DEF Setup!Found, Setup!NoKey
      <3>4. CASE u = a
        BY <2>2, <3>1, <3>2, <3>4
      <3>5. CASE u # a
        BY <2>1, <3>1, <3>2, <3>3, <3>5
      <3> QED BY <3>4, <3>5
    <2>6. Kept'
      BY <2>5 DEF Setup!Found, Setup!NoKey
    <2>7. Fits(p)'
      BY <2>4, <2>5
    <2> QED BY <1>8, <1>9, <1>11, <2>6, <2>7 DEF SetupGoesOn
  <1>12. CASE Setup!Unlink(p)
    <2>1. proc[p].at = "unlink" /\ saved' = saved /\ given' = given /\ creds' = [u \in Urls |-> 0]
      BY <1>12 DEF Setup!Unlink, Setup!NoKey
    <2>2. proc'[p].at \notin SetupSaving
      BY <1>2, <1>12, SetupSaveMoves DEF SetupGoesOn
    <2>3. \A u \in Urls : saved[u].key # 0 \/ creds[u] = 0
      BY <1>5, <2>1
    <2>4. Kept'
      BY <1>5, <2>1, <2>3 DEF Setup!Found, Setup!NoKey
    <2>5. Fits(p)'
      BY <2>2 DEF SetupSaving
    <2> QED BY <1>8, <1>9, <1>12, <2>4, <2>5 DEF SetupGoesOn
  <1> QED BY <1>6, <1>7, <1>10, <1>11, <1>12 DEF SetupDoes, SetupGoesOn

\* Every step of every process keeps the invariant.
LEMMA SetupStep == SetupInv /\ [Setup!Next]_(Setup!vars) => SetupInv'
  <1> SUFFICES ASSUME SetupInv, [Setup!Next]_(Setup!vars) PROVE SetupInv'
    OBVIOUS
  <1>1. CASE Setup!Next
    <2>1. PICK p \in Processes : SetupDoes(p)
      BY <1>1 DEF Setup!Next, SetupDoes, SetupGoesOn, SetupBegins, SetupOther
    <2>2. SetupFiles' /\ SetupProcesses' /\ SetupPassed'
      BY <2>1, SetupProcessesStep
    <2>3. SetupRows' /\ SetupReached' /\ SetupSaves'
      BY <2>1, SetupRowsStep, SetupReachedStep, SetupSavesStep
    <2> QED BY <2>2, <2>3 DEF SetupInv
  <1>2. CASE UNCHANGED Setup!vars
    BY <1>2 DEF Setup!vars, SetupInv, SetupFiles, SetupRows, SetupProcesses, SetupSaves, SetupPassed, SetupReached,
      Setup!Found, Setup!Merged
  <1> QED BY <1>1, <1>2

(* Keys and profiles, for any processes, endpoints, models and keys: a save that is
   cut off anywhere keeps the keys of every endpoint, unless two saves overlap,
   and a profile is shown as passed only with the key its endpoint answered to. *)
THEOREM KeysAreAlwaysSound == Setup!Spec => []KeysAreSound
  <1>1. SetupInv => KeysAreSound
    BY SetupInvSuffices
  <1> QED BY <1>1, SetupInitially, SetupStep, PTL DEF Setup!Spec
=============================================================================
