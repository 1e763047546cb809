---------------------------- MODULE NodeRuntime ----------------------------
(***************************************************************************)
(* The supervisor of local device processes (core/nodes.py): NodeRuntime    *)
(* starts one worker process per named node, owns the table of devices,     *)
(* sends a worker one command at a time, and reaps workers that ended.      *)
(*                                                                         *)
(* Every operation holds the runtime's lock from its first to its last      *)
(* statement, so one operation runs at a time (pc, op); the workers are     *)
(* processes of their own and move between any two of its statements.  An   *)
(* operation is cut where that matters: between reading a worker's pipe     *)
(* and asking whether it is alive, between the poll pass and the body, and   *)
(* between starting a process, registering it and admitting it.             *)
(***************************************************************************)
EXTENDS Integers, Sequences, FiniteSets

CONSTANTS
  Names,        \* names a user gives to nodes
  Devices,      \* resource keys (a serial port, 'sim:' and a name, ...)
  Graceful,     \* the devices of kinds that must not be forced (NodeDefinition.force_stop)
  Starts,       \* the pairs of a name and a device that users start
  Instances,    \* one per process ever started: bounds the starts
  Commands,     \* command ids: bounds the commands of a node
  MaxNodes,     \* NodeRuntime.max_nodes
  StoreFaults,  \* whether the evidence store of a dead worker can fail to open
  None          \* no node, no instance

ASSUME NodesAssumption == /\ MaxNodes \in Nat \ {0}
                          /\ StoreFaults \in BOOLEAN
                          /\ Graceful \subseteq Devices
                          /\ Starts \subseteq Names \X Devices
                          /\ None \notin Names \cup Instances \cup Commands
                          /\ IsFiniteSet(Instances) /\ IsFiniteSet(Commands)

VARIABLES
  records,    \* self.records: the instance a name stands for
  resources,  \* self.resources: the name that owns a device
  node,       \* the supervisor's record of an instance
  worker,     \* the process of an instance, its pipe and its two events
  pc,         \* where the operation that holds the lock is
  op,         \* that operation and its arguments
  todo,       \* names the poll pass has not looked at yet
  closed,     \* self.closed
  monitor,    \* whether the supervisor thread runs
  owner       \* whether the process that owns the runtime lives

vars == <<records, resources, node, worker, pc, op, todo, closed, monitor, owner>>

Free == [kind |-> "none", name |-> None, device |-> None, inst |-> None, rest |-> {}]

NoNode == [name |-> None, device |-> None, st |-> "starting",
           heard |-> FALSE, sent |-> {}, pending |-> None, results |-> <<>>,
           reaped |-> FALSE]

NoWorker == [phase |-> "none", admitted |-> FALSE, stopping |-> FALSE, doomed |-> FALSE,
             clean |-> FALSE, cmd |-> None, beaten |-> FALSE, down |-> <<>>, up |-> <<>>]

Heartbeat == [type |-> "heartbeat", cmd |-> None]
Failed == [type |-> "failed", cmd |-> None]
Result(c) == [type |-> "result", cmd |-> c]
Message == [type : {"heartbeat", "failed", "result"}, cmd : Commands \cup {None}]
Reported == [cmd : Commands \cup {None}, kind : {"answered", "unfinished"}]

NodeRecord ==
  [name : Names \cup {None}, device : Devices \cup {None},
   st : {"starting", "stopping", "stopped", "failed"}, heard : BOOLEAN,
   sent : SUBSET Commands, pending : Commands \cup {None}, results : Seq(Reported),
   reaped : BOOLEAN]

WorkerRecord ==
  [phase : {"none", "waiting", "loop", "busy", "dead"}, admitted : BOOLEAN,
   stopping : BOOLEAN, doomed : BOOLEAN, clean : BOOLEAN, cmd : Commands \cup {None},
   beaten : BOOLEAN, down : Seq(Commands), up : Seq(Message)]

OpRecord ==
  [kind : {"none", "look", "start", "command", "stop"}, name : Names \cup {None},
   device : Devices \cup {None}, inst : Instances \cup {None}, rest : SUBSET Names]

TypeOK ==
  /\ records \in [Names -> Instances \cup {None}]
  /\ resources \in [Devices -> Names \cup {None}]
  /\ node \in [Instances -> NodeRecord]
  /\ worker \in [Instances -> WorkerRecord]
  /\ pc \in {"idle", "read", "check", "body", "spawned", "join", "kill"}
  /\ op \in OpRecord
  /\ todo \in SUBSET Names
  /\ closed \in BOOLEAN /\ monitor \in BOOLEAN /\ owner \in BOOLEAN

Init ==
  /\ records = [n \in Names |-> None]
  /\ resources = [d \in Devices |-> None]
  /\ node = [i \in Instances |-> NoNode]
  /\ worker = [i \in Instances |-> NoWorker]
  /\ pc = "idle" /\ op = Free /\ todo = {}
  /\ closed = FALSE /\ monitor = TRUE /\ owner = TRUE

Alive(i) == worker[i].phase \in {"waiting", "loop", "busy"}
Registered(n) == records[n] # None
Unreaped == {n \in Names : Registered(n) /\ ~node[records[n]].reaped}
Live == {n \in Names : Registered(n) /\ Alive(records[n])}

-----------------------------------------------------------------------------
(* The worker process: _worker and _run_worker.                              *)

WorkerVars == <<records, resources, node, pc, op, todo, closed, monitor, owner>>

\* A message reaches the pipe only while the owner holds the other end.
Send(w, m) == IF owner THEN [w EXCEPT !.up = Append(@, m)] ELSE w

\* Of a process that ended there is left how it ended and what it wrote.
Exit(w, clean) == [NoWorker EXCEPT !.phase = "dead", !.clean = clean, !.up = w.up]

\* Admitted: the factory builds the service (it may also raise: see Fail).
Enter(i) ==
  /\ worker[i].phase = "waiting" /\ worker[i].admitted
  /\ worker' = [worker EXCEPT ![i].phase = "loop"]
  /\ UNCHANGED WorkerVars

\* Takes a command.  stopping was read before the pipe and may be set since;
\* a command past its deadline is answered without being run: Answer follows.
Serve(i) ==
  /\ worker[i].phase = "loop" /\ worker[i].down # <<>>
  /\ worker' = [worker EXCEPT ![i].phase = "busy", ![i].cmd = Head(worker[i].down),
                              ![i].down = Tail(@)]
  /\ UNCHANGED WorkerVars

\* The result, or the error the command raised, goes back.
Answer(i) ==
  /\ worker[i].phase = "busy"
  /\ LET w == [worker[i] EXCEPT !.phase = "loop", !.cmd = None]
     IN worker' = [worker EXCEPT ![i] = IF owner THEN Send(w, Result(worker[i].cmd))
                                                 ELSE Exit(w, TRUE)]
  /\ UNCHANGED WorkerVars

\* The heartbeats after the first only refresh its age, which Command leaves open.
Beat(i) ==
  /\ worker[i].phase = "loop" /\ ~worker[i].beaten
  /\ worker' = [worker EXCEPT ![i] = Send([@ EXCEPT !.beaten = TRUE], Heartbeat)]
  /\ UNCHANGED WorkerVars

\* The factory, a tick or a snapshot raised.
Fail(i) ==
  /\ \/ worker[i].phase = "waiting" /\ worker[i].admitted
     \/ worker[i].phase = "loop"
  /\ worker' = [worker EXCEPT ![i] = Exit(Send(@, Failed), TRUE)]
  /\ UNCHANGED WorkerVars

\* Mutant of Leave: a closed pipe is not noticed.
LeaveStopped(i) ==
  /\ worker[i].phase = "loop" /\ worker[i].stopping
  /\ worker' = [worker EXCEPT ![i] = Exit(@, TRUE)]
  /\ UNCHANGED WorkerVars

\* Leaves its loop: told to stop, or the owner's end of the pipe is closed.
Leave(i) ==
  /\ worker[i].phase = "loop" /\ (worker[i].stopping \/ ~owner)
  /\ worker' = [worker EXCEPT ![i] = Exit(@, TRUE)]
  /\ UNCHANGED WorkerVars

\* A signal of the runtime takes effect, or the process crashes.
Die(i) ==
  /\ Alive(i)
  /\ worker' = [worker EXCEPT ![i] = Exit(@, FALSE)]
  /\ UNCHANGED WorkerVars

WorkerStep(i) == \/ Enter(i) \/ Serve(i) \/ Answer(i) \/ Beat(i)
                 \/ Fail(i) \/ Leave(i) \/ Die(i)
-----------------------------------------------------------------------------
(* The poll pass every operation runs: _poll.                                *)

Unlock == pc' = "idle" /\ op' = Free

\* The pass goes through the names whose node is not reaped yet.
Visit(o, names) ==
  /\ todo' = names
  /\ \/ names = {} /\ pc' = "body" /\ op' = [o EXCEPT !.inst = None]
     \/ \E n \in names : pc' = "read" /\ op' = [o EXCEPT !.inst = records[n]]

Poll(o) == Visit(o, Unreaped)

\* What one message does to the record.
Received(r, m) ==
  CASE m = Heartbeat -> [r EXCEPT !.heard = TRUE]
    [] m = Failed -> [r EXCEPT !.st = "failed"]
    [] OTHER -> [r EXCEPT !.pending = IF @ = m.cmd THEN None ELSE @,
                          !.results = Append(@, [cmd |-> m.cmd, kind |-> "answered"])]

ReadMessage ==
  /\ pc = "read" /\ owner /\ worker[op.inst].up # <<>>
  /\ node' = [node EXCEPT ![op.inst] = Received(@, Head(worker[op.inst].up))]
  /\ worker' = [worker EXCEPT ![op.inst].up = Tail(@)]
  /\ UNCHANGED <<records, resources, pc, op, todo, closed, monitor, owner>>

PipeEmpty ==
  /\ pc = "read" /\ owner /\ worker[op.inst].up = <<>>
  /\ pc' = "check"
  /\ UNCHANGED <<records, resources, node, worker, op, todo, closed, monitor, owner>>

\* A worker that ended: what it left unanswered is recorded, what it held is freed.
ReapedState(st, clean) ==
  IF st = "stopped" \/ (st = "stopping" /\ clean) THEN "stopped" ELSE "failed"

ReapedNode(r, clean) ==
  [r EXCEPT !.reaped = TRUE, !.st = ReapedState(@, clean), !.pending = None,
            !.results = IF r.pending = None THEN @
                        ELSE Append(@, [cmd |-> r.pending, kind |-> "unfinished"])]

NextInPass == Visit(op, todo \ {node[op.inst].name})

StillAlive ==
  /\ pc = "check" /\ owner /\ Alive(op.inst)
  /\ NextInPass
  /\ UNCHANGED <<records, resources, node, worker, closed, monitor, owner>>

Reap ==
  /\ pc = "check" /\ owner /\ ~Alive(op.inst)
  /\ node' = [node EXCEPT ![op.inst] = ReapedNode(@, worker[op.inst].clean)]
  /\ resources' = [resources EXCEPT ![node[op.inst].device] = None]
  /\ NextInPass
  /\ UNCHANGED <<records, worker, closed, monitor, owner>>

\* Opening the evidence store raised: the operation ends there, with the node
\* marked as reaped, its commands still pending and its device not released; if
\* that operation is the supervisor thread's, the thread ends.
ReapRaises ==
  /\ pc = "check" /\ owner /\ ~Alive(op.inst)
  /\ StoreFaults /\ node[op.inst].pending # None
  /\ node' = [node EXCEPT ![op.inst] =
                [ReapedNode(@, worker[op.inst].clean) EXCEPT !.pending = node[op.inst].pending]]
  /\ monitor' = monitor \/ (op.kind = "look" /\ monitor' = FALSE)
  /\ todo' = {} /\ Unlock
  /\ UNCHANGED <<records, resources, worker, closed, owner>>

-----------------------------------------------------------------------------
(* The operations.                                                           *)

Calls(o) ==
  /\ pc = "idle" /\ owner
  /\ Poll(o)
  /\ UNCHANGED <<records, resources, node, worker, closed, monitor, owner>>

\* status, logs: they only run the pass.
Look == Calls([Free EXCEPT !.kind = "look"])

\* Mutant of Monitor: the thread leaves as soon as the runtime is closed.
MonitorUntilClose ==
  /\ monitor /\ ~closed
  /\ Calls([Free EXCEPT !.kind = "look"])

\* The supervisor thread, every 50 ms until everything is reaped after close.
Monitor ==
  /\ monitor /\ ~(closed /\ Unreaped = {})
  /\ Calls([Free EXCEPT !.kind = "look"])

Looks ==
  /\ pc = "body" /\ op.kind = "look" /\ owner
  /\ Unlock
  /\ UNCHANGED <<records, resources, node, worker, todo, closed, monitor, owner>>

Start(n, d) ==
  /\ ~closed
  /\ Calls([Free EXCEPT !.kind = "start", !.name = n, !.device = d])

\* Mutant of Startable: the device is not looked up.
StartableAnywhere ==
  /\ ~(Registered(op.name) /\ Alive(records[op.name]))
  /\ Cardinality(Live) < MaxNodes

\* start checks again after the pass, asks for the device's lock and for a
\* lease, which others may hold, and starts the process, which waits.
Startable ==
  /\ ~(Registered(op.name) /\ Alive(records[op.name]))
  /\ resources[op.device] = None
  /\ Cardinality(Live) < MaxNodes

\* A process is new: which identity it gets makes no difference, so one is picked.
Fresh == {i \in Instances : worker[i].phase = "none"}

StartProcess ==
  /\ pc = "body" /\ op.kind = "start" /\ owner
  /\ Startable
  /\ \E i \in Fresh :
       /\ i = CHOOSE j \in Fresh : TRUE
       /\ worker' = [worker EXCEPT ![i].phase = "waiting"]
       /\ node' = [node EXCEPT ![i] = [NoNode EXCEPT !.name = op.name, !.device = op.device]]
       /\ op' = [op EXCEPT !.inst = i]
  /\ pc' = "spawned"
  /\ UNCHANGED <<records, resources, todo, closed, monitor, owner>>

\* The lease could not be bound: the process withdraws, as it is told to, or is
\* ended, and start raises.
StartUndone ==
  /\ pc = "spawned" /\ owner
  /\ worker' = [worker EXCEPT ![op.inst] = IF Alive(op.inst) THEN Exit(@, FALSE) ELSE @]
  /\ Unlock
  /\ UNCHANGED <<records, resources, node, todo, closed, monitor, owner>>

\* The record replaces that of an earlier instance of the name.
Register ==
  /\ pc = "spawned" /\ owner
  /\ records' = [records EXCEPT ![op.name] = op.inst]
  /\ resources' = [resources EXCEPT ![op.device] = op.name]
  /\ worker' = [worker EXCEPT ![op.inst].admitted = Alive(op.inst)]
  /\ Unlock
  /\ UNCHANGED <<node, todo, closed, monitor, owner>>

Command(n) ==
  /\ Registered(n)
  /\ Calls([Free EXCEPT !.kind = "command", !.name = n])

\* Mutant of SendCommand: a second command while one is pending.
SendCommandAgain ==
  /\ pc = "body" /\ op.kind = "command" /\ owner
  /\ LET i == records[op.name] IN
       /\ Alive(i) /\ node[i].heard /\ node[i].st = "starting"
       /\ \E c \in Commands \ UNION {node[j].sent : j \in Instances} :
            /\ worker' = [worker EXCEPT ![i].down = Append(@, c)]
            /\ node' = [node EXCEPT ![i].pending = c, ![i].sent = @ \cup {c}]
  /\ Unlock
  /\ UNCHANGED <<records, resources, todo, closed, monitor, owner>>

SendCommand ==
  /\ pc = "body" /\ op.kind = "command" /\ owner
  /\ LET i == records[op.name] IN
       /\ Alive(i) /\ node[i].heard /\ node[i].st = "starting"
       /\ node[i].pending = None
       /\ \E c \in Commands \ UNION {node[j].sent : j \in Instances} :
            /\ worker' = [worker EXCEPT ![i].down = Append(@, c)]
            /\ node' = [node EXCEPT ![i].pending = c, ![i].sent = @ \cup {c}]
  /\ Unlock
  /\ UNCHANGED <<records, resources, todo, closed, monitor, owner>>

\* A check of start or command fails, another terminal holds the device, no
\* lease is granted, or the heartbeat is stale: the call raises.
Refused ==
  /\ pc = "body" /\ op.kind \in {"start", "command"} /\ owner
  /\ Unlock
  /\ UNCHANGED <<records, resources, node, worker, todo, closed, monitor, owner>>

-----------------------------------------------------------------------------
(* stop and close.                                                           *)

\* stop tells the worker and waits up to stop_timeout_s.
StopNode(n, rest) ==
  LET i == records[n] IN
  /\ node' = [node EXCEPT ![i].st = "stopping"]
  /\ worker' = [worker EXCEPT ![i].stopping = Alive(i)]
  /\ op' = [Free EXCEPT !.kind = "stop", !.name = n, !.inst = i, !.rest = rest]
  /\ pc' = "join"

Stop(n) ==
  /\ pc = "idle" /\ owner
  /\ n \in Unreaped
  /\ StopNode(n, {})
  /\ UNCHANGED <<records, resources, todo, closed, monitor, owner>>

\* close stops every name in turn, without giving up the lock.
Close ==
  /\ pc = "idle" /\ owner /\ ~closed
  /\ closed' = TRUE
  /\ IF Unreaped = {} THEN UNCHANGED <<node, worker, op, pc>>
                      ELSE \E n \in Unreaped : StopNode(n, Unreaped \ {n})
  /\ UNCHANGED <<records, resources, todo, monitor, owner>>

\* A node that must not be forced keeps its process and its device.
StopPending ==
  /\ pc = "join" /\ owner /\ Alive(op.inst) /\ node[op.inst].device \in Graceful
  /\ Poll(op)
  /\ UNCHANGED <<records, resources, node, worker, closed, monitor, owner>>

StopForced ==
  /\ pc = "join" /\ owner /\ Alive(op.inst) /\ node[op.inst].device \notin Graceful
  /\ worker' = [worker EXCEPT ![op.inst].doomed = TRUE]
  /\ pc' = "kill"
  /\ UNCHANGED <<records, resources, node, op, todo, closed, monitor, owner>>

\* The worker ended by itself, ended by the signals, or survives them so far.
StopJoined ==
  /\ \/ pc = "join" /\ ~Alive(op.inst)
     \/ pc = "kill"
  /\ owner
  /\ node' = [node EXCEPT ![op.inst].st = IF Alive(op.inst) THEN "failed" ELSE "stopped"]
  /\ Poll(op)
  /\ UNCHANGED <<records, resources, worker, closed, monitor, owner>>

\* Mutant of StopReturns: close stops with the first name.
StopReturnsFirst ==
  /\ pc = "body" /\ op.kind = "stop" /\ owner
  /\ Unlock
  /\ UNCHANGED <<records, resources, node, worker, todo, closed, monitor, owner>>

\* stop returns, or close goes on with a name that is still not reaped.
StopReturns ==
  /\ pc = "body" /\ op.kind = "stop" /\ owner
  /\ \/ /\ op.rest \cap Unreaped = {}
        /\ Unlock /\ UNCHANGED <<node, worker>>
     \/ \E n \in op.rest \cap Unreaped : StopNode(n, op.rest \ {n})
  /\ UNCHANGED <<records, resources, todo, closed, monitor, owner>>

\* The owner is killed: workers are not told, the locks and leases lapse.
OwnerDies ==
  /\ owner /\ owner' = FALSE
  /\ pc' = "idle" /\ op' = Free /\ todo' = {} /\ monitor' = FALSE
  /\ UNCHANGED <<records, resources, node, worker, closed>>

Operation ==
  \/ ReadMessage \/ PipeEmpty \/ StillAlive \/ Reap \/ ReapRaises
  \/ Looks \/ StartProcess \/ StartUndone \/ Register \/ SendCommand \/ Refused
  \/ StopPending \/ StopForced \/ StopJoined \/ StopReturns

Call ==
  \/ Look \/ Monitor \/ Close
  \/ \E n \in Names, d \in Devices : <<n, d>> \in Starts /\ Start(n, d)
  \/ \E n \in Names : Command(n) \/ Stop(n)

Next == Operation \/ Call \/ OwnerDies \/ (\E i \in Instances : WorkerStep(i))

\* The thread inside an operation goes on and the supervisor thread comes back;
\* a process outside a command goes on, and one that got SIGKILL ends.
Spec == Init /\ [][Next]_vars

FairSpec ==
  /\ Spec
  /\ WF_vars(Operation) /\ WF_vars(Monitor)
  /\ \A i \in Instances : /\ WF_vars(Enter(i)) /\ WF_vars(Leave(i))
                          /\ WF_vars(worker[i].doomed /\ Die(i))
-----------------------------------------------------------------------------
(* What the runtime promises.                                                *)

Reports(i, c) == {k \in DOMAIN node[i].results : node[i].results[k].cmd = c}

\* No two live processes work on one device, whatever was started, stopped,
\* crashed or replaced before (docs/NODES.md: one resource key, one node).
DeviceIsExclusive ==
  \A i, j \in Instances : Alive(i) /\ Alive(j) /\ node[i].device = node[j].device => i = j

\* Once its node is reaped a command has exactly one result: the worker's, or
\* the one that says it is not known.
CommandsAreAnswered ==
  \A i \in Instances : node[i].reaped =>
    \A c \in node[i].sent : Cardinality(Reports(i, c)) = 1

\* A command with a result is not run, nor waiting to be: the user may act on it.
ResultsAreFinal ==
  \A i \in Instances, c \in Commands : Reports(i, c) # {} =>
    ~(Alive(i) /\ (worker[i].cmd = c \/ \E k \in DOMAIN worker[i].down : worker[i].down[k] = c))

\* A node called stopped, and a device given back, have no process behind them.
StoppedIsDead ==
  \A i \in Instances : node[i].st = "stopped" \/ node[i].reaped => ~Alive(i)

(* What the user is told of commands and nodes is so: a reaped node has answered
   each of its commands exactly once, a command with a result is not run after
   it, and a node called stopped has no process.                             *)
NodesAreSound == TypeOK /\ CommandsAreAnswered /\ ResultsAreFinal /\ StoppedIsDead

\* The supervisor thread finds every node that ended, unless its name was started anew.
DeathIsNoticed ==
  \A i \in Instances :
    (owner /\ ~Alive(i) /\ \E n \in Names : records[n] = i)
      ~> (~owner \/ node[i].reaped \/ \A n \in Names : records[n] # i)

\* close ends every node that may be forced, even one whose stop timed out.
CloseReaps ==
  closed ~> (~owner \/ \A n \in Unreaped : node[records[n]].device \in Graceful)

\* Workers that were admitted notice that their owner is gone, a command aside.
AdmittedOrphansEnd ==
  ~owner ~> \A i \in Instances :
              Alive(i) /\ worker[i].admitted => worker[i].phase = "busy"

\* The error start raises names the owner of the device: that node runs on it.
DeviceOwnerRuns ==
  \A d \in Devices : resources[d] # None =>
    LET n == resources[d] IN
      Registered(n) /\ ~node[records[n]].reaped /\ node[records[n]].device = d

\* A stopped node can be started again by the same command: its name does not
\* hold its device any more.
StoppedCanRestart ==
  \A n \in Names : pc = "idle" /\ owner /\ ~closed /\ Registered(n) /\ node[records[n]].st = "stopped" =>
    resources[node[records[n]].device] # n
=============================================================================
