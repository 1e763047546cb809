------------------------- MODULE NodeRuntimeProofs -------------------------
(***************************************************************************)
(* Theorems about NodeRuntime, for any names, devices, instances, commands  *)
(* and limit: the typing, that no two live processes share a device, and    *)
(* that every command is answered once.  The second rests on the table of   *)
(* devices agreeing with the records that are not reaped yet, and on what   *)
(* an operation holds on to at each place; the third on a command being in  *)
(* one place at a time.                                                     *)
(***************************************************************************)
EXTENDS NodeRuntime, SequenceTheorems, FiniteSetTheorems, TLAPS

-----------------------------------------------------------------------------
(* Typing of the data an operation or a worker changes.                     *)

LEMMA NoneApart == None \notin Names /\ None \notin Instances
  BY NodesAssumption DEF NodesAssumption

LEMMA Blanks ==
  /\ NoNode \in NodeRecord /\ NoWorker \in WorkerRecord /\ Free \in OpRecord
  /\ NoWorker.phase = "none"
  <1>1. <<>> \in Seq(Reported) /\ <<>> \in Seq(Commands) /\ <<>> \in Seq(Message)
    OBVIOUS
  <1> QED
    BY <1>1 DEF NoNode, NoWorker, Free, NodeRecord, WorkerRecord, OpRecord

LEMMA MessagesTyped ==
  /\ Heartbeat \in Message /\ Failed \in Message /\ Heartbeat # Failed
  /\ \A c \in Commands \cup {None} : Result(c) \in Message
  /\ \A m \in Message : m.cmd \in Commands \cup {None}
  BY DEF Message, Heartbeat, Failed, Result

LEMMA ExitTyped ==
  ASSUME NEW w \in WorkerRecord, NEW clean \in BOOLEAN
  PROVE  Exit(w, clean) \in WorkerRecord /\ Exit(w, clean).phase = "dead"
  <1>1. w.up \in Seq(Message)
    BY DEF WorkerRecord
  <1> QED
    BY <1>1, Blanks DEF Exit, WorkerRecord

LEMMA SendTyped ==
  ASSUME NEW w \in WorkerRecord, NEW m \in Message
  PROVE  Send(w, m) \in WorkerRecord /\ Send(w, m).phase = w.phase
  <1>1. Append(w.up, m) \in Seq(Message)
    BY AppendProperties DEF WorkerRecord
  <1> QED
    BY <1>1 DEF Send, WorkerRecord

LEMMA ReceivedTyped ==
  ASSUME NEW r \in NodeRecord, NEW m \in Message
  PROVE  /\ Received(r, m) \in NodeRecord
         /\ Received(r, m).name = r.name /\ Received(r, m).device = r.device
         /\ Received(r, m).reaped = r.reaped
  <1>1. CASE m = Heartbeat
    BY <1>1 DEF Received, NodeRecord
  <1>2. CASE m = Failed
    BY <1>2, MessagesTyped DEF Received, NodeRecord
  <1>3. CASE m # Heartbeat /\ m # Failed
    <2>1. [cmd |-> m.cmd, kind |-> "answered"] \in Reported
      BY MessagesTyped DEF Reported
    <2>2. Append(r.results, [cmd |-> m.cmd, kind |-> "answered"]) \in Seq(Reported)
      BY <2>1, AppendProperties DEF NodeRecord
    <2> DEFINE s == Append(r.results, [cmd |-> m.cmd, kind |-> "answered"])
               p == IF r.pending = m.cmd THEN None ELSE r.pending
    <2>3. Received(r, m) = [r EXCEPT !.pending = p, !.results = s]
      BY <1>3 DEF Received
    <2>4. p \in Commands \cup {None} /\ s \in Seq(Reported)
      BY <2>2 DEF NodeRecord
    <2> HIDE DEF p, s
    <2> QED
      BY <2>3, <2>4 DEF NodeRecord
  <1> QED
    BY <1>1, <1>2, <1>3

LEMMA ReapedTyped ==
  ASSUME NEW r \in NodeRecord, NEW clean \in BOOLEAN
  PROVE  /\ ReapedNode(r, clean) \in NodeRecord
         /\ ReapedNode(r, clean).name = r.name /\ ReapedNode(r, clean).device = r.device
         /\ ReapedNode(r, clean).reaped
  <1> DEFINE s == IF r.pending = None THEN r.results
                  ELSE Append(r.results, [cmd |-> r.pending, kind |-> "unfinished"])
             st == ReapedState(r.st, clean)
  <1>1. s \in Seq(Reported)
    <2>1. CASE r.pending = None
      BY <2>1 DEF NodeRecord
    <2>2. CASE r.pending # None
      <3>1. [cmd |-> r.pending, kind |-> "unfinished"] \in Reported
        BY <2>2 DEF Reported, NodeRecord
      <3> QED
        BY <2>2, <3>1, AppendProperties DEF NodeRecord
    <2> QED
      BY <2>1, <2>2
  <1>2. st \in {"stopped", "failed"}
    BY DEF ReapedState
  <1>3. ReapedNode(r, clean) =
          [r EXCEPT !.reaped = TRUE, !.st = st, !.pending = None, !.results = s]
    BY DEF ReapedNode
  <1> HIDE DEF s, st
  <1> QED
    BY <1>1, <1>2, <1>3 DEF NodeRecord

\* A pass goes from one node to the next, or ends.
LEMMA VisitTyped ==
  ASSUME TypeOK, NEW o \in OpRecord, NEW names \in SUBSET Names, Visit(o, names)
  PROVE  /\ todo' \in SUBSET Names /\ op' \in OpRecord /\ pc' \in {"body", "read"}
         /\ op'.kind = o.kind /\ op'.name = o.name /\ op'.device = o.device
  <1>1. CASE names = {} /\ pc' = "body" /\ op' = [o EXCEPT !.inst = None]
    BY <1>1 DEF Visit, OpRecord
  <1>2. ASSUME NEW n \in names, pc' = "read", op' = [o EXCEPT !.inst = records[n]]
        PROVE  op' \in OpRecord /\ pc' \in {"body", "read"}
               /\ op'.kind = o.kind /\ op'.name = o.name /\ op'.device = o.device
    <2>1. records[n] \in Instances \cup {None}
      BY DEF TypeOK
    <2> QED
      BY <1>2, <2>1 DEF OpRecord
  <1> QED
    BY <1>1, <1>2 DEF Visit

-----------------------------------------------------------------------------
(* What a step of a worker does: it never brings a process back.            *)

NoRevival == \A i \in Instances :
  /\ Alive(i)' => Alive(i)
  /\ worker'[i].phase = "none" => worker[i].phase = "none"

LEMMA WorkerSteps ==
  ASSUME TypeOK, NEW i \in Instances, WorkerStep(i)
  PROVE  worker' \in [Instances -> WorkerRecord] /\ NoRevival /\ UNCHANGED WorkerVars
  <1> DEFINE w == worker[i]
  <1>0. UNCHANGED WorkerVars
    BY DEF WorkerStep, Enter, Serve, Answer, Beat, Fail, Leave, Die
  <1> SUFFICES worker' \in [Instances -> WorkerRecord] /\ NoRevival
    BY <1>0
  <1>1. w \in WorkerRecord
    BY DEF TypeOK
  <1>2. ASSUME NEW v \in WorkerRecord, worker' = [worker EXCEPT ![i] = v],
               v.phase # "none", w.phase \in {"waiting", "loop", "busy"}
        PROVE  worker' \in [Instances -> WorkerRecord] /\ NoRevival
    BY <1>2 DEF TypeOK, NoRevival, Alive
  <1>3. CASE Enter(i)
    <2> DEFINE v == [w EXCEPT !.phase = "loop"]
    <2>1. v \in WorkerRecord /\ v.phase = "loop"
      BY <1>1 DEF WorkerRecord
    <2>2. worker' = [worker EXCEPT ![i] = v] /\ w.phase = "waiting"
      BY <1>3 DEF Enter
    <2> HIDE DEF v
    <2> QED
      BY <1>2, <2>1, <2>2
  <1>5. CASE Serve(i)
    <2> DEFINE v == [w EXCEPT !.phase = "busy", !.cmd = Head(w.down), !.down = Tail(w.down)]
    <2>1. w.down \in Seq(Commands) /\ w.down # <<>>
      BY <1>1, <1>5 DEF WorkerRecord, Serve
    <2>2. Head(w.down) \in Commands /\ Tail(w.down) \in Seq(Commands)
      BY <2>1, HeadTailProperties
    <2>3. v \in WorkerRecord /\ v.phase = "busy"
      BY <1>1, <2>2 DEF WorkerRecord
    <2>4. worker' = [worker EXCEPT ![i] = v] /\ w.phase = "loop"
      BY <1>5 DEF Serve
    <2> HIDE DEF v
    <2> QED
      BY <1>2, <2>3, <2>4
  <1>6. CASE Answer(i)
    <2> DEFINE u == [w EXCEPT !.phase = "loop", !.cmd = None]
               v == IF owner THEN Send(u, Result(w.cmd)) ELSE Exit(u, TRUE)
    <2>1. u \in WorkerRecord /\ u.phase = "loop"
      BY <1>1 DEF WorkerRecord
    <2> HIDE DEF u
    <2>2. worker' = [worker EXCEPT ![i] = v] /\ w.phase = "busy"
      BY <1>6 DEF Answer, u
    <2>3. Result(w.cmd) \in Message
      BY <1>1, MessagesTyped DEF WorkerRecord
    <2>4. CASE owner
      <3>1. Send(u, Result(w.cmd)) \in WorkerRecord /\ Send(u, Result(w.cmd)).phase = "loop"
        BY <2>1, <2>3, SendTyped
      <3> QED
        BY <1>2, <2>2, <2>4, <3>1
    <2>5. CASE ~owner
      <3>1. Exit(u, TRUE) \in WorkerRecord /\ Exit(u, TRUE).phase = "dead"
        BY <2>1, ExitTyped
      <3> QED
        BY <1>2, <2>2, <2>5, <3>1
    <2> QED
      BY <2>4, <2>5, <1>6 DEF TypeOK
  <1>7. CASE Beat(i)
    <2> DEFINE u == [w EXCEPT !.beaten = TRUE]
    <2>1. u \in WorkerRecord /\ u.phase = "loop"
      BY <1>1, <1>7 DEF WorkerRecord, Beat
    <2> HIDE DEF u
    <2>2. Send(u, Heartbeat) \in WorkerRecord /\ Send(u, Heartbeat).phase = "loop"
      BY <2>1, SendTyped, MessagesTyped
    <2>3. worker' = [worker EXCEPT ![i] = Send(u, Heartbeat)] /\ w.phase = "loop"
      BY <1>7 DEF Beat, u
    <2> QED
      BY <1>2, <2>2, <2>3
  <1>8. CASE Fail(i)
    <2> DEFINE u == Send(w, Failed)
    <2>1. u \in WorkerRecord
      BY <1>1, SendTyped, MessagesTyped
    <2>2. worker' = [worker EXCEPT ![i] = Exit(u, TRUE)] /\ w.phase \in {"waiting", "loop"}
      BY <1>8 DEF Fail
    <2> HIDE DEF u
    <2>3. Exit(u, TRUE) \in WorkerRecord /\ Exit(u, TRUE).phase = "dead"
      BY <2>1, ExitTyped
    <2> QED
      BY <1>2, <2>2, <2>3
  <1>9. CASE Leave(i)
    <2>1. worker' = [worker EXCEPT ![i] = Exit(w, TRUE)] /\ w.phase = "loop"
      BY <1>9 DEF Leave
    <2> QED
      BY <1>1, <1>2, <2>1, ExitTyped
  <1>10. CASE Die(i)
    BY <1>1, <1>2, <1>10, ExitTyped DEF Die, Alive
  <1> QED
    BY <1>3, <1>5, <1>6, <1>7, <1>8, <1>9, <1>10 DEF WorkerStep

-----------------------------------------------------------------------------
(* The invariant.                                                           *)

\* A registered instance knows its name and was started.
Named == \A n \in Names : records[n] # None =>
  node[records[n]].name = n /\ worker[records[n]].phase # "none"

\* The device of a node that is not reaped is entered under its name.
Held == \A n \in Unreaped :
  node[records[n]].device \in Devices /\ resources[node[records[n]].device] = n

ReapedDead == \A i \in Instances : node[i].reaped => ~Alive(i)

\* A live process is registered, except between its start and its registration.
Known == owner => \A i \in Instances : Alive(i) =>
  (\E n \in Names : records[n] = i) \/ (pc = "spawned" /\ op.inst = i)

Starting == op.kind = "start" => op.name \in Names /\ op.device \in Devices

\* What start found stays so until it registers the process.
Spawning == pc = "spawned" =>
  /\ op.kind = "start"
  /\ op.inst \in Instances
  /\ node[op.inst].name = op.name /\ node[op.inst].device = op.device
  /\ ~node[op.inst].reaped /\ worker[op.inst].phase # "none"
  /\ resources[op.device] = None
  /\ records[op.name] # None => ~Alive(records[op.name])
  /\ \A n \in Names : records[n] # op.inst

\* A pass looks at nodes that are not reaped.
Visiting == pc \in {"read", "check"} =>
  todo \subseteq Unreaped /\ \E n \in todo : records[n] = op.inst

Joining == pc \in {"join", "kill"} => op.inst \in Instances

Control == Known /\ Starting /\ Spawning /\ Visiting /\ Joining
Safe == Named /\ Held /\ ReapedDead /\ DeviceIsExclusive
NodeInv == TypeOK /\ Safe /\ Control

SameNodes == \A i \in Instances :
  /\ node'[i].name = node[i].name /\ node'[i].device = node[i].device
  /\ node'[i].reaped = node[i].reaped

LEMMA InitEstablishes == Init => NodeInv
  <1> SUFFICES ASSUME Init PROVE NodeInv
    OBVIOUS
  <1>1. TypeOK
    BY Blanks DEF Init, TypeOK
  <1>2. Unreaped = {} /\ \A i \in Instances : ~Alive(i) /\ ~node[i].reaped
    BY DEF Init, Unreaped, Registered, Alive, NoWorker, NoNode
  <1>3. Safe
    BY <1>2 DEF Init, Safe, Named, Held, ReapedDead, DeviceIsExclusive
  <1>4. Control
    BY <1>2 DEF Init, Control, Known, Starting, Spawning, Visiting, Joining, Free
  <1> QED
    BY <1>1, <1>3, <1>4 DEF NodeInv

\* A step that leaves the table, the records and what a node is alone.
LEMMA Frame ==
  ASSUME TypeOK, Safe, UNCHANGED <<records, resources>>, NoRevival, SameNodes
  PROVE  Safe' /\ Unreaped' = Unreaped
  <1>1. Unreaped' = Unreaped
    BY DEF TypeOK, Unreaped, Registered, SameNodes
  <1>2. Named'
    BY DEF TypeOK, Safe, Named, NoRevival, SameNodes
  <1>3. Held'
    <2> SUFFICES ASSUME NEW n \in Unreaped
                 PROVE  node'[records[n]].device \in Devices
                        /\ resources[node'[records[n]].device] = n
      BY <1>1 DEF Held
    <2>1. records[n] \in Instances
      BY DEF TypeOK, Unreaped, Registered
    <2>2. node'[records[n]].device = node[records[n]].device
      BY <2>1 DEF SameNodes
    <2> QED
      BY <2>2 DEF Safe, Held
  <1>4. ReapedDead'
    BY DEF Safe, ReapedDead, NoRevival, SameNodes
  <1>5. DeviceIsExclusive'
    BY DEF Safe, DeviceIsExclusive, NoRevival, SameNodes
  <1> QED
    BY <1>1, <1>2, <1>3, <1>4, <1>5 DEF Safe

\* Such a step of an operation, outside start's own steps.
LEMMA QuietStep ==
  ASSUME NodeInv, TypeOK', UNCHANGED <<records, resources>>, NoRevival, SameNodes,
         owner' => owner, pc # "spawned", pc' # "spawned",
         Starting', Visiting', Joining'
  PROVE  NodeInv'
  <1>1. Safe'
    BY Frame DEF NodeInv
  <1>2. Known'
    BY DEF NodeInv, Control, Known, NoRevival
  <1> QED
    BY <1>1, <1>2 DEF NodeInv, Control, Spawning

\* Going on to another node keeps the pass among nodes that are not reaped.
LEMMA VisitKeeps ==
  ASSUME TypeOK, NEW o \in OpRecord, NEW names \in SUBSET Names, Visit(o, names),
         names \subseteq Unreaped', UNCHANGED records,
         o.kind = "start" => o.name \in Names /\ o.device \in Devices
  PROVE  Starting' /\ Visiting' /\ Joining'
  <1>1. Starting' /\ Joining'
    BY VisitTyped DEF Starting, Joining
  <1>2. Visiting'
    <2>1. ASSUME NEW n \in names, op' = [o EXCEPT !.inst = records[n]]
          PROVE  op'.inst = records[n]
      BY <2>1 DEF OpRecord
    <2> QED
      BY <2>1 DEF Visit, Visiting
  <1> QED
    BY <1>1, <1>2

LEMMA Still ==
  ASSUME UNCHANGED <<node, worker>>
  PROVE  NoRevival /\ SameNodes
  BY DEF NoRevival, SameNodes, Alive

LEMMA WorkerKeeps ==
  ASSUME NodeInv, NEW i \in Instances, WorkerStep(i)
  PROVE  NodeInv'
  <1>1. worker' \in [Instances -> WorkerRecord] /\ NoRevival /\ UNCHANGED WorkerVars
    BY WorkerSteps DEF NodeInv
  <1>2. SameNodes /\ TypeOK'
    BY <1>1 DEF SameNodes, WorkerVars, NodeInv, TypeOK
  <1>3. Safe' /\ Unreaped' = Unreaped
    BY <1>1, <1>2, Frame DEF NodeInv, WorkerVars
  <1>4. Known' /\ Starting' /\ Visiting' /\ Joining'
    <2>1. Known'
      BY <1>1 DEF NodeInv, Control, Known, WorkerVars, NoRevival
    <2>2. Starting' /\ Joining'
      BY <1>1 DEF NodeInv, Control, Starting, Joining, WorkerVars
    <2>3. Visiting'
      BY <1>1, <1>3 DEF NodeInv, Control, Visiting, WorkerVars
    <2> QED
      BY <2>1, <2>2, <2>3
  <1>5. Spawning'
    <2>1. CASE pc = "spawned" /\ records[op.name] # None
      <3>1. records[op.name] \in Instances
        BY <2>1 DEF NodeInv, TypeOK, Control, Starting, Spawning
      <3> QED
        BY <1>1, <2>1, <3>1 DEF NodeInv, Control, Spawning, WorkerVars, NoRevival
    <2> QED
      BY <1>1, <2>1 DEF NodeInv, Control, Spawning, WorkerVars, NoRevival
  <1> QED
    BY <1>2, <1>3, <1>4, <1>5 DEF NodeInv, Control

-----------------------------------------------------------------------------
(* One lemma per action of the runtime.                                     *)

\* The node a pass looks at is registered, not reaped, and in the pass.
LEMMA Visited ==
  ASSUME NodeInv, pc \in {"read", "check"}
  PROVE  /\ op.inst \in Instances /\ node[op.inst].name \in todo
         /\ records[node[op.inst].name] = op.inst
         /\ node[op.inst].name \in Unreaped /\ ~node[op.inst].reaped
         /\ todo \subseteq Unreaped
  <1>1. PICK n \in todo : records[n] = op.inst
    BY DEF NodeInv, Control, Visiting
  <1>2. n \in Unreaped /\ n \in Names /\ todo \subseteq Unreaped
    BY DEF NodeInv, Control, Visiting, Unreaped
  <1>3. op.inst \in Instances /\ ~node[op.inst].reaped
    BY <1>1, <1>2 DEF NodeInv, TypeOK, Unreaped, Registered
  <1>4. node[op.inst].name = n
    BY <1>1, <1>2, <1>3 DEF NodeInv, Safe, Named, Unreaped, Registered
  <1> QED
    BY <1>1, <1>2, <1>3, <1>4

LEMMA ReadMessageKeeps == ASSUME NodeInv, ReadMessage PROVE NodeInv'
  <1> DEFINE i == op.inst
             m == Head(worker[i].up)
  <1>1. i \in Instances /\ node[i] \in NodeRecord /\ worker[i] \in WorkerRecord
    BY Visited DEF ReadMessage, NodeInv, TypeOK
  <1>2. worker[i].up \in Seq(Message) /\ worker[i].up # <<>>
    BY <1>1 DEF ReadMessage, WorkerRecord
  <1>3. m \in Message /\ Tail(worker[i].up) \in Seq(Message)
    BY <1>2, HeadTailProperties
  <1> DEFINE r == Received(node[i], m)
             w == [worker[i] EXCEPT !.up = Tail(worker[i].up)]
  <1>4. r \in NodeRecord /\ r.name = node[i].name /\ r.device = node[i].device
        /\ r.reaped = node[i].reaped
    BY <1>1, <1>3, ReceivedTyped
  <1>5. w \in WorkerRecord /\ w.phase = worker[i].phase
    BY <1>1, <1>3 DEF WorkerRecord
  <1>6. node' = [node EXCEPT ![i] = r] /\ worker' = [worker EXCEPT ![i] = w]
    BY DEF ReadMessage
  <1> HIDE DEF m, r, w
  <1>7. node' \in [Instances -> NodeRecord] /\ SameNodes
    BY <1>1, <1>4, <1>6 DEF NodeInv, TypeOK, SameNodes
  <1>8. worker' \in [Instances -> WorkerRecord] /\ NoRevival
    BY <1>1, <1>5, <1>6 DEF NodeInv, TypeOK, NoRevival, Alive
  <1>9. UNCHANGED <<records, resources, pc, op, todo, closed, monitor, owner>> /\ pc = "read"
    BY DEF ReadMessage
  <1>10. TypeOK'
    BY <1>7, <1>8, <1>9 DEF NodeInv, TypeOK
  <1>11. Unreaped' = Unreaped
    BY <1>7, <1>8, <1>9, Frame DEF NodeInv
  <1>12. Starting' /\ Visiting' /\ Joining'
    BY <1>9, <1>11 DEF NodeInv, Control, Starting, Visiting, Joining
  <1> QED
    BY <1>7, <1>8, <1>9, <1>10, <1>12, QuietStep

LEMMA PipeEmptyKeeps == ASSUME NodeInv, PipeEmpty PROVE NodeInv'
  <1>1. /\ UNCHANGED <<records, resources, node, worker, op, todo, closed, monitor, owner>>
        /\ pc = "read" /\ pc' = "check"
    BY DEF PipeEmpty
  <1>2. NoRevival /\ SameNodes /\ TypeOK'
    BY <1>1, Still DEF NodeInv, TypeOK
  <1>3. Unreaped' = Unreaped
    BY <1>1, <1>2, Frame DEF NodeInv
  <1>4. Starting' /\ Visiting' /\ Joining'
    BY <1>1, <1>3 DEF NodeInv, Control, Starting, Visiting, Joining
  <1> QED
    BY <1>1, <1>2, <1>4, QuietStep

\* A step that only moves the pass on, from any place but "spawned".
LEMMA PassKeeps ==
  ASSUME NodeInv, NEW o \in OpRecord, NEW names \in SUBSET Names, Visit(o, names),
         names \subseteq Unreaped, node' \in [Instances -> NodeRecord],
         UNCHANGED <<records, resources, worker, closed, monitor, owner>>, SameNodes,
         pc # "spawned", o.kind = "start" => o.name \in Names /\ o.device \in Devices
  PROVE  NodeInv'
  <1>1. NoRevival
    BY DEF NoRevival, Alive
  <1>2. Unreaped' = Unreaped
    BY <1>1, Frame DEF NodeInv
  <1>3. todo' \in SUBSET Names /\ op' \in OpRecord /\ pc' \in {"body", "read"}
    BY VisitTyped DEF NodeInv
  <1>4. TypeOK'
    BY <1>3 DEF NodeInv, TypeOK
  <1>5. Starting' /\ Visiting' /\ Joining'
    BY <1>2, VisitKeeps DEF NodeInv
  <1> QED
    BY <1>1, <1>3, <1>4, <1>5, QuietStep

LEMMA OpStarts == ASSUME NodeInv PROVE op \in OpRecord
    /\ (op.kind = "start" => op.name \in Names /\ op.device \in Devices)
  BY DEF NodeInv, TypeOK, Control, Starting

LEMMA StillAliveKeeps == ASSUME NodeInv, StillAlive PROVE NodeInv'
  <1>1. Visit(op, todo \ {node[op.inst].name}) /\ pc = "check"
        /\ UNCHANGED <<records, resources, node, worker, closed, monitor, owner>>
    BY DEF StillAlive, NextInPass
  <1>2. todo \ {node[op.inst].name} \subseteq Unreaped
        /\ todo \ {node[op.inst].name} \in SUBSET Names
    BY <1>1, Visited DEF NodeInv, TypeOK
  <1>3. node' \in [Instances -> NodeRecord] /\ SameNodes
    BY <1>1, Still DEF NodeInv, TypeOK
  <1> QED
    BY <1>1, <1>2, <1>3, OpStarts, PassKeeps

LEMMA CallsKeep ==
  ASSUME NodeInv, NEW o \in OpRecord, Calls(o),
         o.kind = "start" => o.name \in Names /\ o.device \in Devices
  PROVE  NodeInv'
  <1>1. Visit(o, Unreaped) /\ pc = "idle"
        /\ UNCHANGED <<records, resources, node, worker, closed, monitor, owner>>
    BY DEF Calls, Poll
  <1>2. Unreaped \in SUBSET Names
    BY DEF Unreaped
  <1>3. node' \in [Instances -> NodeRecord] /\ SameNodes
    BY <1>1, Still DEF NodeInv, TypeOK
  <1> QED
    BY <1>1, <1>2, <1>3, PassKeeps

\* An operation that gives up the lock: Unlock, with the records as they were.
LEMMA UnlockKeeps ==
  ASSUME NodeInv, Unlock, UNCHANGED <<records, resources, owner>>, pc # "spawned",
         node' \in [Instances -> NodeRecord], worker' \in [Instances -> WorkerRecord],
         NoRevival, SameNodes, todo' \in SUBSET Names, closed' \in BOOLEAN, monitor' \in BOOLEAN
  PROVE  NodeInv'
  <1>1. pc' = "idle" /\ op' = Free /\ Free \in OpRecord /\ Free.kind = "none"
    BY Blanks DEF Unlock, Free
  <1>2. TypeOK'
    BY <1>1 DEF NodeInv, TypeOK
  <1>3. Starting' /\ Visiting' /\ Joining'
    BY <1>1 DEF Starting, Visiting, Joining
  <1> QED
    BY <1>1, <1>2, <1>3, QuietStep

LEMMA ReturnsKeep == ASSUME NodeInv, Looks \/ Refused PROVE NodeInv'
  <1>1. Unlock /\ pc = "body"
        /\ UNCHANGED <<records, resources, node, worker, todo, closed, monitor, owner>>
    BY DEF Looks, Refused
  <1>2. node' \in [Instances -> NodeRecord] /\ worker' \in [Instances -> WorkerRecord]
        /\ NoRevival /\ SameNodes
    BY <1>1, Still DEF NodeInv, TypeOK
  <1>3. todo' \in SUBSET Names /\ closed' \in BOOLEAN /\ monitor' \in BOOLEAN
    BY <1>1 DEF NodeInv, TypeOK
  <1> QED
    BY <1>1, <1>2, <1>3, UnlockKeeps

LEMMA SendCommandKeeps == ASSUME NodeInv, SendCommand PROVE NodeInv'
  <1> DEFINE i == records[op.name]
  <1>1. Alive(i) /\ Unlock /\ pc = "body"
        /\ UNCHANGED <<records, resources, todo, closed, monitor, owner>>
    BY DEF SendCommand
  <1>2. PICK c \in Commands :
          /\ worker' = [worker EXCEPT ![i].down = Append(@, c)]
          /\ node' = [node EXCEPT ![i].pending = c, ![i].sent = @ \cup {c}]
    BY DEF SendCommand
  <1>3. worker' \in [Instances -> WorkerRecord] /\ NoRevival
    <2> DEFINE v == [worker[i] EXCEPT !.down = Append(worker[i].down, c)]
    <2>1. CASE i \in Instances
      <3>1. worker[i] \in WorkerRecord /\ worker[i].down \in Seq(Commands)
        BY <2>1 DEF NodeInv, TypeOK, WorkerRecord
      <3>2. Append(worker[i].down, c) \in Seq(Commands)
        BY <3>1, AppendProperties
      <3>3. v \in WorkerRecord /\ v.phase = worker[i].phase
        BY <3>1, <3>2 DEF WorkerRecord
      <3>4. worker' = [worker EXCEPT ![i] = v]
        BY <1>2
      <3> HIDE DEF v
      <3> QED
        BY <2>1, <3>3, <3>4 DEF NodeInv, TypeOK, NoRevival, Alive
    <2>2. CASE i \notin Instances
      <3>1. worker' = worker
        BY <1>2, <2>2 DEF NodeInv, TypeOK
      <3> QED
        BY <3>1 DEF NodeInv, TypeOK, NoRevival, Alive
    <2> QED
      BY <2>1, <2>2
  <1>4. node' \in [Instances -> NodeRecord] /\ SameNodes
    <2> DEFINE r == [node[i] EXCEPT !.pending = c, !.sent = node[i].sent \cup {c}]
    <2>1. CASE i \in Instances
      <3>1. node[i] \in NodeRecord
        BY <2>1 DEF NodeInv, TypeOK
      <3>2. r \in NodeRecord /\ r.name = node[i].name /\ r.device = node[i].device
            /\ r.reaped = node[i].reaped
        BY <3>1 DEF NodeRecord
      <3>3. node' = [node EXCEPT ![i] = r]
        BY <1>2
      <3> HIDE DEF r
      <3> QED
        BY <2>1, <3>2, <3>3 DEF NodeInv, TypeOK, SameNodes
    <2>2. CASE i \notin Instances
      <3>1. node' = node
        BY <1>2, <2>2 DEF NodeInv, TypeOK
      <3> QED
        BY <3>1 DEF NodeInv, TypeOK, SameNodes
    <2> QED
      BY <2>1, <2>2
  <1>5. todo' \in SUBSET Names /\ closed' \in BOOLEAN /\ monitor' \in BOOLEAN
    BY <1>1 DEF NodeInv, TypeOK
  <1> QED
    BY <1>1, <1>3, <1>4, <1>5, UnlockKeeps

\* Changing the state of one node is no more than that.
LEMMA StateTyped ==
  ASSUME NodeInv, NEW i \in Instances, NEW st \in {"stopping", "stopped", "failed"},
         node' = [node EXCEPT ![i].st = st]
  PROVE  node' \in [Instances -> NodeRecord] /\ SameNodes
  <1> DEFINE r == [node[i] EXCEPT !.st = st]
  <1>1. node[i] \in NodeRecord
    BY DEF NodeInv, TypeOK
  <1>2. r \in NodeRecord /\ r.name = node[i].name /\ r.device = node[i].device
        /\ r.reaped = node[i].reaped
    BY <1>1 DEF NodeRecord
  <1>3. node' = [node EXCEPT ![i] = r]
    OBVIOUS
  <1> HIDE DEF r
  <1> QED
    BY <1>2, <1>3 DEF NodeInv, TypeOK, SameNodes

\* Setting a flag of a worker revives nothing.
LEMMA FlagTyped ==
  ASSUME NodeInv, NEW i \in Instances, NEW b \in BOOLEAN,
         \/ worker' = [worker EXCEPT ![i].stopping = b]
         \/ worker' = [worker EXCEPT ![i].doomed = b]
         \/ worker' = [worker EXCEPT ![i].admitted = b]
  PROVE  /\ worker' \in [Instances -> WorkerRecord] /\ NoRevival
         /\ \A j \in Instances : worker'[j].phase = worker[j].phase
  <1> DEFINE W == {[worker[i] EXCEPT !.stopping = b], [worker[i] EXCEPT !.doomed = b],
                   [worker[i] EXCEPT !.admitted = b]}
  <1>1. worker[i] \in WorkerRecord
    BY DEF NodeInv, TypeOK
  <1>2. \A w \in W : w \in WorkerRecord /\ w.phase = worker[i].phase
    BY <1>1 DEF WorkerRecord
  <1>3. \E w \in W : worker' = [worker EXCEPT ![i] = w]
    OBVIOUS
  <1> HIDE DEF W
  <1> QED
    BY <1>2, <1>3 DEF NodeInv, TypeOK, NoRevival, Alive

LEMMA StopNodeKeeps ==
  ASSUME NodeInv, NEW n \in Unreaped, NEW rest \in SUBSET Names, StopNode(n, rest),
         UNCHANGED <<records, resources, todo, monitor, owner>>, closed' \in BOOLEAN,
         pc # "spawned"
  PROVE  NodeInv'
  <1> DEFINE i == records[n]
  <1>1. n \in Names /\ i \in Instances
    BY DEF NodeInv, TypeOK, Unreaped, Registered
  <1> DEFINE o == [Free EXCEPT !.kind = "stop", !.name = n, !.inst = i, !.rest = rest]
  <1>2. node' = [node EXCEPT ![i].st = "stopping"] /\ op' = o /\ pc' = "join"
        /\ worker' = [worker EXCEPT ![i].stopping = Alive(i)]
    BY DEF StopNode
  <1>3. o \in OpRecord /\ o.kind = "stop" /\ o.inst = i
    BY <1>1, Blanks DEF Free, OpRecord
  <1> HIDE DEF o, i
  <1>4. node' \in [Instances -> NodeRecord] /\ SameNodes
    BY <1>1, <1>2, StateTyped
  <1>5. Alive(i) \in BOOLEAN
    BY DEF Alive
  <1>6. worker' \in [Instances -> WorkerRecord] /\ NoRevival
    BY <1>1, <1>2, <1>5, FlagTyped
  <1>7. TypeOK'
    BY <1>2, <1>3, <1>4, <1>6 DEF NodeInv, TypeOK
  <1>8. Starting' /\ Visiting' /\ Joining'
    BY <1>1, <1>2, <1>3 DEF Starting, Visiting, Joining
  <1> QED
    BY <1>2, <1>4, <1>6, <1>7, <1>8, QuietStep

LEMMA StopKeeps ==
  ASSUME NodeInv, NEW n \in Names, Stop(n)
  PROVE  NodeInv'
  <1>1. n \in Unreaped /\ {} \in SUBSET Names /\ closed' \in BOOLEAN
    BY DEF Stop, NodeInv, TypeOK
  <1> QED
    BY <1>1, StopNodeKeeps DEF Stop

LEMMA CloseKeeps == ASSUME NodeInv, Close PROVE NodeInv'
  <1>1. UNCHANGED <<records, resources, todo, monitor, owner>> /\ closed' = TRUE /\ pc = "idle"
    BY DEF Close
  <1>2. CASE Unreaped = {}
    <2>1. UNCHANGED <<node, worker, op, pc>>
      BY <1>2 DEF Close
    <2>2. TypeOK' /\ NoRevival /\ SameNodes
      BY <1>1, <2>1, Still DEF NodeInv, TypeOK
    <2>3. Starting' /\ Visiting' /\ Joining'
      BY <1>1, <2>1 DEF NodeInv, Control, Starting, Visiting, Joining
    <2> QED
      BY <1>1, <2>1, <2>2, <2>3, QuietStep
  <1>3. CASE Unreaped # {}
    <2>1. PICK n \in Unreaped : StopNode(n, Unreaped \ {n})
      BY <1>3 DEF Close
    <2>2. Unreaped \ {n} \in SUBSET Names
      BY DEF Unreaped
    <2> QED
      BY <1>1, <2>1, <2>2, StopNodeKeeps
  <1> QED
    BY <1>2, <1>3

LEMMA StopPendingKeeps == ASSUME NodeInv, StopPending PROVE NodeInv'
  <1>1. Visit(op, Unreaped) /\ pc = "join"
        /\ UNCHANGED <<records, resources, node, worker, closed, monitor, owner>>
    BY DEF StopPending, Poll
  <1>2. Unreaped \in SUBSET Names
    BY DEF Unreaped
  <1>3. node' \in [Instances -> NodeRecord] /\ SameNodes
    BY <1>1, Still DEF NodeInv, TypeOK
  <1> QED
    BY <1>1, <1>2, <1>3, OpStarts, PassKeeps

LEMMA StopForcedKeeps == ASSUME NodeInv, StopForced PROVE NodeInv'
  <1>1. /\ worker' = [worker EXCEPT ![op.inst].doomed = TRUE] /\ pc = "join" /\ pc' = "kill"
        /\ UNCHANGED <<records, resources, node, op, todo, closed, monitor, owner>>
    BY DEF StopForced
  <1>2. op.inst \in Instances
    BY <1>1 DEF NodeInv, Control, Joining
  <1>3. worker' \in [Instances -> WorkerRecord] /\ NoRevival
    BY <1>1, <1>2, FlagTyped
  <1>4. SameNodes /\ TypeOK'
    BY <1>1, <1>3 DEF SameNodes, NodeInv, TypeOK
  <1>5. Starting' /\ Visiting' /\ Joining'
    BY <1>1, <1>2 DEF NodeInv, Control, Starting, Visiting, Joining
  <1> QED
    BY <1>1, <1>3, <1>4, <1>5, QuietStep

LEMMA StopJoinedKeeps == ASSUME NodeInv, StopJoined PROVE NodeInv'
  <1> DEFINE st == IF Alive(op.inst) THEN "failed" ELSE "stopped"
  <1>1. /\ Visit(op, Unreaped) /\ pc \in {"join", "kill"}
        /\ node' = [node EXCEPT ![op.inst].st = st]
        /\ UNCHANGED <<records, resources, worker, closed, monitor, owner>>
    BY DEF StopJoined, Poll
  <1>2. Unreaped \in SUBSET Names /\ op.inst \in Instances
    BY <1>1 DEF Unreaped, NodeInv, Control, Joining
  <1>3. st \in {"stopping", "stopped", "failed"}
    OBVIOUS
  <1> HIDE DEF st
  <1>4. node' \in [Instances -> NodeRecord] /\ SameNodes
    BY <1>1, <1>2, <1>3, StateTyped
  <1> QED
    BY <1>1, <1>2, <1>4, OpStarts, PassKeeps

LEMMA StopReturnsKeeps == ASSUME NodeInv, StopReturns PROVE NodeInv'
  <1>1. UNCHANGED <<records, resources, todo, closed, monitor, owner>> /\ pc = "body"
    BY DEF StopReturns
  <1>2. todo' \in SUBSET Names /\ closed' \in BOOLEAN /\ monitor' \in BOOLEAN
    BY <1>1 DEF NodeInv, TypeOK
  <1>3. CASE Unlock /\ UNCHANGED <<node, worker>>
    <2>1. node' \in [Instances -> NodeRecord] /\ worker' \in [Instances -> WorkerRecord]
          /\ NoRevival /\ SameNodes
      BY <1>3, Still DEF NodeInv, TypeOK
    <2> QED
      BY <1>1, <1>2, <1>3, <2>1, UnlockKeeps
  <1>4. ASSUME NEW n \in op.rest \cap Unreaped, StopNode(n, op.rest \ {n})
        PROVE  NodeInv'
    <2>1. op.rest \ {n} \in SUBSET Names
      BY DEF NodeInv, TypeOK, OpRecord
    <2> QED
      BY <1>1, <1>2, <1>4, <2>1, StopNodeKeeps
  <1> QED
    BY <1>3, <1>4 DEF StopReturns

-----------------------------------------------------------------------------
(* The steps that change the table of devices or the records.               *)

\* Reaping: only the device of the reaped node, which no other node holds, is freed.
LEMMA ReapedSafe ==
  ASSUME NodeInv, pc = "check", ~Alive(op.inst), UNCHANGED <<records, worker>>,
         NEW r \in NodeRecord, r.name = node[op.inst].name, r.device = node[op.inst].device,
         r.reaped, node' = [node EXCEPT ![op.inst] = r],
         \/ resources' = [resources EXCEPT ![node[op.inst].device] = None]
         \/ resources' = resources
  PROVE  /\ Safe' /\ Unreaped' = Unreaped \ {node[op.inst].name}
         /\ node' \in [Instances -> NodeRecord]
         /\ resources' \in [Devices -> Names \cup {None}]
  <1> DEFINE i == op.inst
             n == node[i].name
  <1>1. i \in Instances /\ n \in Names /\ n \in Unreaped /\ records[n] = i
    BY Visited DEF Unreaped
  <1>2. node' \in [Instances -> NodeRecord] /\ resources' \in [Devices -> Names \cup {None}]
    BY <1>1 DEF NodeInv, TypeOK
  <1>3. \A j \in Instances : /\ node'[j].name = node[j].name /\ node'[j].device = node[j].device
                             /\ node'[j].reaped = (node[j].reaped \/ j = i)
    BY <1>1 DEF NodeInv, TypeOK, NodeRecord
  <1>4. \A m \in Names : records[m] = i => m = n
    BY <1>1, NoneApart DEF NodeInv, Safe, Named, TypeOK
  <1>5. Unreaped' = Unreaped \ {n}
    BY <1>1, <1>3, <1>4 DEF Unreaped, Registered, NodeInv, TypeOK
  <1>6. Named'
    BY <1>3 DEF NodeInv, TypeOK, Safe, Named
  <1>7. Held'
    <2> SUFFICES ASSUME NEW m \in Unreaped, m # n
                 PROVE  node'[records[m]].device \in Devices
                        /\ resources'[node'[records[m]].device] = m
      BY <1>5 DEF Held
    <2>1. records[m] \in Instances /\ node'[records[m]].device = node[records[m]].device
      BY <1>3 DEF NodeInv, TypeOK, Unreaped, Registered
    <2>2. node[records[m]].device \in Devices /\ resources[node[records[m]].device] = m
      BY DEF NodeInv, Safe, Held
    <2>3. resources[node[i].device] = n
      BY <1>1 DEF NodeInv, Safe, Held
    <2> QED
      BY <2>1, <2>2, <2>3 DEF NodeInv, TypeOK
  <1>8. ReapedDead' /\ DeviceIsExclusive'
    <2>1. \A j \in Instances : Alive(j)' = Alive(j)
      BY DEF Alive
    <2>2. ReapedDead'
      BY <1>3, <2>1 DEF NodeInv, Safe, ReapedDead
    <2>3. DeviceIsExclusive'
      BY <1>3, <2>1 DEF NodeInv, Safe, DeviceIsExclusive
    <2> QED
      BY <2>2, <2>3
  <1> QED
    BY <1>2, <1>5, <1>6, <1>7, <1>8 DEF Safe

LEMMA ReapKeeps == ASSUME NodeInv, Reap \/ ReapRaises PROVE NodeInv'
  <1> DEFINE i == op.inst
             clean == worker[i].clean
             q == ReapedNode(node[i], clean)
             r == IF Reap THEN q ELSE [q EXCEPT !.pending = node[i].pending]
  <1>1. /\ pc = "check" /\ owner /\ ~Alive(i) /\ UNCHANGED <<records, worker, closed, owner>>
        /\ monitor' \in BOOLEAN
        /\ node' = [node EXCEPT ![i] = r]
        /\ \/ resources' = [resources EXCEPT ![node[i].device] = None]
           \/ resources' = resources
    BY DEF Reap, ReapRaises, NodeInv, TypeOK
  <1>2. i \in Instances /\ node[i] \in NodeRecord /\ clean \in BOOLEAN
    BY <1>1, Visited DEF NodeInv, TypeOK, WorkerRecord
  <1>3. q \in NodeRecord /\ q.name = node[i].name /\ q.device = node[i].device /\ q.reaped
    BY <1>2, ReapedTyped
  <1> HIDE DEF q
  <1>4. r \in NodeRecord /\ r.name = node[i].name /\ r.device = node[i].device /\ r.reaped
    BY <1>2, <1>3 DEF NodeRecord
  <1> HIDE DEF r
  <1>5. Safe' /\ Unreaped' = Unreaped \ {node[i].name}
        /\ node' \in [Instances -> NodeRecord] /\ resources' \in [Devices -> Names \cup {None}]
    BY <1>1, <1>4, ReapedSafe
  <1>7. CASE Reap
    <2> DEFINE names == todo \ {node[i].name}
    <2>1. Visit(op, names)
      BY <1>7 DEF Reap, NextInPass
    <2>2. names \in SUBSET Names /\ names \subseteq Unreaped'
      BY <1>1, <1>5, Visited DEF NodeInv, TypeOK
    <2> HIDE DEF names
    <2>3. todo' \in SUBSET Names /\ op' \in OpRecord /\ pc' \in {"body", "read"}
      BY <2>1, <2>2, OpStarts, VisitTyped DEF NodeInv
    <2>4. Starting' /\ Visiting' /\ Joining'
      BY <1>1, <2>1, <2>2, OpStarts, VisitKeeps DEF NodeInv
    <2>5. TypeOK'
      BY <1>1, <1>5, <2>3 DEF NodeInv, TypeOK
    <2>6. Known' /\ Spawning'
      BY <1>1, <2>3 DEF NodeInv, Control, Known, Spawning, Alive
    <2> QED
      BY <1>5, <2>4, <2>5, <2>6 DEF NodeInv, Control
  <1>8. CASE ReapRaises
    <2>1. todo' = {} /\ pc' = "idle" /\ op' = Free /\ Free.kind = "none"
      BY <1>8 DEF ReapRaises, Unlock, Free
    <2>2. TypeOK'
      BY <1>1, <1>5, <2>1, Blanks DEF NodeInv, TypeOK
    <2>3. Control'
      BY <1>1, <2>1 DEF NodeInv, Control, Known, Starting, Spawning, Visiting, Joining, Alive
    <2> QED
      BY <1>5, <2>2, <2>3 DEF NodeInv
  <1> QED
    BY <1>7, <1>8

\* A new process works on a device nobody holds: whoever is alive is registered,
\* and so its device is held.
LEMMA StartProcessKeeps == ASSUME NodeInv, StartProcess PROVE NodeInv'
  <1>1. /\ pc = "body" /\ op.kind = "start" /\ owner /\ pc' = "spawned"
        /\ UNCHANGED <<records, resources, todo, closed, monitor, owner>>
        /\ records[op.name] # None => ~Alive(records[op.name])
        /\ resources[op.device] = None
    BY DEF StartProcess, Startable, Registered
  <1>2. PICK i \in Instances :
          /\ worker[i].phase = "none"
          /\ worker' = [worker EXCEPT ![i].phase = "waiting"]
          /\ node' = [node EXCEPT ![i] = [NoNode EXCEPT !.name = op.name, !.device = op.device]]
          /\ op' = [op EXCEPT !.inst = i]
    BY DEF StartProcess, Fresh
  <1>3. op.name \in Names /\ op.device \in Devices /\ op \in OpRecord
    BY <1>1, OpStarts
  <1> DEFINE w == [worker[i] EXCEPT !.phase = "waiting"]
             r == [NoNode EXCEPT !.name = op.name, !.device = op.device]
             o == [op EXCEPT !.inst = i]
  <1>4. w \in WorkerRecord /\ w.phase = "waiting"
    BY DEF NodeInv, TypeOK, WorkerRecord
  <1>5. r \in NodeRecord /\ r.name = op.name /\ r.device = op.device /\ r.reaped = FALSE
    <2>1. NoNode.reaped = FALSE
      BY DEF NoNode
    <2> QED
      BY <1>3, <2>1, Blanks DEF NodeRecord
  <1>6. o \in OpRecord /\ o.inst = i /\ o.kind = op.kind /\ o.name = op.name
        /\ o.device = op.device
    BY <1>3 DEF OpRecord
  <1>7. worker' = [worker EXCEPT ![i] = w] /\ node' = [node EXCEPT ![i] = r] /\ op' = o
    BY <1>2
  <1> HIDE DEF w, r, o
  <1>8. TypeOK'
    BY <1>1, <1>4, <1>5, <1>6, <1>7 DEF NodeInv, TypeOK
  <1>9. /\ \A n \in Names : records[n] # i
        /\ ~Alive(i) /\ Alive(i)'
        /\ \A j \in Instances : j # i =>
             node'[j] = node[j] /\ worker'[j] = worker[j] /\ (Alive(j)' <=> Alive(j))
        /\ node'[i] = r /\ worker'[i] = w
    <2>1. \A n \in Names : records[n] # i
      BY <1>2, NoneApart DEF NodeInv, Safe, Named, TypeOK
    <2> QED
      BY <1>2, <1>4, <1>7, <2>1 DEF NodeInv, TypeOK, Alive
  <1>10. Unreaped' = Unreaped
    BY <1>1, <1>9 DEF Unreaped, Registered, NodeInv, TypeOK
  <1>11. Named' /\ Held'
    <2>1. Named'
      BY <1>1, <1>9 DEF NodeInv, Safe, Named, TypeOK
    <2>2. \A n \in Unreaped : records[n] \in Instances /\ records[n] # i
      BY <1>9 DEF NodeInv, TypeOK, Unreaped, Registered
    <2> QED
      BY <1>1, <1>9, <1>10, <2>1, <2>2 DEF NodeInv, Safe, Held
  <1>12. ReapedDead'
    BY <1>5, <1>9 DEF NodeInv, Safe, ReapedDead
  <1>13. \A j \in Instances : Alive(j) => node[j].device # op.device
    <2> SUFFICES ASSUME NEW j \in Instances, Alive(j)
                 PROVE  node[j].device # op.device
      OBVIOUS
    <2>1. PICK n \in Names : records[n] = j
      BY <1>1 DEF NodeInv, Control, Known
    <2>2. n \in Unreaped
      BY <2>1, NoneApart DEF NodeInv, Safe, ReapedDead, Unreaped, Registered, TypeOK
    <2>3. resources[node[j].device] = n
      BY <2>1, <2>2 DEF NodeInv, Safe, Held
    <2> QED
      BY <1>1, <2>1, <2>3, NoneApart
  <1>14. DeviceIsExclusive'
    BY <1>5, <1>9, <1>13 DEF NodeInv, Safe, DeviceIsExclusive
  <1>15. Known'
    BY <1>1, <1>6, <1>7, <1>9 DEF NodeInv, Control, Known
  <1>16. Spawning'
    <2>1. records[op.name] # None => records[op.name] \in Instances /\ records[op.name] # i
      BY <1>3, <1>9 DEF NodeInv, TypeOK
    <2>2. records'[op'.name] # None => ~Alive(records[op.name])'
      BY <1>1, <1>6, <1>7, <1>9, <2>1
    <2> QED
      BY <1>1, <1>4, <1>5, <1>6, <1>7, <1>9, <2>2 DEF Spawning
  <1>17. Starting' /\ Visiting' /\ Joining'
    BY <1>1, <1>3, <1>6, <1>7 DEF Starting, Visiting, Joining
  <1> QED
    BY <1>8, <1>11, <1>12, <1>14, <1>15, <1>16, <1>17 DEF NodeInv, Safe, Control

LEMMA StartUndoneKeeps == ASSUME NodeInv, StartUndone PROVE NodeInv'
  <1> DEFINE i == op.inst
             w == IF Alive(i) THEN Exit(worker[i], FALSE) ELSE worker[i]
  <1>1. /\ pc = "spawned" /\ pc' = "idle" /\ op' = Free /\ Free.kind = "none"
        /\ worker' = [worker EXCEPT ![i] = w]
        /\ UNCHANGED <<records, resources, node, todo, closed, monitor, owner>>
    BY DEF StartUndone, Unlock, Free
  <1>2. i \in Instances /\ worker[i] \in WorkerRecord /\ worker[i].phase # "none"
    BY <1>1 DEF NodeInv, TypeOK, Control, Spawning
  <1>3. w \in WorkerRecord /\ w.phase \notin {"none", "waiting", "loop", "busy"}
    BY <1>2, ExitTyped DEF Alive, WorkerRecord
  <1> HIDE DEF w
  <1>4. NoRevival /\ SameNodes /\ worker'[i].phase \notin {"waiting", "loop", "busy"}
    BY <1>1, <1>2, <1>3 DEF NoRevival, SameNodes, Alive, NodeInv, TypeOK
  <1>5. TypeOK'
    BY <1>1, <1>3, Blanks DEF NodeInv, TypeOK
  <1>6. Safe'
    BY <1>1, <1>4, Frame DEF NodeInv
  <1>7. Known'
    BY <1>1, <1>4 DEF NodeInv, Control, Known, NoRevival, Alive
  <1>8. Starting' /\ Spawning' /\ Visiting' /\ Joining'
    BY <1>1 DEF Starting, Spawning, Visiting, Joining
  <1> QED
    BY <1>5, <1>6, <1>7, <1>8 DEF NodeInv, Control

\* The process is entered under a name whose last process is dead, with a device
\* that no name holds: so no other node had either.
LEMMA RegisterKeeps == ASSUME NodeInv, Register PROVE NodeInv'
  <1> DEFINE i == op.inst
             w == [worker[i] EXCEPT !.admitted = Alive(i)]
  <1>1. /\ pc = "spawned" /\ owner /\ pc' = "idle" /\ op' = Free /\ Free.kind = "none"
        /\ records' = [records EXCEPT ![op.name] = i]
        /\ resources' = [resources EXCEPT ![op.device] = op.name]
        /\ worker' = [worker EXCEPT ![i] = w]
        /\ UNCHANGED <<node, todo, closed, monitor, owner>>
    BY DEF Register, Unlock, Free
  <1>2. /\ op.name \in Names /\ op.device \in Devices /\ i \in Instances
        /\ node[i].name = op.name /\ node[i].device = op.device
        /\ ~node[i].reaped /\ worker[i].phase # "none"
        /\ resources[op.device] = None
        /\ records[op.name] # None => ~Alive(records[op.name])
        /\ \A n \in Names : records[n] # i
    BY <1>1 DEF NodeInv, Control, Starting, Spawning
  <1>3. w \in WorkerRecord /\ w.phase = worker[i].phase
    <2>1. worker[i] \in WorkerRecord
      BY <1>2 DEF NodeInv, TypeOK
    <2>2. Alive(i) \in BOOLEAN
      BY DEF Alive
    <2> QED
      BY <2>1, <2>2 DEF WorkerRecord
  <1> HIDE DEF w
  <1>4. worker' \in [Instances -> WorkerRecord]
        /\ \A j \in Instances : worker'[j].phase = worker[j].phase
    BY <1>1, <1>2, <1>3 DEF NodeInv, TypeOK
  <1>5. \A j \in Instances : Alive(j)' <=> Alive(j)
    BY <1>4 DEF Alive
  <1>6. records' \in [Names -> Instances \cup {None}]
        /\ resources' \in [Devices -> Names \cup {None}]
    BY <1>1, <1>2 DEF NodeInv, TypeOK
  <1>7. TypeOK'
    BY <1>1, <1>4, <1>6, Blanks DEF NodeInv, TypeOK
  <1>8. \A n \in Names : records'[n] = IF n = op.name THEN i ELSE records[n]
    BY <1>1, <1>2 DEF NodeInv, TypeOK
  <1>9. \A d \in Devices : resources'[d] = IF d = op.device THEN op.name ELSE resources[d]
    BY <1>1, <1>2 DEF NodeInv, TypeOK
  <1>10. Named'
    <2> SUFFICES ASSUME NEW n \in Names, records'[n] # None
                 PROVE  node[records'[n]].name = n /\ worker'[records'[n]].phase # "none"
      BY <1>1 DEF Named
    <2>1. records'[n] \in Instances
      BY <1>6
    <2>2. worker'[records'[n]].phase = worker[records'[n]].phase
      BY <1>4, <2>1
    <2>3. CASE n = op.name
      BY <1>2, <1>8, <2>2, <2>3
    <2>4. CASE n # op.name
      BY <1>8, <2>2, <2>4 DEF NodeInv, Safe, Named
    <2> QED
      BY <2>3, <2>4
  <1>11. Held'
    <2> SUFFICES ASSUME NEW n \in Names, records'[n] # None, ~node[records'[n]].reaped
                 PROVE  /\ node[records'[n]].device \in Devices
                        /\ resources'[node[records'[n]].device] = n
      BY <1>1 DEF Held, Unreaped, Registered
    <2>1. CASE n = op.name
      BY <1>2, <1>8, <1>9, <2>1
    <2>2. CASE n # op.name
      <3>1. records'[n] = records[n] /\ n \in Unreaped
        BY <1>8, <2>2 DEF Unreaped, Registered
      <3>2. node[records[n]].device \in Devices /\ resources[node[records[n]].device] = n
        BY <3>1 DEF NodeInv, Safe, Held
      <3>3. node[records[n]].device # op.device
        BY <1>2, <3>2, NoneApart
      <3> QED
        BY <1>9, <3>1, <3>2, <3>3
    <2> QED
      BY <2>1, <2>2
  <1>12. ReapedDead' /\ DeviceIsExclusive'
    <2>1. ReapedDead'
      BY <1>1, <1>5 DEF NodeInv, Safe, ReapedDead
    <2>2. DeviceIsExclusive'
      BY <1>1, <1>5 DEF NodeInv, Safe, DeviceIsExclusive
    <2> QED
      BY <2>1, <2>2
  <1>13. Known'
    <2> SUFFICES ASSUME NEW j \in Instances, Alive(j)
                 PROVE  \E n \in Names : records'[n] = j
      BY <1>5 DEF Known
    <2>1. CASE j = i
      BY <1>2, <1>8, <2>1
    <2>2. CASE j # i
      <3>1. PICK n \in Names : records[n] = j
        BY <1>1, <2>2 DEF NodeInv, Control, Known
      <3>2. n # op.name
        BY <1>2, <3>1, NoneApart
      <3> QED
        BY <1>8, <3>1, <3>2
    <2> QED
      BY <2>1, <2>2
  <1>14. Starting' /\ Spawning' /\ Visiting' /\ Joining'
    BY <1>1 DEF Starting, Spawning, Visiting, Joining
  <1> QED
    BY <1>7, <1>10, <1>11, <1>12, <1>13, <1>14 DEF NodeInv, Safe, Control

LEMMA OwnerDiesKeeps == ASSUME NodeInv, OwnerDies PROVE NodeInv'
  <1>1. /\ owner' = FALSE /\ pc' = "idle" /\ op' = Free /\ todo' = {} /\ monitor' = FALSE
        /\ Free.kind = "none"
        /\ UNCHANGED <<records, resources, node, worker, closed>>
    BY DEF OwnerDies, Free
  <1>2. TypeOK'
    BY <1>1, Blanks DEF NodeInv, TypeOK
  <1>3. Safe'
    BY <1>1, Still, Frame DEF NodeInv
  <1>4. Control'
    BY <1>1 DEF Control, Known, Starting, Spawning, Visiting, Joining
  <1> QED
    BY <1>2, <1>3, <1>4 DEF NodeInv

-----------------------------------------------------------------------------
(* The theorems.                                                            *)

LEMMA OperationKeeps == ASSUME NodeInv, Operation PROVE NodeInv'
  BY ReadMessageKeeps, PipeEmptyKeeps, StillAliveKeeps, ReapKeeps, ReturnsKeep,
     StartProcessKeeps, StartUndoneKeeps, RegisterKeeps, SendCommandKeeps,
     StopPendingKeeps, StopForcedKeeps, StopJoinedKeeps, StopReturnsKeeps
  DEF Operation

LEMMA CallKeeps == ASSUME NodeInv, Call PROVE NodeInv'
  <1>1. CASE Look \/ Monitor
    <2> DEFINE o == [Free EXCEPT !.kind = "look"]
    <2>1. o \in OpRecord /\ o.kind = "look"
      BY Blanks DEF OpRecord
    <2>2. Calls(o)
      BY <1>1 DEF Look, Monitor
    <2> HIDE DEF o
    <2> QED
      BY <2>1, <2>2, CallsKeep
  <1>2. ASSUME NEW n \in Names, NEW d \in Devices, Start(n, d) PROVE NodeInv'
    <2> DEFINE o == [Free EXCEPT !.kind = "start", !.name = n, !.device = d]
    <2>1. o \in OpRecord /\ o.name = n /\ o.device = d
      BY Blanks DEF OpRecord
    <2>2. Calls(o)
      BY <1>2 DEF Start
    <2> HIDE DEF o
    <2> QED
      BY <2>1, <2>2, CallsKeep
  <1>3. ASSUME NEW n \in Names, Command(n) PROVE NodeInv'
    <2> DEFINE o == [Free EXCEPT !.kind = "command", !.name = n]
    <2>1. o \in OpRecord /\ o.kind = "command"
      BY Blanks DEF OpRecord
    <2>2. Calls(o)
      BY <1>3 DEF Command
    <2> HIDE DEF o
    <2> QED
      BY <2>1, <2>2, CallsKeep
  <1> QED
    BY <1>1, <1>2, <1>3, StopKeeps, CloseKeeps DEF Call

LEMMA StutterKeeps == ASSUME NodeInv, UNCHANGED vars PROVE NodeInv'
  <1>1. UNCHANGED <<records, resources, node, worker, pc, op, todo, closed, monitor, owner>>
    BY DEF vars
  <1>2. TypeOK'
    BY <1>1 DEF NodeInv, TypeOK
  <1>3. Safe' /\ Unreaped' = Unreaped
    BY <1>1, Still, Frame DEF NodeInv
  <1>4. Known' /\ Starting' /\ Joining'
    BY <1>1 DEF NodeInv, Control, Known, Starting, Joining, Alive
  <1>5. Spawning' /\ Visiting'
    BY <1>1, <1>3 DEF NodeInv, Control, Spawning, Visiting, Alive
  <1> QED
    BY <1>2, <1>3, <1>4, <1>5 DEF NodeInv, Control

\* The inductive invariant: the table of devices agrees with the unreaped records.
THEOREM NodeInvariant == Spec => []NodeInv
  <1>1. NodeInv /\ [Next]_vars => NodeInv'
    BY WorkerKeeps, OperationKeeps, CallKeeps, OwnerDiesKeeps, StutterKeeps DEF Next
  <1> QED
    BY InitEstablishes, <1>1, PTL DEF Spec

\* Every record of the supervisor and every process keeps its type, whatever
\* arrives over the pipes of NodeRuntime and however its operations end.
THEOREM NodesTyped == Spec => []TypeOK
  <1>1. NodeInv => TypeOK
    BY DEF NodeInv
  <1> QED
    BY <1>1, NodeInvariant, PTL

\* No two live processes work on one device, for any number of names, devices
\* and restarts: what NodeRuntime.start checks before it starts a process is enough.
THEOREM DeviceExclusive == Spec => []DeviceIsExclusive
  <1>1. NodeInv => DeviceIsExclusive
    BY DEF NodeInv, Safe
  <1> QED
    BY <1>1, NodeInvariant, PTL
-----------------------------------------------------------------------------
(* A command is in one place at a time.  It is pending from the moment it is *)
(* sent until its result is read, and in between it is either in the pipe to *)
(* the worker, being run, or answered in the pipe back: what the supervisor  *)
(* calls pending and what the worker holds agree until the node is reaped.   *)

Told(r, c) == \E k \in DOMAIN r.results : r.results[k].cmd = c

\* What was sent is told or pending, told once, and both only after ReapRaises.
Books(r) ==
  /\ \A c \in Commands : c \in r.sent <=> (Told(r, c) \/ r.pending = c)
  /\ \A k, l \in DOMAIN r.results : r.results[k].cmd = r.results[l].cmd => k = l
  /\ r.pending # None => (r.reaped <=> Told(r, r.pending))

Replies(w) == {k \in DOMAIN w.up : w.up[k].type = "result"}

Running(r, w) == w.cmd # None => w.cmd = r.pending /\ w.down = <<>> /\ Replies(w) = {}
Waiting(r, w) == w.down # <<>> =>
  /\ r.pending # None /\ Len(w.down) = 1 /\ w.down[1] = r.pending
  /\ Replies(w) = {}
Answered(r, w) ==
  /\ \A k \in DOMAIN w.up : \/ w.up[k] \in {Heartbeat, Failed}
                            \/ r.pending # None /\ w.up[k] = Result(r.pending)
  /\ \A k, l \in Replies(w) : k = l

Tokens(r, w) == /\ w.phase = "busy" <=> w.cmd # None
                /\ Running(r, w) /\ Waiting(r, w) /\ Answered(r, w)

Standing(r, w) ==
  /\ w.phase = "none" => w = NoWorker
  /\ r.st = "stopped" => w.phase \notin {"waiting", "loop", "busy"}

Kept(r, w) == Books(r) /\ Standing(r, w) /\ (r.reaped \/ Tokens(r, w))
CommandInv == \A i \in Instances : Kept(node[i], worker[i])

LEMMA Appended ==
  ASSUME NEW S, NEW s \in Seq(S), NEW e \in S
  PROVE  /\ DOMAIN Append(s, e) = DOMAIN s \cup {Len(s) + 1} /\ Len(s) + 1 \notin DOMAIN s
         /\ \A k \in DOMAIN s : Append(s, e)[k] = s[k]
         /\ Append(s, e)[Len(s) + 1] = e
  <1>1. DOMAIN s = 1..Len(s) /\ DOMAIN Append(s, e) = 1..(Len(s) + 1) /\ Len(s) \in Nat
    BY AppendProperties
  <1> QED
    BY <1>1, AppendProperties

LEMMA Shortened ==
  ASSUME NEW S, NEW s \in Seq(S), s # <<>>
  PROVE  /\ 1 \in DOMAIN s /\ Head(s) = s[1]
         /\ \A k \in DOMAIN Tail(s) : k + 1 \in DOMAIN s /\ k + 1 # 1 /\ Tail(s)[k] = s[k + 1]
         /\ DOMAIN Tail(s) \subseteq Nat
         /\ Len(s) = 1 => Tail(s) = <<>>
  <1>1. Len(s) \in Nat \ {0} /\ DOMAIN s = 1..Len(s)
    OBVIOUS
  <1>2. Tail(s) \in Seq(S) /\ Len(Tail(s)) = Len(s) - 1 /\ DOMAIN Tail(s) = 1..(Len(s) - 1)
    BY <1>1, HeadTailProperties
  <1>3. Len(s) = 1 => Tail(s) = <<>>
    BY <1>2, EmptySeq
  <1> QED
    BY <1>1, <1>2, <1>3, HeadTailProperties

\* Only the commands, the pipe and the phase of a process are spoken of.
LEMMA SameKept ==
  ASSUME NEW r \in NodeRecord, NEW q \in NodeRecord, NEW w \in WorkerRecord, NEW v \in WorkerRecord,
         Kept(r, w),
         q.sent = r.sent, q.pending = r.pending, q.results = r.results, q.reaped = r.reaped,
         v.phase = w.phase, v.cmd = w.cmd, v.down = w.down, v.up = w.up,
         v.phase # "none" \/ v = w,
         q.st = "stopped" => v.phase \notin {"waiting", "loop", "busy"}
  PROVE  Kept(q, v)
  <1>1. Books(q)
    BY DEF Kept, Books, Told
  <1>2. Standing(q, v)
    BY DEF Kept, Standing
  <1>3. Tokens(r, w) => Tokens(q, v)
    <2>1. Replies(v) = Replies(w)
      BY DEF Replies
    <2> QED
      BY <2>1 DEF Tokens, Running, Waiting, Answered
  <1> QED
    BY <1>1, <1>2, <1>3 DEF Kept

-----------------------------------------------------------------------------
(* The steps of a worker.                                                    *)

LEMMA ExitKept ==
  ASSUME NEW r \in NodeRecord, NEW w \in WorkerRecord, NEW clean \in BOOLEAN, Kept(r, w)
  PROVE  Kept(r, Exit(w, clean))
  <1> DEFINE v == Exit(w, clean)
  <1>1. v.phase = "dead" /\ v.cmd = None /\ v.down = <<>> /\ v.up = w.up
    BY DEF Exit, NoWorker
  <1> HIDE DEF v
  <1>2. Standing(r, v)
    BY <1>1 DEF Standing
  <1>3. Tokens(r, w) => Tokens(r, v)
    BY <1>1 DEF Tokens, Running, Waiting, Answered, Replies
  <1> QED
    BY <1>2, <1>3 DEF Kept, v

\* A heartbeat or the news that the worker failed is no result.
LEMMA NoteKept ==
  ASSUME NEW r \in NodeRecord, NEW w \in WorkerRecord, NEW m \in {Heartbeat, Failed},
         Kept(r, w), w.phase # "none"
  PROVE  Kept(r, Send(w, m))
  <1> DEFINE v == [w EXCEPT !.up = Append(w.up, m)]
  <1>1. m \in Message /\ m.type # "result" /\ w.up \in Seq(Message)
    BY MessagesTyped DEF Heartbeat, Failed, WorkerRecord
  <1>2. /\ v.phase = w.phase /\ v.cmd = w.cmd /\ v.down = w.down
        /\ v.up = Append(w.up, m)
    BY DEF WorkerRecord
  <1> HIDE DEF v
  <1>3. /\ DOMAIN v.up = DOMAIN w.up \cup {Len(w.up) + 1} /\ Len(w.up) + 1 \notin DOMAIN w.up
        /\ \A k \in DOMAIN w.up : v.up[k] = w.up[k]
        /\ v.up[Len(w.up) + 1] = m
    BY <1>1, <1>2, Appended
  <1>4. Replies(v) = Replies(w)
    BY <1>1, <1>3 DEF Replies
  <1>5. Tokens(r, w) => Tokens(r, v)
    BY <1>2, <1>3, <1>4 DEF Tokens, Running, Waiting, Answered
  <1>6. Standing(r, v)
    BY <1>2 DEF Standing, Kept
  <1>7. Send(w, m) = IF owner THEN v ELSE w
    BY DEF Send, v
  <1> QED
    BY <1>5, <1>6, <1>7 DEF Kept

LEMMA EnterKept ==
  ASSUME NEW r \in NodeRecord, NEW w \in WorkerRecord, Kept(r, w), w.phase = "waiting"
  PROVE  Kept(r, [w EXCEPT !.phase = "loop"])
  <1> DEFINE v == [w EXCEPT !.phase = "loop"]
  <1>1. v.phase = "loop" /\ v.cmd = w.cmd /\ v.down = w.down /\ v.up = w.up
    BY DEF WorkerRecord
  <1> HIDE DEF v
  <1>2. Standing(r, v)
    BY <1>1 DEF Standing, Kept
  <1>3. Tokens(r, w) => Tokens(r, v)
    BY <1>1 DEF Tokens, Running, Waiting, Answered, Replies
  <1> QED
    BY <1>2, <1>3 DEF Kept, v

LEMMA ServeKept ==
  ASSUME NEW r \in NodeRecord, NEW w \in WorkerRecord, Kept(r, w),
         w.phase = "loop", w.down # <<>>
  PROVE  Kept(r, [w EXCEPT !.phase = "busy", !.cmd = Head(w.down), !.down = Tail(w.down)])
  <1> DEFINE v == [w EXCEPT !.phase = "busy", !.cmd = Head(w.down), !.down = Tail(w.down)]
  <1>1. v.phase = "busy" /\ v.cmd = Head(w.down) /\ v.down = Tail(w.down) /\ v.up = w.up
    BY DEF WorkerRecord
  <1> HIDE DEF v
  <1>2. w.down \in Seq(Commands)
    BY DEF WorkerRecord
  <1>3. Standing(r, v)
    BY <1>1 DEF Standing, Kept
  <1>4. ASSUME Tokens(r, w) PROVE Tokens(r, v)
    <2>1. r.pending # None /\ Len(w.down) = 1 /\ w.down[1] = r.pending /\ Replies(w) = {}
      BY <1>4 DEF Tokens, Waiting
    <2>2. v.cmd = r.pending /\ v.down = <<>>
      BY <1>1, <1>2, <2>1, Shortened
    <2> QED
      BY <1>1, <1>4, <2>1, <2>2 DEF Tokens, Running, Waiting, Answered, Replies
  <1> QED
    BY <1>3, <1>4 DEF Kept, v

LEMMA AnswerKept ==
  ASSUME NEW r \in NodeRecord, NEW w \in WorkerRecord, Kept(r, w), w.phase = "busy"
  PROVE  LET u == [w EXCEPT !.phase = "loop", !.cmd = None]
         IN  Kept(r, IF owner THEN Send(u, Result(w.cmd)) ELSE Exit(u, TRUE))
  <1> DEFINE u == [w EXCEPT !.phase = "loop", !.cmd = None]
             v == [u EXCEPT !.up = Append(u.up, Result(w.cmd))]
  <1>1. /\ u \in WorkerRecord /\ u.phase = "loop" /\ u.cmd = None /\ u.down = w.down
        /\ u.up = w.up
    BY DEF WorkerRecord
  <1> HIDE DEF u
  <1>2. /\ v.phase = "loop" /\ v.cmd = None /\ v.down = w.down
        /\ v.up = Append(w.up, Result(w.cmd))
    BY <1>1 DEF WorkerRecord
  <1> HIDE DEF v
  <1>3. w.up \in Seq(Message) /\ Result(w.cmd) \in Message /\ Result(w.cmd).type = "result"
    BY MessagesTyped DEF WorkerRecord, Result
  <1>4. /\ DOMAIN v.up = DOMAIN w.up \cup {Len(w.up) + 1}
        /\ \A k \in DOMAIN w.up : v.up[k] = w.up[k]
        /\ v.up[Len(w.up) + 1] = Result(w.cmd)
    BY <1>2, <1>3, Appended
  <1>5. ASSUME Tokens(r, w) PROVE Tokens(r, u) /\ Tokens(r, v)
    <2>1. w.cmd # None /\ w.cmd = r.pending /\ w.down = <<>> /\ Replies(w) = {}
      BY <1>5 DEF Tokens, Running
    <2>2. Replies(v) \subseteq {Len(w.up) + 1}
      BY <1>4, <2>1 DEF Replies
    <2>3. Tokens(r, u)
      BY <1>1, <1>5, <2>1 DEF Tokens, Running, Waiting, Answered, Replies
    <2>4. Answered(r, v)
      BY <1>4, <1>5, <2>1, <2>2 DEF Answered, Tokens
    <2>5. Running(r, v) /\ Waiting(r, v)
      BY <1>2, <2>1 DEF Running, Waiting
    <2> QED
      BY <1>2, <2>3, <2>4, <2>5 DEF Tokens
  <1>6. Standing(r, u) /\ Standing(r, v)
    BY <1>1, <1>2 DEF Standing, Kept
  <1>7. Kept(r, u) /\ Kept(r, v)
    BY <1>5, <1>6 DEF Kept
  <1>8. owner => Send(u, Result(w.cmd)) = v
    BY DEF Send, v
  <1>9. Kept(r, Exit(u, TRUE))
    BY <1>1, <1>7, ExitKept
  <1> QED
    BY <1>7, <1>8, <1>9 DEF u

\* One process moves, and moves within what is kept.
LEMMA OneMoves ==
  ASSUME CommandInv, TypeOK, NEW i \in Instances, NEW v, UNCHANGED node,
         worker' = [worker EXCEPT ![i] = v], Kept(node[i], v)
  PROVE  CommandInv'
  BY DEF CommandInv, TypeOK

LEMMA WorkerCommands ==
  ASSUME CommandInv, TypeOK, NEW i \in Instances, WorkerStep(i)
  PROVE  CommandInv'
  <1> DEFINE w == worker[i]
  <1>1. w \in WorkerRecord /\ node[i] \in NodeRecord /\ Kept(node[i], w) /\ UNCHANGED node
    <2>1. UNCHANGED node
      BY DEF WorkerStep, Enter, Serve, Answer, Beat, Fail, Leave, Die, WorkerVars
    <2> QED
      BY <2>1 DEF TypeOK, CommandInv
  <1>2. CASE Enter(i)
    <2>1. worker' = [worker EXCEPT ![i] = [w EXCEPT !.phase = "loop"]] /\ w.phase = "waiting"
      BY <1>2 DEF Enter
    <2> QED
      BY <1>1, <2>1, EnterKept, OneMoves
  <1>3. CASE Serve(i)
    <2> DEFINE v == [w EXCEPT !.phase = "busy", !.cmd = Head(w.down), !.down = Tail(w.down)]
    <2>1. worker' = [worker EXCEPT ![i] = v] /\ w.phase = "loop" /\ w.down # <<>>
      BY <1>3 DEF Serve
    <2>2. Kept(node[i], v)
      BY <1>1, <2>1, ServeKept
    <2> QED
      BY <1>1, <2>1, <2>2, OneMoves
  <1>4. CASE Answer(i)
    <2> DEFINE u == [w EXCEPT !.phase = "loop", !.cmd = None]
               v == IF owner THEN Send(u, Result(w.cmd)) ELSE Exit(u, TRUE)
    <2>1. worker' = [worker EXCEPT ![i] = v] /\ w.phase = "busy"
      BY <1>4 DEF Answer
    <2>2. Kept(node[i], v)
      BY <1>1, <2>1, AnswerKept
    <2> HIDE DEF v
    <2> QED
      BY <1>1, <2>1, <2>2, OneMoves
  <1>5. CASE Beat(i)
    <2> DEFINE u == [w EXCEPT !.beaten = TRUE]
    <2>1. worker' = [worker EXCEPT ![i] = Send(u, Heartbeat)] /\ w.phase = "loop"
      BY <1>5 DEF Beat
    <2>2. u \in WorkerRecord /\ u.phase = "loop" /\ u.cmd = w.cmd /\ u.down = w.down /\ u.up = w.up
      BY <1>1, <2>1 DEF WorkerRecord
    <2> HIDE DEF u
    <2>3. Kept(node[i], u)
      BY <1>1, <2>1, <2>2, SameKept DEF Kept, Standing
    <2>4. Kept(node[i], Send(u, Heartbeat))
      BY <1>1, <2>2, <2>3, NoteKept
    <2> QED
      BY <1>1, <2>1, <2>4, OneMoves
  <1>6. CASE Fail(i)
    <2>1. worker' = [worker EXCEPT ![i] = Exit(Send(w, Failed), TRUE)] /\ w.phase # "none"
      BY <1>6 DEF Fail
    <2>2. Send(w, Failed) \in WorkerRecord
      BY <1>1, SendTyped, MessagesTyped
    <2>3. Kept(node[i], Send(w, Failed))
      BY <1>1, <2>1, NoteKept
    <2>4. Kept(node[i], Exit(Send(w, Failed), TRUE))
      BY <1>1, <2>2, <2>3, ExitKept
    <2> QED
      BY <1>1, <2>1, <2>4, OneMoves
  <1>7. CASE Leave(i) \/ Die(i)
    <2>1. PICK clean \in BOOLEAN : worker' = [worker EXCEPT ![i] = Exit(w, clean)]
      BY <1>7 DEF Leave, Die
    <2>2. Kept(node[i], Exit(w, clean))
      BY <1>1, ExitKept
    <2> QED
      BY <1>1, <2>1, <2>2, OneMoves
  <1> QED
    BY <1>2, <1>3, <1>4, <1>5, <1>6, <1>7 DEF WorkerStep

-----------------------------------------------------------------------------
(* The steps of the runtime that touch no command.                           *)

\* The state of one node, or a flag of one process, says nothing of a command.
LEMMA MarksKeep ==
  ASSUME CommandInv, TypeOK, TypeOK', NEW i \in Instances, worker[i].phase # "none",
         \/ UNCHANGED node
         \/ \E st \in {"stopping", "stopped", "failed"} :
              /\ node' = [node EXCEPT ![i].st = st]
              /\ st = "stopped" => ~Alive(i),
         \/ UNCHANGED worker
         \/ \E b \in BOOLEAN : \/ worker' = [worker EXCEPT ![i].stopping = b]
                               \/ worker' = [worker EXCEPT ![i].doomed = b]
                               \/ worker' = [worker EXCEPT ![i].admitted = b]
  PROVE  CommandInv'
  <1> DEFINE r == node[i]
             q == node'[i]
             w == worker[i]
             v == worker'[i]
  <1>1. r \in NodeRecord /\ q \in NodeRecord /\ w \in WorkerRecord /\ v \in WorkerRecord
    BY DEF TypeOK
  <1>2. /\ q.sent = r.sent /\ q.pending = r.pending /\ q.results = r.results
        /\ q.reaped = r.reaped
        /\ q.st = "stopped" => r.st = "stopped" \/ ~Alive(i)
    BY <1>1 DEF TypeOK, NodeRecord
  <1>3. v.phase = w.phase /\ v.cmd = w.cmd /\ v.down = w.down /\ v.up = w.up
    BY <1>1 DEF TypeOK, WorkerRecord
  <1>4. \A j \in Instances : j # i => node'[j] = node[j] /\ worker'[j] = worker[j]
    BY DEF TypeOK
  <1>5. Kept(r, w)
    BY DEF CommandInv
  <1>6. q.st = "stopped" => v.phase \notin {"waiting", "loop", "busy"}
    BY <1>2, <1>3, <1>5 DEF Kept, Standing, Alive
  <1>7. v.phase # "none"
    BY <1>3
  <1> HIDE DEF q, v, r, w
  <1>8. Kept(q, v)
    BY <1>1, <1>2, <1>3, <1>5, <1>6, <1>7, SameKept
  <1> QED
    BY <1>4, <1>8 DEF CommandInv, q, v

LEMMA StopNodeCommands ==
  ASSUME CommandInv, NodeInv, TypeOK', NEW n \in Unreaped, NEW rest, StopNode(n, rest)
  PROVE  CommandInv'
  <1>1. records[n] \in Instances /\ worker[records[n]].phase # "none"
    BY DEF NodeInv, TypeOK, Safe, Named, Unreaped, Registered
  <1>2. Alive(records[n]) \in BOOLEAN
    BY DEF Alive
  <1>3. /\ node' = [node EXCEPT ![records[n]].st = "stopping"]
        /\ worker' = [worker EXCEPT ![records[n]].stopping = Alive(records[n])]
    BY DEF StopNode
  <1> QED
    BY <1>1, <1>2, <1>3, MarksKeep DEF NodeInv

LEMMA QuietCommands ==
  ASSUME CommandInv, UNCHANGED <<node, worker>>
  PROVE  CommandInv'
  BY DEF CommandInv

LEMMA CallCommands ==
  ASSUME CommandInv, NodeInv, TypeOK', Call
  PROVE  CommandInv'
  <1>1. CASE UNCHANGED <<node, worker>>
    BY <1>1, QuietCommands
  <1>2. ASSUME NEW n \in Names, Stop(n) PROVE CommandInv'
    <2>1. n \in Unreaped /\ StopNode(n, {})
      BY <1>2 DEF Stop
    <2> QED
      BY <2>1, StopNodeCommands
  <1>3. CASE Close
    <2>1. UNCHANGED <<node, worker>> \/ \E n \in Unreaped : StopNode(n, Unreaped \ {n})
      BY <1>3 DEF Close
    <2> QED
      BY <1>1, <2>1, StopNodeCommands
  <1>4. CASE Look \/ Monitor
    BY <1>1, <1>4 DEF Look, Monitor, Calls
  <1>5. ASSUME NEW n \in Names, NEW d \in Devices, Start(n, d) PROVE CommandInv'
    BY <1>1, <1>5 DEF Start, Calls
  <1>6. ASSUME NEW n \in Names, Command(n) PROVE CommandInv'
    BY <1>1, <1>6 DEF Command, Calls
  <1> QED
    BY <1>2, <1>3, <1>4, <1>5, <1>6 DEF Call

LEMMA StopForcedCommands ==
  ASSUME CommandInv, NodeInv, TypeOK', StopForced
  PROVE  CommandInv'
  <1>1. op.inst \in Instances /\ Alive(op.inst)
    BY DEF NodeInv, Control, Joining, StopForced
  <1>2. worker[op.inst].phase # "none"
    BY <1>1 DEF Alive
  <1>3. UNCHANGED node /\ worker' = [worker EXCEPT ![op.inst].doomed = TRUE]
    BY DEF StopForced
  <1> QED
    BY <1>1, <1>2, <1>3, MarksKeep DEF NodeInv

LEMMA RegisterCommands ==
  ASSUME CommandInv, NodeInv, TypeOK', Register
  PROVE  CommandInv'
  <1>1. op.inst \in Instances /\ worker[op.inst].phase # "none"
    BY DEF NodeInv, Control, Spawning, Register
  <1>2. Alive(op.inst) \in BOOLEAN
    BY DEF Alive
  <1>3. UNCHANGED node /\ worker' = [worker EXCEPT ![op.inst].admitted = Alive(op.inst)]
    BY DEF Register
  <1> QED
    BY <1>1, <1>2, <1>3, MarksKeep DEF NodeInv

\* stopped is said of a process that is asked first whether it is alive.
LEMMA StopJoinedCommands ==
  ASSUME CommandInv, NodeInv, TypeOK', StopJoined
  PROVE  CommandInv'
  <1> DEFINE i == op.inst
             st == IF Alive(i) THEN "failed" ELSE "stopped"
             q == [node[i] EXCEPT !.st = st]
  <1>1. i \in Instances /\ node' = [node EXCEPT ![i] = q] /\ UNCHANGED worker
    BY DEF NodeInv, Control, Joining, StopJoined
  <1>2. node[i] \in NodeRecord /\ worker[i] \in WorkerRecord /\ Kept(node[i], worker[i])
    BY <1>1 DEF NodeInv, TypeOK, CommandInv
  <1>3. st \in {"stopped", "failed"} /\ (st = "stopped" => ~Alive(i))
    OBVIOUS
  <1> HIDE DEF st
  <1>4. /\ q \in NodeRecord /\ q.st = st /\ q.sent = node[i].sent /\ q.pending = node[i].pending
        /\ q.results = node[i].results /\ q.reaped = node[i].reaped
    BY <1>2, <1>3 DEF NodeRecord
  <1> HIDE DEF q
  <1>5. q.st = "stopped" => worker[i].phase \notin {"waiting", "loop", "busy"}
    BY <1>3, <1>4 DEF Alive
  <1>6. Kept(q, worker[i])
    BY <1>2, <1>4, <1>5, SameKept
  <1> QED
    BY <1>1, <1>6 DEF CommandInv, NodeInv, TypeOK

-----------------------------------------------------------------------------
(* The steps that move a command.                                            *)

\* A process that was not started has nothing in its pipes.
LEMMA StartProcessCommands ==
  ASSUME CommandInv, NodeInv, StartProcess
  PROVE  CommandInv'
  <1>1. PICK i \in Instances :
          /\ worker[i].phase = "none"
          /\ worker' = [worker EXCEPT ![i].phase = "waiting"]
          /\ node' = [node EXCEPT ![i] = [NoNode EXCEPT !.name = op.name, !.device = op.device]]
    BY DEF StartProcess, Fresh
  <1> DEFINE r == [NoNode EXCEPT !.name = op.name, !.device = op.device]
             w == [NoWorker EXCEPT !.phase = "waiting"]
  <1>2. worker' = [worker EXCEPT ![i] = w] /\ node' = [node EXCEPT ![i] = r]
    <2>1. worker[i] = NoWorker
      BY <1>1 DEF CommandInv, Kept, Standing
    <2> QED
      BY <1>1, <2>1
  <1>3. r.sent = {} /\ r.pending = None /\ r.results = <<>> /\ r.st = "starting"
    BY DEF NoNode
  <1>4. w.phase = "waiting" /\ w.cmd = None /\ w.down = <<>> /\ w.up = <<>>
    BY DEF NoWorker
  <1> HIDE DEF r, w
  <1>5. Books(r)
    BY <1>3, NodesAssumption DEF Books, Told, NodesAssumption
  <1>6. Standing(r, w) /\ Tokens(r, w)
    BY <1>3, <1>4 DEF Standing, Tokens, Running, Waiting, Answered, Replies
  <1> QED
    BY <1>2, <1>5, <1>6 DEF CommandInv, Kept, NodeInv, TypeOK

LEMMA StartUndoneCommands ==
  ASSUME CommandInv, NodeInv, StartUndone
  PROVE  CommandInv'
  <1> DEFINE i == op.inst
             v == IF Alive(i) THEN Exit(worker[i], FALSE) ELSE worker[i]
  <1>1. i \in Instances /\ UNCHANGED node /\ worker' = [worker EXCEPT ![i] = v]
    BY DEF NodeInv, Control, Spawning, StartUndone
  <1>2. Kept(node[i], v)
    BY <1>1, ExitKept DEF NodeInv, TypeOK, CommandInv
  <1> HIDE DEF v
  <1> QED
    BY <1>1, <1>2, OneMoves DEF NodeInv

\* Nothing is pending, so the pipe is empty both ways and the worker is at rest.
LEMMA SendCommandCommands ==
  ASSUME CommandInv, NodeInv, SendCommand
  PROVE  CommandInv'
  <1> DEFINE i == records[op.name]
             r == node[i]
             w == worker[i]
  <1>1. Alive(i) /\ r.st = "starting" /\ r.pending = None
    BY DEF SendCommand
  <1>2. PICK c \in Commands :
          /\ \A j \in Instances : c \notin node[j].sent
          /\ worker' = [worker EXCEPT ![i].down = Append(@, c)]
          /\ node' = [node EXCEPT ![i].pending = c, ![i].sent = @ \cup {c}]
    BY DEF SendCommand
  <1>3. CASE i \notin Instances
    BY <1>2, <1>3, QuietCommands DEF NodeInv, TypeOK
  <1>4. CASE i \in Instances
    <2> DEFINE q == [r EXCEPT !.pending = c, !.sent = r.sent \cup {c}]
               v == [w EXCEPT !.down = Append(w.down, c)]
    <2>1. r \in NodeRecord /\ w \in WorkerRecord /\ ~r.reaped /\ Kept(r, w)
      BY <1>1, <1>4 DEF NodeInv, TypeOK, Safe, ReapedDead, CommandInv
    <2>2. w.cmd = None /\ w.down = <<>> /\ Replies(w) = {} /\ w.phase \in {"waiting", "loop"}
      <3>1. Tokens(r, w) /\ w.phase \in {"waiting", "loop", "busy"}
        BY <1>1, <2>1 DEF Kept, Alive
      <3>2. w.cmd = None /\ w.phase # "busy"
        <4>1. w.cmd # None => w.cmd = r.pending
          BY <3>1 DEF Tokens, Running
        <4> QED
          BY <1>1, <3>1, <4>1 DEF Tokens
      <3>3. w.down = <<>>
        BY <1>1, <3>1 DEF Tokens, Waiting
      <3>4. \A k \in DOMAIN w.up : w.up[k] \in {Heartbeat, Failed}
        BY <1>1, <3>1 DEF Tokens, Answered
      <3>5. Replies(w) = {}
        BY <3>4 DEF Replies, Heartbeat, Failed
      <3> QED
        BY <3>1, <3>2, <3>3, <3>5
    <2>3. /\ q.pending = c /\ q.sent = r.sent \cup {c} /\ q.results = r.results
          /\ q.reaped = r.reaped /\ q.st = r.st
      BY <2>1 DEF NodeRecord
    <2>4. v.phase = w.phase /\ v.cmd = None /\ v.down = <<c>> /\ v.up = w.up
      BY <2>1, <2>2 DEF WorkerRecord
    <2>5. worker' = [worker EXCEPT ![i] = v] /\ node' = [node EXCEPT ![i] = q]
      BY <1>2
    <2> HIDE DEF q, v
    <2>6. c # None /\ c \notin r.sent
      BY <1>2, <1>4, NodesAssumption DEF NodesAssumption
    <2>7. Books(q)
      <3>1. \A x \in Commands : x \in r.sent <=> Told(r, x)
        BY <1>1, <2>1, NodesAssumption DEF Kept, Books, NodesAssumption
      <3>2. \A x : Told(q, x) <=> Told(r, x)
        BY <2>3 DEF Told
      <3>3. ~Told(q, c)
        BY <2>6, <3>1, <3>2
      <3> QED
        BY <2>1, <2>3, <3>1, <3>2, <3>3 DEF Kept, Books
    <2>8. Standing(q, v)
      BY <1>1, <2>2, <2>3, <2>4 DEF Standing
    <2>9. Tokens(q, v)
      <3>1. Replies(v) = {}
        BY <2>2, <2>4 DEF Replies
      <3>2. Waiting(q, v)
        BY <2>3, <2>4, <2>6, <3>1 DEF Waiting
      <3>3. Answered(q, v)
        BY <1>1, <2>1, <2>4, <3>1 DEF Answered, Tokens, Kept
      <3> QED
        BY <2>2, <2>4, <3>2, <3>3 DEF Tokens, Running
    <2> QED
      BY <2>5, <2>7, <2>8, <2>9 DEF CommandInv, Kept, NodeInv, TypeOK
  <1> QED
    BY <1>3, <1>4

\* The result read is that of the pending command, which it settles.
LEMMA ReadMessageCommands ==
  ASSUME CommandInv, NodeInv, ReadMessage
  PROVE  CommandInv'
  <1> DEFINE i == op.inst
             r == node[i]
             w == worker[i]
             m == Head(w.up)
             q == Received(r, m)
             v == [w EXCEPT !.up = Tail(w.up)]
  <1>1. /\ i \in Instances /\ r \in NodeRecord /\ w \in WorkerRecord /\ ~r.reaped
        /\ Kept(r, w) /\ w.up # <<>> /\ w.up \in Seq(Message)
    BY Visited DEF ReadMessage, NodeInv, TypeOK, WorkerRecord, CommandInv
  <1>2. node' = [node EXCEPT ![i] = q] /\ worker' = [worker EXCEPT ![i] = v]
    BY DEF ReadMessage
  <1>3. v.phase = w.phase /\ v.cmd = w.cmd /\ v.down = w.down /\ v.up = Tail(w.up)
    BY <1>1 DEF WorkerRecord
  <1> HIDE DEF v
  <1>4. /\ 1 \in DOMAIN w.up /\ m = w.up[1]
        /\ \A k \in DOMAIN v.up : k + 1 \in DOMAIN w.up /\ k + 1 # 1 /\ v.up[k] = w.up[k + 1]
        /\ DOMAIN v.up \subseteq Nat
    BY <1>1, <1>3, Shortened
  <1>5. Tokens(r, w) /\ Books(r)
    BY <1>1 DEF Kept
  <1>6. \A k \in Replies(v) : k \in Nat /\ k + 1 \in Replies(w)
    BY <1>4 DEF Replies
  <1>7. Standing(r, v)
    <2>1. w.phase # "none"
      BY <1>1, Visited DEF ReadMessage, NodeInv, Safe, Named, Unreaped, Registered
    <2> QED
      BY <1>1, <1>3, <2>1 DEF Kept, Standing
  <1>8. Tokens(r, v)
    <2>1. Answered(r, v)
      <3>1. \A k, l \in Replies(v) : k = l
        BY <1>5, <1>6 DEF Tokens, Answered
      <3> QED
        BY <1>4, <1>5, <3>1 DEF Tokens, Answered
    <2>2. Replies(w) = {} => Replies(v) = {}
      BY <1>6
    <2> QED
      BY <1>3, <1>5, <2>1, <2>2 DEF Tokens, Running, Waiting
  <1>9. CASE m \in {Heartbeat, Failed}
    <2>1. /\ q.sent = r.sent /\ q.pending = r.pending /\ q.results = r.results
          /\ q.reaped = r.reaped /\ (q.st = r.st \/ q.st = "failed")
      BY <1>1, <1>9 DEF Received, NodeRecord, Heartbeat, Failed
    <2> HIDE DEF q
    <2>2. Kept(q, v)
      <3>1. Books(q)
        BY <1>5, <2>1 DEF Books, Told
      <3>2. Standing(q, v)
        BY <1>7, <2>1 DEF Standing
      <3>3. Tokens(q, v)
        BY <1>8, <2>1 DEF Tokens, Running, Waiting, Answered
      <3> QED
        BY <3>1, <3>2, <3>3 DEF Kept
    <2> QED
      BY <1>2, <2>2 DEF CommandInv, NodeInv, TypeOK
  <1>10. CASE m \notin {Heartbeat, Failed}
    <2> DEFINE c == r.pending
               x == [cmd |-> c, kind |-> "answered"]
    <2>1. c # None /\ m = Result(c) /\ m.cmd = c
      BY <1>4, <1>5, <1>10 DEF Tokens, Answered, Result
    <2>2. x \in Reported /\ r.results \in Seq(Reported) /\ x.cmd = c
      BY <1>1 DEF Reported, NodeRecord
    <2>3. q = [r EXCEPT !.pending = None, !.results = Append(r.results, x)]
      BY <1>10, <2>1 DEF Received
    <2>4. /\ q.sent = r.sent /\ q.pending = None /\ q.results = Append(r.results, x)
          /\ q.reaped = r.reaped /\ q.st = r.st
      BY <1>1, <2>3 DEF NodeRecord
    <2> HIDE DEF q, x
    <2>5. Books(q)
      <3>1. /\ DOMAIN q.results = DOMAIN r.results \cup {Len(r.results) + 1}
            /\ Len(r.results) + 1 \notin DOMAIN r.results
            /\ \A k \in DOMAIN r.results : q.results[k] = r.results[k]
            /\ q.results[Len(r.results) + 1] = x
        BY <2>2, <2>4, Appended
      <3>2. \A y : Told(q, y) <=> Told(r, y) \/ y = c
        BY <2>2, <3>1 DEF Told
      <3>3. ~Told(r, c)
        BY <1>1, <1>5, <2>1 DEF Books
      <3>4. \A k, l \in DOMAIN q.results : q.results[k].cmd = q.results[l].cmd => k = l
        BY <1>5, <2>2, <3>1, <3>3 DEF Books, Told
      <3>5. \A y \in Commands : y # None
        BY NodesAssumption DEF NodesAssumption
      <3> QED
        BY <1>5, <2>4, <3>2, <3>4, <3>5 DEF Books
    <2>6. 1 \in Replies(w)
      BY <1>4, <2>1 DEF Replies, Result
    <2>7. Replies(v) = {}
      BY <1>4, <1>5, <1>6, <2>6 DEF Tokens, Answered, Replies
    <2>8. v.cmd = None /\ v.down = <<>> /\ v.phase # "busy"
      BY <1>3, <1>5, <2>6 DEF Tokens, Running, Waiting
    <2>9. \A k \in DOMAIN v.up : v.up[k] \in {Heartbeat, Failed}
      BY <1>8, <2>7 DEF Tokens, Answered, Replies, Result
    <2>10. Tokens(q, v)
      BY <2>7, <2>8, <2>9 DEF Tokens, Running, Waiting, Answered
    <2>11. Standing(q, v)
      BY <1>7, <2>4 DEF Standing
    <2> QED
      BY <1>2, <2>5, <2>10, <2>11 DEF CommandInv, Kept, NodeInv, TypeOK
  <1> QED
    BY <1>9, <1>10

\* What is pending when the node is reaped is told as unfinished, once.
LEMMA ReapCommands ==
  ASSUME CommandInv, NodeInv, Reap \/ ReapRaises
  PROVE  CommandInv'
  <1> DEFINE i == op.inst
             r == node[i]
             w == worker[i]
             p == IF Reap THEN None ELSE r.pending
             s == IF r.pending = None THEN r.results
                  ELSE Append(r.results, [cmd |-> r.pending, kind |-> "unfinished"])
             q == [r EXCEPT !.reaped = TRUE, !.st = ReapedState(r.st, w.clean),
                            !.pending = p, !.results = s]
  <1>1. /\ pc = "check" /\ ~Alive(i) /\ UNCHANGED worker
        /\ p = None \/ (p = r.pending /\ r.pending # None)
    BY DEF Reap, ReapRaises
  <1>2. i \in Instances /\ r \in NodeRecord /\ w \in WorkerRecord /\ ~r.reaped /\ Kept(r, w)
    BY <1>1, Visited DEF NodeInv, TypeOK, CommandInv
  <1>3. node' = [node EXCEPT ![i] = q]
    <2>1. CASE Reap
      BY <2>1 DEF Reap, ReapedNode
    <2>2. CASE ~Reap /\ ReapRaises
      <3>1. node' = [node EXCEPT ![i] =
                      [ReapedNode(r, w.clean) EXCEPT !.pending = r.pending]]
        BY <2>2 DEF ReapRaises
      <3>2. [ReapedNode(r, w.clean) EXCEPT !.pending = r.pending] = q
        BY <1>2, <2>2 DEF ReapedNode, NodeRecord
      <3> QED
        BY <3>1, <3>2
    <2> QED
      BY <2>1, <2>2
  <1>4. q.sent = r.sent /\ q.pending = p /\ q.results = s /\ q.reaped
    BY <1>2 DEF NodeRecord
  <1> HIDE DEF q
  <1>5. Standing(q, w)
    BY <1>1, <1>2 DEF Kept, Standing, Alive
  <1>6. CASE r.pending = None
    <2>1. p = None /\ q.results = r.results
      BY <1>1, <1>4, <1>6
    <2>2. Books(q)
      BY <1>2, <1>4, <1>6, <2>1 DEF Kept, Books, Told
    <2> QED
      BY <1>1, <1>3, <1>4, <1>5, <2>2 DEF CommandInv, Kept, NodeInv, TypeOK
  <1>7. CASE r.pending # None
    <2> DEFINE c == r.pending
               x == [cmd |-> c, kind |-> "unfinished"]
    <2>1. x \in Reported /\ r.results \in Seq(Reported) /\ x.cmd = c
      BY <1>2, <1>7 DEF Reported, NodeRecord
    <2>2. q.results = Append(r.results, x)
      BY <1>4, <1>7
    <2> HIDE DEF x, s, p
    <2>3. /\ DOMAIN q.results = DOMAIN r.results \cup {Len(r.results) + 1}
          /\ Len(r.results) + 1 \notin DOMAIN r.results
          /\ \A k \in DOMAIN r.results : q.results[k] = r.results[k]
          /\ q.results[Len(r.results) + 1] = x
      BY <2>1, <2>2, Appended
    <2>4. \A y : Told(q, y) <=> Told(r, y) \/ y = c
      BY <2>1, <2>3 DEF Told
    <2>5. ~Told(r, c) /\ Books(r)
      BY <1>2, <1>7 DEF Kept, Books
    <2>6. \A k, l \in DOMAIN q.results : q.results[k].cmd = q.results[l].cmd => k = l
      BY <2>1, <2>3, <2>5 DEF Books, Told
    <2>7. p = None \/ p = c
      BY <1>1
    <2>8. \A y \in Commands : y # None
      BY NodesAssumption DEF NodesAssumption
    <2>9. Books(q)
      BY <1>4, <2>4, <2>5, <2>6, <2>7, <2>8 DEF Books
    <2> QED
      BY <1>1, <1>3, <1>4, <1>5, <2>9 DEF CommandInv, Kept, NodeInv, TypeOK
  <1> QED
    BY <1>6, <1>7

-----------------------------------------------------------------------------
(* The theorem on commands.                                                  *)

LEMMA OperationCommands ==
  ASSUME CommandInv, NodeInv, TypeOK', Operation
  PROVE  CommandInv'
  <1>1. CASE PipeEmpty \/ StillAlive \/ Looks \/ Refused \/ StopPending
    BY <1>1, QuietCommands DEF PipeEmpty, StillAlive, Looks, Refused, StopPending
  <1>2. CASE StopReturns
    <2>1. UNCHANGED <<node, worker>> \/ \E n \in op.rest \cap Unreaped : StopNode(n, op.rest \ {n})
      BY <1>2 DEF StopReturns
    <2> QED
      BY <2>1, QuietCommands, StopNodeCommands
  <1> QED
    BY <1>1, <1>2, ReadMessageCommands, ReapCommands, StartProcessCommands,
       StartUndoneCommands, RegisterCommands, SendCommandCommands, StopForcedCommands,
       StopJoinedCommands DEF Operation

\* The inductive invariant: a command is in one place, and told at most once.
THEOREM CommandInvariant == Spec => []CommandInv
  <1>1. Init => CommandInv
    <2> SUFFICES ASSUME Init, NEW i \in Instances PROVE Kept(node[i], worker[i])
      BY DEF CommandInv
    <2>1. node[i] = NoNode /\ worker[i] = NoWorker
      BY DEF Init
    <2>2. NoNode.sent = {} /\ NoNode.pending = None /\ NoNode.results = <<>>
          /\ NoNode.st = "starting"
      BY DEF NoNode
    <2>3. NoWorker.phase = "none" /\ NoWorker.cmd = None /\ NoWorker.down = <<>>
          /\ NoWorker.up = <<>>
      BY DEF NoWorker
    <2>4. Books(NoNode)
      BY <2>2, NodesAssumption DEF Books, Told, NodesAssumption
    <2>5. Standing(NoNode, NoWorker) /\ Tokens(NoNode, NoWorker)
      BY <2>2, <2>3 DEF Standing, Tokens, Running, Waiting, Answered, Replies
    <2> QED
      BY <2>1, <2>4, <2>5 DEF Kept
  <1>2. CommandInv /\ NodeInv /\ NodeInv' /\ [Next]_vars => CommandInv'
    <2> SUFFICES ASSUME CommandInv, NodeInv, NodeInv', [Next]_vars PROVE CommandInv'
      OBVIOUS
    <2>1. TypeOK /\ TypeOK'
      BY DEF NodeInv
    <2>2. CASE OwnerDies \/ UNCHANGED vars
      BY <2>2, QuietCommands DEF OwnerDies, vars
    <2> QED
      BY <2>1, <2>2, WorkerCommands, OperationCommands, CallCommands DEF Next
  <1> QED
    BY <1>1, <1>2, NodeInvariant, PTL DEF Spec

LEMMA CommandSoundness == NodeInv /\ CommandInv => NodesAreSound
  <1> SUFFICES ASSUME NodeInv, CommandInv PROVE NodesAreSound
    OBVIOUS
  <1>1. CommandsAreAnswered
    <2> SUFFICES ASSUME NEW i \in Instances, node[i].reaped, NEW c \in node[i].sent
                 PROVE  Cardinality(Reports(i, c)) = 1
      BY DEF CommandsAreAnswered
    <2>1. c \in Commands /\ Books(node[i])
      BY DEF NodeInv, TypeOK, NodeRecord, CommandInv, Kept
    <2>2. c # None /\ Told(node[i], c)
      BY <2>1, NodesAssumption DEF Books, NodesAssumption
    <2>3. PICK k \in DOMAIN node[i].results : node[i].results[k].cmd = c
      BY <2>2 DEF Told
    <2>4. Reports(i, c) = {k}
      BY <2>1, <2>3 DEF Reports, Books
    <2> QED
      BY <2>4, FS_Singleton
  <1>2. ResultsAreFinal
    <2> SUFFICES ASSUME NEW i \in Instances, NEW c \in Commands, Reports(i, c) # {}, Alive(i)
                 PROVE  /\ worker[i].cmd # c
                        /\ \A k \in DOMAIN worker[i].down : worker[i].down[k] # c
      BY DEF ResultsAreFinal
    <2>1. ~node[i].reaped /\ Books(node[i]) /\ Tokens(node[i], worker[i]) /\ c # None
      BY NodesAssumption
      DEF NodeInv, Safe, ReapedDead, CommandInv, Kept, NodesAssumption
    <2>2. Told(node[i], c)
      BY DEF Reports, Told
    <2>3. c # node[i].pending
      BY <2>1, <2>2 DEF Books
    <2>4. worker[i].cmd # c
      BY <2>1, <2>3 DEF Tokens, Running
    <2>5. ASSUME NEW k \in DOMAIN worker[i].down PROVE worker[i].down[k] # c
      <3>1. worker[i].down \in Seq(Commands)
        BY DEF NodeInv, TypeOK, WorkerRecord
      <3>2. worker[i].down # <<>>
        BY <2>5
      <3>3. k = 1 /\ worker[i].down[1] = node[i].pending
        BY <2>1, <2>5, <3>1, <3>2 DEF Tokens, Waiting
      <3> QED
        BY <2>3, <3>3
    <2> QED
      BY <2>4, <2>5
  <1>3. StoppedIsDead
    BY DEF NodeInv, Safe, ReapedDead, CommandInv, Kept, Standing, StoppedIsDead, Alive
  <1> QED
    BY <1>1, <1>2, <1>3 DEF NodesAreSound, NodeInv

\* For any number of nodes, commands and restarts, and wherever a process dies
\* or the evidence store fails: a reaped node has answered each of its commands
\* exactly once, a command with a result is not run after it, and a node called
\* stopped has no process (_poll, command and stop of core/nodes.py).
THEOREM NodesSound == Spec => []NodesAreSound
  BY NodeInvariant, CommandInvariant, CommandSoundness, PTL
=============================================================================
