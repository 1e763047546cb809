---------------------------- MODULE AgentBroker ----------------------------
(* The broker of a terminal's sub-agents (src/terminal/agents.py) and the lease
   table it shares with other terminals (src/core/resources.py).  The broker
   does everything under one lock: poll serves the pipes of its workers and
   then starts queued records in order; spawn polls first.  Workers and other
   terminals run in between, and the terminal may be killed at any point.     *)
EXTENDS Naturals, FiniteSets

CONSTANTS
  MaxRecords,  \* bound: spawns of one broker (at most 4096 records in the code)
  MaxRunning,  \* max_workers of a broker
  Ceiling,     \* max_workers of the resource policy, for all terminals together
  Batch,       \* messages served from one pipe in a pass (16 in the code)
  Msgs,        \* messages a record may be sent (16 in the code)
  Pressure     \* whether telemetry may refuse a worker below the ceiling

ASSUME BrokerConstants ==
  /\ MaxRecords \in Nat /\ MaxRunning \in Nat /\ Ceiling \in Nat /\ Batch \in Nat \ {0}
  /\ Pressure \in BOOLEAN

VARIABLES
  rec,    \* [Agents -> record], with the lease row and the process of the record
  at,     \* what the thread that holds the broker's lock is doing
  up,     \* the terminal: "open", "closed" or "dead"
  others  \* number of lease rows of workers of other terminals
vars == <<rec, at, up, others>>

Agents == 1..MaxRecords
Ended == {"done", "failed", "timed_out", "cancelled"}
Requests == {"inbox", "tool"}
Answers == {"result", "error", "garbage"}
None == "none"

Record ==
  [state: {None, "dropped", "queued", "running"} \cup Ended, late: BOOLEAN,
   worker: {None, "working", "asking", "gone"}, pipe: {None} \cup Requests \cup Answers,
   lease: {None, "terminal", "worker"},        \* whose pid the lease row names
   log: [Msgs -> {None, "queued", "delivered", "not_delivered"}],
   got: SUBSET Msgs, mail: Nat, seen: Nat]
NoRecord ==
  [state |-> None, late |-> FALSE, worker |-> None, pipe |-> None, lease |-> None,
   log |-> [m \in Msgs |-> None], got |-> {}, mail |-> 0, seen |-> 0]

Idle == [op |-> "idle", n |-> 0, left |-> Batch, for |-> None]
Polling(for) == [op |-> "serve", n |-> 1, left |-> Batch, for |-> for]

Init ==
  /\ rec = [a \in Agents |-> NoRecord]
  /\ at = Idle
  /\ up = "open"
  /\ others \in 0..Ceiling

(* What _finish leaves of a record: the process is killed, the lease row is
   deleted, undelivered messages are marked, and the end is announced.       *)

Finished(r, state) ==
  [r EXCEPT !.state = state, !.worker = IF @ = None THEN None ELSE "gone", !.pipe = None,
            !.lease = None, !.mail = @ + 1,
            !.log = [m \in Msgs |-> IF @[m] = "queued" THEN "not_delivered" ELSE @[m]]]

Used == {a \in Agents : rec[a].state # None}     \* next_sequence
Running == {a \in Agents : rec[a].state = "running"}
Dropped(r) == [NoRecord EXCEPT !.state = "dropped", !.worker = IF r.worker = None THEN None ELSE "gone"]
Open(r) == r.state \in {"queued", "running"}

(* The rows of the lease table whose pid still names the process it named. *)
Current(a) ==
  \/ rec[a].lease = "terminal" /\ up # "dead"
  \/ rec[a].lease = "worker" /\ rec[a].worker \notin {None, "gone"}
Swept == [a \in Agents |-> IF Current(a) THEN rec[a] ELSE [rec[a] EXCEPT !.lease = None]]
Room == Cardinality({a \in Agents : Current(a)}) + others < Ceiling

Goto(op, n) == at' = [at EXCEPT !.op = op, !.n = n, !.left = Batch]
Return == at' = Idle

(* Callers that find the lock free.  spawn and inbox poll first. *)
Call ==
  /\ at.op = "idle" /\ up # "dead"
  /\ \E for \in {"poll", "inbox", "spawn"} :
       /\ for = "spawn" => up = "open" /\ Used # Agents
       /\ at' = Polling(for)
  /\ UNCHANGED <<rec, up, others>>

Send(a, m) ==
  /\ Open(rec[a]) /\ rec[a].log[m] = None
  /\ rec' = [rec EXCEPT ![a].log[m] = "queued"]

MasterSends ==
  /\ at.op = "idle" /\ up # "dead"
  /\ \E n \in Used, m \in Msgs : Send(n, m)
  /\ UNCHANGED <<at, up, others>>

Cancel ==
  /\ at.op = "idle" /\ up # "dead"
  /\ \E n \in Used :
       /\ Open(rec[n])
       /\ rec' = [rec EXCEPT ![n] = Finished(@, "cancelled")]
  /\ UNCHANGED <<at, up, others>>

Close ==
  /\ at.op = "idle" /\ up = "open"
  /\ up' = "closed"
  /\ rec' = [a \in Agents |-> IF Open(rec[a]) THEN Finished(rec[a], "cancelled") ELSE rec[a]]
  /\ UNCHANGED <<at, others>>

(* The pass of poll over the records, in order of their creation. *)
Serving == at.op = "serve" /\ at.n <= MaxRecords /\ UNCHANGED <<up, others>>
Visited == at.n
NextRecord == Goto("serve", at.n + 1)

Skip ==
  /\ Serving /\ UNCHANGED rec
  /\ LET r == rec[Visited] IN
       \/ r.state # "running"
       \/ ~r.late /\ at.left = 0
       \/ ~r.late /\ r.pipe = None /\ r.worker # "gone"
  /\ NextRecord

End(state) ==
  /\ rec' = [rec EXCEPT ![Visited] = Finished(@, state)]
  /\ NextRecord

\* Mutant of TimeOut: a worker that has something to say is not late.
TimeOutQuiet ==
  /\ Serving /\ rec[Visited].state = "running" /\ rec[Visited].late /\ rec[Visited].pipe = None
  /\ End("timed_out")

TimeOut ==
  /\ Serving /\ rec[Visited].state = "running" /\ rec[Visited].late
  /\ End("timed_out")

Served ==
  /\ Serving /\ rec[Visited].state = "running" /\ ~rec[Visited].late
  /\ at.left > 0

Answered == Served /\
  \/ rec[Visited].pipe = "result" /\ End("done")
  \/ rec[Visited].pipe \in {"error", "garbage"} /\ End("failed")

(* End of file, or a reply that cannot be written. *)
Disconnected ==
  /\ Served /\ rec[Visited].worker = "gone" /\ rec[Visited].pipe \in {None} \cup Requests
  /\ End("failed")

Replied(r) == [r EXCEPT !.worker = "working", !.pipe = None]

\* The pending messages go with the reply, and their receipts say so.
Delivered(r) ==
  [Replied(r) EXCEPT
     !.got = @ \cup {m \in Msgs : r.log[m] = "queued"},
     !.log = [m \in Msgs |-> IF r.log[m] = "queued" THEN "delivered" ELSE r.log[m]]]

ReplyInbox ==
  /\ Served /\ rec[Visited].pipe = "inbox" /\ rec[Visited].worker = "asking"
  /\ rec' = [rec EXCEPT ![Visited] = Delivered(@)]
  /\ at' = [at EXCEPT !.left = @ - 1]

(* A tool of the worker: one that changes nothing here, one that is refused,
   or send_agent to a peer. *)
ReplyTool ==
  /\ Served /\ rec[Visited].pipe = "tool" /\ rec[Visited].worker = "asking"
  /\ \/ rec' = [rec EXCEPT ![Visited] = Replied(@)]
     \/ \E n \in Used, m \in Msgs :
          /\ Open(rec[n]) /\ rec[n].log[m] = None
          /\ rec' = [[rec EXCEPT ![Visited] = Replied(@)] EXCEPT ![n].log[m] = "queued"]
  /\ at' = [at EXCEPT !.left = @ - 1]

Served1 == Skip \/ TimeOut \/ Answered \/ Disconnected \/ ReplyInbox \/ ReplyTool

\* Mutant of ServedAll: only spawn starts what is queued.
ServedAllBySpawn ==
  /\ at.op = "serve" /\ at.n > MaxRecords
  /\ IF up = "open" /\ at.for = "spawn" THEN Goto("queue", 1) ELSE Goto("polled", 0)
  /\ UNCHANGED <<rec, up, others>>

(* The second loop of poll starts queued records until one has to wait. *)
ServedAll ==
  /\ at.op = "serve" /\ at.n > MaxRecords
  /\ IF up = "open" THEN Goto("queue", 1) ELSE Goto("polled", 0)
  /\ UNCHANGED <<rec, up, others>>

Waits == Cardinality(Running) >= MaxRunning
Refused == rec' = Swept /\ (Pressure \/ ~Room)
Admitted(a) == rec' = [Swept EXCEPT ![a].lease = "terminal"] /\ Room

StartQueued ==
  /\ at.op = "queue" /\ UNCHANGED <<up, others>>
  /\ LET a == Visited IN
     \/ at.n > MaxRecords /\ Goto("polled", 0) /\ UNCHANGED rec
     \/ /\ at.n <= MaxRecords /\ rec[a].state # "queued"
        /\ Goto("queue", at.n + 1) /\ UNCHANGED rec
     \/ /\ at.n <= MaxRecords /\ rec[a].state = "queued"
        /\ \/ Waits /\ Goto("polled", 0) /\ UNCHANGED rec
           \/ ~Waits /\ Refused /\ Goto("polled", 0)
           \/ ~Waits /\ Admitted(a) /\ Goto("launch", at.n)

(* After the pass: inbox takes the mail; spawn creates its record and tries to
   start it.  What has to wait is queued, or dropped by a caller that will not
   queue.  *)
Polled ==
  /\ at.op = "polled" /\ UNCHANGED <<up, others>>
  /\ \/ at.for = "poll" /\ Return /\ UNCHANGED rec
     \/ /\ at.for = "inbox" /\ Return
        /\ rec' = [a \in Agents |-> [rec[a] EXCEPT !.seen = @ + rec[a].mail, !.mail = 0]]
     \/ /\ at.for = "spawn"
        /\ LET a == CHOOSE i \in Agents : Used = 1..(i - 1)
               Create(table, state) == [table EXCEPT ![a].state = state]
           IN \/ /\ Waits \/ Pressure \/ ~Room
                 /\ \E state \in {"queued", "dropped"} :
                      rec' = Create(IF Waits THEN rec ELSE Swept, state)
                 /\ Return
              \/ /\ ~Waits /\ Room
                 /\ rec' = [Create(Swept, "queued") EXCEPT ![a].lease = "terminal"]
                 /\ at' = [at EXCEPT !.op = "launch", !.n = a, !.for = "new"]

(* The caller of _start when it raised: spawn drops the record, poll fails it. *)
Spawning == at.for = "new"
StartRaised ==
  LET a == Visited IN
    \/ /\ rec' = [rec EXCEPT ![a] = Finished(@, "failed")]
       /\ ~Spawning /\ Goto("queue", at.n + 1)
    \/ rec' = [rec EXCEPT ![a] = Dropped(@)] /\ Spawning /\ Return

StartReturned == IF Spawning THEN Return ELSE Goto("queue", at.n + 1)

Launch ==
  /\ at.op = "launch" /\ UNCHANGED <<up, others>>
  /\ \/ StartRaised
     \/ /\ rec' = [rec EXCEPT ![Visited].worker = "working"]
        /\ Goto("bind", at.n)

\* Mutant of Bound: the row keeps the pid of the terminal.
BoundToTerminal(r) == [r EXCEPT !.state = "running"]

(* The lease row is moved to the pid of the worker, or deleted if that is
   already gone; then the record runs. *)
Bound(r) == [r EXCEPT !.state = "running", !.lease = IF r.worker = "gone" THEN None ELSE "worker"]
Bind ==
  /\ at.op = "bind" /\ UNCHANGED <<up, others>>
  /\ \/ StartRaised
     \/ rec' = [rec EXCEPT ![Visited] = Bound(@)] /\ StartReturned
     \/ /\ ~Spawning           \* the event of the start cannot be written
        /\ rec' = [rec EXCEPT ![Visited] = Finished(Bound(@), "failed")]
        /\ Goto("queue", at.n + 1)

(* The worker asks and waits for the reply, or sends its last message and ends. *)
Connected == up # "dead"
WorkerAsks(a) ==
  /\ rec[a].worker = "working" /\ Connected
  /\ \E q \in Requests : rec' = [rec EXCEPT ![a].worker = "asking", ![a].pipe = q]
  /\ UNCHANGED <<at, up, others>>
WorkerEnds(a) ==
  /\ rec[a].worker \in {"working", "asking"}
  /\ \/ /\ rec[a].worker = "working" /\ Connected
        /\ \E q \in Answers : rec' = [rec EXCEPT ![a].worker = "gone", ![a].pipe = q]
     \/ rec' = [rec EXCEPT ![a].worker = "gone"]        \* a crash
  /\ UNCHANGED <<at, up, others>>

TimePasses(a) ==
  /\ rec[a].state = "running" /\ ~rec[a].late
  /\ rec' = [rec EXCEPT ![a].late = TRUE]
  /\ UNCHANGED <<at, up, others>>

(* The terminal is killed: its lock, records and pipes are gone, its workers
   live until they next use the pipe.  *)
Killed ==
  /\ up # "dead"
  /\ up' = "dead" /\ Return
  /\ UNCHANGED <<rec, others>>

(* Other terminals reserve and release workers through the same table. *)
OtherTerminals ==
  /\ \/ Room /\ others' = others + 1 /\ rec' = Swept
     \/ others > 0 /\ others' = others - 1 /\ UNCHANGED rec
  /\ UNCHANGED <<at, up>>

Broker == Served1 \/ ServedAll \/ StartQueued \/ Polled \/ Launch \/ Bind
Caller == Call \/ MasterSends \/ Cancel \/ Close \/ Killed
Worker(a) == WorkerAsks(a) \/ WorkerEnds(a) \/ TimePasses(a)
Next == Broker \/ Caller \/ OtherTerminals \/ (\E a \in Agents : Worker(a))

Spec == Init /\ [][Next]_vars

(* The interface polls in the background (src/terminal/interactive.py), the
   broker's own steps go on, time passes, and a worker whose pipe is closed
   ends. *)
Fairness ==
  /\ WF_vars(Broker) /\ WF_vars(Call)
  /\ WF_vars(others > 0 /\ OtherTerminals)
  /\ \A a \in Agents : WF_vars(TimePasses(a)) /\ WF_vars(~Connected /\ WorkerEnds(a))
FairSpec == Spec /\ Fairness

(***************************************************************************)
(* Properties.                                                             *)
(***************************************************************************)
(* Records, pipes and lease rows have the values the code gives them. *)
TypeOK ==
  /\ rec \in [Agents -> Record]
  /\ at \in [op: {"idle", "serve", "queue", "polled", "launch", "bind"},
                           n: 0..(MaxRecords + 1), left: 0..Batch, for: {None, "poll", "inbox", "spawn", "new"}]
  /\ up \in {"open", "closed", "dead"}
  /\ others \in 0..Ceiling

(* Every sub-agent that ends is announced to the conversation exactly once,
   whatever ended it (_finish, inbox).  *)
AnnouncedOnce ==
  \A a \in Agents : rec[a].mail + rec[a].seen = IF rec[a].state \in Ended THEN 1 ELSE 0

(* A receipt says what happened: delivered means handed to the worker's inbox,
   and nothing handed over is reported as not delivered (send, poll, _finish). *)
ReceiptsAreTrue ==
  \A a \in Agents, m \in Msgs :
    /\ (rec[a].log[m] = "delivered") <=> (m \in rec[a].got)
    /\ rec[a].log[m] = "queued" => rec[a].state \notin Ended

(* Workers that were bound to their lease keep it while they live, also after
   their terminal was killed: all terminals together respect the ceiling, and a
   record that ended leaves neither a row nor a process (bind, _finish). *)
WorkersAreReserved ==
  /\ Cardinality({a \in Agents : rec[a].state = "running" /\ rec[a].worker # "gone"}) + others <= Ceiling
  /\ \A a \in Agents : rec[a].state \in Ended \cup {"dropped"} => rec[a].lease = None /\ rec[a].worker \in {None, "gone"}

(* What the master and the resource manager are told of sub-agents is so: each
   end is announced once, a receipt says which mail was handed over, and every
   live worker whose lease was moved to it keeps its place.                   *)
BrokerIsSound == TypeOK /\ AnnouncedOnce /\ ReceiptsAreTrue /\ WorkersAreReserved

(* A sub-agent that runs comes to an end unless its terminal is killed: by its
   answer, its death or the time budget. *)
RunsEnd == \A a \in Agents : rec[a].state = "running" ~> rec[a].state # "running" \/ up = "dead"

(* Queued work is not forgotten: once other terminals leave room, and with the
   rows of dead processes swept, it starts or ends while the terminal is open. *)
QueueMoves ==
  <>[](others = 0) /\ ~Pressure =>
    \A a \in Agents : rec[a].state = "queued" ~> rec[a].state # "queued" \/ up # "open"
=============================================================================
