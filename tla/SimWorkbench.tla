---------------------------- MODULE SimWorkbench ----------------------------
(* Owned simulation instances (src/toolchain/simulation.py), their engines, and
   the bridge that lends the one stage of an Isaac process to whoever created
   an instance on it (sim_isaac_client.py, sim_isaac_host.py).

   A workbench runs a tool as a sequence of calls of the engine, holding its
   lock from the first to the last.  A MuJoCo engine is in the process.  A call
   of an Isaac engine is a request: it waits in the queue of the bridge, one
   thread of the bridge serves the queue in its order, and the client that
   waits may give up before the receipt comes, which takes nothing back.

   An observation is the time of the physics, in actions since the last reset. *)
EXTENDS Naturals, Sequences, FiniteSets

CONSTANTS
  Threads, Benches, BenchOf,  \* the threads that call tools, and the workbench of each; Tools they use
  Tools, Backends, Ids, MaxLives, MaxTime, MaxCalls, Horizon, MaxRows, MaxInstances

VARIABLES
  host,      \* [up, life, owner]: the bridge, and the instance on its stage
  queue,     \* the requests it has read and not served
  stage,     \* instance -> [made, backend, life, time], every engine ever made
  entries,   \* workbench -> instance -> [task, steps], what it owns
  call,      \* thread -> [tool, at, inst, seen, asked, ep], what it runs
  answer,    \* thread -> "none", "out", or what the engine said
  episodes,  \* every demonstration: [rows, complete]
  calls,     \* tools called
  hands      \* ghost: instance -> the workbenches that acted on it

vars == <<host, queue, stage, entries, call, answer, episodes, calls, hands>>

None == 0
Idle == [tool |-> "none", at |-> 1, inst |-> None, seen |-> 0, asked |-> 0, ep |-> 0]

\* The engine calls each tool makes
Calls == [create |-> <<"create", "inspect">>, inspect |-> <<"inspect">>, edit |-> <<"edit">>,
          camera |-> <<"camera">>, reset |-> <<"reset", "inspect">>, step |-> <<"step", "inspect">>,
          task |-> <<"inspect">>, capture |-> <<"inspect", "capture", "inspect">>,
          record |-> <<"inspect", "capture", "inspect", "capture", "inspect", "step", "inspect">>,
          close |-> <<"close">>, exit |-> <<"close">>]
Before == 3  \* where a transition of a recording begins: look, frames, look, act, look

Owned(b) == DOMAIN entries[b]
Mine(t) == BenchOf[t]
Method(t) == Calls[call[t].tool][call[t].at]
Fresh == {i \in Ids : stage[i].made = None}

TypeOK ==
  /\ host \in [up : BOOLEAN, life : 0..MaxLives, owner : Ids \cup {None}]
  /\ \A k \in DOMAIN queue : queue[k].from \in Threads /\ queue[k].inst \in Ids \cup {None}
  /\ stage \in [Ids -> [made : Benches \cup {None}, backend : Backends, life : 0..MaxLives, time : 0..MaxTime]]
  /\ \A b \in Benches : Owned(b) \subseteq Ids /\ Cardinality(Owned(b)) <= MaxInstances
  /\ \A t \in Threads : call[t].tool \in DOMAIN Calls \cup {"none"} /\ call[t].inst \in Ids \cup {None}

Init ==
  /\ host = [up |-> TRUE, life |-> 1, owner |-> None] /\ queue = <<>>
  /\ stage \in {[i \in Ids |-> [made |-> None, backend |-> b, life |-> 0, time |-> 0]] : b \in Backends}
  /\ entries = [b \in Benches |-> <<>>]
  /\ call = [t \in Threads |-> Idle] /\ answer = [t \in Threads |-> [is |-> "none"]]
  /\ episodes = <<>> /\ calls = 0 /\ hands = [i \in Ids |-> {}]

-----------------------------------------------------------------------------
(* A thread calls a tool: the lock of its workbench, and the checks of the tool. *)

Free(t) == \A u \in Threads : Mine(u) = Mine(t) => call[u].tool = "none"

Begins(t, tool, i) ==
  /\ Free(t) /\ calls < MaxCalls /\ calls' = calls + 1
  /\ call' = [call EXCEPT ![t] = [Idle EXCEPT !.tool = tool, !.inst = i]]

Create(t) ==
  /\ Cardinality(Owned(Mine(t))) < MaxInstances
  /\ Begins(t, "create", None)
  /\ UNCHANGED <<host, queue, stage, entries, answer, episodes, hands>>

\* sim_task is done before the engine is asked
Use(t, tool, i) ==
  /\ i \in Owned(Mine(t)) /\ tool \notin {"create", "exit", "record"}
  /\ Begins(t, tool, i)
  /\ entries' = IF tool = "task" THEN [entries EXCEPT ![Mine(t)][i] = [task |-> TRUE, steps |-> 0]] ELSE entries
  /\ UNCHANGED <<host, queue, stage, answer, episodes, hands>>

Record(t, i, n) ==
  /\ i \in Owned(Mine(t)) /\ n \in 1..MaxRows
  /\ Free(t) /\ calls < MaxCalls /\ calls' = calls + 1
  /\ call' = [call EXCEPT ![t] = [Idle EXCEPT !.tool = "record", !.inst = i, !.asked = n]]
  /\ UNCHANGED <<host, queue, stage, entries, answer, episodes, hands>>

\* The process ends: every engine is closed, and forgotten whatever the engine said.
Exit(t) ==
  /\ \E i \in Owned(Mine(t)) : Begins(t, "exit", i)
  /\ UNCHANGED <<host, queue, stage, entries, answer, episodes, hands>>

-----------------------------------------------------------------------------
(* An engine does what it is asked, or fails before or after it did it. *)
Ok(n) == [is |-> "ok", time |-> n]
Failed(n) == [is |-> "error", time |-> n]

\* Isaac resets its world for what an edit adds, and may fail before that or after
Edits(b, time) ==
  {Ok(time), Failed(time)} \cup (IF b = "isaac" THEN {Ok(0), Failed(0)} ELSE {})

\* A camera is added to the stage, or refused
Films(time) == {Ok(time), Failed(time)}

Does(method, b, time) ==
  CASE method = "inspect" -> {Ok(time)}
    [] method = "camera" -> Films(time)
    [] method = "capture" -> {Ok(time), Ok(time + 1), Failed(time)}
    [] method = "step" -> {Ok(time + 1), Failed(time), Failed(time + 1)}
    [] method = "reset" -> {Ok(0), Failed(time)}
    [] method = "edit" -> Edits(b, time)
    [] method = "close" -> {Ok(time), Failed(time)}

\* The engine of instance i serves bench b
Engine(i, b, method, r) ==
  /\ r \in Does(method, stage[i].backend, stage[i].time) /\ r.time <= MaxTime
  /\ stage' = [stage EXCEPT ![i].time = r.time]
  /\ hands' = [hands EXCEPT ![i] = @ \cup {b}]

Made(i, b, life) == stage' = [stage EXCEPT ![i].made = b, ![i].life = life]

\* In the process: create names the instance, the other calls are made at once
Local(t) ==
  /\ call[t].tool # "none" /\ answer[t].is = "none"
  /\ \/ /\ Method(t) = "create"
        /\ \E i \in Fresh : /\ stage[i].backend = "mujoco" /\ Made(i, Mine(t), 0)
                            /\ answer' = [answer EXCEPT ![t] = Ok(i)]
        /\ UNCHANGED hands
     \/ /\ Method(t) # "create" /\ stage[call[t].inst].backend = "mujoco"
        /\ \E r \in Does(Method(t), "mujoco", stage[call[t].inst].time) :
             Engine(call[t].inst, Mine(t), Method(t), r) /\ answer' = [answer EXCEPT ![t] = r]
  /\ UNCHANGED <<host, queue, entries, call, episodes, calls>>

\* A thread of the bridge reads a request into its queue and waits for the reply
Reads(t, i) == queue' = Append(queue, [from |-> t, inst |-> i, method |-> Method(t), live |-> TRUE])

(* A request: the client reads the connection file for create; later it keeps
   the token it read.  It is lost with the bridge, or refused at a full queue. *)
Send(t) ==
  LET i == call[t].inst IN
  /\ call[t].tool # "none" /\ answer[t].is = "none"
  /\ IF i = None THEN \E f \in Fresh : stage[f].backend = "isaac" ELSE stage[i].backend = "isaac"
  /\ \/ /\ host.up /\ (i # None => stage[i].life = host.life)
        /\ Reads(t, i) /\ answer' = [answer EXCEPT ![t] = [is |-> "out"]]
     \/ /\ UNCHANGED queue
        /\ answer' = [answer EXCEPT ![t] = Failed(0)]
  /\ UNCHANGED <<host, stage, entries, call, episodes, calls, hands>>

\* Mutant of Current: any request is served on the stage there is.
CurrentAny(q) == host.owner # None

Current(q) == host.owner # None /\ q.inst = host.owner

\* The owner thread answers a request for the client that still waits for it
Reply(q, r) == answer' = IF q.live THEN [answer EXCEPT ![q.from] = r] ELSE answer

\* What the bridge makes of a request: refused or expired, or served.
Serve ==
  /\ host.up /\ queue # <<>> /\ queue' = Tail(queue)
  /\ LET q == Head(queue)
     IN \/ Reply(q, Failed(0)) /\ UNCHANGED <<host, stage, hands>>
        \/ /\ q.method = "create" /\ host.owner = None
           /\ \E i \in Fresh : /\ Made(i, Mine(q.from), host.life) /\ host' = [host EXCEPT !.owner = i]
                               /\ Reply(q, Ok(i))
           /\ UNCHANGED hands
        \/ /\ q.method # "create" /\ Current(q)
           /\ \E r \in Does(q.method, "isaac", stage[host.owner].time) :
                /\ Engine(host.owner, Mine(q.from), q.method, r) /\ Reply(q, r)
                /\ host' = IF q.method = "close" /\ r.is = "ok" THEN [host EXCEPT !.owner = None] ELSE host
  /\ UNCHANGED <<entries, call, episodes, calls>>

\* The receipt does not come: nobody knows what became of the request.
Missing(t) ==
  /\ answer[t].is = "out"
  /\ answer' = [answer EXCEPT ![t] = Failed(0)]
  /\ queue' = [k \in DOMAIN queue |-> IF queue[k].from = t THEN [queue[k] EXCEPT !.live = FALSE] ELSE queue[k]]
  /\ UNCHANGED <<host, stage, entries, call, episodes, calls, hands>>

\* The bridge closes what it runs and goes; the next one has another token.
HostStops ==
  /\ host.up /\ host' = [host EXCEPT !.up = FALSE, !.owner = None] /\ queue' = <<>>
  /\ UNCHANGED <<stage, entries, call, answer, episodes, calls, hands>>

HostStarts ==
  /\ ~host.up /\ host.life < MaxLives
  /\ host' = [up |-> TRUE, life |-> host.life + 1, owner |-> None]
  /\ UNCHANGED <<queue, stage, entries, call, answer, episodes, calls, hands>>

-----------------------------------------------------------------------------
(* What the workbench does with an answer. *)
Ends(t) == call' = [call EXCEPT ![t] = Idle]
Next1(t) == call' = [call EXCEPT ![t].at = @ + 1]
Taken(t) == answer' = [answer EXCEPT ![t] = [is |-> "none"]]

\* An error ends the tool; a recording keeps what it has, unfinished; exit goes on without.
Raises(t) ==
  /\ answer[t].is = "error" /\ Taken(t) /\ Ends(t)
  /\ entries' = IF call[t].tool = "exit" THEN [entries EXCEPT ![Mine(t)] = [i \in DOMAIN @ \ {call[t].inst} |-> @[i]]] ELSE entries
  /\ UNCHANGED <<host, queue, stage, episodes, calls, hands>>

Created(t) ==
  /\ answer[t].is = "ok" /\ Method(t) = "create" /\ Taken(t)
  /\ LET i == answer[t].time IN
     /\ entries' = [entries EXCEPT ![Mine(t)] = [k \in DOMAIN @ \cup {i} |-> IF k = i THEN [task |-> FALSE, steps |-> 0] ELSE @[k]]]
     /\ call' = [call EXCEPT ![t].at = 2, ![t].inst = i]
  /\ UNCHANGED <<host, queue, stage, episodes, calls, hands>>

\* Every other tool but sim_record; frames that moved the physics are refused.
Answered(t) ==
  LET c == call[t]   e == entries[Mine(t)][c.inst]   m == Method(t) IN
  /\ answer[t].is = "ok" /\ c.tool # "record" /\ m # "create" /\ Taken(t)
  /\ entries' = [entries EXCEPT ![Mine(t)] =
       IF m = "close" THEN [i \in DOMAIN @ \ {c.inst} |-> @[i]]
       ELSE IF m = "step" THEN [@ EXCEPT ![c.inst].steps = @ + 1]
       ELSE IF m = "reset" \/ (m = "edit" /\ stage[c.inst].backend = "isaac") THEN [@ EXCEPT ![c.inst].steps = 0]
       ELSE @]
  /\ IF c.at < Len(Calls[c.tool]) THEN call' = [call EXCEPT ![t].at = @ + 1, ![t].seen = answer[t].time] ELSE Ends(t)
  /\ UNCHANGED <<host, queue, stage, episodes, calls, hands>>

\* sim_record looks, takes the first frames and opens the file
Prepares(t) ==
  LET c == call[t] IN
  /\ answer[t].is = "ok" /\ c.tool = "record" /\ c.at < Before /\ Taken(t)
  /\ \/ c.at = 1 /\ entries[Mine(t)][c.inst].task /\ Next1(t) /\ UNCHANGED episodes
     \/ c.at = 1 /\ Ends(t) /\ UNCHANGED episodes
     \/ /\ c.at = 2 /\ episodes' = Append(episodes, [rows |-> <<>>, complete |-> FALSE])
        /\ call' = [call EXCEPT ![t].at = Before, ![t].ep = Len(episodes) + 1]
  /\ UNCHANGED <<host, queue, stage, entries, calls, hands>>

Settled(t) == answer[t].time = call[t].seen

\* One transition: the observation, its frames, the check that they are of one time, the action.
Observes(t) ==
  LET c == call[t] IN
  /\ answer[t].is = "ok" /\ c.tool = "record" /\ c.at \in {Before, Before + 1, Before + 2} /\ Taken(t)
  /\ \/ /\ c.at = Before
        /\ call' = [call EXCEPT ![t].seen = answer[t].time, ![t].at = IF episodes[c.ep].rows = <<>> THEN Before + 2 ELSE Before + 1]
     \/ c.at = Before + 1 /\ Next1(t)
     \/ c.at = Before + 2 /\ Settled(t) /\ Next1(t)
     \/ c.at = Before + 2 /\ ~Settled(t) /\ Ends(t)
  /\ UNCHANGED <<host, queue, stage, entries, episodes, calls, hands>>

Acts(t) ==
  /\ answer[t].is = "ok" /\ call[t].tool = "record" /\ Method(t) = "step" /\ Taken(t) /\ Next1(t)
  /\ entries' = [entries EXCEPT ![Mine(t)][call[t].inst].steps = @ + 1]
  /\ UNCHANGED <<host, queue, stage, episodes, calls, hands>>

(* The transition is stored, and the demonstration ends at success, at the
   horizon, or after its last action; a store that refuses ends it unfinished,
   and so does a cancel before the next action.                              *)
Stores(t) ==
  LET c == call[t]   e == entries[Mine(t)][c.inst]
      rows == Append(episodes[c.ep].rows, [before |-> c.seen, after |-> answer[t].time]) IN
  /\ answer[t].is = "ok" /\ c.tool = "record" /\ c.at = Len(Calls.record) /\ Taken(t)
  /\ \/ Ends(t) /\ UNCHANGED episodes
     \/ /\ answer[t].time > c.seen
        /\ \E success \in BOOLEAN :
             LET over == success \/ e.steps >= Horizon \/ Len(rows) = c.asked IN
             /\ episodes' = [episodes EXCEPT ![c.ep] = [rows |-> rows, complete |-> over]]
             /\ \/ over /\ Ends(t)
                \/ ~over /\ call' = [call EXCEPT ![t].at = Before]
                \/ ~over /\ Ends(t)
  /\ UNCHANGED <<host, queue, stage, entries, calls, hands>>

Next ==
  \/ Serve \/ HostStops \/ HostStarts
  \/ \E t \in Threads :
       \/ Create(t) \/ Exit(t) \/ Local(t) \/ Send(t) \/ Missing(t) \/ Raises(t) \/ Created(t)
       \/ Answered(t) \/ Prepares(t) \/ Observes(t) \/ Acts(t) \/ Stores(t)
       \/ \E i \in Ids : (\E tool \in Tools : Use(t, tool, i)) \/ \E n \in 1..MaxRows : Record(t, i, n)

Spec == Init /\ [][Next]_vars

-----------------------------------------------------------------------------
(* The transitions of a demonstration that says it is complete follow each
   other without a gap, and each is one action and nothing else: no other
   call, and no request whose receipt was given up, came between the two
   observations.                                                             *)
EpisodesAreWhole ==
  \A k \in DOMAIN episodes : episodes[k].complete =>
    LET rows == episodes[k].rows IN
    /\ rows # <<>> /\ Len(rows) <= MaxRows
    /\ \A n \in DOMAIN rows : rows[n].after = rows[n].before + 1 /\ (n > 1 => rows[n].before = rows[n - 1].after)

(* An instance is acted on only by the workbench that made it, also when a
   receipt was lost and the one stage of the bridge has passed to another.   *)
OwnersAct == \A i \in Ids : hands[i] \subseteq {stage[i].made}
=============================================================================
