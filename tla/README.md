# A verification of Loop ROS

This directory holds TLA+ models of Loop ROS, the TLC runs that check them and
the theorems TLAPS proves about them. Every definition is translated from the
source; `PROJECT.json` maps each one to its lines, lists the hazards of the code
at the line where they bite, and names the definition whose corruption each
property catches.

Paths below are relative to `src/`.

## 1. The system

Loop ROS is a robotics agent: a terminal program in which a language model calls
tools, background tasks that run unattended until acceptance checks hold, child
processes that own devices, and a small execution kernel in Rust that is also
the agent of an ESP32 board.

| Component | State it keeps | Operations | What makes it correct |
|---|---|---|---|
| Task ledger (`core/tasks.py`) | SQLite tables `tasks`, `task_events`, `triggers`, `runtime` | submit, cancel, resume, signal, define_checks, update | a final task stays final; resume refuses a running or final task |
| Supervisor (`terminal/task_supervisor.py`, `terminal/task_service.py`) | the attempts in progress, their receipts, the loop | poll, before_tool, after_tool, _finish, fire_events, close | one attempt per task; no blind replay; success only on receipts; cancellation stops tools; retries end |
| Agent broker (`terminal/agents.py`, `core/resources.py`) | records of sub-agents, their processes and mail, the rows of the lease table | spawn, poll, send, cancel, close | each end announced once; mail handed over as its receipt says; the ceiling of all terminals holds; every run ends and the queue moves |
| Node runtime (`core/nodes.py`) | records of nodes, the table of devices, a process with a pipe per node | start, command, status, logs, stop, close, the supervisor thread | one live process per device; one final result per command; stopped means dead; deaths are noticed; close ends what may be forced |
| Host processes (`toolchain/process_node.py`, `toolchain/process_control.py`) | programs under reviewed profiles, pids | launch, inspect, stop | a signal hits the process that was inspected; a node runs the program that was reviewed |
| Execution kernel (`rust/core/src/agent.rs`, `rust/ffi`) | one context: state, budgets, deadline, check, call id | begin, request_model, propose, dispatch, receipt, answer, cancel, fail | budgets; a receipt counts once and for its own call; prose completes nothing; an ended run stays ended |
| Board agent (`firmware/esp32/src/main.cpp`) | kernel, history, ids of the goal | run_goal, request, cancelled, loop | kernel released by every exit; verdict earned; Ctrl-C heard; every goal ends |
| Feedback loop (`toolchain/feedback.py`, `rust/core/src/robotics.rs`) | the body, the record of an episode | run, review, stop | a pass rests on evidence of its own attempt; every target given to the body is on record |
| Serial bus (`toolchain/serial_port.py`, `toolchain/feetech.py`) | the lock of the port, the exchange in progress | open, identify, read, move, close | one user of the port; a late answer is not taken for that of another packet; a request moves the motor once |
| Conversation turn (`terminal/llm.py`, `terminal/session_task.py`) | the context, budgets, guards, the work record | reply: rounds, tool calls, steering, compaction | every call has its receipt; no stale call; work complete only while its checks hold; a bounded turn ends |
| Terminal loop (`terminal/interactive.py`, `terminal/session.py`) | queue, draft, timers, the conversation, its file | submit, steer, stop, switch, timers, mail, exit | no message lost, doubled or moved; a stop is not forgotten; the queue moves; a switch happens |
| Permissions and commands (`terminal/permissions.py`, `terminal/control.py`) | rules, approvals, the motion stop | check, approve, reject, /permissions, /mode, /stop | an approval is good for one execution; after /stop nothing moves; no forbidden node lives |
| Providers and keys (`terminal/home.py`, `terminal/providers.py`, `terminal/setup.py`, `model_switch.py`) | config.json, the older credentials.json, profiles | save a key or profile, check, switch, recover | no key of another endpoint is lost; "passed" was earned with the key in use |
| Memory and learning (`core/experience.py`, `core/memory_layers.py`, `terminal/learning.py`) | experience, memory items, notes | record a turn or attempt, import, revise | memory never goes back; a procedure is earned; revisions form one line |
| Releases (`release_client.py`, `release_runtime.py`) | the record, environments, commands, leases of sessions | install, roll back, uninstall, start | an update never replaces a running release; a failure leaves one that works |
| Viewer (`terminal/viewer.py`, `toolchain/viewer_worker.py`) | the window process and two files | open, send, stop, watch, close | a caller is told what became of its command; what was given up on does not start |
| Simulation engines (`toolchain/simulation.py`, `toolchain/sim_isaac*.py`) | instances, the queue of the bridge, recordings | create, step, record, close | a recording is one whole run; only the owner acts |
| Scenes (`toolchain/composition.py`, `toolchain/scenes.py`, `terminal/app.py`) | the bundles on disk, the session's latest scene | generate, compose, publish, restore | what is written stands; what is restored was published |

### How they interact

* A terminal and the task supervisor share the ledger file only: every method of
  `TaskStore` is one or two transactions, so terminals interleave with the
  supervisor at every transaction boundary.
* The supervisor and a conversation start sub-agents through a broker. A worker
  is a process; its questions, its results and its death arrive through a pipe
  that `poll` reads. Brokers of several terminals share the lease table.
* The terminal's event loop starts turns on a thread. The loop and the turn share
  the queue, the stop event and the conversation's file; a tool of the turn goes
  through the permission gate, as do the tools of sub-agents and commands.
* The kernel calls nothing. Its adapter (firmware, `rust/host`, a C program)
  calls its methods in an order of its own and passes on what drivers report.
* The node runtime and its workers share a pipe, two events and the fact of
  being alive; everything else the runtime knows is what it read before.
* The terminal and the window of the simulator share two files and no lock. An
  Isaac bridge is a process with a queue of requests that time out on the side
  of the caller only.
* Several terminals and `loop-switch` share configuration files, the database of
  experience and the release record. Only some of these are locked.

### What is hard

Interleavings of terminals with a supervisor that reads a row, works, and writes
it back; process death between a tool's intent and its receipt; counters that
survive some branches and are reset by others; receipts and answers that arrive
late, twice or for another run; a caller that times out while the other side
goes on; early returns that skip the clean-up; a rule checked by one thread and
changed by another; files replaced one after the other with a kill in between;
loops that must end although the model may answer anything. The hazards of
`PROJECT.json` name the place of each.

## 2. The modules

A method that holds a lock or a transaction from its first to its last statement
is one action. Where the code reads in one transaction and writes in a later
one, waits, or calls out, the method is cut there and what it read stays in a
variable of its own, so that stale values are as stale as in the code. Prompts,
texts and payloads are model values; what compares equal in the code is equal.

**`TaskRuntime`, `TaskLifecycle`.** The ledger is one row per task (state, checks,
attempt, due, and the keys of the feedback column the control flow reads). The
supervisor is the loop it runs: `pc` is the place in `poll()` - `top`, `poll` (the
broker), `call` and `ran` (around one tool), `settle` and `commit` (`_finish`), `fire`
and `fired` (`fire_events`), `list` and `scan` (the launches) - or `down` when there is
no process. `snap` is what the supervisor read and `cli` what a terminal in
`resume` read before they write. `job` is a worker with what its receipts show of
each set of checks. `Crash` may happen anywhere, `Stop` and `Fault` where the code
lets them. A check set is a model value and a review of it a verdict: `"pass"` or
the fingerprint of its findings. `TaskLifecycle` is what a user relies on: a task is
ready, running, waiting or final; final is for good; an attempt that was lost
after it had effects is not repeated until somebody resumes it.

**`AgentMethods`, `AgentKernel`, `EdgeAgent`.** `AgentMethods` has one operator per method
of the Rust `Agent`, from the record and the arguments to the new record and the
error code, with the guards in the order of the code. `AgentKernel` is the kernel
under any adapter: any method in any state with any argument, a clock that may
jump either way, a driver whose reports are delayed, repeated, or passed on in a
later run. All the adapter is assumed to do is to register a task id that is not
in use by reports still around. `EdgeAgent` is the adapter on the board: `run_goal`
as a machine over the same operators, with the serial port, the clock, the heap
and the remote model as its surroundings; each early `return` is a `Return` of its
own.

**`NodeRuntime`.** One lock for all operations (`pc`, `op`), because each method of the
class is one `with self.lock` block, and workers that move at any time between its
statements. `records` and `resources` are the tables of the class, `node` the
dictionary kept per instance, `worker` the process with its pipe (`down`, `up`) and
events. The pass of `_poll` is `Visit`, `ReadMessage`, `PipeEmpty` and then `StillAlive`,
`Reap` or `ReapRaises` for each node that is not reaped. `Refused` stands for every check
that raises, the lease and the device locks of other terminals included.

**`AgentBroker`.** One lock too. `rec` is a record per spawn with the state of its
process, pipe, lease row and mail; `at` is the place in `poll`, `spawn` or a start:
serving pipes, walking the queue, between `Popen` and the binding of the lease row.
`others` counts the lease rows of other terminals, which come and go. A start may
raise at every point, and the terminal may be killed at every point.

**`ModelTurn`.** `_reply` as a machine over rounds: `pc` is before a round, making the context
fit, in a request, calling a tool, running it, or ended. The context `msgs` is kept as
roles and the number of calls of each message, so that pairing is visible. `fit` is
the loop it is in the code: it drops the excerpts of an earlier compaction, then one
batch with its receipts at a time (`DropEarlier`, `DropOldest`), and puts excerpts of
what it dropped in front. Turns before this one have no calls in the context and are
left out. `heard` and `joined` count the user's messages a plan took into
account. The model answers with any batch of `Plans`, or with prose; a tool ends in
every way the guards tell apart.

**`TerminalLoop`.** Everything between two awaits of the event loop is one action of `Poll`
or of the editor; the thread of a turn runs in between (`Worker`), and so do other
terminals and a kill. `saved` is the file of each conversation, `queue`, `draft`, `rec` the
live one, `turn` what runs with the messages it took.

**`OperatorControl`.** The gate and its approvals, the operator's commands in the steps
between their transactions and locks, and the tools as far as the gate governs
them. `thread` is a caller: `check` before the gate, `run` after it, `moving` while it has the
body. `console` is the command in progress.

**`ProviderSetup`, `Learning`, `ReleaseUpdate`.** Processes over shared files: each transaction,
and each read, replace or delete of a file, is an action; a process may be killed
between any two.

**`ServoBus`, `FeedbackLoop`, `HostProcesses`.** The port with a line that keeps answers in
order but late or never; the two implementations of the feedback loop as one
machine with `runtime` saying where they differ; a host that hands out pids again.

**`SimulatorViewer`, `SimWorkbench`, `SceneSession`.** The window process and the terminal over the
inbox and the ready file, with the three deadlines of the code as events; the
workbench over engines in the process or behind the bridge; scenes as what stands
on what, published by threads that share no lock.

**Composition.** Components that interact are composed in one module: `TaskRuntime` holds
ledger, supervisor, workers and terminals, `AgentBroker` broker, workers and the lease
table, `OperatorControl` gate, tools and nodes, `TerminalLoop` loop, turn, timers and
files. `EdgeAgent` and `AgentKernel` share the operators of the kernel. `Host` puts the
kernel, the bus, the feedback loop, the processes and the release side by side, with
the assumptions on their constants and one property for each; `MCHost` adds the
bounds of a run and `HostProofs` proves about the same instances. `Goals` does the same for
the board and the turn of a conversation, and `Services` for what a terminal keeps
beside its conversation: permissions, keys and memory, and `Simulation` for the
window, the engines and the scenes. `MCGoals`, `MCHost`,
`MCSimulation` and `MCServices` only put components side by side that share no state:
the variable `part` says which of them a behaviour is one of, the others stay as
they began. This is no composition: a run of such a module asks one question of
each part. The theorems about a composed module `X` are in `XProofs`; those about
`AgentBroker` and `Simulation`, to which the terminal hands work and whose answers it
waits for, are together in `DelegationProofs`.

## 3. The runs

| Run | Question | Bounds, and why they suffice |
|---|---|---|
| `task_safety` | attempts are exclusive, owned, verified, never replayed blindly, stopped by a cancellation; final stays final; the message of a resume is in the feedback the next attempt starts from | 1 task, 2 slots, 1 terminal, 2 attempts, 2 calls, 2 fingerprints, 1 resume, 1 fault: a second attempt needs two slots, a stall two reviews with one fingerprint, a replay one fault |
| `task_live` | retries and replans end; the ledger implements `TaskLifecycle` | 1 task of a schedule, 2 attempts, 2 faults, so that a restart meets a row a crash left |
| `goals` | the goal of a board and the turn of a conversation, safety and termination | board: 2 calls, 3 requests, 3 remote ids, task ids modulo 3 (the counter wraps), deadline 2; turn: budget 1 with 1 continuation, 5 messages, 1 input of the user, batches with a repeated call, a fetch and the update of the work |
| `node_safety` | one final result per command, stopped means dead, one process per device | 2 names, 2 devices (one graceful) in any pairing, 2 processes, 2 commands, store faults: a name started again after a crash, a command on each instance |
| `node_live` | close ends what may be forced, deaths are noticed, admitted orphans end | 2 names, each with a device of its own, one graceful, 2 processes: close meets both kinds, in either order |
| `agents` | the records, mail, leases and progress of sub-agents | 2 records, 1 place, a ceiling of 1 that another terminal competes for, 1 message: a queued start, a start under pressure, a place freed by a death |
| `terminal` | messages, timers, stops and switches of conversations | two messages and a kill, or one message and mail; 3 conversations (the first, its task, another), a repeating timer, a queue of 2, 1 command: a message waits behind a turn, a command and a switch |
| `host` | kernel, bus, feedback loop, host processes, release | kernel: 2 runs, 2 call ids and 0, clock 0..2 (an old report meets the next run); bus: 2 users, answers 2 exchanges late; loop: 2 attempts in both languages; processes: 3 pids of 2 lives; release: 3 environments with a session, or 2 with two sessions |
| `simulation` | viewer, engines, scenes | viewer: 2 callers, 2 commands, 2 windows, a crash; engines: 3 threads in 2 workbenches, both backends, bridge restarted once; scenes: 2 threads, 3 bundles, 5 edits that build, turn over and take from a tower, a restart |
| `services` | operator control, keys, memory, rules of triggers and schedules | control: 2 threads, 2 approvals, 2 commands, 2 calls, 2 sub-agents; keys: 2 processes, 2 endpoints, 2 keys, a kill; memory: 2 processes, 3 tasks and jobs, 2 revisions, a kill; rules: 2 tasks of a rule, a fault |
| `task_resume_race` | two terminals resume one task: see below | 2 terminals, 2 resumes |
| `operator_stop` | `/stop` and a sub-agent that waits: see below | 2 threads, 2 sub-agents, 3 calls, in the module of `services` |

`Symmetry` permutes processes, threads, names or commands that the properties treat
alike, `Slots` the agents of the task runs; no liveness property is checked with
either. Runs that turn deadlock checking off have bounds or ends after which nothing
is left to do: the bounded calls are spent, or the owner is dead and its workers
ended.

A property such as `BusIsSound` or `MessagesAreSafe` is the conjunction of a component's
typing and its safety properties; its comment says which. Liveness and action
properties that need their own fairness stand alone.

### What the violations show

Two runs show a disagreement between the code and what its documents or its own
checks say:

* `task_resume_race`: `resume` refuses a running task (`core/tasks.py:179`), but it checks in
  one transaction and writes `queued` in another that is conditional on the final
  states only. With two terminals a running row is queued again and a second
  attempt starts beside the first.
* `operator_stop`: `/stop` cancels the sub-agents that are running; one that waits for a
  place is passed over and starts afterwards, though `docs/CONTROL_SURFACE.md:67`
  says that sub-tasks are cancelled.

The other findings have no run of their own and are reproduced by a configuration
kept here (`tlc -config <cfg> <module>` ends with the counterexample):

| Configuration, module | Property | What happens |
|---|---|---|
| `MCTaskRuntime_wake_race.cfg` | `TerminalIsFinal` | without an enabled schedule `fire_events` selects the task of a rule outside a transaction and wakes it unconditionally: a task cancelled in between runs again |
| `MCTaskRuntime_safety.cfg` with `MessageIsGiven` for `MessageReachesWorker` | `MessageIsGiven` | a prompt that would be too long with the feedback is built with the review alone: the message of a resume is left out, though `docs/TASK_RUNTIME.md:54` says that the new sub-agent receives the feedback |
| `MCNodeRuntime_device.cfg` | `DeviceOwnerRuns` | `start` asks twice whether the node of a name is alive; one that dies in between is replaced without being reaped, and its device stays owned for good |
| `MCNodeRuntime_device.cfg` with `StoreFaults = TRUE` | `StoppedCanRestart` | reaping marks the node first and frees its device last; if the evidence store cannot be opened in between, the device is never freed |
| `ReleaseUpdate_interrupt.cfg` | `UpdateKeepsWorking` | an interrupt between the commit and the end of its `try` block undoes the environment the record now names |
| `MCTerminalLoop_mail.cfg` | `MailStaysHome` | the mailbox is not divided by conversation: after a switch the new conversation takes the mail of the old one |
| `ProviderSetup_keys.cfg` | `NoKeyIsDropped` | two migrations of keys without a lock: the second replaces `config.json` by what it read before the first |
| `Learning_suspend.cfg` | `FailureSuspends` | a verdict reached before a newer failure was recorded is written after it: the suspended procedure is offered again |
| `MCSimulation_lost.cfg` | `CurrentIsKept` | of two compositions of one scene the second to publish drops what the first added |

`task_safety` therefore has one terminal that resumes waiting tasks, the use the
documentation describes, and the theorems state the assumption they need.

### Fairness

* `TaskRuntime`: the process keeps taking its steps and is started again after a stop
  (`WF` of `Start` and of each place of the loop); plan mode is left again and again
  (`SF` of `Begin(TRUE)`); resources are granted again and again (`SF` of `Launch`); an attempt
  ends at the latest by its timeout (`SF` of `WorkerEnds(a, "timed_out")`), which the
  broker enforces by killing the worker; a backoff elapses. Terminals are only
  fair in finishing a resume they began.
* `NodeRuntime`: `WF` of the operation that holds the lock, whose waits all have a timeout;
  of the supervisor thread, which comes back every 50 ms; of a worker's exits,
  because its loop and its wait for admission turn every 20 ms; and of the death
  of a process that got `SIGKILL`. A command of a service has no fairness: it may
  take for ever.
* `AgentBroker`: `WF` of the broker's own steps and of the polls, which the interface makes in
  the background; of the end of other terminals' leases; of the passing of time;
  and of the end of a worker whose pipe is closed.
* `EdgeAgent`: `WF` of `run_goal`, whose only waits are network calls with a timeout. Neither
  the clock nor Ctrl-C is fair: termination rests on the budgets alone.
* `ModelTurn`: `WF` of the thread of the turn; requests and tools have timeouts.
* `TerminalLoop`: `WF` of the poll loop and of the close; `SF` of the return of a command
  handed to a thread, whose continuation competes with the steps of the loop; `WF`
  of the end of a turn, which `ModelTurn` shows for bounded turns.

## 4. The proofs

The theorems hold for every value of the constants that meets the assumptions
named in the modules (`ASSUME`), which say that bounds are natural numbers and that a
marker such as `Nothing` is none of the things it marks the absence of. Each invariant
was checked by TLC first. Every proof has the same shape: the inductive invariant
is a conjunction of named parts; lemmas say what the operators of the model do to
one record; one lemma per action (or per kind of action) shows that each part is
kept; a last temporal step puts them together.

**The task ledger (`TaskRuntimeProofs`).** `TypeCorrect` is proved from `TypeInv`, which adds to
`TypeOK` that a handler in progress has an attempt (`HandlesAttempt`): a handler writes
into the record of `cur`, and without the fact the record could be `None`.
`TerminalRowsAreFinal` and `CancellationIsPrompt` need `WakesAreSafe` (a schedule is enabled,
or no task belongs to a trigger). That is a hypothesis on the configuration, and
`MCTaskRuntime_wake_race.cfg` shows that it cannot be dropped: the wake-up of
`fire_events` is an UPDATE without a condition. `CancellationIsPrompt` adds `LateCalls`: the
counter of tools after a cancellation is 0 until the one call that had passed
`before_tool` is dispatched.

**Attempts (the second half of `TaskRuntimeProofs`).** `RunningRowsAreOwned` has no hypothesis: a row says running
only while somebody has it or the supervisor is down. `AttemptsAreExclusive`,
`LostAttemptsAreNotReplayed` and `SuccessIsEarned` need `[]ResumesAreCurrent`: no resume is about
to write over a running row. The run `task_resume_race` violates exclusiveness when
two terminals break it, so the theorems say that this race is the only way to
break them, whatever crashes, faults and cancellations interleave. `LoneResumesAreCurrent`
shows that the hypothesis follows from the constants when one terminal resumes
waiting tasks and no trigger wakes them, or nobody resumes (`ResumesAlone`), and
`LoneResumesAreSafe` states the properties for these configurations. There the message of
a resume arrives as well (`MessagesReachWorkers`): `MessageKept` follows it through the row, the
rows a scan has read and what the next resume has read and will write back. With two
terminals it is false, since the scan may overwrite the message by the feedback it read
before; and a row that cannot be launched gives it up for the reason (`ScanUnlaunchable`). `Attempts` says
why exclusiveness is kept: a scan launches from the rows it read, so a task still
listed has no attempt and a row that is ready or final (`ListedIsIdle`); a task with an
attempt is running or final, so that nobody lists, resumes or wakes it
(`BusyIsRunning`); a task whose attempt died with effects waits for an observation
(`DirtyWaits`). `LedgerImplementsLifecycle` is the refinement: with current resumes and safe
wakes each step of the detailed system is a step of `TaskLifecycle`, or a stutter;
`LoneResumesImplementLifecycle` discharges the first hypothesis as above.

**Rules and budgets (the end of `TaskRuntimeProofs`).** `LedgerIsAlwaysSound` adds to owned rows, and needs
no hypothesis either: not even the races above give a rule a second unfinished task or
a task more attempts than its policy allows. `Selected` says what keeps the first: between the `SELECT` that finds
a rule without an active task and the transaction that submits or wakes one, nothing
else makes a task of the rule active, and if the task that was found ends in
between it is the one that is woken. `Budgets` relates the attempts since the last
resume to those on the row (`Spent`), and to what a launch (`Listed`) and the end of an
attempt (`Reviewed`) have read and will write back: a resume that came in between
began a newer budget, which the stale one does not extend. The proof needed one
exception: a task cancelled after the scan read its row is
launched all the same, and that attempt is in no budget. The row is final and nothing
but the wake-up of its rule brings it back, with a budget of its own.

**The kernel (`AgentMethodLemmas`, `HostProofs`, `GoalsProofs`).** `AgentMethodLemmas` says what each
method does to a record; both other modules rest on it. `HostProofs` adds `SentCalls`
to the properties: a receipt is matched by session, task and call id only, so that
it belongs to this run and to the tool in the context has to follow from what was
dispatched - task ids are new in a run, call ids grow within one. The invariant of
`GoalsProofs` ties the place of `run_goal` to the state of the kernel (`Agrees`), keeps the
check of the goal and what was read (`CheckKept`), and says when a Ctrl-C can still
be unheard (`Waiting`).

**The turn of a conversation (`GoalsProofs`).** `TurnsAreAlwaysSound` covers `TurnsAreSound`. `PairsComplete`
looks at the moment of a request only, while most of what can break it happens
elsewhere, so `Contexts` says of every moment that the context is paired once the
calls that are left have their receipts: `msgs` followed by as many receipts as `plan` has
calls. A batch then opens a debt (`PairedWithBatch`), each receipt pays one
(`OneReceiptLess`), a skip pays the rest, and words of the user come only when none is
left. The lemma about `fit` is `PairedWithout`: the oldest batch has only words in
front of it, what `fit` takes for its end is its last receipt because a context
without stray receipts has no others there, and both halves stay paired. `Budgets`
says that a budget is a whole number of segments, and `Current` that a plan was made on
all that has joined. The assumption `TurnAssumption` gives types only: the model may
answer with any sequence of calls.

**The node runtime (`NodeRuntimeProofs`).** `DeviceExclusive` says that no two live processes share a
device although `MCNodeRuntime_device.cfg` shows that the table of devices may be
wrong. `NodeInv` says how much of it is right: the device of a node that is *not reaped*
is entered under its name (`Held`), a registered instance knows its name (`Named`), every
live process is registered except the one between its start and its registration
(`Known`), and what `start` found free stays free until it registers (`Spawning`). A wrong
entry then only keeps a device from use. `NodesSound` rests on `CommandInv`: a command is
pending from the moment it is sent until its result is read, and in between it is
in one place, the pipe to the worker, the worker's hands or the pipe back; what was
sent is told once or pending.

**The broker (`DelegationProofs`).** `BrokerSound` covers the conjunction the run `agents` checks: each end is
announced once, a receipt says which mail was handed over, and every live worker
whose row was moved to it keeps its place under the ceiling of all terminals. `BrokerInv` says what a record is at each state
of its process and pipe, and what the start in progress still holds: the hard part
is a start that raises after the process was launched, whose process must die and
whose row must go, unless the record already runs.

**The operator (`ServicesProofs`).** `ControlSound` covers `ControlIsSound`. `Approvals` follows an approval
through its life: at most one thread has it, it waits until the end of its
execution, and nothing has begun on its strength before its thread moves or ends.
`Standstill`: from the first step of `/stop` on the motion is stopped, so that a call that
passed the gate before finds it stopped. `NodeRules`: a tool of nodes has `nodes.lock` from
its check to its end; a command that enforces the rules takes that lock too and so
meets no start that was checked against older rules.

**Memory (`ServicesProofs`).** `MemoryIsAlwaysSound` is the property the run `services` checks, an
invariant and a step property: memory never goes back. `MemoryInv` relates what a job
carries from one transaction to the next to what the file says by then. `MemoryCarried`:
what was read is no newer than what is stored, so that the later time wins whichever
process saves last. `MemoryBehind`: as long as no process was stopped, a success that is
not in memory has a process on its way there, about to read it again or to save it.
`MemoryEarned`: a run that counts as verified is of a task that was verified, and a
promotion has three of them behind it; its lemma `MemoryReady` turns "the newest three
runs" into three tasks, since a task has one run of a recipe. The typing, `MemoryRows`,
has the uniqueness of attempts that a repeated report must not break.

**Keys and profiles (`ServicesProofs`).** `KeysAreAlwaysSound` is the invariant of the run. `SetupSaves`
says what a save has in hand at each of its three steps: while no two saves
overlapped, at most one process saves, what it read is still what the file says, what
it writes has every key that is found, and before the old file goes the new one has
them all. A crash at any step then leaves every key where it is found. Without the
condition `~raced` it is false: the finding of `ProviderSetup_keys.cfg` is two saves that do overlap.
`SetupPassed` and `SetupReached` carry the answer of an endpoint from the check of a
connection to the profile that shows it, across a save that comes between. The
theorem assumes `SetupAssumption`: endpoints are numbered from 1 on, there is at least
one endpoint, model and key, and a key is not empty. `Min` and `Max` of the models choose
from finite sets of numbers; the two lemmas `LeastExists` and `GreatestExists` get what they
choose from the well-foundedness of `<`, because induction is out of reach.

**Scenes (`DelegationProofs`).** `ScenesSound` is the invariant of the run `simulation`. `ScenesStand` says that each
object stands on one that is there, down to the floor, and two objects could stand on
each other; `Grounded` is the inductive form: in every group of objects one stands on
what is outside the group. `compose` refuses what would break it, item by item: it
removes nothing that carries what stays, adds under a new name, and moves only what
carries nothing. `SceneAssumption` states what `validate_edit` refuses before that
(`toolchain/composition.py:63`, an object that supports itself), and that no object has
the name of the floor, which every scene contains (`composition.py:276` refuses a name
that is there). What a terminal comes back with had been published because only
published scenes enter the saved state and its temporary file (`Standing`).

**The viewer (`DelegationProofs`).** `ViewerTrue` covers `ReportsAreTrue` and the action property `NoLateStart`. The
ready file is read long after it was written; it stays true because a command is
applied once and for good (`TrueCommand`, `TrueMotion`). `Posted` and `Handled` say that a
command in the inbox or in the hands of the worker has not been dealt with, that nobody
was told that it has, and that no caller waits for a window of that number; a command
whose caller gave up is either out of the inbox or known to be late before the worker
can start it.

**Demonstrations (`DelegationProofs`).** `BenchSound` is the invariant of the run. A recording makes two
requests and then five for each of its rows; behind the bridge a caller may give up on any
of them, and it is carried out all the same, later. `Queueing` orders what waits: a request somebody still waits for is
the last one on its instance. So once a recording has its first answer nothing older
is left that could act on the instance (`Quiet`), nobody else can make a request while
it has the lock of its workbench (`Locked`), and the clock of the engine is what the
recording saw, plus one after its own action (`Timed`). That a replaced bridge or one
that went to another instance answers with an error ends a recording and never
joins two lives of an engine in one. `Handing`, what each workbench has acted on, rests on `Holding`: an
instance is entered where it was made, and names are new.

**The terminal (`TerminalLoopProofs`).** `TerminalIsSafe` covers `MessagesAreSafe`. The properties relate what is in
memory to what is on disk, and neither is inductive alone. `Disk` says what the files
hold: a message sent belongs to one conversation, waits in it or is recorded there,
and a draft is not sent yet. `Live` says how memory differs from the file of the
current conversation while the process is up: the queue in memory is the *end* of the
one on disk, since a message popped for a turn is not saved at once, and whatever the
file stores waits, is recorded, or is in the hands of the turn; a turn that has ended
has recorded what it was given (`TurnKept`). A switch adopts a file only after it saved
the old one, so the two never mix. The proof refuted the first form of
`TimersSettle`, which asked of every job that it runs exactly while a timer's turn is
pending, and so only fitted one job. The run `terminal` has one job - with two it has about
1.9 million states - and the theorem covers any number.

**What is close to the machine (`HostProofs`).** `Host` instantiates each part with the
constants of the run `host`, so the theorems are about the formulas TLC checks.

* The bus, `BusInv`: `PortKept` says that the lock belongs to the user who is past it
  and that only such a user can make the port exclusive. `Commands` says that a
  motor takes the command of a request at most once, and none whose request is not
  reserved. While a call is in progress, `Line` says of every answer on the line that
  it is one of the exchanges of this call, as far back as its lag; `CallKept` says
  that what the call got is what it asked for. An answer may be at most two
  exchanges late (`BusAssumption`): an answer is known by its length only, mode and
  torque have one length, and the two exchanges `ping` and model stand between the
  torque of a call that failed and the mode of the next. Within one call the answers
  keep their order, so that with the mode everything before it has left the line.
* The feedback loop, `LoopInv`: `Recorded` counts the targets the body was given against
  the intents in the store at each place of the loop, in both languages; `Attempted`
  says what the record of the attempt holds there. `PassIsEarned` follows at the two
  places where a result is returned.
* The processes, `ProcessInv`: a pid may be handed out again at any step. What the caller
  has seen, asked and opened is related to the *life* of the process, not to its pid; a
  handle opened before the second look keeps to its life, so that a signal after that
  look can only reach the process that was inspected.
* The release, `ReleaseInv`: what an operation is at each step is related to the record,
  the environments, the commands and the backups (`OperationKept`, `CommandsKept`).
  `MaintenanceIsAlwaysAlone` needs no hypothesis. `ReleaseIsAlwaysSound` adds that every
  failure leaves a release that works, if `Interrupts = FALSE`: no interrupt arrives
  between the commit and the end of its `try` block. `ReleaseUpdate_interrupt.cfg` shows
  that this hypothesis cannot be dropped, so the theorem says that this window is the
  only one.

What is only model-checked:

* Liveness under fairness (`AttemptsEnd`, `GoalEnds`, `BoundedTurnsEnd`, `CloseReaps`,
  `DeathIsNoticed`, `AdmittedOrphansEnd`, `RunsEnd`, `QueueMoves`, `SwitchHappens`): the proof system has
  no rules for `ENABLED`.
* `RulesAreKept` of the run `services` is `LedgerIsSound` for the constants of a trigger and of a
  schedule: it has no theorem of its own, `LedgerIsAlwaysSound` covers every choice.

## 5. What is left

Not modelled, with the reason (`PROJECT.json` names the files):

* Geometry, kinematics, model assets, numerical review: their correctness is
  numerical, not a matter of steps. The models keep what the control flow
  compares: a verdict, a tolerance met or not, what stands on what.
* Rendering, completion, markdown, titles: no behaviour over time.
* Carriers, ROS bridge, discovery, web, media, user tools: one call each into a
  device, a network or a library whose behaviour the code does not fix.
* Contracts, deployment manifest, key-value store: data classes and validation.
* Installation, publishing and website scripts: run once by a maintainer.

Left out within modelled parts: `task_service.refresh_model`, the delivery of reports
and the start of a background service that meets one which stops; the choice of
the node lease, the age of heartbeats (a command may be refused at any time) and
failures of the event log; the probes of the resource manager; streaming and the
text of a compaction; the display commands of the operator; downloads and
signatures of releases; the discovery of motors and the write of their ids.

Theorems worth proving next: the steps of `TaskLifecycle` under trigger tasks, whose
wake-up is unconditional.
