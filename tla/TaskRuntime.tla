---------------------------- MODULE TaskRuntime ----------------------------
(***************************************************************************)
(* The persistent task ledger (core/tasks.py, TaskStore) and the           *)
(* supervisor that repeats subprocess attempts until the acceptance checks *)
(* hold (terminal/task_supervisor.py, TaskSupervisor).                     *)
(*                                                                         *)
(* The ledger is a SQLite file shared by the supervisor process and by any *)
(* number of terminals.  A TaskStore method that runs one transaction is   *)
(* one action; a method that reads in one transaction and writes in a      *)
(* later one (resume, poll, _finish, fire_events) is cut at that point, so *)
(* that terminals interleave with it.                                      *)
(*                                                                         *)
(* An attempt occupies one of the Agents (policy max_workers slots).  What *)
(* its receipts show of an acceptance check set is a verdict: "pass" or    *)
(* the fingerprint of the findings.                                        *)
(***************************************************************************)
EXTENDS Naturals

CONSTANTS
  Tasks,            \* task identities
  Origin,           \* [Tasks -> {"manual", "trigger", "schedule"}]
  Agents,           \* the slots for concurrent attempts (max_workers)
  Clients,          \* terminals that may resume a task
  CheckSets,        \* acceptance conditions a task may be given
  Prints,           \* fingerprints of reviews that did not pass
  Unseen,           \* the fingerprint of a review of no receipts
  NoChecks, None,
  ScheduleEnabled,  \* an enabled schedule opens fire_events' transaction
  ResumeFrom,       \* the states of a task a user asks to resume it from
  MaxAttempts, MaxReplans, StalledAttempts,    \* the policy
  MaxCalls,         \* bound: tool requests per attempt
  MaxResumes,       \* bound: explicit resumes in a behaviour
  MaxFaults         \* bound: stops, crashes and exceptions in a behaviour

ASSUME ConstantsAssumption ==
  /\ Origin \in [Tasks -> {"manual", "trigger", "schedule"}]
  /\ Unseen \in Prints /\ "pass" \notin Prints
  /\ NoChecks \notin CheckSets
  /\ None \notin Tasks \cup Agents \cup Prints \cup CheckSets \cup {"pass", NoChecks}
  /\ ScheduleEnabled \in BOOLEAN
  /\ MaxAttempts \in Nat \ {0} /\ StalledAttempts \in Nat \ {0}
  /\ MaxReplans \in Nat /\ MaxCalls \in Nat
  /\ MaxResumes \in Nat /\ MaxFaults \in Nat

VARIABLES
  tasks,      \* table tasks: one row per identity
  stopReq,    \* runtime row "stop_requested"
  signal,     \* an unconsumed row of table triggers (bound: one at a time)
  pc,         \* where the supervisor process is
  back,       \* where poll() of the broker returns to: "poll" or "scan"
  launching,  \* poll(launch): may this iteration start attempts?
  todo,       \* finished agents to settle, or tasks left in the scan
  snap,       \* rows the supervisor read and still acts on
  cur,        \* the agent whose tool request or end is being handled
  job,        \* self.running, round_receipts and the broker's record
  cli,        \* a terminal between the read and the write of resume
  resumes, faults,      \* counters of the bounds
  used, dirty, owed, late   \* history, see below

store == <<tasks, stopReq, signal>>
supervisor == <<pc, back, launching, todo, snap, cur, job>>
history == <<used, dirty, owed, late>>
vars == <<store, supervisor, cli, resumes, faults, history>>

Terminal == {"succeeded", "cancelled"}
Waiting == {"waiting_input", "waiting_acceptance", "waiting_observation"}
Ready == {"queued", "retry_wait"}
States == Terminal \cup Waiting \cup Ready \cup {"none", "running"}
Verdicts == Prints \cup {"pass"}

(* The keys of the feedback column the control flow reads; Blank is a      *)
(* feedback object that has none of them.                                  *)
Feedback == [budget: Nat, replans: Nat, print: Verdicts \cup {None}, same: Nat,
             needsReplan: BOOLEAN, stop: {"no", "stalled", "budget"},
             input: BOOLEAN, busy: BOOLEAN]
Blank == [budget |-> 0, replans |-> 0, print |-> None, same |-> 0,
          needsReplan |-> FALSE, stop |-> "no", input |-> FALSE, busy |-> FALSE]
Row == [state: States, checks: CheckSets \cup {NoChecks}, attempt: Nat,
        due: BOOLEAN, fb: Feedback]
Absent == [state |-> "none", checks |-> NoChecks, attempt |-> 0,
           due |-> TRUE, fb |-> Blank]

(* input: the message of a resume is in the prompt, or was cut from it.    *)
Job == [task: Tasks, replan: BOOLEAN, input: {"none", "given", "cut"},
        st: {"running", "done", "failed", "timed_out", "cancelled"},
        intents: Nat, receipts: Nat, denied: BOOLEAN,
        report: {"none", "continue", "needs_input"},
        proposal: CheckSets \cup {NoChecks}, ev: [CheckSets -> Verdicts]]
(* A prompt that would be too long with the feedback (fits = FALSE) holds  *)
(* its review only.                                                        *)
NewJob(t, s, fits) ==
  [task |-> t, replan |-> s.fb.needsReplan,
   input |-> IF ~s.fb.input THEN "none" ELSE IF fits THEN "given" ELSE "cut",
   st |-> "running", intents |-> 0, receipts |-> 0, denied |-> FALSE,
   report |-> "none", proposal |-> NoChecks,
   ev |-> [k \in CheckSets |-> Unseen]]

ASSUME NoneIsNoJob == None \notin Job

(* What a terminal read in the first transaction of resume.  *)
ClientRead == [task: Tasks, attempt: Nat, fb: Feedback, input: BOOLEAN,
               checks: CheckSets \cup {NoChecks, None}]

Busy == {a \in Agents : job[a] # None}
WorkingOn(t) == {a \in Busy : job[a].task = t}

TypeOK ==
  /\ tasks \in [Tasks -> Row]
  /\ stopReq \in BOOLEAN /\ signal \in BOOLEAN
  /\ pc \in {"down", "top", "poll", "call", "ran", "settle", "commit",
             "fire", "fired", "list", "scan"}
  /\ back \in {"poll", "scan"} /\ launching \in BOOLEAN
  /\ todo \subseteq Tasks \cup Agents
  /\ snap \in [Tasks -> Row]
  /\ cur \in Agents \cup Tasks \cup {None}
  /\ job \in [Agents -> Job \cup {None}]
  /\ cli \in [Clients -> ClientRead \cup {None}]
  /\ resumes \in Nat /\ faults \in Nat
  /\ used \in [Tasks -> Nat] /\ late \in [Tasks -> Nat]
  /\ dirty \subseteq Tasks /\ owed \subseteq Tasks

Init ==
  /\ tasks = [t \in Tasks |-> Absent]
  /\ stopReq = FALSE /\ signal = FALSE
  /\ pc = "down" /\ back = "poll" /\ launching = FALSE
  /\ todo = {} /\ snap = [t \in Tasks |-> Absent] /\ cur = None
  /\ job = [a \in Agents |-> None]
  /\ cli = [c \in Clients |-> None]
  /\ resumes = 0 /\ faults = 0
  (* used[t]: attempts since t was last resumed; dirty: tasks with an      *)
  (* attempt that died after a tool intent and were not resumed since;     *)
  (* owed: tasks resumed with a message and neither attempted nor found    *)
  (* unlaunchable since; late[t]: tools dispatched for t while its row     *)
  (* says cancelled.                                                       *)
  /\ used = [t \in Tasks |-> 0] /\ late = [t \in Tasks |-> 0]
  /\ dirty = {} /\ owed = {}

(***************************************************************************)
(* TaskStore: one transaction each.  fire_events with an enabled schedule  *)
(* holds the database's write lock from its first INSERT to its commit.    *)
(***************************************************************************)
WriteLocked == ScheduleEnabled /\ pc = "fired"

(* Mutant of Updated: the UPDATE without its WHERE state NOT IN clause.  *)
UpdatedAlways(row, s, f, due) ==
  [row EXCEPT !.state = s, !.fb = f, !.due = due]

(* TaskStore.update: never overwrites a terminal row.  *)
Updated(row, s, f, due) ==
  IF row.state \in Terminal THEN row
  ELSE [row EXCEPT !.state = s, !.fb = f, !.due = due]

Update(t, s, f, due) ==
  tasks' = [tasks EXCEPT ![t] = Updated(@, s, f, due)]

Submit(t) ==
  /\ Origin[t] = "manual" /\ tasks[t].state = "none" /\ ~WriteLocked
  /\ \E k \in CheckSets \cup {NoChecks} :
       tasks' = [tasks EXCEPT ![t] = [Absent EXCEPT !.state = "queued", !.checks = k]]
  /\ UNCHANGED <<stopReq, signal, supervisor, cli, resumes, faults, history>>

(* cancel: get, which only needs the row to exist, then the guarded update. *)
Cancel(t) ==
  /\ tasks[t].state \notin Terminal \cup {"none"} /\ ~WriteLocked
  /\ Update(t, "cancelled", Blank, TRUE)
  /\ UNCHANGED <<stopReq, signal, supervisor, cli, resumes, faults, history>>

Signal ==
  /\ \E t \in Tasks : Origin[t] = "trigger"
  /\ ~signal /\ ~WriteLocked
  /\ signal' = TRUE
  /\ UNCHANGED <<tasks, stopReq, supervisor, cli, resumes, faults, history>>

(* Mutant of Resumable: resume does not refuse a running task.  *)
ResumableRunning(row) == row.state \in ResumeFrom \cup {"running"}

(* Completed and cancelled tasks and running ones cannot be resumed.  *)
Resumable(row) == row.state \in ResumeFrom \ (Terminal \cup {"none", "running"})

(* Mutant of ResumedFeedback: the message is not kept.  *)
ResumedMute(r) ==
  [r.fb EXCEPT !.needsReplan = FALSE, !.replans = 0, !.print = None, !.same = 0,
               !.stop = "no", !.budget = r.attempt]

(* A new budget starts and the stall is forgotten.  *)
ResumedFeedback(r) ==
  [r.fb EXCEPT !.needsReplan = FALSE, !.replans = 0, !.print = None, !.same = 0,
               !.stop = "no", !.budget = r.attempt, !.input = @ \/ r.input]

(* resume, first transaction: the row is read and the request refused or   *)
(* kept.  k = None leaves the checks alone, m says a message came with it. *)
ResumeRead(c, t) ==
  /\ cli[c] = None /\ resumes < MaxResumes
  /\ Resumable(tasks[t])
  /\ \E k \in CheckSets \cup {NoChecks, None}, m \in BOOLEAN :
       /\ m \/ k \in CheckSets \/ tasks[t].checks # NoChecks
       /\ cli' = [cli EXCEPT ![c] = [task |-> t, attempt |-> tasks[t].attempt,
                                     fb |-> tasks[t].fb, checks |-> k, input |-> m]]
  /\ resumes' = resumes + 1
  /\ UNCHANGED <<store, supervisor, faults, history>>

(* resume, the spec transaction: an UPDATE without a condition on state.   *)
ResumeSpec(c) ==
  /\ cli[c] # None /\ cli[c].checks # None /\ ~WriteLocked
  /\ tasks' = [tasks EXCEPT ![cli[c].task].checks = cli[c].checks]
  /\ cli' = [cli EXCEPT ![c].checks = None]
  /\ UNCHANGED <<stopReq, signal, supervisor, resumes, faults, history>>

(* resume, last transaction: queued, whatever the row says by now unless   *)
(* it is terminal, with the feedback that was read less the stall keys.    *)
ResumeWrite(c) ==
  LET r == cli[c]
  IN /\ r # None /\ r.checks = None /\ ~WriteLocked
     /\ Update(r.task, "queued", ResumedFeedback(r), TRUE)
     /\ cli' = [cli EXCEPT ![c] = None]
     /\ IF tasks[r.task].state \in Terminal
          THEN UNCHANGED history
          ELSE /\ used' = [used EXCEPT ![r.task] = 0]
               /\ dirty' = dirty \ {r.task}
               /\ owed' = IF r.input THEN owed \cup {r.task} ELSE owed
               /\ UNCHANGED late
     /\ UNCHANGED <<stopReq, signal, supervisor, resumes, faults>>

(* Time: the due time of a row passes.  *)
Elapse(t) ==
  /\ ~tasks[t].due
  /\ tasks' = [tasks EXCEPT ![t].due = TRUE]
  /\ UNCHANGED <<stopReq, signal, supervisor, cli, resumes, faults, history>>

(***************************************************************************)
(* The supervisor process.                                                 *)
(***************************************************************************)
RequestStop ==
  /\ ~stopReq /\ pc # "down" /\ faults < MaxFaults /\ ~WriteLocked
  /\ stopReq' = TRUE /\ faults' = faults + 1
  /\ UNCHANGED <<tasks, signal, supervisor, cli, resumes, history>>

(* Mutants of Recovered: an interrupted task is queued again, or kept.  *)
RecoveredQueued(row) == Updated(row, "queued", Blank, TRUE)
RecoveredNot(row) == row

Recovered(row) == Updated(row, "waiting_observation", Blank, TRUE)

(* start() and TaskSupervisor.__init__: rows left "running" by a process   *)
(* that is gone wait for an explicit resume.                               *)
Start ==
  /\ pc = "down"
  /\ stopReq' = FALSE /\ pc' = "top"
  /\ tasks' = [t \in Tasks |->
        IF tasks[t].state = "running"
          THEN Recovered(tasks[t]) ELSE tasks[t]]
  /\ UNCHANGED <<signal, back, launching, todo, snap, cur, job, cli, resumes, faults, history>>

(* The attempts that die with the process, and their tasks among those     *)
(* with a recorded tool intent.                                            *)
ProcessGone ==
  /\ pc' = "down" /\ back' = "poll" /\ launching' = FALSE
  /\ todo' = {} /\ snap' = [t \in Tasks |-> Absent] /\ cur' = None
  /\ job' = [a \in Agents |-> None]
  /\ dirty' = dirty \cup {job[a].task : a \in {b \in Busy : job[b].intents > 0}}
  /\ UNCHANGED <<signal, cli, resumes, used, owed, late>>

(* close(): every attempt still in self.running (the one being settled has *)
(* left it) is killed and its task told to wait.                           *)
Close ==
  /\ tasks' = [t \in Tasks |->
        IF \E a \in WorkingOn(t) : ~(pc = "commit" /\ a = cur)
          THEN Recovered(tasks[t]) ELSE tasks[t]]
  /\ ProcessGone
  /\ UNCHANGED stopReq

(* The loop sees stop_requested.  *)
Stop == pc = "top" /\ stopReq /\ Close /\ UNCHANGED faults

(* An exception (database busy, process or file error) leaves the loop     *)
(* through its finally clause; the open transaction is rolled back.        *)
Fault ==
  /\ pc \in {"top", "poll", "settle", "commit", "fire", "fired", "list", "scan"}
  /\ faults < MaxFaults /\ faults' = faults + 1
  /\ Close

(* The process is killed: nothing is written.  *)
Crash ==
  /\ pc # "down" /\ faults < MaxFaults /\ faults' = faults + 1
  /\ ProcessGone
  /\ UNCHANGED <<tasks, stopReq>>

(* One iteration of the loop begins.  Agents of cancelled tasks are        *)
(* cancelled; in plan mode (go = FALSE) every agent is.                    *)
Begin(go) ==
  /\ pc = "top" /\ ~stopReq
  /\ pc' = "poll" /\ back' = "poll" /\ launching' = go
  /\ job' = [a \in Agents |->
        IF a \in Busy /\ (~go \/ tasks[job[a].task].state = "cancelled")
          THEN [job[a] EXCEPT !.st = "cancelled"] ELSE job[a]]
  /\ UNCHANGED <<store, todo, snap, cur, cli, resumes, faults, history>>

(***************************************************************************)
(* The broker's poll(): messages of the worker processes, one after the    *)
(* other.  spawn() polls too, so they are also taken during the scan.      *)
(***************************************************************************)
Polling == pc \in {"poll", "scan"}

(* A worker returned, raised, disconnected or ran out of time.  *)
WorkerEnds(a, st) ==
  /\ Polling /\ a \in Busy /\ job[a].st = "running"
  /\ job' = [job EXCEPT ![a].st = st]
  /\ UNCHANGED <<store, pc, back, launching, todo, snap, cur, cli, resumes, faults, history>>

MayCall(a) ==
  /\ Polling /\ a \in Busy /\ job[a].st = "running"
  /\ job[a].intents < MaxCalls /\ job[a].receipts < MaxCalls

(* after_tool: a receipt, and what the receipts so far show of each check  *)
(* set; a refusal has error_type PermissionError.                          *)
Shown(j, v) == [j EXCEPT !.receipts = @ + 1, !.ev = v]
Denied(j, v) == [Shown(j, v) EXCEPT !.denied = TRUE]

(* before_tool refuses: a tool outside the role, a cancelled task, or a    *)
(* stop.  The refusal is a receipt without an intent.                      *)
ToolRefused(a) ==
  /\ MayCall(a)
  /\ \E v \in [CheckSets -> Prints] :
       job' = [job EXCEPT ![a] = Denied(job[a], v)]
  /\ UNCHANGED <<store, pc, back, launching, todo, snap, cur, cli, resumes, faults, history>>

(* Mutant of MayRun: the ledger is not read again before a call.  *)
MayRunStale(t) == ~stopReq

MayRun(t) == tasks[t].state # "cancelled" /\ ~stopReq

(* before_tool has read the row and the stop flag and lets the call pass.  *)
ToolAllowed(a) ==
  /\ MayCall(a)
  /\ MayRun(job[a].task)
  /\ pc' = "call" /\ back' = pc /\ cur' = a
  /\ UNCHANGED <<store, launching, todo, snap, job, cli, resumes, faults, history>>

(* before_tool's event: the intent is on disk, the tool is about to run.   *)
ToolIntent ==
  /\ pc = "call"
  /\ pc' = "ran"
  /\ job' = [job EXCEPT ![cur].intents = @ + 1]
  /\ late' = IF tasks[job[cur].task].state = "cancelled"
               THEN [late EXCEPT ![job[cur].task] = @ + 1] ELSE late
  /\ UNCHANGED <<store, back, launching, todo, snap, cur, cli, resumes, faults, used, dirty, owed>>

(* The event cannot be written: the tool does not run, and the error is    *)
(* the receipt.                                                            *)
ToolIntentFails ==
  /\ pc = "call"
  /\ pc' = back /\ cur' = None
  /\ \E v \in [CheckSets -> Prints] :
       job' = [job EXCEPT ![cur] = Shown(job[cur], v)]
  /\ UNCHANGED <<store, back, launching, todo, snap, cli, resumes, faults, history>>

(* The tool ran and after_tool records the receipt r.  *)
Receipt(r) ==
  /\ pc = "ran"
  /\ pc' = back /\ cur' = None
  /\ job' = [job EXCEPT ![cur] = r]
  /\ UNCHANGED <<store, back, launching, todo, snap, cli, resumes, faults, history>>

(* A tool observed or changed the world: the review may now see anything.  *)
ToolResult ==
  \E v \in [CheckSets -> Verdicts] :
    Receipt(Shown(job[cur], v))

(* The tool's own gate refused (PermissionError from dispatch).  *)
ToolDenied ==
  \E v \in [CheckSets -> Prints] :
    Receipt(Denied(job[cur], v))

(* task_feedback, with or without proposed checks.  *)
TaskFeedback ==
  \E r \in {"continue", "needs_input"}, k \in CheckSets \cup {NoChecks} :
    Receipt([job[cur] EXCEPT !.receipts = @ + 1, !.report = r,
                             !.proposal = IF k = NoChecks THEN @ ELSE k])

(* after_tool raises before it keeps the receipt.  *)
ToolUnobserved == Receipt(job[cur])

PollDone ==
  /\ pc = "poll"
  /\ pc' = "settle"
  /\ todo' = {a \in Busy : job[a].st # "running"}
  /\ UNCHANGED <<store, back, launching, snap, cur, job, cli, resumes, faults, history>>

(***************************************************************************)
(* finish(agent): the row is read, proposed checks are defined once, the   *)
(* receipts are reviewed, and the row is updated in a later transaction.   *)
(***************************************************************************)
MayDefine(a) ==
  LET row == tasks[job[a].task]
  IN /\ row.checks = NoChecks /\ row.state \notin Terminal
     /\ Origin[job[a].task] = "manual" /\ job[a].proposal # NoChecks

Reviewing(a) ==
  LET t == job[a].task IN
  /\ pc = "settle" /\ a \in todo
  /\ pc' = "commit" /\ cur' = a /\ todo' = todo \ {a}
  /\ \/ /\ MayDefine(a)
        /\ tasks' = [tasks EXCEPT ![t].checks = job[a].proposal]
     \/ UNCHANGED tasks    \* nothing proposed, or it needs ungranted tools
  /\ snap' = [snap EXCEPT ![t] = tasks'[t]]
  /\ UNCHANGED <<stopReq, signal, back, launching, job, cli, resumes, faults, history>>

(* Mutant of Interrupted: every failed attempt is retried.  *)
InterruptedRetried(j) == "retry_wait"

(* Mutant of Interrupted: a state the ledger does not know.  *)
InterruptedMistyped(j) == IF j.intents = 0 THEN "retry_wait" ELSE "waiting_effects"

(* An attempt that failed or timed out is retried only if it ran no tool.  *)
Interrupted(j) == IF j.intents = 0 THEN "retry_wait" ELSE "waiting_observation"

OutOfReplans(fb) == fb.replans >= MaxReplans

(* Mutant of Verdict: the checks proposed by the worker are reviewed.  *)
VerdictProposed(j, checks) ==
  IF j.proposal # NoChecks THEN j.ev[j.proposal]
  ELSE IF checks = NoChecks THEN "inconclusive" ELSE j.ev[checks]

Verdict(j, checks) == IF checks = NoChecks THEN "inconclusive" ELSE j.ev[checks]

(* What _finish makes of attempt j of a task whose row it read as s: the   *)
(* early returns in their order.                                           *)
Settlement(j, s) ==
  LET v == Verdict(j, s.checks)
      kept == [Blank EXCEPT !.budget = s.fb.budget, !.replans = s.fb.replans,
                            !.print = s.fb.print, !.same = s.fb.same]
      repeats == IF s.fb.print = v THEN s.fb.same + 1 ELSE 1
      seen == [kept EXCEPT !.print = v, !.same = repeats]
      To(state, fb) == [state |-> state, fb |-> fb]
  IN IF v = "pass" /\ j.intents <= j.receipts THEN To("succeeded", kept)
     ELSE IF j.st \in {"timed_out", "failed"}
       THEN To(Interrupted(j), kept)
     ELSE IF j.denied \/ j.report = "needs_input" THEN To("waiting_input", kept)
     ELSE IF j.replan
       THEN To("retry_wait", [kept EXCEPT !.replans = @ + 1])
     ELSE IF s.checks = NoChecks THEN To("waiting_acceptance", kept)
     ELSE IF repeats < StalledAttempts THEN To("retry_wait", seen)
     ELSE IF OutOfReplans(s.fb)
       THEN To("waiting_input", [seen EXCEPT !.stop = "stalled"])
     ELSE To("retry_wait", [seen EXCEPT !.needsReplan = TRUE])

Settle ==
  LET j == job[cur]
      t == j.task
      s == snap[t]
      o == Settlement(j, s)
  IN /\ pc = "commit"
     /\ IF s.state = "cancelled" THEN UNCHANGED tasks
        ELSE Update(t, o.state, o.fb, o.state # "retry_wait")
     /\ dirty' = IF j.st \in {"timed_out", "failed"} /\ j.intents > 0
                   THEN dirty \cup {t} ELSE dirty
     /\ job' = [job EXCEPT ![cur] = None]
     /\ snap' = [snap EXCEPT ![t] = Absent]
     /\ pc' = "settle" /\ cur' = None
     /\ UNCHANGED <<stopReq, signal, back, launching, todo, cli, resumes, faults, used, owed, late>>

SettleDone ==
  /\ pc = "settle" /\ todo = {}
  /\ pc' = IF launching THEN "fire" ELSE "top"
  /\ UNCHANGED <<store, back, launching, todo, snap, cur, job, cli, resumes, faults, history>>

(***************************************************************************)
(* fire_events.  A rule has at most one unfinished task.  With an enabled  *)
(* schedule everything happens in one write transaction; otherwise the     *)
(* SELECT of the rule's active task precedes the transaction that the      *)
(* first UPDATE opens.                                                     *)
(***************************************************************************)
(* Mutant of Active: a waiting task does not count as outstanding.  *)
ActiveRunning(origin) ==
  {t \in Tasks : Origin[t] = origin /\ tasks[t].state \in Ready \cup {"running"}}

Active(origin) == {t \in Tasks : Origin[t] = origin /\ tasks[t].state \notin Terminal \cup {"none"}}
Fresh(origin) == {t \in Tasks : Origin[t] = origin /\ tasks[t].state = "none"}

FireIdle ==
  /\ pc = "fire" /\ ~signal /\ ~ScheduleEnabled
  /\ pc' = "list"
  /\ UNCHANGED <<store, back, launching, todo, snap, cur, job, cli, resumes, faults, history>>

FireSelect ==
  /\ pc = "fire" /\ (signal \/ ScheduleEnabled)
  /\ pc' = "fired"
  /\ \/ Active("trigger") = {} /\ cur' = None /\ UNCHANGED snap
     \/ \E t \in Active("trigger") : cur' = t /\ snap' = [snap EXCEPT ![t] = tasks[t]]
  /\ UNCHANGED <<store, back, launching, todo, job, cli, resumes, faults, history>>

(* enqueue_configured creates a task (bound: while identities last) or     *)
(* wakes the active one, by an UPDATE without a condition on its state.    *)
Created(origin, wanted) ==
  IF wanted /\ Fresh(origin) # {} THEN {{t} : t \in Fresh(origin)} ELSE {{}}

Wakes(t) == signal /\ t = cur /\ snap[t].state \in {"waiting_input", "retry_wait"}

(* Every row that was selected is marked consumed.  *)
SignalAfter == FALSE

FireApply ==
  /\ pc = "fired"
  /\ \E new \in Created("trigger", signal /\ cur = None),
        due \in {{}} \cup Created("schedule", ScheduleEnabled /\ Active("schedule") = {}),
        k \in CheckSets \cup {NoChecks} :
       tasks' = [t \in Tasks |->
         IF t \in new \cup due THEN [Absent EXCEPT !.state = "queued", !.checks = k]
         ELSE IF Wakes(t) THEN [tasks[t] EXCEPT !.state = "queued", !.due = TRUE]
         ELSE tasks[t]]
  /\ signal' = SignalAfter
  /\ pc' = "list" /\ cur' = None /\ snap' = [t \in Tasks |-> Absent]
  /\ UNCHANGED <<stopReq, back, launching, todo, job, cli, resumes, faults, history>>

(***************************************************************************)
(* The scan of poll(): rows were read once, before the first is handled.   *)
(***************************************************************************)
(* Mutant of ScanList: a retry is never listed.  *)
ScanListQueued ==
  /\ pc = "list"
  /\ pc' = "scan"
  /\ snap' = tasks
  /\ todo' = {t \in Tasks : tasks[t].state = "queued" /\ tasks[t].due}
  /\ UNCHANGED <<store, back, launching, cur, job, cli, resumes, faults, history>>

ScanList ==
  /\ pc = "list"
  /\ pc' = "scan"
  /\ snap' = tasks
  /\ todo' = {t \in Tasks : tasks[t].state \in Ready /\ tasks[t].due}
  /\ UNCHANGED <<store, back, launching, cur, job, cli, resumes, faults, history>>

Free == Agents \ Busy

Scanned(t) == todo' = todo \ {t} /\ pc' = pc

OutOfBudget(s) == s.attempt >= s.fb.budget + MaxAttempts

ScanExhausted(t) ==
  /\ pc = "scan" /\ t \in todo /\ Free # {} /\ OutOfBudget(snap[t])
  /\ Update(t, "waiting_input", [snap[t].fb EXCEPT !.stop = "budget"], TRUE)
  /\ Scanned(t)
  /\ UNCHANGED <<stopReq, signal, back, launching, snap, cur, job, cli, resumes, faults, history>>

(* Another provider, an ungranted check tool, or a goal that is too long:  *)
(* the reason replaces the feedback, and a message of a resume with it.    *)
ScanUnlaunchable(t) ==
  /\ pc = "scan" /\ t \in todo /\ Free # {} /\ ~OutOfBudget(snap[t])
  /\ Update(t, "waiting_input", Blank, TRUE)
  /\ Scanned(t)
  /\ owed' = owed \ {t}
  /\ UNCHANGED <<stopReq, signal, back, launching, snap, cur, job, cli, resumes, faults, used, dirty, late>>

(* ResourceBusy: the reason is noted once, and the scan ends.  *)
ScanBusy(t) ==
  /\ pc = "scan" /\ t \in todo /\ Free # {} /\ ~OutOfBudget(snap[t])
  /\ IF snap[t].fb.busy THEN UNCHANGED tasks
     ELSE Update(t, snap[t].state, [snap[t].fb EXCEPT !.busy = TRUE], TRUE)
  /\ todo' = {} /\ UNCHANGED pc
  /\ UNCHANGED <<stopReq, signal, back, launching, snap, cur, job, cli, resumes, faults, history>>

(* The worker process is spawned, then the row is updated from the rows    *)
(* read at the start of the scan.                                          *)
Launch(t, a) ==
  /\ pc = "scan" /\ t \in todo /\ a \in Free /\ ~OutOfBudget(snap[t])
  /\ \E fits \in BOOLEAN : job' = [job EXCEPT ![a] = NewJob(t, snap[t], fits)]
  /\ tasks' = [tasks EXCEPT ![t] =
       IF @.state \in Terminal THEN @
       ELSE [@ EXCEPT !.state = "running", !.due = TRUE, !.attempt = snap[t].attempt + 1,
                      !.fb = [snap[t].fb EXCEPT !.busy = FALSE]]]
  /\ Scanned(t)
  /\ used' = [used EXCEPT ![t] = @ + 1]
  /\ owed' = owed \ {t}
  /\ UNCHANGED <<stopReq, signal, back, launching, snap, cur, cli, resumes, faults, dirty, late>>

ScanDone ==
  /\ pc = "scan" /\ (todo = {} \/ Free = {})
  /\ pc' = "top" /\ todo' = {} /\ snap' = [t \in Tasks |-> Absent]
  /\ UNCHANGED <<store, back, launching, cur, job, cli, resumes, faults, history>>

-----------------------------------------------------------------------------
Terminals ==
  \/ \E t \in Tasks : Submit(t) \/ Cancel(t) \/ Elapse(t)
  \/ \E c \in Clients : ResumeSpec(c) \/ ResumeWrite(c)
  \/ \E c \in Clients, t \in Tasks : ResumeRead(c, t)
  \/ Signal \/ RequestStop

Process == Start \/ Stop \/ Fault \/ Crash \/ \E go \in BOOLEAN : Begin(go)

Broker ==
  \/ \E a \in Agents : ToolRefused(a) \/ ToolAllowed(a)
  \/ \E a \in Agents, st \in {"done", "failed", "timed_out"} : WorkerEnds(a, st)
  \/ ToolIntent \/ ToolIntentFails \/ ToolResult \/ ToolDenied \/ TaskFeedback \/ ToolUnobserved
  \/ PollDone

Finish == (\E a \in Agents : Reviewing(a)) \/ Settle \/ SettleDone

Scan ==
  \/ FireIdle \/ FireSelect \/ FireApply \/ ScanList \/ ScanDone
  \/ \E t \in Tasks : ScanExhausted(t) \/ ScanUnlaunchable(t) \/ ScanBusy(t)
  \/ \E t \in Tasks, a \in Agents : Launch(t, a)

Next == Terminals \/ Process \/ Broker \/ Finish \/ Scan

Spec == Init /\ [][Next]_vars

-----------------------------------------------------------------------------
(***************************************************************************)
(* Properties.                                                             *)
(***************************************************************************)

(* poll() never runs two worker processes on one task: resume refuses a    *)
(* running task ("Task already running"), and a scan launches ready ones.  *)
OneAttemptPerTask ==
  \A a, b \in Busy : job[a].task = job[b].task => a = b

(* A row never stays "running" without an attempt while the supervisor     *)
(* lives: nothing would ever move it again.                                *)
RunningIsOwned ==
  pc # "down" => \A t \in Tasks : tasks[t].state = "running" => WorkingOn(t) # {}

(* An attempt that was interrupted after a tool intent is not replayed     *)
(* until somebody resumes the task explicitly.                             *)
NoBlindReplay == \A a \in Busy : job[a].task \notin dirty

(* Retries, replans, wake-ups and failures between two explicit resumes    *)
(* share one budget of attempts.                                           *)
AttemptBudget == \A t \in Tasks : used[t] <= MaxAttempts

(* Once a cancellation is committed, at most the one call that before_tool *)
(* had already let pass still reaches its tool.                            *)
CancelStopsTools == \A t \in Tasks : late[t] <= 1

(* fire_events keeps one unfinished task per rule.  *)
OneTaskPerRule ==
  \A t, u \in Tasks : Origin[t] = Origin[u] /\ Origin[t] # "manual"
      /\ {tasks[t].state, tasks[u].state} \cap (Terminal \cup {"none"}) = {} => t = u

(* Whatever fires, fails, stops and restarts: a row that says running has  *)
(* its worker, a rule has one unfinished task at a time, and a task has no *)
(* more attempts between two explicit resumes than the policy.             *)
LedgerIsSound == RunningIsOwned /\ OneTaskPerRule /\ AttemptBudget

(* A succeeded or cancelled task stays so.  *)
TerminalIsFinal ==
  [][\A t \in Tasks : tasks[t].state \in Terminal => tasks'[t].state = tasks[t].state]_vars

(* A task succeeds only when the receipts of an attempt at it satisfy the  *)
(* checks the row holds at that moment, with no intent left unanswered.    *)
SuccessIsVerified ==
  [][\A t \in Tasks :
       tasks[t].state # "succeeded" /\ tasks'[t].state = "succeeded" =>
         \E a \in WorkingOn(t) :
           /\ tasks[t].checks \in CheckSets
           /\ job[a].ev[tasks[t].checks] = "pass"
           /\ job[a].intents <= job[a].receipts]_vars

(* The first attempt after "resume with a message" finds the message in    *)
(* the feedback, whatever stops and fails between; its prompt may be cut.  *)
MessageReachesWorker ==
  [][\A a \in Agents : job[a] = None /\ job'[a] # None =>
       (job'[a].task \in owed => job'[a].input # "none")]_vars

(* "The new sub-agent receives this feedback": that attempt is given the   *)
(* message.  It does not hold; a long feedback is left out of the prompt.  *)
MessageIsGiven ==
  [][\A a \in Agents : job[a] = None /\ job'[a] # None =>
       (job'[a].task \in owed => job'[a].input = "given")]_vars

(***************************************************************************)
(* Refinement: the rows of the ledger implement TaskLifecycle.             *)
(***************************************************************************)
PhaseOf(state) ==
  CASE state \in Ready -> "ready"
    [] state \in Waiting -> "waiting"
    [] OTHER -> state

Lifecycle == INSTANCE TaskLifecycle WITH
  phase <- [t \in Tasks |-> PhaseOf(tasks[t].state)],
  unknown <- [t \in Tasks |-> t \in dirty /\ tasks[t].state \notin Terminal]

(* Every step of terminals, supervisor, crashes and restarts is a step of  *)
(* the promised task lifecycle.                                            *)
ImplementsLifecycle == Lifecycle!Spec

-----------------------------------------------------------------------------
(***************************************************************************)
(* Fairness: the process keeps running its loop (Start: somebody starts a  *)
(* service that stopped); a backoff ends; plan mode is left again and      *)
(* again; an attempt ends at the latest by its timeout; resources are      *)
(* granted to a task again and again (the scan takes the row that waited   *)
(* longest first, so no task is passed over for ever).                     *)
(***************************************************************************)
Fairness ==
  /\ WF_vars(Start) /\ WF_vars(Stop) /\ SF_vars(Begin(TRUE))
  /\ \A t \in Tasks : WF_vars(Elapse(t))
  /\ \A c \in Clients : WF_vars(ResumeSpec(c)) /\ WF_vars(ResumeWrite(c))
  /\ \A a \in Agents : SF_vars(WorkerEnds(a, "timed_out"))
  /\ WF_vars(ToolIntent) /\ WF_vars(ToolResult) /\ WF_vars(PollDone)
  /\ WF_vars(\E a \in Agents : Reviewing(a)) /\ WF_vars(Settle) /\ WF_vars(SettleDone)
  /\ WF_vars(FireIdle) /\ WF_vars(FireSelect) /\ WF_vars(FireApply)
  /\ WF_vars(ScanList) /\ WF_vars(ScanDone)
  /\ \A t \in Tasks : SF_vars(ScanExhausted(t)) /\ SF_vars(\E a \in Agents : Launch(t, a))

FairSpec == Spec /\ Fairness

(* The automatic loop of retries and replans ends: a task that was         *)
(* submitted or resumed reaches a state that is final or needs somebody.   *)
AttemptsEnd ==
  \A t \in Tasks : tasks[t].state \in Ready \cup {"running"}
                   ~> tasks[t].state \in Waiting \cup Terminal

(* A signal is consumed, whatever faults happen around its transaction.    *)
SignalConsumed == signal ~> ~signal
=============================================================================
