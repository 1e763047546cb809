------------------------- MODULE TaskRuntimeProofs -------------------------
(***************************************************************************)
(* Theorems about TaskRuntime, for any tasks, slots, terminals, check sets *)
(* and policy.  Each invariant is proved from an inductive strengthening,  *)
(* one step per action of Next.                                            *)
(***************************************************************************)
EXTENDS TaskRuntime, TLAPS

-----------------------------------------------------------------------------
(* The operators on rows and attempts stay within their types.             *)
LEMMA BlankType == Blank \in Feedback /\ Absent \in Row
  BY ConstantsAssumption DEF Blank, Feedback, Absent, Row, States, Terminal, Waiting, Ready

LEMMA UpdatedType ==
  ASSUME NEW row \in Row, NEW s \in States, NEW f \in Feedback, NEW due \in BOOLEAN
  PROVE  Updated(row, s, f, due) \in Row
  BY DEF Updated, Row

LEMMA FeedbackType ==
  ASSUME NEW f \in Feedback
  PROVE  /\ [f EXCEPT !.stop = "budget"] \in Feedback
         /\ [f EXCEPT !.busy = TRUE] \in Feedback
         /\ [f EXCEPT !.busy = FALSE] \in Feedback
  BY DEF Feedback

LEMMA ChecksType ==
  ASSUME NEW row \in Row, NEW k \in CheckSets \cup {NoChecks}
  PROVE  [row EXCEPT !.checks = k] \in Row
  BY DEF Row

LEMMA RecoveredType == ASSUME NEW row \in Row PROVE Recovered(row) \in Row
  BY BlankType, UpdatedType DEF Recovered, States, Waiting

LEMMA NewJobType ==
  ASSUME NEW t \in Tasks, NEW s \in Row, NEW fits \in BOOLEAN
  PROVE  NewJob(t, s, fits) \in Job /\ NewJob(t, s, fits).task = t
  <1>1. s.fb.needsReplan \in BOOLEAN /\ s.fb.input \in BOOLEAN
    BY DEF Row, Feedback
  <1>2. [k \in CheckSets |-> Unseen] \in [CheckSets -> Verdicts]
    BY ConstantsAssumption DEF Verdicts
  <1> QED BY <1>1, <1>2 DEF NewJob, Job

LEMMA ResumedType ==
  ASSUME NEW r, r.fb \in Feedback, r.attempt \in Nat, r.input \in BOOLEAN
  PROVE  ResumedFeedback(r) \in Feedback
  BY DEF ResumedFeedback, Feedback

(* What the handlers of an attempt write to its record, field by field and *)
(* then together.                                                          *)
LEMMA JobFieldType ==
  ASSUME NEW j \in Job
  PROVE  /\ j.task \in Tasks
         /\ \A st \in {"done", "failed", "timed_out", "cancelled"} :
              [j EXCEPT !.st = st] \in Job
         /\ [j EXCEPT !.intents = @ + 1] \in Job
         /\ [j EXCEPT !.receipts = @ + 1] \in Job
         /\ [j EXCEPT !.denied = TRUE] \in Job
         /\ \A v \in [CheckSets -> Verdicts] : [j EXCEPT !.ev = v] \in Job
         /\ \A r \in {"continue", "needs_input"} : [j EXCEPT !.report = r] \in Job
         /\ \A k \in CheckSets \cup {NoChecks} : [j EXCEPT !.proposal = k] \in Job
         /\ j.proposal \in CheckSets \cup {NoChecks}
  <1>1. j.task \in Tasks /\ j.proposal \in CheckSets \cup {NoChecks}
    BY DEF Job
  <1>2. ASSUME NEW st \in {"done", "failed", "timed_out", "cancelled"}
        PROVE  [j EXCEPT !.st = st] \in Job
    BY DEF Job
  <1>3. [j EXCEPT !.intents = @ + 1] \in Job /\ [j EXCEPT !.receipts = @ + 1] \in Job
    BY DEF Job
  <1>4. [j EXCEPT !.denied = TRUE] \in Job
    BY DEF Job
  <1>5. ASSUME NEW v \in [CheckSets -> Verdicts] PROVE [j EXCEPT !.ev = v] \in Job
    BY DEF Job
  <1>6. ASSUME NEW r \in {"continue", "needs_input"} PROVE [j EXCEPT !.report = r] \in Job
    BY DEF Job
  <1>7. ASSUME NEW k \in CheckSets \cup {NoChecks} PROVE [j EXCEPT !.proposal = k] \in Job
    BY DEF Job
  <1> QED BY <1>1, <1>2, <1>3, <1>4, <1>5, <1>6, <1>7

LEMMA JobType ==
  ASSUME NEW j \in Job
  PROVE  /\ \A v \in [CheckSets -> Verdicts] : Shown(j, v) \in Job /\ Denied(j, v) \in Job
         /\ \A r \in {"continue", "needs_input"}, k \in CheckSets \cup {NoChecks} :
              [j EXCEPT !.receipts = @ + 1, !.report = r,
                        !.proposal = IF k = NoChecks THEN @ ELSE k] \in Job
  <1> DEFINE j1 == [j EXCEPT !.receipts = @ + 1]
  <1>1. j1 \in Job
    BY JobFieldType
  <1>2. ASSUME NEW v \in [CheckSets -> Verdicts]
        PROVE  Shown(j, v) \in Job /\ Denied(j, v) \in Job
    <2> HIDE DEF j1
    <2>1. [j1 EXCEPT !.ev = v] \in Job
      BY <1>1, JobFieldType
    <2>2. Shown(j, v) \in Job
      BY <2>1 DEF j1, Shown
    <2> QED BY <2>2, JobFieldType DEF Denied
  <1>3. ASSUME NEW r \in {"continue", "needs_input"}, NEW k \in CheckSets \cup {NoChecks}
        PROVE  [j EXCEPT !.receipts = @ + 1, !.report = r,
                         !.proposal = IF k = NoChecks THEN @ ELSE k] \in Job
    <2> DEFINE p == IF k = NoChecks THEN j.proposal ELSE k
    <2>1. p \in CheckSets \cup {NoChecks}
      BY JobFieldType
    <2> HIDE DEF j1, p
    <2>2. [j1 EXCEPT !.report = r] \in Job
      BY <1>1, JobFieldType
    <2>3. [[j1 EXCEPT !.report = r] EXCEPT !.proposal = p] \in Job
      BY <2>1, <2>2, JobFieldType
    <2> QED BY <2>3 DEF j1, p
  <1> QED BY <1>2, <1>3

LEMMA ViewType == [CheckSets -> Prints] \subseteq [CheckSets -> Verdicts]
  BY DEF Verdicts

(* A settlement names a state of the ledger and a feedback for it.         *)
LEMMA SettlementType ==
  ASSUME NEW j \in Job, NEW s \in Row
  PROVE  /\ Settlement(j, s).state \in States
         /\ Settlement(j, s).fb \in Feedback
         /\ Settlement(j, s).state # "none"
  <1> DEFINE v == Verdict(j, s.checks)
             kept == [Blank EXCEPT !.budget = s.fb.budget, !.replans = s.fb.replans,
                                   !.print = s.fb.print, !.same = s.fb.same]
             repeats == IF s.fb.print = v THEN s.fb.same + 1 ELSE 1
             seen == [kept EXCEPT !.print = v, !.same = repeats]
  <1>1. kept \in Feedback
    BY DEF Row, Feedback, Blank
  <1>2. repeats \in Nat
    BY DEF Row, Feedback
  <1>3. ASSUME s.checks # NoChecks PROVE v \in Verdicts
    BY <1>3 DEF Verdict, Row, Job
  <1>4. ASSUME s.checks # NoChecks PROVE seen \in Feedback
    <2> HIDE DEF kept, repeats, v
    <2> QED BY <1>1, <1>2, <1>3, <1>4 DEF Feedback
  <1>5. [kept EXCEPT !.replans = @ + 1] \in Feedback
    <2> HIDE DEF kept
    <2> QED BY <1>1 DEF Feedback
  <1>6. ASSUME s.checks # NoChecks
        PROVE  /\ [seen EXCEPT !.stop = "stalled"] \in Feedback
               /\ [seen EXCEPT !.needsReplan = TRUE] \in Feedback
    <2>1. seen \in Feedback BY <1>4, <1>6
    <2> HIDE DEF seen
    <2> QED BY <2>1 DEF Feedback
  <1>7. {"succeeded", "retry_wait", "waiting_input", "waiting_acceptance",
         "waiting_observation"} \subseteq States \ {"none"}
    BY DEF States, Terminal, Waiting, Ready
  <1>8. Interrupted(j) \in {"retry_wait", "waiting_observation"}
    BY DEF Interrupted
  <1> HIDE DEF kept, repeats, seen, v
  <1> DEFINE To(state, fb) == [state |-> state, fb |-> fb]
  <1>9. Settlement(j, s) =
          IF v = "pass" /\ j.intents <= j.receipts THEN To("succeeded", kept)
          ELSE IF j.st \in {"timed_out", "failed"} THEN To(Interrupted(j), kept)
          ELSE IF j.denied \/ j.report = "needs_input" THEN To("waiting_input", kept)
          ELSE IF j.replan THEN To("retry_wait", [kept EXCEPT !.replans = @ + 1])
          ELSE IF s.checks = NoChecks THEN To("waiting_acceptance", kept)
          ELSE IF repeats < StalledAttempts THEN To("retry_wait", seen)
          ELSE IF OutOfReplans(s.fb) THEN To("waiting_input", [seen EXCEPT !.stop = "stalled"])
          ELSE To("retry_wait", [seen EXCEPT !.needsReplan = TRUE])
    BY DEF Settlement, kept, repeats, seen, v
  <1> QED BY <1>1, <1>4, <1>5, <1>6, <1>7, <1>8, <1>9

-----------------------------------------------------------------------------
(* TypeOK is not inductive: the handlers write to job[cur], so while a     *)
(* handler is under way cur must be a slot that is occupied, and the slots *)
(* left to settle must be occupied, other than the one being settled.      *)
HandlesAttempt ==
  /\ pc \in {"call", "ran", "commit"} => cur \in Busy
  /\ pc = "settle" => todo \subseteq Busy
  /\ pc = "commit" => todo \subseteq Busy \ {cur}

TypeInv == TypeOK /\ HandlesAttempt

LEMMA InitTypeInv == Init => TypeInv
  <1> SUFFICES ASSUME Init PROVE TypeInv
    OBVIOUS
  <1>1. /\ tasks \in [Tasks -> Row] /\ snap \in [Tasks -> Row]
        /\ job \in [Agents -> Job \cup {None}]
        /\ used \in [Tasks -> Nat] /\ late \in [Tasks -> Nat]
    BY BlankType DEF Init
  <1>2. cli \in [Clients -> ClientRead \cup {None}]
    BY DEF Init, ClientRead
  <1> QED BY <1>1, <1>2 DEF Init, TypeInv, TypeOK, HandlesAttempt

LEMMA TerminalsTypeInv == TypeInv /\ Terminals => TypeInv'
  <1> SUFFICES ASSUME TypeInv, Terminals PROVE TypeInv'
    OBVIOUS
  <1> USE DEF TypeInv, TypeOK, HandlesAttempt, Busy, store, supervisor, history, ClientRead
  <1>1. ASSUME NEW t \in Tasks, Submit(t) PROVE TypeInv'
    <2>1. \A k \in CheckSets \cup {NoChecks} :
            [Absent EXCEPT !.state = "queued", !.checks = k] \in Row
      BY BlankType DEF Row, States, Ready
    <2>2. PICK k \in CheckSets \cup {NoChecks} :
            tasks' = [tasks EXCEPT ![t] = [Absent EXCEPT !.state = "queued", !.checks = k]]
      BY <1>1 DEF Submit
    <2>3. tasks' \in [Tasks -> Row]
      BY <2>1, <2>2
    <2> QED BY <1>1, <2>3 DEF Submit
  <1>2. ASSUME NEW t \in Tasks, Cancel(t) PROVE TypeInv'
    <2>1. Updated(tasks[t], "cancelled", Blank, TRUE) \in Row
      BY BlankType, UpdatedType DEF States, Terminal
    <2> QED BY <1>2, <2>1 DEF Cancel, Update
  <1>3. ASSUME NEW t \in Tasks, Elapse(t) PROVE TypeInv'
    <2>1. \A row \in Row : [row EXCEPT !.due = TRUE] \in Row
      BY DEF Row
    <2> QED BY <1>3, <2>1 DEF Elapse
  <1>4. ASSUME NEW c \in Clients, ResumeSpec(c) PROVE TypeInv'
    <2>1. /\ cli[c].task \in Tasks /\ cli[c].checks \in CheckSets \cup {NoChecks}
          /\ [cli[c] EXCEPT !.checks = None] \in ClientRead
      BY <1>4 DEF ResumeSpec
    <2>2. [tasks[cli[c].task] EXCEPT !.checks = cli[c].checks] \in Row
      BY <2>1 DEF Row
    <2>3. tasks' \in [Tasks -> Row]
      BY <1>4, <2>1, <2>2 DEF ResumeSpec
    <2>4. cli' \in [Clients -> ClientRead \cup {None}]
      BY <1>4, <2>1 DEF ResumeSpec
    <2> QED BY <1>4, <2>3, <2>4 DEF ResumeSpec
  <1>5. ASSUME NEW c \in Clients, ResumeWrite(c) PROVE TypeInv'
    <2>1. cli[c].task \in Tasks /\ ResumedFeedback(cli[c]) \in Feedback
      BY <1>5, ResumedType DEF ResumeWrite
    <2>2. Updated(tasks[cli[c].task], "queued", ResumedFeedback(cli[c]), TRUE) \in Row
      BY <2>1, UpdatedType DEF States, Ready
    <2>3. tasks' \in [Tasks -> Row] /\ cli' \in [Clients -> ClientRead \cup {None}]
      BY <1>5, <2>1, <2>2 DEF ResumeWrite, Update
    <2>4. used' \in [Tasks -> Nat] /\ late' = late /\ dirty' \subseteq Tasks /\ owed' \subseteq Tasks
      BY <1>5, <2>1 DEF ResumeWrite
    <2> QED BY <1>5, <2>3, <2>4 DEF ResumeWrite
  <1>6. ASSUME NEW c \in Clients, NEW t \in Tasks, ResumeRead(c, t) PROVE TypeInv'
    <2>1. tasks[t].attempt \in Nat /\ tasks[t].fb \in Feedback
      BY DEF Row
    <2> QED BY <1>6, <2>1 DEF ResumeRead
  <1>7. CASE Signal
    BY <1>7 DEF Signal
  <1>8. CASE RequestStop
    BY <1>8 DEF RequestStop
  <1> QED BY <1>1, <1>2, <1>3, <1>4, <1>5, <1>6, <1>7, <1>8 DEF Terminals

LEMMA ProcessTypeInv == TypeInv /\ Process => TypeInv'
  <1> SUFFICES ASSUME TypeInv, Process PROVE TypeInv'
    OBVIOUS
  <1> USE DEF TypeInv, TypeOK, HandlesAttempt, Busy, store, supervisor, history
  <1>0. {job[a].task : a \in {b \in Busy : job[b].intents > 0}} \subseteq Tasks
    <2>1. \A a \in Busy : job[a] \in Job
      OBVIOUS
    <2>2. \A a \in Busy : job[a].task \in Tasks
      BY <2>1, JobFieldType
    <2> QED BY <2>2
  <1>1. CASE Start
    <2>1. tasks' \in [Tasks -> Row]
      BY <1>1, RecoveredType DEF Start
    <2> QED BY <1>1, <2>1 DEF Start
  <1>2. ASSUME Close, faults' \in Nat PROVE TypeInv'
    <2>1. tasks' \in [Tasks -> Row]
      BY <1>2, RecoveredType DEF Close
    <2>2. snap' \in [Tasks -> Row] /\ job' \in [Agents -> Job \cup {None}]
      BY <1>2, BlankType DEF Close, ProcessGone
    <2>3. dirty' \subseteq Tasks
      BY <1>0, <1>2 DEF Close, ProcessGone
    <2> QED BY <1>2, <2>1, <2>2, <2>3 DEF Close, ProcessGone
  <1>3. CASE Stop
    BY <1>2, <1>3 DEF Stop
  <1>4. CASE Fault
    BY <1>2, <1>4 DEF Fault
  <1>5. CASE Crash
    <2>1. snap' \in [Tasks -> Row] /\ job' \in [Agents -> Job \cup {None}]
      BY <1>5, BlankType DEF Crash, ProcessGone
    <2>2. dirty' \subseteq Tasks
      BY <1>0, <1>5 DEF Crash, ProcessGone
    <2>3. faults' \in Nat /\ tasks' = tasks /\ stopReq' = stopReq
      BY <1>5 DEF Crash
    <2>4. /\ pc' = "down" /\ back' = "poll" /\ launching' = FALSE /\ todo' = {} /\ cur' = None
          /\ UNCHANGED <<signal, cli, resumes, used, owed, late>>
      BY <1>5 DEF Crash, ProcessGone
    <2> QED BY <2>1, <2>2, <2>3, <2>4
  <1>6. ASSUME NEW go \in BOOLEAN, Begin(go) PROVE TypeInv'
    <2>1. \A a \in Busy : [job[a] EXCEPT !.st = "cancelled"] \in Job
      BY JobFieldType
    <2> QED BY <1>6, <2>1, NoneIsNoJob DEF Begin
  <1> QED BY <1>1, <1>3, <1>4, <1>5, <1>6 DEF Process

LEMMA BrokerTypeInv == TypeInv /\ Broker => TypeInv'
  <1> SUFFICES ASSUME TypeInv, Broker PROVE TypeInv'
    OBVIOUS
  <1> USE DEF TypeInv, TypeOK, HandlesAttempt, Busy, store, supervisor, history
  <1>1. ASSUME NEW a \in Busy, NEW j \in Job, job' = [job EXCEPT ![a] = j],
               pc' \in {"poll", "scan"}, back' \in {"poll", "scan"},
               cur' \in Agents \cup Tasks \cup {None}, late' \in [Tasks -> Nat],
               UNCHANGED <<store, launching, todo, snap, cli, resumes, faults,
                           used, dirty, owed>>
        PROVE  TypeInv'
    BY <1>1, NoneIsNoJob
  <1>2. ASSUME NEW a \in Agents, ToolRefused(a) PROVE TypeInv'
    <2>1. a \in Busy /\ job[a] \in Job
      BY <1>2 DEF ToolRefused, MayCall
    <2>2. PICK v \in [CheckSets -> Prints] : job' = [job EXCEPT ![a] = Denied(job[a], v)]
      BY <1>2 DEF ToolRefused
    <2>3. Denied(job[a], v) \in Job
      BY <2>1, JobType, ViewType
    <2> QED BY <1>1, <1>2, <2>1, <2>2, <2>3 DEF ToolRefused, MayCall, Polling
  <1>3. ASSUME NEW a \in Agents, ToolAllowed(a) PROVE TypeInv'
    BY <1>3 DEF ToolAllowed, MayCall, Polling
  <1>4. ASSUME NEW a \in Agents, NEW st \in {"done", "failed", "timed_out"},
               WorkerEnds(a, st)
        PROVE TypeInv'
    <2>1. a \in Busy /\ [job[a] EXCEPT !.st = st] \in Job
      BY <1>4, JobFieldType DEF WorkerEnds
    <2> QED BY <1>1, <1>4, <2>1 DEF WorkerEnds, Polling
  <1>5. CASE ToolIntent
    <2>1. [job[cur] EXCEPT !.intents = @ + 1] \in Job /\ job[cur].task \in Tasks
      BY <1>5, JobFieldType DEF ToolIntent
    <2> QED BY <1>5, <2>1, NoneIsNoJob DEF ToolIntent
  <1>6. CASE ToolIntentFails
    <2>1. cur \in Busy /\ job[cur] \in Job
      BY <1>6 DEF ToolIntentFails
    <2>2. PICK v \in [CheckSets -> Prints] : job' = [job EXCEPT ![cur] = Shown(job[cur], v)]
      BY <1>6 DEF ToolIntentFails
    <2>3. Shown(job[cur], v) \in Job
      BY <2>1, JobType, ViewType
    <2> QED BY <1>1, <1>6, <2>1, <2>2, <2>3 DEF ToolIntentFails
  <1>7. ASSUME NEW r \in Job, Receipt(r) PROVE TypeInv'
    BY <1>7, <1>1 DEF Receipt
  <1>8. ASSUME pc = "ran" PROVE job[cur] \in Job
    BY <1>8
  <1>9. CASE ToolResult
    BY <1>7, <1>8, <1>9, JobType DEF ToolResult, Receipt
  <1>10. CASE ToolDenied
    BY <1>7, <1>8, <1>10, JobType, ViewType DEF ToolDenied, Receipt
  <1>11. CASE TaskFeedback
    BY <1>7, <1>8, <1>11, JobType DEF TaskFeedback, Receipt
  <1>12. CASE ToolUnobserved
    BY <1>7, <1>8, <1>12 DEF ToolUnobserved, Receipt
  <1>13. CASE PollDone
    BY <1>13 DEF PollDone
  <1> QED BY <1>2, <1>3, <1>4, <1>5, <1>6, <1>9, <1>10, <1>11, <1>12, <1>13 DEF Broker

LEMMA FinishTypeInv == TypeInv /\ Finish => TypeInv'
  <1> SUFFICES ASSUME TypeInv, Finish PROVE TypeInv'
    OBVIOUS
  <1> USE DEF TypeInv, TypeOK, HandlesAttempt, Busy, store, supervisor, history
  <1>1. ASSUME NEW a \in Agents, Reviewing(a) PROVE TypeInv'
    <2>1. a \in Busy /\ job[a] \in Job
      BY <1>1 DEF Reviewing
    <2>2. job[a].task \in Tasks /\ job[a].proposal \in CheckSets \cup {NoChecks}
      BY <2>1, JobFieldType
    <2>3. [tasks[job[a].task] EXCEPT !.checks = job[a].proposal] \in Row
      BY <2>2, ChecksType
    <2>4. tasks' \in [Tasks -> Row]
      BY <1>1, <2>2, <2>3 DEF Reviewing
    <2>5. snap' \in [Tasks -> Row]
      BY <1>1, <2>2, <2>4 DEF Reviewing
    <2> QED BY <1>1, <2>1, <2>4, <2>5 DEF Reviewing
  <1>2. CASE Settle
    <2>1. cur \in Busy /\ job[cur] \in Job /\ job[cur].task \in Tasks
      BY <1>2, JobFieldType DEF Settle
    <2> DEFINE t == job[cur].task
               o == Settlement(job[cur], snap[t])
    <2>2. o.state \in States /\ o.fb \in Feedback
      BY <2>1, SettlementType
    <2>3. Updated(tasks[t], o.state, o.fb, o.state # "retry_wait") \in Row
      BY <2>1, <2>2, UpdatedType
    <2>4. tasks' \in [Tasks -> Row]
      BY <1>2, <2>1, <2>3 DEF Settle, Update
    <2>5. snap' \in [Tasks -> Row] /\ dirty' \subseteq Tasks
      BY <1>2, <2>1, BlankType DEF Settle
    <2>6. job' = [job EXCEPT ![cur] = None] /\ pc' = "settle" /\ cur' = None
      BY <1>2 DEF Settle
    <2>7. UNCHANGED <<stopReq, signal, back, launching, todo, cli, resumes, faults, used, owed, late>>
      BY <1>2 DEF Settle
    <2>8. todo \subseteq Busy \ {cur}
      BY <1>2 DEF Settle
    <2> HIDE DEF t, o
    <2> QED BY <2>1, <2>4, <2>5, <2>6, <2>7, <2>8
  <1>3. CASE SettleDone
    BY <1>3 DEF SettleDone
  <1> QED BY <1>1, <1>2, <1>3 DEF Finish

LEMMA ScanTypeInv == TypeInv /\ Scan => TypeInv'
  <1> SUFFICES ASSUME TypeInv, Scan PROVE TypeInv'
    OBVIOUS
  <1> USE DEF TypeInv, TypeOK, HandlesAttempt, Busy, store, supervisor, history
  <1>1. CASE FireIdle
    BY <1>1 DEF FireIdle
  <1>2. CASE FireSelect
    BY <1>2 DEF FireSelect, Active
  <1>3. CASE FireApply
    <2>1. PICK new \in Created("trigger", signal /\ cur = None),
               due \in {{}} \cup Created("schedule", ScheduleEnabled /\ Active("schedule") = {}),
               k \in CheckSets \cup {NoChecks} :
            tasks' = [t \in Tasks |->
              IF t \in new \cup due THEN [Absent EXCEPT !.state = "queued", !.checks = k]
              ELSE IF Wakes(t) THEN [tasks[t] EXCEPT !.state = "queued", !.due = TRUE]
              ELSE tasks[t]]
      BY <1>3 DEF FireApply
    <2>2. [Absent EXCEPT !.state = "queued", !.checks = k] \in Row
      BY BlankType DEF Row, States, Ready
    <2>3. \A row \in Row : [row EXCEPT !.state = "queued", !.due = TRUE] \in Row
      BY DEF Row, States, Ready
    <2>4. tasks' \in [Tasks -> Row]
      BY <2>1, <2>2, <2>3
    <2>5. snap' \in [Tasks -> Row]
      BY <1>3, BlankType DEF FireApply
    <2> QED BY <1>3, <2>4, <2>5 DEF FireApply, SignalAfter
  <1>4. CASE ScanList
    BY <1>4 DEF ScanList
  <1>5. CASE ScanDone
    BY <1>5, BlankType DEF ScanDone
  <1>6. \A t \in Tasks : snap[t].fb \in Feedback /\ snap[t].state \in States /\ snap[t].attempt \in Nat
    BY DEF Row
  <1>7. ASSUME NEW t \in Tasks, ScanExhausted(t) PROVE TypeInv'
    <2>1. [snap[t].fb EXCEPT !.stop = "budget"] \in Feedback
      BY <1>6, FeedbackType
    <2>2. Updated(tasks[t], "waiting_input", [snap[t].fb EXCEPT !.stop = "budget"], TRUE) \in Row
      BY <2>1, UpdatedType DEF States, Waiting
    <2>3. tasks' \in [Tasks -> Row]
      BY <1>7, <2>2 DEF ScanExhausted, Update
    <2> QED BY <1>7, <2>3 DEF ScanExhausted, Scanned
  <1>8. ASSUME NEW t \in Tasks, ScanUnlaunchable(t) PROVE TypeInv'
    <2>1. Updated(tasks[t], "waiting_input", Blank, TRUE) \in Row
      BY BlankType, UpdatedType DEF States, Waiting
    <2>2. tasks' \in [Tasks -> Row]
      BY <1>8, <2>1 DEF ScanUnlaunchable, Update
    <2> QED BY <1>8, <2>2 DEF ScanUnlaunchable, Scanned
  <1>9. ASSUME NEW t \in Tasks, ScanBusy(t) PROVE TypeInv'
    <2>1. [snap[t].fb EXCEPT !.busy = TRUE] \in Feedback
      BY <1>6, FeedbackType
    <2> DEFINE u == Updated(tasks[t], snap[t].state, [snap[t].fb EXCEPT !.busy = TRUE], TRUE)
    <2>2. u \in Row
      BY <1>6, <2>1, UpdatedType
    <2>3. tasks' \in [Tasks -> Row]
      <3>1. tasks' = tasks \/ tasks' = [tasks EXCEPT ![t] = u]
        BY <1>9 DEF ScanBusy, Update
      <3> HIDE DEF u
      <3> QED BY <2>2, <3>1
    <2> QED BY <1>9, <2>3 DEF ScanBusy
  <1>10. ASSUME NEW t \in Tasks, NEW a \in Agents, Launch(t, a) PROVE TypeInv'
    <2>0. PICK fits \in BOOLEAN : job' = [job EXCEPT ![a] = NewJob(t, snap[t], fits)]
      BY <1>10 DEF Launch
    <2>1. NewJob(t, snap[t], fits) \in Job
      BY NewJobType
    <2>2. [snap[t].fb EXCEPT !.busy = FALSE] \in Feedback
      BY <1>6, FeedbackType
    <2>n. snap[t].attempt + 1 \in Nat
      BY <1>6
    <2>3. tasks' \in [Tasks -> Row]
      <3>1. \A row \in Row, f \in Feedback, n \in Nat :
              [row EXCEPT !.state = "running", !.due = TRUE, !.attempt = n, !.fb = f] \in Row
        BY DEF Row, States
      <3> QED BY <1>10, <2>n, <2>2, <3>1 DEF Launch
    <2>4. used' = [used EXCEPT ![t] = @ + 1]
      BY <1>10 DEF Launch
    <2>5. pc' = "scan" /\ todo' = todo \ {t} /\ owed' \subseteq Tasks
      BY <1>10 DEF Launch, Scanned
    <2>6. UNCHANGED <<stopReq, signal, back, launching, snap, cur, cli, resumes, faults, dirty, late>>
      BY <1>10 DEF Launch
    <2> QED BY <2>0, <2>1, <2>3, <2>4, <2>5, <2>6, NoneIsNoJob
  <1> QED BY <1>1, <1>2, <1>3, <1>4, <1>5, <1>7, <1>8, <1>9, <1>10 DEF Scan

LEMMA StepTypeInv == TypeInv /\ [Next]_vars => TypeInv'
  <1> SUFFICES ASSUME TypeInv, [Next]_vars PROVE TypeInv'
    OBVIOUS
  <1>1. CASE UNCHANGED vars
    BY <1>1 DEF vars, TypeInv, TypeOK, HandlesAttempt, Busy, store, supervisor, history
  <1> QED
    BY <1>1, TerminalsTypeInv, ProcessTypeInv, BrokerTypeInv, FinishTypeInv, ScanTypeInv DEF Next

LEMMA TypeInvariant == Spec => []TypeInv
  BY InitTypeInv, StepTypeInv, PTL DEF Spec

(* Rows, records of attempts and the variables of the supervisor keep      *)
(* their types in every interleaving of terminals, broker and supervisor:  *)
(* a state outside the ledger's vocabulary, or a handler that writes to a  *)
(* slot without an attempt, would break it.                                *)
THEOREM TypeCorrect == Spec => []TypeOK
  <1>1. TypeInv => TypeOK
    BY DEF TypeInv
  <1> QED BY <1>1, TypeInvariant, PTL

-----------------------------------------------------------------------------
(***************************************************************************)
(* Terminal rows.  A wake-up by fire_events is an UPDATE without a         *)
(* condition on the state, so it needs what it read to be still true.      *)
(* That is so in both of these configurations; in the others a terminal    *)
(* may cancel between the SELECT and the UPDATE.                           *)
(***************************************************************************)
WakesAreSafe == ScheduleEnabled \/ \A t \in Tasks : Origin[t] # "trigger"

(* The row fire_events is about to wake is in the state it was read in.    *)
WakeIsFresh ==
  pc = "fired" =>
    /\ ScheduleEnabled \/ cur = None
    /\ \A t \in Tasks : t = cur => snap[t].state = tasks[t].state

RowsAreFinal == \A t \in Tasks : tasks[t].state \in Terminal => tasks'[t].state = tasks[t].state

LEMMA UpdatedFinal ==
  ASSUME NEW row \in Row, NEW s, NEW f, NEW due, row.state \in Terminal
  PROVE  Updated(row, s, f, due).state = row.state /\ Recovered(row).state = row.state
  BY DEF Updated, Recovered

(* Only the fire transaction itself reaches or leaves "fired"; while it is *)
(* open no other process writes a row's state.                             *)
LEMMA StepWakeIsFresh ==
  ASSUME WakesAreSafe, TypeInv, WakeIsFresh, [Next]_vars
  PROVE  WakeIsFresh'
  <1> USE DEF WakeIsFresh, TypeInv, TypeOK
  <1>1. CASE Terminals
    <2> SUFFICES ASSUME pc' = "fired" PROVE WakeIsFresh'
      OBVIOUS
    <2>1. pc = "fired" /\ cur' = cur /\ snap' = snap
      BY <1>1 DEF Terminals, Submit, Cancel, Elapse, ResumeSpec, ResumeWrite, ResumeRead,
                  Signal, RequestStop, supervisor
    <2>2. CASE ScheduleEnabled
      <3>1. \A t \in Tasks : [tasks[t] EXCEPT !.due = TRUE].state = tasks[t].state
        BY DEF Row
      <3>2. \A t \in Tasks : Elapse(t) => \A u \in Tasks : tasks'[u].state = tasks[u].state
        BY <3>1 DEF Elapse
      <3>3. (\E t \in Tasks : Elapse(t)) \/ tasks' = tasks
        BY <1>1, <2>1, <2>2 DEF Terminals, Submit, Cancel, ResumeSpec, ResumeWrite, ResumeRead,
                  Signal, RequestStop, WriteLocked, store
      <3> QED BY <2>1, <2>2, <3>2, <3>3
    <2>3. CASE ~ScheduleEnabled
      BY <2>1, <2>3, ConstantsAssumption
    <2> QED BY <2>2, <2>3
  <1>2. CASE Process
    BY <1>2 DEF Process, Start, Stop, Fault, Crash, Close, ProcessGone, Begin
  <1>3. CASE Broker
    BY <1>3 DEF Broker, ToolRefused, ToolAllowed, MayCall, Polling, WorkerEnds, ToolIntent,
                ToolIntentFails, ToolResult, ToolDenied, TaskFeedback, ToolUnobserved, Receipt,
                PollDone
  <1>4. CASE Finish
    BY <1>4 DEF Finish, Reviewing, Settle, SettleDone
  <1>5. CASE FireSelect
    <2>1. \/ cur' = None
          \/ /\ cur' \in Active("trigger")
             /\ snap' = [snap EXCEPT ![cur'] = tasks[cur']] /\ tasks' = tasks
      BY <1>5 DEF FireSelect, store
    <2>2. CASE cur' = None
      BY <2>2, ConstantsAssumption
    <2>3. CASE cur' \in Active("trigger") /\ snap' = [snap EXCEPT ![cur'] = tasks[cur']]
               /\ tasks' = tasks
      <3>1. ScheduleEnabled
        BY <2>3 DEF WakesAreSafe, Active
      <3> QED BY <2>3, <3>1 DEF Active
    <2> QED BY <2>1, <2>2, <2>3
  <1>6. CASE Scan /\ ~FireSelect
    <2>1. pc' # "fired"
      BY <1>6 DEF Scan, FireIdle, FireApply, ScanList, ScanDone, ScanExhausted, ScanUnlaunchable,
                  ScanBusy, Scanned, Launch
    <2> QED BY <2>1
  <1>7. CASE UNCHANGED vars
    BY <1>7 DEF vars, store, supervisor
  <1> QED BY <1>1, <1>2, <1>3, <1>4, <1>5, <1>6, <1>7 DEF Next

LEMMA StepRowsAreFinal ==
  ASSUME TypeInv, WakeIsFresh, [Next]_vars
  PROVE  RowsAreFinal
  <1> USE DEF TypeInv, TypeOK
  <1>1. ASSUME NEW t \in Tasks, NEW s, NEW f, NEW due, Update(t, s, f, due) PROVE RowsAreFinal
    BY <1>1, UpdatedFinal DEF Update, RowsAreFinal
  <1>2. ASSUME tasks' = tasks PROVE RowsAreFinal
    BY <1>2 DEF RowsAreFinal
  <1>3. ASSUME NEW t \in Tasks, NEW k, tasks' = [tasks EXCEPT ![t].checks = k] PROVE RowsAreFinal
    <2>1. [tasks[t] EXCEPT !.checks = k].state = tasks[t].state
      BY DEF Row
    <2> QED BY <1>3, <2>1 DEF RowsAreFinal
  <1>4. CASE Terminals
    <2>1. ASSUME NEW t \in Tasks, Submit(t) PROVE RowsAreFinal
      <3>1. tasks[t].state = "none" /\ \A u \in Tasks \ {t} : tasks'[u] = tasks[u]
        BY <2>1 DEF Submit
      <3> QED BY <3>1 DEF RowsAreFinal, Terminal
    <2>2. ASSUME NEW t \in Tasks, Cancel(t) PROVE RowsAreFinal
      BY <1>1, <2>2 DEF Cancel
    <2>3. ASSUME NEW t \in Tasks, Elapse(t) PROVE RowsAreFinal
      <3>1. [tasks[t] EXCEPT !.due = TRUE].state = tasks[t].state
        BY DEF Row
      <3> QED BY <2>3, <3>1 DEF Elapse, RowsAreFinal
    <2>4. ASSUME NEW c \in Clients, ResumeSpec(c) PROVE RowsAreFinal
      <3>1. cli[c].task \in Tasks
        BY <2>4 DEF ResumeSpec, ClientRead
      <3> QED BY <1>3, <2>4, <3>1 DEF ResumeSpec
    <2>5. ASSUME NEW c \in Clients, ResumeWrite(c) PROVE RowsAreFinal
      <3>1. cli[c].task \in Tasks
        BY <2>5 DEF ResumeWrite, ClientRead
      <3> QED BY <1>1, <2>5, <3>1 DEF ResumeWrite
    <2> QED
      BY <1>2, <1>4, <2>1, <2>2, <2>3, <2>4, <2>5
      DEF Terminals, ResumeRead, Signal, RequestStop, store
  <1>5. CASE Process
    <2>1. (\A t \in Tasks : tasks'[t] = Recovered(tasks[t]) \/ tasks'[t] = tasks[t])
      BY <1>5 DEF Process, Start, Stop, Fault, Crash, Close, ProcessGone, Begin, store
    <2> QED BY <2>1 DEF RowsAreFinal, Recovered, Updated
  <1>6. CASE Broker
    BY <1>2, <1>6 DEF Broker, ToolRefused, ToolAllowed, WorkerEnds, ToolIntent, ToolIntentFails,
      ToolResult, ToolDenied, TaskFeedback, ToolUnobserved, Receipt, PollDone, store
  <1>7. CASE Finish
    <2>1. ASSUME NEW a \in Agents, Reviewing(a) PROVE RowsAreFinal
      <3>1. job[a].task \in Tasks \/ tasks' = tasks
        BY <2>1, JobFieldType DEF Reviewing, MayDefine, TypeInv, HandlesAttempt, Busy
      <3> QED BY <1>2, <1>3, <2>1, <3>1 DEF Reviewing
    <2>2. CASE Settle
      <3>1. job[cur].task \in Tasks
        BY <2>2, JobFieldType DEF Settle, HandlesAttempt, Busy
      <3> QED BY <1>1, <1>2, <2>2, <3>1 DEF Settle
    <2>3. CASE SettleDone
      BY <1>2, <2>3 DEF SettleDone, store
    <2> QED BY <1>7, <2>1, <2>2, <2>3 DEF Finish
  <1>8. CASE FireApply
    <2> SUFFICES ASSUME NEW t \in Tasks, tasks[t].state \in Terminal
                 PROVE  tasks'[t] = tasks[t]
      BY DEF RowsAreFinal
    <2>1. t \notin Fresh("trigger") /\ t \notin Fresh("schedule")
      BY DEF Fresh, Terminal
    <2>2. ~Wakes(t)
      BY <1>8 DEF Wakes, WakeIsFresh, FireApply, Terminal
    <2>3. PICK new \in Created("trigger", signal /\ cur = None),
               due \in {{}} \cup Created("schedule", ScheduleEnabled /\ Active("schedule") = {}),
               k \in CheckSets \cup {NoChecks} :
            tasks' = [u \in Tasks |->
              IF u \in new \cup due THEN [Absent EXCEPT !.state = "queued", !.checks = k]
              ELSE IF Wakes(u) THEN [tasks[u] EXCEPT !.state = "queued", !.due = TRUE]
              ELSE tasks[u]]
      BY <1>8 DEF FireApply
    <2>4. t \notin new \cup due
      BY <2>1, <2>3 DEF Created
    <2> QED BY <2>2, <2>3, <2>4
  <1>9. ASSUME NEW t \in Tasks, NEW a \in Agents, Launch(t, a) PROVE RowsAreFinal
    <2>1. \A u \in Tasks \ {t} : tasks'[u] = tasks[u]
      BY <1>9 DEF Launch
    <2>2. tasks[t].state \in Terminal => tasks'[t] = tasks[t]
      BY <1>9 DEF Launch
    <2> QED BY <2>1, <2>2 DEF RowsAreFinal
  <1>10. ASSUME NEW t \in Tasks, ScanExhausted(t) \/ ScanUnlaunchable(t) \/ ScanBusy(t)
         PROVE  RowsAreFinal
    BY <1>1, <1>2, <1>10 DEF ScanExhausted, ScanUnlaunchable, ScanBusy
  <1>11. CASE FireIdle \/ FireSelect \/ ScanList \/ ScanDone
    BY <1>2, <1>11 DEF FireIdle, FireSelect, ScanList, ScanDone, store
  <1>12. CASE UNCHANGED vars
    BY <1>2, <1>12 DEF vars, store
  <1> QED
    BY <1>4, <1>5, <1>6, <1>7, <1>8, <1>9, <1>10, <1>11, <1>12 DEF Next, Scan

LEMMA FreshInvariant == ASSUME WakesAreSafe PROVE Spec => [](TypeInv /\ WakeIsFresh)
  <1>1. Init => WakeIsFresh
    BY DEF Init, WakeIsFresh
  <1>2. TypeInv /\ WakeIsFresh /\ [Next]_vars => WakeIsFresh'
    BY StepWakeIsFresh
  <1> QED BY <1>1, <1>2, TypeInvariant, PTL DEF Spec

(* A succeeded or cancelled task stays so, whatever terminals, supervisor, *)
(* crashes and restarts do, when no wake-up can be overtaken by a          *)
(* cancellation (WakesAreSafe).                                            *)
THEOREM TerminalRowsAreFinal == ASSUME WakesAreSafe PROVE Spec => TerminalIsFinal
  <1>1. TypeInv /\ WakeIsFresh /\ [Next]_vars => RowsAreFinal
    BY StepRowsAreFinal
  <1>2. TypeInv /\ WakeIsFresh /\ [Next]_vars =>
          [\A t \in Tasks : tasks[t].state \in Terminal => tasks'[t].state = tasks[t].state]_vars
    BY <1>1 DEF RowsAreFinal
  <1> QED BY <1>2, FreshInvariant, PTL DEF Spec, TerminalIsFinal

-----------------------------------------------------------------------------
(***************************************************************************)
(* Cancellation.  A tool that runs late is counted in late[t].  The one    *)
(* call that may be late is between before_tool's read of the row and its  *)
(* intent; after it before_tool refuses, because the row stays cancelled.  *)
(***************************************************************************)
LateCalls ==
  /\ \A t \in Tasks : late[t] <= 1 /\ (late[t] > 0 => tasks[t].state = "cancelled")
  /\ pc = "call" => late[job[cur].task] = 0

LEMMA StepLateCalls ==
  ASSUME TypeInv, WakeIsFresh, LateCalls, [Next]_vars
  PROVE  LateCalls'
  <1> USE DEF TypeInv, TypeOK
  <1>1. \A t \in Tasks : tasks[t].state = "cancelled" => tasks'[t].state = "cancelled"
    BY StepRowsAreFinal DEF RowsAreFinal, Terminal
  <1>2. ASSUME late' = late, pc' = "call" => pc = "call" /\ cur' = cur /\ job' = job
        PROVE  LateCalls'
    BY <1>1, <1>2 DEF LateCalls
  <1>3. CASE Terminals
    BY <1>2, <1>3 DEF Terminals, Submit, Cancel, Elapse, ResumeSpec, ResumeWrite, ResumeRead,
                      Signal, RequestStop, supervisor, history
  <1>4. CASE Process
    BY <1>2, <1>4 DEF Process, Start, Stop, Fault, Crash, Close, ProcessGone, Begin, history
  <1>5. CASE ToolIntent
    <2>1. job[cur].task \in Tasks
      BY <1>5, JobFieldType DEF ToolIntent, HandlesAttempt, Busy
    <2>2. /\ pc = "call" /\ pc' = "ran" /\ tasks' = tasks
          /\ late' = IF tasks[job[cur].task].state = "cancelled"
                       THEN [late EXCEPT ![job[cur].task] = @ + 1] ELSE late
      BY <1>5 DEF ToolIntent, store
    <2> QED BY <2>1, <2>2 DEF LateCalls
  <1>6. ASSUME NEW a \in Agents, ToolAllowed(a) PROVE LateCalls'
    <2>1. /\ tasks[job[a].task].state # "cancelled" /\ late' = late /\ tasks' = tasks
          /\ job' = job /\ cur' = a /\ job[a].task \in Tasks
      BY <1>6, JobFieldType DEF ToolAllowed, MayRun, MayCall, Busy, store, history
    <2> QED BY <2>1 DEF LateCalls
  <1>7. CASE Broker /\ ~ToolIntent /\ ~\E a \in Agents : ToolAllowed(a)
    BY <1>2, <1>7 DEF Broker, ToolRefused, MayCall, Polling, WorkerEnds, ToolIntentFails,
      ToolResult, ToolDenied, TaskFeedback, ToolUnobserved, Receipt, PollDone, history
  <1>8. CASE Finish
    BY <1>2, <1>8 DEF Finish, Reviewing, Settle, SettleDone, history
  <1>9. CASE Scan
    BY <1>2, <1>9 DEF Scan, FireIdle, FireSelect, FireApply, ScanList, ScanDone, ScanExhausted,
      ScanUnlaunchable, ScanBusy, Scanned, Launch, history
  <1>10. CASE UNCHANGED vars
    BY <1>2, <1>10 DEF vars, supervisor, history
  <1> QED BY <1>3, <1>4, <1>5, <1>6, <1>7, <1>8, <1>9, <1>10 DEF Next

(* However terminals, worker messages and the supervisor interleave, a     *)
(* cancelled task gets at most one more tool call, the one that before_tool*)
(* had let pass when the cancellation was committed.                       *)
THEOREM CancellationIsPrompt == ASSUME WakesAreSafe PROVE Spec => []CancelStopsTools
  <1>1. Init => LateCalls
    BY DEF Init, LateCalls
  <1>2. TypeInv /\ WakeIsFresh /\ LateCalls /\ [Next]_vars => LateCalls'
    BY StepLateCalls
  <1>3. LateCalls => CancelStopsTools
    BY DEF LateCalls, CancelStopsTools
  <1> QED BY <1>1, <1>2, <1>3, FreshInvariant, PTL DEF Spec
-----------------------------------------------------------------------------
(***************************************************************************)
(* Attempts: who owns a running row, how many attempts a task has, what    *)
(* happens after one died with effects, and the refinement of              *)
(* TaskLifecycle.                                                          *)
(*                                                                         *)
(* resume() reads the row in one transaction and queues it in a later one  *)
(* without a condition on the state.  Where a task is launched in between, *)
(* it gets a second attempt (the run task_resume_race shows it).  The      *)
(* theorems say that this is the only way: whatever else interleaves, they *)
(* hold of every behaviour in which resumes stay current.                  *)
(***************************************************************************)
(* No attempt started between what a terminal read and what it will write. *)
ResumesAreCurrent == \A c \in Clients : cli[c] # None => tasks[cli[c].task].state # "running"

Scanning == pc = "scan" \/ (pc \in {"call", "ran"} /\ back = "scan")

-----------------------------------------------------------------------------
(* What the writes of the ledger do to a row.                              *)
LEMMA UpdateRow ==
  ASSUME TypeOK, NEW t \in Tasks, NEW s, NEW f, NEW due, Update(t, s, f, due)
  PROVE  /\ \A u \in Tasks \ {t} : tasks'[u] = tasks[u]
         /\ tasks[t].state \in Terminal => tasks'[t] = tasks[t]
         /\ tasks[t].state \notin Terminal => tasks'[t].state = s
         /\ tasks'[t].checks = tasks[t].checks
  BY DEF TypeOK, Update, Updated, Row

LEMMA RecoveredRow ==
  ASSUME NEW row \in Row
  PROVE  /\ row.state \in Terminal => Recovered(row) = row
         /\ row.state \notin Terminal => Recovered(row).state = "waiting_observation"
         /\ Recovered(row).checks = row.checks
  BY DEF Recovered, Updated, Row

LEMMA WorkersTask == ASSUME TypeOK, NEW a \in Busy PROVE a \in Agents /\ job[a] \in Job /\ job[a].task \in Tasks
  BY JobFieldType DEF TypeOK, Busy

(* _finish ends in one of these states: a retry only if the attempt ran no *)
(* tool or was not interrupted, a success only if its receipts show it.    *)
LEMMA SettlementStates ==
  ASSUME NEW j \in Job, NEW s \in Row
  PROVE  LET o == Settlement(j, s).state IN
         /\ o \in {"succeeded", "retry_wait"} \cup Waiting
         /\ j.st \in {"timed_out", "failed"} /\ j.intents > 0
              => o \in {"succeeded", "waiting_observation"}
         /\ o = "succeeded" => /\ s.checks \in CheckSets /\ j.ev[s.checks] = "pass"
                               /\ j.intents <= j.receipts
  <1> DEFINE v == Verdict(j, s.checks)
             o == Settlement(j, s).state
             m == {"retry_wait", "waiting_input", "waiting_acceptance"}
  <1>1. Interrupted(j) \in {"retry_wait", "waiting_observation"}
        /\ (j.intents > 0 => Interrupted(j) = "waiting_observation")
    BY DEF Interrupted, Job
  <1>2. /\ v = "pass" /\ j.intents <= j.receipts => o = "succeeded"
        /\ ~(v = "pass" /\ j.intents <= j.receipts) =>
             /\ j.st \in {"timed_out", "failed"} => o = Interrupted(j)
             /\ j.st \notin {"timed_out", "failed"} => o \in m
    BY DEF Settlement
  <1>3. v = "pass" => s.checks \in CheckSets /\ j.ev[s.checks] = "pass"
    BY DEF Verdict, Row
  <1> QED BY <1>1, <1>2, <1>3 DEF Waiting

(* What the broker's handlers write to a slot keeps its task.              *)
LEMMA SlotKeepsTask ==
  ASSUME TypeOK, NEW a \in Busy, NEW r \in Job, r.task = job[a].task, job' = [job EXCEPT ![a] = r]
  PROVE  Busy' = Busy /\ \A b \in Busy : job'[b].task = job[b].task
  BY NoneIsNoJob DEF TypeOK, Busy

LEMMA ReceiptKeepsTask ==
  ASSUME NEW j \in Job
  PROVE  /\ \A v : Shown(j, v).task = j.task /\ Denied(j, v).task = j.task
         /\ \A st : [j EXCEPT !.st = st].task = j.task
         /\ [j EXCEPT !.intents = @ + 1].task = j.task
         /\ \A r, k : [j EXCEPT !.receipts = @ + 1, !.report = r,
                                !.proposal = IF k = NoChecks THEN @ ELSE k].task = j.task
  <1>1. ASSUME NEW v PROVE Shown(j, v).task = j.task
    BY DEF Shown, Job
  <1>2. ASSUME NEW v PROVE Denied(j, v).task = j.task
    BY DEF Denied, Shown, Job
  <1>3. ASSUME NEW st PROVE [j EXCEPT !.st = st].task = j.task
    BY DEF Job
  <1>4. [j EXCEPT !.intents = @ + 1].task = j.task
    BY DEF Job
  <1>5. ASSUME NEW r, NEW k
        PROVE  [j EXCEPT !.receipts = @ + 1, !.report = r,
                         !.proposal = IF k = NoChecks THEN @ ELSE k].task = j.task
    BY DEF Job
  <1> QED BY <1>1, <1>2, <1>3, <1>4, <1>5

(* Broker messages change neither rows nor which task a slot works on.     *)
LEMMA BrokerKeeps ==
  ASSUME TypeInv, Broker
  PROVE  /\ UNCHANGED <<tasks, snap, dirty, cli>>
         /\ Busy' = Busy /\ \A a \in Busy : job'[a].task = job[a].task
         /\ pc \in {"poll", "scan", "call", "ran"} /\ pc' \in {"poll", "scan", "call", "ran", "settle"}
         /\ Scanning' => Scanning /\ todo' = todo
  <1> USE DEF TypeInv
  <1> DEFINE Kept == Busy' = Busy /\ \A b \in Busy : job'[b].task = job[b].task
  <1>0. job' = job => Kept
    BY DEF Busy
  <1>k. ASSUME NEW a \in Busy, NEW r \in Job, r.task = job[a].task, job' = [job EXCEPT ![a] = r]
        PROVE  Kept
    BY <1>k, SlotKeepsTask
  <1> HIDE DEF Kept
  <1>1. ASSUME NEW a \in Agents, ToolRefused(a)
        PROVE  Kept
    <2>1. a \in Busy /\ job[a] \in Job
      BY <1>1, WorkersTask DEF ToolRefused, MayCall
    <2>2. PICK v \in [CheckSets -> Prints] : job' = [job EXCEPT ![a] = Denied(job[a], v)]
      BY <1>1 DEF ToolRefused
    <2>3. Denied(job[a], v) \in Job /\ Denied(job[a], v).task = job[a].task
      BY <2>1, JobType, ViewType, ReceiptKeepsTask
    <2> QED BY <1>k, <2>1, <2>2, <2>3
  <1>2. ASSUME NEW a \in Agents, NEW st \in {"done", "failed", "timed_out"}, WorkerEnds(a, st)
        PROVE  Kept
    <2>1. a \in Busy /\ job[a] \in Job /\ job' = [job EXCEPT ![a] = [job[a] EXCEPT !.st = st]]
      BY <1>2, WorkersTask DEF WorkerEnds
    <2>2. [job[a] EXCEPT !.st = st] \in Job /\ [job[a] EXCEPT !.st = st].task = job[a].task
      BY <2>1, JobFieldType, ReceiptKeepsTask
    <2> QED BY <1>k, <2>1, <2>2
  <1>3. ASSUME ToolIntent PROVE Kept
    <2>1. cur \in Busy /\ job[cur] \in Job
          /\ job' = [job EXCEPT ![cur] = [job[cur] EXCEPT !.intents = @ + 1]]
      BY <1>3, WorkersTask DEF ToolIntent, HandlesAttempt
    <2>2. /\ [job[cur] EXCEPT !.intents = @ + 1] \in Job
          /\ [job[cur] EXCEPT !.intents = @ + 1].task = job[cur].task
      BY <2>1, JobFieldType, ReceiptKeepsTask
    <2> QED BY <1>k, <2>1, <2>2
  <1>4. ASSUME pc \in {"call", "ran"}, NEW r \in Job, r.task = job[cur].task,
               job' = [job EXCEPT ![cur] = r]
        PROVE  Kept
    BY <1>k, <1>4 DEF HandlesAttempt
  <1>5. ASSUME pc \in {"call", "ran"} PROVE job[cur] \in Job
    BY <1>5, WorkersTask DEF HandlesAttempt
  <1>6. ASSUME ToolIntentFails PROVE Kept
    <2>1. PICK v \in [CheckSets -> Prints] : job' = [job EXCEPT ![cur] = Shown(job[cur], v)]
      BY <1>6 DEF ToolIntentFails
    <2>2. Shown(job[cur], v) \in Job /\ Shown(job[cur], v).task = job[cur].task
      BY <1>5, <1>6, JobType, ViewType, ReceiptKeepsTask DEF ToolIntentFails
    <2> QED BY <1>4, <1>6, <2>1, <2>2 DEF ToolIntentFails
  <1>7. ASSUME ToolResult \/ ToolDenied PROVE Kept
    <2>1. PICK v \in [CheckSets -> Verdicts] :
            \/ Receipt(Shown(job[cur], v))
            \/ Receipt(Denied(job[cur], v))
      BY <1>7, ViewType DEF ToolResult, ToolDenied
    <2>2. pc = "ran"
      BY <2>1 DEF Receipt
    <2>3. /\ Shown(job[cur], v) \in Job /\ Shown(job[cur], v).task = job[cur].task
          /\ Denied(job[cur], v) \in Job /\ Denied(job[cur], v).task = job[cur].task
      BY <1>5, <2>2, JobType, ReceiptKeepsTask
    <2> QED BY <1>4, <2>1, <2>2, <2>3 DEF Receipt
  <1>8. ASSUME TaskFeedback \/ ToolUnobserved PROVE Kept
    <2>1. ASSUME ToolUnobserved PROVE Kept
      BY <1>4, <1>5, <2>1 DEF ToolUnobserved, Receipt
    <2>2. ASSUME NEW r \in {"continue", "needs_input"}, NEW k \in CheckSets \cup {NoChecks},
                 Receipt([job[cur] EXCEPT !.receipts = @ + 1, !.report = r,
                             !.proposal = IF k = NoChecks THEN @ ELSE k])
          PROVE  Kept
      <3> DEFINE f == [job[cur] EXCEPT !.receipts = @ + 1, !.report = r,
                             !.proposal = IF k = NoChecks THEN @ ELSE k]
      <3>1. pc = "ran" /\ job' = [job EXCEPT ![cur] = f]
        BY <2>2 DEF Receipt
      <3>2. job[cur] \in Job
        BY <1>5, <3>1
      <3>3. f \in Job
        BY <3>2, JobType
      <3>4. f.task = job[cur].task
        BY <3>2, ReceiptKeepsTask
      <3> HIDE DEF f
      <3> QED BY <1>4, <3>1, <3>3, <3>4
    <2> QED BY <1>8, <2>1, <2>2 DEF TaskFeedback
  <1>9. Kept
    BY <1>0, <1>1, <1>2, <1>3, <1>4, <1>5, <1>6, <1>7, <1>8 DEF Broker, ToolAllowed, PollDone
  <1>10. /\ UNCHANGED <<tasks, snap, dirty, cli>>
         /\ pc \in {"poll", "scan", "call", "ran"} /\ pc' \in {"poll", "scan", "call", "ran", "settle"}
         /\ Scanning' => Scanning /\ todo' = todo
    BY DEF Broker, ToolRefused, ToolAllowed, MayCall, Polling, WorkerEnds, ToolIntent,
      ToolIntentFails, ToolResult, ToolDenied, TaskFeedback, ToolUnobserved, Receipt, PollDone,
      Scanning, store, history, TypeOK
  <1> QED BY <1>9, <1>10 DEF Kept

(* _finish reads the row, and may define its checks, before it reviews.    *)
LEMMA ReviewingRow ==
  ASSUME TypeInv, NEW a \in Agents, Reviewing(a)
  PROVE  /\ a \in Busy /\ job[a].task \in Tasks
         /\ \A t \in Tasks : tasks'[t].state = tasks[t].state
         /\ pc' = "commit" /\ pc = "settle" /\ cur' = a
         /\ UNCHANGED <<job, cli, dirty>>
         /\ snap'[job[a].task] = tasks'[job[a].task]
  <1>1. a \in Busy /\ job[a].task \in Tasks
    BY WorkersTask DEF Reviewing, HandlesAttempt, TypeInv
  <1>2. \A t \in Tasks : tasks'[t].state = tasks[t].state
    <2> DEFINE t == job[a].task
               row == [tasks[t] EXCEPT !.checks = job[a].proposal]
    <2>1. row.state = tasks[t].state
      BY <1>1 DEF TypeInv, TypeOK, Row
    <2>2. tasks' = tasks \/ tasks' = [tasks EXCEPT ![t] = row]
      BY DEF Reviewing
    <2> HIDE DEF row, t
    <2> QED BY <1>1, <2>1, <2>2 DEF TypeInv, TypeOK
  <1>3. snap' = [snap EXCEPT ![job[a].task] = tasks'[job[a].task]]
    BY DEF Reviewing
  <1>4. snap'[job[a].task] = tasks'[job[a].task]
    BY <1>1, <1>3 DEF TypeInv, TypeOK
  <1>5. pc' = "commit" /\ pc = "settle" /\ cur' = a /\ UNCHANGED <<job, cli, dirty>>
    BY DEF Reviewing, history
  <1> QED BY <1>1, <1>2, <1>4, <1>5

-----------------------------------------------------------------------------
(***************************************************************************)
(* A running row has an attempt.  The scan writes the states it read, so   *)
(* they must be ready ones; _finish leaves a row alone that it read as     *)
(* cancelled, so that one must still be cancelled.                         *)
(***************************************************************************)
Owned ==
  /\ pc = "down" => Busy = {}
  /\ Scanning => todo \subseteq Tasks /\ \A t \in todo : snap[t].state \in Ready
  /\ pc = "commit" /\ snap[job[cur].task].state = "cancelled"
       => tasks[job[cur].task].state = "cancelled"
  /\ RunningIsOwned

(* A step that keeps the attempts, the supervisor and the rows' finality.  *)
LEMMA OwnedKept ==
  ASSUME TypeInv, Owned, UNCHANGED <<pc, back, todo, snap, cur, job>>,
         \A t \in Tasks : /\ tasks'[t].state = "running" => tasks[t].state = "running"
                          /\ tasks[t].state = "cancelled" => tasks'[t].state = "cancelled"
  PROVE  Owned'
  <1>1. pc = "commit" => job[cur].task \in Tasks
    BY WorkersTask DEF TypeInv, HandlesAttempt
  <1> QED BY <1>1 DEF Owned, RunningIsOwned, WorkingOn, Busy, Scanning

LEMMA StepOwned == ASSUME TypeInv, Owned, [Next]_vars PROVE Owned'
  <1> USE DEF TypeInv
  <1>0. TypeInv'
    BY StepTypeInv
  <1>1. CASE Terminals
    <2>1. UNCHANGED <<pc, back, todo, snap, cur, job>>
      BY <1>1 DEF Terminals, Submit, Cancel, Elapse, ResumeSpec, ResumeWrite, ResumeRead,
                  Signal, RequestStop, supervisor
    <2> SUFFICES ASSUME NEW u \in Tasks
                 PROVE  /\ tasks'[u].state = "running" => tasks[u].state = "running"
                        /\ tasks[u].state = "cancelled" => tasks'[u].state = "cancelled"
      BY <2>1, OwnedKept
    <2>2. ASSUME NEW t \in Tasks, Submit(t) PROVE tasks'[u] = tasks[u] \/ (tasks[u].state = "none" /\ tasks'[u].state = "queued")
      BY <2>2 DEF Submit, TypeOK, Absent
    <2>3. ASSUME NEW t \in Tasks, Cancel(t) PROVE tasks'[u] = tasks[u] \/ tasks'[u].state = "cancelled"
      BY <2>3, UpdateRow DEF Cancel
    <2>4. ASSUME NEW t \in Tasks, Elapse(t) PROVE tasks'[u].state = tasks[u].state
      <3>1. [tasks[t] EXCEPT !.due = TRUE].state = tasks[t].state
        BY DEF Row, TypeOK
      <3> QED BY <2>4, <3>1 DEF Elapse, TypeOK
    <2>5. ASSUME NEW c \in Clients, ResumeSpec(c) PROVE tasks'[u].state = tasks[u].state
      <3>1. [tasks[u] EXCEPT !.checks = cli[c].checks].state = tasks[u].state
        BY DEF Row, TypeOK
      <3> QED BY <2>5, <3>1 DEF ResumeSpec, TypeOK
    <2>6. ASSUME NEW c \in Clients, ResumeWrite(c)
          PROVE  tasks'[u] = tasks[u] \/ (tasks[u].state \notin Terminal /\ tasks'[u].state = "queued")
      <3>1. cli[c].task \in Tasks
        BY <2>6 DEF ResumeWrite, ClientRead, TypeOK
      <3> QED BY <2>6, <3>1, UpdateRow DEF ResumeWrite
    <2>7. ASSUME tasks' = tasks PROVE tasks'[u] = tasks[u]
      BY <2>7
    <2> QED
      BY <1>1, <2>2, <2>3, <2>4, <2>5, <2>6, <2>7
      DEF Terminals, ResumeRead, Signal, RequestStop, store, Terminal
  <1>2. CASE Start
    <2>1. \A t \in Tasks : tasks'[t].state # "running"
      <3>1. \A t \in Tasks : tasks[t] \in Row
        BY DEF TypeOK
      <3> QED BY <1>2, <3>1, RecoveredRow DEF Start, Terminal
    <2> QED BY <1>2, <2>1 DEF Start, Owned, RunningIsOwned, Scanning
  <1>3. CASE Stop \/ Fault \/ Crash
    BY <1>3, <1>0 DEF Stop, Fault, Crash, Close, ProcessGone, Owned, RunningIsOwned, Scanning, Busy
  <1>4. ASSUME NEW go \in BOOLEAN, Begin(go) PROVE Owned'
    <2>1. pc' = "poll" /\ tasks' = tasks /\ pc = "top"
      BY <1>4 DEF Begin, store
    <2>2. ASSUME NEW t \in Tasks, NEW a \in WorkingOn(t) PROVE a \in WorkingOn(t)'
      <3>1. job[a] \in Job /\ job[a].task = t /\ a \in Busy /\ a \in Agents
        BY <2>2, WorkersTask DEF WorkingOn
      <3>2. [job[a] EXCEPT !.st = "cancelled"] \in Job /\ [job[a] EXCEPT !.st = "cancelled"].task = t
        BY <3>1, JobFieldType, ReceiptKeepsTask
      <3>3. job'[a] = job[a] \/ job'[a] = [job[a] EXCEPT !.st = "cancelled"]
        BY <1>4, <3>1 DEF Begin
      <3> QED BY <3>1, <3>2, <3>3, NoneIsNoJob DEF WorkingOn, Busy
    <2> QED BY <2>1, <2>2 DEF Owned, RunningIsOwned, Scanning
  <1>5. CASE Broker
    BY <1>5, BrokerKeeps DEF Owned, RunningIsOwned, WorkingOn
  <1>6. ASSUME NEW a \in Agents, Reviewing(a) PROVE Owned'
    BY <1>6, ReviewingRow DEF Owned, RunningIsOwned, WorkingOn, Busy, Scanning
  <1>7. CASE Settle
    <2> DEFINE t == job[cur].task
               o == Settlement(job[cur], snap[t])
    <2>1. cur \in Busy /\ job[cur] \in Job /\ t \in Tasks /\ snap[t] \in Row
      BY <1>7, WorkersTask DEF Settle, HandlesAttempt, TypeOK
    <2>2. o.state # "running"
      BY <2>1, SettlementStates DEF Waiting
    <2>3. /\ pc = "commit" /\ pc' = "settle" /\ job' = [job EXCEPT ![cur] = None]
          /\ IF snap[t].state = "cancelled" THEN tasks' = tasks
             ELSE Update(t, o.state, o.fb, o.state # "retry_wait")
      BY <1>7 DEF Settle
    <2>4. \A u \in Tasks \ {t} : tasks'[u] = tasks[u]
      BY <2>1, <2>3, UpdateRow
    <2>5. tasks'[t].state # "running"
      BY <2>1, <2>2, <2>3, UpdateRow DEF Owned, Terminal
    <2>6. \A u \in Tasks \ {t} : WorkingOn(u) \subseteq WorkingOn(u)'
      BY <2>1, <2>3 DEF WorkingOn, Busy, TypeOK
    <2> HIDE DEF t, o
    <2> QED BY <2>3, <2>4, <2>5, <2>6 DEF Owned, RunningIsOwned, Scanning
  <1>8. CASE SettleDone \/ FireIdle \/ FireSelect
    BY <1>8 DEF SettleDone, FireIdle, FireSelect, store, Owned, RunningIsOwned, WorkingOn, Busy, Scanning
  <1>9. CASE FireApply
    <2>1. \A u \in Tasks : tasks'[u] = tasks[u] \/ tasks'[u].state = "queued"
      <3>1. \A k : [Absent EXCEPT !.state = "queued", !.checks = k].state = "queued"
        BY DEF Absent
      <3>2. \A u \in Tasks : [tasks[u] EXCEPT !.state = "queued", !.due = TRUE].state = "queued"
        BY DEF TypeOK, Row
      <3> QED BY <1>9, <3>1, <3>2 DEF FireApply
    <2>2. pc = "fired" /\ pc' = "list" /\ job' = job
      BY <1>9 DEF FireApply
    <2> QED BY <2>1, <2>2 DEF Owned, RunningIsOwned, WorkingOn, Busy, Scanning
  <1>10. CASE ScanList \/ ScanDone
    BY <1>10 DEF ScanList, ScanDone, store, Owned, RunningIsOwned, WorkingOn, Busy, Scanning
  <1>11. ASSUME NEW t \in Tasks, ScanExhausted(t) \/ ScanUnlaunchable(t) \/ ScanBusy(t)
         PROVE  Owned'
    <2>1. pc = "scan" /\ pc' = "scan" /\ job' = job /\ snap' = snap /\ todo' \subseteq todo /\ t \in todo
      BY <1>11 DEF ScanExhausted, ScanUnlaunchable, ScanBusy, Scanned
    <2>2. snap[t].state \in Ready
      BY <2>1 DEF Owned, Scanning
    <2>3. \A u \in Tasks : tasks'[u] = tasks[u] \/ tasks'[u].state # "running"
      BY <1>11, <2>2, UpdateRow DEF ScanExhausted, ScanUnlaunchable, ScanBusy, Ready
    <2> QED BY <2>1, <2>3 DEF Owned, RunningIsOwned, WorkingOn, Busy, Scanning
  <1>12. ASSUME NEW t \in Tasks, NEW a \in Agents, Launch(t, a) PROVE Owned'
    <2>1. /\ pc = "scan" /\ pc' = "scan" /\ snap' = snap /\ todo' \subseteq todo /\ a \notin Busy
      BY <1>12 DEF Launch, Scanned, Free
    <2>0. PICK fits \in BOOLEAN : job' = [job EXCEPT ![a] = NewJob(t, snap[t], fits)]
      BY <1>12 DEF Launch
    <2>2. NewJob(t, snap[t], fits) # None /\ NewJob(t, snap[t], fits).task = t
      BY NewJobType, NoneIsNoJob DEF TypeOK
    <2>3. a \in WorkingOn(t)' /\ \A u \in Tasks : WorkingOn(u) \subseteq WorkingOn(u)'
      BY <2>0, <2>1, <2>2 DEF WorkingOn, Busy, TypeOK
    <2>4. \A u \in Tasks \ {t} : tasks'[u] = tasks[u]
      BY <1>12 DEF Launch, TypeOK
    <2> QED BY <2>1, <2>3, <2>4 DEF Owned, RunningIsOwned, Scanning
  <1>13. CASE UNCHANGED vars
    BY <1>13, OwnedKept DEF vars, store, supervisor
  <1> QED
    BY <1>1, <1>2, <1>3, <1>4, <1>5, <1>6, <1>7, <1>8, <1>9, <1>10, <1>11, <1>12, <1>13
    DEF Next, Process, Finish, Scan

LEMMA OwnedInvariant == Spec => [](TypeInv /\ Owned)
  <1>1. Init => Owned
    BY DEF Init, Owned, RunningIsOwned, Busy, Scanning
  <1>2. TypeInv /\ Owned /\ [Next]_vars => Owned'
    BY StepOwned
  <1> QED BY <1>1, <1>2, TypeInvariant, PTL DEF Spec

(* While the supervisor lives no row stays "running" without an attempt,   *)
(* whatever terminals, resumes that race, crashes and restarts do: nothing *)
(* would ever move such a row again.                                       *)
THEOREM RunningRowsAreOwned == Spec => []RunningIsOwned
  <1>1. TypeInv /\ Owned => RunningIsOwned
    BY DEF Owned
  <1> QED BY <1>1, OwnedInvariant, PTL

-----------------------------------------------------------------------------
(***************************************************************************)
(* One attempt at a time, and no replay.  OneAttemptPerTask alone is not   *)
(* inductive: a scan launches from the rows it read, so a listed task must *)
(* have no attempt, and its row must still be ready or final; a task with  *)
(* an attempt must be running or final, so that nobody lists, resumes or   *)
(* wakes it.  A task whose attempt died with effects must wait for an      *)
(* explicit observation (or be about to, when the process is down).        *)
(***************************************************************************)
ListedIsIdle ==
  Scanning => \A t \in todo : /\ tasks[t].state \in Ready \cup Terminal
                              /\ WorkingOn(t) = {} /\ t \notin dirty

BusyIsRunning == \A a \in Busy : tasks[job[a].task].state \in {"running"} \cup Terminal

DirtyWaits ==
  \A t \in dirty : \/ tasks[t].state \in {"waiting_observation"} \cup Terminal
                   \/ pc = "down" /\ tasks[t].state = "running"

WokenIsIdle ==
  pc = "fired" => \A t \in Tasks : t = cur /\ snap[t].state \in {"waiting_input", "retry_wait"}
                                     => WorkingOn(t) = {} /\ t \notin dirty

ResumedExists == \A c \in Clients : cli[c] # None => tasks[cli[c].task].state # "none"

Attempts ==
  /\ ListedIsIdle /\ BusyIsRunning /\ OneAttemptPerTask
  /\ DirtyWaits /\ NoBlindReplay /\ WokenIsIdle /\ ResumedExists

(* What may become of a row while the supervisor does not write to it.     *)
Drifts(t) ==
  \/ tasks'[t].state = tasks[t].state
  \/ tasks[t].state \in States \ (Terminal \cup {"none"}) /\ tasks'[t].state = "cancelled"

(* Terminals cancel, submit and resume; they touch no attempt.             *)
LEMMA TerminalsRows ==
  ASSUME TypeInv, ResumedExists, ResumesAreCurrent, Terminals
  PROVE  /\ \A t \in Tasks :
              \/ Drifts(t)
              \/ /\ tasks[t].state = "none" /\ tasks'[t].state = "queued"
              \/ /\ tasks[t].state \in Waiting \cup Ready /\ tasks'[t].state = "queued"
                 /\ t \notin dirty'
         /\ dirty' \subseteq dirty
         /\ \A t \in dirty \ dirty' : tasks'[t].state = "queued"
         /\ UNCHANGED <<pc, back, todo, snap, cur, job>>
         /\ ResumedExists'
  <1> USE DEF TypeInv
  <1> DEFINE Resumed(t) == /\ tasks[t].state \in Waiting \cup Ready /\ tasks'[t].state = "queued"
                           /\ t \notin dirty'
             Rows == \A t \in Tasks :
                       \/ Drifts(t)
                       \/ tasks[t].state = "none" /\ tasks'[t].state = "queued"
                       \/ Resumed(t)
             History == dirty' \subseteq dirty /\ \A t \in dirty \ dirty' : tasks'[t].state = "queued"
  <1>0. UNCHANGED <<pc, back, todo, snap, cur, job>>
    BY DEF Terminals, Submit, Cancel, Elapse, ResumeSpec, ResumeWrite, ResumeRead,
           Signal, RequestStop, supervisor
  <1>s. \A t \in Tasks : tasks[t] \in Row /\ tasks[t].state \in States
    BY DEF TypeOK, Row
  <1>c. \A c \in Clients : cli[c] # None => cli[c].task \in Tasks
    BY DEF TypeOK, ClientRead
  <1>1. ASSUME NEW t \in Tasks, Submit(t) PROVE Rows /\ History /\ cli' = cli
    <2>1. \A k : [Absent EXCEPT !.state = "queued", !.checks = k].state = "queued"
      BY DEF Absent
    <2> QED BY <1>1, <2>1 DEF Submit, TypeOK, Drifts, history
  <1>2. ASSUME NEW t \in Tasks, Cancel(t) PROVE Rows /\ History /\ cli' = cli
    BY <1>2, <1>s, UpdateRow DEF Cancel, Drifts, history
  <1>3. ASSUME NEW t \in Tasks, Elapse(t) PROVE Rows /\ History /\ cli' = cli
    <2>1. [tasks[t] EXCEPT !.due = TRUE].state = tasks[t].state
      BY <1>s DEF Row
    <2> QED BY <1>3, <2>1 DEF Elapse, TypeOK, Drifts, history
  <1>4. ASSUME NEW c \in Clients, ResumeSpec(c)
        PROVE  Rows /\ History /\ \A d \in Clients : cli'[d] # None => cli[d] # None /\ cli'[d].task = cli[d].task
    <2>1. [tasks[cli[c].task] EXCEPT !.checks = cli[c].checks].state = tasks[cli[c].task].state
      BY <1>s, <1>c, <1>4 DEF Row, ResumeSpec
    <2>2. Rows /\ History
      BY <1>4, <2>1 DEF ResumeSpec, TypeOK, Drifts, history
    <2>3. cli[c] \in ClientRead /\ [cli[c] EXCEPT !.checks = None].task = cli[c].task
      BY <1>4 DEF ResumeSpec, TypeOK, ClientRead
    <2>4. cli' = [cli EXCEPT ![c] = [cli[c] EXCEPT !.checks = None]]
      BY <1>4 DEF ResumeSpec
    <2> HIDE DEF Rows, History
    <2> QED BY <1>4, <2>2, <2>3, <2>4 DEF TypeOK, ResumeSpec
  <1>5. ASSUME NEW c \in Clients, ResumeWrite(c)
        PROVE  Rows /\ History /\ \A d \in Clients : cli'[d] # None => cli'[d] = cli[d]
    <2> DEFINE t == cli[c].task
    <2>1. /\ cli[c] # None /\ t \in Tasks
          /\ Update(t, "queued", ResumedFeedback(cli[c]), TRUE)
          /\ cli' = [cli EXCEPT ![c] = None]
          /\ IF tasks[t].state \in Terminal THEN dirty' = dirty ELSE dirty' = dirty \ {t}
      BY <1>5, <1>c DEF ResumeWrite, history
    <2>2. tasks[t].state \notin {"running", "none"}
      BY <2>1 DEF ResumesAreCurrent, ResumedExists
    <2>3. \/ tasks[t].state \in Terminal
          \/ tasks[t].state \in Waiting \cup Ready
      BY <1>s, <2>1, <2>2 DEF States
    <2>4. /\ \A u \in Tasks \ {t} : tasks'[u] = tasks[u]
          /\ tasks[t].state \in Terminal => tasks'[t] = tasks[t]
          /\ tasks[t].state \notin Terminal => tasks'[t].state = "queued"
      BY <2>1, UpdateRow
    <2> HIDE DEF t
    <2>5. Rows /\ History
      BY <2>1, <2>3, <2>4 DEF Drifts, TypeOK
    <2> QED BY <2>1, <2>5 DEF TypeOK
  <1>6. ASSUME NEW c \in Clients, NEW t \in Tasks, ResumeRead(c, t)
        PROVE  /\ Rows /\ History
               /\ \A d \in Clients : cli'[d] # None =>
                    cli'[d] = cli[d] \/ (cli'[d].task = t /\ tasks[t].state # "none")
    <2>1. tasks' = tasks /\ dirty' = dirty /\ tasks[t].state # "none"
      BY <1>6 DEF ResumeRead, Resumable, store, history
    <2> QED BY <1>6, <2>1 DEF ResumeRead, TypeOK, Drifts
  <1>7. ASSUME Signal \/ RequestStop PROVE Rows /\ History /\ cli' = cli
    BY <1>7 DEF Signal, RequestStop, Drifts, history
  <1>8. Rows /\ History
    BY <1>1, <1>2, <1>3, <1>4, <1>5, <1>6, <1>7 DEF Terminals
  <1>9. \A d \in Clients : cli'[d] # None =>
          \/ cli[d] # None /\ cli'[d].task = cli[d].task
          \/ cli'[d].task \in Tasks /\ tasks[cli'[d].task].state # "none"
    <2> HIDE DEF Rows, History
    <2> QED BY <1>1, <1>2, <1>3, <1>4, <1>5, <1>6, <1>7 DEF Terminals
  <1>10. \A t \in Tasks : tasks[t].state # "none" => tasks'[t].state # "none"
    BY <1>8 DEF Drifts
  <1>11. ResumedExists'
    <2> HIDE DEF Rows, History
    <2> QED BY <1>c, <1>9, <1>10 DEF ResumedExists
  <1> QED BY <1>0, <1>8, <1>11

LEMMA TerminalsAttempts ==
  ASSUME TypeInv, Owned, Attempts, ResumesAreCurrent, Terminals
  PROVE  Attempts'
  <1> USE DEF TypeInv, Attempts
  <1>1. /\ UNCHANGED <<pc, back, todo, snap, cur, job>> /\ ResumedExists'
        /\ dirty' \subseteq dirty
        /\ \A t \in dirty \ dirty' : tasks'[t].state = "queued"
    BY TerminalsRows
  <1>2. ASSUME NEW t \in Tasks
        PROVE  \/ tasks'[t].state = tasks[t].state
               \/ tasks'[t].state = "cancelled" /\ tasks[t].state # "none"
               \/ tasks[t].state = "none" /\ tasks'[t].state = "queued"
               \/ tasks[t].state \in Waiting \cup Ready /\ tasks'[t].state = "queued" /\ t \notin dirty'
    BY TerminalsRows DEF Drifts
  <1>3. Busy' = Busy /\ \A t \in Tasks : WorkingOn(t)' = WorkingOn(t)
    BY <1>1 DEF Busy, WorkingOn
  <1>4. ListedIsIdle'
    <2> SUFFICES ASSUME Scanning, NEW t \in todo, t \in Tasks
                 PROVE  /\ tasks'[t].state \in Ready \cup Terminal
                        /\ WorkingOn(t)' = {} /\ t \notin dirty'
      <3>1. Scanning => todo \subseteq Tasks
        BY DEF Owned
      <3> QED BY <1>1, <3>1 DEF ListedIsIdle, Scanning
    <2> QED BY <1>1, <1>2, <1>3 DEF ListedIsIdle, Ready, Terminal, Waiting
  <1>5. BusyIsRunning'
    <2> SUFFICES ASSUME NEW a \in Busy PROVE tasks'[job[a].task].state \in {"running"} \cup Terminal
      BY <1>1, <1>3 DEF BusyIsRunning
    <2>1. job[a].task \in Tasks
      BY WorkersTask
    <2> QED BY <1>2, <2>1 DEF BusyIsRunning, Ready, Terminal, Waiting
  <1>6. OneAttemptPerTask' /\ NoBlindReplay'
    BY <1>1, <1>3 DEF OneAttemptPerTask, NoBlindReplay
  <1>7. DirtyWaits'
    <2> SUFFICES ASSUME NEW t \in dirty'
                 PROVE  \/ tasks'[t].state \in {"waiting_observation"} \cup Terminal
                        \/ pc = "down" /\ tasks'[t].state = "running"
      BY <1>1 DEF DirtyWaits
    <2>1. t \in Tasks /\ t \in dirty
      BY <1>1 DEF TypeOK
    <2> QED BY <1>2, <2>1 DEF DirtyWaits, Terminal
  <1>8. WokenIsIdle'
    BY <1>1, <1>3 DEF WokenIsIdle
  <1> QED BY <1>1, <1>4, <1>5, <1>6, <1>7, <1>8

(* A step of the supervisor that leaves states and attempts alone.         *)
LEMMA AttemptsKept ==
  ASSUME TypeInv, Owned, Attempts, pc # "down", pc' \notin {"down", "fired"},
         \A t \in Tasks : tasks'[t].state = tasks[t].state,
         Busy' = Busy, \A a \in Busy : job'[a].task = job[a].task,
         UNCHANGED <<dirty, cli>>, Scanning' => Scanning /\ todo' \subseteq todo
  PROVE  Attempts'
  <1> USE DEF TypeInv, Attempts
  <1>1. \A t \in Tasks : WorkingOn(t)' = WorkingOn(t)
    BY DEF WorkingOn
  <1>2. ListedIsIdle'
    BY <1>1 DEF ListedIsIdle, Owned
  <1>3. BusyIsRunning' /\ OneAttemptPerTask' /\ NoBlindReplay'
    BY WorkersTask DEF BusyIsRunning, OneAttemptPerTask, NoBlindReplay
  <1>4. DirtyWaits' /\ WokenIsIdle'
    BY DEF DirtyWaits, WokenIsIdle, TypeOK
  <1>5. ResumedExists'
    <2>1. \A c \in Clients : cli[c] # None => cli[c].task \in Tasks
      BY DEF TypeOK, ClientRead
    <2> QED BY <2>1 DEF ResumedExists
  <1> QED BY <1>2, <1>3, <1>4, <1>5

LEMMA ProcessAttempts ==
  ASSUME TypeInv, Owned, Attempts, Process
  PROVE  Attempts'
  <1> USE DEF TypeInv, Attempts
  <1>s. \A t \in Tasks : tasks[t] \in Row
    BY DEF TypeOK
  <1>c. \A c \in Clients : cli[c] # None => cli[c].task \in Tasks
    BY DEF TypeOK, ClientRead
  <1>1. CASE Start
    <2>1. /\ Busy = {} /\ Busy' = {} /\ pc = "down" /\ pc' = "top" /\ UNCHANGED <<dirty, cli>>
          /\ ~Scanning'
      BY <1>1 DEF Start, Owned, Busy, Scanning, history
    <2>2. \A t \in Tasks :
            \/ tasks[t].state = "running" /\ tasks'[t].state = "waiting_observation"
            \/ tasks[t].state # "running" /\ tasks'[t] = tasks[t]
      BY <1>1, <1>s, RecoveredRow DEF Start, Terminal
    <2>3. DirtyWaits'
      BY <2>1, <2>2 DEF DirtyWaits, TypeOK
    <2>4. ResumedExists'
      BY <1>c, <2>1, <2>2 DEF ResumedExists
    <2> QED
      BY <2>1, <2>3, <2>4
      DEF ListedIsIdle, BusyIsRunning, OneAttemptPerTask, NoBlindReplay, WokenIsIdle
  <1>2. CASE Stop \/ Fault \/ Crash
    <2>1. /\ pc # "down" /\ pc' = "down" /\ Busy' = {} /\ cli' = cli /\ ~Scanning'
          /\ dirty' = dirty \cup {job[a].task : a \in {b \in Busy : job[b].intents > 0}}
      BY <1>2 DEF Stop, Fault, Crash, Close, ProcessGone, Busy, Scanning
    <2>2. \A t \in Tasks : tasks'[t] \in {tasks[t], Recovered(tasks[t])}
      BY <1>2 DEF Stop, Fault, Crash, Close
    <2>3. \A t \in Tasks :
            \/ tasks'[t] = tasks[t]
            \/ tasks[t].state \notin Terminal /\ tasks'[t].state = "waiting_observation"
      BY <1>s, <2>2, RecoveredRow
    <2>4. DirtyWaits'
      <3>1. \A t \in dirty : t \in Tasks /\ tasks[t].state \in {"waiting_observation"} \cup Terminal
        BY <2>1 DEF DirtyWaits, TypeOK
      <3>2. \A a \in Busy : job[a].task \in Tasks /\ tasks[job[a].task].state \in {"running"} \cup Terminal
        BY WorkersTask DEF BusyIsRunning
      <3> QED BY <2>1, <2>3, <3>1, <3>2 DEF DirtyWaits
    <2>5. ResumedExists'
      BY <1>c, <2>1, <2>3 DEF ResumedExists
    <2> QED
      BY <2>1, <2>4, <2>5
      DEF ListedIsIdle, BusyIsRunning, OneAttemptPerTask, NoBlindReplay, WokenIsIdle
  <1>3. ASSUME NEW go \in BOOLEAN, Begin(go) PROVE Attempts'
    <2>1. \A a \in Agents : job'[a] = job[a] \/ (a \in Busy /\ job'[a] = [job[a] EXCEPT !.st = "cancelled"])
      BY <1>3 DEF Begin, TypeOK
    <2>2. \A a \in Busy : [job[a] EXCEPT !.st = "cancelled"] \in Job
                          /\ [job[a] EXCEPT !.st = "cancelled"].task = job[a].task
      BY WorkersTask, JobFieldType, ReceiptKeepsTask
    <2>3. Busy' = Busy /\ \A a \in Busy : job'[a].task = job[a].task
      <3>1. ASSUME NEW a \in Agents
            PROVE  /\ a \notin Busy => job'[a] = None
                   /\ a \in Busy => job'[a] # None /\ job'[a].task = job[a].task
        <4>1. CASE a \in Busy
          BY <2>1, <2>2, <4>1, NoneIsNoJob, WorkersTask
        <4>2. CASE a \notin Busy
          BY <2>1, <4>2 DEF Busy
        <4> QED BY <4>1, <4>2
      <3> QED BY <3>1 DEF Busy
    <2> QED BY <1>3, <2>3, AttemptsKept DEF Begin, store, history, Scanning
  <1> QED BY <1>1, <1>2, <1>3 DEF Process

LEMMA FinishAttempts ==
  ASSUME TypeInv, Owned, Attempts, Finish
  PROVE  Attempts'
  <1> USE DEF TypeInv, Attempts
  <1>1. ASSUME NEW a \in Agents, Reviewing(a) PROVE Attempts'
    <2>1. Busy' = Busy /\ \A b \in Busy : job'[b].task = job[b].task
      BY <1>1, ReviewingRow DEF Busy
    <2> QED BY <1>1, <2>1, ReviewingRow, AttemptsKept DEF Scanning
  <1>2. CASE Settle
    <2> DEFINE j == job[cur]
               t == j.task
               o == Settlement(j, snap[t])
    <2>1. cur \in Busy /\ j \in Job /\ t \in Tasks /\ snap[t] \in Row
      BY <1>2, WorkersTask DEF Settle, HandlesAttempt, TypeOK
    <2>2. /\ o.state \in {"succeeded", "retry_wait"} \cup Waiting
          /\ j.st \in {"timed_out", "failed"} /\ j.intents > 0
               => o.state \in {"succeeded", "waiting_observation"}
      BY <2>1, SettlementStates
    <2>3. /\ pc = "commit" /\ pc' = "settle" /\ job' = [job EXCEPT ![cur] = None] /\ cli' = cli
          /\ IF snap[t].state = "cancelled" THEN tasks' = tasks
             ELSE Update(t, o.state, o.fb, o.state # "retry_wait")
          /\ dirty' = IF j.st \in {"timed_out", "failed"} /\ j.intents > 0
                        THEN dirty \cup {t} ELSE dirty
      BY <1>2 DEF Settle
    <2>4. \A u \in Tasks \ {t} : tasks'[u] = tasks[u]
      BY <2>1, <2>3, UpdateRow
    <2>5. IF tasks[t].state \in Terminal THEN tasks'[t] = tasks[t] ELSE tasks'[t].state = o.state
      BY <2>1, <2>3, UpdateRow DEF Owned, Terminal
    <2>6. Busy' = Busy \ {cur} /\ \A a \in Busy' : job'[a] = job[a] /\ job[a].task # t
      <3>1. Busy' = Busy \ {cur} /\ \A a \in Busy' : job'[a] = job[a]
        BY <2>1, <2>3 DEF Busy, TypeOK
      <3> QED BY <2>1, <3>1 DEF OneAttemptPerTask
    <2>7. t \notin dirty
      BY <2>1 DEF NoBlindReplay
    <2> HIDE DEF t, o, j
    <2>8. BusyIsRunning' /\ OneAttemptPerTask' /\ NoBlindReplay'
      <3>1. \A a \in Busy' : job[a].task \in Tasks \ {t}
        BY <2>6, WorkersTask
      <3> QED BY <2>3, <2>4, <2>6, <3>1 DEF BusyIsRunning, OneAttemptPerTask, NoBlindReplay
    <2>9. DirtyWaits'
      <3>1. \A u \in dirty : u \in Tasks \ {t} /\ tasks[u].state \in {"waiting_observation"} \cup Terminal
        BY <2>3, <2>7 DEF DirtyWaits, TypeOK
      <3> QED BY <2>2, <2>3, <2>4, <2>5, <3>1 DEF DirtyWaits, Terminal
    <2>10. ResumedExists'
      <3>1. \A c \in Clients : cli[c] # None => cli[c].task \in Tasks
        BY DEF TypeOK, ClientRead
      <3>2. o.state # "none"
        BY <2>2 DEF Waiting
      <3> QED BY <2>3, <2>4, <2>5, <3>1, <3>2 DEF ResumedExists
    <2> QED BY <2>3, <2>8, <2>9, <2>10 DEF ListedIsIdle, WokenIsIdle, Scanning
  <1>3. CASE SettleDone
    BY <1>3, AttemptsKept DEF SettleDone, store, history, Busy, Scanning
  <1> QED BY <1>1, <1>2, <1>3 DEF Finish

(* What fire_events makes of a row: new tasks, and at most one wake-up.    *)
LEMMA FireApplyRow ==
  ASSUME TypeInv, FireApply, NEW t \in Tasks
  PROVE  \/ tasks'[t] = tasks[t]
         \/ tasks[t].state = "none" /\ tasks'[t].state = "queued"
         \/ Wakes(t) /\ tasks'[t].state = "queued"
  <1>1. PICK new \in Created("trigger", signal /\ cur = None),
             due \in {{}} \cup Created("schedule", ScheduleEnabled /\ Active("schedule") = {}),
             k \in CheckSets \cup {NoChecks} :
          tasks' = [u \in Tasks |->
            IF u \in new \cup due THEN [Absent EXCEPT !.state = "queued", !.checks = k]
            ELSE IF Wakes(u) THEN [tasks[u] EXCEPT !.state = "queued", !.due = TRUE]
            ELSE tasks[u]]
    BY DEF FireApply
  <1>2. \A u \in new \cup due : tasks[u].state = "none"
    BY DEF Created, Fresh
  <1>3. [Absent EXCEPT !.state = "queued", !.checks = k].state = "queued"
    BY DEF Absent
  <1>4. [tasks[t] EXCEPT !.state = "queued", !.due = TRUE].state = "queued"
    BY DEF TypeInv, TypeOK, Row
  <1> QED BY <1>1, <1>2, <1>3, <1>4

(* What the scan makes of the rows: it launches, or puts one row aside.    *)
LEMMA ScanRow ==
  ASSUME TypeInv, Owned, NEW t \in Tasks,
         ScanExhausted(t) \/ ScanUnlaunchable(t) \/ ScanBusy(t)
  PROVE  /\ pc = "scan" /\ pc' = "scan" /\ t \in todo /\ todo' \subseteq todo \ {t}
         /\ UNCHANGED <<job, dirty, cli>>
         /\ \A u \in Tasks \ {t} : tasks'[u] = tasks[u]
         /\ tasks[t].state \in Terminal => tasks'[t] = tasks[t]
         /\ tasks[t].state \notin Terminal =>
              \/ tasks'[t] = tasks[t]
              \/ tasks'[t].state \in Ready \cup {"waiting_input"}
  <1>1. /\ pc = "scan" /\ pc' = "scan" /\ t \in todo /\ todo' \subseteq todo \ {t}
        /\ UNCHANGED <<job, dirty, cli>>
    BY DEF ScanExhausted, ScanUnlaunchable, ScanBusy, Scanned, history
  <1>2. snap[t].state \in Ready
    BY <1>1 DEF Owned, Scanning
  <1>3. \/ tasks' = tasks
        \/ \E s \in Ready \cup {"waiting_input"} : \E f, due : Update(t, s, f, due)
    BY <1>2 DEF ScanExhausted, ScanUnlaunchable, ScanBusy
  <1>4. CASE tasks' = tasks
    BY <1>1, <1>4
  <1>5. ASSUME NEW s \in Ready \cup {"waiting_input"}, NEW f, NEW due, Update(t, s, f, due)
        PROVE  /\ \A u \in Tasks \ {t} : tasks'[u] = tasks[u]
               /\ tasks[t].state \in Terminal => tasks'[t] = tasks[t]
               /\ tasks[t].state \notin Terminal => tasks'[t].state \in Ready \cup {"waiting_input"}
    BY <1>5, UpdateRow DEF TypeInv
  <1> QED BY <1>1, <1>3, <1>4, <1>5

LEMMA LaunchRow ==
  ASSUME TypeInv, NEW t \in Tasks, NEW a \in Agents, Launch(t, a)
  PROVE  /\ pc = "scan" /\ pc' = "scan" /\ t \in todo /\ todo' = todo \ {t}
         /\ a \notin Busy /\ Busy' = Busy \cup {a} /\ UNCHANGED <<dirty, cli>>
         /\ job'[a].task = t /\ \A b \in Busy : job'[b] = job[b]
         /\ \A u \in Tasks \ {t} : tasks'[u] = tasks[u]
         /\ IF tasks[t].state \in Terminal THEN tasks'[t] = tasks[t] ELSE tasks'[t].state = "running"
  <1> USE DEF TypeInv
  <1>0. PICK fits \in BOOLEAN : job' = [job EXCEPT ![a] = NewJob(t, snap[t], fits)]
    BY DEF Launch
  <1>1. /\ pc = "scan" /\ pc' = "scan" /\ t \in todo /\ todo' = todo \ {t} /\ a \notin Busy
        /\ UNCHANGED <<dirty, cli>>
    BY DEF Launch, Scanned, Free
  <1>2. NewJob(t, snap[t], fits) # None /\ NewJob(t, snap[t], fits).task = t
    BY NewJobType, NoneIsNoJob DEF TypeOK
  <1>3. Busy' = Busy \cup {a} /\ job'[a].task = t /\ \A b \in Busy : job'[b] = job[b]
    BY <1>0, <1>1, <1>2 DEF Busy, TypeOK
  <1>4. \A n, f : [tasks[t] EXCEPT !.state = "running", !.due = TRUE, !.attempt = n, !.fb = f].state
                    = "running"
    BY DEF TypeOK, Row
  <1>5. /\ \A u \in Tasks \ {t} : tasks'[u] = tasks[u]
        /\ IF tasks[t].state \in Terminal THEN tasks'[t] = tasks[t] ELSE tasks'[t].state = "running"
    BY <1>4 DEF Launch, TypeOK
  <1> QED BY <1>1, <1>3, <1>5

LEMMA ScanAttempts ==
  ASSUME TypeInv, Owned, Attempts, Scan
  PROVE  Attempts'
  <1> USE DEF TypeInv, Attempts
  <1>c. \A c \in Clients : cli[c] # None => cli[c].task \in Tasks
    BY DEF TypeOK, ClientRead
  <1>d. ~(pc = "down") => \A t \in dirty : t \in Tasks /\ tasks[t].state \in {"waiting_observation"} \cup Terminal
    BY DEF DirtyWaits, TypeOK
  <1>r. \A t \in Tasks : tasks[t].state \notin {"running"} \cup Terminal => WorkingOn(t) = {}
    BY DEF WorkingOn, BusyIsRunning
  <1>1. CASE FireIdle
    BY <1>1, AttemptsKept DEF FireIdle, store, history, Busy, Scanning
  <1>2. CASE FireSelect
    <2>1. /\ pc = "fire" /\ pc' = "fired" /\ UNCHANGED <<tasks, job, dirty, cli>>
          /\ \A t \in Tasks : t = cur' => snap'[t].state = tasks[t].state
      BY <1>2, ConstantsAssumption DEF FireSelect, store, history, TypeOK, Active
    <2>2. Busy' = Busy /\ \A t \in Tasks : WorkingOn(t)' = WorkingOn(t)
      BY <2>1 DEF Busy, WorkingOn
    <2>3. WokenIsIdle'
      BY <1>d, <1>r, <2>1, <2>2 DEF WokenIsIdle, Terminal
    <2> QED
      BY <2>1, <2>2, <2>3 DEF ListedIsIdle, Scanning, BusyIsRunning, OneAttemptPerTask,
        DirtyWaits, NoBlindReplay, ResumedExists
  <1>3. CASE FireApply
    <2>1. pc = "fired" /\ pc' = "list" /\ UNCHANGED <<job, dirty, cli>>
      BY <1>3 DEF FireApply, history
    <2>2. Busy' = Busy
      BY <2>1 DEF Busy
    <2>3. \A t \in Tasks : Wakes(t) => WorkingOn(t) = {} /\ t \notin dirty
      BY <2>1 DEF WokenIsIdle, Wakes
    <2>4. \A t \in Tasks : \/ tasks'[t] = tasks[t]
                           \/ /\ WorkingOn(t) = {} /\ t \notin dirty
                              /\ tasks'[t].state = "queued"
      <3>1. \A t \in Tasks : tasks[t].state = "none" => WorkingOn(t) = {} /\ t \notin dirty
        BY <1>d, <1>r, <2>1 DEF Terminal
      <3> QED BY <1>3, <2>3, <3>1, FireApplyRow
    <2>5. BusyIsRunning' /\ DirtyWaits'
      <3>1. \A a \in Busy : job[a].task \in Tasks /\ WorkingOn(job[a].task) # {}
        BY WorkersTask DEF WorkingOn
      <3> QED BY <1>d, <2>1, <2>2, <2>4, <3>1 DEF BusyIsRunning, DirtyWaits
    <2>6. ResumedExists'
      BY <1>c, <2>1, <2>4 DEF ResumedExists
    <2> QED
      BY <2>1, <2>2, <2>5, <2>6
      DEF ListedIsIdle, Scanning, OneAttemptPerTask, NoBlindReplay, WokenIsIdle
  <1>4. CASE ScanList
    <2>1. /\ pc = "list" /\ pc' = "scan" /\ UNCHANGED <<tasks, job, dirty, cli>>
          /\ todo' \subseteq {t \in Tasks : tasks[t].state \in Ready}
      BY <1>4 DEF ScanList, store, history
    <2>2. Busy' = Busy /\ \A t \in Tasks : WorkingOn(t)' = WorkingOn(t)
      BY <2>1 DEF Busy, WorkingOn
    <2>3. ListedIsIdle'
      BY <1>d, <1>r, <2>1, <2>2 DEF ListedIsIdle, Terminal, Ready
    <2> QED
      BY <2>1, <2>2, <2>3 DEF BusyIsRunning, OneAttemptPerTask, DirtyWaits, NoBlindReplay,
        WokenIsIdle, ResumedExists
  <1>5. CASE ScanDone
    BY <1>5, AttemptsKept DEF ScanDone, store, history, Busy, Scanning
  <1>6. ASSUME NEW t \in Tasks, ScanExhausted(t) \/ ScanUnlaunchable(t) \/ ScanBusy(t)
        PROVE  Attempts'
    <2>1. /\ pc = "scan" /\ pc' = "scan" /\ t \in todo /\ todo' \subseteq todo \ {t}
          /\ UNCHANGED <<job, dirty, cli>>
      BY <1>6, ScanRow
    <2>2. /\ \A u \in Tasks \ {t} : tasks'[u] = tasks[u]
          /\ \/ tasks'[t] = tasks[t]
             \/ tasks'[t].state \in Ready \cup {"waiting_input"}
      BY <1>6, ScanRow
    <2>3. Busy' = Busy /\ \A u \in Tasks : WorkingOn(u)' = WorkingOn(u)
      BY <2>1 DEF Busy, WorkingOn
    <2>4. tasks[t].state \in Ready \cup Terminal /\ WorkingOn(t) = {} /\ t \notin dirty
      BY <2>1 DEF ListedIsIdle, Scanning
    <2>5. ListedIsIdle'
      <3> SUFFICES ASSUME NEW u \in todo'
                   PROVE  /\ tasks'[u].state \in Ready \cup Terminal
                          /\ WorkingOn(u)' = {} /\ u \notin dirty'
        BY DEF ListedIsIdle
      <3>1. u \in todo /\ u \in Tasks \ {t}
        BY <2>1 DEF Owned, Scanning
      <3> QED BY <2>1, <2>2, <2>3, <2>4, <3>1 DEF ListedIsIdle, Scanning
    <2>6. BusyIsRunning'
      <3>1. \A a \in Busy : job[a].task \in Tasks \ {t}
        BY <2>4, WorkersTask DEF WorkingOn
      <3> QED BY <2>1, <2>2, <2>3, <3>1 DEF BusyIsRunning
    <2>7. DirtyWaits' /\ ResumedExists'
      BY <1>c, <1>d, <2>1, <2>2, <2>4 DEF DirtyWaits, ResumedExists, Ready
    <2> QED
      BY <2>1, <2>3, <2>5, <2>6, <2>7 DEF OneAttemptPerTask, NoBlindReplay, WokenIsIdle
  <1>7. ASSUME NEW t \in Tasks, NEW a \in Agents, Launch(t, a) PROVE Attempts'
    <2>1. /\ pc = "scan" /\ pc' = "scan" /\ t \in todo /\ todo' = todo \ {t}
          /\ a \notin Busy /\ Busy' = Busy \cup {a} /\ UNCHANGED <<dirty, cli>>
          /\ job'[a].task = t /\ \A b \in Busy : job'[b] = job[b]
          /\ \A u \in Tasks \ {t} : tasks'[u] = tasks[u]
          /\ IF tasks[t].state \in Terminal THEN tasks'[t] = tasks[t] ELSE tasks'[t].state = "running"
      BY <1>7, LaunchRow
    <2>2. tasks[t].state \in Ready \cup Terminal /\ WorkingOn(t) = {} /\ t \notin dirty
      BY <2>1 DEF ListedIsIdle, Scanning
    <2>3. \A b \in Busy : job[b].task \in Tasks \ {t}
      BY <2>2, WorkersTask DEF WorkingOn
    <2>4. ListedIsIdle'
      <3>1. \A u \in Tasks \ {t} : WorkingOn(u)' = WorkingOn(u)
        BY <2>1 DEF WorkingOn
      <3>2. todo \subseteq Tasks
        BY <2>1 DEF Owned, Scanning
      <3> QED BY <2>1, <3>1, <3>2 DEF ListedIsIdle, Scanning
    <2>5. BusyIsRunning' /\ OneAttemptPerTask' /\ NoBlindReplay'
      BY <2>1, <2>2, <2>3 DEF BusyIsRunning, OneAttemptPerTask, NoBlindReplay
    <2>6. DirtyWaits' /\ ResumedExists'
      BY <1>c, <1>d, <2>1, <2>2 DEF DirtyWaits, ResumedExists
    <2> QED BY <2>1, <2>4, <2>5, <2>6 DEF WokenIsIdle
  <1> QED BY <1>1, <1>2, <1>3, <1>4, <1>5, <1>6, <1>7 DEF Scan

LEMMA StepAttempts ==
  ASSUME TypeInv, Owned, Attempts, ResumesAreCurrent, [Next]_vars
  PROVE  Attempts'
  <1>1. CASE Broker
    BY <1>1, BrokerKeeps, AttemptsKept DEF Scanning
  <1>2. CASE UNCHANGED vars
    BY <1>2 DEF vars, store, supervisor, history, Attempts, ListedIsIdle, BusyIsRunning,
      OneAttemptPerTask, DirtyWaits, NoBlindReplay, WokenIsIdle, ResumedExists, Busy, WorkingOn,
      Scanning
  <1> QED
    BY <1>1, <1>2, TerminalsAttempts, ProcessAttempts, FinishAttempts, ScanAttempts DEF Next

LEMMA AttemptsInvariant == Spec /\ []ResumesAreCurrent => [](TypeInv /\ Owned /\ Attempts)
  <1>1. Init => Attempts
    BY DEF Init, Attempts, ListedIsIdle, BusyIsRunning, OneAttemptPerTask, DirtyWaits,
      NoBlindReplay, WokenIsIdle, ResumedExists, Busy, Scanning
  <1>2. TypeInv /\ Owned /\ Attempts /\ ResumesAreCurrent /\ [Next]_vars => Attempts'
    BY StepAttempts
  <1> QED BY <1>1, <1>2, OwnedInvariant, PTL DEF Spec

(* Whatever worker messages, terminals, wake-ups, stale scans, crashes and *)
(* restarts interleave, two worker processes never work on one task, as    *)
(* long as no attempt starts between a resume's read and its write.        *)
THEOREM AttemptsAreExclusive == Spec /\ []ResumesAreCurrent => []OneAttemptPerTask
  <1>1. Attempts => OneAttemptPerTask
    BY DEF Attempts
  <1> QED BY <1>1, AttemptsInvariant, PTL

(* An attempt that died after a tool intent, by a crash, a stop, a timeout *)
(* or a failure, is not replayed before somebody resumes its task.         *)
THEOREM LostAttemptsAreNotReplayed == Spec /\ []ResumesAreCurrent => []NoBlindReplay
  <1>1. Attempts => NoBlindReplay
    BY DEF Attempts
  <1> QED BY <1>1, AttemptsInvariant, PTL

-----------------------------------------------------------------------------
(***************************************************************************)
(* Success.  _finish reviews against the checks it read, and updates the   *)
(* row in a later transaction: they must still be the row's checks.        *)
(***************************************************************************)
ReviewedChecks ==
  pc = "commit" =>
    \/ tasks[job[cur].task].state \in Terminal
    \/ snap[job[cur].task].checks = tasks[job[cur].task].checks

LEMMA StepReviewedChecks ==
  ASSUME TypeInv, Attempts, ReviewedChecks, ResumesAreCurrent, [Next]_vars
  PROVE  ReviewedChecks'
  <1> USE DEF TypeInv
  <1>s. \A t \in Tasks : tasks[t] \in Row
    BY DEF TypeOK
  <1>1. ASSUME pc = "commit", UNCHANGED <<pc, snap, cur, job>>,
               LET t == job[cur].task IN
                 \/ tasks[t].state \in Terminal /\ tasks'[t].state = tasks[t].state
                 \/ tasks'[t].state = "cancelled"
                 \/ tasks'[t].checks = tasks[t].checks /\ tasks[t].state \notin Terminal
        PROVE  ReviewedChecks'
    BY <1>1 DEF ReviewedChecks, Terminal
  <1>2. CASE Terminals
    <2> SUFFICES ASSUME pc = "commit" PROVE ReviewedChecks'
      <3>1. pc' = pc
        BY <1>2, TerminalsRows DEF Attempts
      <3> QED BY <3>1 DEF ReviewedChecks
    <2> DEFINE t == job[cur].task
    <2>1. cur \in Busy /\ t \in Tasks /\ tasks[t].state \in {"running"} \cup Terminal
      BY WorkersTask DEF HandlesAttempt, BusyIsRunning, Attempts
    <2>2. UNCHANGED <<pc, snap, cur, job>>
      BY <1>2, TerminalsRows DEF Attempts
    <2>3. tasks[t].state \in Terminal => tasks'[t].state = tasks[t].state
      BY <1>2, <2>1, TerminalsRows DEF Attempts, Drifts, Terminal, Waiting, Ready
    <2> SUFFICES ASSUME tasks[t].state = "running"
                 PROVE  tasks'[t].state = "cancelled" \/ tasks'[t].checks = tasks[t].checks
      BY <1>1, <2>1, <2>2, <2>3 DEF Terminal
    <2>4. ASSUME NEW u \in Tasks, NEW f, NEW s, Update(u, s, f, TRUE) PROVE tasks'[t].checks = tasks[t].checks
      BY <2>1, <2>4, UpdateRow
    <2>5. ASSUME NEW u \in Tasks, Submit(u) PROVE tasks'[t] = tasks[t]
      BY <2>1, <2>5 DEF Submit, TypeOK
    <2>6. ASSUME NEW u \in Tasks, Elapse(u) PROVE tasks'[t].checks = tasks[t].checks
      <3>1. [tasks[u] EXCEPT !.due = TRUE].checks = tasks[u].checks
        BY <1>s DEF Row
      <3> QED BY <2>1, <2>6, <3>1 DEF Elapse, TypeOK
    <2>7. ASSUME NEW c \in Clients, ResumeSpec(c) PROVE tasks'[t] = tasks[t]
      <3>1. cli[c] # None /\ cli[c].task # t
        BY <2>7 DEF ResumeSpec, ResumesAreCurrent
      <3> QED BY <2>1, <2>7, <3>1 DEF ResumeSpec, TypeOK
    <2>8. ASSUME NEW c \in Clients, ResumeWrite(c) PROVE tasks'[t].checks = tasks[t].checks
      <3>1. cli[c].task \in Tasks
        BY <2>8 DEF ResumeWrite, TypeOK, ClientRead
      <3> QED BY <2>4, <2>8, <3>1 DEF ResumeWrite
    <2> HIDE DEF t
    <2> QED
      BY <1>2, <2>4, <2>5, <2>6, <2>7, <2>8
      DEF Terminals, Cancel, ResumeRead, Signal, RequestStop, store
  <1>3. ASSUME NEW a \in Agents, Reviewing(a) PROVE ReviewedChecks'
    BY <1>3, ReviewingRow DEF ReviewedChecks
  <1>4. CASE UNCHANGED vars
    BY <1>4 DEF vars, store, supervisor, ReviewedChecks
  <1>5. CASE Process \/ Broker \/ Settle \/ SettleDone \/ Scan
    <2>1. pc' # "commit"
      BY <1>5, BrokerKeeps
      DEF Process, Start, Stop, Fault, Crash, Close, ProcessGone, Begin, Settle, SettleDone, Scan,
        FireIdle, FireSelect, FireApply, ScanList, ScanDone, ScanExhausted, ScanUnlaunchable,
        ScanBusy, Scanned, Launch
    <2> QED BY <2>1 DEF ReviewedChecks
  <1> QED BY <1>2, <1>3, <1>4, <1>5 DEF Next, Finish

Verified ==
  \A t \in Tasks :
    tasks[t].state # "succeeded" /\ tasks'[t].state = "succeeded" =>
      \E a \in WorkingOn(t) :
        /\ tasks[t].checks \in CheckSets
        /\ job[a].ev[tasks[t].checks] = "pass"
        /\ job[a].intents <= job[a].receipts

(* Only Settle writes "succeeded".                                         *)
LEMMA StepVerified ==
  ASSUME TypeInv, Owned, Attempts, ReviewedChecks, ResumesAreCurrent, [Next]_vars
  PROVE  Verified
  <1> USE DEF TypeInv
  <1>1. ASSUME \A t \in Tasks : tasks'[t].state = "succeeded" => tasks[t].state = "succeeded"
        PROVE  Verified
    BY <1>1 DEF Verified
  <1>2. CASE Terminals
    BY <1>1, <1>2, TerminalsRows DEF Attempts, Drifts
  <1>3. CASE Process
    <2>1. \A t \in Tasks : tasks[t] \in Row /\ tasks'[t] \in {tasks[t], Recovered(tasks[t])}
      BY <1>3 DEF Process, Start, Stop, Fault, Crash, Close, ProcessGone, Begin, store, TypeOK
    <2> QED BY <1>1, <2>1, RecoveredRow DEF Terminal
  <1>4. CASE Broker
    BY <1>1, <1>4, BrokerKeeps
  <1>5. ASSUME NEW a \in Agents, Reviewing(a) PROVE Verified
    BY <1>1, <1>5, ReviewingRow
  <1>6. CASE Settle
    <2> DEFINE j == job[cur]
               t == j.task
               o == Settlement(j, snap[t])
    <2>1. cur \in Busy /\ j \in Job /\ t \in Tasks /\ snap[t] \in Row /\ cur \in WorkingOn(t)
      BY <1>6, WorkersTask DEF Settle, HandlesAttempt, TypeOK, WorkingOn
    <2>2. o.state = "succeeded" => /\ snap[t].checks \in CheckSets
                                   /\ j.ev[snap[t].checks] = "pass"
                                   /\ j.intents <= j.receipts
      BY <2>1, SettlementStates
    <2>3. pc = "commit" /\ \/ tasks' = tasks
                           \/ Update(t, o.state, o.fb, o.state # "retry_wait")
      BY <1>6 DEF Settle
    <2>4. \A u \in Tasks \ {t} : tasks'[u] = tasks[u]
      BY <2>1, <2>3, UpdateRow
    <2>5. \/ tasks'[t] = tasks[t]
          \/ tasks[t].state \notin Terminal /\ tasks'[t].state = o.state
      BY <2>1, <2>3, UpdateRow
    <2>6. tasks[t].state \notin Terminal => snap[t].checks = tasks[t].checks
      BY <2>3 DEF ReviewedChecks
    <2> HIDE DEF o, t
    <2> QED BY <2>1, <2>2, <2>4, <2>5, <2>6 DEF Verified
  <1>7. CASE SettleDone \/ FireIdle \/ FireSelect \/ ScanList \/ ScanDone \/ UNCHANGED vars
    BY <1>1, <1>7 DEF SettleDone, FireIdle, FireSelect, ScanList, ScanDone, store, vars
  <1>8. CASE FireApply
    BY <1>1, <1>8, FireApplyRow
  <1>9. ASSUME NEW t \in Tasks, ScanExhausted(t) \/ ScanUnlaunchable(t) \/ ScanBusy(t)
        PROVE  Verified
    <2>1. \A u \in Tasks : tasks'[u] = tasks[u] \/ tasks'[u].state \in Ready \cup {"waiting_input"}
      BY <1>9, ScanRow
    <2> QED BY <1>1, <2>1 DEF Ready
  <1>10. ASSUME NEW t \in Tasks, NEW a \in Agents, Launch(t, a) PROVE Verified
    BY <1>1, <1>10, LaunchRow
  <1> QED
    BY <1>2, <1>3, <1>4, <1>5, <1>6, <1>7, <1>8, <1>9, <1>10 DEF Next, Finish, Scan

(* A task succeeds only by receipts of its own attempt that satisfy the    *)
(* checks its row holds at that moment, although the review and the update *)
(* are two transactions and terminals write in between.                    *)
THEOREM SuccessIsEarned == Spec /\ []ResumesAreCurrent => SuccessIsVerified
  <1>1. Init => ReviewedChecks
    BY DEF Init, ReviewedChecks
  <1>2. TypeInv /\ Attempts /\ ReviewedChecks /\ ResumesAreCurrent /\ [Next]_vars => ReviewedChecks'
    BY StepReviewedChecks
  <1>3. TypeInv /\ Owned /\ Attempts /\ ReviewedChecks /\ ResumesAreCurrent /\ [Next]_vars =>
          [\A t \in Tasks :
             tasks[t].state # "succeeded" /\ tasks'[t].state = "succeeded" =>
               \E a \in WorkingOn(t) :
                 /\ tasks[t].checks \in CheckSets
                 /\ job[a].ev[tasks[t].checks] = "pass"
                 /\ job[a].intents <= job[a].receipts]_vars
    BY StepVerified DEF Verified
  <1> QED BY <1>1, <1>2, <1>3, AttemptsInvariant, PTL DEF Spec, SuccessIsVerified

-----------------------------------------------------------------------------
(***************************************************************************)
(* When resumes stay current.  The condition follows from the constants    *)
(* when one terminal resumes at a time, only tasks that wait, and no       *)
(* trigger wakes a waiting task behind its back; and when nobody resumes.  *)
(***************************************************************************)
ResumesAlone ==
  \/ MaxResumes = 0
  \/ /\ ResumeFrom \subseteq Waiting
     /\ \A c, d \in Clients : c = d
     /\ \A t \in Tasks : Origin[t] # "trigger"

ResumedWaits ==
  /\ \A c \in Clients : cli[c] # None =>
       MaxResumes # 0 /\ tasks[cli[c].task].state \in Waiting \cup Terminal
  /\ pc = "fired" /\ (\A t \in Tasks : Origin[t] # "trigger") => cur = None

LEMMA StepResumedWaits ==
  ASSUME ResumesAlone, TypeInv, Owned, Attempts, ResumedWaits, [Next]_vars
  PROVE  ResumedWaits'
  <1> USE DEF TypeInv
  <1>c. \A c \in Clients : cli[c] # None => cli[c].task \in Tasks
    BY DEF TypeOK, ClientRead
  <1>s. \A t \in Tasks : tasks[t] \in Row
    BY DEF TypeOK
  <1>w. /\ \A s \in Waiting \cup Terminal : s \notin Ready \cup {"running", "none"}
        /\ \A s \in Waiting : s \notin Terminal
        /\ "cancelled" \in Terminal /\ "waiting_observation" \in Waiting
    BY DEF Waiting, Ready, Terminal
  <1>f. pc' = "fired" /\ (\A t \in Tasks : Origin[t] # "trigger") => cur' = None
    <2>1. CASE Terminals
      BY <2>1 DEF ResumedWaits, Terminals, Submit, Cancel, Elapse, ResumeSpec, ResumeWrite,
        ResumeRead, Signal, RequestStop, supervisor
    <2>2. CASE UNCHANGED vars
      BY <2>2 DEF ResumedWaits, vars, supervisor
    <2>3. CASE FireSelect
      BY <2>3 DEF FireSelect, Active
    <2>4. CASE Process \/ Broker \/ Finish \/ (Scan /\ ~FireSelect)
      BY <2>4, BrokerKeeps
      DEF Process, Start, Stop, Fault, Crash, Close, ProcessGone, Begin, Finish, Reviewing,
        Settle, SettleDone, Scan, FireIdle, FireApply, ScanList, ScanDone, ScanExhausted,
        ScanUnlaunchable, ScanBusy, Scanned, Launch
    <2> QED BY <2>1, <2>2, <2>3, <2>4 DEF Next
  (* The other steps keep what terminals read, and the rows that wait.     *)
  <1> DEFINE Stays == \A t \in Tasks : tasks[t].state \in Waiting \cup Terminal
                                        => tasks'[t].state \in Waiting \cup Terminal
  <1>1. ASSUME Stays,
               \A c \in Clients : cli'[c] # None => cli[c] # None /\ cli'[c].task = cli[c].task
        PROVE  ResumedWaits'
    BY <1>1, <1>c, <1>f DEF ResumedWaits
  <1>2. ASSUME \A t \in Tasks : tasks'[t].state = tasks[t].state PROVE Stays
    BY <1>2
  <1> HIDE DEF Stays
  <1>3. ASSUME NEW t \in Tasks, Submit(t) \/ Cancel(t) \/ Elapse(t) PROVE ResumedWaits'
    <2>1. Submit(t) => Stays
      <3>1. Submit(t) => \A u \in Tasks : tasks'[u] = tasks[u] \/ tasks[u].state = "none"
        BY DEF Submit, TypeOK
      <3> QED BY <1>w, <3>1 DEF Stays
    <2>2. Cancel(t) => Stays
      BY <1>w, UpdateRow DEF Cancel, Stays
    <2>3. [tasks[t] EXCEPT !.due = TRUE].state = tasks[t].state
      BY <1>s DEF Row
    <2>4. Elapse(t) => Stays
      BY <1>2, <2>3 DEF Elapse, TypeOK
    <2> QED BY <1>1, <1>3, <2>1, <2>2, <2>4 DEF Submit, Cancel, Elapse
  <1>4. ASSUME NEW c \in Clients, ResumeSpec(c) PROVE ResumedWaits'
    <2>1. [tasks[cli[c].task] EXCEPT !.checks = cli[c].checks].state = tasks[cli[c].task].state
      BY <1>s, <1>c, <1>4 DEF Row, ResumeSpec
    <2>2. Stays
      BY <1>2, <1>4, <2>1 DEF ResumeSpec, TypeOK
    <2>3. cli[c] # None /\ [cli[c] EXCEPT !.checks = None].task = cli[c].task
      BY <1>4 DEF ResumeSpec, TypeOK, ClientRead
    <2>4. cli' = [cli EXCEPT ![c] = [cli[c] EXCEPT !.checks = None]]
      BY <1>4 DEF ResumeSpec
    <2> QED BY <1>1, <2>2, <2>3, <2>4 DEF TypeOK
  <1>5. ASSUME NEW c \in Clients, ResumeWrite(c) PROVE ResumedWaits'
    <2>1. cli[c] # None /\ cli' = [cli EXCEPT ![c] = None]
      BY <1>5 DEF ResumeWrite
    <2>2. \A d \in Clients : d = c
      BY <2>1 DEF ResumesAlone, ResumedWaits
    <2> QED BY <1>f, <2>1, <2>2 DEF ResumedWaits, TypeOK
  <1>6. ASSUME NEW c \in Clients, NEW t \in Tasks, ResumeRead(c, t) PROVE ResumedWaits'
    <2>1. MaxResumes # 0
      BY <1>6, ConstantsAssumption DEF ResumeRead, TypeOK
    <2>2. tasks[t].state \in Waiting
      BY <1>6, <2>1 DEF ResumeRead, Resumable, ResumesAlone
    <2>3. tasks' = tasks /\ \A d \in Clients :
            cli'[d] # None => cli'[d] = cli[d] \/ cli'[d].task = t
      BY <1>6 DEF ResumeRead, TypeOK, store
    <2> QED BY <1>f, <2>1, <2>2, <2>3 DEF ResumedWaits
  <1>7. CASE Signal \/ RequestStop \/ UNCHANGED vars
    BY <1>1, <1>2, <1>7 DEF Signal, RequestStop, vars, store
  <1>8. CASE Process
    <2>1. cli' = cli /\ \A t \in Tasks : tasks'[t] \in {tasks[t], Recovered(tasks[t])}
      BY <1>8 DEF Process, Start, Stop, Fault, Crash, Close, ProcessGone, Begin, store, TypeOK
    <2>2. Stays
      BY <1>s, <1>w, <2>1, RecoveredRow DEF Stays
    <2> QED BY <1>1, <2>1, <2>2
  <1>9. CASE Broker
    BY <1>1, <1>2, <1>9, BrokerKeeps
  <1>10. ASSUME NEW a \in Agents, Reviewing(a) PROVE ResumedWaits'
    BY <1>1, <1>2, <1>10, ReviewingRow
  <1>11. CASE Settle
    <2> DEFINE t == job[cur].task
    <2>1. cur \in Busy /\ t \in Tasks /\ tasks[t].state \in {"running"} \cup Terminal
      BY <1>11, WorkersTask DEF Settle, HandlesAttempt, Attempts, BusyIsRunning
    <2>2. cli' = cli /\ (tasks' = tasks \/ \E s, f, due : Update(t, s, f, due))
      BY <1>11 DEF Settle
    <2>3. \A u \in Tasks : tasks'[u] = tasks[u] \/ (u = t /\ tasks[u].state \notin Terminal)
      BY <2>1, <2>2, UpdateRow
    <2>4. Stays
      BY <1>w, <2>1, <2>3 DEF Stays
    <2> QED BY <1>1, <2>2, <2>4
  <1>12. CASE SettleDone \/ FireIdle \/ FireSelect \/ ScanList \/ ScanDone
    BY <1>1, <1>2, <1>12 DEF SettleDone, FireIdle, FireSelect, ScanList, ScanDone, store
  <1>13. CASE FireApply
    <2> SUFFICES ASSUME NEW c \in Clients, cli[c] # None, ~ResumedWaits' PROVE FALSE
      BY <1>1, <1>2, <1>13, <1>f DEF FireApply, ResumedWaits
    <2>1. \A t \in Tasks : Origin[t] # "trigger"
      BY DEF ResumesAlone, ResumedWaits
    <2>2. cur = None
      BY <1>13, <2>1 DEF ResumedWaits, FireApply
    <2>3. \A t \in Tasks : ~Wakes(t)
      BY <2>2, ConstantsAssumption DEF Wakes
    <2>4. \A t \in Tasks : tasks'[t] = tasks[t] \/ tasks[t].state = "none"
      BY <1>13, <2>3, FireApplyRow
    <2>5. Stays
      BY <1>w, <2>4 DEF Stays
    <2> QED BY <1>1, <1>13, <2>5 DEF FireApply
  <1>14. ASSUME NEW t \in Tasks, ScanExhausted(t) \/ ScanUnlaunchable(t) \/ ScanBusy(t)
         PROVE  ResumedWaits'
    <2>1. tasks[t].state \in Ready \cup Terminal
      BY <1>14, ScanRow DEF Attempts, ListedIsIdle, Scanning
    <2>2. Stays
      BY <1>14, <1>w, <2>1, ScanRow DEF Stays
    <2> QED BY <1>1, <1>14, <2>2, ScanRow
  <1>15. ASSUME NEW t \in Tasks, NEW a \in Agents, Launch(t, a) PROVE ResumedWaits'
    <2>1. tasks[t].state \in Ready \cup Terminal
      BY <1>15, LaunchRow DEF Attempts, ListedIsIdle, Scanning
    <2>2. Stays
      BY <1>15, <1>w, <2>1, LaunchRow DEF Stays
    <2> QED BY <1>1, <1>15, <2>2, LaunchRow
  <1> QED
    BY <1>3, <1>4, <1>5, <1>6, <1>7, <1>8, <1>9, <1>10, <1>11, <1>12, <1>13, <1>14, <1>15
    DEF Next, Terminals, Finish, Scan

LEMMA ResumedWaitsIsCurrent == ASSUME TypeInv, ResumedWaits PROVE ResumesAreCurrent
  BY DEF ResumedWaits, ResumesAreCurrent, Waiting, Terminal

(* With a single terminal that resumes tasks that wait, and no trigger,    *)
(* no attempt ever starts between a resume's read and its write.           *)
THEOREM LoneResumesAreCurrent == ASSUME ResumesAlone PROVE Spec => []ResumesAreCurrent
  <1>1. Init => Attempts /\ ResumedWaits
    BY DEF Init, Attempts, ListedIsIdle, BusyIsRunning, OneAttemptPerTask, DirtyWaits,
      NoBlindReplay, WokenIsIdle, ResumedExists, Busy, Scanning, ResumedWaits
  <1>2. TypeInv /\ Owned /\ Attempts /\ ResumedWaits /\ [Next]_vars => Attempts' /\ ResumedWaits'
    BY StepAttempts, StepResumedWaits, ResumedWaitsIsCurrent
  <1>3. TypeInv /\ ResumedWaits => ResumesAreCurrent
    BY ResumedWaitsIsCurrent
  <1> QED BY <1>1, <1>2, <1>3, OwnedInvariant, PTL DEF Spec

(* So there attempts are exclusive, lost ones are not replayed and success *)
(* is earned in every behaviour.                                           *)
THEOREM LoneResumesAreSafe ==
  ASSUME ResumesAlone
  PROVE  Spec => [](OneAttemptPerTask /\ NoBlindReplay) /\ SuccessIsVerified
  BY LoneResumesAreCurrent, AttemptsAreExclusive, LostAttemptsAreNotReplayed, SuccessIsEarned, PTL

-----------------------------------------------------------------------------
(***************************************************************************)
(* The message of a resume.  It is in the feedback of the row, and waits   *)
(* there for the scan: in the rows the scan has read, and in what another  *)
(* resume has read and will write back.                                    *)
(***************************************************************************)
Carries(row) == row.state \in Terminal \/ (row.state \in Ready \cup Waiting /\ row.fb.input)

ReadInput(c) ==
  cli[c] # None /\ cli[c].task \in owed => tasks[cli[c].task].state \in Terminal \/ cli[c].fb.input

MessageKept ==
  /\ MaxResumes = 0 => owed = {}
  /\ \A t \in owed : Carries(tasks[t])
  /\ Scanning => \A t \in todo : t \in owed => snap[t].fb.input
  /\ \A c \in Clients : ReadInput(c)

(* What an update leaves of the feedback.                                  *)
LEMMA UpdateFeedback ==
  ASSUME TypeOK, NEW t \in Tasks, NEW s, NEW f, NEW due, Update(t, s, f, due), tasks[t].state \notin Terminal
  PROVE  tasks'[t].fb = f
  BY DEF TypeOK, Update, Updated, Row

(* A step keeps the messages if it leaves the rows that carry one, and     *)
(* what was read of them.                                                  *)
LEMMA MessageStays ==
  ASSUME TypeOK, MessageKept, owed' \subseteq owed,
         \A t \in owed' : Carries(tasks'[t]) /\ (tasks[t].state \in Terminal => tasks'[t].state \in Terminal),
         Scanning' => Scanning /\ todo' \subseteq todo /\ snap' = snap,
         \A c \in Clients : cli'[c] # None =>
           cli[c] # None /\ cli'[c].task = cli[c].task /\ cli'[c].fb = cli[c].fb
  PROVE  MessageKept'
  <1>1. ASSUME NEW c \in Clients PROVE ReadInput(c)'
    BY DEF MessageKept, ReadInput
  <1> QED BY <1>1 DEF MessageKept

(* Terminals: a resume writes the feedback it read, with its own message.  *)
LEMMA ResumeMessage ==
  ASSUME ResumesAlone, TypeInv, Attempts, ResumedWaits, MessageKept, NEW c \in Clients, ResumeWrite(c)
  PROVE  MessageKept'
  <1> USE DEF TypeInv
  <1> DEFINE r == cli[c]
             t == r.task
  <1>1. /\ r # None /\ r \in ClientRead /\ t \in Tasks /\ MaxResumes # 0
        /\ tasks[t].state \in Waiting \cup Terminal
        /\ cli' = [cli EXCEPT ![c] = None]
        /\ Update(t, "queued", ResumedFeedback(r), TRUE)
        /\ UNCHANGED <<pc, back, todo, snap>>
    BY DEF ResumeWrite, TypeOK, ClientRead, ResumedWaits, supervisor
  <1>2. \A d \in Clients : d = c
    BY <1>1 DEF ResumesAlone, ResumedWaits
  <1>3. \A d \in Clients : cli'[d] = None
    BY <1>1, <1>2 DEF TypeOK
  <1>4. CASE tasks[t].state \in Terminal
    <2>1. owed' = owed
      BY <1>4 DEF ResumeWrite, history
    <2>2. tasks'[t] = tasks[t] /\ \A u \in Tasks \ {t} : tasks'[u] = tasks[u]
      BY <1>1, <1>4, UpdateRow
    <2>3. \A u \in owed' : tasks'[u] = tasks[u] /\ Carries(tasks[u])
      BY <2>1, <2>2 DEF TypeOK, MessageKept
    <2> QED BY <1>1, <1>3, <2>1, <2>3, MessageStays DEF Scanning
  <1>5. CASE tasks[t].state \notin Terminal
    <2>1. owed' = IF r.input THEN owed \cup {t} ELSE owed
      BY <1>5 DEF ResumeWrite
    <2>2. tasks'[t].state = "queued" /\ \A u \in Tasks \ {t} : tasks'[u] = tasks[u]
      BY <1>1, <1>5, UpdateRow
    <2>3. tasks'[t].fb.input = (r.fb.input \/ r.input)
      <3>1. tasks'[t].fb = ResumedFeedback(r)
        BY <1>1, <1>5, UpdateFeedback
      <3>2. r.fb \in Feedback /\ ResumedFeedback(r).input = (r.fb.input \/ r.input)
        BY <1>1 DEF ClientRead, ResumedFeedback, Feedback
      <3> QED BY <3>1, <3>2
    <2>4. t \in owed => r.fb.input
      BY <1>1, <1>5 DEF MessageKept, ReadInput
    <2>5. t \in owed' => Carries(tasks'[t])
      BY <2>1, <2>2, <2>3, <2>4 DEF Carries, Ready
    <2>6. \A u \in owed' : Carries(tasks'[u])
      BY <2>1, <2>2, <2>5 DEF MessageKept, TypeOK
    <2>7. Scanning => t \notin todo
      BY <1>1, <1>5 DEF Attempts, ListedIsIdle, Waiting, Ready, Terminal
    <2>8. Scanning' => \A u \in todo' : u \in owed' => snap'[u].fb.input
      BY <1>1, <2>1, <2>7 DEF MessageKept, Scanning
    <2>9. \A d \in Clients : ReadInput(d)'
      BY <1>3 DEF ReadInput
    <2> QED BY <1>1, <2>6, <2>8, <2>9 DEF MessageKept
  <1> QED BY <1>4, <1>5

LEMMA TerminalsMessage ==
  ASSUME ResumesAlone, TypeInv, Attempts, ResumedWaits, MessageKept, Terminals
  PROVE  MessageKept'
  <1> USE DEF TypeInv
  <1>s. \A t \in Tasks : tasks[t] \in Row
    BY DEF TypeOK
  <1>o. \A t \in owed : t \in Tasks /\ Carries(tasks[t])
    BY DEF TypeOK, MessageKept
  <1>1. ASSUME UNCHANGED <<pc, back, todo, snap, owed, cli>>,
               \A t \in owed : \/ tasks'[t].state \in Terminal
                               \/ tasks'[t].state = tasks[t].state /\ tasks'[t].fb = tasks[t].fb
        PROVE  MessageKept'
    <2>1. \A t \in owed' : Carries(tasks'[t]) /\ (tasks[t].state \in Terminal => tasks'[t].state \in Terminal)
      BY <1>o, <1>1 DEF Carries
    <2> QED BY <1>1, <2>1, MessageStays DEF Scanning
  <1>2. ASSUME NEW t \in Tasks, Submit(t) PROVE MessageKept'
    <2>1. tasks[t].state = "none" /\ \A u \in Tasks \ {t} : tasks'[u] = tasks[u]
      BY <1>2 DEF Submit, TypeOK
    <2>2. t \notin owed
      BY <1>o, <2>1 DEF Carries, Terminal, Ready, Waiting
    <2> QED BY <1>o, <1>1, <1>2, <2>1, <2>2 DEF Submit, supervisor, history
  <1>3. ASSUME NEW t \in Tasks, Cancel(t) PROVE MessageKept'
    <2>1. tasks'[t].state \in Terminal /\ \A u \in Tasks \ {t} : tasks'[u] = tasks[u]
      BY <1>3, UpdateRow DEF Cancel, Terminal
    <2> QED BY <1>o, <1>1, <1>3, <2>1 DEF Cancel, supervisor, history
  <1>4. ASSUME NEW t \in Tasks, Elapse(t) PROVE MessageKept'
    <2>1. [tasks[t] EXCEPT !.due = TRUE].state = tasks[t].state /\ [tasks[t] EXCEPT !.due = TRUE].fb = tasks[t].fb
      BY <1>s DEF Row
    <2>2. \A u \in Tasks : tasks'[u].state = tasks[u].state /\ tasks'[u].fb = tasks[u].fb
      BY <1>4, <2>1 DEF Elapse, TypeOK
    <2> QED BY <1>o, <1>1, <1>4, <2>2 DEF Elapse, supervisor, history
  <1>5. ASSUME NEW c \in Clients, ResumeSpec(c) PROVE MessageKept'
    <2> DEFINE t == cli[c].task
    <2>1. /\ cli[c] # None /\ cli[c] \in ClientRead /\ t \in Tasks
          /\ tasks' = [tasks EXCEPT ![t].checks = cli[c].checks]
          /\ cli' = [cli EXCEPT ![c] = [cli[c] EXCEPT !.checks = None]]
          /\ UNCHANGED <<pc, back, todo, snap, owed>>
      BY <1>5 DEF ResumeSpec, TypeOK, ClientRead, supervisor, history
    <2>2. [cli[c] EXCEPT !.checks = None].task = t /\ [cli[c] EXCEPT !.checks = None].fb = cli[c].fb
      BY <2>1 DEF ClientRead
    <2>3. \A d \in Clients : cli'[d] # None => cli[d] # None /\ cli'[d].task = cli[d].task /\ cli'[d].fb = cli[d].fb
      BY <2>1, <2>2 DEF TypeOK
    <2>4. /\ [tasks[t] EXCEPT !.checks = cli[c].checks].state = tasks[t].state
          /\ [tasks[t] EXCEPT !.checks = cli[c].checks].fb = tasks[t].fb
      BY <1>s, <2>1 DEF Row
    <2>5. \A u \in Tasks : tasks'[u].state = tasks[u].state /\ tasks'[u].fb = tasks[u].fb
      BY <2>1, <2>4 DEF TypeOK
    <2> HIDE DEF t
    <2>6. \A u \in owed' : Carries(tasks'[u]) /\ (tasks[u].state \in Terminal => tasks'[u].state \in Terminal)
      BY <1>o, <2>1, <2>5 DEF Carries
    <2> QED BY <2>1, <2>3, <2>6, MessageStays DEF Scanning
  <1>6. ASSUME NEW c \in Clients, NEW t \in Tasks, ResumeRead(c, t) PROVE MessageKept'
    <2>1. UNCHANGED <<tasks, pc, back, todo, snap, owed>>
      BY <1>6 DEF ResumeRead, store, supervisor, history
    <2>2. tasks[t].state \notin Terminal
      BY <1>6 DEF ResumeRead, Resumable
    <2>3. t \in owed => tasks[t].fb.input
      BY <1>o, <2>2 DEF Carries
    <2>4. ASSUME NEW d \in Clients PROVE ReadInput(d)'
      <3>1. \/ cli'[d] = cli[d]
            \/ cli'[d].task = t /\ cli'[d].fb = tasks[t].fb
        BY <1>6 DEF ResumeRead, TypeOK
      <3> QED BY <2>1, <2>3, <3>1 DEF ReadInput, MessageKept
    <2> QED BY <2>1, <2>4 DEF MessageKept, Scanning
  <1>7. CASE Signal \/ RequestStop
    BY <1>1, <1>7 DEF Signal, RequestStop, supervisor, history
  <1> QED BY <1>2, <1>3, <1>4, <1>5, <1>6, <1>7, ResumeMessage DEF Terminals

(* The process, the workers and _finish: they write no row that waits.     *)
LEMMA WorkMessage ==
  ASSUME TypeInv, Attempts, MessageKept, Process \/ Broker \/ Finish
  PROVE  MessageKept'
  <1> USE DEF TypeInv
  <1>o. \A t \in owed : /\ t \in Tasks /\ Carries(tasks[t])
                        /\ tasks[t].state = "running" => FALSE
    BY DEF TypeOK, MessageKept, Carries, Terminal, Ready, Waiting
  <1>1. ASSUME owed' = owed, cli' = cli, Scanning' => Scanning /\ todo' \subseteq todo /\ snap' = snap,
               \A t \in owed : tasks'[t].state = tasks[t].state /\ tasks'[t].fb = tasks[t].fb
        PROVE  MessageKept'
    <2>1. \A t \in owed' : Carries(tasks'[t]) /\ (tasks[t].state \in Terminal => tasks'[t].state \in Terminal)
      BY <1>o, <1>1 DEF Carries
    <2> QED BY <1>1, <2>1, MessageStays
  <1>2. CASE Start
    BY <1>o, <1>1, <1>2 DEF Start, Scanning, history
  <1>3. CASE Stop \/ Fault \/ Crash
    <2>1. owed' = owed /\ cli' = cli /\ pc' = "down"
      BY <1>3 DEF Stop, Fault, Crash, Close, ProcessGone
    <2>2. \A t \in Tasks : \/ tasks'[t] = tasks[t]
                           \/ WorkingOn(t) # {} /\ tasks'[t] = Recovered(tasks[t])
      BY <1>3 DEF Stop, Fault, Crash, Close
    <2>3. \A t \in Tasks : WorkingOn(t) # {} => tasks[t].state \in {"running"} \cup Terminal
      BY DEF WorkingOn, Attempts, BusyIsRunning
    <2>4. \A t \in owed : tasks'[t] = tasks[t]
      BY <1>o, <2>2, <2>3, RecoveredRow DEF TypeOK
    <2> QED BY <1>1, <2>1, <2>4 DEF Scanning
  <1>4. ASSUME NEW go \in BOOLEAN, Begin(go) PROVE MessageKept'
    BY <1>1, <1>4 DEF Begin, Scanning, store, history
  <1>5. CASE Broker
    <2>1. owed' = owed
      BY <1>5 DEF Broker, ToolRefused, ToolAllowed, WorkerEnds, ToolIntent, ToolIntentFails,
        ToolResult, ToolDenied, TaskFeedback, ToolUnobserved, Receipt, PollDone, history
    <2> QED BY <1>1, <1>5, <2>1, BrokerKeeps
  <1>6. ASSUME NEW a \in Agents, Reviewing(a) PROVE MessageKept'
    <2> DEFINE t == job[a].task
               row == [tasks[t] EXCEPT !.checks = job[a].proposal]
    <2>1. t \in Tasks
      BY <1>6, ReviewingRow
    <2>2. row.state = tasks[t].state /\ row.fb = tasks[t].fb
      BY <2>1 DEF TypeOK, Row
    <2>3. tasks' = tasks \/ tasks' = [tasks EXCEPT ![t] = row]
      BY <1>6 DEF Reviewing
    <2> HIDE DEF row, t
    <2>4. \A u \in Tasks : tasks'[u].state = tasks[u].state /\ tasks'[u].fb = tasks[u].fb
      BY <2>1, <2>2, <2>3 DEF TypeOK
    <2>5. owed' = owed /\ cli' = cli /\ pc' = "commit"
      BY <1>6 DEF Reviewing, history
    <2> QED BY <1>o, <1>1, <2>4, <2>5 DEF Scanning
  <1>7. CASE Settle
    <2> DEFINE t == job[cur].task
    <2>1. cur \in Busy /\ t \in Tasks /\ tasks[t].state \in {"running"} \cup Terminal
      BY <1>7, WorkersTask DEF Settle, HandlesAttempt, Attempts, BusyIsRunning
    <2>2. /\ cli' = cli /\ owed' = owed /\ pc' = "settle"
          /\ tasks' = tasks \/ \E s, f, due : Update(t, s, f, due)
      BY <1>7 DEF Settle
    <2>3. \A u \in Tasks : tasks'[u] = tasks[u] \/ (u = t /\ tasks[u].state \notin Terminal)
      BY <2>1, <2>2, UpdateRow
    <2>4. \A u \in owed : tasks'[u] = tasks[u]
      BY <1>o, <2>1, <2>3
    <2> QED BY <1>1, <2>2, <2>4 DEF Scanning
  <1>8. CASE SettleDone
    BY <1>1, <1>8 DEF SettleDone, Scanning, store, history
  <1> QED BY <1>2, <1>3, <1>4, <1>5, <1>6, <1>7, <1>8 DEF Process, Finish

(* The scan reads the rows with their messages, and writes back what it    *)
(* read of them.                                                           *)
LEMMA ScanMessage ==
  ASSUME ResumesAlone, TypeInv, Owned, Attempts, ResumedWaits, MessageKept, Scan
  PROVE  MessageKept'
  <1> USE DEF TypeInv
  <1>o. \A t \in owed : t \in Tasks /\ Carries(tasks[t])
    BY DEF TypeOK, MessageKept
  <1>1. ASSUME owed' = owed, cli' = cli, tasks' = tasks, ~Scanning' PROVE MessageKept'
    BY <1>o, <1>1, MessageStays
  <1>2. CASE FireIdle \/ FireSelect \/ ScanDone
    BY <1>1, <1>2 DEF FireIdle, FireSelect, ScanDone, Scanning, store, history
  <1>3. CASE FireApply
    <2>1. owed' = owed /\ cli' = cli /\ pc' = "list" /\ pc = "fired"
      BY <1>3 DEF FireApply, history
    <2>2. CASE MaxResumes = 0
      <3>1. owed = {} /\ \A c \in Clients : cli[c] = None
        BY <2>2 DEF MessageKept, ResumedWaits
      <3> QED BY <2>1, <3>1, MessageStays DEF Scanning
    <2>3. CASE MaxResumes # 0
      <3>1. cur = None
        BY <2>1, <2>3 DEF ResumesAlone, ResumedWaits
      <3>2. \A t \in Tasks : ~Wakes(t)
        BY <3>1, ConstantsAssumption DEF Wakes
      <3>3. \A t \in Tasks : tasks'[t] = tasks[t] \/ tasks[t].state = "none"
        BY <1>3, <3>2, FireApplyRow
      <3>4. \A t \in owed : tasks'[t] = tasks[t]
        BY <1>o, <3>3 DEF Carries, Terminal, Ready, Waiting
      <3> QED BY <1>o, <2>1, <3>4, MessageStays DEF Scanning
    <2> QED BY <2>2, <2>3
  <1>4. CASE ScanList
    <2>1. /\ UNCHANGED <<tasks, owed, cli>> /\ snap' = tasks
          /\ todo' = {t \in Tasks : tasks[t].state \in Ready /\ tasks[t].due}
      BY <1>4 DEF ScanList, store, history
    <2>2. \A t \in todo' : t \in owed' => snap'[t].fb.input
      BY <1>o, <2>1 DEF Carries, Ready, Terminal
    <2>3. \A c \in Clients : ReadInput(c)'
      BY <2>1 DEF MessageKept, ReadInput
    <2> QED BY <2>1, <2>2, <2>3 DEF MessageKept
  <1>5. ASSUME NEW t \in Tasks, ScanExhausted(t) \/ ScanUnlaunchable(t) \/ ScanBusy(t)
        PROVE  MessageKept'
    <2>1. /\ pc = "scan" /\ pc' = "scan" /\ t \in todo /\ todo' \subseteq todo /\ snap' = snap /\ cli' = cli
          /\ owed' \subseteq owed /\ \A u \in Tasks \ {t} : tasks'[u] = tasks[u]
          /\ tasks[t].state \in Terminal => tasks'[t] = tasks[t]
      BY <1>5, ScanRow DEF ScanExhausted, ScanUnlaunchable, ScanBusy, history
    <2>2. snap[t] \in Row /\ snap[t].fb \in Feedback /\ snap[t].state \in Ready
      BY <2>1 DEF TypeOK, Row, Owned, Scanning
    <2>3. t \in owed => snap[t].fb.input
      BY <2>1 DEF MessageKept, Scanning
    <2>4. t \in owed' /\ tasks[t].state \notin Terminal => Carries(tasks'[t])
      <3> SUFFICES ASSUME t \in owed', tasks[t].state \notin Terminal PROVE Carries(tasks'[t])
        OBVIOUS
      <3>1. CASE ScanExhausted(t)
        <4>1. [snap[t].fb EXCEPT !.stop = "budget"].input = snap[t].fb.input
          BY <2>2 DEF Feedback
        <4>2. tasks'[t].state = "waiting_input" /\ tasks'[t].fb = [snap[t].fb EXCEPT !.stop = "budget"]
          BY <3>1, UpdateRow, UpdateFeedback DEF ScanExhausted
        <4> QED BY <2>1, <2>3, <4>1, <4>2 DEF Carries, Waiting
      <3>2. CASE ScanUnlaunchable(t)
        BY <3>2 DEF ScanUnlaunchable
      <3>3. CASE ScanBusy(t)
        <4>1. [snap[t].fb EXCEPT !.busy = TRUE].input = snap[t].fb.input
          BY <2>2 DEF Feedback
        <4>2. \/ tasks' = tasks
              \/ tasks'[t].state = snap[t].state /\ tasks'[t].fb = [snap[t].fb EXCEPT !.busy = TRUE]
          BY <3>3, UpdateRow, UpdateFeedback DEF ScanBusy
        <4> QED BY <1>o, <2>1, <2>2, <2>3, <4>1, <4>2 DEF Carries
      <3> QED BY <1>5, <3>1, <3>2, <3>3
    <2>5. \A u \in owed' : Carries(tasks'[u]) /\ (tasks[u].state \in Terminal => tasks'[u].state \in Terminal)
      BY <1>o, <2>1, <2>4
    <2> QED BY <2>1, <2>5, MessageStays DEF Scanning
  <1>6. ASSUME NEW t \in Tasks, NEW a \in Agents, Launch(t, a) PROVE MessageKept'
    <2>1. /\ pc = "scan" /\ pc' = "scan" /\ todo' \subseteq todo /\ cli' = cli
          /\ \A u \in Tasks \ {t} : tasks'[u] = tasks[u]
      BY <1>6, LaunchRow
    <2>2. snap' = snap /\ owed' = owed \ {t}
      BY <1>6 DEF Launch
    <2>3. \A u \in owed' : tasks'[u] = tasks[u]
      BY <1>o, <2>1, <2>2
    <2> QED BY <1>o, <2>1, <2>2, <2>3, MessageStays DEF Scanning
  <1> QED BY <1>2, <1>3, <1>4, <1>5, <1>6 DEF Scan

(* Only the scan starts an attempt, from the row it read.                  *)
LEMMA StepMessage ==
  ASSUME TypeInv, MessageKept, [Next]_vars, NEW a \in Agents, job[a] = None, job'[a] # None, job'[a].task \in owed
  PROVE  job'[a].input # "none"
  <1> USE DEF TypeInv
  <1>1. \E t \in Tasks : Launch(t, a)
    <2>1. CASE Terminals
      BY <2>1 DEF Terminals, Submit, Cancel, Elapse, ResumeSpec, ResumeWrite, ResumeRead,
        Signal, RequestStop, supervisor
    <2>2. CASE UNCHANGED vars
      BY <2>2 DEF vars, supervisor
    <2>3. CASE Process
      BY <2>3 DEF Process, Start, Stop, Fault, Crash, Close, ProcessGone, Begin, Busy
    <2>4. CASE Broker
      BY <2>4, BrokerKeeps DEF Busy
    <2>5. CASE Finish
      BY <2>5 DEF Finish, Reviewing, Settle, SettleDone, TypeOK
    <2>6. CASE Scan
      <3>1. ASSUME NEW t \in Tasks, NEW b \in Agents, Launch(t, b) PROVE a = b
        BY <3>1, LaunchRow DEF Busy
      <3> QED BY <2>6, <3>1 DEF Scan, FireIdle, FireSelect, FireApply, ScanList, ScanDone,
        ScanExhausted, ScanUnlaunchable, ScanBusy
    <2> QED BY <2>1, <2>2, <2>3, <2>4, <2>5, <2>6 DEF Next
  <1>2. PICK t \in Tasks : Launch(t, a)
    BY <1>1
  <1>3. PICK fits \in BOOLEAN : job' = [job EXCEPT ![a] = NewJob(t, snap[t], fits)]
    BY <1>2 DEF Launch
  <1>4. job'[a] = NewJob(t, snap[t], fits) /\ t \in todo /\ pc = "scan"
    BY <1>2, <1>3 DEF Launch, TypeOK
  <1>5. job'[a].task = t
    BY <1>4, NewJobType DEF TypeOK
  <1>6. snap[t].fb.input
    BY <1>4, <1>5 DEF MessageKept, Scanning
  <1> QED BY <1>4, <1>6 DEF NewJob

(* With a single terminal that resumes tasks that wait, and no trigger,    *)
(* the first attempt after a resume with a message starts from a feedback  *)
(* that holds the message, whatever the scan read before, and whatever is  *)
(* stopped, crashes or is resumed again in between.                        *)
THEOREM MessagesReachWorkers == ASSUME ResumesAlone PROVE Spec => MessageReachesWorker
  <1>1. Init => Attempts /\ ResumedWaits /\ MessageKept
    BY DEF Init, Attempts, ListedIsIdle, BusyIsRunning, OneAttemptPerTask, DirtyWaits,
      NoBlindReplay, WokenIsIdle, ResumedExists, Busy, Scanning, ResumedWaits, MessageKept, ReadInput
  <1>2. TypeInv /\ Owned /\ Attempts /\ ResumedWaits /\ MessageKept /\ [Next]_vars
          => Attempts' /\ ResumedWaits' /\ MessageKept'
    <2>1. ASSUME TypeInv, MessageKept, UNCHANGED vars PROVE MessageKept'
      <3>1. UNCHANGED <<owed, tasks, pc, back, todo, snap, cli>>
        BY <2>1 DEF vars, store, supervisor, history
      <3>2. \A t \in owed : Carries(tasks[t])
        BY <2>1 DEF MessageKept
      <3> QED BY <2>1, <3>1, <3>2, MessageStays DEF Scanning, TypeInv
    <2> QED BY <2>1, StepAttempts, StepResumedWaits, ResumedWaitsIsCurrent, TerminalsMessage,
         WorkMessage, ScanMessage DEF Next
  <1>3. TypeInv /\ MessageKept /\ [Next]_vars =>
          [\A a \in Agents : job[a] = None /\ job'[a] # None =>
             (job'[a].task \in owed => job'[a].input # "none")]_vars
    BY StepMessage
  <1> QED BY <1>1, <1>2, <1>3, OwnedInvariant, PTL DEF Spec, MessageReachesWorker

-----------------------------------------------------------------------------
(***************************************************************************)
(* Refinement.  Every step does to every row what one of the actions of    *)
(* TaskLifecycle allows.                                                   *)
(***************************************************************************)
RowStep(t) ==
  LET s == tasks[t].state
      n == tasks'[t].state
  IN \/ n = s /\ (t \in dirty' <=> t \in dirty)
     \/ n = s /\ s \in Terminal
     \/ s = "none" /\ n \in Ready /\ (t \in dirty' <=> t \in dirty)
     \/ s \in Ready /\ n \in Ready /\ (t \in dirty' <=> t \in dirty)
     \/ s \in Ready /\ n = "running" /\ t \notin dirty /\ t \notin dirty'
     \/ s = "running" /\ n = "succeeded"
     \/ s = "running" /\ n \in Ready /\ t \notin dirty /\ t \notin dirty'
     \/ s = "running" /\ n = "running" /\ t \in dirty'
     \/ s \in Ready \cup {"running"} /\ n \in Waiting /\ (t \in dirty => t \in dirty')
     \/ s \in Waiting \cup Ready /\ n \in Ready /\ t \notin dirty'
     \/ s \notin Terminal \cup {"none"} /\ n = "cancelled"

LEMMA RowStepImplements ==
  ASSUME NEW t \in Tasks, tasks[t].state \in States, tasks'[t].state \in States, RowStep(t)
  PROVE  \/ Lifecycle!Accept(t) \/ Lifecycle!Attempt(t) \/ Lifecycle!Verify(t)
         \/ Lifecycle!Retry(t) \/ Lifecycle!Lose(t) \/ Lifecycle!Suspend(t)
         \/ Lifecycle!Resume(t) \/ Lifecycle!Wake(t) \/ Lifecycle!Cancel(t) \/ Lifecycle!Keep(t)
  <1> USE DEF Lifecycle!Move, Lifecycle!Phases, Lifecycle!Final, States, Terminal, Ready, Waiting, PhaseOf
  <1> DEFINE s == tasks[t].state
             n == tasks'[t].state
  <1>1. CASE n = s /\ (t \in dirty' <=> t \in dirty)
    BY <1>1 DEF Lifecycle!Keep
  <1>2. CASE n = s /\ s \in Terminal
    BY <1>2 DEF Lifecycle!Keep
  <1>3. CASE s = "none" /\ n \in Ready /\ (t \in dirty' <=> t \in dirty)
    BY <1>3 DEF Lifecycle!Accept
  <1>4. CASE s \in Ready /\ n \in Ready /\ (t \in dirty' <=> t \in dirty)
    BY <1>4 DEF Lifecycle!Keep
  <1>5. CASE s \in Ready /\ n = "running" /\ t \notin dirty /\ t \notin dirty'
    BY <1>5 DEF Lifecycle!Attempt
  <1>6. CASE s = "running" /\ n = "succeeded"
    BY <1>6 DEF Lifecycle!Verify
  <1>7. CASE s = "running" /\ n \in Ready /\ t \notin dirty /\ t \notin dirty'
    BY <1>7 DEF Lifecycle!Retry
  <1>8. CASE s = "running" /\ n = "running" /\ t \in dirty'
    BY <1>8 DEF Lifecycle!Lose
  <1>9. CASE s \in Ready \cup {"running"} /\ n \in Waiting /\ (t \in dirty => t \in dirty')
    BY <1>9 DEF Lifecycle!Suspend
  <1>10. CASE s \in Waiting \cup Ready /\ n \in Ready /\ t \notin dirty'
    BY <1>10 DEF Lifecycle!Resume
  <1>11. CASE s \notin Terminal \cup {"none"} /\ n = "cancelled"
    BY <1>11 DEF Lifecycle!Cancel
  <1> QED BY <1>1, <1>2, <1>3, <1>4, <1>5, <1>6, <1>7, <1>8, <1>9, <1>10, <1>11 DEF RowStep

LEMMA StepRows ==
  ASSUME TypeInv, Owned, Attempts, WakeIsFresh, ResumesAreCurrent, [Next]_vars
  PROVE  \A t \in Tasks : RowStep(t)
  <1> USE DEF TypeInv
  <1>s. \A t \in Tasks : tasks[t] \in Row /\ tasks[t].state \in States
    BY DEF TypeOK, Row
  <1>d. \A t \in dirty : t \in Tasks /\ tasks[t].state \in {"waiting_observation", "running"} \cup Terminal
    BY DEF Attempts, DirtyWaits, TypeOK
  <1>1. ASSUME \A t \in Tasks : tasks'[t].state = tasks[t].state, dirty' = dirty
        PROVE  \A t \in Tasks : RowStep(t)
    BY <1>1 DEF RowStep
  <1>2. CASE Terminals
    <2> SUFFICES ASSUME NEW t \in Tasks PROVE RowStep(t)
      OBVIOUS
    <2>1. /\ dirty' \subseteq dirty /\ (t \in dirty \ dirty' => tasks'[t].state = "queued")
          /\ \/ tasks'[t].state = tasks[t].state
             \/ tasks[t].state \notin Terminal \cup {"none"} /\ tasks'[t].state = "cancelled"
             \/ tasks[t].state = "none" /\ tasks'[t].state = "queued"
             \/ /\ tasks[t].state \in Waiting \cup Ready /\ tasks'[t].state = "queued"
                /\ t \notin dirty'
      BY <1>2, TerminalsRows DEF Attempts, Drifts
    <2>2. tasks[t].state = "none" => t \notin dirty
      BY <1>d DEF Terminal
    <2> QED BY <2>1, <2>2 DEF RowStep, Ready
  <1>3. CASE Start
    <2>1. dirty' = dirty /\ \A t \in Tasks :
            \/ tasks[t].state = "running" /\ tasks'[t].state = "waiting_observation"
            \/ tasks'[t] = tasks[t]
      BY <1>3, <1>s, RecoveredRow DEF Start, Terminal, history
    <2> QED BY <2>1 DEF RowStep, Waiting
  <1>4. CASE Stop \/ Fault \/ Crash
    <2> SUFFICES ASSUME NEW t \in Tasks PROVE RowStep(t)
      OBVIOUS
    <2>1. dirty' = dirty \cup {job[a].task : a \in {b \in Busy : job[b].intents > 0}}
      BY <1>4 DEF Stop, Fault, Crash, Close, ProcessGone
    <2>2. t \in dirty' \ dirty => tasks[t].state \in {"running"} \cup Terminal
      BY <2>1 DEF Attempts, BusyIsRunning
    <2>3. \/ tasks'[t] = tasks[t]
          \/ WorkingOn(t) # {} /\ tasks'[t] = Recovered(tasks[t])
      BY <1>4 DEF Stop, Fault, Crash, Close
    <2>4. WorkingOn(t) # {} => tasks[t].state \in {"running"} \cup Terminal
      BY DEF WorkingOn, Attempts, BusyIsRunning
    <2>5. \/ tasks'[t] = tasks[t]
          \/ tasks[t].state = "running" /\ tasks'[t].state = "waiting_observation"
      BY <1>s, <2>3, <2>4, RecoveredRow DEF Terminal
    <2> QED BY <2>1, <2>2, <2>5 DEF RowStep, Waiting
  <1>5. ASSUME NEW go \in BOOLEAN, Begin(go) PROVE \A t \in Tasks : RowStep(t)
    BY <1>1, <1>5 DEF Begin, store, history
  <1>6. CASE Broker
    BY <1>1, <1>6, BrokerKeeps
  <1>7. ASSUME NEW a \in Agents, Reviewing(a) PROVE \A t \in Tasks : RowStep(t)
    BY <1>1, <1>7, ReviewingRow
  <1>8. CASE Settle
    <2> DEFINE j == job[cur]
               t == j.task
               o == Settlement(j, snap[t])
    <2>1. /\ cur \in Busy /\ j \in Job /\ t \in Tasks /\ snap[t] \in Row
          /\ tasks[t].state \in {"running"} \cup Terminal /\ t \notin dirty
      BY <1>8, WorkersTask DEF Settle, HandlesAttempt, TypeOK, Attempts, BusyIsRunning, NoBlindReplay
    <2>2. /\ o.state \in {"succeeded", "retry_wait"} \cup Waiting
          /\ j.st \in {"timed_out", "failed"} /\ j.intents > 0
               => o.state \in {"succeeded", "waiting_observation"}
      BY <2>1, SettlementStates
    <2>3. /\ pc = "commit"
          /\ IF snap[t].state = "cancelled" THEN tasks' = tasks
             ELSE Update(t, o.state, o.fb, o.state # "retry_wait")
          /\ dirty' = IF j.st \in {"timed_out", "failed"} /\ j.intents > 0
                        THEN dirty \cup {t} ELSE dirty
      BY <1>8 DEF Settle
    <2>4. \A u \in Tasks \ {t} : tasks'[u] = tasks[u]
      BY <2>1, <2>3, UpdateRow
    <2>5. IF tasks[t].state \in Terminal THEN tasks'[t] = tasks[t] ELSE tasks'[t].state = o.state
      BY <2>1, <2>3, UpdateRow DEF Owned, Terminal
    <2> HIDE DEF o, t, j
    <2>6. RowStep(t)
      BY <2>1, <2>2, <2>3, <2>5 DEF RowStep, Waiting, Ready
    <2>7. \A u \in Tasks \ {t} : RowStep(u)
      BY <2>3, <2>4 DEF RowStep
    <2> QED BY <2>6, <2>7
  <1>9. CASE SettleDone \/ FireIdle \/ FireSelect \/ ScanList \/ ScanDone \/ UNCHANGED vars
    BY <1>1, <1>9 DEF SettleDone, FireIdle, FireSelect, ScanList, ScanDone, store, history, vars
  <1>10. CASE FireApply
    <2> SUFFICES ASSUME NEW t \in Tasks PROVE RowStep(t)
      OBVIOUS
    <2>1. pc = "fired" /\ dirty' = dirty
      BY <1>10 DEF FireApply, history
    <2>2. Wakes(t) => tasks[t].state \in Waiting \cup Ready /\ t \notin dirty
      BY <2>1 DEF Wakes, WakeIsFresh, Attempts, WokenIsIdle, Waiting, Ready
    <2> QED BY <1>10, <2>1, <2>2, FireApplyRow DEF RowStep, Ready
  <1>11. ASSUME NEW t \in Tasks, ScanExhausted(t) \/ ScanUnlaunchable(t) \/ ScanBusy(t)
         PROVE  \A u \in Tasks : RowStep(u)
    <2>1. tasks[t].state \in Ready \cup Terminal /\ dirty' = dirty
      BY <1>11, ScanRow DEF Attempts, ListedIsIdle, Scanning
    <2>2. \A u \in Tasks \ {t} : tasks'[u] = tasks[u]
      BY <1>11, ScanRow
    <2>3. \/ tasks'[t] = tasks[t]
          \/ tasks[t].state \in Ready /\ tasks'[t].state \in Ready \cup {"waiting_input"}
      BY <1>11, <2>1, ScanRow
    <2> QED BY <2>1, <2>2, <2>3 DEF RowStep, Waiting
  <1>12. ASSUME NEW t \in Tasks, NEW a \in Agents, Launch(t, a)
         PROVE  \A u \in Tasks : RowStep(u)
    <2>1. tasks[t].state \in Ready \cup Terminal /\ t \notin dirty /\ dirty' = dirty
      BY <1>12, LaunchRow DEF Attempts, ListedIsIdle, Scanning
    <2>2. /\ \A u \in Tasks \ {t} : tasks'[u] = tasks[u]
          /\ IF tasks[t].state \in Terminal THEN tasks'[t] = tasks[t] ELSE tasks'[t].state = "running"
      BY <1>12, LaunchRow
    <2> QED BY <2>1, <2>2 DEF RowStep
  <1> QED
    BY <1>2, <1>3, <1>4, <1>5, <1>6, <1>7, <1>8, <1>9, <1>10, <1>11, <1>12
    DEF Next, Process, Finish, Scan

(* Under the conditions that keep resumes current and wake-ups fresh, the  *)
(* ledger with its supervisor, stale scans, two-transaction updates and    *)
(* crashes implements the task lifecycle it promises.                      *)
THEOREM LedgerImplementsLifecycle ==
  ASSUME WakesAreSafe
  PROVE  Spec /\ []ResumesAreCurrent => ImplementsLifecycle
  <1>1. Init => Lifecycle!Init
    <2>1. PhaseOf("none") = "none"
      BY DEF PhaseOf, Ready, Waiting
    <2>2. Absent.state = "none"
      BY DEF Absent
    <2> SUFFICES ASSUME Init PROVE Lifecycle!Init
      OBVIOUS
    <2>3. [t \in Tasks |-> PhaseOf(tasks[t].state)] = [t \in Tasks |-> "none"]
      BY <2>1, <2>2 DEF Init
    <2>4. [t \in Tasks |-> t \in dirty /\ tasks[t].state \notin Terminal] = [t \in Tasks |-> FALSE]
      <3>1. \A t \in Tasks : (t \in dirty /\ tasks[t].state \notin Terminal) = FALSE
        BY DEF Init
      <3> QED BY Zenon, <3>1
    <2> QED BY <2>3, <2>4 DEF Lifecycle!Init
  <1>2. TypeInv /\ Owned /\ Attempts /\ WakeIsFresh /\ ResumesAreCurrent /\ [Next]_vars => Lifecycle!Next
    <2> SUFFICES ASSUME TypeInv, Owned, Attempts, WakeIsFresh, ResumesAreCurrent, [Next]_vars
                 PROVE  Lifecycle!Next
      OBVIOUS
    <2>1. \A t \in Tasks : tasks[t].state \in States /\ tasks'[t].state \in States
      BY StepTypeInv DEF TypeInv, TypeOK, Row
    <2>2. \A t \in Tasks : PhaseOf(tasks'[t].state) \in Lifecycle!Phases
      BY <2>1 DEF PhaseOf, Lifecycle!Phases, States, Terminal, Waiting, Ready
    <2>3. \A t \in Tasks :
            \/ Lifecycle!Accept(t) \/ Lifecycle!Attempt(t) \/ Lifecycle!Verify(t)
            \/ Lifecycle!Retry(t) \/ Lifecycle!Lose(t) \/ Lifecycle!Suspend(t)
            \/ Lifecycle!Resume(t) \/ Lifecycle!Wake(t) \/ Lifecycle!Cancel(t) \/ Lifecycle!Keep(t)
      BY <2>1, StepRows, RowStepImplements
    <2> QED BY <2>2, <2>3 DEF Lifecycle!Next
  <1> QED
    BY <1>1, <1>2, AttemptsInvariant, FreshInvariant, PTL
    DEF Spec, ImplementsLifecycle, Lifecycle!Spec

(* In the configurations of ResumesAlone that is so in every behaviour.    *)
THEOREM LoneResumesImplementLifecycle ==
  ASSUME WakesAreSafe, ResumesAlone
  PROVE  Spec => ImplementsLifecycle
  BY LoneResumesAreCurrent, LedgerImplementsLifecycle, PTL

-----------------------------------------------------------------------------
(***************************************************************************)
(* One task per rule, and one budget.  These two need no hypothesis: they  *)
(* hold whichever resumes, cancellations and wake-ups come between.        *)
(***************************************************************************)
(* A task that somebody names has a row.                                   *)
Named ==
  /\ \A a \in Busy : tasks[job[a].task].state # "none"
  /\ ResumedExists
  /\ Scanning => \A t \in todo : tasks[t].state # "none"

(* Between the SELECT of a rule's active task and the transaction no other *)
(* task of the rule becomes active; the one that was found may end there,  *)
(* and is woken all the same.                                              *)
Selected ==
  pc = "fired" => /\ Active("trigger") \subseteq {cur}
                  /\ cur \in Tasks => Origin[cur] = "trigger"

(* The attempts since the last resume are among those since its budget     *)
(* began.  A cancelled row whose agent is launched from a stale scan has   *)
(* one more, and no way back; unless fire_events is about to wake it.      *)
Spent(t) == used[t] + tasks[t].fb.budget <= tasks[t].attempt
Ended(t) == tasks[t].state \in Terminal /\ ~(pc = "fired" /\ cur = t)

(* A launch and the end of an attempt write the budget they read.  A       *)
(* resume that came between began a newer one, with no attempts yet.       *)
Listed == Scanning => \A t \in todo : /\ snap[t].attempt = tasks[t].attempt
                                      /\ used[t] + snap[t].fb.budget <= snap[t].attempt
Reviewed ==
  pc = "commit" => LET t == job[cur].task IN
    tasks[t].state \in Terminal \/ used[t] + snap[t].fb.budget <= tasks[t].attempt
ReadBefore == \A c \in Clients : cli[c] # None => cli[c].attempt <= tasks[cli[c].task].attempt
Budgets ==
  /\ AttemptBudget
  /\ \A t \in Tasks : /\ tasks[t].state = "none" => used[t] = 0
                      /\ Ended(t) \/ Spent(t)
  /\ Listed /\ Reviewed /\ ReadBefore

Rules == Named /\ OneTaskPerRule /\ Selected /\ Budgets

(* What a step does to a row that no launch and no rule reaches.           *)
Moved(t) ==
  \/ /\ tasks'[t].state = tasks[t].state /\ tasks'[t].attempt = tasks[t].attempt
     /\ tasks'[t].fb = tasks[t].fb /\ used'[t] = used[t]
  \/ /\ tasks[t].state \notin Terminal \cup {"none"} /\ tasks'[t].state # "none"
     /\ tasks'[t].attempt = tasks[t].attempt /\ used'[t] <= used[t]
     /\ used'[t] + tasks'[t].fb.budget <= tasks'[t].attempt
  \/ /\ tasks[t].state = "none" /\ tasks'[t].state = "queued" /\ Origin[t] = "manual"
     /\ tasks'[t].attempt = 0 /\ tasks'[t].fb = Blank /\ used'[t] = used[t]

LEMMA NumbersTyped ==
  ASSUME TypeOK, NEW t \in Tasks
  PROVE  /\ tasks[t] \in Row /\ tasks[t].attempt \in Nat /\ tasks[t].fb.budget \in Nat
         /\ snap[t] \in Row /\ snap[t].attempt \in Nat /\ snap[t].fb.budget \in Nat
         /\ used[t] \in Nat /\ tasks[t].fb \in Feedback /\ snap[t].fb \in Feedback
  BY DEF TypeOK, Row, Feedback

(* A guarded update keeps the attempts of the row, and may set its budget. *)
LEMMA UpdateMoves ==
  ASSUME TypeOK, NEW t \in Tasks, NEW s \in States \ {"none"}, NEW f, NEW due, Update(t, s, f, due),
         tasks[t].state # "none", used' = used,
         tasks[t].state \in Terminal \/ used[t] + f.budget <= tasks[t].attempt
  PROVE  \A u \in Tasks : Moved(u)
  <1>1. \A u \in Tasks \ {t} : tasks'[u] = tasks[u]
    BY UpdateRow
  <1>2. tasks[t].state \in Terminal => tasks'[t] = tasks[t]
    BY UpdateRow
  <1>3. tasks[t].state \notin Terminal =>
          tasks'[t].state = s /\ tasks'[t].fb = f /\ tasks'[t].attempt = tasks[t].attempt
    BY NumbersTyped DEF Update, Updated, Row, TypeOK
  <1>4. used[t] <= used[t]
    BY NumbersTyped
  <1> QED BY <1>1, <1>2, <1>3, <1>4 DEF Moved

(* What is kept while rows only move.                                      *)
LEMMA MovesKeepBudgets ==
  ASSUME TypeInv, TypeInv', Budgets, \A t \in Tasks : Moved(t),
         pc' = "fired" => \/ pc = "fired" /\ cur' = cur
                          \/ cur' \in Tasks => tasks[cur'].state \notin Terminal
  PROVE  /\ AttemptBudget'
         /\ \A t \in Tasks : /\ tasks'[t].state = "none" => used'[t] = 0
                             /\ Ended(t)' \/ Spent(t)'
  <1> SUFFICES ASSUME NEW t \in Tasks
               PROVE  /\ used'[t] <= MaxAttempts
                      /\ tasks'[t].state = "none" => used'[t] = 0
                      /\ Ended(t)' \/ Spent(t)'
    BY DEF AttemptBudget
  <1>1. /\ used[t] \in Nat /\ used'[t] \in Nat /\ tasks[t].fb.budget \in Nat /\ tasks[t].attempt \in Nat
        /\ MaxAttempts \in Nat
    BY NumbersTyped, ConstantsAssumption DEF TypeInv, TypeOK
  <1>2. /\ used[t] <= MaxAttempts
        /\ Ended(t) \/ Spent(t)
        /\ tasks[t].state = "none" => used[t] = 0
    BY DEF Budgets, AttemptBudget
  <1>3. ASSUME tasks'[t].state = tasks[t].state, tasks'[t].attempt = tasks[t].attempt,
               tasks'[t].fb = tasks[t].fb, used'[t] = used[t]
        PROVE  Ended(t)' \/ Spent(t)'
    BY <1>2, <1>3 DEF Ended, Spent
  <1>4. ASSUME tasks[t].state = "none", tasks'[t].fb = Blank, tasks'[t].attempt = 0, used'[t] = used[t]
        PROVE  Spent(t)'
    BY <1>2, <1>4 DEF Spent, Blank
  <1>5. Ended(t)' \/ Spent(t)'
    <2>1. ASSUME used'[t] + tasks'[t].fb.budget <= tasks'[t].attempt PROVE Spent(t)'
      BY <2>1 DEF Spent
    <2> QED BY <1>3, <1>4, <2>1 DEF Moved
  <1>m. used'[t] <= used[t] /\ (tasks'[t].state = "none" => tasks[t].state = "none" /\ used'[t] = used[t])
    BY <1>1 DEF Moved
  <1>6. used'[t] <= MaxAttempts
    BY <1>1, <1>2, <1>m
  <1>7. tasks'[t].state = "none" => used'[t] = 0
    BY <1>1, <1>2, <1>m
  <1> QED BY <1>5, <1>6, <1>7

LEMMA MovesKeepNumbers ==
  ASSUME TypeInv, Named, NEW t \in Tasks, Moved(t), tasks[t].state # "none"
  PROVE  /\ tasks'[t].state # "none" /\ tasks'[t].attempt = tasks[t].attempt /\ used'[t] <= used[t]
         /\ tasks[t].state \in Terminal => tasks'[t].state \in Terminal /\ used'[t] = used[t]
  BY NumbersTyped DEF Moved, TypeInv, Terminal

LEMMA MovesKeepNamed ==
  ASSUME TypeInv, Named, Owned, \A t \in Tasks : Moved(t),
         \A a \in Busy' : a \in Busy /\ job'[a].task = job[a].task,
         \A c \in Clients : cli'[c] # None =>
            \/ cli[c] # None /\ cli'[c].task = cli[c].task
            \/ cli'[c].task \in Tasks /\ tasks[cli'[c].task].state # "none",
         Scanning' => \A t \in todo' : t \in Tasks /\ tasks[t].state # "none"
  PROVE  Named'
  <1>1. \A t \in Tasks : tasks[t].state # "none" => tasks'[t].state # "none"
    BY MovesKeepNumbers
  <1>2. \A a \in Busy : job[a].task \in Tasks
    BY WorkersTask DEF TypeInv
  <1>3. \A c \in Clients : cli[c] # None => cli[c].task \in Tasks
    BY DEF TypeInv, TypeOK, ClientRead
  <1>4. ResumedExists'
    BY <1>1, <1>3 DEF Named, ResumedExists
  <1> QED BY <1>1, <1>2, <1>4 DEF Named

LEMMA MovesKeepOneTask ==
  ASSUME TypeInv, OneTaskPerRule, Selected, \A t \in Tasks : Moved(t),
         pc' = "fired" => pc = "fired" /\ cur' = cur
  PROVE  OneTaskPerRule' /\ Selected'
  <1>1. \A t \in Tasks : Origin[t] # "manual" /\ tasks'[t].state \notin Terminal \cup {"none"}
                         => tasks[t].state \notin Terminal \cup {"none"}
    BY DEF Moved
  <1>2. OneTaskPerRule'
    BY <1>1 DEF OneTaskPerRule
  <1>3. Active("trigger")' \subseteq Active("trigger")
    BY <1>1 DEF Active
  <1> QED BY <1>2, <1>3 DEF Selected

LEMMA MovesKeepListed ==
  ASSUME TypeInv, TypeInv', Named, Owned, Budgets, \A t \in Tasks : Moved(t),
         Scanning' => Scanning /\ todo' \subseteq todo /\ snap' = snap
  PROVE  Listed'
  <1> SUFFICES ASSUME Scanning', Scanning, NEW t \in todo
               PROVE  /\ snap[t].attempt = tasks'[t].attempt
                      /\ used'[t] + snap[t].fb.budget <= snap[t].attempt
    BY DEF Listed
  <1>1. t \in Tasks /\ tasks[t].state # "none"
    BY DEF Owned, Named
  <1>2. /\ used[t] \in Nat /\ used'[t] \in Nat /\ snap[t].fb.budget \in Nat /\ snap[t].attempt \in Nat
    BY <1>1, NumbersTyped DEF TypeInv, TypeOK
  <1> QED BY <1>1, <1>2, MovesKeepNumbers DEF Budgets, Listed

LEMMA MovesKeepReviewed ==
  ASSUME TypeInv, TypeInv', Named, Budgets, \A t \in Tasks : Moved(t),
         pc' = "commit" => pc = "commit" /\ cur' = cur /\ job' = job /\ snap' = snap
  PROVE  Reviewed'
  <1> SUFFICES ASSUME pc' = "commit", pc = "commit", cur' = cur, job' = job, snap' = snap
               PROVE  \/ tasks'[job[cur].task].state \in Terminal
                      \/ used'[job[cur].task] + snap[job[cur].task].fb.budget <= tasks'[job[cur].task].attempt
    BY DEF Reviewed
  <1> DEFINE t == job[cur].task
  <1>1. t \in Tasks /\ tasks[t].state # "none"
    BY WorkersTask DEF TypeInv, HandlesAttempt, Named
  <1>2. tasks[t].state \in Terminal \/ used[t] + snap[t].fb.budget <= tasks[t].attempt
    BY DEF Budgets, Reviewed
  <1> HIDE DEF t
  <1>3. /\ used[t] \in Nat /\ used'[t] \in Nat /\ snap[t].fb.budget \in Nat /\ tasks[t].attempt \in Nat
    BY <1>1, NumbersTyped DEF TypeInv, TypeOK
  <1>4. \/ tasks'[t].state \in Terminal
        \/ used'[t] + snap[t].fb.budget <= tasks'[t].attempt
    BY <1>1, <1>2, <1>3, MovesKeepNumbers
  <1> QED BY <1>4 DEF t

LEMMA MovesKeepReads ==
  ASSUME TypeInv, TypeInv', Named, ReadBefore, \A t \in Tasks : Moved(t),
         \A c \in Clients : cli'[c] # None =>
            \/ cli[c] # None /\ cli'[c].task = cli[c].task /\ cli'[c].attempt = cli[c].attempt
            \/ /\ cli'[c].task \in Tasks /\ tasks[cli'[c].task].state # "none"
               /\ cli'[c].attempt = tasks[cli'[c].task].attempt
  PROVE  ReadBefore'
  <1> SUFFICES ASSUME NEW c \in Clients, cli'[c] # None
               PROVE  cli'[c].attempt <= tasks'[cli'[c].task].attempt
    BY DEF ReadBefore
  <1> DEFINE t == cli'[c].task
             n == cli'[c].attempt
  <1>1. cli[c] # None => cli[c].task \in Tasks /\ tasks[cli[c].task].state # "none"
    BY DEF TypeInv, TypeOK, ClientRead, Named, ResumedExists
  <1>2. t \in Tasks /\ tasks[t].state # "none"
    BY <1>1
  <1>3. n <= tasks[t].attempt \/ n = tasks[t].attempt
    BY DEF ReadBefore
  <1> HIDE DEF t, n
  <1>4. tasks'[t].attempt = tasks[t].attempt /\ tasks[t].attempt \in Nat
    BY <1>2, MovesKeepNumbers, NumbersTyped DEF TypeInv
  <1>5. n <= tasks'[t].attempt
    BY <1>3, <1>4
  <1> QED BY <1>5 DEF t, n

(* A step that only moves rows, and starts nothing new.                    *)
LEMMA MovesKeepRules ==
  ASSUME TypeInv, TypeInv', Owned, Rules, \A t \in Tasks : Moved(t),
         \A a \in Busy' : a \in Busy /\ job'[a].task = job[a].task,
         \A c \in Clients : cli'[c] # None =>
            \/ cli[c] # None /\ cli'[c].task = cli[c].task /\ cli'[c].attempt = cli[c].attempt
            \/ /\ cli'[c].task \in Tasks /\ tasks[cli'[c].task].state # "none"
               /\ cli'[c].attempt = tasks[cli'[c].task].attempt,
         pc' = "fired" => pc = "fired" /\ cur' = cur,
         Scanning' => Scanning /\ todo' \subseteq todo /\ snap' = snap,
         pc' = "commit" => pc = "commit" /\ cur' = cur /\ job' = job /\ snap' = snap
  PROVE  Rules'
  <1> USE DEF Rules
  <1>1. Scanning => \A t \in todo : t \in Tasks /\ tasks[t].state # "none"
    BY DEF Owned, Named
  <1>2. Named'
    BY <1>1, MovesKeepNamed
  <1>3. OneTaskPerRule' /\ Selected'
    BY MovesKeepOneTask
  <1>4. Listed'
    BY MovesKeepListed
  <1>5. Reviewed'
    BY MovesKeepReviewed
  <1>6. ReadBefore'
    BY MovesKeepReads DEF Budgets
  <1>7. Budgets'
    BY <1>4, <1>5, <1>6, MovesKeepBudgets DEF Budgets
  <1> QED BY <1>2, <1>3, <1>7

LEMMA StillRows == ASSUME UNCHANGED <<tasks, used>> PROVE \A t \in Tasks : Moved(t)
  BY DEF Moved

LEMMA SpentRow ==
  ASSUME TypeInv, Budgets, NEW t \in Tasks, tasks[t].state \notin Terminal
  PROVE  used[t] + tasks[t].fb.budget <= tasks[t].attempt /\ used[t] + 0 <= tasks[t].attempt
  <1>1. used[t] + tasks[t].fb.budget <= tasks[t].attempt
    BY DEF Budgets, Ended, Spent
  <1>2. used[t] \in Nat /\ tasks[t].fb.budget \in Nat /\ tasks[t].attempt \in Nat
    BY NumbersTyped DEF TypeInv
  <1> QED BY <1>1, <1>2

(* A row told to wait forgets its budget: it had one more than it needs.   *)
LEMMA BlankMoves ==
  ASSUME TypeInv, Budgets, NEW t \in Tasks, NEW s \in States \ {"none"}, NEW due,
         Update(t, s, Blank, due), tasks[t].state # "none", used' = used
  PROVE  \A u \in Tasks : Moved(u)
  <1>1. Blank.budget = 0
    BY DEF Blank
  <1>2. tasks[t].state \in Terminal \/ used[t] + Blank.budget <= tasks[t].attempt
    BY <1>1, SpentRow
  <1> QED BY <1>2, UpdateMoves DEF TypeInv

LEMMA TerminalsRules ==
  ASSUME TypeInv, TypeInv', Owned, Rules, Terminals
  PROVE  Rules'
  <1> USE DEF TypeInv
  <1> DEFINE Rows == \A t \in Tasks : Moved(t)
             Clis == \A c \in Clients : cli'[c] # None =>
                \/ cli[c] # None /\ cli'[c].task = cli[c].task /\ cli'[c].attempt = cli[c].attempt
                \/ /\ cli'[c].task \in Tasks /\ tasks[cli'[c].task].state # "none"
                   /\ cli'[c].attempt = tasks[cli'[c].task].attempt
  <1>0. UNCHANGED <<pc, back, todo, snap, cur, job>>
    BY DEF Terminals, Submit, Cancel, Elapse, ResumeSpec, ResumeWrite, ResumeRead,
           Signal, RequestStop, supervisor
  <1>s. \A t \in Tasks : tasks[t] \in Row
    BY DEF TypeOK
  <1>c. \A c \in Clients : cli[c] # None => cli[c] \in ClientRead /\ cli[c].task \in Tasks
    BY DEF TypeOK, ClientRead
  <1>i. cli' = cli => Clis
    OBVIOUS
  <1> HIDE DEF Clis
  <1>1. ASSUME NEW t \in Tasks, Submit(t) PROVE Rows /\ Clis
    <2>1. PICK k \in CheckSets \cup {NoChecks} :
            tasks' = [tasks EXCEPT ![t] = [Absent EXCEPT !.state = "queued", !.checks = k]]
      BY <1>1 DEF Submit
    <2> DEFINE row == [Absent EXCEPT !.state = "queued", !.checks = k]
    <2>2. row.state = "queued" /\ row.attempt = 0 /\ row.fb = Blank
      BY DEF Absent
    <2> HIDE DEF row
    <2>3. /\ tasks[t].state = "none" /\ Origin[t] = "manual" /\ used' = used /\ cli' = cli
          /\ tasks'[t] = row /\ \A u \in Tasks \ {t} : tasks'[u] = tasks[u]
      BY <1>1, <2>1 DEF Submit, history, TypeOK, row
    <2> QED BY <1>i, <2>2, <2>3 DEF Moved
  <1>2. ASSUME NEW t \in Tasks, Cancel(t) PROVE Rows /\ Clis
    <2>1. /\ Update(t, "cancelled", Blank, TRUE) /\ tasks[t].state # "none" /\ used' = used
          /\ cli' = cli /\ "cancelled" \in States \ {"none"}
      BY <1>2 DEF Cancel, history, States, Terminal
    <2> QED BY <1>i, <2>1, BlankMoves DEF Rules
  <1>3. ASSUME NEW t \in Tasks, Elapse(t) PROVE Rows /\ Clis
    <2> DEFINE row == [tasks[t] EXCEPT !.due = TRUE]
    <2>1. row.state = tasks[t].state /\ row.attempt = tasks[t].attempt /\ row.fb = tasks[t].fb
      BY <1>s DEF Row
    <2>2. /\ tasks' = [tasks EXCEPT ![t] = row] /\ used' = used /\ cli' = cli
      BY <1>3 DEF Elapse, history
    <2> HIDE DEF row
    <2> QED BY <1>i, <2>1, <2>2 DEF TypeOK, Moved
  <1>4. ASSUME NEW c \in Clients, ResumeSpec(c) PROVE Rows /\ Clis
    <2> DEFINE t == cli[c].task
               row == [tasks[t] EXCEPT !.checks = cli[c].checks]
               r == [cli[c] EXCEPT !.checks = None]
    <2>1. t \in Tasks /\ cli[c] # None
      BY <1>4, <1>c DEF ResumeSpec
    <2>2. row.state = tasks[t].state /\ row.attempt = tasks[t].attempt /\ row.fb = tasks[t].fb
      BY <1>s, <2>1 DEF Row
    <2>3. r.task = cli[c].task /\ r.attempt = cli[c].attempt
      BY <1>c, <2>1 DEF ClientRead
    <2>4. tasks' = [tasks EXCEPT ![t] = row] /\ used' = used /\ cli' = [cli EXCEPT ![c] = r]
      BY <1>4 DEF ResumeSpec, history
    <2> HIDE DEF t, row, r
    <2>5. Rows
      BY <2>1, <2>2, <2>4 DEF TypeOK, Moved
    <2>6. Clis
      BY <2>1, <2>3, <2>4 DEF Clis, TypeOK
    <2> QED BY <2>5, <2>6
  <1>5. ASSUME NEW c \in Clients, ResumeWrite(c) PROVE Rows /\ Clis
    <2> DEFINE t == cli[c].task
               f == ResumedFeedback(cli[c])
    <2>1. /\ cli[c] # None /\ t \in Tasks /\ cli[c] \in ClientRead
          /\ Update(t, "queued", f, TRUE)
          /\ cli' = [cli EXCEPT ![c] = None]
          /\ IF tasks[t].state \in Terminal THEN used' = used ELSE used' = [used EXCEPT ![t] = 0]
      BY <1>5, <1>c DEF ResumeWrite, history
    <2>2. tasks[t].state # "none" /\ cli[c].attempt <= tasks[t].attempt
      BY <2>1 DEF Rules, Named, ResumedExists, Budgets, ReadBefore
    <2>3. f.budget = cli[c].attempt
      BY <2>1 DEF ResumedFeedback, ClientRead, Feedback
    <2>4. cli[c].attempt \in Nat /\ used[t] \in Nat /\ tasks[t].attempt \in Nat
      BY <2>1, NumbersTyped DEF ClientRead
    <2>5. /\ \A u \in Tasks \ {t} : tasks'[u] = tasks[u]
          /\ tasks[t].state \in Terminal => tasks'[t] = tasks[t]
      BY <2>1, UpdateRow
    <2>6. tasks[t].state \notin Terminal =>
            tasks'[t].state = "queued" /\ tasks'[t].fb = f /\ tasks'[t].attempt = tasks[t].attempt
      BY <1>s, <2>1 DEF Update, Updated, Row, TypeOK
    <2> HIDE DEF t, f
    <2>7. Clis
      BY <2>1 DEF Clis, TypeOK
    <2>8. CASE tasks[t].state \in Terminal
      BY <2>1, <2>5, <2>7, <2>8 DEF Moved
    <2>9. ASSUME tasks[t].state \notin Terminal PROVE Rows
      <3>1. used'[t] = 0 /\ \A u \in Tasks \ {t} : used'[u] = used[u]
        BY <2>1, <2>9 DEF TypeOK
      <3>2. used'[t] <= used[t] /\ used'[t] + tasks'[t].fb.budget <= tasks'[t].attempt
        BY <2>2, <2>3, <2>4, <2>6, <2>9, <3>1
      <3>3. Moved(t)
        BY <2>2, <2>6, <2>9, <3>2 DEF Moved
      <3> QED BY <2>5, <3>1, <3>3 DEF Moved
    <2> QED BY <2>7, <2>8, <2>9
  <1>6. ASSUME NEW c \in Clients, NEW t \in Tasks, ResumeRead(c, t) PROVE Rows /\ Clis
    <2>1. tasks' = tasks /\ used' = used /\ tasks[t].state # "none"
      BY <1>6 DEF ResumeRead, Resumable, store, history
    <2>2. Clis
      BY <1>6, <2>1 DEF ResumeRead, TypeOK, Clis
    <2> QED BY <2>1, <2>2, StillRows
  <1>7. ASSUME Signal \/ RequestStop PROVE Rows /\ Clis
    BY <1>7, <1>i, StillRows DEF Signal, RequestStop, history
  <1>8. Rows /\ Clis
    <2> HIDE DEF Rows
    <2> QED BY <1>1, <1>2, <1>3, <1>4, <1>5, <1>6, <1>7 DEF Terminals
  <1>9. /\ Busy' = Busy /\ job' = job /\ pc' = pc /\ cur' = cur /\ snap' = snap /\ todo' = todo
        /\ Scanning' = Scanning
    BY <1>0 DEF Busy, Scanning
  <1> QED BY <1>8, <1>9, MovesKeepRules DEF Clis

LEMMA RecoveredBudget ==
  ASSUME NEW row \in Row, row.state \notin Terminal
  PROVE  Recovered(row).attempt = row.attempt /\ Recovered(row).fb.budget = 0
  BY DEF Recovered, Updated, Row, Blank

LEMMA ProcessRules ==
  ASSUME TypeInv, TypeInv', Owned, Rules, Process
  PROVE  Rules'
  <1> USE DEF TypeInv
  <1>s. \A t \in Tasks : tasks[t] \in Row
    BY DEF TypeOK
  <1>r. ASSUME used' = used, NEW t \in Tasks, tasks'[t] = tasks[t] \/ tasks'[t] = Recovered(tasks[t]),
               tasks[t].state # "none"
        PROVE  Moved(t)
    <2>1. CASE tasks'[t] = tasks[t]
      BY <1>r, <2>1 DEF Moved
    <2>2. CASE tasks[t].state \in Terminal
      BY <1>r, <1>s, <2>2, RecoveredRow DEF Moved
    <2>3. CASE tasks[t].state \notin Terminal /\ tasks'[t] = Recovered(tasks[t])
      <3>1. /\ Recovered(tasks[t]).attempt = tasks[t].attempt
            /\ Recovered(tasks[t]).fb.budget = 0
            /\ Recovered(tasks[t]).state = "waiting_observation"
        BY <1>s, <2>3, RecoveredRow, RecoveredBudget
      <3>2. used[t] + 0 <= tasks[t].attempt /\ used[t] <= used[t]
        BY <2>3, SpentRow, NumbersTyped DEF Rules
      <3> QED BY <1>r, <2>3, <3>1, <3>2 DEF Moved
    <2> QED BY <1>r, <2>1, <2>2, <2>3
  <1>1. CASE Start
    <2>1. /\ pc' = "top" /\ job' = job /\ cli' = cli /\ used' = used /\ Busy' = Busy /\ ~Scanning'
      BY <1>1 DEF Start, Busy, Scanning, history
    <2>2. ASSUME NEW t \in Tasks PROVE Moved(t)
      <3>1. \/ tasks'[t] = tasks[t]
            \/ tasks[t].state # "none" /\ tasks'[t] = Recovered(tasks[t])
        BY <1>1 DEF Start
      <3> QED BY <1>r, <2>1, <3>1 DEF Moved
    <2> QED BY <2>1, <2>2, MovesKeepRules
  <1>2. CASE Stop \/ Fault \/ Crash
    <2>1. pc' = "down" /\ Busy' = {} /\ cli' = cli /\ used' = used /\ ~Scanning'
      BY <1>2 DEF Stop, Fault, Crash, Close, ProcessGone, Busy, Scanning
    <2>2. ASSUME NEW t \in Tasks PROVE Moved(t)
      <3>1. \/ tasks'[t] = tasks[t]
            \/ WorkingOn(t) # {} /\ tasks'[t] = Recovered(tasks[t])
        BY <1>2 DEF Stop, Fault, Crash, Close
      <3>2. WorkingOn(t) # {} => tasks[t].state # "none"
        BY DEF WorkingOn, Rules, Named
      <3> QED BY <1>r, <2>1, <3>1, <3>2 DEF Moved
    <2> QED BY <2>1, <2>2, MovesKeepRules
  <1>3. ASSUME NEW go \in BOOLEAN, Begin(go) PROVE Rules'
    <2>1. /\ tasks' = tasks /\ used' = used /\ cli' = cli /\ pc' = "poll" /\ back' = "poll" /\ ~Scanning'
      BY <1>3 DEF Begin, store, history, Scanning
    <2>2. ASSUME NEW a \in Busy' PROVE a \in Busy /\ job'[a].task = job[a].task
      <3>1. a \in Agents /\ job'[a] # None
        BY DEF Busy
      <3>2. job'[a] = job[a] \/ (a \in Busy /\ job'[a] = [job[a] EXCEPT !.st = "cancelled"])
        BY <1>3, <3>1 DEF Begin
      <3>3. a \in Busy
        BY <3>1, <3>2 DEF Busy
      <3>4. [job[a] EXCEPT !.st = "cancelled"].task = job[a].task
        BY <3>3, WorkersTask, ReceiptKeepsTask
      <3> QED BY <3>2, <3>3, <3>4
    <2> QED BY <2>1, <2>2, MovesKeepRules, StillRows
  <1> QED BY <1>1, <1>2, <1>3 DEF Process

LEMMA BrokerRules ==
  ASSUME TypeInv, TypeInv', Owned, Rules, Broker
  PROVE  Rules'
  <1>1. used' = used
    BY DEF Broker, ToolRefused, ToolAllowed, WorkerEnds, ToolIntent, ToolIntentFails,
      ToolResult, ToolDenied, TaskFeedback, ToolUnobserved, Receipt, PollDone, history
  <1>2. \A t \in Tasks : Moved(t)
    BY <1>1, BrokerKeeps, StillRows
  <1> QED BY <1>2, BrokerKeeps, MovesKeepRules

(* _finish hands on the budget it read.                                    *)
LEMMA SettlementBudget ==
  ASSUME NEW j \in Job, NEW s \in Row
  PROVE  Settlement(j, s).fb.budget = s.fb.budget
  <1> DEFINE v == Verdict(j, s.checks)
             kept == [Blank EXCEPT !.budget = s.fb.budget, !.replans = s.fb.replans,
                                   !.print = s.fb.print, !.same = s.fb.same]
             repeats == IF s.fb.print = v THEN s.fb.same + 1 ELSE 1
             seen == [kept EXCEPT !.print = v, !.same = repeats]
             b == s.fb.budget
  <1>1. kept.budget = b /\ seen.budget = b
    BY DEF Blank
  <1>2. [kept EXCEPT !.replans = @ + 1].budget = b
    BY DEF Blank
  <1>3. [seen EXCEPT !.stop = "stalled"].budget = b /\ [seen EXCEPT !.needsReplan = TRUE].budget = b
    BY DEF Blank
  <1>4. Settlement(j, s).fb \in {kept, [kept EXCEPT !.replans = @ + 1], seen,
                                 [seen EXCEPT !.stop = "stalled"], [seen EXCEPT !.needsReplan = TRUE]}
    <2> HIDE DEF b
    <2> QED BY DEF Settlement
  <1> HIDE DEF kept, seen
  <1> QED BY <1>1, <1>2, <1>3, <1>4

LEMMA FinishRules ==
  ASSUME TypeInv, TypeInv', Owned, Rules, Finish
  PROVE  Rules'
  <1> USE DEF TypeInv
  <1>1. ASSUME NEW a \in Agents, Reviewing(a) PROVE Rules'
    <2> DEFINE t == job[a].task
    <2>1. /\ a \in Busy /\ t \in Tasks /\ pc = "settle" /\ pc' = "commit" /\ cur' = a
          /\ UNCHANGED <<job, cli, used>> /\ snap'[t] = tasks'[t]
      BY <1>1, ReviewingRow DEF Reviewing, history
    <2>2. ASSUME NEW u \in Tasks PROVE Moved(u)
      <3> DEFINE row == [tasks[t] EXCEPT !.checks = job[a].proposal]
      <3>1. row.state = tasks[t].state /\ row.attempt = tasks[t].attempt /\ row.fb = tasks[t].fb
        BY <2>1 DEF TypeOK, Row
      <3>2. tasks' = tasks \/ tasks' = [tasks EXCEPT ![t] = row]
        BY <1>1 DEF Reviewing
      <3> HIDE DEF row, t
      <3> QED BY <2>1, <3>1, <3>2 DEF TypeOK, Moved
    <2>3. Busy' = Busy /\ ~Scanning'
      BY <2>1 DEF Busy, Scanning
    <2>4. Named'
      BY <2>1, <2>2, <2>3, MovesKeepNamed DEF Rules
    <2>5. OneTaskPerRule' /\ Selected'
      BY <2>1, <2>2, MovesKeepOneTask DEF Rules
    <2>6. ReadBefore'
      BY <2>1, <2>2, MovesKeepReads DEF Rules, Budgets
    <2>7. /\ AttemptBudget'
          /\ \A u \in Tasks : /\ tasks'[u].state = "none" => used'[u] = 0
                              /\ Ended(u)' \/ Spent(u)'
      BY <2>1, <2>2, MovesKeepBudgets DEF Rules
    <2>8. Reviewed'
      <3>1. t = job'[cur'].task
        BY <2>1
      <3>2. \A u \in Tasks : \/ tasks'[u].state \in Terminal
                            \/ used'[u] + tasks'[u].fb.budget <= tasks'[u].attempt
        BY <2>7 DEF Ended, Spent
      <3> HIDE DEF t
      <3>3. \/ tasks'[t].state \in Terminal
            \/ used'[t] + snap'[t].fb.budget <= tasks'[t].attempt
        BY <2>1, <3>2
      <3> QED BY <3>1, <3>3 DEF Reviewed
    <2>9. Budgets'
      BY <2>3, <2>6, <2>7, <2>8 DEF Budgets, Listed
    <2> QED BY <2>4, <2>5, <2>9 DEF Rules
  <1>2. CASE Settle
    <2> DEFINE t == job[cur].task
               o == Settlement(job[cur], snap[t])
    <2>1. cur \in Busy /\ job[cur] \in Job /\ t \in Tasks /\ snap[t] \in Row
      BY <1>2, WorkersTask DEF Settle, HandlesAttempt, TypeOK
    <2>2. o.state \in States \ {"none"} /\ o.fb.budget = snap[t].fb.budget
      BY <2>1, SettlementType, SettlementBudget
    <2>3. /\ pc = "commit" /\ pc' = "settle" /\ job' = [job EXCEPT ![cur] = None] /\ cli' = cli
          /\ used' = used
          /\ \/ tasks' = tasks
             \/ Update(t, o.state, o.fb, o.state # "retry_wait")
      BY <1>2 DEF Settle
    <2>4. tasks[t].state # "none"
      BY <2>1 DEF Rules, Named
    <2>5. tasks[t].state \in Terminal \/ used[t] + o.fb.budget <= tasks[t].attempt
      BY <2>2, <2>3 DEF Rules, Budgets, Reviewed
    <2> HIDE DEF t, o
    <2>6. \A u \in Tasks : Moved(u)
      BY <2>1, <2>2, <2>3, <2>4, <2>5, UpdateMoves, StillRows
    <2>7. ~Scanning' /\ \A a \in Busy' : a \in Busy /\ job'[a] = job[a]
      BY <2>1, <2>3 DEF Scanning, Busy, TypeOK
    <2> QED BY <2>3, <2>6, <2>7, MovesKeepRules
  <1>3. CASE SettleDone
    <2>1. /\ UNCHANGED <<tasks, used, job, cli>> /\ pc' \in {"fire", "top"} /\ Busy' = Busy /\ ~Scanning'
      BY <1>3 DEF SettleDone, store, history, Busy, Scanning
    <2> QED BY <2>1, StillRows, MovesKeepRules
  <1> QED BY <1>1, <1>2, <1>3 DEF Finish

(***************************************************************************)
(* fire_events makes at most one task of each rule, and only of a rule     *)
(* that has none.                                                          *)
(***************************************************************************)
LEMMA FireApplyRules ==
  ASSUME TypeInv, TypeInv', Owned, Rules, FireApply
  PROVE  Rules'
  <1> USE DEF TypeInv
  <1>0. /\ pc = "fired" /\ pc' = "list" /\ UNCHANGED <<job, cli, used>> /\ Busy' = Busy
        /\ ~Scanning'
    BY DEF FireApply, history, Busy, Scanning
  <1>1. PICK new \in Created("trigger", signal /\ cur = None),
             due \in {{}} \cup Created("schedule", ScheduleEnabled /\ Active("schedule") = {}),
             k \in CheckSets \cup {NoChecks} :
          tasks' = [u \in Tasks |->
            IF u \in new \cup due THEN [Absent EXCEPT !.state = "queued", !.checks = k]
            ELSE IF Wakes(u) THEN [tasks[u] EXCEPT !.state = "queued", !.due = TRUE]
            ELSE tasks[u]]
    BY DEF FireApply
  <1>2. /\ \A u \in new : u \in Fresh("trigger") /\ cur = None
        /\ \A u \in due : u \in Fresh("schedule") /\ Active("schedule") = {}
        /\ \A u, w \in new : u = w
        /\ \A u, w \in due : u = w
    <2>1. new = {} \/ (signal /\ cur = None /\ \E u \in Fresh("trigger") : new = {u})
      BY DEF Created
    <2>2. due = {} \/ (Active("schedule") = {} /\ \E u \in Fresh("schedule") : due = {u})
      BY DEF Created
    <2> QED BY <2>1, <2>2
  <1>3. cur = None => Active("trigger") = {}
    BY <1>0, ConstantsAssumption DEF Rules, Selected, Active
  <1>4. ASSUME NEW t \in new \cup due
        PROVE  /\ t \in Tasks /\ tasks[t].state = "none" /\ Origin[t] # "manual"
               /\ Active(Origin[t]) = {}
               /\ tasks'[t].attempt = 0 /\ tasks'[t].fb = Blank /\ tasks'[t].state = "queued"
    <2>1. /\ [Absent EXCEPT !.state = "queued", !.checks = k].attempt = 0
          /\ [Absent EXCEPT !.state = "queued", !.checks = k].fb = Blank
          /\ [Absent EXCEPT !.state = "queued", !.checks = k].state = "queued"
      BY DEF Absent
    <2> QED BY <1>1, <1>2, <1>3, <1>4, <2>1 DEF Fresh
  <1>5. ASSUME NEW t \in Tasks, t \notin new \cup due, Wakes(t)
        PROVE  /\ tasks'[t].attempt = tasks[t].attempt /\ tasks'[t].fb = tasks[t].fb
               /\ tasks'[t].state = "queued" /\ t = cur
    <2> DEFINE row == [tasks[t] EXCEPT !.state = "queued", !.due = TRUE]
    <2>1. row.attempt = tasks[t].attempt /\ row.fb = tasks[t].fb /\ row.state = "queued"
      BY DEF TypeOK, Row
    <2>2. tasks'[t] = row
      BY <1>1, <1>5
    <2> HIDE DEF row
    <2> QED BY <1>5, <2>1, <2>2 DEF Wakes
  <1>6. ASSUME NEW t \in Tasks, t \notin new \cup due, ~Wakes(t)
        PROVE  tasks'[t] = tasks[t]
    BY <1>1, <1>6
  <1> HIDE DEF Created
  <1>7. ASSUME NEW t \in Tasks
        PROVE  /\ tasks[t].state # "none" => /\ tasks'[t].state # "none"
                                             /\ tasks'[t].attempt = tasks[t].attempt
               /\ tasks'[t].state = "none" => used'[t] = 0
               /\ Spent(t)' \/ Ended(t)'
               /\ used'[t] <= MaxAttempts
    <2>1. /\ used[t] <= MaxAttempts /\ (Ended(t) \/ Spent(t)) /\ used' = used
          /\ tasks[t].state = "none" => used[t] = 0
      BY <1>0 DEF Rules, Budgets, AttemptBudget
    <2>2. CASE t \in new \cup due
      BY <1>4, <2>1, <2>2 DEF Spent, Blank
    <2>3. CASE t \notin new \cup due /\ Wakes(t)
      BY <1>0, <1>5, <2>1, <2>3 DEF Ended, Spent
    <2>4. CASE t \notin new \cup due /\ ~Wakes(t)
      BY <1>0, <1>6, <2>1, <2>4 DEF Ended, Spent
    <2> QED BY <2>2, <2>3, <2>4
  <1>8. OneTaskPerRule'
    <2>1. ASSUME NEW t \in Tasks, Origin[t] # "manual", tasks'[t].state \notin Terminal \cup {"none"}
          PROVE  \/ t \in new /\ Origin[t] = "trigger" /\ cur = None
                 \/ t \in due /\ Origin[t] = "schedule" /\ Active("schedule") = {}
                 \/ t = cur /\ Origin[t] = "trigger"
                 \/ tasks[t].state \notin Terminal \cup {"none"}
      <3>1. CASE t \in new \cup due
        BY <1>2, <3>1 DEF Fresh
      <3>2. CASE t \notin new \cup due /\ Wakes(t)
        BY <1>0, <1>5, <3>2 DEF Rules, Selected
      <3>3. CASE t \notin new \cup due /\ ~Wakes(t)
        BY <1>6, <2>1, <3>3
      <3> QED BY <3>1, <3>2, <3>3
    <2>2. \A t \in Tasks : tasks[t].state \notin Terminal \cup {"none"} => t \in Active(Origin[t])
      BY DEF Active
    <2>3. Active("trigger") \subseteq {cur} /\ None \notin Tasks
      BY <1>0, ConstantsAssumption DEF Rules, Selected
    <2>4. ASSUME NEW t \in Tasks, NEW u \in Tasks, Origin[t] = Origin[u], Origin[t] # "manual",
                 tasks[t].state \notin Terminal \cup {"none"},
                 tasks[u].state \notin Terminal \cup {"none"}
          PROVE  t = u
      <3>1. {tasks[t].state, tasks[u].state} \cap (Terminal \cup {"none"}) = {}
        BY <2>4
      <3> QED BY <2>4, <3>1 DEF Rules, OneTaskPerRule
    <2>5. ASSUME NEW t \in Tasks, NEW u \in Tasks, Origin[t] = Origin[u], Origin[t] # "manual",
                 tasks'[t].state \notin Terminal \cup {"none"},
                 tasks'[u].state \notin Terminal \cup {"none"}
          PROVE  t = u
      <3>1. CASE Origin[t] = "trigger"
        <4>1. (t \in new /\ cur = None) \/ t = cur
          BY <2>1, <2>2, <2>3, <2>5, <3>1
        <4>2. (u \in new /\ cur = None) \/ u = cur
          BY <2>1, <2>2, <2>3, <2>5, <3>1
        <4> QED BY <1>2, <2>3, <4>1, <4>2
      <3>2. CASE Origin[t] = "schedule"
        <4>1. \/ t \in due /\ Active("schedule") = {}
              \/ tasks[t].state \notin Terminal \cup {"none"} /\ t \in Active("schedule")
          BY <2>1, <2>2, <2>5, <3>2
        <4>2. \/ u \in due /\ Active("schedule") = {}
              \/ tasks[u].state \notin Terminal \cup {"none"} /\ u \in Active("schedule")
          BY <2>1, <2>2, <2>5, <3>2
        <4> QED BY <1>2, <2>4, <2>5, <4>1, <4>2
      <3> QED BY <2>5, <3>1, <3>2, ConstantsAssumption
    <2> QED BY <2>5 DEF OneTaskPerRule
  <1>9. Named'
    <2>1. \A c \in Clients : cli[c] # None => cli[c].task \in Tasks
      BY DEF TypeOK, ClientRead
    <2>2. \A a \in Busy : job[a].task \in Tasks
      BY WorkersTask
    <2> QED BY <1>0, <1>7, <2>1, <2>2 DEF Rules, Named, ResumedExists
  <1>10. ReadBefore'
    <2>1. \A c \in Clients : cli[c] # None => cli[c].task \in Tasks /\ tasks[cli[c].task].state # "none"
      BY DEF TypeOK, ClientRead, Rules, Named, ResumedExists
    <2> QED BY <1>0, <1>7, <2>1 DEF Rules, Budgets, ReadBefore
  <1>11. Budgets'
    BY <1>0, <1>7, <1>10 DEF Budgets, AttemptBudget, Listed, Reviewed
  <1> QED BY <1>0, <1>8, <1>9, <1>11 DEF Rules, Selected

(***************************************************************************)
(* The scan.  A launch counts one attempt from the rows it read: those are *)
(* still the row's own, for only a launch counts and each task is listed   *)
(* once.                                                                   *)
(***************************************************************************)
LEMMA LaunchRules ==
  ASSUME TypeInv, TypeInv', Owned, Rules, NEW t \in Tasks, NEW a \in Agents, Launch(t, a)
  PROVE  Rules'
  <1> USE DEF TypeInv
  <1>1. /\ pc = "scan" /\ pc' = "scan" /\ t \in todo /\ todo' = todo \ {t}
        /\ a \notin Busy /\ Busy' = Busy \cup {a} /\ UNCHANGED <<cli, snap>>
        /\ job'[a].task = t /\ \A b \in Busy : job'[b] = job[b]
        /\ \A u \in Tasks \ {t} : tasks'[u] = tasks[u]
        /\ IF tasks[t].state \in Terminal THEN tasks'[t] = tasks[t] ELSE tasks'[t].state = "running"
    BY LaunchRow DEF Launch
  <1>2. used' = [used EXCEPT ![t] = @ + 1] /\ ~OutOfBudget(snap[t])
    BY DEF Launch
  <1>3. used'[t] = used[t] + 1 /\ \A u \in Tasks \ {t} : used'[u] = used[u]
    BY <1>2 DEF TypeOK
  <1>4. ASSUME tasks[t].state \notin Terminal
        PROVE  /\ tasks'[t].attempt = snap[t].attempt + 1
               /\ tasks'[t].fb.budget = snap[t].fb.budget
    <2> DEFINE f == [snap[t].fb EXCEPT !.busy = FALSE]
               row == [tasks[t] EXCEPT !.state = "running", !.due = TRUE,
                                       !.attempt = snap[t].attempt + 1, !.fb = f]
    <2>1. f.budget = snap[t].fb.budget
      BY DEF TypeOK, Row, Feedback
    <2>2. row.attempt = snap[t].attempt + 1 /\ row.fb = f
      BY DEF TypeOK, Row
    <2>3. tasks'[t] = row
      BY <1>4 DEF Launch, TypeOK
    <2> HIDE DEF f, row
    <2> QED BY <2>1, <2>2, <2>3
  <1>5. /\ tasks[t].state # "none" /\ snap[t].attempt = tasks[t].attempt
        /\ used[t] + snap[t].fb.budget <= snap[t].attempt
    BY <1>1 DEF Rules, Named, Budgets, Listed, Scanning
  <1>6. /\ used[t] \in Nat /\ snap[t].attempt \in Nat /\ snap[t].fb.budget \in Nat /\ MaxAttempts \in Nat
        /\ snap[t].attempt < snap[t].fb.budget + MaxAttempts
    <2>1. /\ used[t] \in Nat /\ snap[t].attempt \in Nat /\ snap[t].fb.budget \in Nat /\ MaxAttempts \in Nat
      BY NumbersTyped, ConstantsAssumption
    <2> QED BY <1>2, <2>1 DEF OutOfBudget
  <1>7. used'[t] <= MaxAttempts
    BY <1>3, <1>5, <1>6
  <1>8. tasks[t].state \notin Terminal => Spent(t)'
    BY <1>3, <1>4, <1>5, <1>6 DEF Spent
  <1>9. \A u \in Tasks : /\ tasks[u].state # "none" => tasks'[u].state # "none"
                         /\ tasks'[u].state \notin Terminal \cup {"none"}
                              => tasks[u].state \notin Terminal \cup {"none"}
    BY <1>1, <1>5
  <1>10. todo \subseteq Tasks /\ Scanning /\ Scanning'
    BY <1>1 DEF Owned, Scanning
  <1>11. \A b \in Busy : job[b].task \in Tasks
    BY WorkersTask
  <1>12. \A c \in Clients : cli[c] # None =>
           /\ cli[c] \in ClientRead /\ cli[c].task \in Tasks /\ cli[c].attempt \in Nat
    BY DEF TypeOK, ClientRead
  <1>13. Named'
    BY <1>1, <1>5, <1>9, <1>10, <1>11, <1>12 DEF Rules, Named, ResumedExists
  <1>14. OneTaskPerRule' /\ Selected'
    BY <1>1, <1>9 DEF Rules, OneTaskPerRule, Selected
  <1>15. ASSUME NEW u \in Tasks
         PROVE  /\ used'[u] <= MaxAttempts
                /\ tasks'[u].state = "none" => used'[u] = 0
                /\ Ended(u)' \/ Spent(u)'
    <2>1. CASE u = t
      BY <1>1, <1>5, <1>7, <1>8, <2>1 DEF Ended
    <2>2. CASE u # t
      BY <1>1, <1>3, <2>2 DEF Rules, Budgets, AttemptBudget, Ended, Spent
    <2> QED BY <2>1, <2>2
  <1>16. Listed'
    BY <1>1, <1>3, <1>10 DEF Rules, Budgets, Listed
  <1>17. ReadBefore'
    <2> SUFFICES ASSUME NEW c \in Clients, cli[c] # None
                 PROVE  cli[c].attempt <= tasks'[cli[c].task].attempt
      BY <1>1 DEF ReadBefore
    <2>1. cli[c].attempt <= tasks[cli[c].task].attempt /\ cli[c].attempt \in Nat /\ cli[c].task \in Tasks
      BY <1>12 DEF Rules, Budgets, ReadBefore
    <2>2. CASE cli[c].task # t
      BY <1>1, <2>1, <2>2
    <2>3. CASE cli[c].task = t
      BY <1>1, <1>4, <1>5, <1>6, <2>1, <2>3
    <2> QED BY <2>2, <2>3
  <1>18. Budgets'
    BY <1>1, <1>15, <1>16, <1>17 DEF Budgets, AttemptBudget, Reviewed
  <1> QED BY <1>13, <1>14, <1>18 DEF Rules

LEMMA ScanRules ==
  ASSUME TypeInv, TypeInv', Owned, Rules, Scan
  PROVE  Rules'
  <1> USE DEF TypeInv
  <1>1. CASE FireIdle \/ ScanDone
    <2>1. /\ UNCHANGED <<tasks, used, job, cli>> /\ pc' \in {"list", "top"} /\ Busy' = Busy /\ ~Scanning'
      BY <1>1 DEF FireIdle, ScanDone, store, history, Busy, Scanning
    <2> QED BY <2>1, StillRows, MovesKeepRules
  <1>2. CASE FireSelect
    <2>1. /\ UNCHANGED <<tasks, used, job, cli>> /\ pc' = "fired" /\ Busy' = Busy /\ ~Scanning'
          /\ \/ Active("trigger") = {} /\ cur' = None
             \/ cur' \in Active("trigger")
      BY <1>2 DEF FireSelect, store, history, Busy, Scanning
    <2>2. /\ \A t \in Tasks : Moved(t)
          /\ Active("trigger")' = Active("trigger")
      BY <2>1, StillRows DEF Active
    <2>3. Named'
      BY <2>1, <2>2, MovesKeepNamed DEF Rules
    <2>4. OneTaskPerRule'
      BY <2>1 DEF Rules, OneTaskPerRule
    <2>5. Selected'
      <3>1. \A t, u \in Active("trigger") : t = u
        BY DEF Rules, OneTaskPerRule, Active
      <3> QED BY <2>1, <2>2, <3>1, ConstantsAssumption DEF Selected, Active
    <2>6. ReadBefore'
      BY <2>1, <2>2, MovesKeepReads DEF Rules, Budgets
    <2>7. /\ AttemptBudget'
          /\ \A u \in Tasks : /\ tasks'[u].state = "none" => used'[u] = 0
                              /\ Ended(u)' \/ Spent(u)'
      <3>1. cur' \in Tasks => tasks[cur'].state \notin Terminal
        BY <2>1, ConstantsAssumption DEF Active
      <3> QED BY <2>2, <3>1, MovesKeepBudgets DEF Rules
    <2>8. Budgets'
      BY <2>1, <2>6, <2>7 DEF Budgets, Listed, Reviewed
    <2> QED BY <2>3, <2>4, <2>5, <2>8 DEF Rules
  <1>3. CASE ScanList
    <2>1. /\ UNCHANGED <<tasks, used, job, cli>> /\ pc' = "scan" /\ Busy' = Busy /\ snap' = tasks
          /\ \A t \in todo' : t \in Tasks /\ tasks[t].state \in Ready
      BY <1>3 DEF ScanList, store, history, Busy
    <2>2. \A t \in Tasks : Moved(t)
      BY <2>1, StillRows
    <2>3. Named'
      BY <2>1, <2>2, MovesKeepNamed DEF Rules, Ready
    <2>4. OneTaskPerRule' /\ Selected'
      BY <2>1, <2>2, MovesKeepOneTask DEF Rules
    <2>5. ReadBefore'
      BY <2>1, <2>2, MovesKeepReads DEF Rules, Budgets
    <2>6. Listed'
      <3> SUFFICES ASSUME NEW t \in todo'
                   PROVE  used[t] + tasks[t].fb.budget <= tasks[t].attempt
        BY <2>1 DEF Listed
      <3> QED BY <2>1, SpentRow DEF Rules, Ready, Terminal
    <2>7. /\ AttemptBudget'
          /\ \A u \in Tasks : /\ tasks'[u].state = "none" => used'[u] = 0
                              /\ Ended(u)' \/ Spent(u)'
      BY <2>1, <2>2, MovesKeepBudgets DEF Rules
    <2>8. Budgets'
      BY <2>1, <2>5, <2>6, <2>7 DEF Budgets, Reviewed
    <2> QED BY <2>3, <2>4, <2>8 DEF Rules
  <1>4. CASE FireApply
    BY <1>4, FireApplyRules
  <1>5. ASSUME NEW t \in Tasks, ScanExhausted(t) \/ ScanUnlaunchable(t) \/ ScanBusy(t)
        PROVE  Rules'
    <2>1. /\ pc = "scan" /\ pc' = "scan" /\ t \in todo /\ todo' \subseteq todo
          /\ UNCHANGED <<job, cli, used, snap>> /\ Busy' = Busy /\ Scanning /\ Scanning'
      BY <1>5 DEF ScanExhausted, ScanUnlaunchable, ScanBusy, Scanned, history, Busy, Scanning
    <2>2. /\ tasks[t].state # "none" /\ snap[t].attempt = tasks[t].attempt
          /\ used[t] + snap[t].fb.budget <= tasks[t].attempt
          /\ snap[t].state \in States \ {"none"}
      BY <2>1 DEF Rules, Named, Budgets, Listed, Owned, States, Ready
    <2>3. CASE tasks' = tasks
      BY <2>1, <2>3, StillRows, MovesKeepRules
    <2>4. CASE ScanUnlaunchable(t)
      <3>1. Update(t, "waiting_input", Blank, TRUE) /\ "waiting_input" \in States \ {"none"}
        BY <2>4 DEF ScanUnlaunchable, States, Waiting
      <3>2. \A u \in Tasks : Moved(u)
        BY <2>1, <2>2, <3>1, BlankMoves DEF Rules
      <3> QED BY <2>1, <3>2, MovesKeepRules
    <2>5. ASSUME NEW s \in States \ {"none"}, NEW f, Update(t, s, f, TRUE),
                 f.budget = snap[t].fb.budget
          PROVE  Rules'
      <3>1. tasks[t].state \in Terminal \/ used[t] + f.budget <= tasks[t].attempt
        BY <2>2, <2>5
      <3>2. \A u \in Tasks : Moved(u)
        BY <2>1, <2>2, <2>5, <3>1, UpdateMoves
      <3> QED BY <2>1, <3>2, MovesKeepRules
    <2>6. /\ [snap[t].fb EXCEPT !.stop = "budget"].budget = snap[t].fb.budget
          /\ [snap[t].fb EXCEPT !.busy = TRUE].budget = snap[t].fb.budget
          /\ "waiting_input" \in States \ {"none"}
      BY DEF TypeOK, Row, Feedback, States, Waiting
    <2>7. CASE ScanExhausted(t)
      BY <2>5, <2>6, <2>7 DEF ScanExhausted
    <2>8. CASE ScanBusy(t)
      BY <2>2, <2>3, <2>5, <2>6, <2>8 DEF ScanBusy
    <2> QED BY <1>5, <2>4, <2>7, <2>8
  <1> QED BY <1>1, <1>2, <1>3, <1>4, <1>5, LaunchRules DEF Scan

LEMMA StepRules == ASSUME TypeInv, Owned, Rules, [Next]_vars PROVE Rules'
  <1>0. TypeInv'
    BY StepTypeInv
  <1>1. CASE UNCHANGED vars
    <2>1. UNCHANGED <<tasks, used, job, cli, pc, back, cur, snap, todo>>
      BY <1>1 DEF vars, store, supervisor, history
    <2>2. Busy' = Busy /\ Scanning' = Scanning
      BY <2>1 DEF Busy, Scanning
    <2> QED BY <1>0, <2>1, <2>2, StillRows, MovesKeepRules
  <1> QED
    BY <1>0, <1>1, TerminalsRules, ProcessRules, BrokerRules, FinishRules, ScanRules DEF Next

LEMMA RulesInvariant == Spec => [](TypeInv /\ Rules)
  <1>1. Init => Rules
    <2> SUFFICES ASSUME Init PROVE Rules
      OBVIOUS
    <2>1. /\ \A t \in Tasks : tasks[t] = Absent /\ used[t] = 0
          /\ pc = "down" /\ Busy = {} /\ \A c \in Clients : cli[c] = None
      BY DEF Init, Busy
    <2>2. Absent.state = "none" /\ Absent.attempt = 0 /\ Absent.fb.budget = 0 /\ MaxAttempts \in Nat
      BY ConstantsAssumption DEF Absent, Blank
    <2>3. Named /\ OneTaskPerRule /\ Selected
      BY <2>1, <2>2 DEF Named, ResumedExists, Scanning, OneTaskPerRule, Selected
    <2>4. Budgets
      BY <2>1, <2>2 DEF Budgets, AttemptBudget, Spent, Listed, Scanning, Reviewed, ReadBefore
    <2> QED BY <2>3, <2>4 DEF Rules
  <1>2. TypeInv /\ Owned /\ Rules /\ [Next]_vars => Rules'
    BY StepRules
  <1> QED BY <1>1, <1>2, OwnedInvariant, PTL DEF Spec

(* The ledger, whatever terminals, wake-ups, failures, crashes and restarts *)
(* do: while the supervisor lives a row that says running has its worker;  *)
(* fire_events keeps at most one unfinished task of each trigger and of    *)
(* each schedule; and between two explicit resumes a task gets at most     *)
(* MaxAttempts attempts.  No hypothesis on the behaviour is needed.        *)
THEOREM LedgerIsAlwaysSound == Spec => []LedgerIsSound
  <1>1. TypeInv /\ Rules => OneTaskPerRule /\ AttemptBudget
    BY DEF Rules, Budgets
  <1>2. RunningIsOwned /\ OneTaskPerRule /\ AttemptBudget => LedgerIsSound
    BY DEF LedgerIsSound
  <1> QED BY <1>1, <1>2, RulesInvariant, RunningRowsAreOwned, PTL
=============================================================================
