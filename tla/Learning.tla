------------------------------ MODULE Learning ------------------------------
(* Experience, memory and advisory notes: src/terminal/learning.py over the
   SQLite file of src/core/experience.py and src/core/memory_layers.py.

   Terminals and the task supervisor share the file.  Each statement below that
   opens the database is one transaction and one step; a job of a process, the
   record of one turn or of one attempt of a task, is a sequence of them that
   any other process may come between, and that may end early: by an error the
   caller swallows, or with the process.

   One scope, one text worth keeping, one recipe, one device, one note.
   Times are counted by a clock.                                             *)
EXTENDS Naturals, Sequences, FiniteSets, FiniteSetsExt, SequencesExt

CONSTANTS Processes, Tasks, MaxJobs, MaxRevisions, MaxStops

VARIABLES
  now,         \* the clock
  experience,  \* the rows: [task, attempt, ok, at]
  imported,    \* whether the rows of turns recorded before the upgrade were imported
  knows,       \* the processes that need not look
  item,        \* memory_items: [detail, procedure, success], each [at, status, sources]
  runs,        \* procedure_runs: task -> [ok, at]
  success,     \* successful_connections: when the newest success of the device was
  notes,       \* the revisions of the note: [on, active]
  job,         \* process -> [at, task, attempt, ok, row, seen, todo], todo the runs to promote
  jobs, stops, \* bounds
  earned       \* ghost: the tasks some attempt of which was verified

vars == <<now, experience, imported, knows, item, runs, success, notes, job, jobs, stops, earned>>
data == <<experience, imported, knows, item, runs, success, notes>>

None == [at |-> 0, status |-> "absent", sources |-> <<>>]
Idle == [at |-> "idle", task |-> 0, attempt |-> 0, ok |-> FALSE, row |-> 0, seen |-> 0, todo |-> {}]
Old == [task |-> 0, attempt |-> 0, ok |-> FALSE, at |-> 1]  \* a turn from before the layers existed

TypeOK ==
  /\ Old \in experience /\ imported \in BOOLEAN /\ knows \subseteq Processes
  /\ \A k \in {"detail", "procedure", "success"} : item[k].at <= now /\ Len(item[k].sources) <= 3
  /\ DOMAIN runs \subseteq Tasks /\ success <= now
  /\ \A r \in experience, q \in experience : r.task = q.task /\ r.attempt = q.attempt => r = q

Init ==
  /\ now = 2 /\ experience = {Old} /\ imported = FALSE /\ knows = {}
  /\ item = [detail |-> None, procedure |-> None, success |-> None]
  /\ runs = <<>> /\ success = 0 /\ notes = <<>>
  /\ job = [p \in Processes |-> Idle] /\ jobs = 0 /\ stops = 0 /\ earned = {}

Goes(p, to) == job' = [job EXCEPT ![p].at = to]
Ticks == now' = now + 1
Bounds == UNCHANGED <<jobs, stops, earned>>

-----------------------------------------------------------------------------
(* MemoryLayers.save: one transaction. *)

\* Mutant of Newer: an imported text replaces a newer one.
NewerAlways(k, when) == TRUE

\* A write with a time of its own does not replace a later one
Newer(k, when) == item[k].at <= when

Saved(k, when, status, source) ==
  LET all == IF Contains(item[k].sources, source) THEN item[k].sources ELSE Append(item[k].sources, source)
      last == IF Len(all) > 3 THEN Tail(all) ELSE all
  IN item' = IF Newer(k, when) THEN [item EXCEPT ![k] = [at |-> when, status |-> status, sources |-> last]] ELSE item

-----------------------------------------------------------------------------
(* record_task and record_turn. *)

\* An attempt ended; the same attempt may be reported again.
Report(p, k, ok) ==
  /\ job[p].at = "idle" /\ jobs < MaxJobs /\ jobs' = jobs + 1
  /\ LET last == Max({0} \cup {r.attempt : r \in {r \in experience : r.task = k}})
     IN \E a \in {last, last + 1} \ {0} :
          /\ \A r \in experience : r.task = k /\ r.attempt = a => r.ok = ok
          /\ \A q \in Processes \ {p} : job[q].task # k
          /\ job' = [job EXCEPT ![p] = [Idle EXCEPT !.at = "record", !.task = k, !.attempt = a, !.ok = ok]]
  /\ earned' = IF ok THEN earned \cup {k} ELSE earned
  /\ UNCHANGED <<now, data, stops>>

\* INSERT OR IGNORE: the first record of an attempt stands, and its time is the time of the success.
Insert(p) ==
  LET j == job[p]   old == {r \in experience : r.task = j.task /\ r.attempt = j.attempt}
      row == [task |-> j.task, attempt |-> j.attempt, ok |-> j.ok, at |-> now] IN
  /\ j.at = "record"
  /\ IF old = {} THEN Ticks /\ experience' = experience \cup {row} ELSE UNCHANGED <<now, experience>>
  /\ job' = [job EXCEPT ![p].row = IF old = {} THEN now ELSE (CHOOSE r \in old : TRUE).at,
                        ![p].at = IF p \in knows THEN "retain" ELSE "import"]
  /\ UNCHANGED <<imported, knows, item, runs, success, notes>> /\ Bounds

(* The first use of the layers in a process imports what turns said before
   there were layers: read, save with the time of the row, mark.             *)
Import(p) ==
  /\ job[p].at = "import"
  /\ IF imported THEN Goes(p, "retain") /\ knows' = knows \cup {p} ELSE Goes(p, "importing") /\ UNCHANGED knows
  /\ UNCHANGED <<now, experience, imported, item, runs, success, notes>> /\ Bounds

Importing(p) ==
  /\ job[p].at = "importing" /\ Goes(p, "mark")
  /\ Saved("detail", Old.at, "kept", Old.at)
  /\ UNCHANGED <<now, experience, imported, knows, runs, success, notes>> /\ Bounds

Mark(p) ==
  /\ job[p].at = "mark" /\ Goes(p, "retain")
  /\ imported' = TRUE /\ knows' = knows \cup {p}
  /\ UNCHANGED <<now, experience, item, runs, success, notes>> /\ Bounds

\* What the turn said, at the time of the write
Retain(p) ==
  /\ job[p].at = "retain" /\ Goes(p, "run") /\ Ticks
  /\ Saved("detail", now, "kept", job[p].row)
  /\ UNCHANGED <<experience, imported, knows, runs, success, notes>> /\ Bounds

\* One task is one run, however often it was tried
RunOf(j) == j.task

Counted(p) ==
  LET ran == RunOf(job[p]) IN
  runs' = [k \in DOMAIN runs \cup {ran} |-> IF k = ran THEN [ok |-> job[p].ok, at |-> now, row |-> job[p].row] ELSE runs[k]]

\* The newest three: fewer than three are newer
Since(rs, k) == {j \in DOMAIN rs : rs[j].at > rs[k].at}
Newest(rs) == {k \in DOMAIN rs : Cardinality(Since(rs, k)) < 3}
Ready(rs) == Cardinality(Newest(rs)) = 3 /\ \A k \in Newest(rs) : rs[k].ok
\* The run is counted and the last three are read, in one transaction; the verdict is acted on in others.
Run(p) ==
  /\ job[p].at = "run" /\ Ticks /\ Counted(p)
  /\ job' = [job EXCEPT ![p].at = IF Ready(runs') THEN "promote" ELSE "suspend",
                        ![p].todo = IF Ready(runs') THEN {runs'[k] : k \in Newest(runs')} ELSE {}]
  /\ UNCHANGED <<experience, imported, knows, item, success, notes>> /\ Bounds

\* What a search finds: the terms of a suspended procedure are gone.
Recalled == item.procedure.status = "reusable"

Then(j) == IF j.ok THEN "connect" ELSE "idle"

\* The oldest first
Promote(p) ==
  /\ job[p].at = "promote" /\ Ticks
  /\ \E run \in job[p].todo :
       /\ \A r \in job[p].todo : run.at <= r.at
       /\ Saved("procedure", now, "reusable", run.row)
       /\ job' = [job EXCEPT ![p].todo = @ \ {run}, ![p].at = IF job[p].todo = {run} THEN Then(job[p]) ELSE @]
  /\ UNCHANGED <<experience, imported, knows, runs, success, notes>> /\ Bounds

\* It is marked, and its terms deleted: it is found no more.
Suspend(p) ==
  /\ job[p].at = "suspend" /\ Goes(p, Then(job[p]))
  /\ item' = IF item.procedure.at = 0 THEN item ELSE [item EXCEPT !.procedure.status = "needs_review"]
  /\ UNCHANGED <<now, experience, imported, knows, runs, success, notes>> /\ Bounds

(* connection_success: keep the newer success, read which it is, and save it. *)
Connect(p) ==
  /\ job[p].at = "connect" /\ Goes(p, "reread")
  /\ success' = IF job[p].row > success THEN job[p].row ELSE success
  /\ UNCHANGED <<now, experience, imported, knows, item, runs, notes>> /\ Bounds

Reread(p) ==
  /\ job[p].at = "reread"
  /\ job' = [job EXCEPT ![p].at = "keep", ![p].seen = success]
  /\ UNCHANGED <<now, data>> /\ Bounds

Keep(p) ==
  /\ job[p].at = "keep" /\ Goes(p, "idle")
  /\ Saved("success", job[p].seen, "kept", job[p].seen)
  /\ UNCHANGED <<now, experience, imported, knows, runs, success, notes>> /\ Bounds

-----------------------------------------------------------------------------
(* A note: read, then revise or forget what was read. *)
Look(p) ==
  /\ job[p].at = "idle" /\ Len(notes) < MaxRevisions /\ jobs < MaxJobs /\ jobs' = jobs + 1
  /\ job' = [job EXCEPT ![p] = [Idle EXCEPT !.at = "looked", !.seen = Len(notes)]]
  /\ UNCHANGED <<now, data, stops, earned>>

Unchanged(p) == Len(notes) = job[p].seen

Revise(p) ==
  /\ job[p].at = "looked"
  /\ IF Unchanged(p) THEN \E on \in BOOLEAN : (on \/ notes # <<>>) /\ notes' = Append(notes, [on |-> job[p].seen, active |-> on])
     ELSE UNCHANGED notes
  /\ Goes(p, "idle")
  /\ UNCHANGED <<now, experience, imported, knows, item, runs, success>> /\ Bounds

-----------------------------------------------------------------------------
\* A statement fails, or the process ends: what is left of the job is not done.
Stop(p) ==
  /\ job[p].at # "idle" /\ stops < MaxStops /\ stops' = stops + 1
  /\ job' = [job EXCEPT ![p] = Idle]
  /\ knows' \in {knows, knows \ {p}}
  /\ UNCHANGED <<now, experience, imported, item, runs, success, notes, jobs, earned>>

Next ==
  \E p \in Processes :
    \/ \E k \in Tasks, ok \in BOOLEAN : Report(p, k, ok)
    \/ Insert(p) \/ Import(p) \/ Importing(p) \/ Mark(p) \/ Retain(p) \/ Run(p) \/ Promote(p) \/ Suspend(p)
    \/ Connect(p) \/ Reread(p) \/ Keep(p) \/ Look(p) \/ Revise(p) \/ Stop(p)

Spec == Init /\ [][Next]_vars

-----------------------------------------------------------------------------
(* A procedure is offered only after three tasks were verified: retries of one
   task, reports made twice and failed runs do not make up for a task.       *)
ProcedureIsEarned == Recalled => Cardinality(earned) >= 3

(* When no process is between the success of a connection and its memory, the
   memory is of the newest success: two processes that record successes in
   either order, and read what to save at different times, agree in the end. *)
MemoryIsNewest ==
  stops = 0 /\ (\A p \in Processes : job[p].at \notin {"reread", "keep"}) => item.success.at = success

(* Memory never goes back: what was read earlier, by an import of old turns or
   before another process saved, does not replace what was saved since.      *)
MemoryGoesForward == [][\A k \in DOMAIN item : item'[k].at >= item[k].at]_vars

\* Each revision of a note was written by somebody who had read the one before.
NotesAreLinear == \A n \in DOMAIN notes : notes[n].on = n - 1

(* LEARNING.md: a run of the procedure that fails takes it out of recall. *)
FailureSuspends ==
  (\A p \in Processes : job[p].at \notin {"promote", "suspend"}) /\ stops = 0 /\ ~Ready(runs)
    => ~Recalled
=============================================================================
