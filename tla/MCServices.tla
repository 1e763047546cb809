----------------------------- MODULE MCServices -----------------------------
(* The services of a terminal (Services) and the tasks that triggers and
   schedules start (TaskRuntime), for two threads or terminals, p and q.  They
   share no state here, so a behaviour is one of one of them; the others stay as
   they began.                                                                *)
EXTENDS Services, TLC
CONSTANTS p, q

VARIABLES
  part,
  tasks, stopReq, signal, pc, back, launching, todo, snap, cur, job, cli, resumes, faults,
  used, dirty, owed, late
taskVars == <<tasks, stopReq, signal, pc, back, launching, todo, snap, cur, job, cli, resumes, faults,
  used, dirty, owed, late>>

\* Two tasks of one rule, and one fault
Triggers == INSTANCE TaskRuntime WITH
  Tasks <- {1, 2}, Origin <- [t \in {1, 2} |-> "trigger"], ScheduleEnabled <- FALSE,
  Agents <- {1}, Clients <- {}, CheckSets <- {"checks"}, Prints <- {"seen"}, Unseen <- "seen",
  NoChecks <- "no checks", None <- Nothing, ResumeFrom <- {},
  MaxAttempts <- 1, MaxReplans <- 1, StalledAttempts <- 1, MaxCalls <- 0, MaxResumes <- 0, MaxFaults <- 1
Schedules == INSTANCE TaskRuntime WITH
  Tasks <- {1, 2}, Origin <- [t \in {1, 2} |-> "schedule"], ScheduleEnabled <- TRUE,
  Agents <- {1}, Clients <- {}, CheckSets <- {"checks"}, Prints <- {"seen"}, Unseen <- "seen",
  NoChecks <- "no checks", None <- Nothing, ResumeFrom <- {},
  MaxAttempts <- 1, MaxReplans <- 1, StalledAttempts <- 1, MaxCalls <- 0, MaxResumes <- 0, MaxFaults <- 1

ServicesInit ==
  /\ part \in {"control", "setup", "memory", "triggers", "schedules"}
  /\ Init /\ Setup!Init /\ Memory!Init /\ Triggers!Init
ServicesNext ==
  /\ UNCHANGED part
  /\ \/ part = "control" /\ Next /\ UNCHANGED <<setupVars, memoryVars, taskVars>>
     \/ part = "setup" /\ Setup!Next /\ UNCHANGED <<vars, memoryVars, taskVars>>
     \/ part = "memory" /\ Memory!Next /\ UNCHANGED <<vars, setupVars, taskVars>>
     \/ part = "triggers" /\ Triggers!Next /\ UNCHANGED <<vars, setupVars, memoryVars>>
     \/ part = "schedules" /\ Schedules!Next /\ UNCHANGED <<vars, setupVars, memoryVars>>
ServicesSpec ==
  ServicesInit /\ [][ServicesNext]_<<part, vars, setupVars, memoryVars, taskVars>>
Symmetry == Permutations({p, q})

(* A rule has one unfinished task at a time, no task has more attempts than the
   policy and no row runs without a worker, for two tasks of a trigger and for
   two of a schedule.                                                           *)
RulesAreKept ==
  /\ part = "triggers" => Triggers!LedgerIsSound
  /\ part = "schedules" => Schedules!LedgerIsSound
=============================================================================
