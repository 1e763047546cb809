---------------------------- MODULE FeedbackLoop ----------------------------
(* Execute, evidence, review: the loop that moves a simulated body until the
   reviewer is satisfied.  There are two of it, and the second is a port of the first:
   Loop.run with NumericalReviewer (src/toolchain/feedback.py) and
   robotics::run (src/rust/core/src/robotics.rs).  runtime says which one runs;
   they differ in what they check of an observation, in when they look at the
   clock, and in what they store in which order.

   A position is "start", "away" or "goal", within the tolerance of the target;
   an observation says where the body was, whether it is of this body, and whether it was taken after
   the observation it is compared with.                                      *)
EXTENDS Naturals

CONSTANTS MaxAttempts, Runtimes

VARIABLES
  runtime,  \* "python" or "rust"
  pc,       \* the next call of the attempt
  attempt,
  late,     \* the deadline has passed
  body,     \* [at, driven]: where it is, whether it follows a target
  episode,  \* [before, intent, after, error] of this attempt
  review,   \* None, "pass", "fail" or "inconclusive"
  log,      \* how many records of each kind are in the store
  result,   \* what run returned
  moves, stuck  \* ghosts: targets the body was given, and (plus one) when a stop first failed

vars == <<runtime, pc, attempt, late, body, episode, review, log, result, moves, stuck>>

None == [at |-> "none", own |-> FALSE, whole |-> FALSE, new |-> FALSE]
Observations == [at : {"start", "away", "goal"}, own : BOOLEAN, whole : BOOLEAN, new : BOOLEAN]
Fresh == [before |-> None, intent |-> FALSE, after |-> None, error |-> "no"]
Kinds == {"task", "intent", "episode", "review", "candidate"}
Errors == {"no", "expired", "observation", "plan", "store", "driver", "stop"}

TypeOK ==
  /\ runtime \in Runtimes /\ attempt \in 0..MaxAttempts /\ late \in BOOLEAN
  /\ pc \in {"admit", "open", "begin", "plan", "intent", "execute", "look", "stop", "store", "review", "close", "done"}
  /\ episode.error \in Errors /\ log \in [Kinds -> Nat] /\ review \in {"none", "pass", "fail", "inconclusive"}
  /\ result \in {"none", "refused", "raised", "pass", "fail", "inconclusive"}

Init ==
  /\ runtime \in Runtimes /\ pc = "admit" /\ attempt = 0 /\ late = FALSE
  /\ body = [at |-> "start", driven |-> FALSE] /\ episode = Fresh /\ review = "none"
  /\ log = [k \in Kinds |-> 0] /\ result = "none" /\ moves = 0 /\ stuck = 0

Go(at) == pc' = at
Fail(why) == Go("stop") /\ episode' = [episode EXCEPT !.error = why]
Ends(how) == Go("done") /\ result' = how
Same == UNCHANGED <<runtime, attempt, late>>

(* The task is checked once: a simulated body, this body, a target within
   the limits, a budget.                                                     *)
Admit ==
  /\ pc = "admit"
  /\ \/ Go("open") /\ UNCHANGED result
     \/ Ends("refused")
  /\ Same /\ UNCHANGED <<body, episode, review, log, moves, stuck>>

\* The store: a record is written, or the call that writes it fails.
Appended(kind) == log' = [log EXCEPT ![kind] = @ + 1]

\* Python first stores the task
Open ==
  /\ pc = "open"
  /\ \/ /\ IF runtime = "python" THEN Appended("task") ELSE UNCHANGED log
        /\ Go("begin") /\ attempt' = 1 /\ UNCHANGED result
     \/ runtime = "python" /\ Ends("raised") /\ UNCHANGED <<attempt, log>>
  /\ UNCHANGED <<runtime, late, body, episode, review, moves, stuck>>

(* What a driver reports: where the body is, or, when it is not the body's own or not new,
   anything.                                                                 *)
Observed(o) == o \in Observations /\ (o.own /\ o.new => o.at = body.at)

\* The port checks an observation when it is made; Python leaves identity to the reviewer
Admissible(o) == o.whole /\ (runtime = "rust" => o.own /\ o.new)

Begin ==
  /\ pc = "begin"
  /\ IF late
     THEN Fail("expired")
     ELSE \/ \E o \in Observations :
               /\ Observed(o)
               /\ IF Admissible(o)
                  THEN Go("plan") /\ episode' = [episode EXCEPT !.before = o]
                  ELSE Go("stop") /\ episode' = [episode EXCEPT !.before = o, !.error = "observation"]
          \/ Fail("driver")
  /\ Same /\ UNCHANGED <<body, review, log, result, moves, stuck>>

\* A planner's answer is checked like the task's target; the port looks at the clock once more
Plan ==
  /\ pc = "plan"
  /\ \/ Fail("plan")
     \/ IF runtime = "rust" /\ late THEN Fail("expired") ELSE Go("intent") /\ UNCHANGED episode
  /\ Same /\ UNCHANGED <<body, review, log, result, moves, stuck>>

\* the action is stored before the body is given it
Intent ==
  /\ pc = "intent"
  /\ \/ Appended("intent") /\ Go("execute") /\ episode' = [episode EXCEPT !.intent = TRUE]
     \/ Fail("store") /\ UNCHANGED log
  /\ Same /\ UNCHANGED <<body, review, result, moves, stuck>>

\* a driver that fails, is cancelled or finds the action expired may have moved the body
Execute ==
  /\ pc = "execute"
  /\ moves' = moves + 1
  /\ \E at \in {body.at, "away", "goal"} : body' = [at |-> at, driven |-> TRUE]
  /\ \/ Go("look") /\ UNCHANGED episode
     \/ Fail("driver")
  /\ Same /\ UNCHANGED <<review, log, result, stuck>>

Look ==
  /\ pc = "look"
  /\ \/ \E o \in Observations :
          /\ Observed(o)
          /\ Go("stop")
          /\ episode' = [episode EXCEPT !.after = o,
               !.error = IF runtime = "rust" /\ ~Admissible(o) THEN "observation"
                         ELSE IF late THEN "expired" ELSE "no"]
     \/ Fail("driver")
  /\ Same /\ UNCHANGED <<body, review, log, result, moves, stuck>>

\* Mutant of Stop: its failure is not the attempt's.
StopQuietly ==
  /\ pc = "stop" /\ Go("store")
  /\ \/ body' = [body EXCEPT !.driven = FALSE] /\ UNCHANGED <<episode, stuck>>
     \/ stuck' = moves + 1 /\ UNCHANGED <<body, episode>>
  /\ Same /\ UNCHANGED <<review, log, result, moves>>

\* every attempt ends with a stop, the failure of which outweighs any other
Stop ==
  /\ pc = "stop" /\ Go("store")
  /\ \/ body' = [body EXCEPT !.driven = FALSE] /\ UNCHANGED <<episode, stuck>>
     \/ stuck' = moves + 1 /\ episode' = [episode EXCEPT !.error = "stop"] /\ UNCHANGED body
  /\ Same /\ UNCHANGED <<review, log, result, moves>>

\* NumericalReviewer, and the end of an attempt of the port
Sound(o) == o.whole /\ o.own
Seen == [at |-> episode.after.at, sound |-> episode.after # None /\ Sound(episode.before) /\ Sound(episode.after)]
Verdict ==
  IF episode.error # "no" \/ ~Seen.sound THEN "inconclusive"
  ELSE IF Seen.at = "goal" THEN "pass" ELSE "fail"

\* A second attempt follows a failed one; its own evidence is collected anew
Again(v) == v = "fail" /\ attempt < MaxAttempts
Onward(v) ==
  IF Again(v) THEN Go("begin") /\ attempt' = attempt + 1 /\ episode' = Fresh /\ UNCHANGED result
  ELSE /\ UNCHANGED <<attempt, episode>>
       /\ IF runtime = "rust" THEN Ends(v) ELSE Go("close") /\ UNCHANGED result

\* The port stores episode and review in one call; Python the episode, then the review.
Store ==
  /\ pc = "store"
  /\ \/ Ends("raised") /\ UNCHANGED <<log, review, attempt, episode>>
     \/ /\ Appended("episode")
        /\ IF runtime = "python"
           THEN Go("review") /\ UNCHANGED <<review, attempt, episode, result>>
           ELSE review' = Verdict /\ Onward(Verdict)
  /\ UNCHANGED <<runtime, late, body, moves, stuck>>

\* a reviewer that raises, or answers something else, is inconclusive
Review ==
  /\ pc = "review"
  /\ \E v \in {Verdict, "inconclusive"} :
       /\ review' = v
       /\ \/ Appended("review") /\ Onward(v)
          \/ Ends("raised") /\ UNCHANGED <<log, attempt, episode>>
  /\ UNCHANGED <<runtime, late, body, moves, stuck>>

\* Python proposes a candidate for what was learned before it returns
Close ==
  /\ pc = "close"
  /\ \/ Appended("candidate") /\ Ends(review)
     \/ Ends("raised") /\ UNCHANGED log
  /\ Same /\ UNCHANGED <<body, episode, review, moves, stuck>>

Expire ==
  /\ ~late /\ pc # "done" /\ late' = TRUE
  /\ UNCHANGED <<runtime, pc, attempt, body, episode, review, log, result, moves, stuck>>

Step == Admit \/ Open \/ Begin \/ Plan \/ Intent \/ Execute \/ Look \/ Stop \/ Store \/ Review \/ Close
Next == Step \/ Expire
Spec == Init /\ [][Next]_vars

-----------------------------------------------------------------------------
(* A run passes only on evidence: the action of its last attempt was stored and carried out,
   what was seen afterwards is this body at its goal, in time, and the body then
   stopped.  In the port the body really is there; Python takes an old
   observation for a new one.                                                *)
PassIsEarned ==
  result = "pass" =>
    /\ episode.intent /\ stuck = 0 /\ ~body.driven /\ moves = log["intent"]
    /\ episode.after.own /\ episode.after.at = "goal"
    /\ runtime = "rust" \/ episode.after.new => body.at = "goal"

(* The store knows every target the body was given before the body does, and a run that
   returns has an episode for each of its attempts: nothing moves a body without a trace,
   whatever part of the attempt failed.  A body that could not be stopped is not
   given another target.                                                     *)
MovesAreOnRecord ==
  /\ stuck # 0 => stuck = moves + 1
  /\ moves <= log["intent"]
  /\ result \in {"pass", "fail", "inconclusive"} => log["episode"] = attempt
=============================================================================
