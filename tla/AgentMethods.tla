---------------------------- MODULE AgentMethods ---------------------------
(***************************************************************************)
(* The methods of Agent in rust/core/src/agent.rs.  A method is an operator*)
(* from the agent record and its arguments to an outcome: the agent after  *)
(* the call and the error code, as rust/ffi/src/lib.rs returns it.         *)
(***************************************************************************)
EXTENDS Naturals

CONSTANTS
  Tools,        \* tool numbers, 0 .. 31 in the mask
  MaxClock,     \* the last value of the clock (2^64 - 1 in the code)
  Conversation  \* the check of a run that registers no tool

Active == {"Model", "Tool", "Receipt"}
KernelStates == {"Idle", "Complete", "Blocked", "Cancelled"} \cup Active
Errors == {"None", "Invalid", "State", "Deadline", "Budget", "Permission", "Identity",
           "Unverified", "ToolFailed", "Clock", "Resource", "Storage", "Adapter"}
Checks == Tools \cup {Conversation}
Clock == 0 .. MaxClock

Agent == [state: KernelStates, error: Errors, session: Nat, task: Nat,
          allowed: SUBSET Tools, check: Checks, verified: BOOLEAN,
          deadline: Nat, last: Nat, maxCalls: Nat, maxModels: Nat,
          calls: Nat, models: Nat, call: Nat, tool: Checks]

Config == [session: Nat, task: Nat, allowed: SUBSET Tools, check: Checks,
           maxCalls: Nat, maxModels: Nat, timeout: Nat]

Default == [state |-> "Idle", error |-> "None", session |-> 0, task |-> 0,
            allowed |-> {}, check |-> Conversation, verified |-> FALSE,
            deadline |-> 0, last |-> 0, maxCalls |-> 0, maxModels |-> 0,
            calls |-> 0, models |-> 0, call |-> 0, tool |-> Conversation]

-----------------------------------------------------------------------------
(* Outcomes of a method.  *)
Accept(a) == [a |-> a, e |-> "None"]
Refuse(a, e) == [a |-> a, e |-> e]
Abort(a, e) ==
  [a |-> [a EXCEPT !.state = "Blocked", !.error = e, !.verified = FALSE], e |-> e]

(* A clock that goes back, and the deadline, end the run.  *)
Tick(a, now) ==
  LET b == [a EXCEPT !.last = now]
  IN IF now < a.last THEN Abort(a, "Clock")
     ELSE IF now >= a.deadline THEN Abort(b, "Deadline") ELSE Accept(b)

ValidConfig(c, now) ==
  /\ 0 \notin {c.session, c.task, c.timeout, c.maxModels, c.maxCalls}
  /\ c.check # Conversation => c.check \in c.allowed
  /\ now + c.timeout <= MaxClock     \* checked_add

NewRun(c, now) ==
  [state |-> "Model", error |-> "None", session |-> c.session, task |-> c.task,
   allowed |-> c.allowed, check |-> c.check, verified |-> FALSE,
   deadline |-> now + c.timeout, last |-> now, maxCalls |-> c.maxCalls,
   maxModels |-> c.maxModels, calls |-> 0, models |-> 0, call |-> 0, tool |-> Conversation]

Begin(a, c, now) ==
  IF a.state \in Active THEN Refuse(a, "State")
  ELSE IF ~ValidConfig(c, now) THEN Refuse(a, "Invalid")
  ELSE Accept(NewRun(c, now))

RequestModel(a, now) ==
  LET k == Tick(a, now)
  IN IF a.state # "Model" THEN Refuse(a, "State")
     ELSE IF k.e # "None" THEN k
     ELSE IF a.models >= a.maxModels THEN Abort(k.a, "Budget")
     ELSE Accept([k.a EXCEPT !.models = @ + 1])

Propose(a, call, tool, now) ==
  LET k == Tick(a, now)
  IN IF a.state # "Model" \/ a.models = 0 THEN Refuse(a, "State")
     ELSE IF k.e # "None" THEN k
     ELSE IF call <= a.call THEN Abort(k.a, "Identity")
     ELSE IF tool \notin a.allowed THEN Abort(k.a, "Permission")
     ELSE IF a.calls >= a.maxCalls THEN Abort(k.a, "Budget")
     ELSE Accept([k.a EXCEPT !.call = call, !.tool = tool, !.state = "Tool"])

Dispatch(a, resources, recorded, now) ==
  LET k == Tick(a, now)
  IN IF a.state # "Tool" THEN Refuse(a, "State")
     ELSE IF k.e # "None" THEN k
     ELSE IF ~resources THEN Refuse(k.a, "Resource")
     ELSE IF ~recorded THEN Abort(k.a, "Storage")
     ELSE Accept([k.a EXCEPT !.calls = @ + 1, !.state = "Receipt"])

(* Mutant of Receive: a failed tool leaves an earlier check standing.  *)
ReceiveSticky(a, id, ok, checked, now) ==
  LET k == Tick(a, now)
  IN IF a.state # "Receipt" THEN Refuse(a, "State")
     ELSE IF <<id.session, id.task, id.call>> # <<a.session, a.task, a.call>>
       THEN Refuse(a, "Identity")
     ELSE IF k.e # "None" THEN k
     ELSE Accept([k.a EXCEPT !.state = "Model",
            !.error = IF ok THEN "None" ELSE "ToolFailed",
            !.verified = IF ok /\ a.check = a.tool THEN checked ELSE @])

(* receipt: only the call that was dispatched last is answered, and only a *)
(* receipt of the registered tool decides the check.                       *)
Receive(a, id, ok, checked, now) ==
  LET k == Tick(a, now)
  IN IF a.state # "Receipt" THEN Refuse(a, "State")
     ELSE IF <<id.session, id.task, id.call>> # <<a.session, a.task, a.call>>
       THEN Refuse(a, "Identity")
     ELSE IF k.e # "None" THEN k
     ELSE Accept([k.a EXCEPT !.state = "Model",
            !.error = IF ok THEN "None" ELSE "ToolFailed",
            !.verified = IF ~ok THEN FALSE
                         ELSE IF a.check = a.tool THEN checked ELSE @])

(* Mutant of Answer: prose completes the task.  *)
AnswerUnchecked(a, now) ==
  LET k == Tick(a, now)
  IN IF a.state # "Model" \/ a.models = 0 THEN Refuse(a, "State")
     ELSE IF k.e # "None" THEN k
     ELSE Accept([k.a EXCEPT !.state = "Complete", !.error = "None"])

Answer(a, now) ==
  LET k == Tick(a, now)
  IN IF a.state # "Model" \/ a.models = 0 THEN Refuse(a, "State")
     ELSE IF k.e # "None" THEN k
     ELSE IF a.check # Conversation /\ ~a.verified
       THEN Refuse([k.a EXCEPT !.error = "Unverified"], "Unverified")
     ELSE Accept([k.a EXCEPT !.state = "Complete", !.error = "None"])

Cancelled(a) ==
  IF a.state \in Active THEN [a EXCEPT !.state = "Cancelled", !.verified = FALSE] ELSE a
=============================================================================
