------------------------- MODULE AgentMethodLemmas -------------------------
(***************************************************************************)
(* What each method of the kernel does to the agent record, stated once for*)
(* the proofs about the machines that call the methods.                    *)
(***************************************************************************)
EXTENDS AgentMethods, TLAPS

(* b is a at a later point of the same run.                                *)
SameRun(a, b) ==
  /\ b.session = a.session /\ b.task = a.task /\ b.check = a.check
  /\ b.allowed = a.allowed /\ b.maxCalls = a.maxCalls /\ b.maxModels = a.maxModels

(* ... and its run made no progress: at most it was blocked.               *)
NoProgress(a, b) ==
  /\ SameRun(a, b)
  /\ b.calls = a.calls /\ b.models = a.models /\ b.call = a.call /\ b.tool = a.tool
  /\ \/ b.state = a.state /\ b.verified = a.verified
     \/ b.state = "Blocked" /\ ~b.verified

LEMMA AbortOutcome ==
  ASSUME NEW a \in Agent, NEW e \in Errors
  PROVE  /\ Abort(a, e).a \in Agent /\ Abort(a, e).e = e
         /\ NoProgress(a, Abort(a, e).a)
         /\ Abort(a, e).a.state = "Blocked" /\ ~Abort(a, e).a.verified
  BY DEF Abort, Agent, NoProgress, SameRun, KernelStates

LEMMA RefuseOutcome ==
  ASSUME NEW a \in Agent, NEW e \in Errors
  PROVE  Refuse(a, e).a = a /\ Refuse(a, e).e = e /\ NoProgress(a, a)
  BY DEF Refuse, NoProgress, SameRun

LEMMA ErrorNames ==
  {"None", "Invalid", "State", "Deadline", "Budget", "Permission", "Identity",
   "Unverified", "ToolFailed", "Clock", "Resource", "Storage", "Adapter"} \subseteq Errors
  BY DEF Errors

LEMMA TickOutcome ==
  ASSUME NEW a \in Agent, NEW now \in Nat
  PROVE  /\ Tick(a, now).a \in Agent
         /\ NoProgress(a, Tick(a, now).a)
         /\ Tick(a, now).e = "None" =>
              Tick(a, now).a.state = a.state /\ Tick(a, now).a.verified = a.verified
         /\ Tick(a, now).e # "None" =>
              Tick(a, now).a.state = "Blocked" /\ Tick(a, now).e \in {"Clock", "Deadline"}
  <1> DEFINE b == [a EXCEPT !.last = now]
  <1>1. /\ b \in Agent /\ NoProgress(a, b)
        /\ b.state = a.state /\ b.verified = a.verified
    BY DEF Agent, NoProgress, SameRun
  <1> HIDE DEF b
  <1>2. Tick(a, now) = IF now < a.last THEN Abort(a, "Clock")
                       ELSE IF now >= a.deadline THEN Abort(b, "Deadline") ELSE Accept(b)
    BY DEF Tick, b
  <1>3. Abort(b, "Deadline").a \in Agent /\ NoProgress(b, Abort(b, "Deadline").a)
        /\ Abort(b, "Deadline").e = "Deadline"
        /\ Abort(b, "Deadline").a.state = "Blocked" /\ ~Abort(b, "Deadline").a.verified
    BY <1>1, AbortOutcome, ErrorNames
  <1>4. NoProgress(a, Abort(b, "Deadline").a)
    BY <1>1, <1>3 DEF NoProgress, SameRun
  <1>5. Abort(a, "Clock").a \in Agent /\ NoProgress(a, Abort(a, "Clock").a)
        /\ Abort(a, "Clock").e = "Clock" /\ Abort(a, "Clock").a.state = "Blocked"
    BY AbortOutcome, ErrorNames
  <1> QED BY <1>1, <1>2, <1>3, <1>4, <1>5 DEF Accept

(* A method that fails after the clock was read aborts what Tick left.     *)
LEMMA AbortAfterTick ==
  ASSUME NEW a \in Agent, NEW now \in Nat, NEW e \in Errors
  PROVE  LET o == Abort(Tick(a, now).a, e)
         IN  o.a \in Agent /\ o.e = e /\ NoProgress(a, o.a) /\ o.a.state = "Blocked"
  <1> DEFINE k == Tick(a, now).a
  <1>1. k \in Agent /\ NoProgress(a, k)
    BY TickOutcome
  <1> HIDE DEF k
  <1>2. Abort(k, e).a \in Agent /\ Abort(k, e).e = e /\ NoProgress(k, Abort(k, e).a)
        /\ Abort(k, e).a.state = "Blocked" /\ ~Abort(k, e).a.verified
    BY <1>1, AbortOutcome
  <1>3. NoProgress(a, Abort(k, e).a)
    BY <1>1, <1>2 DEF NoProgress, SameRun
  <1> QED BY <1>2, <1>3 DEF k

LEMMA BeginOutcome ==
  ASSUME NEW a \in Agent, NEW now \in Nat, NEW c \in Config
  PROVE  LET o == Begin(a, c, now) IN
         /\ o.a \in Agent
         /\ o.e # "None" => o.a = a
         /\ o.e = "None" =>
              /\ a.state \notin Active
              /\ o.a.state = "Model" /\ ~o.a.verified /\ o.a.task = c.task
              /\ o.a.calls = 0 /\ o.a.models = 0 /\ o.a.call = 0
              /\ o.a.check = c.check
  <1> DEFINE b == NewRun(c, now)
  <1>2. b \in Agent
    BY DEF NewRun, Config, Agent, KernelStates, Active, Errors, Checks
  <1>3. b.state = "Model" /\ ~b.verified /\ b.task = c.task /\ b.calls = 0 /\ b.models = 0
        /\ b.call = 0 /\ b.check = c.check
    BY DEF NewRun
  <1> HIDE DEF b
  <1>4. Begin(a, c, now) = IF a.state \in Active THEN Refuse(a, "State")
                           ELSE IF ~ValidConfig(c, now) THEN Refuse(a, "Invalid")
                           ELSE Accept(b)
    BY DEF Begin, b
  <1> QED BY <1>2, <1>3, <1>4 DEF Refuse, Accept

LEMMA RequestModelOutcome ==
  ASSUME NEW a \in Agent, NEW now \in Nat
  PROVE  LET o == RequestModel(a, now) IN
         /\ o.a \in Agent
         /\ o.e # "None" => NoProgress(a, o.a)
         /\ o.e # "None" /\ a.state = "Model" => o.a.state = "Blocked"
         /\ o.e = "None" =>
              /\ SameRun(a, o.a)
              /\ o.a.state = a.state /\ o.a.verified = a.verified
              /\ o.a.models = a.models + 1 /\ o.a.models <= a.maxModels
              /\ o.a.calls = a.calls /\ o.a.call = a.call /\ o.a.tool = a.tool
  <1> DEFINE k == Tick(a, now)
             b == [k.a EXCEPT !.models = @ + 1]
  <1>1. RequestModel(a, now) =
          IF a.state # "Model" THEN Refuse(a, "State")
          ELSE IF k.e # "None" THEN k
          ELSE IF a.models >= a.maxModels THEN Abort(k.a, "Budget") ELSE Accept(b)
    BY DEF RequestModel
  <1>2. k.a \in Agent /\ NoProgress(a, k.a)
        /\ (k.e = "None" => k.a.state = a.state /\ k.a.verified = a.verified)
        /\ (k.e # "None" => k.a.state = "Blocked" /\ k.e \in {"Clock", "Deadline"})
    BY TickOutcome
  <1>3. Abort(k.a, "Budget").a \in Agent /\ Abort(k.a, "Budget").e = "Budget"
        /\ NoProgress(a, Abort(k.a, "Budget").a) /\ Abort(k.a, "Budget").a.state = "Blocked"
    BY AbortAfterTick, ErrorNames
  <1> HIDE DEF k
  <1>4. b \in Agent
    BY <1>2 DEF Agent
  <1>5. /\ b.models = k.a.models + 1 /\ b.state = k.a.state /\ b.verified = k.a.verified
        /\ b.calls = k.a.calls /\ b.call = k.a.call /\ b.tool = k.a.tool /\ SameRun(k.a, b)
    BY <1>2 DEF Agent, SameRun
  <1>6. a.models \in Nat /\ a.maxModels \in Nat
    BY DEF Agent
  <1> HIDE DEF b
  <1>7. CASE a.state = "Model" /\ k.e = "None" /\ ~(a.models >= a.maxModels)
    BY <1>1, <1>2, <1>4, <1>5, <1>6, <1>7, ErrorNames DEF Accept, NoProgress, SameRun
  <1>8. CASE ~(a.state = "Model" /\ k.e = "None" /\ ~(a.models >= a.maxModels))
    BY <1>1, <1>2, <1>3, <1>8, RefuseOutcome, ErrorNames
  <1> QED BY <1>7, <1>8

LEMMA ProposeOutcome ==
  ASSUME NEW a \in Agent, NEW now \in Nat, NEW call \in Nat, NEW tool \in Tools
  PROVE  LET o == Propose(a, call, tool, now) IN
         /\ o.a \in Agent
         /\ o.e # "None" => NoProgress(a, o.a)
         /\ o.e \in Errors
         /\ o.e = "None" =>
              /\ SameRun(a, o.a) /\ a.state = "Model" /\ o.a.state = "Tool"
              /\ o.a.verified = a.verified /\ o.a.models = a.models
              /\ o.a.calls = a.calls /\ a.calls < a.maxCalls
              /\ o.a.call = call /\ call > a.call /\ o.a.tool = tool
  <1> DEFINE k == Tick(a, now)
             b == [k.a EXCEPT !.call = call, !.tool = tool, !.state = "Tool"]
             bad == IF call <= a.call THEN "Identity"
                    ELSE IF tool \notin a.allowed THEN "Permission" ELSE "Budget"
             good == call > a.call /\ tool \in a.allowed /\ a.calls < a.maxCalls
  <1>0. a.call \in Nat /\ a.calls \in Nat /\ a.maxCalls \in Nat
    BY DEF Agent
  <1>1. Propose(a, call, tool, now) =
          IF a.state # "Model" \/ a.models = 0 THEN Refuse(a, "State")
          ELSE IF k.e # "None" THEN k
          ELSE IF ~good THEN Abort(k.a, bad) ELSE Accept(b)
    BY <1>0 DEF Propose
  <1>2. k.a \in Agent /\ NoProgress(a, k.a)
        /\ (k.e = "None" => k.a.state = a.state /\ k.a.verified = a.verified)
        /\ (k.e # "None" => k.a.state = "Blocked" /\ k.e \in {"Clock", "Deadline"})
    BY TickOutcome
  <1>3. Abort(k.a, bad).a \in Agent /\ Abort(k.a, bad).e = bad
        /\ NoProgress(a, Abort(k.a, bad).a)
    BY AbortAfterTick, ErrorNames
  <1> HIDE DEF k
  <1>4. b \in Agent
    BY <1>2 DEF Agent, KernelStates, Active, Checks
  <1>5. /\ b.models = k.a.models /\ b.state = "Tool" /\ b.verified = k.a.verified
        /\ b.calls = k.a.calls /\ b.call = call /\ b.tool = tool /\ SameRun(k.a, b)
    BY <1>2 DEF Agent, SameRun
  <1>8. bad \in Errors \ {"None"}
    BY DEF Errors
  <1> HIDE DEF b, bad
  <1>6. CASE a.state = "Model" /\ a.models # 0 /\ k.e = "None" /\ good
    BY <1>0, <1>1, <1>2, <1>4, <1>5, <1>6, ErrorNames DEF Accept, NoProgress, SameRun
  <1>7. CASE ~(a.state = "Model" /\ a.models # 0 /\ k.e = "None" /\ good)
    BY <1>1, <1>2, <1>3, <1>7, <1>8, RefuseOutcome, ErrorNames
  <1> QED BY <1>6, <1>7

LEMMA DispatchOutcome ==
  ASSUME NEW a \in Agent, NEW now \in Nat, NEW resources \in BOOLEAN, NEW recorded \in BOOLEAN
  PROVE  LET o == Dispatch(a, resources, recorded, now) IN
         /\ o.a \in Agent
         /\ o.e # "None" => NoProgress(a, o.a)
         /\ o.e \in Errors
         /\ o.e = "None" =>
              /\ SameRun(a, o.a) /\ a.state = "Tool" /\ o.a.state = "Receipt"
              /\ o.a.verified = a.verified /\ o.a.models = a.models
              /\ o.a.calls = a.calls + 1 /\ o.a.call = a.call /\ o.a.tool = a.tool
  <1> DEFINE k == Tick(a, now)
             b == [k.a EXCEPT !.calls = @ + 1, !.state = "Receipt"]
  <1>1. Dispatch(a, resources, recorded, now) =
          IF a.state # "Tool" THEN Refuse(a, "State")
          ELSE IF k.e # "None" THEN k
          ELSE IF ~resources THEN Refuse(k.a, "Resource")
          ELSE IF ~recorded THEN Abort(k.a, "Storage") ELSE Accept(b)
    BY DEF Dispatch
  <1>2. k.a \in Agent /\ NoProgress(a, k.a)
        /\ (k.e = "None" => k.a.state = a.state /\ k.a.verified = a.verified)
        /\ (k.e # "None" => k.a.state = "Blocked" /\ k.e \in {"Clock", "Deadline"})
    BY TickOutcome
  <1>3. Abort(k.a, "Storage").a \in Agent /\ NoProgress(a, Abort(k.a, "Storage").a)
        /\ Abort(k.a, "Storage").e = "Storage"
    BY AbortAfterTick, ErrorNames
  <1> HIDE DEF k
  <1>4. b \in Agent
    <2>1. [k.a EXCEPT !.calls = @ + 1] \in Agent
      BY <1>2 DEF Agent
    <2>2. [[k.a EXCEPT !.calls = @ + 1] EXCEPT !.state = "Receipt"] \in Agent
      BY <2>1 DEF Agent, KernelStates, Active
    <2> QED BY <2>2
  <1>5. /\ b.models = k.a.models /\ b.state = "Receipt" /\ b.verified = k.a.verified
        /\ b.calls = k.a.calls + 1 /\ b.call = k.a.call /\ b.tool = k.a.tool /\ SameRun(k.a, b)
    BY <1>2 DEF Agent, SameRun
  <1> HIDE DEF b
  <1>6. CASE a.state = "Tool" /\ k.e = "None" /\ resources /\ recorded
    BY <1>1, <1>2, <1>4, <1>5, <1>6, ErrorNames DEF Accept, NoProgress, SameRun
  <1>7. CASE ~(a.state = "Tool" /\ k.e = "None" /\ resources /\ recorded)
    BY <1>1, <1>2, <1>3, <1>7, RefuseOutcome, ErrorNames DEF Refuse
  <1> QED BY <1>6, <1>7

LEMMA ReceiveOutcome ==
  ASSUME NEW a \in Agent, NEW now \in Nat, NEW r,
         r.ok \in BOOLEAN, r.checked \in BOOLEAN
  PROVE  LET o == Receive(a, r.call, r.ok, r.checked, now) IN
         /\ o.a \in Agent
         /\ o.e # "None" => NoProgress(a, o.a)
         /\ o.e \in Errors
         /\ o.e = "None" =>
              /\ SameRun(a, o.a) /\ a.state = "Receipt" /\ o.a.state = "Model"
              /\ o.a.models = a.models /\ o.a.calls = a.calls
              /\ o.a.call = a.call /\ o.a.tool = a.tool
              /\ r.call.task = a.task /\ r.call.call = a.call
              /\ o.a.verified => r.ok /\ (a.verified \/ (r.checked /\ a.check = a.tool))
  <1> DEFINE k == Tick(a, now)
             v == IF ~r.ok THEN FALSE ELSE IF a.check = a.tool THEN r.checked ELSE k.a.verified
             f == IF r.ok THEN "None" ELSE "ToolFailed"
             b == [k.a EXCEPT !.state = "Model", !.error = f, !.verified = v]
             match == <<r.call.session, r.call.task, r.call.call>> = <<a.session, a.task, a.call>>
  <1>1. Receive(a, r.call, r.ok, r.checked, now) =
          IF a.state # "Receipt" THEN Refuse(a, "State")
          ELSE IF ~match THEN Refuse(a, "Identity")
          ELSE IF k.e # "None" THEN k ELSE Accept(b)
    BY DEF Receive
  <1>2. k.a \in Agent /\ NoProgress(a, k.a)
        /\ (k.e = "None" => k.a.state = a.state /\ k.a.verified = a.verified)
        /\ (k.e # "None" => k.a.state = "Blocked" /\ k.e \in {"Clock", "Deadline"})
    BY TickOutcome
  <1>3. f \in Errors
    BY DEF Errors
  <1> HIDE DEF k
  <1>4. v \in BOOLEAN
    BY <1>2 DEF Agent
  <1> HIDE DEF f
  <1>5. b \in Agent
    <2> HIDE DEF v
    <2> QED BY <1>2, <1>3, <1>4 DEF Agent, KernelStates, Active
  <1>6. /\ b.models = k.a.models /\ b.state = "Model" /\ b.verified = v
        /\ b.calls = k.a.calls /\ b.call = k.a.call /\ b.tool = k.a.tool /\ SameRun(k.a, b)
    <2> HIDE DEF v
    <2> QED BY <1>2 DEF Agent, SameRun
  <1> HIDE DEF b
  <1>9. ASSUME k.e = "None", a.state = "Receipt", v
        PROVE  r.ok /\ (a.verified \/ (r.checked /\ a.check = a.tool))
    BY <1>2, <1>9
  <1> HIDE DEF v
  <1>7. CASE a.state = "Receipt" /\ match /\ k.e = "None"
    BY <1>9, <1>1, <1>2, <1>5, <1>6, <1>7, ErrorNames DEF Accept, NoProgress, SameRun
  <1>8. CASE ~(a.state = "Receipt" /\ match /\ k.e = "None")
    BY <1>1, <1>2, <1>8, RefuseOutcome, ErrorNames
  <1> QED BY <1>7, <1>8

LEMMA AnswerOutcome ==
  ASSUME NEW a \in Agent, NEW now \in Nat
  PROVE  LET o == Answer(a, now) IN
         /\ o.a \in Agent
         /\ o.e # "None" => NoProgress(a, o.a)
         /\ o.e = "Unverified" => a.state = "Model" /\ o.a.state = "Model"
         /\ o.e = "None" =>
              /\ SameRun(a, o.a) /\ a.state = "Model" /\ o.a.state = "Complete"
              /\ o.a.verified = a.verified /\ (a.check = Conversation \/ a.verified)
              /\ o.a.models = a.models /\ o.a.calls = a.calls
              /\ o.a.call = a.call /\ o.a.tool = a.tool
  <1> DEFINE k == Tick(a, now)
             b == [k.a EXCEPT !.state = "Complete", !.error = "None"]
             u == [k.a EXCEPT !.error = "Unverified"]
             open == a.check # Conversation /\ ~a.verified
  <1>1. Answer(a, now) =
          IF a.state # "Model" \/ a.models = 0 THEN Refuse(a, "State")
          ELSE IF k.e # "None" THEN k
          ELSE IF open THEN Refuse(u, "Unverified") ELSE Accept(b)
    BY DEF Answer
  <1>2. k.a \in Agent /\ NoProgress(a, k.a)
        /\ (k.e = "None" => k.a.state = a.state /\ k.a.verified = a.verified)
        /\ (k.e # "None" => k.a.state = "Blocked" /\ k.e \in {"Clock", "Deadline"})
    BY TickOutcome
  <1> HIDE DEF k
  <1>3. b \in Agent /\ u \in Agent
    BY <1>2 DEF Agent, KernelStates, Errors
  <1>4. /\ b.models = k.a.models /\ b.state = "Complete" /\ b.verified = k.a.verified
        /\ b.calls = k.a.calls /\ b.call = k.a.call /\ b.tool = k.a.tool /\ SameRun(k.a, b)
    BY <1>2 DEF Agent, SameRun
  <1>5. NoProgress(k.a, u) /\ u.state = k.a.state /\ u.verified = k.a.verified
    BY <1>2 DEF Agent, NoProgress, SameRun
  <1> HIDE DEF b, u
  <1>6. CASE a.state = "Model" /\ a.models # 0 /\ k.e = "None" /\ ~open
    BY <1>1, <1>2, <1>3, <1>4, <1>6, ErrorNames DEF Accept, NoProgress, SameRun
  <1>7. CASE a.state = "Model" /\ a.models # 0 /\ k.e = "None" /\ open
    BY <1>1, <1>2, <1>3, <1>5, <1>7 DEF Refuse, NoProgress, SameRun
  <1>8. CASE ~(a.state = "Model" /\ a.models # 0 /\ k.e = "None")
    BY <1>1, <1>2, <1>8, RefuseOutcome, ErrorNames
  <1> QED BY <1>6, <1>7, <1>8

LEMMA CancelledOutcome ==
  ASSUME NEW a \in Agent
  PROVE  /\ Cancelled(a) \in Agent /\ SameRun(a, Cancelled(a))
         /\ \/ Cancelled(a) = a
            \/ Cancelled(a).state = "Cancelled" /\ ~Cancelled(a).verified /\ a.state \in Active
         /\ Cancelled(a).calls = a.calls /\ Cancelled(a).models = a.models
         /\ Cancelled(a).call = a.call /\ Cancelled(a).tool = a.tool
  BY DEF Cancelled, Agent, KernelStates, SameRun
=============================================================================
