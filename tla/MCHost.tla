------------------------------- MODULE MCHost -------------------------------
(* A behaviour is one of one part of the host (Host); the others stay as they
   began. Bounds: a bus and another user of its port; two programs that come and
   go, or one and a process node, and the shell the terminal runs in (process 3);
   a release with one session and three environments, or two and two.        *)
EXTENDS Host
CONSTANTS p, q

\* A task that registers tool 0 and may use tool 1 too, with small budgets
Checked(task) == [session |-> 1, task |-> task, allowed |-> {0, 1}, check |-> 0,
                  maxCalls |-> 2, maxModels |-> 2, timeout |-> 2]
Chat(task) == [Checked(task) EXCEPT !.check = Conversation, !.allowed = {1}, !.maxCalls = 1]
SmallConfigs ==
  {[Checked(1) EXCEPT !.maxModels = 1], [Checked(2) EXCEPT !.maxCalls = 1, !.maxModels = 1],
   [Chat(2) EXCEPT !.timeout = 3], [Checked(1) EXCEPT !.allowed = {1}],
   [Checked(1) EXCEPT !.maxModels = 0]}

VARIABLE part
busVars == <<user, lock, exclusive, settings, exchange, line, reserved, accepted, motor, taken,
  busCalls, busOpens>>
loopVars == <<runtime, pc, attempt, late, body, episode, review, log, result, moves, stuck>>
hostVars == <<proc, seen, call, asked, hit, node, file, reviewed, ran, interrupted>>
releaseVars == <<record, env, version, cmd, backup, dispatcher, op, sess>>

\* Only the part that runs has more than one way to begin
HostInit ==
  /\ part \in {"kernel", "bus", "loop", "processes", "release", "sessions"}
  /\ Init /\ Bus!Init /\ Loop!Init /\ Processes!Init /\ Release!Init
  /\ part # "bus" => motor = [torque |-> FALSE, mode |-> 0]
  /\ part # "loop" => runtime = "python"
HostNext ==
  /\ UNCHANGED part
  /\ \/ part = "kernel" /\ Next /\ UNCHANGED <<busVars, loopVars, hostVars, releaseVars>>
     \/ part = "bus" /\ Bus!Next /\ UNCHANGED <<vars, loopVars, hostVars, releaseVars>>
     \/ part = "loop" /\ Loop!Next /\ UNCHANGED <<vars, busVars, hostVars, releaseVars>>
     \/ part = "processes" /\ Processes!Next /\ (node'.pc = "none" \/ proc'[2].life = 0)
        /\ UNCHANGED <<vars, busVars, loopVars, releaseVars>>
     \/ part = "release" /\ Release!Next /\ sess'[q].at = "off"
        /\ UNCHANGED <<vars, busVars, loopVars, hostVars>>
     \/ part = "sessions" /\ Release!Next /\ env'[3] = "unused"
        /\ UNCHANGED <<vars, busVars, loopVars, hostVars>>
HostSpec ==
  HostInit /\ [][HostNext]_<<part, vars, busVars, loopVars, hostVars, releaseVars>>
=============================================================================
