---------------------------- MODULE HostProcesses ----------------------------
(* Programs that Loop starts and stops on a host, next to those of others: the
   program of a process node (ProcessNode, src/toolchain/process_node.py, its reviewed
   profile or Skill), and process_inspect with process_stop, which signal processes
   of anybody by their identity (src/toolchain/process_control.py, run by
   src/terminal/process_control.py here or over SSH).

   The host hands a pid out again once a process has been reaped; what a pid
   named before and names now is told apart by when it started (its life).       *)
EXTENDS Naturals, FiniteSets, Sequences

CONSTANTS
  Pids, Protected,        \* those of the controlling processes (ancestors of the adapter) never end
  Calls,                  \* calls of process_stop
  MaxLives, MaxVersions   \* bounds

VARIABLES
  proc,     \* per pid: [life, st]: "run", "zombie" or "free" (a zombie keeps its pid)
  seen,     \* identities in the last report of process_inspect
  call,     \* per call: [pc, targets, todo, handles, aim, signals]
  asked,    \* per call: what the terminal made of it
  hit,      \* ghost: what each call signalled
  node,     \* the process node: [pc, life, pid]
  file, reviewed, ran,    \* versions: of the profile on disk, of the one the start names, of what runs
  interrupted             \* ghost: what the node signalled

vars == <<proc, seen, call, asked, hit, node, file, reviewed, ran, interrupted>>
host == <<proc, seen>>
calls == <<call, asked, hit>>
nodes == <<node, file, reviewed, ran, interrupted>>

Id(p) == [pid |-> p, life |-> proc[p].life]
Ids == [pid : Pids, life : 1..MaxLives]
Modes == {<<"INT">>, <<"KILL">>, <<"INT", "KILL">>}
NoCall == [pc |-> "none", targets |-> {}, todo |-> {}, handles |-> {}, aim |-> {}, signals |-> <<>>]
NoNode == [pc |-> "none", pid |-> 0, life |-> 0]

TypeOK ==
  /\ \A p \in Pids : proc[p].life \in 0..MaxLives /\ proc[p].st \in {"free", "run", "zombie"}
  /\ seen \subseteq Ids
  /\ \A c \in Calls :
       /\ call[c].pc \in {"none", "verify", "opening", "again", "signal", "aimed", "waiting", "done"}
       /\ call[c].todo \subseteq call[c].targets /\ call[c].handles \subseteq [target : Ids, at : Ids]
       /\ asked[c] \in {"none", "waiting", "refused", "failed", "unknown", "stopped", "remaining"}
       /\ hit[c] \subseteq Ids
  /\ node.pc \in {"none", "accepted", "run", "exited", "closing", "interrupt", "wait", "closed", "refused"}

Init ==
  /\ proc = [p \in Pids |-> IF p \in Protected THEN [life |-> 1, st |-> "run"] ELSE [life |-> 0, st |-> "free"]]
  /\ seen = {} /\ call = [c \in Calls |-> NoCall] /\ asked = [c \in Calls |-> "none"] /\ hit = [c \in Calls |-> {}]
  /\ node = NoNode /\ file = 1 /\ reviewed = 0 /\ ran = 0 /\ interrupted = {}

-----------------------------------------------------------------------------
(* The host. *)

Live(p) == proc[p].st = "run"
Born(p) == [life |-> proc[p].life + 1, st |-> "run"]
CanStart(p) == proc[p].st = "free" /\ proc[p].life < MaxLives
Own(p) == node.pid = p /\ node.pc \in {"run", "closing", "interrupt", "wait"}

\* somebody starts a program
Start(p) == CanStart(p) /\ proc' = [proc EXCEPT ![p] = Born(p)] /\ UNCHANGED <<seen, calls, nodes>>

Exit(p) == Live(p) /\ p \notin Protected /\ proc' = [proc EXCEPT ![p].st = "zombie"] /\ UNCHANGED <<seen, calls, nodes>>

\* the node's worker alone reaps the node's program
Reap(p) == proc[p].st = "zombie" /\ ~Own(p) /\ proc' = [proc EXCEPT ![p].st = "free"] /\ UNCHANGED <<seen, calls, nodes>>

\* process and inspect: a pid that is there has a row, zombies too
Row(p) == proc[p].st # "free"
Inspect ==
  /\ \E c \in Calls : call[c].pc = "none"    \* bound: a report that no call uses
  /\ seen' = {Id(p) : p \in {q \in Pids : Row(q)}} /\ UNCHANGED <<proc, calls, nodes>>

-----------------------------------------------------------------------------
(* process_stop.  request: one to 32 identities, each pid once.              *)

Requests == {ts \in SUBSET seen : ts # {} /\ \A s, t \in ts : s.pid = t.pid => s = t}

Request(c) ==
  /\ call[c].pc = "none"
  /\ \E ts \in Requests, m \in Modes :
       call' = [call EXCEPT ![c] = [pc |-> "verify", targets |-> ts, todo |-> ts, handles |-> {}, aim |-> {}, signals |-> m]]
  /\ seen' = {} /\ asked' = [asked EXCEPT ![c] = "waiting"] /\ UNCHANGED <<proc, hit, nodes>>

\* an answer reaches the terminal unless it gave up
Answered(c, how) == asked' = [asked EXCEPT ![c] = IF asked[c] = "waiting" THEN how ELSE asked[c]]
Over(c) == [call EXCEPT ![c] = [NoCall EXCEPT !.pc = "done", !.targets = call[c].targets]]
Refuse(c) == call' = Over(c) /\ Answered(c, "refused") /\ UNCHANGED <<host, hit, nodes>>

Matches(t) == Id(t.pid) = t
Gone(t) == ~Row(t.pid)

\* every target is verified before the first signal
Verify(c) ==
  /\ call[c].pc = "verify"
  /\ \E t \in call[c].todo :
       IF t.pid \in Protected \/ (Row(t.pid) /\ ~Matches(t)) THEN Refuse(c)
       ELSE /\ call' = [call EXCEPT ![c].todo = IF Live(t.pid) THEN @ ELSE @ \ {t},
                                    ![c].pc = IF Live(t.pid) THEN "opening" ELSE "verify",
                                    ![c].handles = IF Live(t.pid) THEN @ \cup {[target |-> t, at |-> t]} ELSE @]
            /\ UNCHANGED <<host, asked, hit, nodes>>

Pending(c) == {h \in call[c].handles : h.target \in call[c].todo}

\* pidfd_open: the handle stands for whatever has the pid now
OpenHandle(c) ==
  /\ call[c].pc = "opening"
  /\ \E h \in Pending(c) :
       IF Row(h.target.pid)
       THEN call' = [call EXCEPT ![c].pc = "again",
                                 ![c].handles = (@ \ {h}) \cup {[h EXCEPT !.at = Id(h.target.pid)]}]
       ELSE call' = [call EXCEPT ![c].pc = "verify", ![c].handles = @ \ {h}, ![c].todo = @ \ {h.target}]
  /\ UNCHANGED <<host, asked, hit, nodes>>

Confirm(c) ==
  /\ call[c].pc = "again"
  /\ \E h \in Pending(c) :
       IF Row(h.target.pid) /\ ~Matches(h.target) THEN Refuse(c)
       ELSE /\ call' = [call EXCEPT ![c].pc = "verify", ![c].todo = @ \ {h.target}]
            /\ UNCHANGED <<host, asked, hit, nodes>>

Verified(c) ==
  /\ call[c].pc = "verify" /\ call[c].todo = {}
  /\ call' = [call EXCEPT ![c].pc = "signal", ![c].todo = {h.target : h \in call[c].handles}]
  /\ UNCHANGED <<host, asked, hit, nodes>>

\* alive
Alive(t) == Live(t.pid) /\ Matches(t)
Aim(c) ==
  /\ call[c].pc = "signal"
  /\ \E h \in Pending(c) :
       call' = [call EXCEPT ![c].todo = @ \ {h.target},
                            ![c].pc = IF Alive(h.target) THEN "aimed" ELSE "signal",
                            ![c].aim = IF Alive(h.target) THEN {h} ELSE {}]
  /\ UNCHANGED <<host, asked, hit, nodes>>

\* Mutant of Reached: os.kill with the pid.
ReachedByPid(h) == {Id(p) : p \in {q \in {h.target.pid} : Row(q)}}

\* pidfd_send_signal: what the handle stands for, if that is still there
Reached(h) == {i \in {h.at} : Row(i.pid) /\ Matches(i)}
Signal(c) ==
  /\ call[c].pc = "aimed"
  /\ \E h \in call[c].aim :
       /\ hit' = [hit EXCEPT ![c] = @ \cup Reached(h)]
       /\ proc' = [p \in Pids |-> IF Head(call[c].signals) = "KILL" /\ p \in {i.pid : i \in Reached(h)}
                                THEN [proc[p] EXCEPT !.st = "zombie"] ELSE proc[p]]
  /\ call' = [call EXCEPT ![c].pc = "signal", ![c].aim = {}]
  /\ UNCHANGED <<seen, asked, nodes>>

Signalled(c) ==
  /\ call[c].pc = "signal" /\ call[c].todo = {}
  /\ call' = [call EXCEPT ![c].pc = "waiting", ![c].signals = Tail(@)]
  /\ UNCHANGED <<host, asked, hit, nodes>>

Remaining(c) == {t \in call[c].targets : Alive(t)}

\* the wait for one signal is over: the next one, or the answer
Waited(c) ==
  /\ call[c].pc = "waiting"
  /\ IF Remaining(c) # {} /\ call[c].signals # <<>>
     THEN /\ call' = [call EXCEPT ![c].pc = "signal", ![c].todo = {h.target : h \in call[c].handles}]
          /\ UNCHANGED asked
     ELSE call' = Over(c) /\ Answered(c, IF Remaining(c) = {} THEN "stopped" ELSE "remaining")
  /\ UNCHANGED <<host, hit, nodes>>

\* /proc cannot be read, no pidfd, the SSH session breaks: the adapter ends with an error
Breaks(c) ==
  /\ call[c].pc \in {"verify", "opening", "again", "signal", "aimed", "waiting"}
  /\ call' = Over(c) /\ Answered(c, "failed") /\ UNCHANGED <<host, hit, nodes>>

\* The call is cancelled or took 50 s: the local process is ended, an adapter on another host goes on.
GiveUp(c) ==
  /\ asked[c] = "waiting" /\ asked' = [asked EXCEPT ![c] = "unknown"]
  /\ \/ call' = Over(c)
     \/ UNCHANGED call
  /\ UNCHANGED <<host, hit, nodes>>

-----------------------------------------------------------------------------
(* The process node. *)

\* the user edits a profile, or a Skill's files; after the launch nothing reads them
Edit == file < MaxVersions /\ node.pc \in {"none", "accepted"} /\ file' = file + 1 /\ UNCHANGED <<host, calls, node, reviewed, ran, interrupted>>

\* node_profiles, skill_executables
ReviewProfile == reviewed' = file /\ reviewed' # reviewed /\ node.pc = "none" /\ UNCHANGED <<host, calls, node, file, ran, interrupted>>

\* config, in the supervisor
Accept ==
  /\ node.pc = "none" /\ reviewed # 0
  /\ node' = [node EXCEPT !.pc = IF reviewed = file THEN "accepted" ELSE "refused"]
  /\ UNCHANGED <<host, calls, file, reviewed, ran, interrupted>>

\* ProcessNode.__init__ and materialize read once more; what they read is what runs
Unchanged == file = reviewed
Launch ==
  /\ node.pc = "accepted"
  /\ IF Unchanged
     THEN \E p \in Pids :
            /\ CanStart(p) /\ proc' = [proc EXCEPT ![p] = Born(p)]
            /\ node' = [pc |-> "run", pid |-> p, life |-> proc'[p].life] /\ ran' = file
     ELSE node' = [node EXCEPT !.pc = "refused"] /\ UNCHANGED <<proc, ran>>
  /\ UNCHANGED <<seen, calls, file, reviewed, interrupted>>

\* poll and wait reap a program that exited
Reaps == proc' = [proc EXCEPT ![node.pid].st = "free"]

\* snapshot, and send to a program that runs
Snapshot ==
  /\ node.pc = "run" /\ ~Live(node.pid)
  /\ Reaps /\ node' = [node EXCEPT !.pc = "exited"]
  /\ UNCHANGED <<seen, calls, file, reviewed, ran, interrupted>>

\* close: the stop command of the profile first, which may take four seconds
Close ==
  /\ node.pc \in {"run", "exited"}
  /\ node' = [node EXCEPT !.pc = IF @ = "run" THEN "closing" ELSE "closed"]
  /\ UNCHANGED <<host, calls, file, reviewed, ran, interrupted>>

\* close: a program that is gone is not interrupted
CloseAfterExit ==
  /\ node.pc = "closing" /\ ~Live(node.pid)
  /\ Reaps /\ node' = [node EXCEPT !.pc = "closed"]
  /\ UNCHANGED <<seen, calls, file, reviewed, ran, interrupted>>

Interrupting ==
  /\ node.pc = "closing" /\ Live(node.pid)
  /\ node' = [node EXCEPT !.pc = "interrupt"] /\ UNCHANGED <<host, calls, file, reviewed, ran, interrupted>>

Interrupt ==
  /\ node.pc = "interrupt" /\ node' = [node EXCEPT !.pc = "wait"]
  /\ interrupted' = IF Row(node.pid) THEN {Id(node.pid)} ELSE {}
  /\ UNCHANGED <<host, calls, file, reviewed, ran>>

\* it is not forced: the worker waits for the program, however long that takes
Waits ==
  /\ node.pc = "wait" /\ ~Live(node.pid)
  /\ Reaps /\ node' = [node EXCEPT !.pc = "closed"]
  /\ UNCHANGED <<seen, calls, file, reviewed, ran, interrupted>>

-----------------------------------------------------------------------------
Stop(c) ==
  \/ Request(c) \/ Verify(c) \/ OpenHandle(c) \/ Confirm(c) \/ Verified(c)
  \/ Aim(c) \/ Signal(c) \/ Signalled(c) \/ Waited(c) \/ Breaks(c) \/ GiveUp(c)
Next ==
  \/ Inspect \/ Edit \/ ReviewProfile \/ Accept \/ Launch \/ Snapshot \/ Close \/ CloseAfterExit
  \/ Interrupting \/ Interrupt \/ Waits
  \/ \E p \in Pids : Start(p) \/ Exit(p) \/ Reap(p)
  \/ \E c \in Calls : Stop(c)
Spec == Init /\ [][Next]_vars

-----------------------------------------------------------------------------
(* However pids are handed out again while a call inspects, waits or escalates, the
   signals of process_stop reach no process but those it was asked to stop and never
   the processes it runs under, and the node's interrupt reaches the program
   it started.                                                               *)
SignalsHitTheirTarget ==
  /\ \A c \in Calls : hit[c] \subseteq call[c].targets /\ \A i \in hit[c] : i.pid \notin Protected
  /\ interrupted \subseteq {[pid |-> node.pid, life |-> node.life]}

(* What the caller is told is so: a refused request has signalled nothing, and of
   processes reported as stopped none runs.                                  *)
AnswersAreTrue ==
  \A c \in Calls :
    /\ asked[c] = "refused" => hit[c] = {}
    /\ asked[c] = "stopped" => \A t \in call[c].targets : ~Alive(t)

(* What runs is what was reviewed, whenever its files were changed.           *)
RunsWhatWasReviewed == ran # 0 => ran = reviewed
=============================================================================
