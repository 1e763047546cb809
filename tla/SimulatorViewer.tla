-------------------------- MODULE SimulatorViewer --------------------------
(* The desktop viewer of the simulator: the terminal's side (SimulatorViewer,
   src/terminal/viewer.py, and the motion loop of App._tool) and the window's
   process (src/toolchain/viewer_worker.py with viewer_control.py and
   viewer_motion.py).  They share two files: the inbox, where one command
   waits, and the ready file, where the worker publishes what it is doing.

   Time is kept to what is compared with a deadline: a command is late 3 s after it
   was written, its caller gives up after 4 s, and the ready file is stale 3 s after it was
   published.  Any of these may pass while the worker is held up.            *)
EXTENDS Naturals, FiniteSets

CONSTANTS
  Callers,      \* threads of the terminal that use the viewer
  Kinds,        \* the commands they send
  None,
  MaxCommands, MaxOpens, MaxKeys, MaxEdits, MaxCrashes  \* bounds

VARIABLES
  worker,   \* the process the terminal refers to: "none", "starting", "alive" or "dead"
  owner,    \* owner.json names it
  hand,     \* what the worker holds: [pc, id, kind], pc in "loop", "sees", "took", "checked"
  paused, motion, \* SimulationControl: motion is [state, id]
  last,     \* last_command: [id, ok]
  loaded,   \* version of the scene it shows
  pub,      \* the ready file, None or [open, motion, last, scene]
  fresh,    \* its heartbeat
  inbox,    \* None or [id, kind]
  late,     \* commands past their expiry
  holder,   \* who has SimulatorViewer.lock
  call,     \* per caller: [pc, id, kind, watch, scene]
  told,     \* what the caller of each command was told
  applied, reached, \* ghosts: commands carried out, motions that succeeded
  disk,     \* version of the scene file
  stop,     \* stop_event
  sent, opens, keys, crashes  \* bounds

wvars == <<hand, paused, motion, last, loaded>>
files == <<pub, fresh, inbox>>
bounds == <<sent, opens, keys, crashes>>
vars == <<worker, owner, wvars, files, late, holder, call, told, applied, reached, disk, stop, bounds>>

Ids == 1..MaxCommands
Idle == [pc |-> "idle", id |-> 0, kind |-> None, watch |-> 0, scene |-> 0]
NoMotion == [state |-> "idle", id |-> 0]
NoCommand == [id |-> 0, ok |-> FALSE]
Empty == [pc |-> "loop", id |-> 0, kind |-> None]

TypeOK ==
  /\ worker \in {"none", "starting", "alive", "dead"} /\ owner \in BOOLEAN
  /\ hand.pc \in {"loop", "sees", "took", "checked"} /\ hand.id \in 0..MaxCommands
  /\ motion.state \in {"idle", "running", "cancelled", "failed", "succeeded"}
  /\ inbox = None \/ inbox.id \in Ids
  /\ holder \in Callers \cup {None}
  /\ \A c \in Callers : call[c].pc \in {"idle", "spawned", "opening", "waiting", "watching", "stopping"}
  /\ told \in [Ids -> {"", "executed", "refused", "unknown", "reached", "ended", "shown", "failed"}]
  /\ applied \subseteq Ids /\ reached \subseteq applied

Init ==
  /\ worker = "none" /\ owner = FALSE /\ hand = Empty /\ paused = FALSE
  /\ motion = NoMotion /\ last = NoCommand /\ loaded = 0
  /\ pub = None /\ fresh = FALSE /\ inbox = None /\ late = {}
  /\ holder = None /\ call = [c \in Callers |-> Idle] /\ told = [i \in Ids |-> ""]
  /\ applied = {} /\ reached = {} /\ disk = 1 /\ stop = FALSE
  /\ sent = 0 /\ opens = 0 /\ keys = 0 /\ crashes = 0

-----------------------------------------------------------------------------
(* What the terminal can tell. *)

Running == worker \in {"starting", "alive"}
\* status: the window counts as open only while its heartbeat is fresh
WindowOpen == Running /\ pub # None /\ fresh /\ pub.open
Shown == IF pub = None THEN NoMotion ELSE pub.motion

Free(c) == call[c].pc = "idle" /\ holder = None
Answer(i, a) == told' = [told EXCEPT ![i] = a]

(* close: the process is gone before the lock is released, with its files: a
   new process has paths of its own.                                         *)
Closed ==
  /\ worker' = "none" /\ owner' = FALSE /\ hand' = Empty
  /\ pub' = None /\ fresh' = FALSE /\ inbox' = None
  /\ UNCHANGED <<paused, motion, last, loaded>>

-----------------------------------------------------------------------------
(* Opening a window. *)

\* _open keeps a window that shows the scene, unless told to reload
Reuses(force) == ~force /\ WindowOpen /\ pub.scene = disk

Open(c, force) ==
  /\ Free(c) /\ opens < MaxOpens /\ sent < MaxCommands
  /\ opens' = opens + 1 /\ sent' = sent + 1
  /\ IF Reuses(force)
     THEN /\ Answer(sent', "shown")
          /\ UNCHANGED <<worker, owner, wvars, files, holder, call>>
     ELSE /\ worker' = "starting" /\ owner' = FALSE /\ hand' = Empty
          /\ paused' = FALSE /\ motion' = NoMotion /\ last' = NoCommand /\ loaded' = 0
          /\ pub' = None /\ fresh' = FALSE /\ inbox' = None
          /\ holder' = c
          /\ call' = [call EXCEPT ![c] = [Idle EXCEPT !.pc = "spawned", !.id = sent', !.scene = disk]]
          /\ UNCHANGED told
  /\ UNCHANGED <<late, applied, reached, disk, stop, keys, crashes>>

RecordOwner(c) ==
  /\ call[c].pc = "spawned"
  /\ owner' = TRUE /\ call' = [call EXCEPT ![c].pc = "opening"]
  /\ UNCHANGED <<worker, wvars, files, late, holder, told, applied, reached, disk, stop, bounds>>

Opened(c) ==
  /\ call[c].pc = "opening" /\ WindowOpen /\ pub.scene = call[c].scene
  /\ holder' = None /\ call' = [call EXCEPT ![c] = Idle] /\ Answer(call[c].id, "shown")
  /\ UNCHANGED <<worker, owner, wvars, files, late, applied, reached, disk, stop, bounds>>

(* Twelve seconds passed, the process died, or the ready file is there and did not
   show the scene when it was read: it may do so by the time it is closed.   *)
OpenFails(c) ==
  /\ call[c].pc = "opening"
  /\ Closed /\ holder' = None /\ call' = [call EXCEPT ![c] = Idle] /\ Answer(call[c].id, "failed")
  /\ UNCHANGED <<late, applied, reached, disk, stop, bounds>>

Close(c) ==
  /\ Free(c) /\ worker # "none" /\ Closed
  /\ UNCHANGED <<late, holder, call, told, applied, reached, disk, stop, bounds>>

-----------------------------------------------------------------------------
(* Sending a command and following a motion. *)

\* command and _command
Request(c, k) ==
  /\ sent < MaxCommands /\ sent' = sent + 1 /\ holder = None
  /\ IF WindowOpen
     THEN /\ inbox' = [id |-> sent', kind |-> k]
          /\ holder' = c
          /\ call' = [call EXCEPT ![c].pc = "waiting", ![c].id = sent', ![c].kind = k]
          /\ UNCHANGED told
     ELSE /\ Answer(sent', "refused")
          /\ call' = [call EXCEPT ![c] = Idle]
          /\ UNCHANGED <<inbox, holder>>
  /\ UNCHANGED <<worker, owner, wvars, pub, fresh, late, applied, reached, disk, stop, opens, keys, crashes>>

Send(c, k) == Free(c) /\ Request(c, k)

\* a motion that was accepted is followed by the tool that asked for it
Acknowledged(c) ==
  /\ call[c].pc = "waiting" /\ pub # None /\ pub.last.id = call[c].id
  /\ holder' = None
  /\ LET ok == pub.last.ok
         moves == call[c].kind = "move" /\ ok
     IN /\ call' = [call EXCEPT ![c] = IF moves THEN [Idle EXCEPT !.pc = "watching", !.watch = call[c].id] ELSE Idle]
        /\ Answer(call[c].id, IF ok THEN "executed" ELSE "refused")
  /\ UNCHANGED <<worker, owner, wvars, files, late, applied, reached, disk, stop, bounds>>

\* the last a dead worker published is read; what a slow one publishes may be missed
Silent(c) == call[c].id \in late \/ (~Running /\ (pub = None \/ pub.last.id # call[c].id))

(* No acknowledgement: what became of the command is not known. *)
GivesUp(c) ==
  /\ call[c].pc = "waiting" /\ Silent(c)
  /\ inbox' = None /\ holder' = None /\ call' = [call EXCEPT ![c] = Idle]
  /\ Answer(call[c].id, "unknown")
  /\ UNCHANGED <<worker, owner, wvars, pub, fresh, late, applied, reached, disk, stop, bounds>>

Watches(c) == call[c].pc = "watching"
Replaced(c) == Shown.id # 0 /\ Shown.id # call[c].watch

\* the tool returns; a motion that was not reached is reported as an error
MotionEnds(c) ==
  /\ Watches(c)
  /\ Replaced(c) \/ (~stop /\ (~WindowOpen \/ Shown.state # "running"))
  /\ Answer(call[c].watch, IF ~Replaced(c) /\ WindowOpen /\ Shown.state = "succeeded"
                           THEN "reached" ELSE "ended")
  /\ call' = [call EXCEPT ![c] = Idle]
  /\ UNCHANGED <<worker, owner, wvars, files, late, holder, applied, reached, disk, stop, bounds>>

(* Cancelled, or 36 seconds have passed: a stop is sent, whatever becomes of it; by
   then it may be another motion that it stops.                              *)
StopsMotion(c) ==
  /\ Watches(c)
  /\ call' = [call EXCEPT ![c].pc = "stopping"] /\ Answer(call[c].watch, "ended")
  /\ UNCHANGED <<worker, owner, wvars, files, late, holder, applied, reached, disk, stop, bounds>>
SendsStop(c) == call[c].pc = "stopping" /\ Request(c, "stop")

-----------------------------------------------------------------------------
(* The worker. *)

Publish == pub' = [open |-> TRUE, motion |-> motion', last |-> last', scene |-> loaded'] /\ fresh' = TRUE

\* the scene is read when the worker comes to it
Load ==
  /\ worker = "starting" /\ worker' = "alive"
  /\ loaded' = disk /\ UNCHANGED <<hand, paused, motion, last>> /\ Publish
  /\ UNCHANGED <<owner, inbox, late, holder, call, told, applied, reached, disk, stop, bounds>>

\* an error, or the user closes the window; a kill leaves the ready file as it is
Die(killed) ==
  /\ Running /\ worker' = "dead"
  /\ IF killed THEN UNCHANGED <<pub, fresh>>
     ELSE /\ pub' = [open |-> FALSE, motion |-> motion, last |-> last, scene |-> loaded]
          /\ fresh' = TRUE
  /\ hand' = Empty
  /\ UNCHANGED <<owner, paused, motion, last, loaded, inbox, late, holder, call, told, applied, reached, disk, stop, bounds>>

At(pc) == worker = "alive" /\ hand.pc = pc
See ==
  /\ At("loop") /\ inbox # None /\ hand' = [hand EXCEPT !.pc = "sees"]
  /\ UNCHANGED <<worker, owner, paused, motion, last, loaded, files, late, holder, call, told, applied, reached, disk, stop, bounds>>

(* The inbox is read and removed; a caller that gave up in between has removed it,
   and the worker ends on the file it does not find (Die).                   *)
Take ==
  /\ At("sees") /\ inbox # None
  /\ hand' = [pc |-> "took", id |-> inbox.id, kind |-> inbox.kind] /\ inbox' = None
  /\ UNCHANGED <<worker, owner, paused, motion, last, loaded, pub, fresh, late, holder, call, told, applied, reached, disk, stop, bounds>>
TakeMissing == At("sees") /\ inbox = None /\ Die(FALSE)

\* Mutant of Check: expiry is not looked at.
CheckAny ==
  /\ At("took") /\ hand' = [hand EXCEPT !.pc = "checked"]
  /\ UNCHANGED <<worker, owner, paused, motion, last, loaded, files, late, holder, call, told, applied, reached, disk, stop, bounds>>

Check ==
  /\ At("took") /\ hand.id \notin late
  /\ hand' = [hand EXCEPT !.pc = "checked"]
  /\ UNCHANGED <<worker, owner, paused, motion, last, loaded, files, late, holder, call, told, applied, reached, disk, stop, bounds>>

\* expired, or the command does not apply as things are
Refuses ==
  \/ At("took") /\ hand.id \in late
  \/ At("checked") /\ (hand.kind \in {"move", "actuate"} \/ (hand.kind = "step" /\ ~paused))
Refuse ==
  /\ Refuses
  /\ last' = [id |-> hand.id, ok |-> FALSE] /\ hand' = Empty
  /\ UNCHANGED <<paused, motion, loaded>> /\ Publish
  /\ UNCHANGED <<worker, owner, inbox, late, holder, call, told, applied, reached, disk, stop, bounds>>

\* Motion.stop
Cancelled(m) == IF m.state = "running" THEN [m EXCEPT !.state = "cancelled"] ELSE m

(* SimulationControl.apply; nobody sees its effect before it is published. *)
Apply ==
  /\ At("checked")
  /\ hand.kind = "move" => motion.state # "running"
  /\ hand.kind = "step" => paused
  /\ motion' = CASE hand.kind = "move" -> [state |-> "running", id |-> hand.id]
                 [] hand.kind \in {"stop", "pause", "reset", "actuate"} -> Cancelled(motion)
                 [] OTHER -> motion
  /\ paused' = CASE hand.kind \in {"move", "resume"} -> FALSE
                 [] hand.kind \in {"pause", "reset"} -> TRUE
                 [] OTHER -> paused
  /\ last' = [id |-> hand.id, ok |-> TRUE] /\ hand' = Empty
  /\ UNCHANGED loaded /\ Publish
  /\ applied' = applied \cup {hand.id}
  /\ UNCHANGED <<worker, owner, inbox, late, holder, call, told, reached, disk, stop, bounds>>

\* keypress: the space bar and backspace both cancel a motion
Keypress(reset) ==
  /\ At("loop") /\ keys < MaxKeys /\ keys' = keys + 1
  /\ motion' = Cancelled(motion) /\ paused' = (reset \/ ~paused)
  /\ UNCHANGED <<hand, last, loaded, worker, owner, files, late, holder, call, told, applied, reached, disk, stop, sent, opens, crashes>>

\* Motion.tick, at the end of a motion
MotionOver(ok) ==
  /\ At("loop") /\ ~paused /\ motion.state = "running"
  /\ motion' = [motion EXCEPT !.state = IF ok THEN "succeeded" ELSE "failed"]
  /\ reached' = IF ok THEN reached \cup {motion.id} ELSE reached
  /\ UNCHANGED <<hand, paused, last, loaded, worker, owner, files, late, holder, call, told, applied, disk, stop, bounds>>

Heartbeat ==
  /\ At("loop") /\ UNCHANGED wvars /\ Publish
  /\ UNCHANGED <<worker, owner, inbox, late, holder, call, told, applied, reached, disk, stop, bounds>>

-----------------------------------------------------------------------------
(* Time, the user and the system. *)

GoesStale ==
  /\ fresh /\ fresh' = FALSE
  /\ UNCHANGED <<worker, owner, wvars, pub, inbox, late, holder, call, told, applied, reached, disk, stop, bounds>>

\* three seconds after it was written
InFlight(i) == hand.id = i \/ (inbox # None /\ inbox.id = i) \/ \E c \in Callers : call[c].pc = "waiting" /\ call[c].id = i
Expires(i) ==
  /\ InFlight(i) /\ i \notin late /\ late' = late \cup {i}
  /\ UNCHANGED <<worker, owner, wvars, files, holder, call, told, applied, reached, disk, stop, bounds>>

PressStop ==
  /\ ~stop /\ stop' = TRUE
  /\ UNCHANGED <<worker, owner, wvars, files, late, holder, call, told, applied, reached, disk, bounds>>

EditScene ==
  /\ disk <= MaxEdits /\ disk' = disk + 1
  /\ UNCHANGED <<worker, owner, wvars, files, late, holder, call, told, applied, reached, stop, bounds>>

(* The terminal is killed and started again.  The window is a session of its own; it
   is adopted when owner.json names it, and otherwise nobody refers to it.   *)
Restart ==
  /\ crashes < MaxCrashes /\ crashes' = crashes + 1
  /\ holder' = None /\ call' = [c \in Callers |-> Idle] /\ stop' = FALSE
  /\ IF owner THEN UNCHANGED <<worker, owner, hand, files>>
     ELSE /\ worker' = "none" /\ owner' = FALSE /\ hand' = Empty
          /\ pub' = None /\ fresh' = FALSE /\ inbox' = None
  /\ UNCHANGED <<paused, motion, last, loaded, late, told, applied, reached, disk, sent, opens, keys>>

Terminal(c) ==
  \/ \E force \in BOOLEAN : Open(c, force)
  \/ RecordOwner(c) \/ Opened(c) \/ OpenFails(c) \/ Close(c)
  \/ \E k \in Kinds : Send(c, k)
  \/ Acknowledged(c) \/ GivesUp(c) \/ MotionEnds(c) \/ StopsMotion(c) \/ SendsStop(c)
Window ==
  \/ Load \/ See \/ Take \/ TakeMissing \/ Check \/ Refuse \/ Apply \/ Heartbeat
  \/ \E b \in BOOLEAN : Keypress(b) \/ MotionOver(b) \/ Die(b)
Next ==
  \/ \E c \in Callers : Terminal(c)
  \/ \E i \in Ids : Expires(i)
  \/ Window \/ GoesStale \/ PressStop \/ EditScene \/ Restart

Spec == Init /\ [][Next]_vars

-----------------------------------------------------------------------------
(* Properties. *)

(* What a caller was told of its command stays true: one said to be executed was
   carried out, one said to be refused never is, and a motion said to be reached
   did reach its target, whatever windows, motions and keys came in between. *)
ReportsAreTrue ==
  \A i \in Ids :
    /\ told[i] = "executed" => i \in applied
    /\ told[i] = "refused" => i \notin applied
    /\ told[i] = "reached" => i \in reached

(* No command is taken up once its caller has been told that it is over. *)
NoLateStart ==
  [][\A i \in Ids : hand'.pc = "checked" /\ hand'.id = i /\ hand.pc # "checked" => told[i] = ""]_vars
=============================================================================
