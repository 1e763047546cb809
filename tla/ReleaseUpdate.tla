--------------------------- MODULE ReleaseUpdate ---------------------------
(* Managed releases (src/release_client.py, src/release_runtime.py): install,
   roll back and uninstall under the maintenance gate, next to sessions that
   start and stop.  Every file operation is a step; between any two the
   maintainer may raise, which undoes an install, or be killed, which does not. *)
EXTENDS Naturals, FiniteSets

CONSTANTS
  Envs,       \* bound: candidate environments, numbered 1..n, each used once
  Versions,   \* published versions, a set of naturals
  Names,      \* command names
  Foreign,    \* some of them: the names that belong to somebody else's command at first
  Sessions, Managed,  \* sessions, and those of them started from a managed release
  Interrupts  \* whether an interrupt may arrive right after the commit

VARIABLES
  record,      \* release.json: NoRelease or [env, version, prev]
  env,         \* [Envs -> "unused", "partial", "ready" or "removed"]
  version,     \* [Envs -> version built in it]
  cmd,         \* [Names -> "absent", "foreign" or "ours"]
  backup,      \* names whose foreign command has been renamed to a backup
  dispatcher,  \* release-launcher.py, release-control.pyz and updater exist
  op,          \* the maintenance that holds update.lock
  sess         \* [Sessions -> [at, env]]
site == <<record, env, version, cmd, backup, dispatcher>>
vars == <<record, env, version, cmd, backup, dispatcher, op, sess>>

NoRelease == [env |-> 0, version |-> 0, prev |-> 0]
NoOp == [kind |-> "none", step |-> "none", env |-> 0, version |-> 0, state |-> FALSE, guard |-> FALSE, replace |-> FALSE,
         todo |-> {}, made |-> {}]

Init ==
  /\ record = NoRelease
  /\ env = [e \in Envs |-> "unused"] /\ version = [e \in Envs |-> 0]
  /\ cmd = [n \in Names |-> IF n \in Foreign THEN "foreign" ELSE "absent"]
  /\ backup = {} /\ dispatcher = FALSE
  /\ op = NoOp
  /\ sess = [s \in Sessions |-> [at |-> "off", env |-> 0]]

(***************************************************************************)
(* Sessions.  The dispatcher reads the record and starts the program of its *)
(* environment; that takes a lease under the gate, then a slot of the state *)
(* directory under the migration lock, which maintenance holds once guarded.*)
(***************************************************************************)
Leased == {s \in Managed : sess[s].at \in {"leased", "running"}}
Slots == {s \in Sessions : sess[s].at = "running"}
Move(s, at, e) == sess' = [sess EXCEPT ![s] = [at |-> at, env |-> e]] /\ UNCHANGED <<site, op>>

Dispatch(s) ==
  /\ sess[s].at = "off"
  /\ IF s \notin Managed THEN Move(s, "leased", 0)
     ELSE /\ dispatcher /\ record # NoRelease /\ \E n \in Names : cmd[n] = "ours"
          /\ env[record.env] = "ready"
          /\ Move(s, "started", record.env)

\* Mutant of TakeLease: a program that was started before the update goes on.
TakeLeaseUngated(s) ==
  /\ sess[s].at = "started"
  /\ IF env[sess[s].env] = "ready" THEN Move(s, "leased", sess[s].env) ELSE Move(s, "off", 0)

TakeLease(s) ==
  /\ sess[s].at = "started"
  /\ IF op.kind = "none" /\ env[sess[s].env] = "ready"
       THEN Move(s, "leased", sess[s].env) ELSE Move(s, "off", 0)

TakeSlot(s) ==
  /\ sess[s].at = "leased"
  /\ IF op.guard THEN Move(s, "off", 0) ELSE Move(s, "running", sess[s].env)

Quit(s) == sess[s].at \in {"leased", "running"} /\ Move(s, "off", 0)

(***************************************************************************)
(* Maintenance.                                                            *)
(***************************************************************************)
At(kind, step) == op.kind = kind /\ op.step = step
Step(step) == op' = [op EXCEPT !.step = step]
Done == op' = NoOp

(* maintenance(): the lock, then no lease of a live session. *)
Alone == op.kind = "none" /\ Leased = {}

(* A command of the user: its kind, the version whose wheel was downloaded and
   verified, and whether conflicting commands may be replaced. *)
Begin ==
  /\ Alone
  /\ \E kind \in {"install", "rollback", "uninstall"}, v \in Versions, replace, state \in BOOLEAN :
       op' = [NoOp EXCEPT !.state = state, !.kind = kind, !.step = "guard", !.version = v, !.replace = replace]
  /\ UNCHANGED <<site, sess>>

(* state_guard, the checks of each operation, and what it will do. *)
GuardHolds == op.state => Slots = {}
Conflict == ~op.replace /\ \E n \in Names : cmd[n] = "foreign"
\* rollback: back to the release before, which must still pass its smoke test
RollsBack ==
  /\ op.kind = "rollback" /\ record.prev # 0 /\ env[record.prev] = "ready"
  /\ op' = [op EXCEPT !.guard = op.state, !.step = "commit", !.env = record.prev]

Guard ==
  /\ op.step = "guard" /\ GuardHolds
  /\ \/ /\ op.kind = "install" /\ op.version >= record.version /\ ~Conflict
        /\ \/ /\ op.version = record.version /\ env[record.env] = "ready"
              /\ op' = [op EXCEPT !.guard = op.state, !.step = "commands", !.todo = Names]
           \/ \E e \in Envs :
                /\ env[e] = "unused"
                /\ \A f \in Envs : f < e => env[f] # "unused"
                /\ op' = [op EXCEPT !.guard = op.state, !.step = "build", !.env = e, !.todo = Names]
     \/ RollsBack
     \/ /\ op.kind = "uninstall"
        /\ op' = [op EXCEPT !.guard = op.state, !.step = "unlink",
                            !.todo = {n \in Names : cmd[n] = "ours"}]
  /\ UNCHANGED <<site, sess>>

(* The candidate is built, smoke-tested and marked in an environment of its own. *)
Build ==
  /\ At("install", "build")
  /\ env' = [env EXCEPT ![op.env] = IF @ = "unused" THEN "partial" ELSE "ready"]
  /\ version' = [version EXCEPT ![op.env] = op.version]
  /\ Step(IF env[op.env] = "unused" THEN "build" ELSE "control")
  /\ UNCHANGED <<record, cmd, backup, dispatcher, sess>>

Control ==
  /\ At("install", "control")
  /\ dispatcher' = TRUE
  /\ Step("commands")
  /\ UNCHANGED <<record, env, version, cmd, backup, sess>>

(* write_launchers, a file operation at a time: a command that is not ours is
   renamed to a backup, then ours is written.  *)
ReplaceCommand(n) ==
  /\ At("install", "commands") /\ n \in op.todo
  /\ \/ /\ cmd[n] = "ours"
        /\ op' = [op EXCEPT !.todo = @ \ {n}] /\ UNCHANGED <<cmd, backup>>
     \/ /\ cmd[n] = "foreign"
        /\ cmd' = [cmd EXCEPT ![n] = "absent"] /\ backup' = backup \cup {n}
        /\ op' = [op EXCEPT !.made = @ \cup {n}]
     \/ /\ cmd[n] = "absent"
        /\ cmd' = [cmd EXCEPT ![n] = "ours"] /\ UNCHANGED backup
        /\ op' = [op EXCEPT !.made = @ \cup {n}, !.todo = @ \ {n}]
  /\ UNCHANGED <<record, env, version, dispatcher, sess>>

Commanded ==
  /\ At("install", "commands") /\ op.todo = {}
  /\ IF op.env = 0 THEN Done ELSE Step("commit")
  /\ UNCHANGED <<site, sess>>

(* atomic_json(release.json): the activation. *)
Commit ==
  /\ op.step = "commit"
  /\ record' = [env |-> op.env, version |-> version[op.env], prev |-> record.env]
  /\ Step("committed")
  /\ UNCHANGED <<env, version, cmd, backup, dispatcher, sess>>

Committed == op.step = "committed" /\ Done /\ UNCHANGED <<site, sess>>

(* uninstall_release: commands, environments, record and dispatcher. *)
Unlink ==
  /\ At("uninstall", "unlink")
  /\ IF op.todo = {} THEN Step("remove") /\ UNCHANGED cmd
     ELSE \E n \in op.todo : cmd' = [cmd EXCEPT ![n] = "absent"] /\ op' = [op EXCEPT !.todo = @ \ {n}]
  /\ UNCHANGED <<record, env, version, backup, dispatcher, sess>>

Remove ==
  /\ At("uninstall", "remove")
  /\ \/ \E e \in Envs : env[e] = "ready" /\ env' = [env EXCEPT ![e] = "removed"] /\ UNCHANGED <<record, op>>
     \/ /\ \A e \in Envs : env[e] # "ready"
        /\ record' = NoRelease /\ Step("last") /\ UNCHANGED env
  /\ UNCHANGED <<version, cmd, backup, dispatcher, sess>>

RemoveLast ==
  /\ At("uninstall", "last")
  /\ dispatcher' = FALSE /\ Done
  /\ UNCHANGED <<record, env, version, cmd, backup, sess>>

(* An exception.  An install undoes its commands and then its environment; the
   commands alone where it found the release current.  *)
Interruptible == op.step # "committed" \/ (Interrupts /\ op.kind = "install")
Raise ==
  /\ op.kind # "none" /\ op.step \notin {"undo", "clean"} /\ Interruptible
  /\ IF op.kind = "install" /\ op.step # "guard" THEN Step("undo") ELSE Done
  /\ UNCHANGED <<site, sess>>

Undo ==
  /\ op.step = "undo"
  /\ cmd' = [n \in Names |-> IF n \notin op.made THEN cmd[n]
                             ELSE IF n \in backup THEN "foreign" ELSE "absent"]
  /\ backup' = backup \ op.made
  /\ IF op.env = 0 THEN Done ELSE Step("clean")
  /\ UNCHANGED <<record, env, version, dispatcher, sess>>

Clean ==
  /\ op.step = "clean"
  /\ env' = [env EXCEPT ![op.env] = "removed"]
  /\ Done
  /\ UNCHANGED <<record, version, cmd, backup, dispatcher, sess>>

Kill == op.kind # "none" /\ Done /\ UNCHANGED <<site, sess>>

Session(s) == Dispatch(s) \/ TakeLease(s) \/ TakeSlot(s) \/ Quit(s)
Maintain ==
  \/ Begin \/ Guard \/ Build \/ Control \/ (\E n \in Names : ReplaceCommand(n)) \/ Commanded
  \/ Commit \/ Committed \/ Unlink \/ Remove \/ RemoveLast \/ Raise \/ Undo \/ Clean \/ Kill
Next == (\E s \in Sessions : Session(s)) \/ Maintain
Spec == Init /\ [][Next]_vars

(***************************************************************************)
(* Properties.                                                             *)
(***************************************************************************)
TypeOK ==
  /\ record \in [env: Envs \cup {0}, version: Nat, prev: Envs \cup {0}]
  /\ env \in [Envs -> {"unused", "partial", "ready", "removed"}]
  /\ cmd \in [Names -> {"absent", "foreign", "ours"}] /\ backup \subseteq Foreign

Works(r) == r # NoRelease /\ env[r.env] = "ready"
Installed == dispatcher /\ Works(record) /\ op.made = {} /\ \A n \in Names : cmd[n] = "ours"

(* An update or a rollback, completed, failed or killed at any step, leaves an
   installation that works in working order; a new record names the release it
   replaces, whose environment is retained (docs/RELEASES.md:44). *)
UpdateKeepsWorking ==
  [][Installed /\ op.kind # "uninstall" =>
       Installed' /\ (record' # record => record'.prev = record.env /\ env'[record.env] = "ready")]_vars

(* No managed session starts or runs while maintenance goes on, and none on the
   state directory once that is guarded (maintenance, state_guard).  *)
MaintenanceIsAlone ==
  /\ op.kind # "none" => Leased = {}
  /\ op.guard => Slots = {}

(* A command that is not ours is where it was or in a backup, whatever fails. *)
ForeignCommandsAreKept == \A n \in Foreign : cmd[n] = "foreign" \/ n \in backup
=============================================================================
