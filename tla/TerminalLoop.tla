---------------------------- MODULE TerminalLoop ---------------------------
(* The interactive terminal (src/terminal/interactive.py): the editor and its
   commands, the poll loop that starts turns on a one-thread executor, the
   steering a running turn takes from the queue, the switch between saved
   conversations (src/terminal/session.py) and the end of the process.

   Everything between two awaits of the event loop is one step.  The worker
   thread of a turn runs in between, and so do the steps of other terminals;
   the process may be killed anywhere.  A message is typed once, by name.     *)
EXTENDS Naturals, Sequences, FiniteSets, SequencesExt

CONSTANTS
  Msgs,        \* messages the user may write
  Sessions,    \* identities of conversations
  Home,        \* the conversation of the first launch
  Task,        \* the conversation bound to a background task of Home
  Jobs,        \* foreground timers
  Repeating,   \* the timers started with /every
  QueueLimit,  \* messages that may wait (20 in the code)
  MailTurns,   \* turns in a row that only answer mail (8 in the code)
  Shared,      \* bound: conversations other terminals open
  Bosses,      \* bound: conversations whose sub-agents send mail
  MaxMail,     \* bound: mail of sub-agents that arrives
  MaxCommands, \* bound: commands that occupy the editor or the worker
  MaxCrashes   \* bound: kills of the process

None == "none"

ASSUME TerminalConstants ==
  /\ {Home, Task} \subseteq Sessions /\ Home # Task /\ None \notin Msgs \cup Sessions
  /\ Repeating \subseteq Jobs /\ Shared \cup Bosses \subseteq Sessions
  /\ QueueLimit \in Nat /\ MailTurns \in Nat /\ MaxMail \in Nat
  /\ MaxCommands \in Nat /\ MaxCrashes \in Nat

VARIABLES
  up,      \* the process: "on", "closing" or "off"
  cur,     \* store.session_id: the conversation this terminal holds
  rec,     \* requests in agent.history or agent.turn_summaries
  queue, paused, target,   \* queue, paused, task_session_target
  draft,   \* the message in the composer
  busy,    \* command_busy: "no", "thread" (a command or a picture), "redraw"
  turn,    \* pending, with the kind of pending_command or timer
  stop,    \* app.stop_event
  poll,    \* where the poll loop is
  mail,    \* conversations whose sub-agents have mail for the Master
  more,    \* has_mail of this pass of the poll loop
  turns,   \* continuations
  saved,   \* the sessions table
  jobs,    \* the state of each timer
  elsewhere, \* conversations locked by other terminals
  owner,   \* ghost: the conversation a message was sent in
  lost,    \* ghost: messages the user cleared, or whose turn was killed
  spent    \* bounds: [mail, commands, crashes]
editor == <<queue, paused, target, draft, busy>>
worker == <<turn, stop, rec>>
loop == <<poll, more, turns>>
outside == <<mail, jobs, elsewhere>>
vars == <<up, cur, editor, worker, loop, outside, saved, owner, lost, spent>>

NoTurn == [kind |-> None, msgs |-> <<>>, at |-> "done", from |-> {}]
Kinds == {"message", "mail", "timer", "command"}
Empty == [queue |-> <<>>, rec |-> {}, draft |-> None]

Known == DOMAIN saved

\* a new conversation is saved empty, one that exists is left as it is
Opened(s, from) == [x \in DOMAIN from \cup {s} |-> IF x \in DOMAIN from THEN from[x] ELSE Empty]

TypeOK ==
  /\ up \in {"on", "closing", "off"} /\ cur \in Sessions
  /\ rec \subseteq Msgs /\ queue \in Seq(Msgs) /\ Len(queue) <= QueueLimit
  /\ paused \in BOOLEAN /\ stop \in BOOLEAN /\ more \in BOOLEAN
  /\ target \in {None, Task} /\ draft \in Msgs \cup {None}
  /\ busy \in {"no", "thread", "redraw"}
  /\ turn.kind \in Kinds \cup {None} /\ turn.at \in {"run", "steering", "done", "failed"}
  /\ poll \in {"asleep", "collected", "next"} /\ turns \in 0..MailTurns
  /\ mail \subseteq Sessions /\ (up # "off" => cur \notin elsewhere)
  /\ Known \subseteq Sessions /\ \A s \in Known : saved[s].rec \subseteq Msgs
  /\ jobs \in [Jobs -> {"pending", "running", "done", "failed", "interrupted"}]
  /\ owner \in [Msgs -> Sessions \cup {None}] /\ lost \subseteq Msgs

Init ==
  /\ up = "on" /\ cur = Home
  /\ rec = {} /\ queue = <<>> /\ paused = FALSE /\ target = None /\ draft = None
  /\ busy = "no" /\ turn = NoTurn /\ stop = FALSE
  /\ poll = "asleep" /\ more = FALSE /\ turns = 0 /\ mail = {}
  /\ jobs = [j \in Jobs |-> "pending"] /\ elsewhere = {}
  /\ saved = [s \in {Home} |-> Empty]
  /\ owner = [m \in Msgs |-> None] /\ lost = {}
  /\ spent = [mail |-> 0, commands |-> 0, crashes |-> 0]

(* The memory of a process ends with it; Terminal.__init__ starts blank.     *)
Forget ==
  /\ rec' = {} /\ queue' = <<>> /\ paused' = FALSE /\ target' = None /\ draft' = None
  /\ busy' = "no" /\ turn' = NoTurn /\ stop' = FALSE
  /\ poll' = "asleep" /\ more' = FALSE /\ turns' = 0 /\ mail' = {}

-----------------------------------------------------------------------------
(* Conditions and effects shared by several steps. *)

Pending == turn # NoTurn
Running == Pending /\ turn.at \in {"run", "steering"}
Waiting == ToSet(queue)
Fresh == {m \in Msgs : owner[m] = None /\ draft # m /\ m \notin lost
                       /\ \A s \in Known : saved[s].draft # m}

(* The event loop runs something else than the second half of a poll pass. *)
LoopFree == up = "on" /\ poll # "next"
Spend(what, bound) == spent[what] < bound /\ spent' = [spent EXCEPT ![what] = @ + 1]

(* checkpoint: one transaction writes queue, draft and history together. *)
Checkpoint(q, d) == saved' = [saved EXCEPT ![cur] = [queue |-> q, rec |-> rec, draft |-> d]]

StopNow == paused' = TRUE /\ stop' = TRUE

-----------------------------------------------------------------------------
(* The editor. *)

Type(m) ==
  /\ LoopFree /\ draft = None /\ m \in Fresh
  /\ draft' = m
  /\ UNCHANGED <<up, cur, queue, paused, target, busy, worker, loop, outside, saved, owner, lost, spent>>

\* Ctrl-C with a draft
ClearDraft ==
  /\ LoopFree /\ draft # None
  /\ draft' = None
  /\ UNCHANGED <<up, cur, queue, paused, target, busy, worker, loop, outside, saved, owner, lost, spent>>

(* Ctrl-C without a draft, or a control word: stop, and save at once. *)
CtrlC ==
  /\ LoopFree /\ draft = None
  /\ Pending \/ busy # "no" \/ (queue # <<>> /\ ~paused)
  /\ StopNow /\ Checkpoint(queue, draft)
  /\ UNCHANGED <<up, cur, queue, target, draft, busy, turn, rec, loop, outside, owner, lost, spent>>

ControlWord ==
  /\ LoopFree /\ draft = None
  /\ Pending \/ busy # "no" \/ queue # <<>>
  /\ StopNow /\ Checkpoint(queue, draft)
  /\ UNCHANGED <<up, cur, queue, target, draft, busy, turn, rec, loop, outside, owner, lost, spent>>

Escape ==
  /\ LoopFree
  /\ Pending \/ busy # "no"
  /\ StopNow
  /\ UNCHANGED <<up, cur, queue, target, draft, busy, turn, rec, loop, outside, saved, owner, lost, spent>>

\* Alt-Up: the last waiting message goes back into an empty composer
EditQueue ==
  /\ LoopFree /\ queue # <<>> /\ draft = None /\ busy = "no"
  /\ draft' = Last(queue) /\ queue' = Front(queue)
  /\ owner' = [owner EXCEPT ![Last(queue)] = None]
  /\ Checkpoint(queue', draft')
  /\ UNCHANGED <<up, cur, paused, target, busy, worker, loop, outside, lost, spent>>

-----------------------------------------------------------------------------
(* submit. *)

Submitting == LoopFree /\ busy = "no"

\* an ordinary message
SendMessage ==
  /\ Submitting /\ draft # None /\ Len(queue) < QueueLimit
  /\ queue' = Append(queue, draft) /\ draft' = None
  /\ owner' = [owner EXCEPT ![draft] = cur]
  /\ turns' = 0
  /\ Checkpoint(queue', None)
  /\ UNCHANGED <<up, cur, paused, target, busy, worker, poll, more, outside, lost, spent>>

(* A command.  One that only shows, renames or attaches something is a
   ThreadCommand: all that it changes is the checkpoint when it returns.     *)
Command == Submitting /\ draft = None

ResumeQueue ==
  /\ Command /\ paused
  /\ paused' = FALSE /\ Checkpoint(queue, None)
  /\ UNCHANGED <<up, cur, queue, target, draft, busy, worker, loop, outside, owner, lost, spent>>

ClearQueue ==
  /\ Command /\ queue # <<>>
  /\ queue' = <<>> /\ lost' = lost \cup Waiting
  /\ Checkpoint(<<>>, None)
  /\ UNCHANGED <<up, cur, paused, target, draft, busy, worker, loop, outside, owner, spent>>

(* What a terminal does to become the terminal of another conversation; the
   old one has been saved in the same step.                                  *)
Adopt(s, from) ==
  /\ cur' = s
  /\ queue' = from[s].queue /\ rec' = from[s].rec /\ draft' = from[s].draft
  /\ saved' = [from EXCEPT ![s] = [queue |-> queue', rec |-> rec', draft |-> draft']]

Kept(d) == [saved EXCEPT ![cur] = [queue |-> queue, rec |-> rec, draft |-> d]]

\* /new
NewSession(s) ==
  /\ Command /\ ~Pending /\ queue = <<>> /\ s \notin Known /\ s # Task
  /\ Spend("commands", MaxCommands)
  /\ Adopt(s, Opened(s, Kept(None)))
  /\ busy' = "redraw"
  /\ UNCHANGED <<up, paused, target, turn, stop, loop, outside, owner, lost>>

\* /resume TITLE, and Close session, which submits /resume of the parent
ResumeSession(s) ==
  /\ Command /\ ~Pending /\ queue = <<>> /\ s \in Known /\ s \notin elsewhere
  /\ Spend("commands", MaxCommands)
  /\ Adopt(s, Kept(None))
  /\ paused' = (queue' # <<>>)
  /\ busy' = "redraw"
  /\ UNCHANGED <<up, target, turn, stop, loop, outside, owner, lost>>

(* A command that an await hands to another thread, and a picture that is
   read from the clipboard; some of them are refused while a turn runs.      *)
ThreadCommand(allowed) ==
  /\ Command /\ Pending => allowed
  /\ Spend("commands", MaxCommands)
  /\ busy' = "thread"
  /\ UNCHANGED <<up, cur, queue, paused, target, draft, worker, loop, outside, saved, owner, lost>>

\* /stop, before its handler is awaited
StopCommand ==
  /\ Command
  /\ Spend("commands", MaxCommands)
  /\ busy' = "thread" /\ StopNow
  /\ UNCHANGED <<up, cur, queue, target, draft, turn, rec, loop, outside, saved, owner, lost>>

CommandReturns ==
  /\ LoopFree /\ busy # "no"
  /\ busy' = "no" /\ Checkpoint(queue, draft)
  /\ UNCHANGED <<up, cur, queue, paused, target, draft, worker, loop, outside, owner, lost, spent>>

CommandRaises ==
  /\ LoopFree /\ busy = "thread"
  /\ busy' = "no"
  /\ UNCHANGED <<up, cur, queue, paused, target, draft, worker, loop, outside, saved, owner, lost, spent>>

\* /viewer, /scene, /complex, /sim, /models, /model-load and a focused node
WorkerCommand ==
  /\ Command /\ ~Pending
  /\ Spend("commands", MaxCommands)
  /\ stop' = FALSE
  /\ turn' = [kind |-> "command", msgs |-> <<>>, at |-> "run", from |-> {}]
  /\ Checkpoint(queue, None)
  /\ UNCHANGED <<up, cur, editor, rec, loop, outside, owner, lost>>

-----------------------------------------------------------------------------
(* The conversation of a background task. *)

WithTask == Opened(Task, Kept(None))

Switch(s, from) ==
  IF s \in elsewhere
  THEN /\ saved' = from
       /\ UNCHANGED <<cur, queue, rec, draft, paused, stop>>
  ELSE /\ Adopt(s, from)
       /\ paused' = (queue' # <<>>)
       /\ stop' = FALSE

\* enter_task_session, with an empty composer and no turn
EnterTask ==
  /\ Command /\ ~Pending /\ cur \in {Home, Task}
  /\ Spend("commands", MaxCommands)
  /\ Switch(Task, WithTask)
  /\ target' = None
  /\ UNCHANGED <<up, busy, turn, loop, outside, owner, lost>>

\* enter_task_session while a turn runs: the poll loop switches when it ends
RequestTask ==
  /\ Command /\ Pending /\ cur \in {Home, Task}
  /\ Spend("commands", MaxCommands)
  /\ target' = Task /\ StopNow
  /\ saved' = WithTask
  /\ UNCHANGED <<up, cur, queue, draft, busy, turn, rec, loop, outside, owner, lost>>

-----------------------------------------------------------------------------
(* The poll loop: broker mail is collected on a thread of its own, then a
   finished turn is settled and the next one is started in one step of the
   event loop.                                                               *)

Collect ==
  /\ up = "on" /\ poll = "asleep"
  /\ poll' = "collected" /\ more' = (mail # {})
  /\ UNCHANGED <<up, cur, editor, worker, turns, outside, saved, owner, lost, spent>>

Settled == Pending /\ ~Running

Finished(j) ==
  IF turn.at = "failed" THEN "failed" ELSE IF j \in Repeating THEN "pending" ELSE "done"

\* Mutant of Settle: a turn that failed is left pending.
SettleAnswers ==
  /\ up = "on" /\ poll = "collected" /\ Settled /\ turn.at = "done"
  /\ jobs' = [j \in Jobs |-> IF turn.kind = "timer" /\ jobs[j] = "running" THEN Finished(j) ELSE jobs[j]]
  /\ turn' = NoTurn
  /\ Checkpoint(queue, draft)
  /\ poll' = "next"
  /\ UNCHANGED <<up, cur, editor, stop, rec, more, turns, mail, elsewhere, owner, lost, spent>>

Settle ==
  /\ up = "on" /\ poll = "collected" /\ Settled
  /\ jobs' = [j \in Jobs |-> IF turn.kind = "timer" /\ jobs[j] = "running" THEN Finished(j) ELSE jobs[j]]
  /\ paused' = (paused \/ (turn.at = "failed" /\ queue # <<>>))
  /\ turn' = NoTurn
  /\ Checkpoint(queue, draft)
  /\ poll' = "next"
  /\ UNCHANGED <<up, cur, queue, target, draft, busy, stop, rec, more, turns, mail, elsewhere, owner, lost, spent>>

NothingToSettle ==
  /\ up = "on" /\ poll = "collected" /\ ~Settled
  /\ poll' = "next"
  /\ UNCHANGED <<up, cur, editor, worker, more, turns, outside, saved, owner, lost, spent>>

Switching == target # None /\ ~Pending /\ busy = "no"
Ready == ~Pending /\ ~paused /\ busy = "no" /\ ~Switching

\* Mutant of SwitchAfterTurn: a target that another terminal holds is tried again.
SwitchAfterTurnKeeps ==
  /\ poll = "next" /\ up = "on" /\ Switching
  /\ Switch(target, Kept(draft))
  /\ target' = (IF target \in elsewhere THEN target ELSE None) /\ poll' = "asleep"
  /\ UNCHANGED <<up, busy, turn, more, turns, outside, owner, lost, spent>>

SwitchAfterTurn ==
  /\ poll = "next" /\ up = "on" /\ Switching
  /\ Switch(target, Kept(draft))
  /\ target' = None /\ poll' = "asleep"
  /\ UNCHANGED <<up, busy, turn, more, turns, outside, owner, lost, spent>>

Start(kind, msgs) ==
  /\ turn' = [kind |-> kind, msgs |-> msgs, at |-> "run", from |-> {}]
  /\ stop' = FALSE
  /\ poll' = "asleep"

StartQueued ==
  /\ poll = "next" /\ up = "on" /\ Ready /\ queue # <<>>
  /\ Start("message", <<Head(queue)>>) /\ queue' = Tail(queue)
  /\ UNCHANGED <<up, cur, paused, target, draft, busy, rec, more, turns, outside, saved, owner, lost, spent>>

Answering == more /\ turns < MailTurns

StartMail ==
  /\ poll = "next" /\ up = "on" /\ Ready /\ queue = <<>> /\ Answering
  /\ Start("mail", <<>>) /\ turns' = turns + 1
  /\ UNCHANGED <<up, cur, editor, rec, more, outside, saved, owner, lost, spent>>

StartTimer(j) ==
  /\ poll = "next" /\ up = "on" /\ Ready /\ queue = <<>> /\ ~Answering
  /\ jobs[j] = "pending"
  /\ jobs' = [jobs EXCEPT ![j] = "running"]
  /\ Start("timer", <<>>)
  /\ UNCHANGED <<up, cur, editor, rec, more, turns, mail, elsewhere, saved, owner, lost, spent>>

\* nothing may be started, or no timer is due
Rest ==
  /\ poll = "next" /\ up = "on" /\ ~Switching
  /\ Ready => queue = <<>> /\ ~Answering
  /\ poll' = "asleep"
  /\ UNCHANGED <<up, cur, editor, worker, more, turns, outside, saved, owner, lost, spent>>

Poll == Collect \/ Settle \/ NothingToSettle \/ SwitchAfterTurn \/ StartQueued \/ StartMail
        \/ (\E j \in Jobs : StartTimer(j)) \/ Rest

-----------------------------------------------------------------------------
(* The worker thread of a turn (ChatAgent.reply), as far as the terminal sees
   it: it drains the mail, takes steering, emits events and ends.            *)

Chats == turn.at = "run" /\ turn.kind \in {"message", "mail"} /\ up # "off"

DrainMail ==
  /\ Chats /\ mail # {} /\ ~stop
  /\ turn' = [turn EXCEPT !.from = @ \cup mail] /\ mail' = {}
  /\ UNCHANGED <<up, cur, editor, stop, rec, loop, jobs, elsewhere, saved, owner, lost, spent>>

(* take_queued_steering runs on the event loop; the worker then adds what it
   got, and the request of the turn, to the history, and shows it.           *)
MaySteer == ~paused /\ busy = "no" /\ turn.kind \notin {"command", "timer"} /\ ~stop

\* Mutant of Steer: the messages handed to the turn keep waiting.
SteerCopies(n) ==
  /\ Chats /\ LoopFree /\ MaySteer /\ n \in 1..Len(queue)
  /\ turn' = [turn EXCEPT !.msgs = @ \o SubSeq(queue, 1, n), !.at = "steering"]
  /\ UNCHANGED <<up, cur, editor, stop, rec, loop, outside, saved, owner, lost, spent>>

Steer(n) ==
  /\ Chats /\ LoopFree /\ MaySteer /\ n \in 1..Len(queue)
  /\ turn' = [turn EXCEPT !.msgs = @ \o SubSeq(queue, 1, n), !.at = "steering"]
  /\ queue' = SubSeq(queue, n + 1, Len(queue))
  /\ UNCHANGED <<up, cur, paused, target, draft, busy, stop, rec, loop, outside, saved, owner, lost, spent>>

Joined ==
  /\ turn.at = "steering" /\ up # "off"
  /\ turn' = [turn EXCEPT !.at = "run"]
  /\ rec' = rec \cup ToSet(turn.msgs)
  /\ UNCHANGED <<up, cur, editor, stop, loop, outside, saved, owner, lost, spent>>

(* The events 'result' and 'Steering' of a turn are saved when the event loop
   shows them, which may be after the turn has ended.                        *)
ShowEvent ==
  /\ LoopFree /\ turn.kind \in {"message", "mail"}
  /\ Checkpoint(queue, draft)
  /\ UNCHANGED <<up, cur, editor, worker, loop, outside, owner, lost, spent>>

(* The end of a turn: its requests are in the history if it answered, and in
   the summary of the turn in any case.                                      *)
Ends(at) ==
  /\ turn' = [turn EXCEPT !.at = at]
  /\ rec' = IF turn.kind = "message" \/ turn.kind = "mail" THEN rec \cup ToSet(turn.msgs) ELSE rec
  /\ UNCHANGED <<up, cur, editor, stop, loop, outside, saved, owner, lost, spent>>

Alive == turn.at = "run" /\ up # "off"
Answers == Alive /\ Ends("done")
Fails == Alive /\ ~stop /\ Ends("failed")
Stopped == Alive /\ stop /\ Ends("failed")

-----------------------------------------------------------------------------
(* The surroundings, and the end of the process. *)

MailArrives(s) ==
  /\ up # "off" /\ s \in Known \cap Bosses /\ s \notin mail
  /\ Spend("mail", MaxMail)
  /\ mail' = mail \cup {s}
  /\ UNCHANGED <<up, cur, editor, worker, loop, jobs, elsewhere, saved, owner, lost>>

OtherOpens(s) ==
  /\ s \in Shared \cap Known /\ s \notin elsewhere /\ (s # cur \/ up = "off")
  /\ elsewhere' = elsewhere \cup {s}
  /\ UNCHANGED <<up, cur, editor, worker, loop, mail, jobs, saved, owner, lost, spent>>

\* the other terminal may have run what waited there
OtherCloses(s, ran) ==
  /\ s \in elsewhere
  /\ elsewhere' = elsewhere \ {s}
  /\ saved' = IF ran THEN [saved EXCEPT ![s] = [queue |-> <<>>, rec |-> @.rec \cup ToSet(@.queue), draft |-> @.draft]]
              ELSE saved
  /\ UNCHANGED <<up, cur, editor, worker, loop, mail, jobs, owner, lost, spent>>

\* Ctrl-C when idle, Ctrl-D, /exit: prompt_async returns
Exit ==
  /\ LoopFree /\ draft = None
  /\ up' = "closing" /\ stop' = TRUE /\ busy' = "no"
  /\ UNCHANGED <<cur, queue, paused, target, draft, turn, rec, loop, outside, saved, owner, lost, spent>>

\* the executors have ended: the last checkpoint, and the lock is released
Close ==
  /\ up = "closing" /\ ~Running
  /\ up' = "off" /\ Checkpoint(queue, draft) /\ Forget
  /\ UNCHANGED <<cur, jobs, elsewhere, owner, lost, spent>>

(* What the killed turn had taken is gone unless it was recorded and saved;
   the conversations keep their last checkpoint.                             *)
OnDisk == UNION {ToSet(saved[s].queue) \cup saved[s].rec : s \in Known}

Crash ==
  /\ up # "off" /\ Spend("crashes", MaxCrashes)
  /\ up' = "off" /\ Forget
  /\ lost' = lost \cup (ToSet(turn.msgs) \ OnDisk)
  /\ UNCHANGED <<cur, jobs, elsewhere, saved, owner>>

\* every launch starts a conversation of its own; timers are not replayed
Launch(s) ==
  /\ up = "off" /\ s \notin Known /\ s # Task
  /\ up' = "on" /\ cur' = s /\ Forget
  /\ jobs' = [j \in Jobs |-> IF jobs[j] = "running" THEN "interrupted" ELSE jobs[j]]
  /\ saved' = Opened(s, saved)
  /\ UNCHANGED <<elsewhere, owner, lost, spent>>

User ==
  \/ \E m \in Msgs : Type(m)
  \/ ClearDraft \/ CtrlC \/ ControlWord \/ Escape \/ EditQueue
  \/ SendMessage \/ ResumeQueue \/ ClearQueue
  \/ \E s \in Sessions : NewSession(s) \/ ResumeSession(s)
  \/ \E allowed \in BOOLEAN : ThreadCommand(allowed)
  \/ StopCommand \/ WorkerCommand \/ EnterTask \/ RequestTask \/ Exit
Worker ==
  \/ DrainMail \/ Joined \/ Answers \/ Fails \/ Stopped
  \/ \E n \in 1..QueueLimit : Steer(n)
Environment ==
  \/ \E s \in Sessions : MailArrives(s) \/ OtherOpens(s) \/ Launch(s)
  \/ \E s \in Sessions, ran \in BOOLEAN : OtherCloses(s, ran)
  \/ Crash

Next == User \/ Poll \/ CommandReturns \/ CommandRaises \/ ShowEvent \/ Worker \/ Close \/ Environment
Spec == Init /\ [][Next]_vars

(* The event loop keeps running its callbacks; commands handed to a thread
   return, and their continuation gets its turn between the steps of the poll
   loop; a turn ends, for its requests time out and its rounds stall.        *)
Fairness ==
  /\ WF_vars(Poll) /\ WF_vars(Close)
  /\ SF_vars(CommandReturns \/ CommandRaises)
  /\ WF_vars(Joined) /\ WF_vars(Answers \/ Fails \/ Stopped)
FairSpec == Spec /\ Fairness

-----------------------------------------------------------------------------
(* Properties. *)

(* What waits in the live queue is on disk, in its place: a kill never loses a
   message that no turn has taken (a pop is not saved at once, an append is). *)
QueueIsOnDisk == up # "off" => IsSuffix(queue, saved[cur].queue)

(* A message waits, runs and is recorded only in the conversation it was sent
   in, however conversations are switched while turns and commands run.      *)
StaysInSession ==
  /\ up = "on" => \A m \in Waiting \cup ToSet(turn.msgs) \cup rec : owner[m] = cur
  /\ \A s \in Known : \A m \in ToSet(saved[s].queue) \cup saved[s].rec : owner[m] = s

(* A message is not handed over twice: it does not wait and run, or wait and
   stand in the history, in memory or in a saved conversation.               *)
HandedOverOnce ==
  /\ up = "on" => /\ Waiting \cap (ToSet(turn.msgs) \cup rec) = {}
                  /\ IsInjective(queue \o turn.msgs)
  /\ \A s \in Known : ToSet(saved[s].queue) \cap saved[s].rec = {}

(* An accepted message is waiting, running or recorded until the user clears
   it; only the kill of the process during its turn may lose it.             *)
NothingLost ==
  \A m \in Msgs : owner[m] # None =>
    \/ m \in lost \/ m \in OnDisk
    \/ up # "off" /\ m \in Waiting \cup ToSet(turn.msgs) \cup rec

(* A timer is marked running exactly as long as its turn is pending, and no
   two timers are.                                                           *)
TimersSettle ==
  up = "on" => /\ turn.kind = "timer" <=> \E j \in Jobs : jobs[j] = "running"
               /\ \A i, j \in Jobs : jobs[i] = "running" /\ jobs[j] = "running" => i = j

(* A stop that was requested while a turn runs stays requested until that turn
   has ended, whatever commands and switches clear the flag for later turns.  *)
StopStays == [][(Running /\ stop /\ up' # "off" /\ Running') => stop']_vars

(* What becomes of messages, timers and stops, however turns, commands, switches
   and kills interleave: what waits is on disk, a message stays in its
   conversation, is handed over once and is not lost, a timer is marked running
   exactly while its turn is pending, and a stop holds until its turn has ended. *)
MessagesAreSafe ==
  /\ [](TypeOK /\ QueueIsOnDisk /\ StaysInSession /\ HandedOverOnce /\ NothingLost /\ TimersSettle)
  /\ StopStays

(* A message that waits is handed over unless the queue is paused or the
   process ends: commands, mail and timers cannot hold it up for good.        *)
QueueMoves ==
  \A m \in Msgs : (m \in Waiting /\ up = "on") ~> (m \notin Waiting \/ paused \/ up # "on")

(* A requested switch to the conversation of a task happens, or is refused.  *)
SwitchHappens == target # None ~> (target = None \/ up # "on")

(* The mail a turn answers belongs to the conversation the turn runs in.     *)
MailStaysHome == turn.from \subseteq {cur}
=============================================================================
