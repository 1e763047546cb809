------------------------------ MODULE ServoBus ------------------------------
(* A serial port of the host and the servo bus on it: who owns the port
   (SerialPort, src/toolchain/serial_port.py, and Bus.__enter__), and the exchanges
   of Bus with a motor (src/toolchain/feetech.py).

   A request is answered within the timeout, late or never.  An answer carries
   the motor and a number of bytes but not the request it belongs to, so a
   late one may be taken for the answer to the next request.  The line keeps answers in order.  *)
EXTENDS Naturals, Sequences

CONSTANTS
  Users,      \* who opens the port: SerialPort objects and buses
  Buses,      \* those of them that are buses
  Requests,   \* request ids of position commands
  None,
  MaxLag,     \* bound: an answer is at most so many exchanges late
  MaxCalls, MaxOpens  \* bounds

VARIABLES
  user,      \* per user: [pc, saved]
  lock, exclusive, settings,   \* of the device: flock, TIOCEXCL, termios
  call,      \* the call that holds Bus.lock: [op, req, step, waiting, got]
  line,      \* answers on their way: [to, lag]
  reserved,  \* Bus.requests
  accepted,  \* those of them with command_accepted
  motor,     \* [torque, mode]
  taken,     \* ghost: how often the motor took the command of each request, of this bus
  calls, opens  \* bounds

port == <<user, lock, exclusive, settings>>
vars == <<port, call, line, reserved, accepted, motor, taken, calls, opens>>

Kinds == {"ping", "model", "mode", "torque", "state", "write"}
Bytes == [k \in Kinds |-> CASE k \in {"ping", "write"} -> 0 [] k = "model" -> 2 [] k \in {"mode", "torque"} -> 1 [] OTHER -> 8]
\* the exchanges of identify, of read_state and of move
Steps ==
  [identify |-> <<"ping", "model">>,
   read |-> <<"ping", "model", "mode", "torque", "state">>,
   move |-> <<"ping", "model", "mode", "torque", "state", "write">>]
NoCall == [op |-> None, req |-> None, step |-> 0, waiting |-> FALSE, got |-> <<>>]

TypeOK ==
  /\ \A u \in Users : user[u].pc \in {"closed", "opened", "locked", "exclusive", "session"}
  /\ lock \in Users \cup {None} /\ exclusive \in BOOLEAN /\ settings \in {"own", "raw"}
  /\ call.op \in {None, "identify", "read", "move"} /\ call.got \in Seq(Kinds)
  /\ \A i \in DOMAIN line : line[i].to \in Kinds /\ line[i].lag \in 0..MaxLag
  /\ accepted \subseteq reserved /\ reserved \subseteq Requests

Init ==
  /\ user = [u \in Users |-> [pc |-> "closed", saved |-> None]]
  /\ lock = None /\ exclusive = FALSE /\ settings = "own"
  /\ call = NoCall /\ line = <<>> /\ reserved = {} /\ accepted = {}
  /\ motor \in [torque : BOOLEAN, mode : {0, 1}] /\ taken = [r \in Requests |-> 0] /\ calls = 0 /\ opens = 0

-----------------------------------------------------------------------------
(* The port.  It is opened, locked, made exclusive and configured (by pySerial, for
   a bus, the other way round).                                              *)

Rest == UNCHANGED <<call, line, reserved, accepted, motor, taken, calls>>
At(u, pc) == user' = [user EXCEPT ![u].pc = pc]
Holding(u) == user[u].pc # "closed"

\* the kernel refuses an exclusive device
Open(u) ==
  /\ user[u].pc = "closed" /\ ~exclusive /\ opens < MaxOpens
  /\ opens' = opens + 1 /\ At(u, "opened") /\ UNCHANGED <<lock, exclusive, settings>> /\ Rest

Lock(u) ==
  /\ user[u].pc = "opened"
  /\ IF lock = None THEN lock' = u /\ At(u, "locked") ELSE At(u, "closed") /\ UNCHANGED lock
  /\ UNCHANGED <<exclusive, settings, opens>> /\ Rest

Exclude(u) ==
  /\ user[u].pc = "locked"
  /\ exclusive' = TRUE /\ At(u, "exclusive") /\ UNCHANGED <<lock, settings, opens>> /\ Rest

\* A new Bus knows no request of the one before.
Configure(u) ==
  /\ user[u].pc = "exclusive"
  /\ user' = [user EXCEPT ![u] = [pc |-> "session", saved |-> settings]] /\ settings' = "raw"
  /\ IF u \in Buses
     THEN reserved' = {} /\ accepted' = {} /\ taken' = [r \in Requests |-> 0]
     ELSE UNCHANGED <<reserved, accepted, taken>>
  /\ UNCHANGED <<lock, exclusive, call, line, motor, calls, opens>>

\* The device forgets exclusiveness when its last user closes it.
Released(u) ==
  /\ user' = [user EXCEPT ![u] = [pc |-> "closed", saved |-> None]]
  /\ lock' = (IF lock = u THEN None ELSE lock)
  /\ UNCHANGED opens /\ Rest

\* open fails half way: the settings are put back if they were read
OpenFails(u) ==
  /\ user[u].pc \in {"locked", "exclusive"} /\ Released(u)
  /\ exclusive' = (exclusive /\ \E v \in Users \ {u} : Holding(v)) /\ UNCHANGED settings

\* close; a bus leaves the settings to pySerial
Close(u) ==
  /\ user[u].pc = "session" /\ (u \in Buses => call = NoCall)
  /\ Released(u) /\ exclusive' = (u \in Buses /\ \E v \in Users \ {u} : Holding(v))
  /\ settings' = IF u \in Buses THEN settings ELSE user[u].saved

-----------------------------------------------------------------------------
(* The bus.  A call holds its lock through all of its exchanges.             *)

OnBus == \E b \in Buses : user[b].pc = "session"
Fixed == UNCHANGED <<port, opens>>

\* a request known already is answered from memory
Call(op, r) ==
  /\ OnBus /\ call = NoCall /\ calls < MaxCalls /\ calls' = calls + 1
  /\ (op = "move" => r \notin reserved)
  /\ call' = [NoCall EXCEPT !.op = op, !.req = IF op = "move" THEN r ELSE None, !.step = 1]
  /\ Fixed /\ UNCHANGED <<line, reserved, accepted, motor, taken>>

Step == Steps[call.op][call.step]
Busy == call # NoCall
Aged == [i \in DOMAIN line |-> [line[i] EXCEPT !.lag = @ + 1]]

\* a request is reserved before it is written: a timeout must never lead to another write
Reserved(r) == Step = "write"

(* _exchange: the input buffer is emptied and the request written; the motor gets
   it or does not.  Nothing is written again.  An answer that is MaxLag exchanges
   late arrives before the next exchange or is lost.                         *)
Send ==
  /\ Busy /\ ~call.waiting /\ \A i \in DOMAIN line : line[i].lag < MaxLag
  /\ call' = [call EXCEPT !.waiting = TRUE]
  /\ reserved' = IF Reserved(call.req) THEN reserved \cup {call.req} ELSE reserved
  /\ \/ /\ line' = Append(Aged, [to |-> Step, lag |-> 0])
        /\ taken' = IF Step = "write" THEN [taken EXCEPT ![call.req] = @ + 1] ELSE taken
     \/ line' = Aged /\ UNCHANGED taken
  /\ Fixed /\ UNCHANGED <<accepted, motor, calls>>

\* what arrives between two exchanges is dropped by the next; an answer may get lost
Lost == line # <<>> /\ line' = Tail(line) /\ Fixed /\ UNCHANGED <<call, reserved, accepted, motor, taken, calls>>

\* Mutant of Fits: the length of an answer is not looked at.
FitsAny(a) == TRUE

\* the answer is from this motor and has the expected length
Fits(a) == Bytes[a.to] = Bytes[Step]

\* What read_state found decides whether a position is commanded; a model that was not read ends a call.
Allowed == motor.torque /\ motor.mode = 0
Last == call.step = Len(Steps[call.op])
Goes == ~Last /\ (Steps[call.op][call.step + 1] = "write" => Allowed)

Arrive ==
  /\ Busy /\ call.waiting /\ line # <<>> /\ line' = Tail(line)
  /\ IF ~Fits(Head(line)) THEN UNCHANGED <<call, reserved, accepted>>
     ELSE LET got == Append(call.got, Head(line).to)
          IN /\ call' = IF Goes THEN [call EXCEPT !.step = @ + 1, !.waiting = FALSE, !.got = got] ELSE NoCall
             /\ accepted' = IF Step = "write" THEN accepted \cup {call.req} ELSE accepted
             /\ reserved' = reserved \cup accepted'
  /\ Fixed /\ UNCHANGED <<motor, taken, calls>>

\* no answer in time, error bits in one, or a short write: the call ends there
Fails ==
  /\ Busy /\ call' = NoCall /\ call.waiting
  /\ Fixed /\ UNCHANGED <<line, reserved, accepted, motor, taken, calls>>

Next ==
  \/ \E u \in Users : Open(u) \/ Lock(u) \/ Exclude(u) \/ Configure(u) \/ OpenFails(u) \/ Close(u)
  \/ \E r \in Requests : Call("move", r)
  \/ Call("identify", None) \/ Call("read", None)
  \/ Send \/ Lost \/ Arrive \/ Fails
Spec == Init /\ [][Next]_vars

-----------------------------------------------------------------------------
(* One user at a time works with the port, and the settings that users find on
   opening are never those of another's session that is still on.            *)
PortIsExclusive == \A u, v \in Users : user[u].pc = "session" /\ user[v].pc \in {"locked", "exclusive", "session"} => u = v

(* A position command reaches the motor at most once, whatever happens to its answer
   and however often the caller repeats the request, and one that is reported as accepted was.  *)
CommandedOnce ==
  /\ \A r \in Requests : taken[r] <= 1
  /\ \A r \in accepted : taken[r] = 1

(* While no answer is more than two exchanges late, none is taken for the value of
   another register: what is reported as the torque is not the mode.  Only a ping
   may be answered by what was meant for the command before it.              *)
AnswersAreMatched ==
  \A i \in DOMAIN call.got : Steps[call.op][i] # "ping" => call.got[i] = Steps[call.op][i]
=============================================================================
