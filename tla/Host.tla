-------------------------------- MODULE Host --------------------------------
(* What runs close to the machine, side by side: the execution kernel of an
   adapter (AgentKernel), the serial port and the motors on it (ServoBus), the
   loop that judges a physical attempt (FeedbackLoop), the processes of the host
   and how they are stopped (HostProcesses), and the installed release
   (ReleaseUpdate).  They share no state.                                     *)
EXTENDS AgentKernel

CONSTANTS
  Absent,
  PortUsers, BusUsers, Moves, MaxLag, MaxExchanges, MaxPorts,  \* of ServoBus
  MaxAttempts, Runtimes,                                       \* of FeedbackLoop
  Pids, Protected, StopCalls, MaxLives, MaxVersions,           \* of HostProcesses
  Envs, Versions, Names, Foreign, Sessions, Managed, Interrupts  \* of ReleaseUpdate

\* What SerialPort and Bus take as None is no user of the port.  An answer is at
\* most two exchanges late: an exchange waits for its answer, and the bus asks for
\* two registers before it asks for one that can be taken for another.
ASSUME BusAssumption ==
  /\ Absent \notin PortUsers /\ BusUsers \subseteq PortUsers
  /\ MaxLag \in 0..2

\* A task without a budget of attempts is refused (CorrectionTask).
ASSUME LoopAssumption == MaxAttempts \in Nat \ {0}

\* The host has processes that live at least once.
ASSUME ProcessAssumption == MaxLives \in Nat \ {0} /\ MaxVersions \in Nat

\* Environments and versions are numbered, and an environment from 1 on.
ASSUME ReleaseAssumption ==
  /\ Envs \subseteq Nat \ {0} /\ Versions \subseteq Nat
  /\ Foreign \subseteq Names /\ Managed \subseteq Sessions

VARIABLES
  user, lock, exclusive, settings, exchange, line, reserved, accepted, motor, taken, busCalls, busOpens,
  runtime, pc, attempt, late, body, episode, review, log, result, moves, stuck,
  proc, seen, call, asked, hit, node, file, reviewed, ran, interrupted,
  record, env, version, cmd, backup, dispatcher, op, sess

Bus == INSTANCE ServoBus WITH
  Users <- PortUsers, Buses <- BusUsers, Requests <- Moves, None <- Absent,
  MaxCalls <- MaxExchanges, MaxOpens <- MaxPorts,
  call <- exchange, calls <- busCalls, opens <- busOpens
Loop == INSTANCE FeedbackLoop
Processes == INSTANCE HostProcesses WITH Calls <- StopCalls
Release == INSTANCE ReleaseUpdate

-----------------------------------------------------------------------------
(* One user has the port, the motor takes the command of a request once, and an
   answer is that of the packet it is taken for, however late answers are.    *)
BusIsSound == Bus!TypeOK /\ Bus!PortIsExclusive /\ Bus!CommandedOnce /\ Bus!AnswersAreMatched

(* An attempt passes only on evidence of its own, and every target the body was
   given stands in the record.                                                *)
LoopIsSound == Loop!TypeOK /\ Loop!PassIsEarned /\ Loop!MovesAreOnRecord

(* A signal reaches only the process that was inspected, though pids are used
   again, the answer of a stop is true, and a node runs the program that was
   reviewed.                                                                  *)
ProcessesAreSound ==
  /\ Processes!TypeOK /\ Processes!SignalsHitTheirTarget
  /\ Processes!AnswersAreTrue /\ Processes!RunsWhatWasReviewed

(* Maintenance never runs beside a session of a managed release or a second
   maintenance, commands of others are kept or restored, and an update that
   fails at any step, or is killed, leaves a release that works.              *)
ReleaseIsSound ==
  /\ [](Release!TypeOK /\ Release!MaintenanceIsAlone /\ Release!ForeignCommandsAreKept)
  /\ Release!UpdateKeepsWorking
=============================================================================
