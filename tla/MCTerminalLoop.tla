--------------------------- MODULE MCTerminalLoop ---------------------------
(* The runs of TerminalLoop. A behaviour has two messages and a kill, or one
   message and mail: all together are too many states for liveness.          *)
EXTENDS TerminalLoop
CONSTANTS m1, m2
VARIABLE part

TerminalInit == part \in {"mail", "messages"} /\ Init
TerminalNext ==
  /\ Next /\ UNCHANGED part
  /\ part = "mail" => draft' # m2 /\ spent'.crashes = 0
  /\ part = "messages" => spent'.mail = 0
TerminalSpec == TerminalInit /\ [][TerminalNext]_<<vars, part>> /\ Fairness
=============================================================================
