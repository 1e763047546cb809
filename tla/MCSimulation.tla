---------------------------- MODULE MCSimulation ----------------------------
(* The simulation (Simulation), each part driven by the same two threads of a
   terminal; a behaviour is one of one part, the others stay as they began.
   u is a thread of another workbench.                                        *)
EXTENDS Simulation, TLC
CONSTANTS s, t, u, a, b

VARIABLE part

TwoBenches == s :> 1 @@ t :> 1 @@ u :> 2

\* Edits that build a tower, turn it over, take from it and start anew
On(x, y) == [name |-> x, support |-> y]
Change == [base |-> "current", remove |-> {}, add |-> <<>>, move |-> <<>>]
TowerEdits ==
  {[Change EXCEPT !.add = <<On(a, Floor), On(b, a)>>],
   [Change EXCEPT !.remove = {a}],
   [Change EXCEPT !.move = <<On(b, Floor), On(a, b)>>],
   [Change EXCEPT !.move = <<On(a, b)>>],
   [Change EXCEPT !.base = "empty", !.add = <<On(a, Floor)>>]}

SimulationInit ==
  /\ part \in {"viewer", "bench", "scene"}
  /\ Viewer!Init /\ Bench!Init /\ Scene!Init
  /\ part # "bench" => \A i \in DOMAIN stage : stage[i].backend = "mujoco"
SimulationNext ==
  /\ UNCHANGED part
  /\ \/ part = "viewer" /\ Viewer!Next /\ UNCHANGED <<benchVars, sceneVars>>
     \/ part = "bench" /\ Bench!Next /\ UNCHANGED <<viewerVars, sceneVars>>
     \/ part = "scene" /\ Scene!Next /\ UNCHANGED <<viewerVars, benchVars>>
SimulationSpec == SimulationInit /\ [][SimulationNext]_<<part, viewerVars, benchVars, sceneVars>>
Symmetry == Permutations({s, t})
=============================================================================
