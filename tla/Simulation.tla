----------------------------- MODULE Simulation -----------------------------
(* What simulates: the window that shows the simulated body (SimulatorViewer),
   the tools of the engines (SimWorkbench) and the scenes they load
   (SceneSession).  They share no state here.                                 *)
EXTENDS Naturals, Sequences

CONSTANTS
  Absent,
  Callers, Kinds, MaxSent, MaxOpens, MaxKeys, MaxEdits, MaxKills,  \* of SimulatorViewer
  Workers, Benches, BenchOf, Tools, Backends, Instances,               \* of SimWorkbench
  MaxLives, MaxTime, MaxToolCalls, Horizon, MaxRows, MaxInstances,
  Editors, Objects, Compositions, Floor, Candidates, MaxBundles, MaxSceneCalls, MaxRestarts  \* of SceneSession

\* Nobody is Absent; the limits are numbers.
ASSUME ViewerAssumption ==
  /\ Absent \notin Callers
  /\ {MaxSent, MaxOpens, MaxKeys, MaxEdits, MaxKills} \subseteq Nat

\* Instances and workbenches are named by something, which 0 is not.
ASSUME BenchAssumption ==
  /\ 0 \notin Instances \cup Benches /\ BenchOf \in [Workers -> Benches]
  /\ Tools \subseteq {"inspect", "edit", "camera", "reset", "step", "task", "capture", "close"}
  /\ Backends \subseteq {"isaac", "mujoco"} /\ MaxLives \in Nat \ {0}
  /\ {MaxTime, MaxToolCalls, Horizon, MaxRows, MaxInstances} \subseteq Nat

\* An object that is added or moved does not stand on itself (validate_edit), and
\* none has the name of the floor, which every scene has (compose).
ASSUME SceneAssumption ==
  /\ Floor \notin Objects
  /\ \A e \in Compositions : \A items \in {e.add, e.move} :
       /\ items \in Seq([name : Objects, support : Objects \cup {Floor}])
       /\ \A i \in DOMAIN items : items[i].name # items[i].support
  /\ {Candidates, MaxBundles, MaxSceneCalls, MaxRestarts} \subseteq Nat

VARIABLES
  worker, owner, hand, paused, movement, last, loaded, pub, fresh, inbox, late, holder, call, told,
  applied, arrived, disk, stop, sent, opens, keys, kills,
  host, queue, stage, entries, tool, answer, episodes, toolCalls, hands,
  bundles, latest, error, kept, temp, shown, editor, published, lost, sceneCalls, restarts

viewerVars == <<worker, owner, hand, paused, movement, last, loaded, pub, fresh, inbox, late, holder, call,
  told, applied, arrived, disk, stop, sent, opens, keys, kills>>
benchVars == <<host, queue, stage, entries, tool, answer, episodes, toolCalls, hands>>
sceneVars == <<bundles, latest, error, kept, temp, shown, editor, published, lost, sceneCalls, restarts>>

Viewer == INSTANCE SimulatorViewer WITH
  None <- Absent, MaxCommands <- MaxSent, MaxCrashes <- MaxKills,
  motion <- movement, reached <- arrived, crashes <- kills
Bench == INSTANCE SimWorkbench WITH
  Threads <- Workers, MaxCalls <- MaxToolCalls, Ids <- Instances, call <- tool, calls <- toolCalls
Scene == INSTANCE SceneSession WITH
  Threads <- Editors, Edits <- Compositions, None <- Absent, MaxCalls <- MaxSceneCalls, MaxCrashes <- MaxRestarts,
  saved <- kept, thread <- editor, calls <- sceneCalls, crashes <- restarts

-----------------------------------------------------------------------------
(* A caller of the viewer is told of a command what became of it, and a command
   that was given up on does not start afterwards.                            *)
ViewerIsTrue == [](Viewer!TypeOK /\ Viewer!ReportsAreTrue) /\ Viewer!NoLateStart

(* A recorded demonstration is one uninterrupted run of one engine, and only the
   workbench that owns an instance acts on it, whatever ends and restarts.    *)
BenchIsSound == Bench!TypeOK /\ Bench!EpisodesAreWhole /\ Bench!OwnersAct

(* In every scene that is written each object stands on one that is there, down
   to the floor, and after a crash at any moment the terminal comes back with a
   scene that had been published, or with none.                               *)
ScenesAreSound == Scene!TypeOK /\ Scene!ScenesStand /\ Scene!RestoredWasPublished

(* A composition from the current scene keeps every object it does not remove,
   as the prompt of the composition says; it does not hold.                   *)
CurrentIsKept == Scene!CurrentIsKept
=============================================================================
