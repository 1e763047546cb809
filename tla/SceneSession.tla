---------------------------- MODULE SceneSession ----------------------------
(* The scene of a session: generated or edited by a call of generate_scene or
   compose_scene, published, saved and shown (App.scene, App.compose,
   App.publish_scene, App.save_scene_state in src/terminal/app.py; generate_scene in
   src/toolchain/scenes.py; compose in src/toolchain/composition.py).  The turn
   of the model and the broker of the sub-agents call these tools from threads of
   their own; nothing but the bundles on disk, which never change, is guarded.

   A scene is what stands on what.  Geometry is left out: that an object does not
   fit, or that the composed physics are not sound, may refuse any edit.     *)
EXTENDS Naturals, Sequences

CONSTANTS
  Threads,     \* callers
  Edits,       \* [base, remove, add, move]: edits they make
  None,
  Floor,
  Candidates,  \* answers of the model one call may try (3 in the code)
  MaxBundles,  \* bound: bundles written
  MaxCalls,    \* bound: calls
  MaxCrashes   \* bound: restarts of the terminal

VARIABLES
  bundles,       \* scenes written to disk, in order; their number is their directory
  latest, error, \* latest_scene (0 is none) and scene_generation_error
  saved, temp,   \* scene_state.json and scene_state.tmp: [scene, error]
  shown,         \* the bundle the viewer was last given
  thread,        \* per thread: [pc, kind, edit, base, made, attempt, then]
  published,     \* ghost: bundles that were made the latest
  lost,          \* ghost: an edit of the current scene dropped what it was not told to
  calls, crashes \* counters
counters == <<calls, crashes>>
vars == <<bundles, latest, error, saved, temp, shown, thread, published, lost, counters>>

Blank == [objs |-> {}, on |-> <<>>]
Rest == [pc |-> "rest", kind |-> None, edit |-> None, base |-> 0, made |-> 0, attempt |-> 0, then |-> "rest"]
Bundle(n) == IF n = 0 THEN Blank ELSE bundles[n]

TypeOK ==
  /\ \A n \in DOMAIN bundles : DOMAIN bundles[n].on = bundles[n].objs
  /\ latest \in 0..MaxBundles /\ shown \in 0..MaxBundles /\ error \in BOOLEAN
  /\ saved.scene \in 0..MaxBundles /\ published \subseteq 1..MaxBundles
  /\ \A t \in Threads : thread[t].pc \in {"rest", "write", "replace", "ask", "load", "build", "publish", "open"}
                        /\ thread[t].attempt \in 0..Candidates

Init ==
  /\ bundles = <<>> /\ latest = 0 /\ error = FALSE
  /\ saved = [scene |-> 0, error |-> FALSE] /\ temp = None /\ shown = 0
  /\ thread = [t \in Threads |-> Rest] /\ published = {} /\ lost = {} /\ calls = 0 /\ crashes = 0

-----------------------------------------------------------------------------
(* compose: an edit is applied to a copy, item by item; None is a refusal. *)

Carries(s, x) == {y \in s.objs : s.on[y] = x}
Stands(s, x) == x = Floor \/ x \in s.objs

Removable(s, names) == names \subseteq s.objs /\ \A x \in names : Carries(s, x) \subseteq names
Removed(s, names) ==
  IF s = None \/ ~Removable(s, names) THEN None
  ELSE [objs |-> s.objs \ names, on |-> [x \in s.objs \ names |-> s.on[x]]]
Put(s, item) ==
  LET objs == s.objs \cup {item.name}
  IN [objs |-> objs, on |-> [x \in objs |-> IF x = item.name THEN item.support ELSE s.on[x]]]
Added(s, item) ==
  IF s = None \/ item.name \in s.objs \/ ~Stands(s, item.support) THEN None ELSE Put(s, item)
Movable(s, item) == item.name \in s.objs /\ Carries(s, item.name) = {} /\ Stands(s, item.support)
Moved(s, item) == IF s = None \/ ~Movable(s, item) THEN None ELSE Put(s, item)

\* The scene after each item of an edit: what is removed, added and moved, in order
Edited(edit, base) ==
  LET start == IF edit.base = "current" THEN base ELSE Blank
      added == Len(edit.add)
      after[n \in 0..added + Len(edit.move)] ==
        IF n = 0 THEN Removed(start, edit.remove)
        ELSE IF n <= added THEN Added(after[n - 1], edit.add[n])
        ELSE Moved(after[n - 1], edit.move[n - added])
  IN after
Composed(edit, base) == Edited(edit, base)[Len(edit.add) + Len(edit.move)]

-----------------------------------------------------------------------------
(* A call. *)

At(t, pc) == thread[t].pc = pc
Go(t, pc) == thread' = [thread EXCEPT ![t].pc = pc]
Save(t, then) == thread' = [thread EXCEPT ![t] = [Rest EXCEPT !.pc = "write", !.then = then]]
Ends(t) == thread' = [thread EXCEPT ![t] = Rest]
disk == <<bundles, saved, temp, counters>>
Called == calls < MaxCalls /\ calls' = calls + 1

\* scene: the request is saved before it is worked on
Scene(t) ==
  /\ At(t, "rest") /\ Called
  /\ thread' = [thread EXCEPT ![t] = [Rest EXCEPT !.pc = "write", !.kind = "scene", !.then = "ask"]]
  /\ UNCHANGED <<bundles, saved, temp, crashes, latest, error, shown, published, lost>>
\* compose, and the edits scene recognises without a model
Edit(t) ==
  /\ At(t, "rest") /\ Called
  /\ \E e \in Edits : thread' = [thread EXCEPT ![t] = [Rest EXCEPT !.pc = "load", !.kind = "edit", !.edit = e]]
  /\ UNCHANGED <<bundles, saved, temp, crashes, latest, error, shown, published, lost>>

\* save_scene_state: a file of one name for all threads, then moved into place
Write(t) ==
  /\ At(t, "write") /\ temp' = [scene |-> latest, error |-> error] /\ Go(t, "replace")
  /\ UNCHANGED <<bundles, latest, error, saved, shown, published, lost, counters>>
Replace(t) ==
  /\ At(t, "replace") /\ temp # None
  /\ saved' = temp /\ temp' = None /\ Go(t, thread[t].then)
  /\ UNCHANGED <<bundles, latest, error, shown, published, lost, counters>>
\* another thread has moved the file: the call ends with an error
ReplaceFails(t) ==
  /\ At(t, "replace") /\ temp = None /\ Ends(t)
  /\ UNCHANGED <<disk, latest, error, shown, published, lost>>

\* generate_scene: up to three candidates of the model
Answers(t) ==
  /\ At(t, "ask") /\ thread[t].attempt < Candidates
  /\ \E e \in Edits : thread' = [thread EXCEPT ![t].pc = "load", ![t].edit = e, ![t].attempt = @ + 1]
  /\ UNCHANGED <<disk, latest, error, shown, published, lost>>

Load(t) ==
  /\ At(t, "load")
  /\ thread' = [thread EXCEPT ![t].pc = "build", ![t].base = latest]
  /\ UNCHANGED <<disk, latest, error, shown, published, lost>>

Outcome(t) == Composed(thread[t].edit, Bundle(thread[t].base))
\* the bundle is written whole, under a name of its own
Build(t) ==
  /\ At(t, "build") /\ Outcome(t) # None /\ Len(bundles) < MaxBundles
  /\ bundles' = Append(bundles, Outcome(t))
  /\ thread' = [thread EXCEPT ![t].pc = "publish", ![t].made = Len(bundles')]
  /\ UNCHANGED <<latest, error, saved, temp, shown, published, lost, counters>>
\* refused, and shown to the model for another candidate
Repairs(t) ==
  /\ At(t, "build") /\ thread[t].kind = "scene" /\ thread[t].attempt < Candidates
  /\ Go(t, "ask")
  /\ UNCHANGED <<disk, latest, error, shown, published, lost>>
\* refused for good, stopped, or out of candidates
Fails(t) ==
  /\ thread[t].pc \in {"ask", "load", "build"}
  /\ error' = TRUE /\ Save(t, "rest")
  /\ UNCHANGED <<disk, latest, shown, published, lost>>

\* publish_scene
Publish(t) ==
  /\ At(t, "publish")
  /\ error' = FALSE /\ latest' = thread[t].made /\ published' = published \cup {latest'}
  /\ lost' = IF thread[t].edit.base # "current" THEN lost
             ELSE lost \cup (Bundle(latest).objs \ (thread[t].edit.remove \cup Bundle(latest').objs))
  /\ Save(t, "open")
  /\ UNCHANGED <<disk, shown>>
\* the window is told to show the latest scene, or is not opened
Opens(t) ==
  /\ At(t, "open") /\ Ends(t) /\ shown' \in {shown, latest}
  /\ UNCHANGED <<disk, latest, error, published, lost>>

\* open_simulator: not after a failure, and with a default scene when there is none
OpenTool(t) ==
  /\ At(t, "rest") /\ ~error
  /\ IF latest = 0
     THEN /\ Len(bundles) < MaxBundles
          /\ bundles' = Append(bundles, Blank) /\ latest' = Len(bundles')
          /\ published' = published \cup {latest'}
     ELSE UNCHANGED <<bundles, latest, published>>
  /\ shown' = latest'
  /\ UNCHANGED <<saved, temp, error, thread, lost, counters>>

\* Mutant of Restart: the newest scene on disk is taken.
RestartNewest ==
  /\ crashes < MaxCrashes /\ crashes' = crashes + 1
  /\ thread' = [t \in Threads |-> Rest]
  /\ latest' = Len(bundles) /\ error' = saved.error
  /\ UNCHANGED <<bundles, saved, temp, shown, published, lost, calls>>

\* the terminal is killed at any moment, and restores what it saved
Restart ==
  /\ crashes < MaxCrashes /\ crashes' = crashes + 1
  /\ thread' = [t \in Threads |-> Rest]
  /\ latest' = saved.scene /\ error' = saved.error
  /\ UNCHANGED <<bundles, saved, temp, shown, published, lost, calls>>

Step(t) ==
  \/ Scene(t) \/ Edit(t) \/ Write(t) \/ Replace(t) \/ ReplaceFails(t) \/ Answers(t) \/ Load(t)
  \/ Build(t) \/ Repairs(t) \/ Fails(t) \/ Publish(t) \/ Opens(t) \/ OpenTool(t)
Next == (\E t \in Threads : Step(t)) \/ Restart
Spec == Init /\ [][Next]_vars

-----------------------------------------------------------------------------
(* Properties. *)

(* Whatever edits are made of whatever scene, in whatever order: in every bundle each
   object stands on one that is there, and following supports leads to the floor. *)
ScenesStand ==
  \A n \in DOMAIN bundles : LET scene == bundles[n] IN
    /\ \A x \in scene.objs : Stands(scene, scene.on[x])
    /\ \A group \in (SUBSET scene.objs) \ {{}} : \E x \in group : scene.on[x] \notin group

(* After a crash at any moment the session comes back with a scene that had been
   published, or with none when none had been saved.                         *)
RestoredWasPublished == latest # 0 => latest \in published

(* src/toolchain/composition.py:21, base=current keeps all the objects there are. *)
CurrentIsKept == lost = {}
=============================================================================
