------------------------------ MODULE Services ------------------------------
(* What a terminal keeps beside its conversation: the operator's permissions
   (OperatorControl), the providers and keys (ProviderSetup), and memory and
   experience (Learning).  They share no state.                               *)
EXTENDS OperatorControl

CONSTANTS
  Processes,
  Urls, Models, Keys, MaxNames, MaxUses, MaxCrashes,  \* of ProviderSetup
  Tasks, MaxJobs, MaxRevisions, MaxStops              \* of Learning

\* Endpoints are numbered from 1 on, as the profiles of an upgraded installation
\* are, and a key is something: an empty one counts as none (home.saved_key).
ASSUME SetupAssumption ==
  /\ IsFiniteSet(Urls) /\ Urls # {} /\ Urls = 1..Cardinality(Urls)
  /\ Models \subseteq Nat /\ Models # {}
  /\ Keys \subseteq Nat \ {0} /\ Keys # {}

VARIABLES
  saved, creds, profiles, master, checks, proc, names, uses, crashes, given, raced, mixed, reached,
  now, experience, imported, knows, item, runs, success, notes, work, jobs, stops, earned

setupVars == <<saved, creds, profiles, master, checks, proc, names, uses, crashes, given, raced, mixed,
  reached>>
memoryVars == <<now, experience, imported, knows, item, runs, success, notes, work, jobs, stops, earned>>

Setup == INSTANCE ProviderSetup
Memory == INSTANCE Learning WITH job <- work

-----------------------------------------------------------------------------
(* A save of a key, cut off wherever it is, keeps the keys of other endpoints,
   and a profile is shown as passed only if its endpoint answered with the key
   that is found for it now.                                                  *)
KeysAreSound == Setup!TypeOK /\ Setup!KeysAreKept /\ Setup!PassedWasReached

(* Memory does not go back to what was read before another process saved, ends
   with the newest success, offers a procedure only after three verified tasks,
   and each revision of a note was written on the one before it.              *)
MemoryIsSound ==
  /\ [](Memory!TypeOK /\ Memory!ProcedureIsEarned /\ Memory!MemoryIsNewest /\ Memory!NotesAreLinear)
  /\ Memory!MemoryGoesForward
=============================================================================
