---------------------------- MODULE ProviderSetup ----------------------------
(* Keys, profiles and the check of the connection: src/terminal/home.py,
   providers.py and setup.py, and what src/terminal/app.py and
   src/model_switch.py do with them.

   Terminals and the loop-switch program share config.json, the credentials.json
   of older releases and the SQLite file of profiles.  A save of a key is a
   sequence of file operations that nothing locks; a transaction is one step; a
   process may be killed between any two.  A profile is an endpoint and a model.
   A url stands for the endpoint and the variable that names its key.           *)
EXTENDS Naturals, FiniteSets, FiniteSetsExt

CONSTANTS Processes, Urls, Models, Keys, MaxNames, MaxUses, MaxCrashes

VARIABLES
  saved,     \* config.json: url -> [key, legacy]: legacy as long as it is under its old identity
  creds,     \* credentials.json: url -> key
  profiles,  \* name -> [url, model]; a later name was inserted later
  master,    \* the selected name
  checks,    \* name -> [print, status]
  proc,      \* process -> see Idle
  names, uses, crashes,  \* bounds: names given, things begun by a user, processes killed
  given,     \* ghost: the key each url was last given
  raced,     \* ghost: whether two saves of a key overlapped
  mixed,     \* ghost: whether a verdict was recorded for another profile or key than was tried
  reached    \* ghost: the endpoints that answered, with which key

vars == <<saved, creds, profiles, master, checks, proc, names, uses, crashes, given, raced, mixed, reached>>

NoKey == 0
Config == [url : Urls, model : Models]
Idle == [at |-> "idle",            \* what it does next
         then |-> "idle",          \* what it does after the save of a key
         starting |-> FALSE,       \* whether it is the start of a terminal
         config |-> [url |-> Min(Urls), model |-> Min(Models)],  \* the client's, or that of the profile being set up
         key |-> NoKey, put |-> <<>>, data |-> <<>>, name |-> 0, listed |-> {}, passed |-> FALSE]
Saving == {"merge", "replace", "unlink"}

TypeOK ==
  /\ saved \in [Urls -> [key : {NoKey} \cup Keys, legacy : BOOLEAN]] /\ creds \in [Urls -> {NoKey} \cup Keys]
  /\ DOMAIN profiles \subseteq 1..names /\ \A n \in DOMAIN profiles : profiles[n] \in Config
  /\ master \in DOMAIN profiles /\ DOMAIN checks \subseteq DOMAIN profiles

\* An upgraded installation: a profile and an old key for each url
Init ==
  /\ saved = [u \in Urls |-> [key |-> NoKey, legacy |-> FALSE]]
  /\ creds = [u \in Urls |-> Min(Keys)] /\ given = creds
  /\ profiles = [n \in Urls |-> [url |-> n, model |-> Min(Models)]] /\ names = Cardinality(Urls)
  /\ master = 1 /\ checks = <<>> /\ proc = [p \in Processes |-> Idle]
  /\ uses = 0 /\ crashes = 0 /\ raced = FALSE /\ mixed = FALSE /\ reached = {}

Goes(p, to) == proc' = [proc EXCEPT ![p].at = to]
Files == UNCHANGED <<saved, creds, given, raced>>
Store == UNCHANGED <<profiles, master, checks, names>>
Rest == UNCHANGED <<uses, crashes, mixed, reached>>
Used == uses < MaxUses /\ uses' = uses + 1 /\ UNCHANGED <<crashes, mixed, reached>>

-----------------------------------------------------------------------------
(* Keys: home.py. *)

Found(u) == IF saved[u].key # NoKey THEN saved[u].key ELSE creds[u]

\* saved_key saves again what it finds under an old identity
Pending(u) == saved[u].legacy \/ (saved[u].key = NoKey /\ creds[u] # NoKey)

\* Mutant of Merged: what the old file holds replaces what config.json holds.
MergedOver(data, u, k) ==
  [v \in Urls |-> IF v = u THEN [key |-> k, legacy |-> FALSE]
                  ELSE IF creds[v] # NoKey THEN [key |-> creds[v], legacy |-> TRUE] ELSE data[v]]

\* The entries of the old file join, except of an endpoint that has one
Merged(data, u, k) ==
  [v \in Urls |-> IF v = u THEN [key |-> k, legacy |-> FALSE]
                  ELSE IF data[v].key = NoKey /\ creds[v] # NoKey THEN [key |-> creds[v], legacy |-> TRUE]
                  ELSE data[v]]

\* save_key reads config.json
Save(p, q, u, k) ==
  /\ proc' = [proc EXCEPT ![p] = [q EXCEPT !.at = "merge", !.put = <<u, k>>, !.data = saved]]
  /\ raced' = (raced \/ \E o \in Processes \ {p} : proc[o].at \in Saving)
  /\ UNCHANGED <<saved, creds, given>> /\ Store

\* It reads credentials.json,
Merge(p) ==
  /\ proc[p].at = "merge"
  /\ proc' = [proc EXCEPT ![p].at = "replace", ![p].data = Merged(@, proc[p].put[1], proc[p].put[2])]
  /\ Files /\ Store /\ Rest

\* puts the new file in the place of the old one
Replace(p) ==
  /\ proc[p].at = "replace"
  /\ saved' = proc[p].data /\ given' = [given EXCEPT ![proc[p].put[1]] = proc[p].put[2]]
  /\ proc' = [proc EXCEPT ![p].at = "unlink", ![p].put = <<>>, ![p].data = <<>>]
  /\ UNCHANGED <<creds, raced>> /\ Store /\ Rest

\* and deletes credentials.json
Unlink(p) ==
  /\ proc[p].at = "unlink"
  /\ creds' = [u \in Urls |-> NoKey]
  /\ proc' = [proc EXCEPT ![p].at = proc[p].then, ![p].then = "idle"] /\ UNCHANGED <<saved, given, raced>> /\ Store /\ Rest

-----------------------------------------------------------------------------
(* Profiles: providers.py. *)

Fingerprint(n) == [config |-> profiles[n], key |-> Found(profiles[n].url)]

\* connection_check
Shown(n) == IF n \in DOMAIN checks /\ checks[n].print = Fingerprint(n) THEN checks[n].status ELSE "untested"

\* What happens to the rows when only those of S stay
Kept(S) == /\ profiles' = [n \in S |-> profiles[n]]
           /\ checks' = [n \in DOMAIN checks \cap S |-> checks[n]]

\* deduplicate: the newest profile of each url stays, and what was selected goes with it
Winner(u, newest) == LET same == {n \in DOMAIN profiles : profiles[n].url = u}
                     IN IF newest \in same THEN newest ELSE Max(same)
Deduplicate(newest) == /\ Kept({Winner(profiles[n].url, newest) : n \in DOMAIN profiles})
                       /\ master' = Winner(profiles[master].url, newest) /\ UNCHANGED names

\* The urls whose keys are looked up before the step: resolved_key, record_check and list
Consulted(p) == CASE proc[p].at = "ask" -> {proc[p].config.url}
                  [] proc[p].at = "record" -> {profiles[master].url}
                  [] proc[p].at = "list" -> {profiles[n].url : n \in DOMAIN profiles}
                  [] OTHER -> {}
Migrate(p) == \E u \in {v \in Consulted(p) : Pending(v)} :
  Save(p, [proc[p] EXCEPT !.then = proc[p].at], u, Found(u)) /\ Rest
Looked(p, at) == proc[p].at = at /\ \A u \in Consulted(p) : ~Pending(u)

-----------------------------------------------------------------------------
(* Setup: setup.py. *)

\* A terminal starts with the profile that is selected
Start(p) == /\ proc[p].at = "idle"
            /\ proc' = [proc EXCEPT ![p] = [Idle EXCEPT !.at = "ask", !.starting = TRUE, !.config = profiles[master]]]
            /\ Files /\ Store /\ Used

\* check_connection: without a key it has failed,
Ask(p) == /\ Looked(p, "ask")
          /\ LET k == Found(proc[p].config.url)
             IN proc' = [proc EXCEPT ![p].key = k, ![p].passed = FALSE,
                                     ![p].at = IF k = NoKey THEN "record" ELSE "answer"]
          /\ Files /\ Store /\ Rest

\* with one the model, or another one of the same endpoint, answers, or none does,
Answer(p) ==
  /\ proc[p].at = "answer"
  /\ \E ok \in BOOLEAN :
       /\ proc' = [proc EXCEPT ![p].passed = ok, ![p].at = "record"]
       /\ reached' = IF ok THEN reached \cup {<<proc[p].config.url, proc[p].key>>} ELSE reached
  /\ Files /\ Store /\ UNCHANGED <<uses, crashes, mixed>>

\* or the user does not wait
Cancel(p) == /\ proc[p].at \in {"answer", "choose"} /\ proc' = [proc EXCEPT ![p] = Idle]
             /\ Files /\ Store /\ Rest

\* record_check, of what is selected by then
Record(p) ==
  /\ Looked(p, "record")
  /\ checks' = [n \in DOMAIN checks \cup {master} |->
                 IF n # master THEN checks[n]
                 ELSE [print |-> Fingerprint(n), status |-> IF proc[p].passed THEN "passed" ELSE "failed"]]
  /\ mixed' = (mixed \/ profiles[master] # proc[p].config \/ Found(proc[p].config.url) # proc[p].key)
  /\ proc' = IF proc[p].passed THEN [proc EXCEPT ![p] = Idle] ELSE [proc EXCEPT ![p].at = "recover", ![p].key = NoKey]
  /\ Files /\ UNCHANGED <<profiles, master, names, uses, crashes, reached>>

\* recover_profile: it drops the doubles
Recover(p) == /\ proc[p].at = "recover" /\ Deduplicate(0) /\ Goes(p, "list") /\ Files /\ Rest

\* and lists the rest, unless the last check of each has failed
List(p) ==
  /\ Looked(p, "list")
  /\ proc' = [proc EXCEPT ![p].listed = DOMAIN profiles,
                 ![p].at = IF \A n \in DOMAIN profiles : Shown(n) = "failed" THEN "setup" ELSE "choose"]
  /\ Files /\ Store /\ Rest

\* apply_profiles, and check again; loop-switch has nothing to apply
Applied(p, n) == proc' = [proc EXCEPT ![p] = IF ~@.starting THEN Idle
                                             ELSE [@ EXCEPT !.at = "ask", !.config = profiles[n], !.listed = {}]]

Retry(p) == proc[p].at = "choose" /\ Applied(p, master) /\ Files /\ Store /\ Rest

\* The chosen one may be gone: the menu comes again
Choose(p) ==
  /\ proc[p].at = "choose"
  /\ \E n \in proc[p].listed :
       \/ n \in DOMAIN profiles /\ master' = n /\ Applied(p, n)
       \/ n \notin DOMAIN profiles /\ Goes(p, "recover") /\ UNCHANGED master
  /\ Files /\ UNCHANGED <<profiles, checks, names>> /\ Rest

\* quick_setup: the user gives url, model and key
Setup(p) ==
  /\ proc[p].at \in {"idle", "choose", "setup"} /\ names < MaxNames
  /\ \E c \in Config, k \in Keys :
       Save(p, [Idle EXCEPT !.then = "insert", !.starting = proc[p].at # "idle", !.config = c], c.url, k)
  /\ IF proc[p].at = "idle" THEN Used ELSE Rest

Insert(p) ==
  /\ proc[p].at = "insert" /\ names < MaxNames
  /\ names' = names + 1
  /\ profiles' = [n \in DOMAIN profiles \cup {names'} |-> IF n = names' THEN proc[p].config ELSE profiles[n]]
  /\ proc' = [proc EXCEPT ![p].name = names', ![p].at = "use"]
  /\ Files /\ UNCHANGED <<master, checks>> /\ Rest

\* Another terminal may have dropped it as a double
Use(p) ==
  /\ proc[p].at = "use"
  /\ \/ /\ proc[p].name \in DOMAIN profiles
        /\ master' = proc[p].name /\ Goes(p, "dedupe")
     \/ /\ proc[p].name \notin DOMAIN profiles
        /\ Goes(p, IF proc[p].starting THEN "recover" ELSE "idle") /\ UNCHANGED master
  /\ Files /\ UNCHANGED <<profiles, checks, names>> /\ Rest

Dedupe(p) == /\ proc[p].at = "dedupe" /\ Deduplicate(proc[p].name) /\ Goes(p, "apply") /\ Files /\ Rest
Apply(p) == proc[p].at = "apply" /\ Applied(p, master) /\ Files /\ Store /\ Rest

-----------------------------------------------------------------------------
(* A running terminal and loop-switch. *)

\* /key
NewKey(p) == \E u \in Urls, k \in Keys :
  proc[p].at = "idle" /\ Save(p, Idle, u, k) /\ Used

\* /switch and use
Switch(p) == /\ proc[p].at = "idle" /\ \E n \in DOMAIN profiles : master' = n
             /\ Files /\ UNCHANGED <<proc, profiles, checks, names>> /\ Used

\* edit
Edit(p) == /\ proc[p].at = "idle"
           /\ \E n \in DOMAIN profiles, m \in Models : profiles' = [profiles EXCEPT ![n].model = m]
           /\ Files /\ UNCHANGED <<proc, master, checks, names>> /\ Used

\* remove, but not what is selected
Remove(p) == /\ proc[p].at = "idle"
             /\ \E n \in DOMAIN profiles \ {master} : Kept(DOMAIN profiles \ {n})
             /\ Files /\ UNCHANGED <<proc, master, names>> /\ Used

Crash(p) == /\ proc[p].at # "idle" /\ crashes < MaxCrashes /\ crashes' = crashes + 1
            /\ proc' = [proc EXCEPT ![p] = Idle] /\ Files /\ Store /\ UNCHANGED <<uses, mixed, reached>>

Next == \E p \in Processes :
  Merge(p) \/ Replace(p) \/ Unlink(p) \/ Migrate(p) \/ Start(p) \/ Ask(p) \/ Answer(p) \/ Cancel(p) \/ Record(p)
  \/ Recover(p) \/ List(p) \/ Retry(p) \/ Choose(p) \/ Setup(p) \/ Insert(p) \/ Use(p) \/ Dedupe(p) \/ Apply(p)
  \/ NewKey(p) \/ Switch(p) \/ Edit(p) \/ Remove(p) \/ Crash(p)

Spec == Init /\ [][Next]_vars

-----------------------------------------------------------------------------
(* Properties. *)

\* No save, of whichever endpoint, wherever it is cut off, loses or revives a key
\* of another endpoint: the key that is found is the one last given, unless two
\* saves overlapped.
KeysAreKept == ~raced => \A u \in Urls : Found(u) = given[u]

\* What home.py says at the merge: migration never drops another profile's key.
NoKeyIsDropped == \A u \in Urls : Found(u) # NoKey

\* A profile is shown as passed only if its endpoint answered with the key that is
\* found for it now, unless somebody switched or changed the profile during the check.
PassedWasReached == ~mixed => \A n \in DOMAIN profiles :
  Shown(n) = "passed" => <<profiles[n].url, Found(profiles[n].url)>> \in reached
=============================================================================
