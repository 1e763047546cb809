-------------------------- MODULE DelegationProofs --------------------------
(***************************************************************************)
(* Theorems about what a terminal hands work to and what it is answered:   *)
(* the sub-agents of its broker (AgentBroker), and the window, the engines *)
(* and the scenes of the simulation (Simulation).                          *)
(*                                                                         *)
(* The broker, for any number of sub-agents and messages, any limit of a   *)
(* broker and any ceiling of the terminals together: each end is announced *)
(* once, a receipt says which mail was handed over, and a worker that lives*)
(* keeps the place that was reserved for it.  They rest on what every      *)
(* record is at any time, on the current rows of the lease table, and on   *)
(* what the thread that starts a record holds on to.                       *)
(*                                                                         *)
(* The simulation, for any objects, callers, commands and engines: a scene *)
(* that is written stands and what is restored was published, a caller is  *)
(* told what became of its command, and a demonstration is one whole run.  *)
(***************************************************************************)
EXTENDS AgentBroker, Simulation, FiniteSetTheorems, SequenceTheorems, WellFoundedInduction, TLAPS

-----------------------------------------------------------------------------
(* The broker: the invariant.                                                *)

Announced(r) == r.mail + r.seen = IF r.state \in Ended THEN 1 ELSE 0

Posted(r) == \A m \in Msgs : /\ r.log[m] = "delivered" <=> m \in r.got
                             /\ r.log[m] = "queued" => r.state \notin Ended

\* A running record has a worker, whose row names it as long as it lives.
Placed(r) ==
  /\ r.state = None => r = NoRecord
  /\ r.state \in Ended \cup {"dropped"} => r.lease = None /\ r.worker \in {None, "gone"}
  /\ r.state = "running" => r.worker # None /\ (r.worker = "gone" \/ r.lease = "worker")

Sound(r) == r \in Record /\ Announced(r) /\ Posted(r) /\ Placed(r)

Records == rec \in [Agents -> Record] /\ \A a \in Agents : Sound(rec[a])

\* The row of a record counts: the terminal it names, or the worker, lives.
Row(r) == \/ r.lease = "terminal" /\ up # "dead"
          \/ r.lease = "worker" /\ r.worker \notin {None, "gone"}

Rows == {a \in Agents : Current(a)}
Reserved == others \in 0..Ceiling /\ Cardinality(Rows) + others <= Ceiling

\* Records are numbered in the order of their creation.
Numbered == \E k \in 0..MaxRecords : Used = 1..k

\* A record being started is queued and has a row that names the terminal.
Starting(r) == r.state = "queued" /\ r.lease = "terminal"

AtRecord == [op: {"idle", "serve", "queue", "polled", "launch", "bind"},
             n: 0..(MaxRecords + 1), left: 0..Batch, for: {None, "poll", "inbox", "spawn", "new"}]

Working ==
  /\ up \in {"open", "closed", "dead"} /\ at \in AtRecord
  /\ at.op # "idle" => up # "dead"
  /\ at.op \in {"serve", "queue", "launch", "bind"} => at.n # 0
  /\ at.for = "spawn" => Used # Agents
  /\ at.op \in {"launch", "bind"} => at.n \in Agents /\ Starting(rec[at.n])
  /\ at.op = "bind" => rec[at.n].worker # None

Data == Records /\ Reserved /\ Numbered
BrokerInv == Data /\ Working

-----------------------------------------------------------------------------
(* What the operations do to one record.                                     *)

LEMMA Limits == /\ MaxRecords \in Nat /\ Ceiling \in Nat /\ Batch \in Nat \ {0}
                /\ Agents = 1..MaxRecords
  BY BrokerConstants DEF BrokerConstants, Agents

LEMMA NoRecordSound == /\ Sound(NoRecord) /\ ~Row(NoRecord) /\ NoRecord.state = None
                       /\ NoRecord.worker = None /\ NoRecord.mail = 0 /\ NoRecord.seen = 0
  <1>1. NoRecord \in Record
    BY DEF NoRecord, Record, None
  <1>2. Announced(NoRecord)
    BY DEF NoRecord, Announced, Ended, None
  <1>3. Posted(NoRecord)
    BY DEF NoRecord, Posted, None
  <1>4. Placed(NoRecord)
    BY DEF NoRecord, Placed, Ended, None
  <1> QED
    BY <1>1, <1>2, <1>3, <1>4 DEF Sound, Row, NoRecord, None

\* A record that is still open can end in any way, and is then announced.
LEMMA FinishedSound ==
  ASSUME NEW r, Sound(r), Open(r), NEW state \in Ended
  PROVE  LET q == Finished(r, state) IN Sound(q) /\ ~Row(q) /\ q.state = state
  <1> DEFINE log == [m \in Msgs |-> IF r.log[m] = "queued" THEN "not_delivered" ELSE r.log[m]]
             child == IF r.worker = None THEN None ELSE "gone"
             q == Finished(r, state)
  <1>1. r \in Record /\ r.mail \in Nat /\ r.seen \in Nat /\ r.log \in [Msgs -> {None, "queued", "delivered", "not_delivered"}]
    BY DEF Sound, Record
  <1>2. q = [r EXCEPT !.state = state, !.worker = child, !.pipe = None, !.lease = None,
                      !.mail = r.mail + 1, !.log = log]
    BY DEF Finished
  <1>3. log \in [Msgs -> {None, "queued", "delivered", "not_delivered"}]
    BY <1>1
  <1>4. child \in {None, "gone"}
    OBVIOUS
  <1>5. \A m \in Msgs : log[m] = IF r.log[m] = "queued" THEN "not_delivered" ELSE r.log[m]
    OBVIOUS
  <1> HIDE DEF q, log, child
  <1>6. /\ q.state = state /\ q.worker = child /\ q.lease = None /\ q.mail = r.mail + 1
        /\ q.seen = r.seen /\ q.got = r.got /\ q.log = log
    BY <1>1, <1>2 DEF Record
  <1>7. q \in Record
    <2>1. r.mail + 1 \in Nat
      BY <1>1
    <2>2. state \in {None, "dropped", "queued", "running"} \cup Ended
      OBVIOUS
    <2>3. None \in {None} \cup Requests \cup Answers /\ None \in {None, "terminal", "worker"}
          /\ child \in {None, "working", "asking", "gone"}
      BY <1>4
    <2> QED
      BY <1>1, <1>2, <1>3, <2>1, <2>2, <2>3 DEF Record
  <1>8. r.mail + r.seen = 0
    BY DEF Sound, Announced, Open, Ended
  <1>9. Announced(q)
    BY <1>1, <1>6, <1>8 DEF Announced
  <1>10. Posted(q)
    BY <1>5, <1>6 DEF Posted, Sound
  <1>11. Placed(q) /\ ~Row(q)
    BY <1>4, <1>6 DEF Placed, Row, Ended, None
  <1> QED
    BY <1>6, <1>7, <1>9, <1>10, <1>11 DEF Sound, q

LEMMA DroppedSound ==
  ASSUME NEW r
  PROVE  LET q == Dropped(r) IN Sound(q) /\ ~Row(q) /\ q.state = "dropped"
  <1> DEFINE child == IF r.worker = None THEN None ELSE "gone"
             q == [NoRecord EXCEPT !.state = "dropped", !.worker = child]
  <1>1. child \in {None, "gone"}
    OBVIOUS
  <1>2. Dropped(r) = q
    BY DEF Dropped
  <1> HIDE DEF child
  <1>3. NoRecord \in Record
    BY NoRecordSound DEF Sound
  <1>4. q \in Record
    BY <1>1, <1>3 DEF Record, None
  <1>5. /\ q.state = "dropped" /\ q.worker = child /\ q.lease = None /\ q.mail = 0 /\ q.seen = 0
        /\ q.log = NoRecord.log /\ q.got = NoRecord.got
    BY DEF NoRecord
  <1> HIDE DEF q
  <1>6. Announced(q) /\ Placed(q) /\ ~Row(q)
    BY <1>1, <1>5 DEF Announced, Placed, Row, Ended, None
  <1>7. Posted(q)
    BY <1>5, NoRecordSound DEF Posted, Sound, Ended, None
  <1> QED
    BY <1>2, <1>4, <1>5, <1>6, <1>7 DEF Sound

\* A change that leaves the mail and the announcements of a record alone.
LEMMA SameMail ==
  ASSUME NEW r, Sound(r), NEW q \in Record,
         q.mail = r.mail, q.seen = r.seen, q.log = r.log, q.got = r.got,
         q.state = r.state \/ (q.state \notin Ended /\ r.state \notin Ended),
         Placed(q)
  PROVE  Sound(q)
  BY DEF Sound, Announced, Posted

LEMMA BoundSound ==
  ASSUME NEW r, Sound(r), Starting(r), r.worker # None
  PROVE  LET q == Bound(r) IN
           Sound(q) /\ q.state = "running" /\ (Row(q) => r.worker \notin {None, "gone"})
  <1> DEFINE lease == IF r.worker = "gone" THEN None ELSE "worker"
             q == [r EXCEPT !.state = "running", !.lease = lease]
  <1>1. lease \in {None, "worker"} /\ Bound(r) = q /\ r \in Record
        /\ (lease = None <=> r.worker = "gone")
    BY DEF Bound, Sound, None
  <1> HIDE DEF lease
  <1>2. q \in Record
    BY <1>1 DEF Record, None
  <1>3. /\ q.state = "running" /\ q.lease = lease /\ q.worker = r.worker /\ q.mail = r.mail
        /\ q.seen = r.seen /\ q.log = r.log /\ q.got = r.got
    BY <1>1 DEF Record
  <1> HIDE DEF q
  <1>4. Placed(q)
    BY <1>1, <1>3 DEF Placed, Ended, None
  <1>5. Sound(q)
    BY <1>2, <1>3, <1>4, SameMail DEF Starting, Ended
  <1> QED
    BY <1>1, <1>3, <1>5 DEF Row, None

\* The row of a process that is gone is deleted; another record has it still.
LEMMA SweptSound ==
  ASSUME NEW r, Sound(r), ~Row(r)
  PROVE  LET q == [r EXCEPT !.lease = None] IN
           Sound(q) /\ ~Row(q) /\ q.state = r.state /\ q.worker = r.worker
  <1> DEFINE q == [r EXCEPT !.lease = None]
  <1>1. r \in Record /\ q \in Record
    BY DEF Sound, Record
  <1>2. /\ q.state = r.state /\ q.lease = None /\ q.worker = r.worker /\ q.mail = r.mail
        /\ q.seen = r.seen /\ q.log = r.log /\ q.got = r.got
    BY <1>1 DEF Record
  <1>3. r.state = None => q = NoRecord
    <2>1. NoRecord.lease = None /\ NoRecord \in Record
      BY NoRecordSound DEF NoRecord, Sound
    <2>2. [NoRecord EXCEPT !.lease = None] = NoRecord
      BY <2>1 DEF Record
    <2> QED
      BY <2>2 DEF Sound, Placed
  <1> HIDE DEF q
  <1>4. Placed(q)
    BY <1>2, <1>3 DEF Sound, Placed, Row, None
  <1>5. Sound(q)
    BY <1>1, <1>2, <1>4, SameMail
  <1> QED
    BY <1>2, <1>5 DEF Row, None, q

\* A message is entered in the log of a record that is open.
LEMMA SentSound ==
  ASSUME NEW r, Sound(r), Open(r), NEW m \in Msgs, r.log[m] = None
  PROVE  LET q == [r EXCEPT !.log = [r.log EXCEPT ![m] = "queued"]] IN
           /\ Sound(q) /\ q.state = r.state /\ q.lease = r.lease /\ q.worker = r.worker
           /\ (Row(q) <=> Row(r))
  <1> DEFINE log == [r.log EXCEPT ![m] = "queued"]
             q == [r EXCEPT !.log = log]
  <1>1. r \in Record /\ r.log \in [Msgs -> {None, "queued", "delivered", "not_delivered"}]
    BY DEF Sound, Record
  <1>2. /\ log \in [Msgs -> {None, "queued", "delivered", "not_delivered"}]
        /\ \A k \in Msgs : log[k] = IF k = m THEN "queued" ELSE r.log[k]
    BY <1>1
  <1> HIDE DEF log
  <1>3. q \in Record
    BY <1>1, <1>2 DEF Record
  <1>4. /\ q.state = r.state /\ q.lease = r.lease /\ q.worker = r.worker /\ q.mail = r.mail
        /\ q.seen = r.seen /\ q.log = log /\ q.got = r.got
    BY <1>1 DEF Record
  <1> HIDE DEF q
  <1>5. r.state \notin Ended /\ r.state # None
    BY DEF Open, Ended, None
  <1>6. Announced(q)
    BY <1>4 DEF Announced, Sound
  <1>7. Posted(q)
    BY <1>2, <1>4, <1>5 DEF Posted, Sound, None
  <1>8. Placed(q)
    BY <1>4, <1>5 DEF Placed, Sound
  <1> QED
    BY <1>3, <1>4, <1>6, <1>7, <1>8 DEF Sound, Row, q, log

\* The reply to a worker that asked, with or without the mail.
LEMMA RepliedSound ==
  ASSUME NEW r, Sound(r), r.worker = "asking"
  PROVE  LET q == Replied(r) IN
           Sound(q) /\ q.state = r.state /\ q.lease = r.lease /\ q.worker = "working"
           /\ q.log = r.log
  <1> DEFINE q == [r EXCEPT !.worker = "working", !.pipe = None]
  <1>1. r \in Record /\ q \in Record /\ Replied(r) = q
    BY DEF Sound, Record, Replied
  <1>2. /\ q.state = r.state /\ q.lease = r.lease /\ q.worker = "working" /\ q.mail = r.mail
        /\ q.seen = r.seen /\ q.log = r.log /\ q.got = r.got
    BY <1>1 DEF Record
  <1> HIDE DEF q
  <1>3. r.state # None
    BY NoRecordSound DEF Sound, Placed, None
  <1>4. Placed(q)
    BY <1>2, <1>3 DEF Placed, Sound, None
  <1> QED
    BY <1>1, <1>2, <1>4, SameMail

LEMMA DeliveredSound ==
  ASSUME NEW r, Sound(r), r.worker = "asking"
  PROVE  LET q == Delivered(r) IN
           Sound(q) /\ q.state = r.state /\ q.lease = r.lease /\ q.worker = "working"
  <1> DEFINE p == Replied(r)
             got == p.got \cup {m \in Msgs : r.log[m] = "queued"}
             log == [m \in Msgs |-> IF r.log[m] = "queued" THEN "delivered" ELSE r.log[m]]
             q == [p EXCEPT !.got = got, !.log = log]
  <1>1. /\ Sound(p) /\ p.state = r.state /\ p.lease = r.lease /\ p.worker = "working"
        /\ p.log = r.log
    BY RepliedSound
  <1> HIDE DEF p
  <1>2. p \in Record /\ p.log \in [Msgs -> {None, "queued", "delivered", "not_delivered"}]
        /\ p.got \in SUBSET Msgs
    BY <1>1 DEF Sound, Record
  <1>3. /\ log \in [Msgs -> {None, "queued", "delivered", "not_delivered"}]
        /\ got \in SUBSET Msgs
        /\ \A m \in Msgs : log[m] = IF p.log[m] = "queued" THEN "delivered" ELSE p.log[m]
        /\ \A m \in Msgs : m \in got <=> (m \in p.got \/ p.log[m] = "queued")
    <2>1. \A m \in Msgs : log[m] = IF p.log[m] = "queued" THEN "delivered" ELSE p.log[m]
      BY <1>1
    <2>2. log \in [Msgs -> {None, "queued", "delivered", "not_delivered"}]
      BY <1>1, <1>2
    <2>3. got \in SUBSET Msgs
      BY <1>2
    <2>4. \A m \in Msgs : m \in got <=> (m \in p.got \/ p.log[m] = "queued")
      BY <1>1
    <2> HIDE DEF got, log
    <2> QED
      BY <2>1, <2>2, <2>3, <2>4
  <1> HIDE DEF got, log
  <1>4. q \in Record
    BY <1>2, <1>3 DEF Record
  <1>5. /\ q.state = p.state /\ q.lease = p.lease /\ q.worker = p.worker /\ q.mail = p.mail
        /\ q.seen = p.seen /\ q.log = log /\ q.got = got
    BY <1>2 DEF Record
  <1> HIDE DEF q
  <1>6. Announced(q)
    BY <1>1, <1>5 DEF Announced, Sound
  <1>7. Posted(q)
    <2> SUFFICES ASSUME NEW m \in Msgs
                 PROVE  log[m] # "queued" /\ (log[m] = "delivered" <=> m \in got)
      BY <1>5 DEF Posted
    <2>1. p.log[m] = "delivered" <=> m \in p.got
      BY <1>1 DEF Posted, Sound
    <2>2. log[m] = IF p.log[m] = "queued" THEN "delivered" ELSE p.log[m]
      BY <1>3
    <2>3. m \in got <=> (m \in p.got \/ p.log[m] = "queued")
      BY <1>3
    <2>4. CASE p.log[m] = "queued"
      BY <2>2, <2>3, <2>4
    <2>5. CASE p.log[m] # "queued"
      BY <2>1, <2>2, <2>3, <2>5
    <2> QED
      BY <2>4, <2>5
  <1>8. Placed(q)
    <2>1. p.state # None
      BY <1>1, NoRecordSound DEF Sound, Placed, None
    <2> QED
      BY <1>1, <1>5, <2>1 DEF Placed, Sound
  <1>9. Sound(q)
    BY <1>4, <1>6, <1>7, <1>8 DEF Sound
  <1> QED
    BY <1>1, <1>5, <1>9 DEF q, got, log, p, Delivered

\* The worker of a record asks, answers or dies.
LEMMA WorkerSound ==
  ASSUME NEW r, Sound(r), r.worker \in {"working", "asking"}, NEW q \in Record,
         q.mail = r.mail, q.seen = r.seen, q.log = r.log, q.got = r.got,
         q.state = r.state, q.lease = r.lease, q.worker \in {"asking", "gone"}
  PROVE  Sound(q) /\ (Row(q) => Row(r))
  <1>1. r.state # None /\ r.state \notin Ended \cup {"dropped"}
    BY NoRecordSound DEF Sound, Placed, None
  <1>2. Placed(q)
    BY <1>1 DEF Placed, Sound, None
  <1>3. Sound(q)
    BY <1>2, SameMail
  <1> QED
    BY <1>3 DEF Row, None
-----------------------------------------------------------------------------
(* What a step does to the records together and to the thread.               *)

LEMMA RowIsCurrent == \A a \in Agents : Current(a) <=> Row(rec[a])
  BY DEF Current, Row

LEMMA RowsFinite == IsFiniteSet(Rows) /\ Cardinality(Rows) \in Nat
  <1>1. IsFiniteSet(Agents)
    BY Limits, FS_Interval
  <1>2. IsFiniteSet(Rows)
    BY <1>1, FS_Subset DEF Rows
  <1> QED
    BY <1>2, FS_CardinalityType

\* No row comes to name a living process that did not.
LEMMA FewerRows ==
  ASSUME Reserved, others' \in Nat, others' <= others,
         \A a \in Agents : Current(a)' => Current(a)
  PROVE  Reserved'
  <1>1. Rows' \subseteq Rows
    BY DEF Rows
  <1>2. Cardinality(Rows') <= Cardinality(Rows) /\ Cardinality(Rows') \in Nat
    BY <1>1, RowsFinite, FS_Subset, FS_CardinalityType
  <1>3. Cardinality(Rows)' = Cardinality(Rows')
    OBVIOUS
  <1> QED
    BY <1>2, <1>3, RowsFinite, Limits DEF Reserved

\* One row, or one of another terminal, is entered where there was room.
LEMMA OneMoreRow ==
  ASSUME Reserved, Room, others' = others, NEW a \in Agents,
         \A b \in Agents : b # a /\ Current(b)' => Current(b)
  PROVE  Reserved'
  <1>1. Rows' \subseteq Rows \cup {a}
    BY DEF Rows
  <1>2. IsFiniteSet(Rows \cup {a}) /\ Cardinality(Rows \cup {a}) \in Nat
        /\ Cardinality(Rows \cup {a}) <= Cardinality(Rows) + 1
    BY RowsFinite, FS_AddElement, FS_CardinalityType
  <1>3. Cardinality(Rows') <= Cardinality(Rows \cup {a}) /\ Cardinality(Rows') \in Nat
    BY <1>1, <1>2, FS_Subset, FS_CardinalityType
  <1>4. Cardinality(Rows) + others < Ceiling
    BY DEF Room, Rows
  <1> QED
    BY <1>2, <1>3, <1>4, RowsFinite, Limits DEF Reserved

\* No record is created.
LEMMA RecordsMove ==
  ASSUME Data, others' \in Nat, others' <= others, rec' \in [Agents -> Record],
         \A a \in Agents : /\ Sound(rec'[a])
                           /\ rec'[a].state = None <=> rec[a].state = None
                           /\ Current(a)' => Current(a)
  PROVE  Data' /\ Used' = Used
  <1>1. Used' = Used
    BY DEF Used
  <1>2. Records' /\ Numbered'
    BY <1>1 DEF Data, Records, Numbered
  <1>3. Reserved'
    BY FewerRows DEF Data
  <1> QED
    BY <1>1, <1>2, <1>3 DEF Data

LEMMA OneRecord ==
  ASSUME Data, UNCHANGED <<up, others>>, NEW a \in Agents, NEW q,
         rec' = [rec EXCEPT ![a] = q], Sound(q), q.state # None, rec[a].state # None,
         Row(q) => Row(rec[a])
  PROVE  Data' /\ Used' = Used
  <1>1. rec' \in [Agents -> Record]
    BY DEF Data, Records, Sound
  <1>2. others' \in Nat /\ others' <= others
    BY Limits DEF Data, Reserved
  <1>3. \A b \in Agents : rec'[b] = IF b = a THEN q ELSE rec[b]
    BY DEF Data, Records
  <1>4. \A b \in Agents : Row(rec'[b]) => Row(rec[b])
    BY <1>3
  <1>5. \A b \in Agents : Current(b)' => Current(b)
    BY <1>4 DEF Current, Row
  <1>6. \A b \in Agents : Sound(rec'[b]) /\ (rec'[b].state = None <=> rec[b].state = None)
    BY <1>3 DEF Data, Records
  <1> QED
    BY <1>1, <1>2, <1>5, <1>6, RecordsMove

LEMMA WorkingKept ==
  ASSUME Working, UNCHANGED <<at, up>>, Used' = Used,
         at.op \in {"launch", "bind"} =>
           /\ Starting(rec'[at.n])
           /\ rec[at.n].worker # None => rec'[at.n].worker # None
  PROVE  Working'
  BY DEF Working, Starting

LEMMA WorkingMoves ==
  ASSUME Working, UNCHANGED up, up # "dead", Used' = Used,
         NEW op \in {"serve", "queue", "polled"}, NEW n \in 0..(MaxRecords + 1),
         Goto(op, n), op # "polled" => n # 0
  PROVE  Working'
  <1>1. at' = [at EXCEPT !.op = op, !.n = n, !.left = Batch] /\ at \in AtRecord
    BY DEF Goto, Working
  <1>2. Batch \in 0..Batch
    BY Limits
  <1>3. at' \in AtRecord /\ at'.op = op /\ at'.n = n /\ at'.for = at.for
    BY <1>1, <1>2 DEF AtRecord
  <1> QED
    BY <1>3 DEF Working

LEMMA WorkingReturns ==
  ASSUME Return, up' \in {"open", "closed", "dead"}
  PROVE  Working'
  <1>1. Idle \in AtRecord /\ Idle.op = "idle" /\ Idle.for = None
    BY Limits DEF Idle, AtRecord, None
  <1> QED
    BY <1>1 DEF Return, Working, None

LEMMA WorkingReplies ==
  ASSUME Working, Served, at' = [at EXCEPT !.left = @ - 1], Used' = Used
  PROVE  Working'
  <1>1. at \in AtRecord /\ at.op = "serve" /\ at.left - 1 \in 0..Batch /\ UNCHANGED up
    BY Limits DEF Working, Served, Serving, AtRecord
  <1>2. at' \in AtRecord /\ at'.op = "serve" /\ at'.n = at.n /\ at'.for = at.for
    BY <1>1 DEF AtRecord
  <1> QED
    BY <1>1, <1>2 DEF Working

\* The pass of poll looks at a record that may exist.
LEMMA ServesRecord ==
  ASSUME BrokerInv, Serving
  PROVE  /\ at.n \in Agents /\ at.n + 1 \in 0..(MaxRecords + 1) /\ at.n + 1 # 0
         /\ at.op = "serve" /\ up # "dead" /\ UNCHANGED <<up, others>> /\ Sound(rec[at.n])
  BY Limits DEF BrokerInv, Data, Records, Working, Serving, AtRecord

\* The sweep deletes the rows of processes that are gone, and only those.
LEMMA SweptRecords ==
  ASSUME Data
  PROVE  /\ Swept \in [Agents -> Record]
         /\ \A a \in Agents : /\ Sound(Swept[a]) /\ Swept[a].state = rec[a].state
                              /\ Swept[a].worker = rec[a].worker
                              /\ Row(Swept[a]) <=> Row(rec[a])
                              /\ Row(rec[a]) => Swept[a] = rec[a]
  <1>1. \A a \in Agents : Swept[a] = IF Row(rec[a]) THEN rec[a] ELSE [rec[a] EXCEPT !.lease = None]
    BY RowIsCurrent DEF Swept
  <1>2. ASSUME NEW a \in Agents
        PROVE  /\ Sound(Swept[a]) /\ Swept[a].state = rec[a].state
               /\ Swept[a].worker = rec[a].worker
               /\ Row(Swept[a]) <=> Row(rec[a])
               /\ Row(rec[a]) => Swept[a] = rec[a]
    BY <1>1, SweptSound DEF Data, Records
  <1>3. Swept = [a \in Agents |-> Swept[a]]
    BY DEF Swept
  <1>4. Swept \in [Agents -> Record]
    BY <1>2, <1>3 DEF Sound
  <1> QED
    BY <1>2, <1>4

LEMMA SweepKeeps ==
  ASSUME Data, rec' = Swept, UNCHANGED up, others' \in Nat, others' <= others
  PROVE  Data' /\ Used' = Used
  <1>1. \A a \in Agents : /\ Sound(rec'[a]) /\ rec'[a].state = rec[a].state
                          /\ Row(rec'[a]) <=> Row(rec[a])
    BY SweptRecords
  <1>2. \A a \in Agents : Current(a)' => Current(a)
    BY <1>1 DEF Current, Row
  <1> QED
    BY <1>1, <1>2, SweptRecords, RecordsMove

LEMMA SameData ==
  ASSUME Data, UNCHANGED <<rec, up, others>>
  PROVE  Data' /\ Used' = Used
  <1>1. Used' = Used /\ Rows' = Rows
    BY DEF Used, Rows, Current
  <1> QED
    BY <1>1 DEF Data, Records, Reserved, Numbered
-----------------------------------------------------------------------------
(* The callers.                                                              *)

LEMMA CallKeeps == ASSUME BrokerInv, Call PROVE BrokerInv'
  <1>1. PICK for \in {"poll", "inbox", "spawn"} :
          (for = "spawn" => Used # Agents) /\ at' = Polling(for)
    BY DEF Call
  <1>2. up # "dead" /\ UNCHANGED <<rec, up, others>>
    BY DEF Call
  <1>3. Data' /\ Used' = Used
    BY <1>2, SameData DEF BrokerInv
  <1>4. /\ at' \in AtRecord /\ at'.op = "serve" /\ at'.n = 1 /\ at'.for = for
    BY <1>1, Limits DEF Polling, AtRecord
  <1>5. Working'
    BY <1>1, <1>2, <1>3, <1>4 DEF Working, BrokerInv
  <1> QED
    BY <1>3, <1>5 DEF BrokerInv

LEMMA MasterSendsKeeps == ASSUME BrokerInv, MasterSends PROVE BrokerInv'
  <1>1. PICK a \in Used, m \in Msgs : Send(a, m)
    BY DEF MasterSends
  <1>2. at.op = "idle" /\ UNCHANGED <<at, up, others>>
    BY DEF MasterSends
  <1> DEFINE q == [rec[a] EXCEPT !.log = [rec[a].log EXCEPT ![m] = "queued"]]
  <1>3. a \in Agents /\ rec[a].state # None /\ Sound(rec[a])
    BY DEF Used, BrokerInv, Data, Records
  <1>4. Open(rec[a]) /\ rec[a].log[m] = None /\ rec' = [rec EXCEPT ![a] = q]
    BY <1>1 DEF Send
  <1>5. Sound(q) /\ q.state = rec[a].state /\ (Row(q) => Row(rec[a]))
    BY <1>3, <1>4, SentSound
  <1> HIDE DEF q
  <1>6. Data' /\ Used' = Used
    BY <1>2, <1>3, <1>4, <1>5, OneRecord DEF BrokerInv
  <1>7. Working'
    BY <1>2, <1>6, WorkingKept DEF BrokerInv
  <1> QED
    BY <1>6, <1>7 DEF BrokerInv

LEMMA CancelKeeps == ASSUME BrokerInv, Cancel PROVE BrokerInv'
  <1>1. PICK a \in Used : Open(rec[a]) /\ rec' = [rec EXCEPT ![a] = Finished(@, "cancelled")]
    BY DEF Cancel
  <1>2. at.op = "idle" /\ UNCHANGED <<at, up, others>>
    BY DEF Cancel
  <1> DEFINE q == Finished(rec[a], "cancelled")
  <1>3. a \in Agents /\ rec[a].state # None /\ Sound(rec[a])
    BY DEF Used, BrokerInv, Data, Records
  <1>4. Sound(q) /\ ~Row(q) /\ q.state = "cancelled"
    BY <1>1, <1>3, FinishedSound DEF Ended
  <1>5. rec' = [rec EXCEPT ![a] = q] /\ q.state # None
    BY <1>1, <1>4 DEF None
  <1> HIDE DEF q
  <1>6. Data' /\ Used' = Used
    BY <1>2, <1>3, <1>4, <1>5, OneRecord DEF BrokerInv
  <1>7. Working'
    BY <1>2, <1>6, WorkingKept DEF BrokerInv
  <1> QED
    BY <1>6, <1>7 DEF BrokerInv

LEMMA CloseKeeps == ASSUME BrokerInv, Close PROVE BrokerInv'
  <1>1. /\ at.op = "idle" /\ up = "open" /\ up' = "closed" /\ UNCHANGED <<at, others>>
        /\ rec' = [a \in Agents |-> IF Open(rec[a]) THEN Finished(rec[a], "cancelled") ELSE rec[a]]
    BY DEF Close
  <1>2. ASSUME NEW a \in Agents
        PROVE  /\ Sound(rec'[a]) /\ (rec'[a].state = None <=> rec[a].state = None)
               /\ Row(rec'[a]) => Row(rec[a])
    <2>1. Sound(rec[a])
      BY DEF BrokerInv, Data, Records
    <2>2. CASE Open(rec[a])
      <3> DEFINE q == Finished(rec[a], "cancelled")
      <3>1. Sound(q) /\ ~Row(q) /\ q.state = "cancelled"
        BY <2>1, <2>2, FinishedSound DEF Ended
      <3>2. rec'[a] = q
        BY <1>1, <2>2
      <3> HIDE DEF q
      <3> QED
        BY <2>2, <3>1, <3>2 DEF Open, None
    <2>3. CASE ~Open(rec[a])
      BY <1>1, <2>1, <2>3
    <2> QED
      BY <2>2, <2>3
  <1>3. rec' \in [Agents -> Record]
    <2>1. rec' = [a \in Agents |-> rec'[a]]
      BY <1>1
    <2> QED
      BY <1>2, <2>1 DEF Sound
  <1>4. \A a \in Agents : Current(a)' => Current(a)
    BY <1>1, <1>2 DEF Current, Row
  <1>5. others' \in Nat /\ others' <= others
    BY <1>1, Limits DEF BrokerInv, Data, Reserved
  <1>6. Data' /\ Used' = Used
    BY <1>2, <1>3, <1>4, <1>5, RecordsMove DEF BrokerInv
  <1>7. Working'
    BY <1>1, <1>6 DEF BrokerInv, Working
  <1> QED
    BY <1>6, <1>7 DEF BrokerInv

\* The rows that named the killed terminal count no more.
LEMMA KilledKeeps == ASSUME BrokerInv, Killed PROVE BrokerInv'
  <1>1. up' = "dead" /\ Return /\ UNCHANGED <<rec, others>>
    BY DEF Killed
  <1>2. \A a \in Agents : Current(a)' => Current(a)
    BY <1>1 DEF Current, Killed
  <1>3. others' \in Nat /\ others' <= others
    BY <1>1, Limits DEF BrokerInv, Data, Reserved
  <1>4. Data'
    BY <1>1, <1>2, <1>3, RecordsMove DEF BrokerInv, Data, Records
  <1> QED
    BY <1>1, <1>4, WorkingReturns DEF BrokerInv

LEMMA OtherTerminalsKeep == ASSUME BrokerInv, OtherTerminals PROVE BrokerInv'
  <1>1. UNCHANGED <<at, up>>
    BY DEF OtherTerminals
  <1>2. CASE Room /\ others' = others + 1 /\ rec' = Swept
    <2>1. \A a \in Agents : /\ Sound(rec'[a]) /\ rec'[a].state = rec[a].state
                            /\ rec'[a].worker = rec[a].worker
                            /\ (Row(rec'[a]) <=> Row(rec[a]))
                            /\ (Row(rec[a]) => rec'[a] = rec[a])
      BY <1>2, SweptRecords DEF BrokerInv
    <2>2. Rows' = Rows /\ Used' = Used
      <3>1. \A a \in Agents : Current(a)' <=> Current(a)
        BY <1>1, <2>1 DEF Current, Row
      <3> QED
        BY <2>1, <3>1 DEF Rows, Used
    <2>3. Reserved'
      <3>1. Cardinality(Rows)' = Cardinality(Rows) /\ Cardinality(Rows) + others < Ceiling
        BY <1>2, <2>2 DEF Room, Rows
      <3>2. others \in Nat
        BY Limits DEF BrokerInv, Data, Reserved
      <3> QED
        BY <1>2, <3>1, <3>2, RowsFinite, Limits DEF Reserved
    <2>4. Records' /\ Numbered'
      BY <1>2, <2>1, <2>2, SweptRecords DEF BrokerInv, Data, Records, Numbered
    <2>5. Working'
      <3>1. at.op \in {"launch", "bind"} => rec'[at.n] = rec[at.n]
        BY <2>1 DEF BrokerInv, Working, Starting, Row
      <3>2. at.op \in {"launch", "bind"} => Starting(rec[at.n])
        BY DEF BrokerInv, Working
      <3> QED
        BY <1>1, <2>2, <3>1, <3>2, WorkingKept DEF BrokerInv
    <2> QED
      BY <2>3, <2>4, <2>5 DEF BrokerInv, Data
  <1>3. CASE others > 0 /\ others' = others - 1 /\ UNCHANGED rec
    <2>1. others' \in Nat /\ others' <= others
      BY <1>3, Limits DEF BrokerInv, Data, Reserved
    <2>2. \A a \in Agents : Current(a)' => Current(a)
      BY <1>1, <1>3 DEF Current
    <2>3. Data' /\ Used' = Used
      BY <1>3, <2>1, <2>2, RecordsMove DEF BrokerInv, Data, Records
    <2>4. Working'
      BY <1>1, <1>3, <2>3 DEF BrokerInv, Working
    <2> QED
      BY <2>3, <2>4 DEF BrokerInv
  <1> QED
    BY <1>2, <1>3 DEF OtherTerminals

-----------------------------------------------------------------------------
(* The workers.                                                              *)

LEMMA WorkerKeeps ==
  ASSUME BrokerInv, NEW a \in Agents, WorkerAsks(a) \/ WorkerEnds(a)
  PROVE  BrokerInv'
  <1>1. PICK child \in {"asking", "gone"}, pipe \in {None} \cup Requests \cup Answers :
          rec' = [rec EXCEPT ![a] = [rec[a] EXCEPT !.worker = child, !.pipe = pipe]]
    <2>1. rec[a] \in Record
      BY DEF BrokerInv, Data, Records
    <2>2. CASE \E p \in Requests : rec' = [rec EXCEPT ![a].worker = "asking", ![a].pipe = p]
      BY <2>2
    <2>3. CASE \E p \in Answers : rec' = [rec EXCEPT ![a].worker = "gone", ![a].pipe = p]
      BY <2>3
    <2>4. CASE rec' = [rec EXCEPT ![a].worker = "gone"]
      <3> DEFINE p == rec[a].pipe
      <3>1. [rec[a] EXCEPT !.worker = "gone"] = [rec[a] EXCEPT !.worker = "gone", !.pipe = p]
        BY <2>1 DEF Record
      <3>2. p \in {None} \cup Requests \cup Answers
        BY <2>1 DEF Record
      <3> QED
        BY <2>4, <3>1, <3>2
    <2> QED
      BY <2>2, <2>3, <2>4 DEF WorkerAsks, WorkerEnds
  <1>2. rec[a].worker \in {"working", "asking"} /\ UNCHANGED <<at, up, others>>
    BY DEF WorkerAsks, WorkerEnds
  <1> DEFINE q == [rec[a] EXCEPT !.worker = child, !.pipe = pipe]
  <1>3. Sound(rec[a]) /\ rec[a].state # None
    <2>1. Sound(rec[a])
      BY DEF BrokerInv, Data, Records
    <2> QED
      BY <1>2, <2>1, NoRecordSound DEF Sound, Placed, None
  <1>4. /\ Sound(q) /\ q.state = rec[a].state /\ q.lease = rec[a].lease /\ q.worker = child
        /\ (Row(q) => Row(rec[a]))
    <2> DEFINE r == rec[a]
    <2>1. r \in Record /\ Sound(r) /\ r.worker \in {"working", "asking"}
      BY <1>2, <1>3 DEF Sound
    <2>2. /\ q \in Record /\ q.state = r.state /\ q.lease = r.lease /\ q.worker = child
          /\ q.mail = r.mail /\ q.seen = r.seen /\ q.log = r.log /\ q.got = r.got
      BY <1>1, <2>1 DEF Record
    <2> HIDE DEF q, r
    <2>3. Sound(q) /\ (Row(q) => Row(r))
      BY <1>1, <2>1, <2>2, WorkerSound
    <2> QED
      BY <2>2, <2>3 DEF r
  <1> HIDE DEF q
  <1>5. rec' = [rec EXCEPT ![a] = q]
    BY <1>1 DEF q
  <1>6. Data' /\ Used' = Used
    BY <1>2, <1>3, <1>4, <1>5, OneRecord DEF BrokerInv
  <1>7. Working'
    <2>1. \A b \in Agents : rec'[b] = IF b = a THEN q ELSE rec[b]
      BY <1>5 DEF BrokerInv, Data, Records
    <2>2. at.op \in {"launch", "bind"} => at.n \in Agents /\ Starting(rec[at.n])
      BY DEF BrokerInv, Working
    <2> QED
      BY <1>2, <1>4, <1>6, <2>1, <2>2, WorkingKept DEF BrokerInv, Starting, None
  <1> QED
    BY <1>6, <1>7 DEF BrokerInv

LEMMA TimePassesKeeps ==
  ASSUME BrokerInv, NEW a \in Agents, TimePasses(a)
  PROVE  BrokerInv'
  <1> DEFINE r == rec[a]
             q == [r EXCEPT !.late = TRUE]
  <1>1. /\ r.state = "running" /\ UNCHANGED <<at, up, others>>
        /\ rec' = [rec EXCEPT ![a] = q]
    BY DEF TimePasses
  <1>2. Sound(r) /\ r \in Record
    BY DEF BrokerInv, Data, Records, Sound
  <1>3. /\ q \in Record /\ q.state = r.state /\ q.lease = r.lease /\ q.worker = r.worker
        /\ q.mail = r.mail /\ q.seen = r.seen /\ q.log = r.log /\ q.got = r.got
    BY <1>2 DEF Record
  <1> HIDE DEF q
  <1>4. Placed(q)
    BY <1>1, <1>2, <1>3 DEF Placed, Sound, None
  <1>5. Sound(q)
    BY <1>2, <1>3, <1>4, SameMail
  <1>6. Row(q) => Row(r)
    BY <1>3 DEF Row
  <1>7. q.state # None /\ r.state # None
    BY <1>1, <1>3 DEF None
  <1>8. Data' /\ Used' = Used
    BY <1>1, <1>5, <1>6, <1>7, OneRecord DEF BrokerInv
  <1>9. Working'
    <2>1. at.op \in {"launch", "bind"} => at.n \in Agents /\ Starting(rec[at.n]) /\ at.n # a
      BY <1>1 DEF BrokerInv, Working, Starting
    <2>2. at.op \in {"launch", "bind"} => rec'[at.n] = rec[at.n]
      BY <1>1, <2>1 DEF BrokerInv, Data, Records
    <2> QED
      BY <1>1, <1>8, <2>1, <2>2, WorkingKept DEF BrokerInv
  <1> QED
    BY <1>8, <1>9 DEF BrokerInv
-----------------------------------------------------------------------------
(* The pass of poll over the workers.                                        *)

\* A running record ends, and the pass goes on.
LEMMA EndKeeps ==
  ASSUME BrokerInv, Serving, rec[at.n].state = "running", NEW state \in Ended, End(state)
  PROVE  BrokerInv'
  <1> DEFINE a == at.n
             q == Finished(rec[a], state)
  <1>1. /\ a \in Agents /\ a + 1 \in 0..(MaxRecords + 1) /\ a + 1 # 0
        /\ up # "dead" /\ UNCHANGED <<up, others>> /\ Sound(rec[a])
    BY ServesRecord
  <1>2. Sound(q) /\ ~Row(q) /\ q.state = state /\ state # None
    BY <1>1, FinishedSound DEF Open, Ended, None
  <1>3. rec' = [rec EXCEPT ![a] = q] /\ Goto("serve", a + 1)
    BY DEF End, Visited, NextRecord
  <1>4. rec[a].state # None
    BY DEF None
  <1> HIDE DEF q
  <1>5. Data' /\ Used' = Used
    BY <1>1, <1>2, <1>3, <1>4, OneRecord DEF BrokerInv
  <1>6. Working'
    BY <1>1, <1>3, <1>5, WorkingMoves DEF BrokerInv
  <1> QED
    BY <1>5, <1>6 DEF BrokerInv

LEMMA SkipKeeps == ASSUME BrokerInv, Skip PROVE BrokerInv'
  <1>1. Serving /\ UNCHANGED rec /\ Goto("serve", at.n + 1)
    BY DEF Skip, NextRecord
  <1>2. at.n + 1 \in 0..(MaxRecords + 1) /\ at.n + 1 # 0 /\ up # "dead" /\ UNCHANGED <<up, others>>
    BY <1>1, ServesRecord
  <1>3. Data' /\ Used' = Used
    BY <1>1, <1>2, SameData DEF BrokerInv
  <1>4. Working'
    BY <1>1, <1>2, <1>3, WorkingMoves DEF BrokerInv
  <1> QED
    BY <1>3, <1>4 DEF BrokerInv

\* A live worker that asked is answered, and what it is sent stays open.
LEMMA ReplyInboxKeeps == ASSUME BrokerInv, ReplyInbox PROVE BrokerInv'
  <1> DEFINE a == at.n
             q == Delivered(rec[a])
  <1>1. /\ Served /\ Serving /\ rec[a].worker = "asking" /\ rec[a].state = "running"
        /\ rec' = [rec EXCEPT ![a] = q] /\ at' = [at EXCEPT !.left = @ - 1]
    BY DEF ReplyInbox, Served, Visited
  <1>2. a \in Agents /\ UNCHANGED <<up, others>> /\ Sound(rec[a])
    BY <1>1, ServesRecord
  <1>3. Sound(q) /\ q.state = rec[a].state /\ q.lease = rec[a].lease /\ q.worker = "working"
    BY <1>1, <1>2, DeliveredSound
  <1> HIDE DEF q
  <1>4. Row(q) => Row(rec[a])
    BY <1>1, <1>3 DEF Row, None
  <1>5. q.state # None /\ rec[a].state # None
    BY <1>1, <1>3 DEF None
  <1>6. Data' /\ Used' = Used
    BY <1>1, <1>2, <1>3, <1>4, <1>5, OneRecord DEF BrokerInv
  <1>7. Working'
    BY <1>1, <1>6, WorkingReplies DEF BrokerInv
  <1> QED
    BY <1>6, <1>7 DEF BrokerInv

LEMMA ReplyToolKeeps == ASSUME BrokerInv, ReplyTool PROVE BrokerInv'
  <1> DEFINE a == at.n
             q == Replied(rec[a])
             mid == [rec EXCEPT ![a] = q]
  <1>1. /\ Served /\ Serving /\ rec[a].worker = "asking" /\ rec[a].state = "running"
        /\ at' = [at EXCEPT !.left = @ - 1]
    BY DEF ReplyTool, Served, Visited
  <1>2. a \in Agents /\ UNCHANGED <<up, others>> /\ Sound(rec[a])
    BY <1>1, ServesRecord
  <1>3. /\ Sound(q) /\ q.state = rec[a].state /\ q.lease = rec[a].lease
        /\ q.worker = "working" /\ q.log = rec[a].log
    BY <1>1, <1>2, RepliedSound
  <1>4. \/ rec' = mid
        \/ \E n \in Used, m \in Msgs :
             /\ Open(rec[n]) /\ rec[n].log[m] = None
             /\ rec' = [mid EXCEPT ![n].log[m] = "queued"]
    BY DEF ReplyTool, Visited
  <1> HIDE DEF q
  <1>5. /\ mid \in [Agents -> Record]
        /\ \A b \in Agents : mid[b] = IF b = a THEN q ELSE rec[b]
    BY <1>2, <1>3 DEF BrokerInv, Data, Records, Sound
  <1>6. \A b \in Agents : /\ Sound(mid[b]) /\ mid[b].state = rec[b].state
                          /\ mid[b].log = rec[b].log
                          /\ (Row(mid[b]) => Row(rec[b]))
    <2>1. Row(q) => Row(rec[a])
      BY <1>1, <1>3 DEF Row, None
    <2> QED
      BY <1>3, <1>5, <2>1 DEF BrokerInv, Data, Records
  <1> HIDE DEF mid
  <1>7. /\ rec' \in [Agents -> Record]
        /\ \A b \in Agents : /\ Sound(rec'[b]) /\ rec'[b].state = rec[b].state
                             /\ (Row(rec'[b]) => Row(rec[b]))
    <2>1. CASE rec' = mid
      BY <1>5, <1>6, <2>1
    <2>2. ASSUME NEW n \in Used, NEW m \in Msgs, Open(rec[n]), rec[n].log[m] = None,
                 rec' = [mid EXCEPT ![n].log[m] = "queued"]
          PROVE  /\ rec' \in [Agents -> Record]
                 /\ \A b \in Agents : /\ Sound(rec'[b]) /\ rec'[b].state = rec[b].state
                                      /\ (Row(rec'[b]) => Row(rec[b]))
      <3> DEFINE p == [mid[n] EXCEPT !.log = [mid[n].log EXCEPT ![m] = "queued"]]
      <3>1. n \in Agents
        BY DEF Used
      <3>2. Open(mid[n]) /\ mid[n].log[m] = None /\ Sound(mid[n])
        BY <1>6, <2>2, <3>1 DEF Open
      <3>3. Sound(p) /\ p.state = mid[n].state /\ (Row(p) <=> Row(mid[n]))
        BY <3>2, SentSound
      <3>4. rec' = [mid EXCEPT ![n] = p]
        BY <2>2
      <3> HIDE DEF p
      <3>5. \A b \in Agents : rec'[b] = IF b = n THEN p ELSE mid[b]
        BY <1>5, <3>4
      <3>6. rec' \in [Agents -> Record]
        BY <1>5, <3>3, <3>4 DEF Sound
      <3> QED
        BY <1>6, <3>1, <3>3, <3>5, <3>6
    <2> QED
      BY <1>4, <2>1, <2>2
  <1>8. \A b \in Agents : Current(b)' => Current(b)
    BY <1>2, <1>7 DEF Current, Row
  <1>9. others' \in Nat /\ others' <= others
    BY <1>2, Limits DEF BrokerInv, Data, Reserved
  <1>10. Data' /\ Used' = Used
    BY <1>7, <1>8, <1>9, RecordsMove DEF BrokerInv
  <1>11. Working'
    BY <1>1, <1>10, WorkingReplies DEF BrokerInv
  <1> QED
    BY <1>10, <1>11 DEF BrokerInv

LEMMA ServedKeeps == ASSUME BrokerInv, Served1 PROVE BrokerInv'
  <1>1. CASE TimeOut
    BY <1>1, EndKeeps DEF TimeOut, Visited, Ended
  <1>2. CASE Answered \/ Disconnected
    BY <1>2, EndKeeps DEF Answered, Disconnected, Served, Visited, Ended
  <1> QED
    BY <1>1, <1>2, SkipKeeps, ReplyInboxKeeps, ReplyToolKeeps DEF Served1

LEMMA ServedAllKeeps == ASSUME BrokerInv, ServedAll PROVE BrokerInv'
  <1>1. UNCHANGED <<rec, up, others>> /\ up # "dead"
        /\ (Goto("queue", 1) \/ Goto("polled", 0))
    BY DEF ServedAll, BrokerInv, Working
  <1>2. Data' /\ Used' = Used
    BY <1>1, SameData DEF BrokerInv
  <1>3. 1 \in 0..(MaxRecords + 1) /\ 0 \in 0..(MaxRecords + 1)
    BY Limits
  <1>4. Working'
    BY <1>1, <1>2, <1>3, WorkingMoves DEF BrokerInv
  <1> QED
    BY <1>2, <1>4 DEF BrokerInv

-----------------------------------------------------------------------------
(* Starting a record.                                                        *)

LEMMA StartQueuedKeeps == ASSUME BrokerInv, StartQueued PROVE BrokerInv'
  <1> DEFINE a == at.n
  <1>1. at.op = "queue" /\ up # "dead" /\ UNCHANGED <<up, others>> /\ a # 0
        /\ a \in 0..(MaxRecords + 1)
    BY DEF StartQueued, BrokerInv, Working, AtRecord
  <1>2. 0 \in 0..(MaxRecords + 1) /\ (a <= MaxRecords => a + 1 \in 0..(MaxRecords + 1) /\ a + 1 # 0)
    BY <1>1, Limits
  <1>3. ASSUME UNCHANGED rec,
               Goto("polled", 0) \/ (a <= MaxRecords /\ Goto("queue", a + 1))
        PROVE  BrokerInv'
    <2>1. Data' /\ Used' = Used
      BY <1>1, <1>3, SameData DEF BrokerInv
    <2>2. CASE Goto("polled", 0)
      BY <1>1, <1>2, <2>1, <2>2, WorkingMoves DEF BrokerInv
    <2>3. CASE a <= MaxRecords /\ Goto("queue", a + 1)
      BY <1>1, <1>2, <2>1, <2>3, WorkingMoves DEF BrokerInv
    <2> QED
      BY <1>3, <2>1, <2>2, <2>3 DEF BrokerInv
  <1>4. CASE rec' = Swept /\ Goto("polled", 0)
    <2>1. others' \in Nat /\ others' <= others
      BY <1>1, Limits DEF BrokerInv, Data, Reserved
    <2>2. Data' /\ Used' = Used
      BY <1>1, <1>4, <2>1, SweepKeeps DEF BrokerInv
    <2> QED
      BY <1>1, <1>2, <1>4, <2>2, WorkingMoves DEF BrokerInv
  <1>5. CASE a <= MaxRecords /\ rec[a].state = "queued" /\ Admitted(a) /\ Goto("launch", a)
    <2> DEFINE q == [Swept[a] EXCEPT !.lease = "terminal"]
    <2>1. a \in Agents
      BY <1>1, <1>5, Limits
    <2>2. rec' = [Swept EXCEPT ![a] = q] /\ Room
      BY <1>5 DEF Admitted
    <2>3. Sound(Swept[a]) /\ Swept[a].state = "queued"
      BY <1>5, <2>1, SweptRecords DEF BrokerInv
    <2>4. Sound(q) /\ Starting(q)
      <3>1. Swept[a] \in Record
        BY <2>3 DEF Sound
      <3>2. /\ q \in Record /\ q.state = "queued" /\ q.lease = "terminal"
            /\ q.mail = Swept[a].mail /\ q.seen = Swept[a].seen /\ q.log = Swept[a].log
            /\ q.got = Swept[a].got
        BY <2>3, <3>1 DEF Record
      <3> HIDE DEF q
      <3>3. Placed(q)
        BY <3>2 DEF Placed, Ended, None
      <3> QED
        BY <2>3, <3>2, <3>3, SameMail DEF Starting
    <2> HIDE DEF q
    <2>5. /\ rec' \in [Agents -> Record]
          /\ \A b \in Agents : rec'[b] = IF b = a THEN q ELSE Swept[b]
      BY <2>1, <2>2, <2>4, SweptRecords DEF Sound, BrokerInv
    <2>6. \A b \in Agents : Sound(rec'[b]) /\ (rec'[b].state = None <=> rec[b].state = None)
      BY <1>5, <2>4, <2>5, SweptRecords DEF BrokerInv, Starting, None
    <2>7. \A b \in Agents : b # a /\ Current(b)' => Current(b)
      <3>1. \A b \in Agents : b # a /\ Row(rec'[b]) => Row(rec[b])
        BY <2>5, SweptRecords DEF BrokerInv
      <3> QED
        BY <1>1, <3>1 DEF Current, Row
    <2>8. Used' = Used
      BY <2>6 DEF Used
    <2>9. Reserved'
      BY <1>1, <2>1, <2>2, <2>7, OneMoreRow DEF BrokerInv, Data
    <2>10. Data'
      BY <2>5, <2>6, <2>8, <2>9 DEF BrokerInv, Data, Records, Numbered
    <2>11. Working'
      <3>1. /\ at' \in AtRecord /\ at'.op = "launch" /\ at'.n = a /\ at'.for = at.for
        <4>1. at' = [at EXCEPT !.op = "launch", !.n = a, !.left = Batch] /\ at \in AtRecord
          BY <1>5 DEF Goto, BrokerInv, Working
        <4>2. Batch \in 0..Batch
          BY Limits
        <4> QED
          BY <1>1, <4>1, <4>2 DEF AtRecord
      <3>2. Starting(rec'[a])
        BY <2>1, <2>4, <2>5
      <3> QED
        BY <1>1, <2>1, <2>8, <3>1, <3>2 DEF BrokerInv, Working
    <2> QED
      BY <2>10, <2>11 DEF BrokerInv
  <1>6. \/ UNCHANGED rec /\ Goto("polled", 0)
        \/ UNCHANGED rec /\ a <= MaxRecords /\ Goto("queue", a + 1)
        \/ rec' = Swept /\ Goto("polled", 0)
        \/ a <= MaxRecords /\ rec[a].state = "queued" /\ Admitted(a) /\ Goto("launch", a)
    BY DEF StartQueued, Refused, Visited
  <1> QED
    BY <1>3, <1>4, <1>5, <1>6
\* spawn takes the next number, whose record is blank, before and after the sweep.
LEMMA NextIsFree ==
  ASSUME Data, Used # Agents, NEW a, a = CHOOSE i \in Agents : Used = 1..(i - 1)
  PROVE  /\ a \in Agents /\ Used = 1..(a - 1)
         /\ rec[a] = NoRecord /\ Swept[a] = NoRecord
  <1>1. PICK k \in 0..MaxRecords : Used = 1..k
    BY DEF Data, Numbered
  <1>2. k + 1 \in Agents /\ (k + 1) - 1 = k
    BY <1>1, Limits
  <1>3. \E i \in Agents : Used = 1..(i - 1)
    BY <1>1, <1>2
  <1>4. a \in Agents /\ Used = 1..(a - 1)
    BY <1>3
  <1>5. rec[a].state = None
    BY <1>4, Limits DEF Used
  <1>6. Sound(rec[a]) /\ Sound(Swept[a]) /\ Swept[a].state = None
    BY <1>4, <1>5, SweptRecords DEF Data, Records
  <1>7. rec[a] = NoRecord /\ Swept[a] = NoRecord
    BY <1>5, <1>6 DEF Sound, Placed
  <1> QED
    BY <1>4, <1>7

\* A record is created, in the place that is next.
LEMMA OneCreated ==
  ASSUME Data, UNCHANGED <<up, others>>, NEW a \in Agents, Used = 1..(a - 1),
         NEW table \in {rec, Swept}, NEW q, Sound(q), q.state # None,
         rec' = [table EXCEPT ![a] = q], Row(q) => Room
  PROVE  Data' /\ rec'[a] = q
  <1>1. /\ table \in [Agents -> Record]
        /\ \A b \in Agents : /\ Sound(table[b]) /\ table[b].state = rec[b].state
                             /\ (Row(table[b]) => Row(rec[b]))
    BY SweptRecords DEF Data, Records
  <1>2. \A b \in Agents : rec'[b] = IF b = a THEN q ELSE table[b]
    BY <1>1
  <1>3. rec' \in [Agents -> Record]
    BY <1>1 DEF Sound
  <1>4. Records'
    BY <1>1, <1>2, <1>3 DEF Records
  <1>5. Numbered'
    <2>1. Used' = Used \cup {a}
      BY <1>1, <1>2 DEF Used
    <2>2. 1..(a - 1) \cup {a} = 1..a /\ a \in 0..MaxRecords
      BY Limits
    <2> QED
      BY <2>1, <2>2 DEF Numbered
  <1>6. \A b \in Agents : b # a /\ Current(b)' => Current(b)
    <2>1. \A b \in Agents : b # a /\ Row(rec'[b]) => Row(rec[b])
      BY <1>1, <1>2
    <2> QED
      BY <2>1 DEF Current, Row
  <1>7. Reserved'
    <2>1. CASE Room
      BY <1>6, <2>1, OneMoreRow DEF Data
    <2>2. CASE ~Room
      <3>1. ~Row(q) /\ rec'[a] = q
        BY <1>2, <2>2
      <3>2. ~Current(a)'
        BY <3>1 DEF Current, Row
      <3>3. others' \in Nat /\ others' <= others
        BY Limits DEF Data, Reserved
      <3> QED
        BY <1>6, <3>2, <3>3, FewerRows DEF Data
    <2> QED
      BY <2>1, <2>2
  <1> QED
    BY <1>2, <1>4, <1>5, <1>7 DEF Data

LEMMA CreatedSound ==
  ASSUME NEW state \in {"queued", "dropped"}
  PROVE  LET q == [NoRecord EXCEPT !.state = state] IN
           Sound(q) /\ q.state = state /\ ~Row(q)
  <1> DEFINE q == [NoRecord EXCEPT !.state = state]
  <1>1. NoRecord \in Record
    BY NoRecordSound DEF Sound
  <1>2. q \in Record
    BY <1>1 DEF Record
  <1>3. /\ q.state = state /\ q.lease = None /\ q.worker = None
        /\ q.mail = NoRecord.mail /\ q.seen = NoRecord.seen /\ q.log = NoRecord.log
        /\ q.got = NoRecord.got
    BY <1>1 DEF NoRecord
  <1> HIDE DEF q
  <1>4. Placed(q)
    BY <1>3 DEF Placed, Ended, None
  <1>5. Sound(q)
    BY <1>2, <1>3, <1>4, NoRecordSound, SameMail DEF Ended, None
  <1> QED
    BY <1>3, <1>5 DEF Row, None, q

\* A queued record gets the row that names the terminal.
LEMMA LeasedSound ==
  ASSUME NEW r, Sound(r), r.state = "queued"
  PROVE  LET q == [r EXCEPT !.lease = "terminal"] IN Sound(q) /\ Starting(q)
  <1> DEFINE q == [r EXCEPT !.lease = "terminal"]
  <1>1. r \in Record
    BY DEF Sound
  <1>2. /\ q \in Record /\ q.state = "queued" /\ q.lease = "terminal"
        /\ q.mail = r.mail /\ q.seen = r.seen /\ q.log = r.log /\ q.got = r.got
    BY <1>1 DEF Record
  <1> HIDE DEF q
  <1>3. Placed(q)
    BY <1>2 DEF Placed, Ended, None
  <1>4. Sound(q)
    BY <1>2, <1>3, SameMail
  <1> QED
    BY <1>2, <1>4 DEF Starting, q

\* inbox takes the announcements over: none is lost and none is told twice.
LEMMA SumTyped == ASSUME NEW r \in Record PROVE r.mail + r.seen \in Nat /\ r.seen + r.mail = r.mail + r.seen
  <1>1. r.mail \in Nat /\ r.seen \in Nat
    BY DEF Record
  <1> QED
    BY <1>1

LEMMA TakenSound ==
  ASSUME NEW r, Sound(r), NEW seen \in Nat, seen = r.mail + r.seen
  PROVE  LET q == [r EXCEPT !.seen = seen, !.mail = 0] IN
           Sound(q) /\ q.state = r.state /\ (Row(q) => Row(r))
  <1> DEFINE q == [r EXCEPT !.seen = seen, !.mail = 0]
  <1>1. r \in Record
    BY DEF Sound
  <1>2. seen \in Nat /\ seen = r.mail + r.seen
    OBVIOUS
  <1>3. q = [r EXCEPT !.seen = seen, !.mail = 0]
    OBVIOUS
  <1>5. /\ q \in Record /\ q.state = r.state /\ q.lease = r.lease /\ q.worker = r.worker
        /\ q.mail = 0 /\ q.seen = seen /\ q.log = r.log /\ q.got = r.got
    BY <1>1, <1>2 DEF Record
  <1> HIDE DEF q
  <1>6. r.state = None => q = NoRecord
    <2>1. SUFFICES ASSUME r.state = None PROVE q = NoRecord
      OBVIOUS
    <2>2. r = NoRecord
      BY <2>1 DEF Sound, Placed
    <2>3. seen = 0
      BY <1>2, <2>2, NoRecordSound
    <2> QED
      BY <1>3, <2>2, <2>3 DEF NoRecord
  <1>7. Announced(q)
    BY <1>2, <1>5 DEF Sound, Announced
  <1>8. Posted(q)
    BY <1>5 DEF Sound, Posted
  <1>9. Placed(q)
    BY <1>5, <1>6 DEF Sound, Placed
  <1> QED
    BY <1>5, <1>7, <1>8, <1>9 DEF Sound, Row, q

LEMMA OthersStay == ASSUME Data, UNCHANGED others PROVE others' \in Nat /\ others' <= others
  <1>1. others \in 0..Ceiling /\ others' = others
    BY DEF Data, Reserved
  <1>2. others \in Nat
    BY <1>1, Limits
  <1> QED
    BY <1>1, <1>2

LEMMA InboxKeeps ==
  ASSUME Data, UNCHANGED <<up, others>>,
         rec' = [a \in Agents |-> [rec[a] EXCEPT !.seen = @ + rec[a].mail, !.mail = 0]]
  PROVE  Data' /\ Used' = Used
  <1>1. ASSUME NEW a \in Agents
        PROVE  /\ Sound(rec'[a]) /\ rec'[a].state = rec[a].state
               /\ (Row(rec'[a]) => Row(rec[a]))
    <2>1. Sound(rec[a]) /\ rec[a] \in Record
      BY DEF Data, Records, Sound
    <2>2. PICK seen \in Nat : seen = rec[a].mail + rec[a].seen /\ rec[a].seen + rec[a].mail = seen
      BY <2>1, SumTyped
    <2>3. rec'[a] = [rec[a] EXCEPT !.seen = seen, !.mail = 0]
      BY <2>2
    <2> QED
      BY <2>1, <2>2, <2>3, TakenSound
  <1>2. rec' \in [Agents -> Record]
    <2>1. rec' = [a \in Agents |-> rec'[a]]
      OBVIOUS
    <2>2. \A a \in Agents : rec'[a] \in Record
      BY <1>1 DEF Sound
    <2> HIDE DEF Record
    <2> QED
      BY <2>1, <2>2
  <1>3. \A a \in Agents : Current(a)' => Current(a)
    BY <1>1 DEF Current, Row
  <1>4. others' \in Nat /\ others' <= others
    BY OthersStay
  <1> QED
    BY <1>1, <1>2, <1>3, <1>4, RecordsMove

LEMMA PolledKeeps == ASSUME BrokerInv, Polled PROVE BrokerInv'
  <1>1. /\ at.op = "polled" /\ UNCHANGED <<up, others>> /\ up # "dead"
        /\ up' \in {"open", "closed", "dead"} /\ at \in AtRecord /\ Data
    BY DEF Polled, BrokerInv, Working
  <1>2. CASE Return /\ UNCHANGED rec
    <2>1. Data'
      BY <1>1, <1>2, SameData
    <2> QED
      BY <1>1, <1>2, <2>1, WorkingReturns DEF BrokerInv
  <1>3. CASE Return /\ rec' = [a \in Agents |-> [rec[a] EXCEPT !.seen = @ + rec[a].mail, !.mail = 0]]
    <2>1. Data'
      BY <1>1, <1>3, InboxKeeps
    <2> QED
      BY <1>1, <1>3, <2>1, WorkingReturns DEF BrokerInv
  <1>4. CASE at.for = "spawn"
    <2> DEFINE a == CHOOSE i \in Agents : Used = 1..(i - 1)
    <2>1. /\ a \in Agents /\ Used = 1..(a - 1)
          /\ rec[a] = NoRecord /\ Swept[a] = NoRecord
      BY <1>1, <1>4, NextIsFree DEF BrokerInv, Working
    <2>2. \/ /\ Return
             /\ \E state \in {"queued", "dropped"}, table \in {rec, Swept} :
                  rec' = [table EXCEPT ![a].state = state]
          \/ /\ Room /\ rec' = [[Swept EXCEPT ![a].state = "queued"] EXCEPT ![a].lease = "terminal"]
             /\ at' = [at EXCEPT !.op = "launch", !.n = a, !.for = "new"]
      BY <1>4 DEF Polled
    <2> HIDE DEF a
    <2>3. ASSUME Return, NEW state \in {"queued", "dropped"}, NEW table \in {rec, Swept},
                 rec' = [table EXCEPT ![a].state = state]
          PROVE  BrokerInv'
      <3> DEFINE q == [NoRecord EXCEPT !.state = state]
      <3>1. Sound(q) /\ q.state # None /\ ~Row(q)
        BY CreatedSound DEF None
      <3>2. rec' = [table EXCEPT ![a] = q]
        BY <2>1, <2>3
      <3> HIDE DEF q
      <3>3. Data'
        BY <1>1, <2>1, <3>1, <3>2, OneCreated
      <3> QED
        BY <1>1, <2>3, <3>3, WorkingReturns DEF BrokerInv
    <2>4. CASE /\ Room
               /\ rec' = [[Swept EXCEPT ![a].state = "queued"] EXCEPT ![a].lease = "terminal"]
               /\ at' = [at EXCEPT !.op = "launch", !.n = a, !.for = "new"]
      <3> DEFINE p == [NoRecord EXCEPT !.state = "queued"]
                 q == [p EXCEPT !.lease = "terminal"]
      <3>1. Sound(p) /\ p.state = "queued"
        BY CreatedSound
      <3>2. Sound(q) /\ Starting(q)
        BY <3>1, LeasedSound
      <3>3. rec' = [Swept EXCEPT ![a] = q]
        <4>1. Swept \in [Agents -> Record]
          BY <1>1, SweptRecords
        <4> HIDE DEF Swept
        <4> QED
          BY <2>1, <2>4, <4>1
      <3> HIDE DEF q, p
      <3>4. Data' /\ rec'[a] = q
        BY <1>1, <2>1, <2>4, <3>2, <3>3, OneCreated DEF Starting, None
      <3>5. /\ at' \in AtRecord /\ at'.op = "launch" /\ at'.n = a /\ at'.for = "new"
        <4>1. at' = [at EXCEPT !.op = "launch", !.n = a, !.for = "new"]
          BY <2>4
        <4>2. a \in 0..(MaxRecords + 1)
          BY <2>1, Limits
        <4> QED
          BY <1>1, <4>1, <4>2 DEF AtRecord
      <3>6. a # 0
        BY <2>1, Limits
      <3>7. Working'
        BY <1>1, <2>1, <3>2, <3>4, <3>5, <3>6 DEF Working
      <3> QED
        BY <3>4, <3>7 DEF BrokerInv
    <2> QED
      BY <2>2, <2>3, <2>4
  <1> QED
    BY <1>2, <1>3, <1>4 DEF Polled

\* A start that raised ends the record, or takes it back.
LEMMA StartRaisedKeeps ==
  ASSUME BrokerInv, at.op \in {"launch", "bind"}, UNCHANGED <<up, others>>, StartRaised
  PROVE  BrokerInv'
  <1> DEFINE a == at.n
  <1>1. /\ a \in Agents /\ Sound(rec[a]) /\ rec[a].state = "queued" /\ up # "dead"
        /\ up' \in {"open", "closed", "dead"} /\ Data /\ Working
    BY DEF BrokerInv, Data, Records, Working, Starting
  <1>2. a + 1 \in 0..(MaxRecords + 1) /\ a + 1 # 0
    BY <1>1, Limits
  <1>3. CASE rec' = [rec EXCEPT ![a] = Finished(@, "failed")] /\ Goto("queue", a + 1)
    <2> DEFINE q == Finished(rec[a], "failed")
    <2>1. Sound(q) /\ ~Row(q) /\ q.state = "failed"
      BY <1>1, FinishedSound DEF Open, Ended
    <2>2. rec' = [rec EXCEPT ![a] = q]
      BY <1>3
    <2> HIDE DEF q
    <2>3. Data' /\ Used' = Used
      BY <1>1, <2>1, <2>2, OneRecord DEF None
    <2> QED
      BY <1>1, <1>2, <1>3, <2>3, WorkingMoves DEF BrokerInv
  <1>4. CASE rec' = [rec EXCEPT ![a] = Dropped(@)] /\ Return
    <2> DEFINE q == Dropped(rec[a])
    <2>1. Sound(q) /\ ~Row(q) /\ q.state = "dropped"
      BY DroppedSound
    <2>2. rec' = [rec EXCEPT ![a] = q]
      BY <1>4
    <2> HIDE DEF q
    <2>3. Data' /\ Used' = Used
      BY <1>1, <2>1, <2>2, OneRecord DEF None
    <2> QED
      BY <1>1, <1>4, <2>3, WorkingReturns DEF BrokerInv
  <1> QED
    BY <1>3, <1>4 DEF StartRaised, Visited

LEMMA LaunchKeeps == ASSUME BrokerInv, Launch PROVE BrokerInv'
  <1> DEFINE a == at.n
             q == [rec[a] EXCEPT !.worker = "working"]
  <1>1. at.op = "launch" /\ UNCHANGED <<up, others>>
    BY DEF Launch
  <1>2. CASE StartRaised
    BY <1>1, <1>2, StartRaisedKeeps
  <1>3. CASE rec' = [rec EXCEPT ![a] = q] /\ Goto("bind", a)
    <2>1. /\ a \in Agents /\ Sound(rec[a]) /\ rec[a] \in Record /\ Starting(rec[a]) /\ up # "dead"
          /\ at \in AtRecord
      BY <1>1 DEF BrokerInv, Data, Records, Working, Sound
    <2>2. /\ q \in Record /\ q.state = "queued" /\ q.lease = "terminal" /\ q.worker = "working"
          /\ q.mail = rec[a].mail /\ q.seen = rec[a].seen /\ q.log = rec[a].log
          /\ q.got = rec[a].got
      BY <2>1 DEF Record, Starting
    <2> HIDE DEF q
    <2>3. Sound(q)
      <3>1. Placed(q)
        BY <2>2 DEF Placed, Ended, None
      <3> QED
        BY <2>1, <2>2, <3>1, SameMail DEF Starting
    <2>4. Row(rec[a]) /\ q.state # None /\ rec[a].state # None
      BY <2>1, <2>2 DEF Row, Starting, None
    <2>5. Data' /\ Used' = Used
      BY <1>1, <1>3, <2>1, <2>3, <2>4, OneRecord DEF BrokerInv
    <2>6. /\ at' \in AtRecord /\ at'.op = "bind" /\ at'.n = a /\ at'.for = at.for
      <3>1. at' = [at EXCEPT !.op = "bind", !.n = a, !.left = Batch] /\ Batch \in 0..Batch
            /\ a \in 0..(MaxRecords + 1)
        BY <1>3, <2>1, Limits DEF Goto
      <3> QED
        BY <2>1, <3>1 DEF AtRecord
    <2>7. rec'[a] = q
      BY <1>3, <2>1 DEF BrokerInv, Data, Records
    <2>8. Working'
      BY <1>1, <2>1, <2>2, <2>5, <2>6, <2>7 DEF BrokerInv, Working, Starting, None
    <2> QED
      BY <2>5, <2>8 DEF BrokerInv
  <1> QED
    BY <1>2, <1>3 DEF Launch, Visited

\* The row passes from the terminal to the worker, or goes with it.
LEMMA BindKeeps == ASSUME BrokerInv, Bind PROVE BrokerInv'
  <1> DEFINE a == at.n
             p == Bound(rec[a])
             q == Finished(p, "failed")
  <1>1. /\ at.op = "bind" /\ UNCHANGED <<up, others>> /\ a \in Agents /\ Sound(rec[a])
        /\ Starting(rec[a]) /\ rec[a].worker # None /\ up # "dead"
        /\ up' \in {"open", "closed", "dead"}
    BY DEF Bind, BrokerInv, Data, Records, Working
  <1>2. CASE StartRaised
    BY <1>1, <1>2, StartRaisedKeeps
  <1>3. Sound(p) /\ p.state = "running" /\ Row(rec[a]) /\ rec[a].state # None
    BY <1>1, BoundSound DEF Row, Starting, None
  <1>4. Sound(q) /\ ~Row(q) /\ q.state = "failed"
    BY <1>3, FinishedSound DEF Open, Ended
  <1>5. a + 1 \in 0..(MaxRecords + 1) /\ a + 1 # 0
    BY <1>1, Limits
  <1>6. CASE rec' = [rec EXCEPT ![a] = Bound(@)] /\ StartReturned
    <2>1. rec' = [rec EXCEPT ![a] = p]
      BY <1>6
    <2> HIDE DEF p
    <2>2. Data' /\ Used' = Used
      BY <1>1, <1>3, <2>1, OneRecord DEF BrokerInv, None
    <2>3. Working'
      BY <1>1, <1>5, <1>6, <2>2, WorkingMoves, WorkingReturns DEF StartReturned, Visited, BrokerInv
    <2> QED
      BY <2>2, <2>3 DEF BrokerInv
  <1>7. CASE rec' = [rec EXCEPT ![a] = Finished(Bound(@), "failed")] /\ Goto("queue", a + 1)
    <2>1. rec' = [rec EXCEPT ![a] = q]
      BY <1>7
    <2> HIDE DEF q
    <2>2. Data' /\ Used' = Used
      BY <1>1, <1>3, <1>4, <2>1, OneRecord DEF BrokerInv, None
    <2> QED
      BY <1>1, <1>5, <1>7, <2>2, WorkingMoves DEF BrokerInv
  <1> QED
    BY <1>2, <1>6, <1>7 DEF Bind, Visited

-----------------------------------------------------------------------------
(* The theorems.                                                             *)

LEMMA InitEstablishes == Init => BrokerInv
  <1> SUFFICES ASSUME Init PROVE BrokerInv
    OBVIOUS
  <1>1. rec = [a \in Agents |-> NoRecord] /\ at = Idle /\ up = "open" /\ others \in 0..Ceiling
    BY DEF Init
  <1>2. Records
    BY <1>1, NoRecordSound DEF Records, Sound
  <1>3. Used = {} /\ Rows = {}
    BY <1>1, NoRecordSound, RowIsCurrent DEF Used, Rows
  <1>4. Reserved
    BY <1>1, <1>3, FS_EmptySet, Limits DEF Reserved
  <1>5. Numbered
    <2>1. 0 \in 0..MaxRecords /\ 1..0 = {}
      BY Limits
    <2> QED
      BY <1>3, <2>1 DEF Numbered
  <1>6. Working
    <2>1. Idle \in AtRecord /\ Idle.op = "idle" /\ Idle.for = None
      BY Limits DEF Idle, AtRecord, None
    <2> QED
      BY <1>1, <2>1 DEF Working, None
  <1> QED
    BY <1>2, <1>4, <1>5, <1>6 DEF BrokerInv, Data

LEMMA StutterKeeps == ASSUME BrokerInv, UNCHANGED vars PROVE BrokerInv'
  <1>1. UNCHANGED <<rec, at, up, others>>
    BY DEF vars
  <1>2. Data' /\ Used' = Used
    BY <1>1, SameData DEF BrokerInv
  <1> QED
    BY <1>1, <1>2 DEF BrokerInv, Working

\* The inductive invariant: what every record is, that the current rows and
\* those of other terminals respect the ceiling, and what a start holds on to.
THEOREM BrokerInvariant == Spec => []BrokerInv
  <1>1. BrokerInv /\ [Next]_vars => BrokerInv'
    BY CallKeeps, MasterSendsKeeps, CancelKeeps, CloseKeeps, KilledKeeps, OtherTerminalsKeep,
       WorkerKeeps, TimePassesKeeps, ServedKeeps, ServedAllKeeps, StartQueuedKeeps,
       PolledKeeps, LaunchKeeps, BindKeeps, StutterKeeps
    DEF Next, Broker, Caller, Worker
  <1> QED
    BY InitEstablishes, <1>1, PTL DEF Spec

LEMMA InvariantIsSound == BrokerInv => BrokerIsSound
  <1> SUFFICES ASSUME BrokerInv PROVE BrokerIsSound
    OBVIOUS
  <1>1. TypeOK
    BY DEF BrokerInv, Data, Records, Reserved, Working, AtRecord, TypeOK
  <1>2. AnnouncedOnce
    BY DEF BrokerInv, Data, Records, Sound, Announced, AnnouncedOnce
  <1>3. ReceiptsAreTrue
    BY DEF BrokerInv, Data, Records, Sound, Posted, ReceiptsAreTrue
  <1>4. WorkersAreReserved
    <2> DEFINE living == {a \in Agents : rec[a].state = "running" /\ rec[a].worker # "gone"}
    <2>1. living \subseteq Rows
      BY DEF BrokerInv, Data, Records, Sound, Placed, Rows, Current
    <2>2. Cardinality(living) <= Cardinality(Rows) /\ Cardinality(living) \in Nat
      BY <2>1, RowsFinite, FS_Subset, FS_CardinalityType
    <2>3. Cardinality(living) + others <= Ceiling
      BY <2>2, RowsFinite, Limits DEF BrokerInv, Data, Reserved
    <2>4. \A a \in Agents : rec[a].state \in Ended \cup {"dropped"} =>
            rec[a].lease = None /\ rec[a].worker \in {None, "gone"}
      BY DEF BrokerInv, Data, Records, Sound, Placed
    <2> QED
      BY <2>3, <2>4 DEF WorkersAreReserved
  <1> QED
    BY <1>1, <1>2, <1>3, <1>4 DEF BrokerIsSound

\* For any number of sub-agents, messages and terminals, and wherever workers
\* or the terminal die: each end is announced once, receipts are true, and live
\* workers whose lease was bound never exceed the ceiling of all terminals
\* (_finish, poll and _start of terminal/agents.py, core/resources.py).
THEOREM BrokerSound == Spec => []BrokerIsSound
  BY BrokerInvariant, InvariantIsSound, PTL

-----------------------------------------------------------------------------
\* Induction is done by the least counterexample.
LEMMA LeastExists ==
  ASSUME NEW S \in SUBSET Nat, S # {}
  PROVE  \E x \in S : \A y \in S : x <= y
  <1>1. PICK x \in S : \A y \in S : ~ (<<y, x>> \in OpToRel(<, Nat))
    BY WFMin, NatLessThanWellFounded
  <1>2. ASSUME NEW y \in S PROVE x <= y
    <2>1. <<y, x>> \in Nat \X Nat /\ ~(<<y, x>> \in OpToRel(<, Nat))
      BY <1>1
    <2>2. ~(y < x)
      BY <2>1 DEF OpToRel
    <2> QED BY <2>2
  <1> QED BY <1>2

-----------------------------------------------------------------------------
(* Scenes.  That each object stands on one that is there does not exclude two that
   stand on each other.  A scene is therefore grounded: in every group of objects one
   stands on what is outside the group.  An edit keeps that item by item: what is
   removed carries nothing that stays, and what is put somewhere carries nothing.  *)

SceneOf(objs) == [objs: {objs}, on: [objs -> Objects \cup {Floor}]]
Scenes == UNION {SceneOf(objs) : objs \in SUBSET Objects}

\* Every support is there, and in any group something stands on what is outside it.
Grounded(s) ==
  /\ s \in Scenes
  /\ \A x \in s.objs : Scene!Stands(s, s.on[x])
  /\ \A group \in (SUBSET s.objs) \ {{}} : \E x \in group : s.on[x] \notin group

Part == [name : Objects, support : Objects \cup {Floor}]

LEMMA SceneFields ==
  ASSUME NEW s \in Scenes
  PROVE  s.objs \subseteq Objects /\ s.on \in [s.objs -> Objects \cup {Floor}]
  BY DEF Scenes, SceneOf

LEMMA SceneMade ==
  ASSUME NEW objs \in SUBSET Objects, NEW on \in [objs -> Objects \cup {Floor}]
  PROVE  [objs |-> objs, on |-> on] \in Scenes
  <1>1. [objs |-> objs, on |-> on] \in SceneOf(objs)
    BY DEF SceneOf
  <1> QED BY <1>1 DEF Scenes

LEMMA BlankGrounded == Grounded(Scene!Blank)
  <1>1. Scene!Blank.objs = {} /\ Scene!Blank = [objs |-> {}, on |-> <<>>]
    BY DEF Scene!Blank
  <1>2. <<>> \in [{} -> Objects \cup {Floor}]
    OBVIOUS
  <1>3. Scene!Blank \in Scenes
    BY <1>1, <1>2, SceneMade
  <1> QED BY <1>1, <1>3 DEF Grounded

LEMMA RemovedGrounded ==
  ASSUME NEW s, NEW names, s = Absent \/ Grounded(s)
  PROVE  Scene!Removed(s, names) = Absent \/ Grounded(Scene!Removed(s, names))
  <1> SUFFICES ASSUME s # Absent, Scene!Removable(s, names) PROVE Grounded(Scene!Removed(s, names))
    BY DEF Scene!Removed
  <1> DEFINE objs == s.objs \ names
             on == [x \in objs |-> s.on[x]]
             r == [objs |-> objs, on |-> on]
  <1>0. Scene!Removed(s, names) = r
    BY DEF Scene!Removed
  <1>1. s \in Scenes /\ s.objs \subseteq Objects /\ s.on \in [s.objs -> Objects \cup {Floor}]
    BY SceneFields DEF Grounded
  <1>2. r \in Scenes
    <2>1. objs \in SUBSET Objects /\ on \in [objs -> Objects \cup {Floor}]
      BY <1>1
    <2> QED BY <2>1, SceneMade
  <1>3. ASSUME NEW x \in objs PROVE Scene!Stands(r, on[x])
    <2>1. s.on[x] = Floor \/ s.on[x] \in s.objs
      BY DEF Grounded, Scene!Stands
    <2>2. s.on[x] \notin names
      BY DEF Scene!Removable, Scene!Carries
    <2> QED BY <2>1, <2>2 DEF Scene!Stands
  <1>4. ASSUME NEW group \in (SUBSET objs) \ {{}} PROVE \E x \in group : on[x] \notin group
    <2>1. group \in (SUBSET s.objs) \ {{}}
      OBVIOUS
    <2>2. PICK x \in group : s.on[x] \notin group
      BY <2>1 DEF Grounded
    <2>3. on[x] = s.on[x]
      OBVIOUS
    <2> QED BY <2>2, <2>3
  <1> QED BY <1>0, <1>2, <1>3, <1>4 DEF Grounded

\* What is put on something else than itself, when nothing stands on it, grounds the scene
LEMMA PutGrounded ==
  ASSUME NEW s, Grounded(s), NEW item \in Part, item.name # item.support,
         Scene!Stands(s, item.support), \A x \in s.objs : s.on[x] # item.name
  PROVE  Grounded(Scene!Put(s, item))
  <1> DEFINE objs == s.objs \cup {item.name}
             on == [x \in objs |-> IF x = item.name THEN item.support ELSE s.on[x]]
             r == [objs |-> objs, on |-> on]
  <1>0. Scene!Put(s, item) = r
    BY DEF Scene!Put
  <1>1. s \in Scenes /\ s.objs \subseteq Objects /\ s.on \in [s.objs -> Objects \cup {Floor}]
    BY SceneFields DEF Grounded
  <1>2. item.name \in Objects /\ item.support \in Objects \cup {Floor}
    BY DEF Part
  <1>3. r \in Scenes
    <2>1. objs \in SUBSET Objects /\ on \in [objs -> Objects \cup {Floor}]
      BY <1>1, <1>2
    <2> QED BY <2>1, SceneMade
  <1>4. ASSUME NEW x \in objs PROVE Scene!Stands(r, on[x])
    <2>1. CASE x = item.name
      BY <2>1 DEF Scene!Stands
    <2>2. CASE x # item.name
      BY <2>2 DEF Grounded, Scene!Stands
    <2> QED BY <2>1, <2>2
  <1>5. ASSUME NEW group \in (SUBSET objs) \ {{}} PROVE \E x \in group : on[x] \notin group
    <2>1. CASE group = {item.name}
      BY <2>1
    <2>2. CASE group # {item.name}
      <3> DEFINE old == group \ {item.name}
      <3>1. old \in (SUBSET s.objs) \ {{}}
        BY <2>2
      <3>2. PICK x \in old : s.on[x] \notin old
        BY <3>1 DEF Grounded
      <3>3. s.on[x] # item.name
        BY <3>1
      <3> QED BY <3>2, <3>3
    <2> QED BY <2>1, <2>2
  <1>6. Grounded(r)
    BY <1>3, <1>4, <1>5 DEF Grounded
  <1> QED BY <1>0, <1>6

LEMMA AddedGrounded ==
  ASSUME NEW s, NEW item \in Part, item.name # item.support, s = Absent \/ Grounded(s)
  PROVE  Scene!Added(s, item) = Absent \/ Grounded(Scene!Added(s, item))
  <1> SUFFICES ASSUME s # Absent, item.name \notin s.objs, Scene!Stands(s, item.support)
               PROVE  Grounded(Scene!Put(s, item))
    BY DEF Scene!Added
  <1>1. item.name # Floor
    BY SceneAssumption DEF Part
  <1>2. \A x \in s.objs : s.on[x] # item.name
    BY <1>1 DEF Grounded, Scene!Stands
  <1> QED BY <1>2, PutGrounded

LEMMA MovedGrounded ==
  ASSUME NEW s, NEW item \in Part, item.name # item.support, s = Absent \/ Grounded(s)
  PROVE  Scene!Moved(s, item) = Absent \/ Grounded(Scene!Moved(s, item))
  <1> SUFFICES ASSUME s # Absent, Scene!Movable(s, item)
               PROVE  Grounded(Scene!Put(s, item))
    BY DEF Scene!Moved
  <1>1. Scene!Stands(s, item.support) /\ \A x \in s.objs : s.on[x] # item.name
    BY DEF Scene!Movable, Scene!Carries
  <1> QED BY <1>1, PutGrounded

-----------------------------------------------------------------------------
(* An edit, item by item.  The scenes between the items are a recursive function, so
   that it has a value is shown first: the least number of items for which it has none
   would have a predecessor for which it has one.                              *)

First(edit, base) == Scene!Removed(IF edit.base = "current" THEN base ELSE Scene!Blank, edit.remove)
Item(edit, s, n) ==
  IF n <= Len(edit.add) THEN Scene!Added(s, edit.add[n]) ELSE Scene!Moved(s, edit.move[n - Len(edit.add)])
Items(edit) == Len(edit.add) + Len(edit.move)

\* f is the scenes up to item k.
Leads(f, edit, base, k) ==
  f = [n \in 0..k |-> IF n = 0 THEN First(edit, base) ELSE Item(edit, f[n - 1], n)]

LEMMA LeadsExists ==
  ASSUME NEW edit, NEW base
  PROVE  \A k \in Nat : \E f : Leads(f, edit, base, k)
  <1> DEFINE Bad == {k \in Nat : ~ \E f : Leads(f, edit, base, k)}
  <1> SUFFICES ASSUME Bad # {} PROVE FALSE
    OBVIOUS
  <1>1. PICK k \in Bad : \A j \in Bad : k <= j
    BY LeastExists
  <1>2. CASE k = 0
    <2> DEFINE g == [n \in 0..0 |-> First(edit, base)]
    <2>1. g = [n \in 0..k |-> IF n = 0 THEN First(edit, base) ELSE Item(edit, g[n - 1], n)]
      BY <1>2
    <2> QED BY <2>1 DEF Leads
  <1>3. CASE k # 0
    <2>1. k - 1 \in Nat /\ k \in Nat /\ k - 1 \notin Bad
      BY <1>1, <1>3
    <2>2. PICK f : Leads(f, edit, base, k - 1)
      BY <2>1
    <2> DEFINE g == [n \in 0..k |-> IF n = k THEN Item(edit, f[k - 1], k) ELSE f[n]]
    <2>3. ASSUME NEW n \in 0..k
          PROVE  g[n] = IF n = 0 THEN First(edit, base) ELSE Item(edit, g[n - 1], n)
      <3>1. CASE n = k
        BY <3>1, <2>1, <1>3
      <3>2. CASE n # k
        <4>1. n \in 0..(k - 1) /\ g[n] = f[n] /\ (n # 0 => n - 1 \in 0..k /\ n - 1 # k /\ g[n - 1] = f[n - 1])
          BY <3>2, <2>1
        <4>2. f[n] = IF n = 0 THEN First(edit, base) ELSE Item(edit, f[n - 1], n)
          BY <4>1, <2>2 DEF Leads
        <4> QED BY <4>1, <4>2
      <3> QED BY <3>1, <3>2
    <2>4. g = [n \in 0..k |-> IF n = 0 THEN First(edit, base) ELSE Item(edit, g[n - 1], n)]
      <3> HIDE DEF g
      <3>1. g = [n \in 0..k |-> g[n]]
        BY DEF g
      <3> QED BY <3>1, <2>3
    <2> QED BY <2>4 DEF Leads
  <1> QED BY <1>2, <1>3

LEMMA EditShape ==
  ASSUME NEW edit \in Compositions
  PROVE  /\ edit.add \in Seq(Part) /\ edit.move \in Seq(Part)
         /\ \A i \in DOMAIN edit.add : edit.add[i].name # edit.add[i].support
         /\ \A i \in DOMAIN edit.move : edit.move[i].name # edit.move[i].support
         /\ Len(edit.add) \in Nat /\ Len(edit.move) \in Nat /\ Items(edit) \in Nat
         /\ DOMAIN edit.add = 1..Len(edit.add) /\ DOMAIN edit.move = 1..Len(edit.move)
  <1>1. /\ edit.add \in Seq(Part) /\ edit.move \in Seq(Part)
        /\ \A i \in DOMAIN edit.add : edit.add[i].name # edit.add[i].support
        /\ \A i \in DOMAIN edit.move : edit.move[i].name # edit.move[i].support
    BY SceneAssumption DEF Part
  <1>2. ASSUME NEW s \in Seq(Part) PROVE Len(s) \in Nat /\ DOMAIN s = 1..Len(s)
    OBVIOUS
  <1>4. /\ Len(edit.add) \in Nat /\ Len(edit.move) \in Nat
        /\ DOMAIN edit.add = 1..Len(edit.add) /\ DOMAIN edit.move = 1..Len(edit.move)
    BY <1>1, <1>2
  <1>3. Items(edit) \in Nat
    <2>1. ASSUME NEW i \in Nat, NEW j \in Nat PROVE i + j \in Nat
      OBVIOUS
    <2> QED BY <1>4, <2>1 DEF Items
  <1> QED BY <1>1, <1>4, <1>3

LEMMA EditedLeads ==
  ASSUME NEW edit \in Compositions, NEW base
  PROVE  Leads(Scene!Edited(edit, base), edit, base, Items(edit))
  <1> DEFINE k == Items(edit)
  <1>1. k \in Nat
    BY EditShape
  <1>2. \E f : Leads(f, edit, base, k)
    BY <1>1, LeadsExists
  <1>3. Scene!Edited(edit, base) = CHOOSE f : Leads(f, edit, base, k)
    BY DEF Scene!Edited, Leads, Items, First, Item
  <1> QED BY <1>2, <1>3

\* An edit of a scene in which everything stands is refused, or makes one in which everything stands.
LEMMA ComposedGrounded ==
  ASSUME NEW edit \in Compositions, NEW base, Grounded(base)
  PROVE  Scene!Composed(edit, base) = Absent \/ Grounded(Scene!Composed(edit, base))
  <1> DEFINE k == Items(edit)
             f == Scene!Edited(edit, base)
             Bad == {n \in 0..k : ~(f[n] = Absent \/ Grounded(f[n]))}
  <1>1. /\ edit.add \in Seq(Part) /\ edit.move \in Seq(Part)
        /\ \A i \in DOMAIN edit.add : edit.add[i].name # edit.add[i].support
        /\ \A i \in DOMAIN edit.move : edit.move[i].name # edit.move[i].support
    BY EditShape
  <1>2. /\ Len(edit.add) \in Nat /\ Len(edit.move) \in Nat /\ k \in Nat
        /\ DOMAIN edit.add = 1..Len(edit.add) /\ DOMAIN edit.move = 1..Len(edit.move)
    BY EditShape
  <1>3. Leads(f, edit, base, k)
    BY EditedLeads
  <1>4. Bad = {}
    <2> SUFFICES ASSUME Bad # {} PROVE FALSE
      OBVIOUS
    <2>1. Bad \in SUBSET Nat
      BY <1>2
    <2>2. PICK n \in Bad : \A j \in Bad : n <= j
      BY <2>1, LeastExists
    <2>3. n \in 0..k /\ n \in Nat /\ ~(f[n] = Absent \/ Grounded(f[n]))
      BY <2>2, <1>2
    <2>4. f[n] = IF n = 0 THEN First(edit, base) ELSE Item(edit, f[n - 1], n)
      BY <2>3, <1>3 DEF Leads
    <2>5. CASE n = 0
      <3>1. f[n] = First(edit, base)
        BY <2>4, <2>5
      <3>2. First(edit, base) = Absent \/ Grounded(First(edit, base))
        BY RemovedGrounded, BlankGrounded DEF First
      <3> QED BY <2>3, <3>1, <3>2
    <2>6. CASE n # 0
      <3>1. n - 1 \in 0..k /\ n - 1 \notin Bad
        BY <2>2, <2>3, <2>6, <1>2
      <3>2. f[n - 1] = Absent \/ Grounded(f[n - 1])
        BY <3>1
      <3>3. f[n] = Item(edit, f[n - 1], n)
        BY <2>4, <2>6
      <3> HIDE DEF f
      <3>4. CASE n <= Len(edit.add)
        <4>1. n \in DOMAIN edit.add /\ edit.add[n] \in Part /\ edit.add[n].name # edit.add[n].support
          BY <3>4, <2>3, <2>6, <1>1, <1>2, ElementOfSeq
        <4>2. Item(edit, f[n - 1], n) = Scene!Added(f[n - 1], edit.add[n])
          BY <3>4 DEF Item
        <4> QED BY <4>1, <4>2, <3>2, <3>3, <2>3, AddedGrounded
      <3>5. CASE ~(n <= Len(edit.add))
        <4> DEFINE m == n - Len(edit.add)
        <4>0. m \in 1..Len(edit.move)
          <5>1. k = Len(edit.add) + Len(edit.move)
            BY DEF Items
          <5> HIDE DEF k, Bad
          <5>2. n \in Nat /\ n <= k
            BY <2>3, <1>2
          <5>3. ASSUME NEW i \in Nat, NEW j \in Nat, ~(n <= i), n <= i + j PROVE n - i \in 1..j
            BY <5>2, <5>3
          <5> QED BY <5>1, <5>2, <5>3, <3>5, <1>2
        <4>1. m \in DOMAIN edit.move /\ edit.move[m] \in Part /\ edit.move[m].name # edit.move[m].support
          BY <4>0, <1>1, <1>2, ElementOfSeq
        <4>2. Item(edit, f[n - 1], n) = Scene!Moved(f[n - 1], edit.move[m])
          BY <3>5 DEF Item
        <4> QED BY <4>1, <4>2, <3>2, <3>3, <2>3, MovedGrounded
      <3> QED BY <3>4, <3>5
    <2> QED BY <2>5, <2>6
  <1>5. k \in 0..k /\ k \notin Bad
    BY <1>2, <1>4
  <1>6. Scene!Composed(edit, base) = f[k]
    BY DEF Scene!Composed, Items
  <1> QED BY <1>5, <1>6

-----------------------------------------------------------------------------
(* Scenes are only ever added to, everything stands in each of them, and what is
   the latest, was saved or is about to be saved had been published.          *)

EditorSteps == {"rest", "write", "replace", "ask", "load", "build", "publish", "open"}
EditorState ==
  [pc: EditorSteps, kind: {Absent, "scene", "edit"}, edit: Compositions \cup {Absent}, base: Nat, made: Nat,
   attempt: 0..Candidates, then: {"rest", "ask", "open"}]
Shelf == published \cup {0}
Kept == [scene: Shelf, error: BOOLEAN]

Shelved ==
  /\ bundles \in Seq(Scenes) /\ Len(bundles) <= MaxBundles
  /\ \A n \in DOMAIN bundles : Grounded(bundles[n])
  /\ published \subseteq DOMAIN bundles
Standing == latest \in Shelf /\ shown \in Shelf /\ error \in BOOLEAN /\ kept \in Kept /\ temp \in Kept \cup {Absent}
Editing ==
  /\ editor \in [Editors -> EditorState]
  /\ \A t \in Editors : /\ editor[t].pc \in {"load", "build"} => editor[t].edit \in Compositions
                        /\ editor[t].base \in Shelf
                        /\ editor[t].pc = "publish" => editor[t].made \in DOMAIN bundles
SceneInv == Shelved /\ Standing /\ Editing

LEMMA SceneInitEstablishes == Scene!Init => SceneInv
  <1> SUFFICES ASSUME Scene!Init PROVE SceneInv
    OBVIOUS
  <1>0. {Candidates, MaxBundles} \subseteq Nat
    BY SceneAssumption
  <1>1. Shelved
    BY <1>0 DEF Shelved, Scene!Init
  <1>2. Standing
    BY DEF Standing, Scene!Init, Shelf, Kept
  <1>3. Scene!Rest \in EditorState /\ Scene!Rest.pc = "rest" /\ Scene!Rest.base = 0
    BY <1>0 DEF Scene!Rest, EditorState, EditorSteps
  <1>4. Editing
    <2>1. editor = [t \in Editors |-> Scene!Rest]
      BY DEF Scene!Init
    <2> QED BY <2>1, <1>3 DEF Editing, Shelf
  <1> QED BY <1>1, <1>2, <1>4 DEF SceneInv

LEMMA RestIsEditor ==
  Scene!Rest \in EditorState /\ Scene!Rest.pc = "rest" /\ Scene!Rest.base = 0
  <1>0. 0 \in 0..Candidates
    BY SceneAssumption
  <1> QED BY <1>0 DEF Scene!Rest, EditorState, EditorSteps

\* One editor changes to a state that may be, and the shelf only grows.
LEMMA EditorStep ==
  ASSUME Editing, NEW t \in Editors, NEW r \in EditorState,
         r.pc \in {"load", "build"} => r.edit \in Compositions,
         r.base \in Shelf', r.pc = "publish" => r.made \in DOMAIN bundles',
         editor' = [editor EXCEPT ![t] = r],
         published \subseteq published', DOMAIN bundles \subseteq DOMAIN bundles'
  PROVE  Editing'
  <1>1. editor' \in [Editors -> EditorState]
    BY DEF Editing
  <1>2. ASSUME NEW u \in Editors
        PROVE  /\ editor'[u].pc \in {"load", "build"} => editor'[u].edit \in Compositions
               /\ editor'[u].base \in Shelf'
               /\ editor'[u].pc = "publish" => editor'[u].made \in DOMAIN bundles'
    <2>1. CASE u = t
      BY <2>1 DEF Editing
    <2>2. CASE u # t
      BY <2>2 DEF Editing, Shelf
    <2> QED BY <2>1, <2>2
  <1> QED BY <1>1, <1>2 DEF Editing

LEMMA SceneNextKeeps == SceneInv /\ [Scene!Next]_Scene!vars => SceneInv'
  <1> SUFFICES ASSUME SceneInv, [Scene!Next]_Scene!vars PROVE SceneInv'
    OBVIOUS
  <1> USE DEF SceneInv
  <1>0. {Candidates, MaxBundles} \subseteq Nat
    BY SceneAssumption
  <1>s. ASSUME UNCHANGED bundles, UNCHANGED published PROVE Shelved'
    BY <1>s DEF Shelved
  <1>t. ASSUME UNCHANGED <<latest, shown, error, kept, temp, published>> PROVE Standing'
    BY <1>t DEF Standing, Shelf, Kept
  <1>e. ASSUME UNCHANGED <<editor, bundles>>, published \subseteq published' PROVE Editing'
    BY <1>e DEF Editing, Shelf
  <1>0a. \A u \in Editors : /\ editor[u] \in EditorState /\ editor[u].base \in Shelf
                            /\ editor[u].pc \in {"load", "build"} => editor[u].edit \in Compositions
                            /\ editor[u].pc = "publish" => editor[u].made \in DOMAIN bundles
    BY DEF Editing
  <1>1. ASSUME NEW t \in Editors, Scene!Scene(t) PROVE SceneInv'
    <2>1. Shelved' /\ Standing'
      BY <1>1, <1>s, <1>t DEF Scene!Scene
    <2> DEFINE r == [Scene!Rest EXCEPT !.pc = "write", !.kind = "scene", !.then = "ask"]
    <2>2. r \in EditorState /\ r.pc = "write" /\ r.base = 0
      BY RestIsEditor DEF EditorState, EditorSteps
    <2>3. editor' = [editor EXCEPT ![t] = r] /\ UNCHANGED <<published, bundles>>
      BY <1>1 DEF Scene!Scene
    <2> HIDE DEF r
    <2> QED BY <2>1, <2>2, <2>3, EditorStep DEF Shelf
  <1>2. ASSUME NEW t \in Editors, Scene!Edit(t) PROVE SceneInv'
    <2>1. Shelved' /\ Standing'
      BY <1>2, <1>s, <1>t DEF Scene!Edit
    <2>2. PICK e \in Compositions : editor' = [editor EXCEPT ![t] = [Scene!Rest EXCEPT !.pc = "load", !.kind = "edit", !.edit = e]]
      BY <1>2 DEF Scene!Edit
    <2> DEFINE r == [Scene!Rest EXCEPT !.pc = "load", !.kind = "edit", !.edit = e]
    <2>3. r \in EditorState /\ r.pc = "load" /\ r.base = 0 /\ r.edit = e
      BY RestIsEditor DEF EditorState, EditorSteps
    <2>4. editor' = [editor EXCEPT ![t] = r] /\ UNCHANGED <<published, bundles>>
      BY <1>2, <2>2 DEF Scene!Edit
    <2> HIDE DEF r
    <2> QED BY <2>1, <2>3, <2>4, EditorStep DEF Shelf
  <1>g. ASSUME NEW t \in Editors, NEW pc \in {"rest", "write", "replace", "ask", "open"}, Scene!Go(t, pc),
               UNCHANGED <<published, bundles>>
        PROVE  Editing'
    <2> DEFINE r == [editor[t] EXCEPT !.pc = pc]
    <2>1. r \in EditorState /\ r.pc = pc /\ r.base = editor[t].base
      BY <1>0a DEF EditorState, EditorSteps
    <2>2. editor' = [editor EXCEPT ![t] = r]
      BY <1>g, <1>0a DEF Scene!Go, Editing
    <2> HIDE DEF r
    <2> QED BY <1>g, <2>1, <2>2, <1>0a, EditorStep DEF Shelf
  <1>r. ASSUME NEW t \in Editors, Scene!Ends(t), published \subseteq published', DOMAIN bundles \subseteq DOMAIN bundles'
        PROVE  Editing'
    <2>1. Scene!Rest \in EditorState /\ Scene!Rest.pc = "rest" /\ Scene!Rest.base = 0
      BY RestIsEditor
    <2> QED BY <1>r, <2>1, EditorStep DEF Scene!Ends, Shelf
  <1>w. ASSUME NEW t \in Editors, NEW then \in {"rest", "open"}, Scene!Save(t, then),
               published \subseteq published', UNCHANGED bundles
        PROVE  Editing'
    <2> DEFINE r == [Scene!Rest EXCEPT !.pc = "write", !.then = then]
    <2>1. r \in EditorState /\ r.pc = "write" /\ r.base = 0
      BY RestIsEditor DEF EditorState, EditorSteps
    <2>2. editor' = [editor EXCEPT ![t] = r]
      BY <1>w DEF Scene!Save
    <2> HIDE DEF r
    <2> QED BY <1>w, <2>1, <2>2, EditorStep DEF Shelf
  <1>3. ASSUME NEW t \in Editors, Scene!Write(t) PROVE SceneInv'
    <2>1. Shelved' /\ Editing'
      BY <1>3, <1>s, <1>g DEF Scene!Write
    <2>2. Standing'
      BY <1>3 DEF Scene!Write, Standing, Kept, Shelf
    <2> QED BY <2>1, <2>2
  <1>4. ASSUME NEW t \in Editors, Scene!Replace(t) PROVE SceneInv'
    <2>1. Shelved'
      BY <1>4, <1>s DEF Scene!Replace
    <2>2. editor[t].then \in {"rest", "ask", "open"}
      BY <1>0a DEF EditorState
    <2>3. Editing'
      BY <1>4, <2>2, <1>g DEF Scene!Replace
    <2>4. Standing'
      BY <1>4 DEF Scene!Replace, Standing, Kept, Shelf
    <2> QED BY <2>1, <2>3, <2>4
  <1>5. ASSUME NEW t \in Editors, Scene!ReplaceFails(t) PROVE SceneInv'
    BY <1>5, <1>s, <1>t, <1>r DEF Scene!ReplaceFails, Scene!disk
  <1>6. ASSUME NEW t \in Editors, Scene!Answers(t) PROVE SceneInv'
    <2>1. Shelved' /\ Standing'
      BY <1>6, <1>s, <1>t DEF Scene!Answers, Scene!disk
    <2>2. PICK e \in Compositions : editor' = [editor EXCEPT ![t].pc = "load", ![t].edit = e, ![t].attempt = @ + 1]
      BY <1>6 DEF Scene!Answers
    <2> DEFINE r == [editor[t] EXCEPT !.pc = "load", !.edit = e, !.attempt = @ + 1]
    <2>3. editor[t].attempt + 1 \in 0..Candidates
      BY <1>6, <1>0a, <1>0 DEF Scene!Answers, EditorState
    <2>4. r \in EditorState /\ r.pc = "load" /\ r.edit = e /\ r.base = editor[t].base
      BY <1>0a, <2>3 DEF EditorState, EditorSteps
    <2>5. editor' = [editor EXCEPT ![t] = r]
      BY <2>2, <1>0a DEF Editing, EditorState
    <2>6. UNCHANGED <<published, bundles>>
      BY <1>6 DEF Scene!Answers, Scene!disk
    <2> HIDE DEF r
    <2> QED BY <2>1, <2>4, <2>5, <2>6, <1>0a, EditorStep DEF Shelf
  <1>7. ASSUME NEW t \in Editors, Scene!Load(t) PROVE SceneInv'
    <2>1. Shelved' /\ Standing'
      BY <1>7, <1>s, <1>t DEF Scene!Load, Scene!disk
    <2> DEFINE r == [editor[t] EXCEPT !.pc = "build", !.base = latest]
    <2>2. latest \in Shelf /\ latest \in Nat
      BY DEF Standing, Shelf, Shelved
    <2>4. r \in EditorState /\ r.pc = "build" /\ r.edit = editor[t].edit /\ r.base = latest
      BY <1>0a, <2>2 DEF EditorState, EditorSteps
    <2>5. editor' = [editor EXCEPT ![t] = r] /\ editor[t].pc = "load"
      BY <1>7, <1>0a DEF Scene!Load, Scene!At, Editing, EditorState
    <2>6. UNCHANGED <<published, bundles>>
      BY <1>7 DEF Scene!Load, Scene!disk
    <2> HIDE DEF r
    <2> QED BY <2>1, <2>2, <2>4, <2>5, <2>6, <1>0a, EditorStep DEF Shelf
  <1>8. ASSUME NEW t \in Editors, Scene!Build(t) PROVE SceneInv'
    <2>1. Standing' /\ UNCHANGED published
      BY <1>8, <1>t DEF Scene!Build
    <2> DEFINE s == Scene!Outcome(t)
    <2>2. Grounded(s)
      <3>1. editor[t].edit \in Compositions /\ editor[t].base \in Shelf
        BY <1>8, <1>0a DEF Scene!Build, Scene!At
      <3>2. Grounded(Scene!Bundle(editor[t].base))
        BY <3>1, BlankGrounded DEF Shelf, Shelved, Scene!Bundle
      <3> QED BY <1>8, <3>1, <3>2, ComposedGrounded DEF Scene!Build, Scene!Outcome
    <2>3. s \in Scenes
      BY <2>2 DEF Grounded
    <2>4. bundles' = Append(bundles, s) /\ Len(bundles) < MaxBundles
      BY <1>8 DEF Scene!Build
    <2> HIDE DEF s
    <2>5. /\ bundles' \in Seq(Scenes) /\ Len(bundles) \in Nat /\ Len(bundles') = Len(bundles) + 1
          /\ DOMAIN bundles = 1..Len(bundles) /\ DOMAIN bundles' = 1..Len(bundles')
          /\ bundles'[Len(bundles')] = s /\ \A n \in DOMAIN bundles : bundles'[n] = bundles[n]
      BY <2>3, <2>4 DEF Shelved
    <2>6. Shelved'
      <3>1. ASSUME NEW n \in DOMAIN bundles' PROVE Grounded(bundles'[n])
        <4>1. CASE n \in DOMAIN bundles
          BY <4>1, <2>5 DEF Shelved
        <4>2. CASE n \notin DOMAIN bundles
          <5>1. n = Len(bundles')
            BY <4>2, <2>5
          <5> QED BY <5>1, <2>5, <2>2
        <4> QED BY <4>1, <4>2
      <3>2. Len(bundles') <= MaxBundles
        BY <2>4, <2>5, <1>0
      <3>3. DOMAIN bundles \subseteq DOMAIN bundles'
        BY <2>5
      <3> QED BY <2>1, <2>5, <3>1, <3>2, <3>3 DEF Shelved
    <2> DEFINE r == [editor[t] EXCEPT !.pc = "publish", !.made = Len(bundles')]
    <2>7. Len(bundles') \in Nat /\ Len(bundles') \in DOMAIN bundles' /\ DOMAIN bundles \subseteq DOMAIN bundles'
      BY <2>5
    <2>8. r \in EditorState /\ r.pc = "publish" /\ r.made = Len(bundles') /\ r.base = editor[t].base
      BY <1>0a, <2>7 DEF EditorState, EditorSteps
    <2>9. editor' = [editor EXCEPT ![t] = r]
      BY <1>8, <1>0a DEF Scene!Build, Editing, EditorState
    <2> HIDE DEF r
    <2>10. Editing'
      BY <2>1, <2>7, <2>8, <2>9, <1>0a, EditorStep DEF Shelf
    <2> QED BY <2>1, <2>6, <2>10
  <1>9. ASSUME NEW t \in Editors, Scene!Repairs(t) PROVE SceneInv'
    BY <1>9, <1>s, <1>t, <1>g DEF Scene!Repairs, Scene!disk
  <1>10. ASSUME NEW t \in Editors, Scene!Fails(t) PROVE SceneInv'
    <2>1. Shelved' /\ Editing'
      BY <1>10, <1>s, <1>w DEF Scene!Fails, Scene!disk
    <2>2. Standing'
      BY <1>10 DEF Scene!Fails, Scene!disk, Standing, Shelf, Kept
    <2> QED BY <2>1, <2>2
  <1>11. ASSUME NEW t \in Editors, Scene!Publish(t) PROVE SceneInv'
    <2>0. editor[t].made \in DOMAIN bundles
      BY <1>11, <1>0a DEF Scene!Publish, Scene!At
    <2>1. /\ published' = published \cup {latest'} /\ latest' = editor[t].made /\ ~error'
          /\ UNCHANGED <<bundles, kept, temp, shown>> /\ Scene!Save(t, "open")
      BY <1>11 DEF Scene!Publish, Scene!disk
    <2>2. Shelved'
      BY <2>0, <2>1 DEF Shelved
    <2>3. Editing'
      BY <2>1, <1>w
    <2>4. Shelf \subseteq Shelf' /\ latest' \in Shelf'
      BY <2>1 DEF Shelf
    <2>5. error' \in BOOLEAN
      BY <1>11 DEF Scene!Publish
    <2>6. Standing'
      BY <2>1, <2>4, <2>5 DEF Standing, Kept
    <2> QED BY <2>2, <2>3, <2>6
  <1>12. ASSUME NEW t \in Editors, Scene!Opens(t) PROVE SceneInv'
    <2>1. Shelved' /\ Editing'
      BY <1>12, <1>s, <1>r DEF Scene!Opens, Scene!disk
    <2>2. Standing'
      BY <1>12 DEF Scene!Opens, Scene!disk, Standing, Shelf, Kept
    <2> QED BY <2>1, <2>2
  <1>13. ASSUME NEW t \in Editors, Scene!OpenTool(t) PROVE SceneInv'
    <2>0. UNCHANGED <<kept, temp, error, editor>> /\ shown' = latest'
      BY <1>13 DEF Scene!OpenTool
    <2>1. CASE latest = 0
      <3> DEFINE s == Scene!Blank
      <3>1. /\ Len(bundles) < MaxBundles /\ bundles' = Append(bundles, s) /\ latest' = Len(bundles')
            /\ published' = published \cup {latest'}
        BY <1>13, <2>1 DEF Scene!OpenTool
      <3>2. Grounded(s) /\ s \in Scenes
        BY BlankGrounded DEF Grounded
      <3> HIDE DEF s
      <3>3. /\ bundles' \in Seq(Scenes) /\ Len(bundles) \in Nat /\ Len(bundles') = Len(bundles) + 1
            /\ DOMAIN bundles = 1..Len(bundles) /\ DOMAIN bundles' = 1..Len(bundles')
            /\ bundles'[Len(bundles')] = s /\ \A n \in DOMAIN bundles : bundles'[n] = bundles[n]
        BY <3>1, <3>2 DEF Shelved
      <3>4. /\ DOMAIN bundles \subseteq DOMAIN bundles' /\ Len(bundles') \in DOMAIN bundles'
            /\ Len(bundles') <= MaxBundles
        BY <3>1, <3>3, <1>0
      <3>5. ASSUME NEW n \in DOMAIN bundles' PROVE Grounded(bundles'[n])
        <4>1. CASE n \in DOMAIN bundles
          BY <4>1, <3>3 DEF Shelved
        <4>2. CASE n \notin DOMAIN bundles
          <5>1. n = Len(bundles')
            BY <4>2, <3>3
          <5> QED BY <5>1, <3>3, <3>2
        <4> QED BY <4>1, <4>2
      <3>6. published' \subseteq DOMAIN bundles'
        BY <3>1, <3>4 DEF Shelved
      <3>7. Shelved'
        BY <3>3, <3>4, <3>5, <3>6 DEF Shelved
      <3>8. Shelf \subseteq Shelf' /\ latest' \in Shelf' /\ published \subseteq published'
        BY <3>1 DEF Shelf
      <3>9. Standing'
        BY <2>0, <3>8 DEF Standing, Kept
      <3>10. Editing'
        BY <2>0, <3>4, <3>8 DEF Editing
      <3> QED BY <3>7, <3>9, <3>10
    <2>2. CASE latest # 0
      <3>1. UNCHANGED <<bundles, latest, published>>
        BY <1>13, <2>2 DEF Scene!OpenTool
      <3> QED BY <3>1, <2>0, <1>s, <1>e DEF Standing, Shelf, Kept
    <2> QED BY <2>1, <2>2
  <1>14. ASSUME Scene!Restart PROVE SceneInv'
    <2>1. Shelved'
      BY <1>14, <1>s DEF Scene!Restart
    <2>2. Standing'
      BY <1>14 DEF Scene!Restart, Standing, Kept, Shelf
    <2>3. editor' = [t \in Editors |-> Scene!Rest]
      BY <1>14 DEF Scene!Restart
    <2>4. Editing'
      BY <2>3, RestIsEditor DEF Editing, Shelf
    <2> QED BY <2>1, <2>2, <2>4
  <1>15. ASSUME UNCHANGED Scene!vars PROVE SceneInv'
    BY <1>15, <1>s, <1>t, <1>e DEF Scene!vars, Scene!counters
  <1> QED
    BY <1>1, <1>2, <1>3, <1>4, <1>5, <1>6, <1>7, <1>8, <1>9, <1>10, <1>11, <1>12, <1>13, <1>14, <1>15
       DEF Scene!Next, Scene!Step

LEMMA SceneInvIsSound == SceneInv => ScenesAreSound
  <1> SUFFICES ASSUME SceneInv PROVE ScenesAreSound
    OBVIOUS
  <1>1. /\ bundles \in Seq(Scenes) /\ Len(bundles) \in Nat /\ DOMAIN bundles = 1..Len(bundles)
        /\ \A n \in DOMAIN bundles : bundles[n] \in Scenes /\ Grounded(bundles[n])
    BY DEF SceneInv, Shelved
  <1>2. MaxBundles \in Nat /\ Candidates \in Nat
    BY SceneAssumption
  <1>3. published \subseteq 1..MaxBundles /\ Shelf \subseteq 0..MaxBundles
    <2>1. published \subseteq 1..Len(bundles) /\ Len(bundles) <= MaxBundles
      BY <1>1 DEF SceneInv, Shelved
    <2> QED BY <2>1, <1>1, <1>2 DEF Shelf
  <1>4. \A n \in DOMAIN bundles : DOMAIN bundles[n].on = bundles[n].objs
    BY <1>1, SceneFields
  <1>5. \A t \in Editors : editor[t].pc \in EditorSteps /\ editor[t].attempt \in 0..Candidates
    BY DEF SceneInv, Editing, EditorState
  <1>6. latest \in Shelf /\ shown \in Shelf /\ error \in BOOLEAN /\ kept.scene \in Shelf
    BY DEF SceneInv, Standing, Kept
  <1>7. Scene!TypeOK
    BY <1>3, <1>4, <1>5, <1>6 DEF Scene!TypeOK, EditorSteps
  <1>8. Scene!ScenesStand
    BY <1>1 DEF Scene!ScenesStand, Grounded
  <1>9. Scene!RestoredWasPublished
    BY <1>6 DEF Scene!RestoredWasPublished, Shelf
  <1> QED BY <1>7, <1>8, <1>9 DEF ScenesAreSound

(* Scenes stand and are restored (composition.py, app.py): whatever edits are composed
   from whatever scene by however many threads, every bundle written stands down to
   the floor, and the terminal comes back with a scene that had been published.  *)
THEOREM ScenesSound == Scene!Spec => []ScenesAreSound
  BY SceneInitEstablishes, SceneNextKeeps, SceneInvIsSound, PTL DEF Scene!Spec

-----------------------------------------------------------------------------
(* The viewer: the invariant.  Commands are numbered as they are sent.  What the ready
   file says was true when it was written and stays so, because commands are applied
   once and for good.  A command in the inbox or at hand has not been dealt with, and
   nobody has been told that it has: that is what an answer that comes after the
   deadline of its caller could break.                                         *)

CallSteps == {"idle", "spawned", "opening", "waiting", "watching", "stopping"}
CommandKinds == Kinds \cup {Absent, "stop"}
CallState == [pc: CallSteps, id: 0..MaxSent, kind: CommandKinds, watch: 0..MaxSent, scene: Nat]
MotionState == [state: {"idle", "running", "cancelled", "failed", "succeeded"}, id: 0..MaxSent]
CommandState == [id: 0..MaxSent, ok: BOOLEAN]
HandState == [pc: {"loop", "sees", "took", "checked"}, id: 0..MaxSent, kind: CommandKinds]
ReadyFile == [open: BOOLEAN, motion: MotionState, last: CommandState, scene: Nat]
Message == [id: 1..MaxSent, kind: CommandKinds]
Reports == {"", "executed", "refused", "unknown", "reached", "ended", "shown", "failed"}

\* What the worker knows of commands and motions is true.
TrueCommand(l) == l \in CommandState /\ l.id <= sent /\ (l.id # 0 => (l.ok <=> l.id \in applied))
TrueMotion(m) == /\ m \in MotionState
                 /\ m.state # "idle" => m.id \in applied
                 /\ m.state = "succeeded" => m.id \in arrived

Terminal ==
  /\ worker \in {"none", "starting", "alive", "dead"} /\ disk \in Nat
  /\ holder \in Callers \cup {Absent} /\ sent \in 0..MaxSent
  /\ applied \subseteq 1..sent /\ arrived \subseteq applied
Named == owner \in BOOLEAN
Window == TrueCommand(last) /\ TrueMotion(movement) /\ loaded \in Nat
Ready == pub # Absent => pub \in ReadyFile /\ TrueCommand(pub.last) /\ TrueMotion(pub.motion)

CallIs(r) ==
  /\ r \in CallState /\ r.id <= sent
  /\ r.pc \in {"spawned", "opening", "waiting"} => r.id # 0
  /\ r.pc = "watching" => r.watch \in applied
Calling == call \in [Callers -> CallState] /\ \A c \in Callers : CallIs(call[c])

\* What a caller was told is true, and nothing is told of what was not sent.
Telling ==
  /\ told \in [1..MaxSent -> Reports] /\ Viewer!ReportsAreTrue
  /\ \A i \in 1..MaxSent : i > sent => told[i] = ""

\* A command that waits or is at hand has not been dealt with, and opens no window.
Opens(i) == \E c \in Callers : call[c].pc \in {"spawned", "opening"} /\ call[c].id = i
Undone(i) ==
  /\ i \notin applied /\ i # last.id /\ ~Opens(i)
  /\ pub # Absent => i # pub.last.id
InTheBox ==
  inbox # Absent => /\ inbox \in Message /\ inbox.id <= sent /\ inbox.id # hand.id
                    /\ Undone(inbox.id) /\ told[inbox.id] = ""
Handled ==
  /\ hand \in HandState /\ hand.id <= sent
  /\ hand.pc \in {"took", "checked"} <=> hand.id # 0
  /\ worker # "alive" => hand.pc = "loop"
  /\ hand.id # 0 => /\ Undone(hand.id) /\ told[hand.id] \in {"", "unknown"}
                    /\ told[hand.id] = "unknown" => hand.id \in late

ViewerInv == Terminal /\ Named /\ Window /\ Ready /\ Calling /\ Telling /\ InTheBox /\ Handled

LEMMA ZeroIsLeast == 0 <= 0
  OBVIOUS

LEMMA IdleIsCall ==
  /\ Viewer!Idle \in CallState /\ Viewer!Idle.pc = "idle"
  /\ Viewer!Idle.id = 0 /\ Viewer!Idle.watch = 0
  <1>0. 0 \in 0..MaxSent
    BY ViewerAssumption
  <1> QED BY <1>0 DEF Viewer!Idle, CallState, CallSteps, CommandKinds

LEMMA ViewerInitEstablishes == Viewer!Init => ViewerInv
  <1> SUFFICES ASSUME Viewer!Init PROVE ViewerInv
    OBVIOUS
  <1>0. MaxSent \in Nat /\ 0 \in 0..MaxSent
    BY ViewerAssumption
  <1>a. Viewer!NoCommand \in CommandState /\ Viewer!NoCommand.id = 0
    BY <1>0 DEF Viewer!NoCommand, CommandState
  <1>b. Viewer!NoMotion \in MotionState /\ Viewer!NoMotion.state = "idle"
    BY <1>0 DEF Viewer!NoMotion, MotionState
  <1>c. Viewer!Idle \in CallState /\ Viewer!Idle.pc = "idle" /\ Viewer!Idle.id = 0
    BY IdleIsCall
  <1>d. Viewer!Empty \in HandState /\ Viewer!Empty.pc = "loop" /\ Viewer!Empty.id = 0
    BY <1>0 DEF Viewer!Empty, HandState, CommandKinds
  <1> USE DEF Viewer!Init
  <1>1. Terminal /\ Named
    BY <1>0 DEF Terminal, Named
  <1>s. ASSUME NEW i, i = 0 PROVE i <= sent
    <2>1. sent = 0
      OBVIOUS
    <2> QED BY <2>1, <1>s, ZeroIsLeast, Zenon
  <1>2. Window /\ Ready
    <2>1. last.id <= sent
      BY <1>a, <1>s
    <2> QED BY <2>1, <1>a, <1>b DEF Window, Ready, TrueCommand, TrueMotion
  <1>3. Calling
    <2>1. \A c \in Callers : call[c] = Viewer!Idle /\ call[c].id <= sent
      BY <1>c, <1>s
    <2> QED BY <2>1, <1>c DEF Calling, CallIs
  <1>4. Telling
    BY <1>0 DEF Telling, Viewer!ReportsAreTrue, Viewer!Ids, Reports
  <1>5. InTheBox /\ Handled
    <2>1. hand.id <= sent
      BY <1>d, <1>s
    <2> QED BY <2>1, <1>d DEF InTheBox, Handled
  <1> QED BY <1>1, <1>2, <1>3, <1>4, <1>5 DEF ViewerInv

\* What a step leaves alone stays so.
LEMMA ViewerFrames ==
  ASSUME ViewerInv
  PROVE  /\ UNCHANGED owner => Named'
         /\ UNCHANGED <<worker, disk, holder, sent, applied, arrived>> => Terminal'
         /\ UNCHANGED <<last, movement, loaded, sent, applied, arrived>> => Window'
         /\ UNCHANGED <<pub, sent, applied, arrived>> => Ready'
         /\ UNCHANGED <<call, sent, applied>> => Calling'
         /\ UNCHANGED <<told, sent, applied, arrived>> => Telling'
         /\ UNCHANGED <<inbox, hand, told, call, sent, applied, last, pub>> => InTheBox'
         /\ UNCHANGED <<hand, worker, told, late, call, sent, applied, last, pub>> => Handled'
  <1> USE DEF ViewerInv
  <1>a. UNCHANGED owner => Named'
    BY DEF Named
  <1>b. UNCHANGED <<worker, disk, holder, sent, applied, arrived>> => Terminal'
    BY DEF Terminal
  <1>1. UNCHANGED <<last, movement, loaded, sent, applied, arrived>> => Window'
    BY DEF Window, TrueCommand, TrueMotion
  <1>2. UNCHANGED <<pub, sent, applied, arrived>> => Ready'
    BY DEF Ready, TrueCommand, TrueMotion
  <1>3. UNCHANGED <<call, sent, applied>> => Calling'
    BY DEF Calling, CallIs
  <1>4. UNCHANGED <<told, sent, applied, arrived>> => Telling'
    BY DEF Telling, Viewer!ReportsAreTrue
  <1>5. UNCHANGED <<inbox, hand, told, call, sent, applied, last, pub>> => InTheBox'
    BY DEF InTheBox, Undone, Opens
  <1>6. UNCHANGED <<hand, worker, told, late, call, sent, applied, last, pub>> => Handled'
    BY DEF Handled, Undone, Opens
  <1> QED BY <1>a, <1>b, <1>1, <1>2, <1>3, <1>4, <1>5, <1>6

\* More is sent, applied and reached, and it stays true.
LEMMA StillTrue ==
  ASSUME ViewerInv, sent' \in Nat, sent <= sent', UNCHANGED <<applied, arrived>>
  PROVE  /\ \A l : TrueCommand(l) => TrueCommand(l)'
         /\ \A m : TrueMotion(m) => TrueMotion(m)'
         /\ \A r : CallIs(r) => CallIs(r)'
  <1>0. sent \in Nat /\ MaxSent \in Nat
    BY ViewerAssumption DEF ViewerInv, Terminal
  <1>1. ASSUME NEW l, TrueCommand(l) PROVE TrueCommand(l)'
    BY <1>0, <1>1 DEF TrueCommand, CommandState
  <1>2. ASSUME NEW m, TrueMotion(m) PROVE TrueMotion(m)'
    BY <1>0, <1>2 DEF TrueMotion
  <1>3. ASSUME NEW r, CallIs(r) PROVE CallIs(r)'
    BY <1>0, <1>3 DEF CallIs, CallState
  <1> QED BY <1>1, <1>2, <1>3

\* One caller is somewhere else.
LEMMA CallStep ==
  ASSUME ViewerInv, NEW c \in Callers, NEW r \in CallState, call' = [call EXCEPT ![c] = r], r.id <= sent',
         r.pc \in {"spawned", "opening", "waiting"} => r.id # 0, r.pc = "watching" => r.watch \in applied,
         sent' \in Nat, sent <= sent', UNCHANGED <<applied, arrived>>
  PROVE  /\ Calling'
         /\ \A i : Opens(i)' => Opens(i) \/ (r.pc \in {"spawned", "opening"} /\ r.id = i)
  <1>2. call' \in [Callers -> CallState] /\ call'[c] = r /\ \A u \in Callers \ {c} : call'[u] = call[u]
    BY DEF ViewerInv, Calling
  <1>3. ASSUME NEW u \in Callers PROVE CallIs(call[u])'
    <2>1. CASE u = c
      BY <2>1, <1>2 DEF CallIs
    <2>2. CASE u # c
      <3>1. CallIs(call[u]) /\ sent \in Nat /\ call[u].id \in Nat
        BY DEF ViewerInv, Calling, Terminal, CallIs, CallState
      <3> QED BY <2>2, <3>1, <1>2 DEF CallIs
    <2> QED BY <2>1, <2>2
  <1>4. Calling'
    BY <1>2, <1>3 DEF Calling
  <1>5. ASSUME NEW i, Opens(i)' PROVE Opens(i) \/ (r.pc \in {"spawned", "opening"} /\ r.id = i)
    BY <1>2, <1>5 DEF Opens
  <1> QED BY <1>4, <1>5

\* No more opens a window than did.
LEMMA StillUndone ==
  ASSUME ViewerInv, UNCHANGED <<last, pub, applied>>,
         NEW i, Opens(i)' => Opens(i), Undone(i)
  PROVE  Undone(i)'
  BY DEF Undone

LEMMA BlankWindow ==
  /\ Viewer!NoCommand \in CommandState /\ Viewer!NoCommand.id = 0
  /\ Viewer!NoMotion \in MotionState /\ Viewer!NoMotion.state = "idle"
  /\ Viewer!Empty \in HandState /\ Viewer!Empty.pc = "loop" /\ Viewer!Empty.id = 0
  /\ \A n \in Nat : Viewer!NoCommand.id <= n /\ Viewer!Empty.id <= n
  <1>0. 0 \in 0..MaxSent
    BY ViewerAssumption
  <1> QED BY <1>0 DEF Viewer!NoCommand, CommandState, Viewer!NoMotion, MotionState, Viewer!Empty, HandState, CommandKinds

LEMMA BasicFacts ==
  ASSUME ViewerInv
  PROVE  /\ MaxSent \in Nat /\ sent \in Nat /\ sent <= MaxSent
         /\ \A i \in applied : i \in 1..sent
         /\ \A c \in Callers : CallIs(call[c]) /\ call[c] \in CallState /\ call[c].id \in Nat
         /\ hand.id \in Nat /\ last.id \in Nat
         /\ pub # Absent => pub.last.id \in Nat
         /\ inbox # Absent => inbox.id \in Nat /\ inbox.id # 0
         /\ hand.id # 0 => hand.id \in 1..MaxSent
         /\ inbox # Absent => inbox.id \in 1..MaxSent
  <1> USE DEF ViewerInv
  <1>1. MaxSent \in Nat /\ sent \in Nat /\ sent <= MaxSent /\ applied \subseteq 1..sent
    BY ViewerAssumption DEF Terminal
  <1>2. \A c \in Callers : CallIs(call[c]) /\ call[c] \in CallState /\ call[c].id \in Nat
    BY DEF Calling, CallIs, CallState
  <1>3. hand.id \in Nat /\ (hand.id # 0 => hand.id \in 1..MaxSent)
    <2>1. hand \in HandState
      BY DEF Handled
    <2> QED BY <2>1, <1>1 DEF HandState
  <1>4. last.id \in Nat
    BY DEF Window, TrueCommand, CommandState
  <1>5. pub # Absent => pub.last.id \in Nat
    BY DEF Ready, TrueCommand, CommandState
  <1>6. inbox # Absent => inbox.id \in Nat /\ inbox.id # 0 /\ inbox.id \in 1..MaxSent
    <2>1. inbox # Absent => inbox \in Message
      BY DEF InTheBox
    <2> QED BY <2>1, <1>1 DEF Message
  <1> QED BY <1>1, <1>2, <1>3, <1>4, <1>5, <1>6

\* What is sent next is new to everybody.
LEMMA NextIsNew ==
  ASSUME ViewerInv, sent < MaxSent
  PROVE  /\ sent + 1 \in 1..MaxSent /\ sent + 1 \notin applied /\ sent + 1 # last.id /\ ~Opens(sent + 1)
         /\ pub # Absent => sent + 1 # pub.last.id
         /\ inbox # Absent => sent + 1 # inbox.id
         /\ sent + 1 # hand.id /\ told[sent + 1] = ""
  <1>1. \A c \in Callers : call[c].id <= sent /\ call[c].id \in Nat
    BY BasicFacts DEF CallIs
  <1>2. /\ last.id <= sent /\ hand.id <= sent
        /\ pub # Absent => pub.last.id <= sent
        /\ inbox # Absent => inbox.id <= sent
    BY DEF ViewerInv, Window, Ready, InTheBox, Handled, TrueCommand
  <1>3. MaxSent \in Nat /\ sent \in Nat /\ \A i \in applied : i \in 1..sent
    BY BasicFacts
  <1>4. sent + 1 \in 1..MaxSent /\ sent + 1 > sent
    BY <1>3
  <1>5. told[sent + 1] = ""
    BY <1>4 DEF ViewerInv, Telling
  <1>6. \A i \in Nat : i <= sent => i # sent + 1
    BY <1>3
  <1>7. sent + 1 \notin applied
    BY <1>3
  <1>8. ~Opens(sent + 1)
    BY <1>1, <1>6 DEF Opens
  <1>9. hand.id \in Nat /\ last.id \in Nat /\ (pub # Absent => pub.last.id \in Nat) /\ (inbox # Absent => inbox.id \in Nat)
    BY BasicFacts
  <1> QED BY <1>2, <1>4, <1>5, <1>6, <1>7, <1>8, <1>9

\* A caller is told something that is true.
LEMMA TellStep ==
  ASSUME ViewerInv, NEW i \in 1..sent', NEW a \in Reports, told' = [told EXCEPT ![i] = a],
         sent' \in Nat, sent <= sent', sent' <= MaxSent, UNCHANGED <<applied, arrived>>,
         a = "executed" => i \in applied, a = "refused" => i \notin applied, a = "reached" => i \in arrived
  PROVE  Telling' /\ told'[i] = a /\ \A j \in 1..MaxSent : j # i => told'[j] = told[j]
  <1>1. MaxSent \in Nat /\ sent \in Nat /\ told \in [1..MaxSent -> Reports] /\ i \in 1..MaxSent
    <2>1. MaxSent \in Nat /\ sent \in Nat
      BY BasicFacts
    <2>2. i \in 1..MaxSent
      BY <2>1
    <2> QED BY <2>1, <2>2 DEF ViewerInv, Telling
  <1>2. told' \in [1..MaxSent -> Reports] /\ told'[i] = a /\ \A j \in (1..MaxSent) \ {i} : told'[j] = told[j]
    BY <1>1
  <1>3. Viewer!ReportsAreTrue'
    BY <1>1, <1>2 DEF ViewerInv, Telling, Viewer!ReportsAreTrue, Viewer!Ids
  <1>4. \A j \in 1..MaxSent : j > sent' => told'[j] = ""
    <2>1. \A j \in 1..MaxSent : j > sent => told[j] = ""
      BY DEF ViewerInv, Telling
    <2>2. \A j \in 1..MaxSent : j > sent' => j > sent /\ j # i
      BY <1>1
    <2> QED BY <2>1, <2>2, <1>2
  <1> QED BY <1>2, <1>3, <1>4 DEF Telling

\* One more is sent.
LEMMA SentStep ==
  ASSUME ViewerInv, sent < MaxSent, sent' = sent + 1, UNCHANGED <<applied, arrived>>
  PROVE  /\ sent' \in Nat /\ sent <= sent' /\ sent' <= sent' /\ sent' <= MaxSent
         /\ sent' \in 1..sent' /\ sent' \in 0..MaxSent /\ sent' # 0
         /\ applied' \subseteq 1..sent' /\ arrived' \subseteq applied'
         /\ \A i \in Nat : i <= sent => i # sent' /\ i <= sent'
         /\ UNCHANGED told => Telling'
  <1>1. MaxSent \in Nat /\ sent \in Nat /\ applied \subseteq 1..sent /\ arrived \subseteq applied
    BY BasicFacts DEF ViewerInv, Terminal
  <1>2. /\ sent' \in Nat /\ sent <= sent' /\ sent' <= sent' /\ sent' <= MaxSent
        /\ sent' \in 1..sent' /\ sent' \in 0..MaxSent /\ sent' # 0
        /\ 1..sent \subseteq 1..sent' /\ \A i \in 1..MaxSent : i > sent' => i > sent
    BY <1>1
  <1>3. \A i \in Nat : i <= sent => i # sent' /\ i <= sent'
    BY <1>1
  <1>4. ASSUME UNCHANGED told PROVE Telling'
    BY <1>2, <1>4 DEF ViewerInv, Telling, Viewer!ReportsAreTrue
  <1> QED BY <1>1, <1>2, <1>3, <1>4

\* Commands wait while somebody is told of another one.
LEMMA WaitStep ==
  ASSUME ViewerInv, sent' \in Nat, sent <= sent', UNCHANGED <<hand, worker, inbox, last, pub, applied>>,
         \A j \in late : j \in late',
         NEW i, hand.id # i, inbox # Absent => inbox.id # i,
         \A j \in 1..MaxSent : j # i => told'[j] = told[j],
         \A j : Opens(j)' => Opens(j) \/ j = i
  PROVE  InTheBox' /\ Handled'
  <1>1. \A j : Undone(j) /\ j # i => Undone(j)'
    BY DEF Undone
  <1>2. /\ hand.id # 0 => told'[hand.id] = told[hand.id]
        /\ inbox # Absent => told'[inbox.id] = told[inbox.id]
    BY BasicFacts
  <1>3. \A n \in Nat : n <= sent => n <= sent'
    BY BasicFacts
  <1>4. InTheBox'
    BY <1>1, <1>2, <1>3, BasicFacts DEF ViewerInv, InTheBox
  <1>5. hand.id # 0 => /\ Undone(hand.id)' /\ told'[hand.id] \in {"", "unknown"}
                       /\ told'[hand.id] = "unknown" => hand.id \in late'
    BY <1>1, <1>2 DEF ViewerInv, Handled
  <1>6. Handled'
    BY <1>5, <1>3, BasicFacts DEF ViewerInv, Handled, Undone
  <1> QED BY <1>4, <1>6

LEMMA OpenKeeps ==
  ASSUME ViewerInv, NEW c \in Callers, NEW force \in BOOLEAN, Viewer!Open(c, force)
  PROVE  ViewerInv'
  <1> USE DEF ViewerInv, Viewer!wvars, Viewer!files
  <1>0. sent < MaxSent /\ sent' = sent + 1 /\ UNCHANGED <<late, applied, arrived, disk>>
    BY DEF Viewer!Open
  <1>s. /\ sent' \in Nat /\ sent <= sent' /\ sent' <= sent' /\ sent' <= MaxSent
        /\ sent' \in 1..sent' /\ sent' \in 0..MaxSent /\ sent' # 0
        /\ applied' \subseteq 1..sent' /\ arrived' \subseteq applied'
        /\ \A i \in Nat : i <= sent => i # sent' /\ i <= sent'
        /\ UNCHANGED told => Telling'
    BY <1>0, SentStep
  <1>1. CASE Viewer!Reuses(force)
    <2>1. told' = [told EXCEPT ![sent'] = "shown"] /\ UNCHANGED <<worker, owner, hand, last, movement, loaded, pub, inbox, holder, call>>
      BY <1>1 DEF Viewer!Open, Viewer!Answer
    <2>2. Telling' /\ \A j \in 1..MaxSent : j # sent' => told'[j] = told[j]
      <3>1. "shown" \in Reports
        BY DEF Reports
      <3> QED BY <2>1, <3>1, <1>0, <1>s, TellStep
    <2>3. Terminal' /\ Named' /\ Window' /\ Ready' /\ Calling'
      BY <2>1, <1>0, <1>s, StillTrue DEF Terminal, Named, Window, Ready, Calling
    <2>4. \A i : Opens(i)' => Opens(i)
      BY <2>1 DEF Opens
    <2>5. hand.id # sent' /\ (inbox # Absent => inbox.id # sent')
      BY <1>s, BasicFacts DEF Handled, InTheBox
    <2>6. InTheBox' /\ Handled'
      <3>1. /\ UNCHANGED <<hand, worker, inbox, last, pub, applied>> /\ \A j \in late : j \in late'
            /\ sent' \in Nat /\ sent <= sent'
        BY <2>1, <1>0, <1>s
      <3>2. PICK n : n = sent'
        OBVIOUS
      <3> QED BY <3>1, <3>2, <2>2, <2>4, <2>5, WaitStep
    <2> QED BY <2>2, <2>3, <2>6
  <1>2. CASE ~Viewer!Reuses(force)
    <2> DEFINE r == [Viewer!Idle EXCEPT !.pc = "spawned", !.id = sent', !.scene = disk]
    <2>1. /\ worker' = "starting" /\ owner' = FALSE /\ hand' = Viewer!Empty
          /\ movement' = Viewer!NoMotion /\ last' = Viewer!NoCommand /\ loaded' = 0
          /\ pub' = Absent /\ inbox' = Absent /\ holder' = c
          /\ call' = [call EXCEPT ![c] = r] /\ UNCHANGED told
      BY <1>2, IdleIsCall DEF Viewer!Open, CallState
    <2>2. disk \in Nat
      BY DEF Terminal
    <2>3. r \in CallState /\ r.pc = "spawned" /\ r.id = sent'
      BY <2>2, <1>s, IdleIsCall DEF CallState, CallSteps
    <2> HIDE DEF r
    <2>4. Calling'
      BY <1>0, <1>s, <2>1, <2>3, CallStep
    <2>5. Terminal' /\ Named'
      BY <2>1, <2>2, <1>0, <1>s DEF Terminal, Named
    <2>6. Telling'
      BY <2>1, <1>s
    <2>7. Window' /\ Ready'
      BY <2>1, <1>s, BlankWindow DEF Window, Ready, TrueCommand, TrueMotion
    <2>8. InTheBox' /\ Handled'
      BY <2>1, <1>s, BlankWindow DEF InTheBox, Handled
    <2> QED BY <2>4, <2>5, <2>6, <2>7, <2>8
  <1> QED BY <1>1, <1>2


LEMMA RecordOwnerKeeps ==
  ASSUME ViewerInv, NEW c \in Callers, Viewer!RecordOwner(c)
  PROVE  ViewerInv'
  <1> USE DEF ViewerInv, Viewer!wvars, Viewer!files, Viewer!bounds
  <1> DEFINE r == [call[c] EXCEPT !.pc = "opening"]
  <1>1. /\ UNCHANGED <<worker, hand, movement, last, loaded, pub, inbox, late, holder, told, applied, arrived, disk, sent>>
        /\ call[c].pc = "spawned" /\ owner' = TRUE /\ call' = [call EXCEPT ![c] = r]
    BY DEF Viewer!RecordOwner
  <1>2. r \in CallState /\ r.pc = "opening" /\ r.id = call[c].id /\ CallIs(call[c])
    BY BasicFacts DEF CallState, CallSteps
  <1> HIDE DEF r
  <1>3. sent \in Nat /\ sent <= sent
    BY BasicFacts
  <1>4. Calling' /\ \A i : Opens(i)' => Opens(i) \/ r.id = i
    BY <1>1, <1>2, <1>3, CallStep DEF CallIs
  <1>5. Opens(call[c].id)
    BY <1>1 DEF Opens
  <1>6. \A i : Opens(i)' => Opens(i) \/ i = call[c].id
    BY <1>2, <1>4
  <1>7. hand.id # call[c].id /\ (inbox # Absent => inbox.id # call[c].id)
    BY <1>1, <1>2, <1>5 DEF Handled, InTheBox, Undone, CallIs
  <1>8. InTheBox' /\ Handled'
    BY <1>1, <1>3, <1>6, <1>7, WaitStep
  <1> QED BY <1>1, <1>4, <1>8, ViewerFrames DEF Named

\* A caller is told of a command that nobody has at hand, and is somewhere else.
LEMMA AnsweredStep ==
  ASSUME ViewerInv, NEW c \in Callers, NEW r \in CallState, NEW i \in 1..sent, NEW a \in Reports,
         UNCHANGED <<worker, owner, hand, movement, last, loaded, pub, inbox, late, disk, applied, arrived, sent>>,
         holder' \in Callers \cup {Absent}, call' = [call EXCEPT ![c] = r], told' = [told EXCEPT ![i] = a],
         r.id <= sent, r.pc \in {"idle", "watching", "stopping"}, r.pc = "watching" => r.watch \in applied,
         hand.id # i, inbox # Absent => inbox.id # i,
         a = "executed" => i \in applied, a = "refused" => i \notin applied, a = "reached" => i \in arrived
  PROVE  ViewerInv'
  <1> USE DEF ViewerInv
  <1>1. sent' \in Nat /\ sent <= sent' /\ sent' <= MaxSent /\ i \in 1..sent'
    BY BasicFacts
  <1>2. Calling' /\ \A j : Opens(j)' => Opens(j)
    BY <1>1, CallStep
  <1>3. Telling' /\ \A j \in 1..MaxSent : j # i => told'[j] = told[j]
    BY <1>1, TellStep
  <1>4. \A j \in late : j \in late'
    OBVIOUS
  <1>5. InTheBox' /\ Handled'
    BY <1>1, <1>2, <1>3, <1>4, WaitStep
  <1>6. Named' /\ Window' /\ Ready'
    BY ViewerFrames
  <1>7. Terminal'
    BY DEF Terminal
  <1> QED BY <1>2, <1>3, <1>5, <1>6, <1>7

\* The command of a window that is being opened is at nobody's hand.
LEMMA OpeningIsNowhere ==
  ASSUME ViewerInv, NEW c \in Callers, call[c].pc \in {"spawned", "opening"}
  PROVE  /\ call[c].id \in 1..sent /\ hand.id # call[c].id
         /\ inbox # Absent => inbox.id # call[c].id
  <1>1. CallIs(call[c]) /\ call[c].id \in Nat /\ sent \in Nat
    BY BasicFacts
  <1>2. call[c].id \in 1..sent
    BY <1>1 DEF CallIs
  <1>3. Opens(call[c].id)
    BY DEF Opens
  <1> QED BY <1>1, <1>2, <1>3 DEF ViewerInv, Handled, InTheBox, Undone, CallIs

LEMMA OpenedKeeps ==
  ASSUME ViewerInv, NEW c \in Callers, Viewer!Opened(c)
  PROVE  ViewerInv'
  <1>1. /\ call[c].pc = "opening" /\ holder' = Absent /\ call' = [call EXCEPT ![c] = Viewer!Idle]
        /\ told' = [told EXCEPT ![call[c].id] = "shown"]
        /\ UNCHANGED <<worker, owner, hand, movement, last, loaded, pub, inbox, late, disk, applied, arrived, sent>>
    BY DEF Viewer!Opened, Viewer!Answer, Viewer!wvars, Viewer!files, Viewer!bounds
  <1>2. Viewer!Idle \in CallState /\ Viewer!Idle.pc = "idle" /\ Viewer!Idle.id <= sent
    BY IdleIsCall, BasicFacts
  <1>3. "shown" \in Reports
    BY DEF Reports
  <1> QED BY <1>1, <1>2, <1>3, OpeningIsNowhere, AnsweredStep

\* The window and its files are gone.
LEMMA ClosedStep ==
  ASSUME ViewerInv, Viewer!Closed, UNCHANGED <<sent, applied, arrived>>
  PROVE  Named' /\ Window' /\ Ready' /\ InTheBox' /\ Handled' /\ worker' = "none"
  <1>1. /\ worker' = "none" /\ owner' = FALSE /\ hand' = Viewer!Empty /\ pub' = Absent /\ inbox' = Absent
        /\ UNCHANGED <<movement, last, loaded>>
    BY DEF Viewer!Closed
  <1>2. sent \in Nat
    BY BasicFacts
  <1>3. Window'
    BY <1>1, ViewerFrames
  <1>4. Ready' /\ InTheBox'
    BY <1>1 DEF Ready, InTheBox
  <1>5. Handled'
    BY <1>1, <1>2, BlankWindow DEF Handled
  <1>6. Named'
    BY <1>1 DEF Named
  <1> QED BY <1>1, <1>3, <1>4, <1>5, <1>6

LEMMA OpenFailsKeeps ==
  ASSUME ViewerInv, NEW c \in Callers, Viewer!OpenFails(c)
  PROVE  ViewerInv'
  <1>1. /\ call[c].pc = "opening" /\ holder' = Absent /\ call' = [call EXCEPT ![c] = Viewer!Idle]
        /\ told' = [told EXCEPT ![call[c].id] = "failed"] /\ Viewer!Closed
        /\ UNCHANGED <<late, disk, applied, arrived, sent>>
    BY DEF Viewer!OpenFails, Viewer!Answer, Viewer!bounds
  <1>2. Viewer!Idle \in CallState /\ Viewer!Idle.pc = "idle" /\ Viewer!Idle.id <= sent
    BY IdleIsCall, BasicFacts
  <1>3. "failed" \in Reports
    BY DEF Reports
  <1>4. sent' \in Nat /\ sent <= sent' /\ sent' <= MaxSent /\ call[c].id \in 1..sent'
    BY <1>1, BasicFacts, OpeningIsNowhere
  <1>5. Telling'
    BY <1>1, <1>3, <1>4, TellStep
  <1>6. Calling'
    BY <1>1, <1>2, <1>4, CallStep
  <1>7. Named' /\ Window' /\ Ready' /\ InTheBox' /\ Handled' /\ worker' = "none"
    BY <1>1, ClosedStep
  <1>8. Terminal'
    BY <1>1, <1>7 DEF Terminal, ViewerInv
  <1> QED BY <1>5, <1>6, <1>7, <1>8 DEF ViewerInv

LEMMA ViewerCloseKeeps ==
  ASSUME ViewerInv, NEW c \in Callers, Viewer!Close(c)
  PROVE  ViewerInv'
  <1>1. Viewer!Closed /\ UNCHANGED <<late, holder, call, told, disk, applied, arrived, sent>>
    BY DEF Viewer!Close, Viewer!bounds
  <1>2. Named' /\ Window' /\ Ready' /\ InTheBox' /\ Handled' /\ worker' = "none"
    BY <1>1, ClosedStep
  <1>3. Terminal'
    BY <1>1, <1>2 DEF Terminal, ViewerInv
  <1> QED BY <1>1, <1>2, <1>3, ViewerFrames DEF ViewerInv

LEMMA RequestKeeps ==
  ASSUME ViewerInv, NEW c \in Callers, NEW k \in CommandKinds, Viewer!Request(c, k)
  PROVE  ViewerInv'
  <1> USE DEF ViewerInv
  <1>0. /\ sent < MaxSent /\ sent' = sent + 1
        /\ UNCHANGED <<worker, owner, hand, movement, last, loaded, pub, late, applied, arrived, disk>>
    BY DEF Viewer!Request, Viewer!wvars
  <1>s. /\ sent' \in Nat /\ sent <= sent' /\ sent' <= sent' /\ sent' <= MaxSent
        /\ sent' \in 1..sent' /\ sent' \in 0..MaxSent /\ sent' # 0
        /\ applied' \subseteq 1..sent' /\ arrived' \subseteq applied'
        /\ \A i \in Nat : i <= sent => i # sent' /\ i <= sent'
        /\ UNCHANGED told => Telling'
    BY <1>0, SentStep
  <1>n. PICK n : n = sent'
    OBVIOUS
  <1>m. /\ n \in 1..MaxSent /\ n \notin applied /\ n # last.id /\ ~Opens(n)
        /\ pub # Absent => n # pub.last.id
        /\ inbox # Absent => n # inbox.id
        /\ n # hand.id /\ told[n] = ""
    BY <1>n, <1>0, NextIsNew
  <1>w. Named' /\ Window' /\ Ready'
    BY <1>0, <1>s, StillTrue DEF Named, Window, Ready
  <1>l. \A j \in late : j \in late'
    BY <1>0
  <1>1. CASE Viewer!WindowOpen
    <2> DEFINE r == [call[c] EXCEPT !.pc = "waiting", !.id = n, !.kind = k]
    <2>1. /\ inbox' = [id |-> n, kind |-> k] /\ holder' = c /\ UNCHANGED told
          /\ call' = [call EXCEPT ![c].pc = "waiting", ![c].id = n, ![c].kind = k]
      BY <1>1, <1>n DEF Viewer!Request
    <2>2. call' = [call EXCEPT ![c] = r]
      BY <2>1, BasicFacts DEF Calling, CallState
    <2>3. r \in CallState /\ r.pc = "waiting" /\ r.id = n
      BY <1>s, <1>n, BasicFacts DEF CallState, CallSteps
    <2> HIDE DEF r
    <2>4. Calling' /\ \A j : Opens(j)' => Opens(j)
      BY <1>0, <1>s, <1>n, <2>2, <2>3, CallStep
    <2>5. Telling' /\ Terminal'
      BY <1>0, <1>s, <2>1 DEF Terminal
    <2>6. \A j : Undone(j) => Undone(j)'
      BY <1>0, <2>4 DEF Undone
    <2>7. Handled'
      BY <1>0, <1>s, <2>1, <2>6, BasicFacts DEF Handled
    <2>8. Undone(n)'
      BY <1>m, <2>6 DEF Undone
    <2>9. inbox' \in Message /\ inbox'.id = n
      BY <2>1, <1>m DEF Message
    <2>10. InTheBox'
      BY <1>n, <1>0, <1>s, <1>m, <2>1, <2>8, <2>9 DEF InTheBox
    <2> QED BY <1>w, <2>4, <2>5, <2>7, <2>10
  <1>2. CASE ~Viewer!WindowOpen
    <2>1. /\ told' = [told EXCEPT ![n] = "refused"] /\ call' = [call EXCEPT ![c] = Viewer!Idle]
          /\ UNCHANGED <<inbox, holder>>
      BY <1>2, <1>n DEF Viewer!Request, Viewer!Answer
    <2>2. Viewer!Idle \in CallState /\ Viewer!Idle.pc = "idle" /\ Viewer!Idle.id <= sent'
      BY IdleIsCall, <1>s
    <2>3. Calling' /\ \A j : Opens(j)' => Opens(j)
      BY <1>0, <1>s, <2>1, <2>2, CallStep
    <2>4. "refused" \in Reports
      BY DEF Reports
    <2>5. Telling' /\ \A j \in 1..MaxSent : j # n => told'[j] = told[j]
      BY <1>0, <1>s, <1>n, <1>m, <2>1, <2>4, TellStep
    <2>6. InTheBox' /\ Handled'
      BY <1>0, <1>s, <1>l, <1>m, <2>1, <2>3, <2>5, WaitStep
    <2>7. Terminal'
      BY <1>0, <1>s, <2>1 DEF Terminal
    <2> QED BY <1>w, <2>3, <2>5, <2>6, <2>7
  <1> QED BY <1>1, <1>2

LEMMA AcknowledgedKeeps ==
  ASSUME ViewerInv, NEW c \in Callers, Viewer!Acknowledged(c)
  PROVE  ViewerInv'
  <1> DEFINE i == call[c].id
             r == IF call[c].kind = "move" /\ pub.last.ok THEN [Viewer!Idle EXCEPT !.pc = "watching", !.watch = call[c].id] ELSE Viewer!Idle
             a == IF pub.last.ok THEN "executed" ELSE "refused"
  <1>1. /\ call[c].pc = "waiting" /\ pub # Absent /\ pub.last.id = i /\ holder' = Absent
        /\ call' = [call EXCEPT ![c] = r] /\ told' = [told EXCEPT ![i] = a]
        /\ UNCHANGED <<worker, owner, hand, movement, last, loaded, pub, inbox, late, disk, applied, arrived, sent>>
    BY DEF Viewer!Acknowledged, Viewer!Answer, Viewer!wvars, Viewer!files, Viewer!bounds
  <1>2. CallIs(call[c]) /\ call[c] \in CallState /\ i \in Nat /\ sent \in Nat
    BY BasicFacts
  <1>3. i # 0 /\ i \in 1..sent
    BY <1>1, <1>2 DEF CallIs
  <1>4. pub.last.ok <=> i \in applied
    BY <1>1, <1>3 DEF ViewerInv, Ready, TrueCommand
  <1>5. hand.id # i /\ (inbox # Absent => inbox.id # i)
    BY <1>1, <1>3 DEF ViewerInv, Handled, InTheBox, Undone
  <1>6. a \in Reports /\ (a = "executed" => i \in applied) /\ (a = "refused" => i \notin applied) /\ a # "reached"
    BY <1>4 DEF Reports
  <1>7. r \in CallState /\ r.pc \in {"idle", "watching"} /\ r.id = 0 /\ (r.pc = "watching" => r.watch \in applied)
    <2>1. CASE call[c].kind = "move" /\ pub.last.ok
      <3>1. i \in 0..MaxSent
        BY <1>2 DEF CallState
      <3> QED BY <2>1, <3>1, <1>4, IdleIsCall DEF CallState, CallSteps
    <2>2. CASE ~(call[c].kind = "move" /\ pub.last.ok)
      BY <2>2, IdleIsCall
    <2> QED BY <2>1, <2>2
  <1>8. r.id <= sent
    BY <1>7, <1>2
  <1> HIDE DEF r, a, i
  <1> QED BY <1>1, <1>3, <1>5, <1>6, <1>7, <1>8, AnsweredStep

LEMMA GivesUpKeeps ==
  ASSUME ViewerInv, NEW c \in Callers, Viewer!GivesUp(c)
  PROVE  ViewerInv'
  <1> USE DEF ViewerInv
  <1>1. /\ call[c].pc = "waiting" /\ Viewer!Silent(c) /\ inbox' = Absent /\ holder' = Absent
        /\ call' = [call EXCEPT ![c] = Viewer!Idle] /\ told' = [told EXCEPT ![call[c].id] = "unknown"]
        /\ UNCHANGED <<worker, owner, hand, movement, last, loaded, pub, late, disk, applied, arrived, sent>>
    BY DEF Viewer!GivesUp, Viewer!Answer, Viewer!wvars, Viewer!bounds
  <1>i. PICK i : i = call[c].id
    OBVIOUS
  <1>2. CallIs(call[c]) /\ call[c].id \in Nat /\ sent \in Nat /\ sent <= MaxSent
    BY BasicFacts
  <1>3. i \in 1..sent
    BY <1>1, <1>2, <1>i DEF CallIs
  <1>4. sent' \in Nat /\ sent <= sent' /\ sent' <= MaxSent /\ i \in 1..sent'
    BY <1>1, <1>2, <1>3
  <1>5. "unknown" \in Reports
    BY DEF Reports
  <1>6. Telling' /\ told'[i] = "unknown" /\ \A j \in 1..MaxSent : j # i => told'[j] = told[j]
    BY <1>1, <1>i, <1>4, <1>5, TellStep
  <1>7. Viewer!Idle \in CallState /\ Viewer!Idle.pc = "idle" /\ Viewer!Idle.id <= sent'
    BY <1>1, IdleIsCall, BasicFacts
  <1>8. Calling' /\ \A j : Opens(j)' => Opens(j)
    BY <1>1, <1>4, <1>7, CallStep
  <1>9. InTheBox'
    BY <1>1 DEF InTheBox
  <1>10. \A j : Undone(j) => Undone(j)'
    BY <1>1, <1>8 DEF Undone
  <1>11. hand.id # 0 => told'[hand.id] \in {"", "unknown"} /\ (told'[hand.id] = "unknown" => hand.id \in late)
    <2>1. CASE hand.id = i /\ hand.id # 0
      <3>1. worker = "alive"
        BY <2>1 DEF Handled
      <3>2. i \in late
        BY <1>1, <1>i, <3>1 DEF Viewer!Silent, Viewer!Running
      <3> QED BY <2>1, <3>2, <1>6
    <2>2. CASE hand.id # i /\ hand.id # 0
      BY <2>2, <1>6, BasicFacts DEF Handled
    <2> QED BY <2>1, <2>2
  <1>12. Handled'
    BY <1>1, <1>10, <1>11 DEF Handled
  <1>13. Terminal'
    BY <1>1 DEF Terminal
  <1> QED BY <1>1, <1>6, <1>8, <1>9, <1>12, <1>13, ViewerFrames

\* The command that is followed was carried out, and is at nobody's hand.
LEMMA WatchedIsNowhere ==
  ASSUME ViewerInv, NEW c \in Callers, call[c].pc = "watching"
  PROVE  /\ call[c].watch \in 1..sent /\ call[c].watch \in applied /\ hand.id # call[c].watch
         /\ inbox # Absent => inbox.id # call[c].watch
  <1>1. call[c].watch \in applied
    BY BasicFacts DEF CallIs
  <1>2. call[c].watch \in 1..sent /\ call[c].watch # 0
    BY <1>1, BasicFacts
  <1> QED BY <1>1, <1>2 DEF ViewerInv, Handled, InTheBox, Undone

LEMMA MotionEndsKeeps ==
  ASSUME ViewerInv, NEW c \in Callers, Viewer!MotionEnds(c)
  PROVE  ViewerInv'
  <1> DEFINE i == call[c].watch
             a == IF ~Viewer!Replaced(c) /\ Viewer!WindowOpen /\ Viewer!Shown.state = "succeeded" THEN "reached" ELSE "ended"
  <1>1. /\ call[c].pc = "watching" /\ call' = [call EXCEPT ![c] = Viewer!Idle] /\ told' = [told EXCEPT ![i] = a]
        /\ UNCHANGED <<worker, owner, hand, movement, last, loaded, pub, inbox, late, holder, disk, applied, arrived, sent>>
    BY DEF Viewer!MotionEnds, Viewer!Watches, Viewer!Answer, Viewer!wvars, Viewer!files, Viewer!bounds
  <1>2. Viewer!Idle \in CallState /\ Viewer!Idle.pc = "idle" /\ Viewer!Idle.id <= sent
    BY IdleIsCall, BasicFacts
  <1>3. a \in Reports /\ a # "executed" /\ a # "refused"
    BY DEF Reports
  <1>4. a = "reached" => i \in arrived
    <2> SUFFICES ASSUME ~Viewer!Replaced(c), Viewer!WindowOpen, Viewer!Shown.state = "succeeded" PROVE i \in arrived
      OBVIOUS
    <2>1. pub # Absent /\ Viewer!Shown = pub.motion
      BY DEF Viewer!WindowOpen, Viewer!Shown
    <2>2. pub.motion.id \in arrived
      BY <2>1 DEF ViewerInv, Ready, TrueMotion
    <2>3. pub.motion.id # 0
      BY <2>2, BasicFacts DEF ViewerInv, Terminal
    <2> QED BY <2>1, <2>2, <2>3 DEF Viewer!Replaced
  <1>5. holder' \in Callers \cup {Absent}
    BY <1>1 DEF ViewerInv, Terminal
  <1> HIDE DEF a
  <1> QED BY <1>1, <1>2, <1>3, <1>4, <1>5, WatchedIsNowhere, AnsweredStep

LEMMA StopsMotionKeeps ==
  ASSUME ViewerInv, NEW c \in Callers, Viewer!StopsMotion(c)
  PROVE  ViewerInv'
  <1> DEFINE r == [call[c] EXCEPT !.pc = "stopping"]
  <1>1. /\ call[c].pc = "watching" /\ told' = [told EXCEPT ![call[c].watch] = "ended"]
        /\ UNCHANGED <<worker, owner, hand, movement, last, loaded, pub, inbox, late, holder, disk, applied, arrived, sent>>
    BY DEF Viewer!StopsMotion, Viewer!Watches, Viewer!Answer, Viewer!wvars, Viewer!files, Viewer!bounds
  <1>2. call' = [call EXCEPT ![c] = r]
    BY DEF Viewer!StopsMotion
  <1>3. r \in CallState /\ r.pc = "stopping" /\ r.id = call[c].id /\ CallIs(call[c])
    BY BasicFacts DEF CallState, CallSteps
  <1>4. r.id <= sent
    BY <1>3 DEF CallIs
  <1>5. "ended" \in Reports
    BY DEF Reports
  <1>6. holder' \in Callers \cup {Absent}
    BY <1>1 DEF ViewerInv, Terminal
  <1> HIDE DEF r
  <1> QED BY <1>1, <1>2, <1>3, <1>4, <1>5, <1>6, WatchedIsNowhere, AnsweredStep

LEMMA IdRange ==
  ASSUME ViewerInv
  PROVE  \A i \in 1..MaxSent : i \in 0..MaxSent /\ (i <= sent => i \in 1..sent)
  <1>1. sent \in Nat /\ MaxSent \in Nat
    BY BasicFacts
  <1> QED BY <1>1

\* What the worker publishes is what it knows.
LEMMA PublishStep ==
  ASSUME ViewerInv, Window', NEW b \in BOOLEAN,
         pub' = [open |-> b, motion |-> movement', last |-> last', scene |-> loaded']
  PROVE  Ready' /\ pub'.last = last'
  <1>1. pub'.last = last' /\ pub'.motion = movement'
    OBVIOUS
  <1>2. last' \in CommandState /\ movement' \in MotionState /\ loaded' \in Nat
    BY DEF Window, TrueCommand, TrueMotion
  <1>3. pub' \in ReadyFile
    BY <1>2 DEF ReadyFile
  <1> QED BY <1>1, <1>3 DEF Ready, Window, TrueCommand, TrueMotion

\* The message waits while the worker does something else.
LEMMA InboxWaits ==
  ASSUME ViewerInv, UNCHANGED <<inbox, told, sent, call>>,
         inbox # Absent => inbox.id \notin applied' /\ inbox.id # last'.id /\ inbox.id # hand'.id
                           /\ (pub' # Absent => inbox.id # pub'.last.id)
  PROVE  InTheBox'
  <1>1. \A i : Opens(i)' <=> Opens(i)
    BY DEF Opens
  <1> QED BY <1>1 DEF ViewerInv, InTheBox, Undone

LEMMA LoadKeeps ==
  ASSUME ViewerInv, Viewer!Load
  PROVE  ViewerInv'
  <1> USE DEF ViewerInv
  <1>1. /\ worker = "starting" /\ worker' = "alive" /\ loaded' = disk
        /\ UNCHANGED <<hand, movement, last, owner, inbox, late, holder, call, told, applied, arrived, disk, sent>>
        /\ pub' = [open |-> TRUE, motion |-> movement', last |-> last', scene |-> loaded']
    BY DEF Viewer!Load, Viewer!Publish, Viewer!bounds
  <1>2. Window'
    BY <1>1 DEF Window, TrueCommand, TrueMotion, Terminal
  <1>3. Ready' /\ pub'.last = last'
    BY <1>1, <1>2, PublishStep
  <1>4. InTheBox'
    BY <1>1, <1>3, InboxWaits DEF InTheBox, Undone
  <1>5. Handled'
    BY <1>1 DEF Handled
  <1>6. Terminal'
    BY <1>1 DEF Terminal
  <1> QED BY <1>1, <1>2, <1>3, <1>4, <1>5, <1>6, ViewerFrames

LEMMA DieKeeps ==
  ASSUME ViewerInv, NEW killed \in BOOLEAN, Viewer!Die(killed)
  PROVE  ViewerInv'
  <1> USE DEF ViewerInv
  <1>1. /\ worker' = "dead" /\ hand' = Viewer!Empty
        /\ UNCHANGED <<movement, last, loaded, owner, inbox, late, holder, call, told, applied, arrived, disk, sent>>
        /\ \/ UNCHANGED pub
           \/ pub' = [open |-> FALSE, motion |-> movement, last |-> last, scene |-> loaded]
    BY DEF Viewer!Die, Viewer!bounds
  <1>2. Window' /\ Calling' /\ Telling' /\ Named'
    BY <1>1, ViewerFrames
  <1>3. Ready' /\ (pub' = pub \/ pub'.last = last)
    <2>1. CASE UNCHANGED pub
      BY <2>1, <1>1, ViewerFrames
    <2>2. CASE pub' = [open |-> FALSE, motion |-> movement, last |-> last, scene |-> loaded]
      <3>1. Ready' /\ pub'.last = last'
        BY <2>2, <1>1, <1>2, PublishStep
      <3> QED BY <3>1, <1>1
    <2> QED BY <1>1, <2>1, <2>2
  <1>4. InTheBox'
    BY <1>1, <1>3, InboxWaits, BlankWindow, BasicFacts DEF InTheBox, Undone
  <1>5. Handled'
    BY <1>1, BasicFacts, BlankWindow DEF Handled
  <1>6. Terminal'
    BY <1>1 DEF Terminal
  <1> QED BY <1>2, <1>3, <1>4, <1>5, <1>6

LEMMA SeeKeeps ==
  ASSUME ViewerInv, Viewer!See
  PROVE  ViewerInv'
  <1> USE DEF ViewerInv
  <1>1. /\ worker = "alive" /\ hand.pc = "loop" /\ hand' = [hand EXCEPT !.pc = "sees"]
        /\ UNCHANGED <<worker, owner, movement, last, loaded, pub, inbox, late, holder, call, told, applied, arrived, disk, sent>>
    BY DEF Viewer!See, Viewer!At, Viewer!files, Viewer!bounds
  <1>2. hand' \in HandState /\ hand'.id = hand.id /\ hand'.pc = "sees"
    BY <1>1 DEF Handled, HandState
  <1>3. Handled'
    BY <1>1, <1>2 DEF Handled
  <1>4. InTheBox'
    BY <1>1, <1>2, InboxWaits DEF InTheBox, Undone
  <1> QED BY <1>1, <1>3, <1>4, ViewerFrames

LEMMA TakeKeeps ==
  ASSUME ViewerInv, Viewer!Take
  PROVE  ViewerInv'
  <1> USE DEF ViewerInv
  <1>1. /\ worker = "alive" /\ inbox # Absent /\ hand' = [pc |-> "took", id |-> inbox.id, kind |-> inbox.kind] /\ inbox' = Absent
        /\ UNCHANGED <<worker, owner, movement, last, loaded, pub, late, holder, call, told, applied, arrived, disk, sent>>
    BY DEF Viewer!Take, Viewer!At, Viewer!bounds
  <1>2. /\ inbox \in Message /\ inbox.id <= sent /\ Undone(inbox.id) /\ told[inbox.id] = ""
    BY <1>1 DEF InTheBox
  <1>3. hand' \in HandState /\ hand'.id = inbox.id /\ hand'.pc = "took" /\ inbox.id # 0
    <2>1. inbox.id # 0 /\ inbox.id \in 0..MaxSent /\ inbox.kind \in CommandKinds
      BY <1>1, <1>2, BasicFacts, IdRange DEF Message
    <2> QED BY <1>1, <2>1 DEF HandState
  <1>4. \A i : Undone(i) => Undone(i)'
    BY <1>1 DEF Undone, Opens
  <1>5. Handled'
    BY <1>1, <1>2, <1>3, <1>4 DEF Handled
  <1>6. InTheBox'
    BY <1>1 DEF InTheBox
  <1> QED BY <1>1, <1>5, <1>6, ViewerFrames

LEMMA CheckKeeps ==
  ASSUME ViewerInv, Viewer!Check
  PROVE  ViewerInv'
  <1> USE DEF ViewerInv
  <1>1. /\ worker = "alive" /\ hand.pc = "took" /\ hand' = [hand EXCEPT !.pc = "checked"]
        /\ UNCHANGED <<worker, owner, movement, last, loaded, pub, inbox, late, holder, call, told, applied, arrived, disk, sent>>
    BY DEF Viewer!Check, Viewer!At, Viewer!files, Viewer!bounds
  <1>2. hand' \in HandState /\ hand'.id = hand.id /\ hand'.pc = "checked"
    BY <1>1 DEF Handled, HandState
  <1>3. \A i : Undone(i) => Undone(i)'
    BY <1>1 DEF Undone, Opens
  <1>4. Handled'
    <2>1. hand.id # 0 /\ hand.id <= sent /\ Undone(hand.id) /\ told[hand.id] \in {"", "unknown"}
          /\ (told[hand.id] = "unknown" => hand.id \in late)
      BY <1>1 DEF Handled
    <2>2. PICK n : n = hand.id
      OBVIOUS
    <2>3. Undone(n)'
      BY <2>1, <2>2, <1>3
    <2>4. hand' \in HandState /\ hand'.id = n /\ hand'.pc = "checked" /\ UNCHANGED <<worker, told, late, sent>> /\ worker = "alive"
      BY <1>1, <1>2, <2>2
    <2> QED BY <2>1, <2>2, <2>3, <2>4 DEF Handled
  <1>5. InTheBox'
    BY <1>1, <1>2, InboxWaits DEF InTheBox, Undone
  <1> QED BY <1>1, <1>4, <1>5, ViewerFrames

\* The command at hand is dealt with.
LEMMA DealtWith ==
  ASSUME ViewerInv, hand.id # 0, NEW ok \in BOOLEAN, worker = "alive",
         last' = [id |-> hand.id, ok |-> ok], hand' = Viewer!Empty,
         applied' = IF ok THEN applied \cup {hand.id} ELSE applied,
         UNCHANGED <<worker, owner, loaded, inbox, late, holder, call, told, arrived, disk, sent>>,
         TrueMotion(movement)',
         pub' = [open |-> TRUE, motion |-> movement', last |-> last', scene |-> loaded']
  PROVE  ViewerInv'
  <1> USE DEF ViewerInv
  <1>1. /\ hand.id \in 1..MaxSent /\ hand.id <= sent /\ Undone(hand.id) /\ told[hand.id] \in {"", "unknown"}
    BY BasicFacts DEF Handled
  <1>2. hand.id \in 1..sent /\ sent \in Nat /\ MaxSent \in Nat
    BY <1>1, BasicFacts, IdRange
  <1>3. last' \in CommandState /\ last'.id = hand.id /\ last'.ok = ok
    <2>1. hand.id \in 0..MaxSent
      BY <1>1, IdRange
    <2> QED BY <2>1 DEF CommandState
  <1>4. TrueCommand(last)'
    <2>1. CASE ok
      BY <2>1, <1>1, <1>3 DEF TrueCommand
    <2>2. CASE ~ok
      BY <2>2, <1>1, <1>3 DEF TrueCommand, Undone
    <2> QED BY <2>1, <2>2
  <1>5. Window'
    BY <1>4 DEF Window
  <1>6. Ready' /\ pub'.last = last'
    BY <1>5, PublishStep
  <1>7. inbox # Absent => inbox.id # hand.id /\ inbox.id \notin applied' /\ inbox.id # 0
    BY BasicFacts DEF InTheBox, Undone
  <1>8. InTheBox'
    BY <1>3, <1>6, <1>7, BlankWindow, InboxWaits
  <1>9. Handled'
    BY BlankWindow, BasicFacts DEF Handled
  <1>10. applied \subseteq applied' /\ applied' \subseteq 1..sent /\ \A i \in 1..MaxSent : told[i] = "refused" => (i \in applied' <=> i \in applied)
    BY <1>1, <1>2 DEF Terminal
  <1>11. Telling'
    <2>1. Viewer!ReportsAreTrue'
      BY <1>10 DEF Telling, Viewer!ReportsAreTrue, Viewer!Ids
    <2> QED BY <2>1 DEF Telling
  <1>12. Terminal' /\ Named'
    BY <1>10 DEF Terminal, Named
  <1>13. Calling'
    BY <1>10 DEF Calling, CallIs
  <1> QED BY <1>5, <1>6, <1>8, <1>9, <1>11, <1>12, <1>13

LEMMA RefuseKeeps ==
  ASSUME ViewerInv, Viewer!Refuse
  PROVE  ViewerInv'
  <1> USE DEF ViewerInv
  <1>1. /\ worker = "alive" /\ hand.pc \in {"took", "checked"}
        /\ last' = [id |-> hand.id, ok |-> FALSE] /\ hand' = Viewer!Empty
        /\ UNCHANGED <<worker, owner, movement, loaded, inbox, late, holder, call, told, applied, arrived, disk, sent>>
        /\ pub' = [open |-> TRUE, motion |-> movement', last |-> last', scene |-> loaded']
    BY DEF Viewer!Refuse, Viewer!Refuses, Viewer!At, Viewer!Publish, Viewer!bounds
  <1>2. hand.id # 0
    BY <1>1 DEF Handled
  <1>3. TrueMotion(movement)'
    BY <1>1 DEF Window, TrueMotion
  <1>4. PICK ok \in BOOLEAN : ok = FALSE
    OBVIOUS
  <1> QED BY <1>1, <1>2, <1>3, <1>4, DealtWith

LEMMA CancelledIsTrue ==
  ASSUME ViewerInv
  PROVE  TrueMotion(Viewer!Cancelled(movement))
  <1>1. TrueMotion(movement)
    BY DEF ViewerInv, Window
  <1>2. CASE movement.state = "running"
    <2> DEFINE m == [movement EXCEPT !.state = "cancelled"]
    <2>1. m \in MotionState /\ m.state = "cancelled" /\ m.id = movement.id
      BY <1>1 DEF TrueMotion, MotionState
    <2>2. Viewer!Cancelled(movement) = m
      BY <1>2 DEF Viewer!Cancelled
    <2> HIDE DEF m
    <2> QED BY <1>1, <1>2, <2>1, <2>2 DEF TrueMotion
  <1>3. CASE movement.state # "running"
    BY <1>1, <1>3 DEF Viewer!Cancelled
  <1> QED BY <1>2, <1>3

LEMMA ApplyKeeps ==
  ASSUME ViewerInv, Viewer!Apply
  PROVE  ViewerInv'
  <1> USE DEF ViewerInv
  <1>1. /\ worker = "alive" /\ hand.pc = "checked"
        /\ last' = [id |-> hand.id, ok |-> TRUE] /\ hand' = Viewer!Empty
        /\ applied' = applied \cup {hand.id}
        /\ UNCHANGED <<worker, owner, loaded, inbox, late, holder, call, told, arrived, disk, sent>>
        /\ pub' = [open |-> TRUE, motion |-> movement', last |-> last', scene |-> loaded']
    BY DEF Viewer!Apply, Viewer!At, Viewer!Publish, Viewer!bounds
  <1>2. \/ movement' = [state |-> "running", id |-> hand.id]
        \/ movement' = Viewer!Cancelled(movement)
        \/ movement' = movement
    BY DEF Viewer!Apply
  <1>3. hand.id # 0 /\ hand.id \in 1..MaxSent
    BY <1>1, BasicFacts DEF Handled
  <1>4. TrueMotion(movement)'
    <2>1. CASE movement' = [state |-> "running", id |-> hand.id]
      <3>1. movement' \in MotionState /\ movement'.state = "running" /\ movement'.id = hand.id
        BY <2>1, <1>3 DEF MotionState
      <3> QED BY <3>1, <1>1 DEF TrueMotion
    <2>2. CASE movement' = Viewer!Cancelled(movement)
      <3>1. TrueMotion(Viewer!Cancelled(movement))
        BY CancelledIsTrue
      <3> QED BY <3>1, <2>2, <1>1 DEF TrueMotion
    <2>3. CASE movement' = movement
      BY <2>3, <1>1 DEF Window, TrueMotion
    <2> QED BY <1>2, <2>1, <2>2, <2>3
  <1>5. PICK ok \in BOOLEAN : ok = TRUE
    OBVIOUS
  <1> QED BY <1>1, <1>3, <1>4, <1>5, DealtWith

LEMMA KeypressKeeps ==
  ASSUME ViewerInv, NEW reset \in BOOLEAN, Viewer!Keypress(reset)
  PROVE  ViewerInv'
  <1>1. /\ movement' = Viewer!Cancelled(movement)
        /\ UNCHANGED <<hand, worker, owner, last, loaded, pub, inbox, late, holder, call, told, applied, arrived, disk, sent>>
    BY DEF Viewer!Keypress, Viewer!files
  <1>2. TrueMotion(Viewer!Cancelled(movement))
    BY CancelledIsTrue
  <1>3. Window'
    BY <1>1, <1>2 DEF ViewerInv, Window, TrueMotion, TrueCommand
  <1> QED BY <1>1, <1>3, ViewerFrames DEF ViewerInv

LEMMA MotionOverKeeps ==
  ASSUME ViewerInv, NEW ok \in BOOLEAN, Viewer!MotionOver(ok)
  PROVE  ViewerInv'
  <1> USE DEF ViewerInv
  <1> DEFINE m == [movement EXCEPT !.state = IF ok THEN "succeeded" ELSE "failed"]
  <1>1. /\ movement.state = "running" /\ movement' = m
        /\ arrived' = IF ok THEN arrived \cup {movement.id} ELSE arrived
        /\ UNCHANGED <<hand, worker, owner, last, loaded, pub, inbox, late, holder, call, told, applied, disk, sent>>
    BY DEF Viewer!MotionOver, Viewer!files, Viewer!bounds
  <1>2. TrueMotion(movement) /\ movement.id \in applied
    BY <1>1 DEF Window, TrueMotion
  <1>3. m \in MotionState /\ m.id = movement.id /\ m.state = IF ok THEN "succeeded" ELSE "failed"
    BY <1>2 DEF TrueMotion, MotionState
  <1> HIDE DEF m
  <1>4. arrived \subseteq arrived' /\ arrived' \subseteq applied' /\ (ok => movement.id \in arrived')
    BY <1>1, <1>2 DEF Terminal
  <1>5. TrueMotion(movement)'
    BY <1>1, <1>2, <1>3, <1>4 DEF TrueMotion
  <1>6. Window'
    BY <1>1, <1>5 DEF Window, TrueCommand
  <1>7. Ready'
    BY <1>1, <1>4 DEF Ready, TrueCommand, TrueMotion
  <1>8. Telling'
    BY <1>1, <1>4 DEF Telling, Viewer!ReportsAreTrue
  <1>9. Terminal'
    BY <1>1, <1>4 DEF Terminal
  <1> QED BY <1>1, <1>6, <1>7, <1>8, <1>9, ViewerFrames

LEMMA HeartbeatKeeps ==
  ASSUME ViewerInv, Viewer!Heartbeat
  PROVE  ViewerInv'
  <1> USE DEF ViewerInv
  <1>1. /\ UNCHANGED <<worker, owner, hand, movement, last, loaded, inbox, late, holder, call, told, applied, arrived, disk, sent>>
        /\ pub' = [open |-> TRUE, motion |-> movement', last |-> last', scene |-> loaded']
    BY DEF Viewer!Heartbeat, Viewer!Publish, Viewer!wvars, Viewer!bounds
  <1>2. Window'
    BY <1>1, ViewerFrames
  <1>3. Ready' /\ pub'.last = last'
    BY <1>1, <1>2, PublishStep
  <1>4. InTheBox'
    BY <1>1, <1>3, InboxWaits DEF InTheBox, Undone
  <1>5. \A i : Undone(i) => Undone(i)'
    BY <1>1, <1>3 DEF Undone, Opens
  <1>6. Handled'
    BY <1>1, <1>5 DEF Handled
  <1> QED BY <1>1, <1>2, <1>3, <1>4, <1>6, ViewerFrames

\* Time passes, the user presses keys and edits the scene.
LEMMA TimeKeeps ==
  ASSUME ViewerInv, Viewer!GoesStale \/ Viewer!PressStop \/ Viewer!EditScene \/ \E i \in Viewer!Ids : Viewer!Expires(i)
  PROVE  ViewerInv'
  <1> USE DEF ViewerInv
  <1>1. /\ UNCHANGED <<worker, owner, hand, movement, last, loaded, pub, inbox, holder, call, told, applied, arrived, sent>>
        /\ (disk' = disk \/ disk' = disk + 1) /\ \A i \in late : i \in late'
    BY DEF Viewer!GoesStale, Viewer!PressStop, Viewer!EditScene, Viewer!Expires, Viewer!wvars, Viewer!files, Viewer!bounds
  <1>2. disk' \in Nat
    BY <1>1 DEF Terminal
  <1>3. Terminal'
    BY <1>1, <1>2 DEF Terminal
  <1>4. \A i : Undone(i) => Undone(i)'
    BY <1>1 DEF Undone, Opens
  <1>5. Handled'
    BY <1>1, <1>4 DEF Handled
  <1> QED BY <1>1, <1>3, <1>5, ViewerFrames

LEMMA ViewerRestartKeeps ==
  ASSUME ViewerInv, Viewer!Restart
  PROVE  ViewerInv'
  <1> USE DEF ViewerInv
  <1>1. /\ holder' = Absent /\ call' = [c \in Callers |-> Viewer!Idle]
        /\ UNCHANGED <<movement, last, loaded, late, told, applied, arrived, disk, sent>>
        /\ \/ UNCHANGED <<worker, owner, hand, pub, inbox>>
           \/ worker' = "none" /\ owner' = FALSE /\ hand' = Viewer!Empty /\ pub' = Absent /\ inbox' = Absent
    BY DEF Viewer!Restart, Viewer!files
  <1>2. Window' /\ Telling'
    BY <1>1, ViewerFrames
  <1>3. Calling' /\ \A i : ~Opens(i)'
    <2>1. \A n \in Nat : Viewer!Idle.id <= n
      BY IdleIsCall
    <2> QED BY <1>1, <2>1, IdleIsCall, BasicFacts DEF Calling, CallIs, Opens
  <1>4. CASE UNCHANGED <<worker, owner, hand, pub, inbox>>
    <2>1. \A i : Undone(i) => Undone(i)'
      BY <1>1, <1>3, <1>4 DEF Undone
    <2>2. InTheBox' /\ Handled'
      BY <1>1, <1>4, <2>1 DEF InTheBox, Handled
    <2>3. Terminal' /\ Named' /\ Ready'
      BY <1>1, <1>4, ViewerFrames DEF Terminal, Named
    <2> QED BY <1>2, <1>3, <2>2, <2>3
  <1>5. CASE worker' = "none" /\ owner' = FALSE /\ hand' = Viewer!Empty /\ pub' = Absent /\ inbox' = Absent
    <2>1. InTheBox' /\ Ready'
      BY <1>5 DEF InTheBox, Ready
    <2>2. Handled'
      BY <1>1, <1>5, BlankWindow, BasicFacts DEF Handled
    <2>3. Terminal' /\ Named'
      BY <1>1, <1>5 DEF Terminal, Named
    <2> QED BY <1>2, <1>3, <2>1, <2>2, <2>3
  <1> QED BY <1>1, <1>4, <1>5

LEMMA ViewerNextKeeps == ViewerInv /\ [Viewer!Next]_Viewer!vars => ViewerInv'
  <1> SUFFICES ASSUME ViewerInv, [Viewer!Next]_Viewer!vars PROVE ViewerInv'
    OBVIOUS
  <1>1. ASSUME NEW c \in Callers, Viewer!Terminal(c) PROVE ViewerInv'
    <2>1. ASSUME NEW k \in Kinds, Viewer!Send(c, k) PROVE ViewerInv'
      BY <2>1, RequestKeeps DEF Viewer!Send, CommandKinds
    <2>2. ASSUME Viewer!SendsStop(c) PROVE ViewerInv'
      BY <2>2, RequestKeeps DEF Viewer!SendsStop, CommandKinds
    <2> QED BY <1>1, <2>1, <2>2, OpenKeeps, RecordOwnerKeeps, OpenedKeeps, OpenFailsKeeps, ViewerCloseKeeps,
             AcknowledgedKeeps, GivesUpKeeps, MotionEndsKeeps, StopsMotionKeeps DEF Viewer!Terminal
  <1>2. ASSUME Viewer!Window PROVE ViewerInv'
    <2>1. ASSUME Viewer!TakeMissing PROVE ViewerInv'
      BY <2>1, DieKeeps DEF Viewer!TakeMissing
    <2> QED BY <1>2, <2>1, LoadKeeps, SeeKeeps, TakeKeeps, CheckKeeps, RefuseKeeps, ApplyKeeps, HeartbeatKeeps,
             KeypressKeeps, MotionOverKeeps, DieKeeps DEF Viewer!Window
  <1>3. ASSUME UNCHANGED Viewer!vars PROVE ViewerInv'
    <2>1. UNCHANGED <<worker, owner, hand, movement, last, loaded, pub, inbox, late, holder, call, told, applied, arrived, disk, sent>>
      BY <1>3 DEF Viewer!vars, Viewer!wvars, Viewer!files, Viewer!bounds
    <2> QED BY <2>1, ViewerFrames DEF ViewerInv
  <1> QED BY <1>1, <1>2, <1>3, TimeKeeps, ViewerRestartKeeps DEF Viewer!Next

LEMMA ViewerInvIsSound == ViewerInv => Viewer!TypeOK /\ Viewer!ReportsAreTrue
  <1> SUFFICES ASSUME ViewerInv PROVE Viewer!TypeOK /\ Viewer!ReportsAreTrue
    OBVIOUS
  <1> USE DEF ViewerInv
  <1>1. hand \in HandState /\ movement \in MotionState /\ (inbox # Absent => inbox.id \in 1..MaxSent)
    BY BasicFacts DEF Handled, Window, TrueMotion
  <1>2. /\ hand.pc \in {"loop", "sees", "took", "checked"} /\ hand.id \in 0..MaxSent
        /\ movement.state \in {"idle", "running", "cancelled", "failed", "succeeded"}
    BY <1>1 DEF HandState, MotionState
  <1>3. \A c \in Callers : call[c].pc \in {"idle", "spawned", "opening", "waiting", "watching", "stopping"}
    BY DEF Calling, CallState, CallSteps
  <1>4. told \in [Viewer!Ids -> {"", "executed", "refused", "unknown", "reached", "ended", "shown", "failed"}]
    BY DEF Telling, Reports, Viewer!Ids
  <1>5. applied \subseteq Viewer!Ids /\ arrived \subseteq applied
    <2>1. \A i \in applied : i \in 1..MaxSent
      BY BasicFacts
    <2> QED BY <2>1 DEF Terminal, Viewer!Ids
  <1>6. Viewer!TypeOK
    BY <1>1, <1>2, <1>3, <1>4, <1>5 DEF Viewer!TypeOK, Viewer!Ids, Terminal, Named
  <1> QED BY <1>6 DEF Telling

\* A command is checked off only before its caller has given it up.
LEMMA NoCommandStartsLate ==
  ViewerInv /\ [Viewer!Next]_Viewer!vars =>
    \A i \in Viewer!Ids : hand'.pc = "checked" /\ hand'.id = i /\ hand.pc # "checked" => told[i] = ""
  <1> SUFFICES ASSUME ViewerInv, [Viewer!Next]_Viewer!vars, NEW i \in Viewer!Ids,
                      hand'.pc = "checked", hand'.id = i, hand.pc # "checked"
               PROVE  told[i] = ""
    OBVIOUS
  <1>e. Viewer!Empty.pc = "loop"
    BY BlankWindow
  <1>h. hand \in HandState
    BY DEF ViewerInv, Handled
  <1>1. CASE Viewer!Check
    <2>1. hand.pc = "took" /\ hand.id \notin late /\ hand' = [hand EXCEPT !.pc = "checked"]
      BY <1>1 DEF Viewer!Check, Viewer!At
    <2>2. hand'.id = hand.id
      BY <2>1, <1>h DEF HandState
    <2> QED BY <2>1, <2>2 DEF ViewerInv, Handled
  <1>2. ASSUME NEW c \in Callers, Viewer!Terminal(c) PROVE hand' = hand \/ hand' = Viewer!Empty
    BY <1>2 DEF Viewer!Terminal, Viewer!Open, Viewer!RecordOwner, Viewer!Opened, Viewer!OpenFails, Viewer!Close, Viewer!Closed,
       Viewer!Send, Viewer!SendsStop, Viewer!Request, Viewer!Acknowledged, Viewer!GivesUp, Viewer!MotionEnds, Viewer!StopsMotion,
       Viewer!wvars
  <1>3. ASSUME Viewer!Window, ~Viewer!Check PROVE hand' = hand \/ hand' = Viewer!Empty \/ hand'.pc \in {"sees", "took"}
    <2>1. ASSUME Viewer!See PROVE hand'.pc = "sees"
      BY <2>1, <1>h DEF Viewer!See, HandState
    <2>2. ASSUME Viewer!Take PROVE hand'.pc = "took"
      BY <2>2 DEF Viewer!Take
    <2> QED BY <1>3, <2>1, <2>2 DEF Viewer!Window, Viewer!Load, Viewer!TakeMissing, Viewer!Refuse, Viewer!Apply, Viewer!Heartbeat,
            Viewer!Keypress, Viewer!MotionOver, Viewer!Die, Viewer!wvars
  <1>4. ASSUME \/ Viewer!GoesStale \/ Viewer!PressStop \/ Viewer!EditScene \/ Viewer!Restart
               \/ (\E j \in Viewer!Ids : Viewer!Expires(j)) \/ UNCHANGED Viewer!vars
        PROVE  hand' = hand \/ hand' = Viewer!Empty
    BY <1>4 DEF Viewer!GoesStale, Viewer!PressStop, Viewer!EditScene, Viewer!Restart, Viewer!Expires, Viewer!wvars, Viewer!vars
  <1> QED BY <1>1, <1>2, <1>3, <1>4, <1>e DEF Viewer!Next

(* The viewer tells the truth (viewer.py, viewer_worker.py): what a caller was told of
   its command stays true, and no command is taken up once its caller was told that
   it is over, however many windows, callers and restarts there are.           *)
THEOREM ViewerTrue == Viewer!Spec => ViewerIsTrue
  <1>1. Viewer!Init => ViewerInv
    BY ViewerInitEstablishes
  <1>2. ViewerInv /\ [Viewer!Next]_Viewer!vars => ViewerInv'
    BY ViewerNextKeeps
  <1> QED BY <1>1, <1>2, ViewerInvIsSound, NoCommandStartsLate, PTL DEF Viewer!Spec, ViewerIsTrue, Viewer!NoLateStart

-----------------------------------------------------------------------------
(* The workbench: the invariant.  A workbench runs one tool at a time, but a request
   whose receipt was given up stays in the queue of the bridge and is carried out
   later, perhaps between two observations of somebody else.  What excludes that is
   the order of the queue (Queueing): requests are carried out in the order they were
   made, so that once a recording has had its first answer nothing older waits for
   its instance (Quiet).  From then on the clock of the engine is what the recording
   has seen, plus its own action (Timed).                                      *)

ToolNames == {"none", "create", "inspect", "edit", "camera", "reset", "step", "task", "capture", "record",
              "close", "exit"}
EngineMethods == {"create", "inspect", "edit", "camera", "reset", "step", "capture", "close"}
ToolState == [tool : ToolNames, at : 1..7, inst : Instances \cup {0}, seen : Nat, asked : 0..MaxRows, ep : Nat]
EngineState == [made : Benches \cup {0}, backend : Backends, life : 0..MaxLives, time : 0..MaxTime]
HostState == [up : BOOLEAN, life : 0..MaxLives, owner : Instances \cup {0}]
Asked == [from : Workers, inst : Instances \cup {0}, method : EngineMethods, live : BOOLEAN]
Frame == [before : Nat, after : Nat]
Episode == [rows : Seq(Frame), complete : BOOLEAN]

Hosting == host \in HostState /\ stage \in [Instances -> EngineState]

\* What a workbench owns it made.
Holding ==
  /\ DOMAIN entries = Benches
  /\ \A b \in Benches : /\ Bench!Owned(b) \subseteq Instances /\ IsFiniteSet(Bench!Owned(b))
                        /\ Cardinality(Bench!Owned(b)) <= MaxInstances
                        /\ \A i \in Bench!Owned(b) : stage[i].made = b

\* A tool is at one of its calls, on an instance its workbench owns, and alone there.
Engaged(t) == tool[t].tool # "none"
RunsWell(t) ==
  LET c == tool[t] IN
  /\ c.tool # "none" => c.at \in 1..Len(Bench!Calls[c.tool])
  /\ c.inst = 0 <=> c.tool = "none" \/ (c.tool = "create" /\ c.at = 1)
  /\ c.inst # 0 => c.inst \in Bench!Owned(BenchOf[t])
  /\ c.tool = "create" /\ c.at = 1 => Cardinality(Bench!Owned(BenchOf[t])) < MaxInstances
  /\ c.tool = "record" => c.asked # 0
Locked == \A t, u \in Workers : Engaged(t) /\ Engaged(u) /\ BenchOf[t] = BenchOf[u] => t = u
ToolsRun == tool \in [Workers -> ToolState] /\ Locked /\ \A t \in Workers : RunsWell(t)

\* Who has called no tool waits for nothing; who created is told what was made.
Hears(t) ==
  /\ answer[t].is \in {"none", "out", "ok", "error"}
  /\ ~Engaged(t) => answer[t].is = "none"
  /\ answer[t].is = "ok" /\ tool[t].inst # 0 => answer[t].time \in Nat
  /\ answer[t].is = "ok" /\ tool[t].inst = 0 => answer[t].time \in Instances /\ stage[answer[t].time].made = BenchOf[t]
Hearing == DOMAIN answer = Workers /\ \A t \in Workers : Hears(t)

\* A request somebody waits for is the one he made, and the last on its instance.
Awaited(q) ==
  /\ q.inst # 0 => stage[q.inst].made = BenchOf[q.from] /\ stage[q.inst].backend = "isaac"
  /\ q.live => /\ Engaged(q.from) /\ answer[q.from].is = "out"
               /\ tool[q.from].inst = q.inst /\ Bench!Method(q.from) = q.method
Follows(q, p) ==
  p.live => /\ p.inst # 0 => q.inst # p.inst
            /\ q.live => q.from # p.from
Queueing ==
  /\ queue \in Seq(Asked)
  /\ \A k \in DOMAIN queue : Awaited(queue[k])
  /\ \A k, l \in DOMAIN queue : k < l => Follows(queue[l], queue[k])

\* Only the workbench that made an instance has acted on it.
Handing == hands \in [Instances -> SUBSET Benches] /\ \A i \in Instances : hands[i] \subseteq {stage[i].made}

\* Once a recording has looked, nobody else has a request on its instance.
Alone(t) ==
  tool[t].tool = "record" /\ answer[t].is # "error" /\ (tool[t].at > 1 \/ answer[t].is = "ok") =>
    \A k \in DOMAIN queue : queue[k].inst = tool[t].inst => queue[k].from = t /\ queue[k].live
Quiet == \A t \in Workers : Alone(t)

\* Every demonstration is without a gap, and whoever records writes one of his own.
Gapless(rows) ==
  \A n \in DOMAIN rows : rows[n].after = rows[n].before + 1 /\ (n > 1 => rows[n].before = rows[n - 1].after)
Stored ==
  /\ episodes \in Seq(Episode)
  /\ \A k \in DOMAIN episodes : /\ Gapless(episodes[k].rows)
                                /\ episodes[k].complete => episodes[k].rows # <<>> /\ Len(episodes[k].rows) <= MaxRows
Recording(t) == tool[t].tool = "record" /\ tool[t].at >= 3
Filed ==
  /\ \A t \in Workers : Recording(t) => tool[t].ep \in DOMAIN episodes /\ Len(episodes[tool[t].ep].rows) < tool[t].asked
  /\ \A t, u \in Workers : Recording(t) /\ Recording(u) /\ tool[t].ep = tool[u].ep => t = u

\* What a recording has seen is what its engine's clock says: up to its action
\* the time of the observation, and after it one more.
EndsAt(rows, n) == rows # <<>> => rows[Len(rows)].after = n
Clock(c, a, rows, now) ==
  /\ c.at > 3 => EndsAt(rows, c.seen)
  /\ a.is # "error" => /\ c.at = 3 => EndsAt(rows, now)
                       /\ c.at \in {3, 5, 7} /\ a.is = "ok" => a.time = now
                       /\ c.at = 6 => now = IF a.is = "ok" THEN c.seen + 1 ELSE c.seen
                       /\ c.at = 7 => now = c.seen + 1
Timed ==
  \A t \in Workers : Recording(t) => Clock(tool[t], answer[t], episodes[tool[t].ep].rows, stage[tool[t].inst].time)

BenchInv == Hosting /\ Holding /\ ToolsRun /\ Hearing /\ Queueing /\ Handing /\ Quiet /\ Stored /\ Filed /\ Timed

-----------------------------------------------------------------------------
(* The calls of the tools, and what an engine says. *)

LEMMA BenchNumbers ==
  /\ 0 \notin Instances /\ 0 \notin Benches /\ BenchOf \in [Workers -> Benches]
  /\ MaxLives \in Nat /\ MaxLives # 0 /\ MaxTime \in Nat /\ MaxRows \in Nat /\ MaxInstances \in Nat
  BY BenchAssumption

\* Which calls a tool makes: only create creates, and only what ends there closes.
LEMMA ToolCalls ==
  ASSUME NEW m \in ToolNames \ {"none"}
  PROVE  /\ m \in DOMAIN Bench!Calls /\ Len(Bench!Calls[m]) \in 1..7
         /\ \A n \in 1..Len(Bench!Calls[m]) :
              /\ Bench!Calls[m][n] \in EngineMethods
              /\ Bench!Calls[m][n] = "create" <=> m = "create" /\ n = 1
              /\ Bench!Calls[m][n] = "close" => n = Len(Bench!Calls[m])
  <1>1. CASE m = "create"
    <2>1. m \in DOMAIN Bench!Calls /\ Len(Bench!Calls[m]) = 2
      BY <1>1 DEF Bench!Calls
    <2>2. \A n \in 1..2 : /\ Bench!Calls[m][n] \in EngineMethods
                          /\ Bench!Calls[m][n] = "create" <=> m = "create" /\ n = 1
                          /\ Bench!Calls[m][n] = "close" => n = 2
      BY <1>1 DEF Bench!Calls, EngineMethods
    <2> QED BY <2>1, <2>2
  <1>2. CASE m = "inspect"
    <2>1. m \in DOMAIN Bench!Calls /\ Len(Bench!Calls[m]) = 1
      BY <1>2 DEF Bench!Calls
    <2>2. \A n \in 1..1 : /\ Bench!Calls[m][n] \in EngineMethods
                          /\ Bench!Calls[m][n] = "create" <=> m = "create" /\ n = 1
                          /\ Bench!Calls[m][n] = "close" => n = 1
      BY <1>2 DEF Bench!Calls, EngineMethods
    <2> QED BY <2>1, <2>2
  <1>3. CASE m = "edit"
    <2>1. m \in DOMAIN Bench!Calls /\ Len(Bench!Calls[m]) = 1
      BY <1>3 DEF Bench!Calls
    <2>2. \A n \in 1..1 : /\ Bench!Calls[m][n] \in EngineMethods
                          /\ Bench!Calls[m][n] = "create" <=> m = "create" /\ n = 1
                          /\ Bench!Calls[m][n] = "close" => n = 1
      BY <1>3 DEF Bench!Calls, EngineMethods
    <2> QED BY <2>1, <2>2
  <1>4. CASE m = "camera"
    <2>1. m \in DOMAIN Bench!Calls /\ Len(Bench!Calls[m]) = 1
      BY <1>4 DEF Bench!Calls
    <2>2. \A n \in 1..1 : /\ Bench!Calls[m][n] \in EngineMethods
                          /\ Bench!Calls[m][n] = "create" <=> m = "create" /\ n = 1
                          /\ Bench!Calls[m][n] = "close" => n = 1
      BY <1>4 DEF Bench!Calls, EngineMethods
    <2> QED BY <2>1, <2>2
  <1>5. CASE m = "reset"
    <2>1. m \in DOMAIN Bench!Calls /\ Len(Bench!Calls[m]) = 2
      BY <1>5 DEF Bench!Calls
    <2>2. \A n \in 1..2 : /\ Bench!Calls[m][n] \in EngineMethods
                          /\ Bench!Calls[m][n] = "create" <=> m = "create" /\ n = 1
                          /\ Bench!Calls[m][n] = "close" => n = 2
      BY <1>5 DEF Bench!Calls, EngineMethods
    <2> QED BY <2>1, <2>2
  <1>6. CASE m = "step"
    <2>1. m \in DOMAIN Bench!Calls /\ Len(Bench!Calls[m]) = 2
      BY <1>6 DEF Bench!Calls
    <2>2. \A n \in 1..2 : /\ Bench!Calls[m][n] \in EngineMethods
                          /\ Bench!Calls[m][n] = "create" <=> m = "create" /\ n = 1
                          /\ Bench!Calls[m][n] = "close" => n = 2
      BY <1>6 DEF Bench!Calls, EngineMethods
    <2> QED BY <2>1, <2>2
  <1>7. CASE m = "task"
    <2>1. m \in DOMAIN Bench!Calls /\ Len(Bench!Calls[m]) = 1
      BY <1>7 DEF Bench!Calls
    <2>2. \A n \in 1..1 : /\ Bench!Calls[m][n] \in EngineMethods
                          /\ Bench!Calls[m][n] = "create" <=> m = "create" /\ n = 1
                          /\ Bench!Calls[m][n] = "close" => n = 1
      BY <1>7 DEF Bench!Calls, EngineMethods
    <2> QED BY <2>1, <2>2
  <1>8. CASE m = "capture"
    <2>1. m \in DOMAIN Bench!Calls /\ Len(Bench!Calls[m]) = 3
      BY <1>8 DEF Bench!Calls
    <2>2. \A n \in 1..3 : /\ Bench!Calls[m][n] \in EngineMethods
                          /\ Bench!Calls[m][n] = "create" <=> m = "create" /\ n = 1
                          /\ Bench!Calls[m][n] = "close" => n = 3
      BY <1>8 DEF Bench!Calls, EngineMethods
    <2> QED BY <2>1, <2>2
  <1>9. CASE m = "record"
    <2>1. m \in DOMAIN Bench!Calls /\ Len(Bench!Calls[m]) = 7
      BY <1>9 DEF Bench!Calls
    <2>2. \A n \in 1..7 : /\ Bench!Calls[m][n] \in EngineMethods
                          /\ Bench!Calls[m][n] = "create" <=> m = "create" /\ n = 1
                          /\ Bench!Calls[m][n] = "close" => n = 7
      BY <1>9 DEF Bench!Calls, EngineMethods
    <2> QED BY <2>1, <2>2
  <1>10. CASE m = "close"
    <2>1. m \in DOMAIN Bench!Calls /\ Len(Bench!Calls[m]) = 1
      BY <1>10 DEF Bench!Calls
    <2>2. \A n \in 1..1 : /\ Bench!Calls[m][n] \in EngineMethods
                          /\ Bench!Calls[m][n] = "create" <=> m = "create" /\ n = 1
                          /\ Bench!Calls[m][n] = "close" => n = 1
      BY <1>10 DEF Bench!Calls, EngineMethods
    <2> QED BY <2>1, <2>2
  <1>11. CASE m = "exit"
    <2>1. m \in DOMAIN Bench!Calls /\ Len(Bench!Calls[m]) = 1
      BY <1>11 DEF Bench!Calls
    <2>2. \A n \in 1..1 : /\ Bench!Calls[m][n] \in EngineMethods
                          /\ Bench!Calls[m][n] = "create" <=> m = "create" /\ n = 1
                          /\ Bench!Calls[m][n] = "close" => n = 1
      BY <1>11 DEF Bench!Calls, EngineMethods
    <2> QED BY <2>1, <2>2
  <1> QED BY <1>1, <1>2, <1>3, <1>4, <1>5, <1>6, <1>7, <1>8, <1>9, <1>10, <1>11 DEF ToolNames

LEMMA ToolEnds ==
  /\ Len(Bench!Calls["record"]) = 7 /\ Len(Bench!Calls["create"]) = 2
  /\ Bench!Calls["create"][1] = "create" /\ Bench!Calls["create"][2] = "inspect"
  /\ Bench!Calls["record"][1] = "inspect" /\ Bench!Calls["record"][2] = "capture"
  /\ Bench!Calls["record"][3] = "inspect" /\ Bench!Calls["record"][4] = "capture"
  /\ Bench!Calls["record"][5] = "inspect" /\ Bench!Calls["record"][6] = "step"
  /\ Bench!Calls["record"][7] = "inspect"
  BY DEF Bench!Calls

LEMMA Engines ==
  ASSUME NEW m \in EngineMethods \ {"create"}, NEW k, NEW n \in Nat, NEW r \in Bench!Does(m, k, n)
  PROVE  /\ r.is \in {"ok", "error"} /\ r.time \in Nat
         /\ m = "inspect" => r.time = n
         /\ m = "step" /\ r.is = "ok" => r.time = n + 1
  BY SMTT(60) DEF EngineMethods, Bench!Does, Bench!Ok, Bench!Failed, Bench!Edits, Bench!Films

-----------------------------------------------------------------------------
(* Who is at work. *)

\* A worker whose tool is at one of its calls.
LEMMA AtWork ==
  ASSUME BenchInv, NEW t \in Workers, Engaged(t)
  PROVE  /\ tool[t] \in ToolState /\ tool[t].tool \in ToolNames \ {"none"}
         /\ tool[t].at \in 1..Len(Bench!Calls[tool[t].tool]) /\ Bench!Method(t) \in EngineMethods
         /\ Bench!Method(t) = "create" <=> tool[t].tool = "create" /\ tool[t].at = 1
         /\ Bench!Method(t) = "create" <=> tool[t].inst = 0
         /\ Bench!Method(t) = "close" => tool[t].at = Len(Bench!Calls[tool[t].tool])
  <1>1. tool[t] \in ToolState /\ RunsWell(t)
    BY DEF BenchInv, ToolsRun
  <1>2. tool[t].tool \in ToolNames \ {"none"} /\ tool[t].at \in 1..Len(Bench!Calls[tool[t].tool])
    BY <1>1 DEF ToolState, Engaged, RunsWell
  <1>3. PICK m \in ToolNames \ {"none"} : m = tool[t].tool
    BY <1>2
  <1>4. PICK n \in 1..Len(Bench!Calls[m]) : n = tool[t].at
    BY <1>2, <1>3
  <1>5. Bench!Method(t) = Bench!Calls[m][n]
    BY <1>3, <1>4 DEF Bench!Method
  <1>6. /\ Bench!Calls[m][n] \in EngineMethods
        /\ Bench!Calls[m][n] = "create" <=> m = "create" /\ n = 1
        /\ Bench!Calls[m][n] = "close" => n = Len(Bench!Calls[m])
    BY ToolCalls
  <1>7. tool[t].inst = 0 <=> m = "create" /\ n = 1
    BY <1>1, <1>3, <1>4 DEF RunsWell
  <1> QED BY <1>1, <1>2, <1>3, <1>4, <1>5, <1>6, <1>7

\* He has an instance his workbench made, and nobody else has it.
LEMMA AtInstance ==
  ASSUME BenchInv, NEW t \in Workers, tool[t].inst # 0
  PROVE  /\ Engaged(t) /\ tool[t].inst \in Instances /\ BenchOf[t] \in Benches
         /\ tool[t].inst \in Bench!Owned(BenchOf[t]) /\ stage[tool[t].inst].made = BenchOf[t]
         /\ \A u \in Workers : tool[u].inst = tool[t].inst => u = t
  <1>1. ASSUME NEW u \in Workers, tool[u].inst # 0
        PROVE  Engaged(u) /\ tool[u].inst \in Bench!Owned(BenchOf[u]) /\ BenchOf[u] \in Benches
    <2>1. RunsWell(u)
      BY DEF BenchInv, ToolsRun
    <2> QED BY <1>1, <2>1, BenchNumbers DEF RunsWell, Engaged
  <1>2. ASSUME NEW u \in Workers, tool[u].inst # 0
        PROVE  tool[u].inst \in Instances /\ stage[tool[u].inst].made = BenchOf[u]
    BY <1>1, <1>2 DEF BenchInv, Holding
  <1>3. ASSUME NEW u \in Workers, tool[u].inst = tool[t].inst PROVE u = t
    <2>1. BenchOf[u] = BenchOf[t] /\ Engaged(u) /\ Engaged(t)
      BY <1>1, <1>2, <1>3
    <2> QED BY <2>1 DEF BenchInv, ToolsRun, Locked
  <1> QED BY <1>1, <1>2, <1>3

\* A recording is at one of its seven calls, on an instance.
LEMMA AtRecording ==
  ASSUME BenchInv, NEW t \in Workers, tool[t].tool = "record"
  PROVE  /\ Engaged(t) /\ tool[t].inst # 0 /\ tool[t].inst \in Instances /\ tool[t].at \in 1..7
         /\ tool[t].at \in {1, 3, 5, 7} <=> Bench!Method(t) = "inspect"
         /\ tool[t].at \in {2, 4} <=> Bench!Method(t) = "capture"
         /\ tool[t].at = 6 <=> Bench!Method(t) = "step"
         /\ tool[t].asked \in 1..MaxRows
  <1>1. Engaged(t)
    BY DEF Engaged
  <1>2. tool[t].at \in 1..7 /\ tool[t].inst # 0
    BY <1>1, AtWork, ToolEnds
  <1>3. Bench!Method(t) = Bench!Calls["record"][tool[t].at]
    BY DEF Bench!Method
  <1>4. PICK n \in 1..7 : n = tool[t].at
    BY <1>2
  <1>5. tool[t].asked \in 1..MaxRows
    <2>1. tool[t] \in ToolState /\ RunsWell(t)
      BY DEF BenchInv, ToolsRun
    <2>2. tool[t].asked \in 0..MaxRows /\ tool[t].asked # 0
      BY <2>1 DEF ToolState, RunsWell
    <2> QED BY <2>2, BenchNumbers
  <1> QED BY <1>1, <1>2, <1>3, <1>4, <1>5, ToolEnds, AtInstance

\* What a step leaves alone stays so.
LEMMA BenchFrames ==
  ASSUME BenchInv
  PROVE  /\ UNCHANGED <<host, stage>> => Hosting'
         /\ UNCHANGED <<stage, entries>> => Holding'
         /\ UNCHANGED <<tool, entries>> => ToolsRun'
         /\ UNCHANGED <<tool, answer, stage>> => Hearing'
         /\ UNCHANGED <<queue, tool, answer, stage>> => Queueing'
         /\ UNCHANGED <<hands, stage>> => Handing'
         /\ UNCHANGED <<tool, answer, queue>> => Quiet'
         /\ UNCHANGED episodes => Stored'
         /\ UNCHANGED <<tool, episodes>> => Filed'
         /\ UNCHANGED <<tool, answer, episodes, stage>> => Timed'
  <1> USE DEF BenchInv
  <1>1. UNCHANGED <<host, stage>> => Hosting'
    BY DEF Hosting
  <1>2. UNCHANGED <<stage, entries>> => Holding'
    BY DEF Holding, Bench!Owned
  <1>3. UNCHANGED <<tool, entries>> => ToolsRun'
    BY DEF ToolsRun, Locked, RunsWell, Engaged, Bench!Owned
  <1>4. UNCHANGED <<tool, answer, stage>> => Hearing'
    BY DEF Hearing, Hears, Engaged
  <1>5. UNCHANGED <<queue, tool, answer, stage>> => Queueing'
    BY DEF Queueing, Awaited, Follows, Engaged, Bench!Method
  <1>6. UNCHANGED <<hands, stage>> => Handing'
    BY DEF Handing
  <1>7. UNCHANGED <<tool, answer, queue>> => Quiet'
    BY DEF Quiet, Alone
  <1>8. UNCHANGED episodes => Stored'
    BY DEF Stored, Gapless
  <1>9. UNCHANGED <<tool, episodes>> => Filed'
    BY DEF Filed, Recording
  <1>10. UNCHANGED <<tool, answer, episodes, stage>> => Timed'
    BY DEF Timed, Recording, Clock, EndsAt
  <1> QED BY <1>1, <1>2, <1>3, <1>4, <1>5, <1>6, <1>7, <1>8, <1>9, <1>10

\* Engines keep their makers and their kinds.
SameEngines ==
  /\ stage' \in [Instances -> EngineState]
  /\ \A i \in Instances : stage'[i].backend = stage[i].backend /\ (stage[i].made # 0 => stage'[i].made = stage[i].made)

LEMMA EnginesKeep ==
  ASSUME BenchInv, SameEngines
  PROVE  /\ UNCHANGED entries => Holding'
         /\ UNCHANGED hands => Handing'
         /\ \A t \in Workers : tool[t].inst # 0 => stage'[tool[t].inst].made = BenchOf[t]
         /\ \A k \in DOMAIN queue : queue[k].inst # 0 =>
              stage'[queue[k].inst].made = BenchOf[queue[k].from] /\ stage'[queue[k].inst].backend = "isaac"
  <1> USE BenchNumbers
  <1>1. ASSUME UNCHANGED entries PROVE Holding'
    <2>1. ASSUME NEW b \in Benches, NEW i \in Bench!Owned(b) PROVE stage'[i].made = b
      <3>1. stage[i].made = b /\ i \in Instances /\ b # 0
        BY DEF BenchInv, Holding
      <3> QED BY <3>1 DEF SameEngines
    <2> QED BY <1>1, <2>1 DEF BenchInv, Holding, Bench!Owned
  <1>2. ASSUME UNCHANGED hands PROVE Handing'
    <2>1. ASSUME NEW i \in Instances PROVE hands'[i] \subseteq {stage'[i].made}
      <3>1. hands[i] \subseteq {stage[i].made} /\ hands[i] \subseteq Benches
        BY DEF BenchInv, Handing
      <3>2. CASE stage[i].made = 0
        BY <1>2, <3>1, <3>2
      <3>3. CASE stage[i].made # 0
        BY <1>2, <3>1, <3>3 DEF SameEngines
      <3> QED BY <3>2, <3>3
    <2> QED BY <1>2, <2>1 DEF BenchInv, Handing
  <1>3. ASSUME NEW t \in Workers, tool[t].inst # 0 PROVE stage'[tool[t].inst].made = BenchOf[t]
    <2>1. stage[tool[t].inst].made = BenchOf[t] /\ tool[t].inst \in Instances /\ BenchOf[t] # 0
      BY <1>3, AtInstance
    <2> QED BY <2>1 DEF SameEngines
  <1>4. ASSUME NEW k \in DOMAIN queue, queue[k].inst # 0
        PROVE  stage'[queue[k].inst].made = BenchOf[queue[k].from] /\ stage'[queue[k].inst].backend = "isaac"
    <2>1. queue[k] \in Asked /\ Awaited(queue[k])
      BY DEF BenchInv, Queueing
    <2>2. queue[k].inst \in Instances /\ queue[k].from \in Workers
      BY <1>4, <2>1 DEF Asked
    <2>3. BenchOf[queue[k].from] # 0
      BY <2>2
    <2> QED BY <1>4, <2>1, <2>2, <2>3 DEF SameEngines, Awaited
  <1> QED BY <1>1, <1>2, <1>3, <1>4

LEMMA UnchangedEngines == ASSUME BenchInv, UNCHANGED stage PROVE SameEngines
  BY DEF BenchInv, Hosting, SameEngines

-----------------------------------------------------------------------------
(* The answer to one worker changes. *)

LEMMA HearStep ==
  ASSUME BenchInv, SameEngines, UNCHANGED tool, NEW t \in Workers, NEW r,
         \A u \in Workers \ {t} : answer'[u] = answer[u], answer'[t] = r, DOMAIN answer' = DOMAIN answer,
         Engaged(t), r.is \in {"none", "out", "ok", "error"},
         r.is = "ok" /\ tool[t].inst # 0 => r.time \in Nat,
         r.is = "ok" /\ tool[t].inst = 0 => r.time \in Instances /\ stage'[r.time].made = BenchOf[t]
  PROVE  Hearing'
  <1>1. ASSUME NEW u \in Workers \ {t} PROVE Hears(u)'
    <2>1. Hears(u)
      BY DEF BenchInv, Hearing
    <2>2. ASSUME answer[u].is = "ok", tool[u].inst = 0 PROVE stage'[answer[u].time].made = BenchOf[u]
      <3>1. answer[u].time \in Instances /\ stage[answer[u].time].made = BenchOf[u] /\ BenchOf[u] # 0
        BY <2>1, <2>2, BenchNumbers DEF Hears
      <3> QED BY <3>1 DEF SameEngines
    <2> QED BY <2>1, <2>2 DEF Hears, Engaged
  <1>2. Hears(t)'
    BY DEF Hears, Engaged
  <1> QED BY <1>1, <1>2 DEF BenchInv, Hearing

\* The queue stands, and the answer to t is no longer awaited.
LEMMA QueueStands ==
  ASSUME BenchInv, SameEngines, UNCHANGED <<tool, queue>>, NEW t \in Workers,
         \A u \in Workers \ {t} : answer'[u] = answer[u],
         answer[t].is # "out" \/ answer'[t].is = "out"
  PROVE  Queueing'
  <1>1. ASSUME NEW k \in DOMAIN queue PROVE Awaited(queue[k])'
    <2>1. Awaited(queue[k]) /\ queue[k] \in Asked
      BY DEF BenchInv, Queueing
    <2>2. queue[k].inst # 0 =>
            stage'[queue[k].inst].made = BenchOf[queue[k].from] /\ stage'[queue[k].inst].backend = "isaac"
      BY EnginesKeep
    <2>3. queue[k].from \in Workers
      BY <2>1 DEF Asked
    <2> QED BY <2>1, <2>2, <2>3 DEF Awaited, Engaged, Bench!Method
  <1>2. \A k, l \in DOMAIN queue : k < l => Follows(queue[l], queue[k])
    BY DEF BenchInv, Queueing
  <1> QED BY <1>1, <1>2 DEF BenchInv, Queueing, Follows

\* The first request leaves, and only he who waits for it is answered.
LEMMA QueueTail ==
  ASSUME BenchInv, SameEngines, UNCHANGED tool, queue # <<>>, queue' = Tail(queue),
         \A u \in Workers : answer'[u] = answer[u] \/ (Head(queue).live /\ u = Head(queue).from)
  PROVE  Queueing' /\ Quiet'
  <1> DEFINE q == Head(queue)
  <1>1. queue \in Seq(Asked) /\ q \in Asked /\ q = queue[1] /\ 1 \in DOMAIN queue
    BY DEF BenchInv, Queueing
  <1>2. queue' \in Seq(Asked) /\ \A k \in DOMAIN queue' : k \in Nat /\ k + 1 \in DOMAIN queue /\ queue'[k] = queue[k + 1] /\ 1 < k + 1
    BY <1>1
  <1> HIDE DEF q
  <1>3. ASSUME NEW k \in DOMAIN queue' PROVE queue'[k] \in Asked /\ Awaited(queue'[k]) /\ Follows(queue'[k], q)
    <2>1. k + 1 \in DOMAIN queue /\ queue'[k] = queue[k + 1] /\ 1 < k + 1
      BY <1>2
    <2>2. PICK l \in DOMAIN queue : l = k + 1
      BY <2>1
    <2>3. Awaited(queue[l]) /\ Follows(queue[l], queue[1])
      BY <2>1, <2>2, <1>1 DEF BenchInv, Queueing
    <2> QED BY <1>1, <1>2, <2>1, <2>2, <2>3
  <1>4. ASSUME NEW k \in DOMAIN queue' PROVE Awaited(queue[k])'
    <2>1. k + 1 \in DOMAIN queue /\ queue'[k] = queue[k + 1]
      BY <1>2
    <2>2. PICK l \in DOMAIN queue : l = k + 1
      BY <2>1
    <2>3. PICK p \in Asked : p = queue[l] /\ p = queue'[k]
      BY <1>3, <2>1, <2>2
    <2>4. Awaited(p) /\ Follows(p, q)
      BY <1>3, <2>3
    <2>5. p.inst # 0 => stage'[p.inst].made = BenchOf[p.from] /\ stage'[p.inst].backend = "isaac"
      BY <2>3, EnginesKeep
    <2>6. p.live => answer'[p.from] = answer[p.from]
      <3>1. p.from \in Workers
        BY DEF Asked
      <3> QED BY <2>4, <3>1 DEF Follows, q
    <2>7. Awaited(p)'
      BY <2>4, <2>5, <2>6 DEF Awaited, Engaged, Bench!Method
    <2> QED BY <2>3, <2>7
  <1>5. ASSUME NEW k \in DOMAIN queue', NEW l \in DOMAIN queue', k < l PROVE Follows(queue'[l], queue'[k])
    <2>1. k \in Nat /\ l \in Nat /\ k + 1 \in DOMAIN queue /\ l + 1 \in DOMAIN queue
      BY <1>2
    <2>2. k + 1 < l + 1
      BY <1>5, <2>1
    <2>3. Follows(queue[l + 1], queue[k + 1])
      BY <2>1, <2>2 DEF BenchInv, Queueing
    <2> QED BY <1>2, <2>3
  <1>6. Queueing'
    BY <1>2, <1>4, <1>5 DEF Queueing, Follows
  <1>7. ASSUME NEW t \in Workers PROVE Alone(t)'
    <2>1. SUFFICES ASSUME tool[t].tool = "record", answer'[t].is # "error", tool[t].at > 1 \/ answer'[t].is = "ok",
                          NEW k \in DOMAIN queue', queue'[k].inst = tool[t].inst
                   PROVE  queue'[k].from = t /\ queue'[k].live
      BY DEF Alone
    <2>2. k + 1 \in DOMAIN queue /\ queue'[k] = queue[k + 1]
      BY <1>2
    <2>3. CASE answer'[t] = answer[t]
      <3>1. Alone(t)
        BY DEF BenchInv, Quiet
      <3> QED BY <2>1, <2>2, <2>3, <3>1 DEF Alone
    <2>4. ASSUME q.live, t = q.from PROVE FALSE
      <3>1. Awaited(q)
        BY <1>1 DEF BenchInv, Queueing
      <3>2. tool[t].inst = q.inst
        BY <2>4, <3>1 DEF Awaited
      <3>3. tool[t].inst # 0
        BY <2>1, AtRecording
      <3>4. Follows(queue'[k], q)
        BY <1>3
      <3> QED BY <2>1, <2>4, <3>2, <3>3, <3>4 DEF Follows
    <2> QED BY <2>3, <2>4 DEF q
  <1> QED BY <1>6, <1>7 DEF Quiet

\* The clocks that a recording relies on stand, or it is told of an error.
LEMMA ClockKeeps ==
  ASSUME BenchInv, UNCHANGED <<tool, episodes>>,
         \A t \in Workers : Recording(t) =>
           \/ answer'[t].is = "error"
           \/ /\ stage'[tool[t].inst].time = stage[tool[t].inst].time
              /\ answer'[t] = answer[t] \/ (answer'[t].is = "out" /\ answer[t].is = "none")
  PROVE  Timed'
  <1>1. ASSUME NEW t \in Workers, Recording(t)
        PROVE  Clock(tool[t], answer'[t], episodes[tool[t].ep].rows, stage'[tool[t].inst].time)
    <2>1. Clock(tool[t], answer[t], episodes[tool[t].ep].rows, stage[tool[t].inst].time)
      BY <1>1 DEF BenchInv, Timed
    <2>2. CASE answer'[t].is = "error"
      BY <2>1, <2>2 DEF Clock
    <2>3. CASE stage'[tool[t].inst].time = stage[tool[t].inst].time /\ answer'[t] = answer[t]
      BY <2>1, <2>3
    <2>4. CASE stage'[tool[t].inst].time = stage[tool[t].inst].time /\ answer'[t].is = "out" /\ answer[t].is = "none"
      BY <2>1, <2>4 DEF Clock
    <2> QED BY <1>1, <2>2, <2>3, <2>4
  <1> QED BY <1>1 DEF Timed, Recording

\* An engine does what t asked it, and t is told.
LEMMA ClockStep ==
  ASSUME BenchInv, UNCHANGED <<tool, episodes>>, NEW t \in Workers, tool[t].inst # 0,
         answer[t].is \in {"none", "out"},
         NEW k, NEW r \in Bench!Does(Bench!Method(t), k, stage[tool[t].inst].time),
         answer'[t] = r, \A u \in Workers \ {t} : answer'[u] = answer[u],
         stage'[tool[t].inst].time = r.time,
         \A i \in Instances : i # tool[t].inst => stage'[i].time = stage[i].time
  PROVE  Timed'
  <1>1. ASSUME NEW u \in Workers \ {t}, Recording(u)
        PROVE  Clock(tool[u], answer'[u], episodes[tool[u].ep].rows, stage'[tool[u].inst].time)
    <2>1. Clock(tool[u], answer[u], episodes[tool[u].ep].rows, stage[tool[u].inst].time)
      BY <1>1 DEF BenchInv, Timed
    <2>2. tool[u].inst # tool[t].inst
      BY AtInstance
    <2>3. tool[u].inst \in Instances
      BY <1>1, AtRecording DEF Recording
    <2> QED BY <2>1, <2>2, <2>3
  <1>2. ASSUME Recording(t)
        PROVE  Clock(tool[t], r, episodes[tool[t].ep].rows, r.time)
    <2> DEFINE c == tool[t]
               rows == episodes[tool[t].ep].rows
    <2>1. PICK n \in Nat : n = stage[tool[t].inst].time
      <3>1. tool[t].inst \in Instances
        BY AtInstance
      <3>2. stage[tool[t].inst] \in EngineState
        BY <3>1 DEF BenchInv, Hosting
      <3> QED BY <3>2, BenchNumbers DEF EngineState
    <2>2. Clock(c, answer[t], rows, n) /\ c.at \in 3..7
      <3>1. c.at \in 1..7 /\ c.at >= 3
        BY <1>2, AtRecording DEF Recording
      <3> QED BY <1>2, <2>1, <3>1 DEF BenchInv, Timed
    <2>3. /\ c.at \in {3, 5, 7} => Bench!Method(t) = "inspect"
          /\ c.at = 6 => Bench!Method(t) = "step"
          /\ Bench!Method(t) \in EngineMethods \ {"create"}
      <3>1. tool[t].tool = "record" /\ Engaged(t)
        BY <1>2 DEF Recording, Engaged
      <3> QED BY <3>1, AtRecording, AtWork
    <2>4. PICK m \in EngineMethods \ {"create"} : m = Bench!Method(t)
      BY <2>3
    <2>5. /\ r.is \in {"ok", "error"} /\ r.time \in Nat
          /\ m = "inspect" => r.time = n
          /\ m = "step" /\ r.is = "ok" => r.time = n + 1
      BY <2>1, <2>4, Engines
    <2> HIDE DEF c, rows
    <2>6. Clock(c, r, rows, r.time)
      <3>1. CASE c.at = 3
        BY <2>2, <2>3, <2>4, <2>5, <3>1 DEF Clock
      <3>2. CASE c.at = 4
        BY <2>2, <2>3, <2>4, <2>5, <3>2 DEF Clock
      <3>3. CASE c.at = 5
        BY <2>2, <2>3, <2>4, <2>5, <3>3 DEF Clock
      <3>4. CASE c.at = 6
        BY <2>2, <2>3, <2>4, <2>5, <3>4 DEF Clock
      <3>5. CASE c.at = 7
        BY <2>2, <2>3, <2>4, <2>5, <3>5 DEF Clock
      <3> QED BY <2>2, <3>1, <3>2, <3>3, <3>4, <3>5
    <2> QED BY <2>6 DEF c, rows
  <1> QED BY <1>1, <1>2 DEF Timed, Recording

-----------------------------------------------------------------------------
(* The engines and the bridge. *)

LEMMA EngineRuns ==
  ASSUME BenchInv, NEW i \in Instances, NEW b \in Benches, NEW n \in Nat, n <= MaxTime, stage[i].made = b,
         stage' = [stage EXCEPT ![i].time = n], hands' = [hands EXCEPT ![i] = @ \cup {b}]
  PROVE  /\ SameEngines /\ Handing' /\ stage'[i].time = n
         /\ \A j \in Instances : j # i => stage'[j].time = stage[j].time
  <1>1. stage \in [Instances -> EngineState] /\ stage[i] \in EngineState /\ n \in 0..MaxTime
    BY BenchNumbers DEF BenchInv, Hosting
  <1>2. PICK e \in EngineState : e = [stage[i] EXCEPT !.time = n] /\ e.made = stage[i].made
                                 /\ e.backend = stage[i].backend /\ e.time = n
    BY <1>1 DEF EngineState
  <1>3. stage' = [stage EXCEPT ![i] = e]
    BY <1>1, <1>2
  <1>4. SameEngines /\ stage'[i].time = n /\ \A j \in Instances : j # i => stage'[j].time = stage[j].time
    BY <1>1, <1>2, <1>3 DEF SameEngines
  <1>5. stage'[i].made = b /\ \A j \in Instances \ {i} : stage'[j].made = stage[j].made
    BY <1>1, <1>2, <1>3
  <1>6. Handing'
    BY <1>5 DEF BenchInv, Handing
  <1> QED BY <1>4, <1>6

LEMMA EngineMade ==
  ASSUME BenchInv, NEW i \in Bench!Fresh, NEW b \in Benches, NEW n \in 0..MaxLives, Bench!Made(i, b, n)
  PROVE  /\ SameEngines /\ stage'[i].made = b /\ i \in Instances
         /\ \A j \in Instances : stage'[j].time = stage[j].time
  <1>1. stage \in [Instances -> EngineState] /\ i \in Instances /\ stage[i] \in EngineState /\ stage[i].made = 0
    BY DEF BenchInv, Hosting, Bench!Fresh, Bench!None
  <1>5. PICK c \in EngineState : c = stage[i]
    BY <1>1
  <1> DEFINE d == [c EXCEPT !.made = b]
             e == [d EXCEPT !.life = n]
  <1>2. d \in EngineState /\ d.made = b /\ d.backend = c.backend /\ d.time = c.time
    BY DEF EngineState
  <1> HIDE DEF d
  <1>4. e \in EngineState /\ e.made = b /\ e.backend = c.backend /\ e.time = c.time
    BY <1>2 DEF EngineState
  <1>3. stage' = [stage EXCEPT ![i] = e]
    BY <1>1, <1>5 DEF Bench!Made, d
  <1> HIDE DEF e
  <1> QED BY <1>1, <1>3, <1>4, <1>5 DEF SameEngines

LEMMA HostsKeep ==
  ASSUME BenchInv, stage' \in [Instances -> EngineState]
  PROVE  /\ UNCHANGED host => Hosting'
         /\ \A i \in Instances \cup {0} : host' = [host EXCEPT !.owner = i] => Hosting'
  <1>1. host \in HostState
    BY DEF BenchInv, Hosting
  <1>2. UNCHANGED host => Hosting'
    BY <1>1 DEF Hosting
  <1>3. ASSUME NEW i \in Instances \cup {0}, host' = [host EXCEPT !.owner = i] PROVE Hosting'
    BY <1>1, <1>3 DEF Hosting, HostState
  <1> QED BY <1>2, <1>3

\* What fails says so, and nobody is told more.
LEMMA FailedFacts == ASSUME NEW n \in Nat PROVE Bench!Failed(n).is = "error"
  BY DEF Bench!Failed

LEMMA LocalKeeps == ASSUME BenchInv, NEW t \in Workers, Bench!Local(t) PROVE BenchInv'
  <1> USE DEF Bench!Local
  <1>0. /\ Engaged(t) /\ answer[t].is = "none" /\ UNCHANGED <<host, queue, entries, tool, episodes, toolCalls>>
        /\ BenchOf[t] \in Benches /\ DOMAIN answer = Workers
    BY BenchNumbers DEF Engaged, BenchInv, Hearing
  <1>a. ToolsRun' /\ Stored' /\ Filed'
    BY <1>0, BenchFrames
  <1>1. ASSUME Bench!Method(t) = "create", NEW i \in Bench!Fresh, Bench!Made(i, BenchOf[t], 0),
               answer' = [answer EXCEPT ![t] = Bench!Ok(i)], UNCHANGED hands
        PROVE  BenchInv'
    <2>0. 0 \in 0..MaxLives
      BY BenchNumbers
    <2>1. /\ SameEngines /\ stage'[i].made = BenchOf[t] /\ i \in Instances
          /\ \A j \in Instances : stage'[j].time = stage[j].time
      BY <1>0, <1>1, <2>0, EngineMade
    <2>2. Hosting' /\ Holding' /\ Handing'
      BY <1>0, <1>1, <2>1, EnginesKeep, HostsKeep DEF SameEngines
    <2>3. /\ answer'[t].is = "ok" /\ answer'[t].time = i /\ DOMAIN answer' = DOMAIN answer
          /\ \A u \in Workers \ {t} : answer'[u] = answer[u]
      BY <1>0, <1>1 DEF Bench!Ok
    <2>4. tool[t].inst = 0 /\ tool[t].tool # "record"
      BY <1>0, <1>1, AtWork, AtRecording
    <2>5. Hearing'
      BY <1>0, <2>1, <2>3, <2>4, HearStep
    <2>6. Queueing'
      BY <1>0, <2>1, <2>3, QueueStands
    <2>7. Quiet'
      BY <1>0, <2>3, <2>4 DEF BenchInv, Quiet, Alone
    <2>8. Timed'
      <3>1. ASSUME NEW u \in Workers, Recording(u)
            PROVE  answer'[u] = answer[u] /\ stage'[tool[u].inst].time = stage[tool[u].inst].time
        <4>1. u # t /\ tool[u].inst \in Instances
          BY <2>4, <3>1, AtRecording DEF Recording
        <4> QED BY <2>1, <2>3, <4>1
      <3> QED BY <1>0, <3>1, ClockKeeps
    <2> QED BY <1>a, <2>2, <2>5, <2>6, <2>7, <2>8 DEF BenchInv
  <1>2. ASSUME Bench!Method(t) # "create", stage[tool[t].inst].backend = "mujoco",
               NEW r \in Bench!Does(Bench!Method(t), "mujoco", stage[tool[t].inst].time),
               Bench!Engine(tool[t].inst, BenchOf[t], Bench!Method(t), r), answer' = [answer EXCEPT ![t] = r]
        PROVE  BenchInv'
    <2>1. tool[t].inst # 0 /\ Bench!Method(t) \in EngineMethods \ {"create"}
      BY <1>0, <1>2, AtWork
    <2>2. tool[t].inst \in Instances /\ stage[tool[t].inst].made = BenchOf[t]
      BY <2>1, AtInstance
    <2>3. stage[tool[t].inst].time \in Nat
      <3>1. stage[tool[t].inst] \in EngineState
        BY <2>2 DEF BenchInv, Hosting
      <3> QED BY <3>1, BenchNumbers DEF EngineState
    <2>4. r.is \in {"ok", "error"} /\ r.time \in Nat
      BY <2>1, <2>3, Engines
    <2>5. /\ SameEngines /\ Handing' /\ stage'[tool[t].inst].time = r.time
          /\ \A j \in Instances : j # tool[t].inst => stage'[j].time = stage[j].time
      <3>1. PICK i \in Instances : i = tool[t].inst
        BY <2>2
      <3>2. r.time <= MaxTime /\ stage' = [stage EXCEPT ![i].time = r.time] /\ hands' = [hands EXCEPT ![i] = @ \cup {BenchOf[t]}]
        BY <1>2, <3>1 DEF Bench!Engine
      <3> QED BY <1>0, <2>2, <2>4, <3>1, <3>2, EngineRuns
    <2>6. Hosting' /\ Holding'
      BY <1>0, <2>5, EnginesKeep, HostsKeep DEF SameEngines
    <2>7. /\ answer'[t] = r /\ DOMAIN answer' = DOMAIN answer
          /\ \A u \in Workers \ {t} : answer'[u] = answer[u]
      BY <1>0, <1>2
    <2>8. Hearing'
      BY <1>0, <2>1, <2>4, <2>5, <2>7, HearStep
    <2>9. Queueing'
      BY <1>0, <2>5, <2>7, QueueStands
    <2>10. Quiet'
      <3>1. ASSUME NEW k \in DOMAIN queue PROVE queue[k].inst # tool[t].inst
        <4>1. Awaited(queue[k])
          BY DEF BenchInv, Queueing
        <4> QED BY <1>2, <2>1, <4>1 DEF Awaited
      <3> QED BY <1>0, <2>7, <3>1 DEF BenchInv, Quiet, Alone
    <2>11. Timed'
      BY <1>0, <1>2, <2>1, <2>5, <2>7, ClockStep
    <2> QED BY <1>a, <2>5, <2>6, <2>8, <2>9, <2>10, <2>11 DEF BenchInv
  <1>3. \/ /\ Bench!Method(t) = "create" /\ UNCHANGED hands
           /\ \E i \in Bench!Fresh : Bench!Made(i, BenchOf[t], 0) /\ answer' = [answer EXCEPT ![t] = Bench!Ok(i)]
        \/ /\ Bench!Method(t) # "create" /\ stage[tool[t].inst].backend = "mujoco"
           /\ \E r \in Bench!Does(Bench!Method(t), "mujoco", stage[tool[t].inst].time) :
                Bench!Engine(tool[t].inst, BenchOf[t], Bench!Method(t), r) /\ answer' = [answer EXCEPT ![t] = r]
    BY DEF Bench!Mine
  <1> QED BY <1>1, <1>2, <1>3


\* A request joins the queue.
LEMMA SentWaits ==
  ASSUME BenchInv, NEW t \in Workers, Engaged(t), answer[t].is = "none", UNCHANGED <<tool, stage>>,
         tool[t].inst # 0 => stage[tool[t].inst].backend = "isaac",
         Bench!Reads(t, tool[t].inst), DOMAIN answer' = DOMAIN answer,
         answer'[t].is = "out", \A u \in Workers \ {t} : answer'[u] = answer[u]
  PROVE  Queueing' /\ Quiet'
  <1>0. queue \in Seq(Asked) /\ tool[t].inst \in Instances \cup {0} /\ Bench!Method(t) \in EngineMethods
    <2>1. tool[t] \in ToolState
      BY AtWork
    <2> QED BY <2>1, AtWork DEF BenchInv, Queueing, ToolState
  <1> DEFINE request == [from |-> t, inst |-> tool[t].inst, method |-> Bench!Method(t), live |-> TRUE]
  <1>b. /\ request \in Asked /\ request.from = t /\ request.inst = tool[t].inst
        /\ request.method = Bench!Method(t) /\ request.live
    BY <1>0 DEF Asked
  <1>c. queue' = Append(queue, request)
    BY DEF Bench!Reads
  <1> HIDE DEF request
  <1>1. PICK q \in Asked : /\ q = request /\ q.from = t /\ q.inst = tool[t].inst
                           /\ q.method = Bench!Method(t) /\ q.live
    BY <1>b
  <1>q. queue' = Append(queue, q)
    BY <1>1, <1>c
  <1>2. PICK n \in Nat : n = Len(queue)
    BY <1>0
  <1>3. /\ queue' \in Seq(Asked) /\ queue'[n + 1] = q /\ DOMAIN queue' = 1..(n + 1) /\ DOMAIN queue = 1..n
        /\ \A k \in DOMAIN queue : queue'[k] = queue[k]
    BY <1>0, <1>1, <1>2, <1>q
  <1>4. \A k \in DOMAIN queue' : k = n + 1 \/ k \in DOMAIN queue
    BY <1>2, <1>3
  <1>5. ASSUME NEW k \in DOMAIN queue
        PROVE  /\ queue[k].from \in Workers /\ Awaited(queue[k]) /\ queue'[k] = queue[k]
               /\ queue[k].live => queue[k].from # t
    <2>1. queue[k] \in Asked /\ Awaited(queue[k])
      BY <1>0 DEF BenchInv, Queueing
    <2> QED BY <2>1, <1>3 DEF Asked, Awaited
  <1>6. ASSUME NEW k \in DOMAIN queue' PROVE Awaited(queue[k])'
    <2>1. CASE k = n + 1
      <3>1. q.inst # 0 => stage[q.inst].made = BenchOf[q.from]
        BY <1>1, AtInstance
      <3>2. Awaited(q)'
        BY <1>1, <3>1 DEF Awaited, Engaged, Bench!Method
      <3> QED BY <2>1, <3>2, <1>3
    <2>2. CASE k \in DOMAIN queue
      <3>1. PICK p : p = queue[k] /\ p = queue'[k]
        BY <1>5, <2>2
      <3>2. p.from \in Workers /\ Awaited(p) /\ (p.live => p.from # t)
        BY <1>5, <2>2, <3>1
      <3>3. Awaited(p)'
        BY <3>2 DEF Awaited, Engaged, Bench!Method
      <3> QED BY <3>1, <3>3
    <2> QED BY <1>4, <2>1, <2>2
  <1>7. ASSUME NEW k \in DOMAIN queue', NEW l \in DOMAIN queue', k < l PROVE Follows(queue'[l], queue'[k])
    <2>1. k \in DOMAIN queue
      BY <1>2, <1>3, <1>7
    <2>2. CASE l = n + 1
      <3>1. ASSUME queue[k].live, queue[k].inst = q.inst, q.inst # 0 PROVE FALSE
        <4>1. tool[queue[k].from].inst = tool[t].inst
          BY <1>1, <1>5, <2>1, <3>1 DEF Awaited
        <4> QED BY <1>1, <1>5, <2>1, <3>1, <4>1, AtInstance
      <3> QED BY <1>1, <1>3, <1>5, <2>1, <2>2, <3>1 DEF Follows
    <2>3. CASE l \in DOMAIN queue
      BY <1>3, <1>7, <2>1, <2>3 DEF BenchInv, Queueing
    <2> QED BY <1>4, <2>2, <2>3
  <1>8. Queueing'
    BY <1>3, <1>6, <1>7 DEF Queueing, Follows
  <1>9. ASSUME NEW u \in Workers PROVE Alone(u)'
    <2>1. SUFFICES ASSUME tool[u].tool = "record", answer'[u].is # "error", tool[u].at > 1 \/ answer'[u].is = "ok",
                          NEW k \in DOMAIN queue', queue'[k].inst = tool[u].inst
                   PROVE  queue'[k].from = u /\ queue'[k].live
      BY DEF Alone
    <2>2. tool[u].inst # 0 /\ Alone(u)
      BY <2>1, AtRecording DEF BenchInv, Quiet
    <2>3. CASE k = n + 1
      <3>1. tool[u].inst = tool[t].inst
        BY <1>1, <1>3, <2>1, <2>3
      <3>2. u = t
        BY <2>2, <3>1, AtInstance
      <3> QED BY <1>1, <1>3, <2>3, <3>2
    <2>4. CASE k \in DOMAIN queue
      <3>1. answer[u].is # "error" /\ (tool[u].at > 1 \/ answer[u].is = "ok")
        <4>1. CASE u = t
          BY <2>1, <4>1
        <4>2. CASE u # t
          BY <2>1, <4>2
        <4> QED BY <4>1, <4>2
      <3> QED BY <1>5, <2>1, <2>2, <2>4, <3>1 DEF Alone
    <2> QED BY <1>4, <2>3, <2>4
  <1> QED BY <1>8, <1>9 DEF Quiet

LEMMA SendKeeps == ASSUME BenchInv, NEW t \in Workers, Bench!Send(t) PROVE BenchInv'
  <1>0. /\ Engaged(t) /\ answer[t].is = "none" /\ UNCHANGED <<host, stage, entries, tool, episodes, toolCalls, hands>>
        /\ DOMAIN answer = Workers /\ SameEngines
        /\ tool[t].inst # 0 => stage[tool[t].inst].backend = "isaac"
    <2>1. UNCHANGED stage /\ Engaged(t)
      BY DEF Bench!Send, Engaged
    <2> QED BY <2>1, UnchangedEngines DEF BenchInv, Hearing, Bench!Send, Bench!None
  <1>a. Hosting' /\ Holding' /\ ToolsRun' /\ Handing' /\ Stored' /\ Filed'
    BY <1>0, BenchFrames
  <1>1. ASSUME Bench!Reads(t, tool[t].inst), answer' = [answer EXCEPT ![t] = [is |-> "out"]] PROVE BenchInv'
    <2>1. /\ answer'[t].is = "out" /\ DOMAIN answer' = DOMAIN answer
          /\ \A u \in Workers \ {t} : answer'[u] = answer[u]
      BY <1>0, <1>1
    <2>2. Hearing'
      BY <1>0, <2>1, HearStep
    <2>3. Queueing' /\ Quiet'
      BY <1>0, <1>1, <2>1, SentWaits
    <2>4. Timed'
      BY <1>0, <2>1, ClockKeeps
    <2> QED BY <1>a, <2>2, <2>3, <2>4 DEF BenchInv
  <1>2. ASSUME UNCHANGED queue, answer' = [answer EXCEPT ![t] = Bench!Failed(0)] PROVE BenchInv'
    <2>1. /\ answer'[t].is = "error" /\ DOMAIN answer' = DOMAIN answer
          /\ \A u \in Workers \ {t} : answer'[u] = answer[u]
      BY <1>0, <1>2, FailedFacts
    <2>2. Hearing'
      BY <1>0, <2>1, HearStep
    <2>3. Queueing'
      BY <1>0, <1>2, <2>1, QueueStands
    <2>4. Quiet'
      BY <1>0, <1>2, <2>1 DEF BenchInv, Quiet, Alone
    <2>5. Timed'
      BY <1>0, <2>1, ClockKeeps
    <2> QED BY <1>a, <2>2, <2>3, <2>4, <2>5 DEF BenchInv
  <1> QED BY <1>1, <1>2 DEF Bench!Send

\* A client gives up: its request is served for nobody.
LEMMA MissingKeeps == ASSUME BenchInv, NEW t \in Workers, Bench!Missing(t) PROVE BenchInv'
  <1>0. /\ Engaged(t) /\ answer[t].is = "out" /\ UNCHANGED <<host, stage, entries, tool, episodes, toolCalls, hands>>
        /\ DOMAIN answer = Workers /\ SameEngines
    <2>1. answer[t].is = "out" /\ UNCHANGED stage /\ Hears(t)
      BY DEF Bench!Missing, BenchInv, Hearing
    <2> QED BY <2>1, UnchangedEngines DEF BenchInv, Hearing, Hears, Bench!Missing
  <1>a. Hosting' /\ Holding' /\ ToolsRun' /\ Handing' /\ Stored' /\ Filed'
    BY <1>0, BenchFrames
  <1>1. /\ answer'[t].is = "error" /\ DOMAIN answer' = DOMAIN answer
        /\ \A u \in Workers \ {t} : answer'[u] = answer[u]
    BY <1>0, FailedFacts DEF Bench!Missing
  <1>2. queue \in Seq(Asked)
    BY DEF BenchInv, Queueing
  <1>3. PICK n \in Nat : n = Len(queue) /\ DOMAIN queue = 1..n
    BY <1>2
  <1>4. ASSUME NEW k \in 1..n
        PROVE  /\ queue'[k] \in Asked /\ queue'[k].from = queue[k].from /\ queue'[k].inst = queue[k].inst
               /\ queue'[k].method = queue[k].method
               /\ queue'[k].live <=> queue[k].live /\ queue[k].from # t
               /\ queue[k].from # t => queue'[k] = queue[k]
    <2>1. PICK q \in Asked : q = queue[k]
      BY <1>2, <1>3
    <2>2. queue'[k] = IF q.from = t THEN [q EXCEPT !.live = FALSE] ELSE q
      BY <1>3, <2>1 DEF Bench!Missing
    <2>3. CASE q.from = t
      BY <2>1, <2>2, <2>3 DEF Asked
    <2>4. CASE q.from # t
      BY <2>1, <2>2, <2>4 DEF Asked
    <2> QED BY <2>3, <2>4
  <1>5. queue' \in Seq(Asked) /\ DOMAIN queue' = 1..n
    <2>1. queue' = [k \in 1..n |-> queue'[k]]
      BY <1>3 DEF Bench!Missing
    <2>2. queue' \in [1..n -> Asked]
      BY <1>4, <2>1
    <2> QED BY <2>2
  <1>6. ASSUME NEW k \in 1..n PROVE Awaited(queue[k])'
    <2>1. PICK p \in Asked : p = queue'[k]
      BY <1>4
    <2>2. PICK q \in Asked : q = queue[k]
      BY <1>2, <1>3
    <2>3. /\ Awaited(q) /\ p.from = q.from /\ p.inst = q.inst /\ p.method = q.method
          /\ p.live => q.live /\ q.from # t
      BY <1>3, <1>4, <2>1, <2>2 DEF BenchInv, Queueing
    <2>4. q.from \in Workers
      BY DEF Asked
    <2>5. Awaited(p)'
      BY <1>0, <1>1, <2>3, <2>4 DEF Awaited, Engaged, Bench!Method
    <2> QED BY <2>1, <2>5
  <1>7. ASSUME NEW k \in 1..n, NEW l \in 1..n, k < l PROVE Follows(queue'[l], queue'[k])
    <2>1. Follows(queue[l], queue[k])
      BY <1>3, <1>7 DEF BenchInv, Queueing
    <2>2. /\ queue'[k].from = queue[k].from /\ queue'[k].inst = queue[k].inst
          /\ queue'[l].from = queue[l].from /\ queue'[l].inst = queue[l].inst
          /\ queue'[k].live => queue[k].live
          /\ queue'[l].live => queue[l].live
      BY <1>4
    <2> QED BY <2>1, <2>2 DEF Follows
  <1>8. Queueing'
    BY <1>5, <1>6, <1>7 DEF Queueing, Follows
  <1>9. Quiet'
    <2>1. SUFFICES ASSUME NEW u \in Workers, tool[u].tool = "record", answer'[u].is # "error",
                          tool[u].at > 1 \/ answer'[u].is = "ok",
                          NEW k \in 1..n, queue'[k].inst = tool[u].inst
                   PROVE  queue'[k].from = u /\ queue'[k].live
      BY <1>0, <1>5 DEF Quiet, Alone
    <2>2. u # t /\ Alone(u)
      BY <1>1, <2>1 DEF BenchInv, Quiet
    <2>3. queue[k].from = u /\ queue[k].live
      BY <1>1, <1>3, <1>4, <2>1, <2>2 DEF Alone
    <2> QED BY <1>4, <2>2, <2>3
  <1>10. Hearing'
    BY <1>0, <1>1, HearStep
  <1>11. Timed'
    BY <1>0, <1>1, ClockKeeps
  <1> QED BY <1>a, <1>8, <1>9, <1>10, <1>11 DEF BenchInv

LEMMA HearKeeps == ASSUME BenchInv, SameEngines, UNCHANGED <<tool, answer>> PROVE Hearing'
  <1>1. ASSUME NEW u \in Workers PROVE Hears(u)'
    <2>1. Hears(u)
      BY DEF BenchInv, Hearing
    <2>2. ASSUME answer[u].is = "ok", tool[u].inst = 0 PROVE stage'[answer[u].time].made = BenchOf[u]
      <3>1. answer[u].time \in Instances /\ stage[answer[u].time].made = BenchOf[u] /\ BenchOf[u] # 0
        BY <2>1, <2>2, BenchNumbers DEF Hears
      <3> QED BY <3>1 DEF SameEngines
    <2> QED BY <2>1, <2>2 DEF Hears, Engaged
  <1> QED BY <1>1 DEF BenchInv, Hearing

\* The bridge tells him who still waits for it.
LEMMA ReplyStep ==
  ASSUME BenchInv, SameEngines, UNCHANGED tool, queue # <<>>, queue' = Tail(queue), NEW q, q = Head(queue),
         NEW r, Bench!Reply(q, r), r.is \in {"ok", "error"},
         r.is = "ok" /\ q.method # "create" => r.time \in Nat,
         r.is = "ok" /\ q.method = "create" => r.time \in Instances /\ stage'[r.time].made = BenchOf[q.from]
  PROVE  /\ Hearing' /\ Queueing' /\ Quiet' /\ q \in Asked /\ Awaited(q)
         /\ q.live => answer'[q.from] = r
         /\ \A u \in Workers : answer'[u] = answer[u] \/ (q.live /\ u = q.from)
  <1>1. q \in Asked /\ Awaited(q) /\ DOMAIN answer = Workers
    <2>1. queue \in Seq(Asked) /\ q = queue[1] /\ 1 \in DOMAIN queue
      BY DEF BenchInv, Queueing
    <2> QED BY <2>1 DEF BenchInv, Queueing, Hearing
  <1>2. q.from \in Workers
    BY <1>1 DEF Asked
  <1>3. /\ q.live => answer'[q.from] = r
        /\ \A u \in Workers : answer'[u] = answer[u] \/ (q.live /\ u = q.from)
        /\ DOMAIN answer' = DOMAIN answer /\ \A u \in Workers \ {q.from} : answer'[u] = answer[u]
    BY <1>1, <1>2 DEF Bench!Reply
  <1>4. Queueing' /\ Quiet'
    BY <1>3, QueueTail
  <1>5. Hearing'
    <2>1. CASE q.live
      <3>1. Engaged(q.from) /\ tool[q.from].inst = q.inst /\ Bench!Method(q.from) = q.method
        BY <1>1, <2>1 DEF Awaited
      <3>2. q.method = "create" <=> tool[q.from].inst = 0
        BY <1>2, <3>1, AtWork
      <3> QED BY <1>2, <1>3, <2>1, <3>1, <3>2, HearStep
    <2>2. CASE ~q.live
      BY <2>2, HearKeeps DEF Bench!Reply
    <2> QED BY <2>1, <2>2
  <1> QED BY <1>1, <1>3, <1>4, <1>5

LEMMA ServeKeeps == ASSUME BenchInv, Bench!Serve PROVE BenchInv'
  <1>0. /\ host.up /\ queue # <<>> /\ queue' = Tail(queue) /\ UNCHANGED <<entries, tool, episodes, toolCalls>>
    BY DEF Bench!Serve
  <1>a. ToolsRun' /\ Stored' /\ Filed'
    BY <1>0, BenchFrames
  <1>h. host \in HostState /\ host.life \in 0..MaxLives /\ host.owner \in Instances \cup {0}
    <2>1. host \in HostState
      BY DEF BenchInv, Hosting
    <2> QED BY <2>1 DEF HostState
  <1>q. PICK q \in Asked : q = Head(queue) /\ Awaited(q) /\ q = queue[1] /\ 1 \in DOMAIN queue
    <2>1. queue \in Seq(Asked)
      BY DEF BenchInv, Queueing
    <2>2. Head(queue) = queue[1] /\ 1 \in DOMAIN queue /\ queue[1] \in Asked
      BY <1>0, <2>1
    <2> QED BY <2>2 DEF BenchInv, Queueing
  <1>f. q.from \in Workers /\ BenchOf[q.from] \in Benches
    BY BenchNumbers DEF Asked
  <1>1. ASSUME Bench!Reply(q, Bench!Failed(0)), UNCHANGED <<host, stage, hands>> PROVE BenchInv'
    <2>1. SameEngines
      BY <1>1, UnchangedEngines
    <2>2. Bench!Failed(0).is = "error"
      BY FailedFacts
    <2>3. /\ Hearing' /\ Queueing' /\ Quiet'
          /\ q.live => answer'[q.from].is = "error"
          /\ \A u \in Workers : answer'[u] = answer[u] \/ (q.live /\ u = q.from)
      BY <1>0, <1>1, <1>q, <2>1, <2>2, ReplyStep
    <2>4. Hosting' /\ Holding' /\ Handing'
      BY <1>0, <1>1, BenchFrames
    <2>5. Timed'
      BY <1>0, <1>1, <2>3, ClockKeeps
    <2> QED BY <1>a, <2>3, <2>4, <2>5 DEF BenchInv
  <1>2. ASSUME q.method = "create", NEW i \in Bench!Fresh, Bench!Made(i, BenchOf[q.from], host.life),
               host' = [host EXCEPT !.owner = i], Bench!Reply(q, Bench!Ok(i)), UNCHANGED hands
        PROVE  BenchInv'
    <2>1. /\ SameEngines /\ stage'[i].made = BenchOf[q.from] /\ i \in Instances
          /\ \A j \in Instances : stage'[j].time = stage[j].time
      BY <1>2, <1>f, <1>h, EngineMade
    <2>2. Bench!Ok(i).is = "ok" /\ Bench!Ok(i).time = i
      BY DEF Bench!Ok
    <2>3. /\ Hearing' /\ Queueing' /\ Quiet'
          /\ \A u \in Workers : answer'[u] = answer[u] \/ (q.live /\ u = q.from)
      BY <1>0, <1>2, <1>q, <2>1, <2>2, ReplyStep
    <2>4. Holding' /\ Handing'
      BY <1>0, <1>2, <2>1, EnginesKeep
    <2>5. Hosting'
      <3>1. i \in Instances \cup {0}
        BY <2>1
      <3> QED BY <1>2, <2>1, <3>1, HostsKeep DEF SameEngines
    <2>6. Timed'
      <3>1. ASSUME NEW u \in Workers, Recording(u)
            PROVE  answer'[u] = answer[u] /\ stage'[tool[u].inst].time = stage[tool[u].inst].time
        <4>1. tool[u].inst # 0 /\ tool[u].inst \in Instances /\ Engaged(u)
          BY <3>1, AtRecording DEF Recording
        <4>2. q.live => Engaged(q.from) /\ tool[q.from].inst = 0
          <5>1. q.live => Engaged(q.from) /\ Bench!Method(q.from) = "create"
            BY <1>2, <1>q DEF Awaited
          <5> QED BY <1>f, <5>1, AtWork
        <4> QED BY <2>1, <2>3, <4>1, <4>2
      <3> QED BY <1>0, <3>1, ClockKeeps
    <2> QED BY <1>a, <2>3, <2>4, <2>5, <2>6 DEF BenchInv
  <1>3. ASSUME q.method # "create", Bench!Current(q), NEW r \in Bench!Does(q.method, "isaac", stage[host.owner].time),
               Bench!Engine(host.owner, BenchOf[q.from], q.method, r), Bench!Reply(q, r),
               host' = IF q.method = "close" /\ r.is = "ok" THEN [host EXCEPT !.owner = 0] ELSE host
        PROVE  BenchInv'
    <2>1. PICK i \in Instances : i = host.owner /\ i = q.inst /\ i # 0
      BY <1>3, <1>h, BenchNumbers DEF Bench!Current, Bench!None
    <2>2. stage[i].made = BenchOf[q.from]
      BY <1>q, <2>1 DEF Awaited
    <2>3. PICK n \in Nat : n = stage[i].time
      <3>1. stage[i] \in EngineState
        BY DEF BenchInv, Hosting
      <3> QED BY <3>1, BenchNumbers DEF EngineState
    <2>4. PICK m \in EngineMethods \ {"create"} : m = q.method
      BY <1>3 DEF Asked
    <2>5. r.is \in {"ok", "error"} /\ r.time \in Nat
      BY <1>3, <2>1, <2>3, <2>4, Engines
    <2>6. /\ SameEngines /\ Handing' /\ stage'[i].time = r.time
          /\ \A j \in Instances : j # i => stage'[j].time = stage[j].time
      <3>1. r.time <= MaxTime /\ stage' = [stage EXCEPT ![i].time = r.time] /\ hands' = [hands EXCEPT ![i] = @ \cup {BenchOf[q.from]}]
        BY <1>3, <2>1 DEF Bench!Engine
      <3> QED BY <1>f, <2>2, <2>5, <3>1, EngineRuns
    <2>7. Holding'
      BY <1>0, <2>6, EnginesKeep
    <2>8. Hosting'
      <3>1. 0 \in Instances \cup {0}
        OBVIOUS
      <3>2. host' = host \/ host' = [host EXCEPT !.owner = 0]
        BY <1>3
      <3> QED BY <2>6, <3>1, <3>2, HostsKeep DEF SameEngines
    <2>9. /\ Hearing' /\ Queueing' /\ Quiet'
          /\ q.live => answer'[q.from] = r
          /\ \A u \in Workers : answer'[u] = answer[u] \/ (q.live /\ u = q.from)
      BY <1>0, <1>3, <1>q, <2>5, <2>6, ReplyStep
    <2>10. Timed'
      <3>1. CASE q.live
        <4>1. /\ tool[q.from].inst = i /\ Bench!Method(q.from) = q.method /\ answer[q.from].is = "out"
          BY <1>q, <2>1, <3>1 DEF Awaited
        <4>2. r \in Bench!Does(Bench!Method(q.from), "isaac", stage[tool[q.from].inst].time)
          BY <1>3, <2>1, <4>1
        <4>3. \A u \in Workers \ {q.from} : answer'[u] = answer[u]
          BY <2>9
        <4>4. PICK t \in Workers : t = q.from
          BY <1>f
        <4>5. tool[t].inst = i /\ tool[t].inst # 0 /\ answer[t].is \in {"none", "out"}
          BY <2>1, <4>1, <4>4
        <4>6. r \in Bench!Does(Bench!Method(t), "isaac", stage[tool[t].inst].time)
          BY <4>2, <4>4
        <4>7. answer'[t] = r /\ \A u \in Workers \ {t} : answer'[u] = answer[u]
          BY <2>9, <3>1, <4>3, <4>4
        <4>8. /\ stage'[tool[t].inst].time = r.time
              /\ \A j \in Instances : j # tool[t].inst => stage'[j].time = stage[j].time
          BY <2>6, <4>5
        <4> QED BY <1>0, <4>5, <4>6, <4>7, <4>8, ClockStep
      <3>2. CASE ~q.live
        <4>1. ASSUME NEW u \in Workers, Recording(u)
              PROVE  answer'[u].is = "error" \/ (stage'[tool[u].inst].time = stage[tool[u].inst].time /\ answer'[u] = answer[u])
          <5>1. answer'[u] = answer[u] /\ tool[u].inst \in Instances /\ tool[u].at \in 1..7 /\ tool[u].at >= 3 /\ tool[u].tool = "record"
            BY <2>9, <3>2, <4>1, AtRecording DEF Recording
          <5>2. CASE tool[u].inst # i
            BY <2>6, <5>1, <5>2
          <5>3. CASE tool[u].inst = i
            <6>1. Alone(u) /\ tool[u].at > 1
              BY <5>1 DEF BenchInv, Quiet
            <6> QED BY <1>q, <2>1, <3>2, <5>1, <5>3, <6>1 DEF Alone
          <5> QED BY <5>2, <5>3
        <4> QED BY <1>0, <4>1, ClockKeeps
      <3> QED BY <3>1, <3>2
    <2> QED BY <1>a, <2>6, <2>7, <2>8, <2>9, <2>10 DEF BenchInv
  <1> QED BY <1>q, <1>1, <1>2, <1>3 DEF Bench!Serve, Bench!Mine, Bench!None

\* The bridge goes, and what is asked is lost; another comes.
LEMMA HostStopsKeeps == ASSUME BenchInv, Bench!HostStops PROVE BenchInv'
  <1>0. /\ host' = [host EXCEPT !.up = FALSE, !.owner = 0] /\ queue' = <<>>
        /\ UNCHANGED <<stage, entries, tool, answer, episodes, toolCalls, hands>>
    BY DEF Bench!HostStops, Bench!None
  <1>1. Holding' /\ ToolsRun' /\ Hearing' /\ Handing' /\ Stored' /\ Filed' /\ Timed'
    BY <1>0, BenchFrames
  <1>2. Hosting'
    <2>1. host \in HostState /\ stage' \in [Instances -> EngineState]
      BY <1>0 DEF BenchInv, Hosting
    <2> QED BY <1>0, <2>1 DEF Hosting, HostState
  <1>3. Queueing' /\ Quiet'
    BY <1>0 DEF Queueing, Quiet, Alone
  <1> QED BY <1>1, <1>2, <1>3 DEF BenchInv

LEMMA HostStartsKeeps == ASSUME BenchInv, Bench!HostStarts PROVE BenchInv'
  <1>0. /\ host' = [up |-> TRUE, life |-> host.life + 1, owner |-> 0] /\ host.life < MaxLives
        /\ UNCHANGED <<queue, stage, entries, tool, answer, episodes, toolCalls, hands>>
    BY DEF Bench!HostStarts, Bench!None
  <1>1. Holding' /\ ToolsRun' /\ Hearing' /\ Queueing' /\ Handing' /\ Quiet' /\ Stored' /\ Filed' /\ Timed'
    BY <1>0, BenchFrames
  <1>2. Hosting'
    <2>1. host \in HostState /\ stage' \in [Instances -> EngineState]
      BY <1>0 DEF BenchInv, Hosting
    <2>2. host.life + 1 \in 0..MaxLives
      <3>1. host.life \in 0..MaxLives
        BY <2>1 DEF HostState
      <3> QED BY <1>0, <3>1, BenchNumbers
    <2> QED BY <1>0, <2>1, <2>2 DEF Hosting, HostState
  <1> QED BY <1>1, <1>2 DEF BenchInv

-----------------------------------------------------------------------------
(* A worker takes a step of his tool. *)

\* t is now at r, and nothing is asked for him.
Turns(t, r) ==
  /\ tool' = [tool EXCEPT ![t] = r] /\ answer[t].is # "out" /\ UNCHANGED <<host, stage, queue, hands>>
  /\ answer' = IF answer[t].is = "none" THEN answer ELSE [answer EXCEPT ![t] = [is |-> "none"]]

LEMMA TurnFacts ==
  ASSUME BenchInv, NEW t \in Workers, NEW r, Turns(t, r)
  PROVE  /\ tool'[t] = r /\ \A u \in Workers \ {t} : tool'[u] = tool[u] /\ answer'[u] = answer[u]
         /\ answer'[t].is = "none" /\ DOMAIN answer' = Workers /\ DOMAIN tool' = Workers
  BY DEF Turns, BenchInv, ToolsRun, Hearing

\* He waits for nothing, and no request is his.
LEMMA TurnWaits ==
  ASSUME BenchInv, NEW t \in Workers, NEW r \in ToolState, Turns(t, r),
         r.tool = "record" /\ r.at > 1 =>
           tool[t].tool = "record" /\ answer[t].is = "ok" /\ r.inst = tool[t].inst
  PROVE  Hosting' /\ Handing' /\ Hearing' /\ Queueing' /\ Quiet'
  <1>1. /\ tool'[t] = r /\ \A u \in Workers \ {t} : tool'[u] = tool[u] /\ answer'[u] = answer[u]
        /\ answer'[t].is = "none" /\ DOMAIN answer' = Workers
    BY TurnFacts
  <1>2. Hosting' /\ Handing'
    BY BenchFrames DEF Turns
  <1>3. Hearing'
    <2>1. ASSUME NEW u \in Workers PROVE Hears(u)'
      <3>1. CASE u = t
        BY <1>1, <3>1 DEF Hears
      <3>2. CASE u # t
        <4>1. Hears(u)
          BY DEF BenchInv, Hearing
        <4> QED BY <1>1, <3>2, <4>1 DEF Hears, Engaged, Turns
      <3> QED BY <3>1, <3>2
    <2> QED BY <1>1, <2>1 DEF Hearing
  <1>4. Queueing'
    <2>1. ASSUME NEW k \in DOMAIN queue PROVE Awaited(queue[k])'
      <3>1. Awaited(queue[k]) /\ queue[k] \in Asked
        BY DEF BenchInv, Queueing
      <3>2. PICK q \in Asked : q = queue[k]
        BY <3>1
      <3>3. q.from \in Workers /\ Awaited(q) /\ (q.live => q.from # t)
        BY <3>1, <3>2 DEF Asked, Awaited, Turns
      <3>4. UNCHANGED <<queue, stage>>
        BY DEF Turns
      <3>5. Awaited(q)'
        BY <1>1, <3>3, <3>4 DEF Awaited, Engaged, Bench!Method
      <3> QED BY <3>2, <3>4, <3>5
    <2>2. UNCHANGED queue
      BY DEF Turns
    <2> QED BY <2>1, <2>2 DEF BenchInv, Queueing, Follows
  <1>5. Quiet'
    <2>1. ASSUME NEW u \in Workers PROVE Alone(u)'
      <3>0. Alone(u) /\ UNCHANGED queue
        BY DEF BenchInv, Quiet, Turns
      <3>1. CASE u = t
        BY <1>1, <3>0, <3>1 DEF Alone
      <3>2. CASE u # t
        BY <1>1, <3>0, <3>2 DEF Alone
      <3> QED BY <3>1, <3>2
    <2> QED BY <2>1 DEF Quiet
  <1> QED BY <1>2, <1>3, <1>4, <1>5

\* He is where his tool can be, and alone at his workbench.
LEMMA TurnRuns ==
  ASSUME BenchInv, NEW t \in Workers, NEW r \in ToolState, Turns(t, r),
         \A b \in Benches : b # BenchOf[t] => Bench!Owned(b)' = Bench!Owned(b),
         r.tool # "none" => r.at \in 1..Len(Bench!Calls[r.tool]),
         r.inst = 0 <=> r.tool = "none" \/ (r.tool = "create" /\ r.at = 1),
         r.inst # 0 => r.inst \in Bench!Owned(BenchOf[t])',
         r.tool = "create" /\ r.at = 1 => Cardinality(Bench!Owned(BenchOf[t])') < MaxInstances,
         r.tool = "record" => r.asked # 0,
         Engaged(t) \/ \A u \in Workers : BenchOf[u] = BenchOf[t] => ~Engaged(u)
  PROVE  ToolsRun'
  <1>0. /\ tool \in [Workers -> ToolState] /\ Locked
        /\ tool'[t] = r /\ \A u \in Workers \ {t} : tool'[u] = tool[u]
    BY TurnFacts DEF BenchInv, ToolsRun
  <1>1. tool' \in [Workers -> ToolState]
    BY <1>0 DEF Turns
  <1>2. ASSUME NEW u \in Workers \ {t}, Engaged(u) PROVE BenchOf[u] # BenchOf[t]
    BY <1>0, <1>2 DEF Locked
  <1>3. ASSUME NEW u \in Workers PROVE RunsWell(u)'
    <2>1. CASE u = t
      BY <1>0, <2>1 DEF RunsWell
    <2>2. CASE u # t
      <3>1. RunsWell(u) /\ tool'[u] = tool[u] /\ BenchOf[u] \in Benches
        BY <1>0, <2>2, BenchNumbers DEF BenchInv, ToolsRun
      <3>2. CASE Engaged(u)
        <4>1. Bench!Owned(BenchOf[u])' = Bench!Owned(BenchOf[u])
          BY <1>2, <2>2, <3>1, <3>2
        <4> QED BY <3>1, <4>1 DEF RunsWell
      <3>3. CASE ~Engaged(u)
        BY <3>1, <3>3 DEF RunsWell, Engaged
      <3> QED BY <3>2, <3>3
    <2> QED BY <2>1, <2>2
  <1>4. Locked'
    <2>1. ASSUME NEW u \in Workers \ {t}, Engaged(u)' PROVE BenchOf[u] # BenchOf[t]
      BY <1>0, <1>2, <2>1 DEF Engaged
    <2> QED BY <1>0, <2>1 DEF Locked, Engaged
  <1> QED BY <1>1, <1>3, <1>4 DEF ToolsRun

\* Whoever writes goes on writing his own demonstration, and the clocks stand.
LEMMA TurnWrites ==
  ASSUME BenchInv, NEW t \in Workers, NEW r \in ToolState, Turns(t, r),
         DOMAIN episodes \subseteq DOMAIN episodes',
         \A u \in Workers \ {t} : Recording(u) => episodes'[tool[u].ep] = episodes[tool[u].ep],
         r.tool = "record" /\ r.at >= 3 =>
           /\ r.ep \in DOMAIN episodes' /\ Len(episodes'[r.ep].rows) < r.asked
           /\ \A u \in Workers \ {t} : Recording(u) => tool[u].ep # r.ep
           /\ Clock(r, [is |-> "none"], episodes'[r.ep].rows, stage[r.inst].time)
  PROVE  Filed' /\ Timed'
  <1>0. /\ tool'[t] = r /\ \A u \in Workers \ {t} : tool'[u] = tool[u] /\ answer'[u] = answer[u]
        /\ answer'[t].is = "none" /\ UNCHANGED stage
    BY TurnFacts DEF Turns
  <1>1. Filed'
    BY <1>0 DEF BenchInv, Filed, Recording
  <1>2. ASSUME NEW u \in Workers, Recording(u)'
        PROVE  Clock(tool'[u], answer'[u], episodes'[tool'[u].ep].rows, stage'[tool'[u].inst].time)
    <2>1. CASE u = t
      <3>1. Clock(r, [is |-> "none"], episodes'[r.ep].rows, stage[r.inst].time)
        BY <1>0, <1>2, <2>1 DEF Recording
      <3> QED BY <1>0, <2>1, <3>1 DEF Clock
    <2>2. CASE u # t
      BY <1>0, <1>2, <2>2 DEF BenchInv, Timed, Recording
    <2> QED BY <2>1, <2>2
  <1> QED BY <1>1, <1>2 DEF Timed

\* Who stops, or has not begun to write, leaves the demonstrations alone.
LEMMA TurnAside ==
  ASSUME BenchInv, NEW t \in Workers, NEW r \in ToolState, Turns(t, r), UNCHANGED episodes,
         r.tool # "record" \/ r.at < 3
  PROVE  Stored' /\ Filed' /\ Timed'
  <1>1. ~(r.tool = "record" /\ r.at >= 3)
    <2>1. r.at \in 1..7
      BY DEF ToolState
    <2> QED BY <2>1
  <1>2. Filed' /\ Timed'
    BY <1>1, TurnWrites
  <1> QED BY <1>2, BenchFrames

LEMMA IdleIsTool ==
  /\ Bench!Idle \in ToolState /\ Bench!Idle.tool = "none" /\ Bench!Idle.at = 1 /\ Bench!Idle.inst = 0
  /\ Bench!Idle.asked = 0 /\ Bench!Idle = [tool |-> "none", at |-> 1, inst |-> 0, seen |-> 0, asked |-> 0, ep |-> 0]
  <1>1. 0 \in 0..MaxRows
    BY BenchNumbers
  <1> QED BY <1>1 DEF Bench!Idle, Bench!None, ToolState, ToolNames

-----------------------------------------------------------------------------
(* A tool begins. *)

LEMMA BegunIs ==
  ASSUME NEW m \in ToolNames, NEW i \in Instances \cup {0}
  PROVE  [Bench!Idle EXCEPT !.tool = m, !.inst = i]
           = [tool |-> m, at |-> 1, inst |-> i, seen |-> 0, asked |-> 0, ep |-> 0]
  <1> DEFINE b == [Bench!Idle EXCEPT !.tool = m]
             c == [b EXCEPT !.inst = i]
  <1>1. b = [tool |-> m, at |-> 1, inst |-> 0, seen |-> 0, asked |-> 0, ep |-> 0]
    BY DEF Bench!Idle, Bench!None
  <1> HIDE DEF b
  <1>2. c = [tool |-> m, at |-> 1, inst |-> i, seen |-> 0, asked |-> 0, ep |-> 0]
    BY <1>1
  <1> QED BY <1>2 DEF b

LEMMA BegunRecord ==
  ASSUME NEW i \in Instances \cup {0}, NEW n \in 1..MaxRows
  PROVE  [Bench!Idle EXCEPT !.tool = "record", !.inst = i, !.asked = n]
           = [tool |-> "record", at |-> 1, inst |-> i, seen |-> 0, asked |-> n, ep |-> 0]
  <1> DEFINE b == [Bench!Idle EXCEPT !.tool = "record", !.inst = i]
             c == [b EXCEPT !.asked = n]
  <1>1. b = [tool |-> "record", at |-> 1, inst |-> i, seen |-> 0, asked |-> 0, ep |-> 0]
    BY BegunIs DEF ToolNames
  <1> HIDE DEF b
  <1>2. c = [tool |-> "record", at |-> 1, inst |-> i, seen |-> 0, asked |-> n, ep |-> 0]
    BY <1>1
  <1> QED BY <1>2 DEF b

\* A workbench owns no more than it did.
LEMMA HoldLess ==
  ASSUME BenchInv, UNCHANGED stage, DOMAIN entries' = Benches,
         \A b \in Benches : Bench!Owned(b)' \subseteq Bench!Owned(b)
  PROVE  Holding'
  <1>1. ASSUME NEW b \in Benches
        PROVE  IsFiniteSet(Bench!Owned(b)') /\ Cardinality(Bench!Owned(b)') <= MaxInstances
    <2>1. PICK S : S = Bench!Owned(b)
      OBVIOUS
    <2>2. PICK T : T = Bench!Owned(b)'
      OBVIOUS
    <2>3. IsFiniteSet(S) /\ Cardinality(S) <= MaxInstances /\ T \subseteq S
      BY <2>1, <2>2 DEF BenchInv, Holding
    <2>4. IsFiniteSet(T) /\ Cardinality(T) <= Cardinality(S)
      BY <2>3, FS_Subset
    <2>5. Cardinality(S) \in Nat /\ Cardinality(T) \in Nat
      BY <2>3, <2>4, FS_CardinalityType
    <2> QED BY <2>2, <2>3, <2>4, <2>5, BenchNumbers
  <1>2. ASSUME NEW b \in Benches PROVE Bench!Owned(b)' \subseteq Instances /\ \A i \in Bench!Owned(b)' : stage[i].made = b
    BY DEF BenchInv, Holding
  <1> QED BY <1>1, <1>2 DEF Holding

LEMMA BeginKeeps ==
  ASSUME BenchInv, NEW t \in Workers, NEW m \in ToolNames \ {"none"}, NEW i \in Instances \cup {0}, NEW n \in 0..MaxRows,
         Bench!Free(t), UNCHANGED <<host, stage, queue, answer, episodes, hands>>,
         tool' = [tool EXCEPT ![t] = [tool |-> m, at |-> 1, inst |-> i, seen |-> 0, asked |-> n, ep |-> 0]],
         DOMAIN entries' = Benches, \A b \in Benches : Bench!Owned(b)' = Bench!Owned(b),
         i = 0 <=> m = "create", i # 0 => i \in Bench!Owned(BenchOf[t]),
         m = "create" => Cardinality(Bench!Owned(BenchOf[t])) < MaxInstances,
         m = "record" => n # 0
  PROVE  BenchInv'
  <1>1. PICK r \in ToolState : /\ r = [tool |-> m, at |-> 1, inst |-> i, seen |-> 0, asked |-> n, ep |-> 0]
                               /\ r.tool = m /\ r.at = 1 /\ r.inst = i /\ r.asked = n
    <2> DEFINE s == [tool |-> m, at |-> 1, inst |-> i, seen |-> 0, asked |-> n, ep |-> 0]
    <2>1. s \in ToolState /\ s.tool = m /\ s.at = 1 /\ s.inst = i /\ s.asked = n
      BY DEF ToolState
    <2> HIDE DEF s
    <2> QED BY <2>1 DEF s
  <1>2. \A u \in Workers : BenchOf[u] = BenchOf[t] => ~Engaged(u)
    BY DEF Bench!Free, Bench!Mine, Engaged
  <1>3. ~Engaged(t) /\ BenchOf[t] \in Benches
    BY <1>2, BenchNumbers
  <1>4. Turns(t, r)
    <2>1. Hears(t)
      BY DEF BenchInv, Hearing
    <2> QED BY <1>1, <1>3, <2>1 DEF Turns, Hears
  <1>5. Hosting' /\ Handing' /\ Hearing' /\ Queueing' /\ Quiet'
    BY <1>1, <1>4, TurnWaits
  <1>6. ToolsRun'
    <2>1. PICK l \in 1..7 : l = Len(Bench!Calls[m])
      BY ToolCalls
    <2>2. 1 \in 1..l
      OBVIOUS
    <2>3. Bench!Owned(BenchOf[t])' = Bench!Owned(BenchOf[t])
      BY <1>3
    <2> QED BY <1>1, <1>2, <1>4, <2>1, <2>2, <2>3, TurnRuns
  <1>7. Stored' /\ Filed' /\ Timed'
    BY <1>1, <1>4, TurnAside
  <1>8. Holding'
    BY HoldLess
  <1> QED BY <1>5, <1>6, <1>7, <1>8 DEF BenchInv

LEMMA SameOwned ==
  ASSUME BenchInv, UNCHANGED entries
  PROVE  DOMAIN entries' = Benches /\ \A b \in Benches : Bench!Owned(b)' = Bench!Owned(b)
  BY DEF BenchInv, Holding, Bench!Owned

LEMMA OwnedAre ==
  ASSUME BenchInv, NEW t \in Workers, NEW i \in Bench!Owned(BenchOf[t])
  PROVE  i \in Instances /\ i # 0 /\ BenchOf[t] \in Benches
  <1>1. BenchOf[t] \in Benches
    BY BenchNumbers
  <1> QED BY <1>1, BenchNumbers DEF BenchInv, Holding

LEMMA CreateKeeps == ASSUME BenchInv, NEW t \in Workers, Bench!Create(t) PROVE BenchInv'
  <1> USE DEF Bench!Create, Bench!Begins
  <1>1. tool' = [tool EXCEPT ![t] = [tool |-> "create", at |-> 1, inst |-> 0, seen |-> 0, asked |-> 0, ep |-> 0]]
    <2>1. "create" \in ToolNames /\ 0 \in Instances \cup {0}
      BY DEF ToolNames
    <2> QED BY <2>1, BegunIs DEF Bench!None
  <1>2. Cardinality(Bench!Owned(BenchOf[t])) < MaxInstances
    BY DEF Bench!Mine, Bench!Cardinality, Cardinality
  <1>3. "create" \in ToolNames \ {"none"} /\ 0 \in 0..MaxRows /\ 0 \in Instances \cup {0}
    BY BenchNumbers DEF ToolNames
  <1>4. Bench!Free(t) /\ UNCHANGED <<host, stage, queue, answer, episodes, hands, entries>>
    OBVIOUS
  <1> HIDE DEF Bench!Create, Bench!Begins
  <1> QED BY <1>1, <1>2, <1>3, <1>4, SameOwned, BeginKeeps

LEMMA ExitKeeps == ASSUME BenchInv, NEW t \in Workers, Bench!Exit(t) PROVE BenchInv'
  <1> USE DEF Bench!Exit, Bench!Begins
  <1>0. PICK i \in Bench!Owned(BenchOf[t]) : Bench!Begins(t, "exit", i)
    BY DEF Bench!Mine
  <1>1. tool' = [tool EXCEPT ![t] = [tool |-> "exit", at |-> 1, inst |-> i, seen |-> 0, asked |-> 0, ep |-> 0]]
    <2>1. "exit" \in ToolNames /\ i \in Instances \cup {0}
      BY OwnedAre DEF ToolNames
    <2> QED BY <1>0, <2>1, BegunIs
  <1>2. i \in Instances /\ i # 0 /\ i \in Instances \cup {0}
    BY OwnedAre
  <1>3. "exit" \in ToolNames \ {"none"} /\ 0 \in 0..MaxRows
    BY BenchNumbers DEF ToolNames
  <1>4. Bench!Free(t) /\ UNCHANGED <<host, stage, queue, answer, episodes, hands, entries>>
    BY <1>0
  <1> HIDE DEF Bench!Exit, Bench!Begins
  <1> QED BY <1>1, <1>2, <1>3, <1>4, SameOwned, BeginKeeps

LEMMA UseKeeps ==
  ASSUME BenchInv, NEW t \in Workers, NEW m \in Tools, NEW i \in Instances, Bench!Use(t, m, i)
  PROVE  BenchInv'
  <1> USE DEF Bench!Use, Bench!Begins
  <1>0. i \in Bench!Owned(BenchOf[t])
    BY DEF Bench!Mine
  <1>1. tool' = [tool EXCEPT ![t] = [tool |-> m, at |-> 1, inst |-> i, seen |-> 0, asked |-> 0, ep |-> 0]]
    <2>1. m \in ToolNames
      BY BenchAssumption DEF ToolNames
    <2> QED BY <2>1, BegunIs
  <1>2. i # 0 /\ i \in Instances \cup {0} /\ BenchOf[t] \in Benches
    BY <1>0, OwnedAre
  <1>3. m \in ToolNames \ {"none"} /\ 0 \in 0..MaxRows /\ m # "create" /\ m # "record"
    BY BenchNumbers, BenchAssumption DEF ToolNames
  <1>4. Bench!Free(t) /\ UNCHANGED <<host, stage, queue, answer, episodes, hands>>
    OBVIOUS
  <1>5. DOMAIN entries' = Benches /\ \A b \in Benches : Bench!Owned(b)' = Bench!Owned(b)
    <2>1. CASE UNCHANGED entries
      BY <2>1, SameOwned
    <2>2. CASE entries' = [entries EXCEPT ![BenchOf[t]][i] = [task |-> TRUE, steps |-> 0]]
      BY <2>2, <1>2 DEF BenchInv, Holding, Bench!Owned
    <2> QED BY <2>1, <2>2 DEF Bench!Mine
  <1> HIDE DEF Bench!Use, Bench!Begins
  <1> QED BY <1>0, <1>1, <1>2, <1>3, <1>4, <1>5, BeginKeeps

LEMMA RecordKeeps ==
  ASSUME BenchInv, NEW t \in Workers, NEW i \in Instances, NEW n \in 1..MaxRows, Bench!Record(t, i, n)
  PROVE  BenchInv'
  <1> USE DEF Bench!Record
  <1>0. i \in Bench!Owned(BenchOf[t])
    BY DEF Bench!Mine
  <1>1. tool' = [tool EXCEPT ![t] = [tool |-> "record", at |-> 1, inst |-> i, seen |-> 0, asked |-> n, ep |-> 0]]
    BY BegunRecord
  <1>2. i # 0 /\ i \in Instances \cup {0}
    BY <1>0, OwnedAre
  <1>3. "record" \in ToolNames \ {"none"} /\ n \in 0..MaxRows /\ n # 0
    BY BenchNumbers DEF ToolNames
  <1>4. Bench!Free(t) /\ UNCHANGED <<host, stage, queue, answer, episodes, hands, entries>>
    OBVIOUS
  <1> HIDE DEF Bench!Record
  <1> QED BY <1>0, <1>1, <1>2, <1>3, <1>4, SameOwned, BeginKeeps

-----------------------------------------------------------------------------
(* A tool goes on. *)

Moved(c, i, n, s, e) == [tool |-> c.tool, at |-> n, inst |-> i, seen |-> s, asked |-> c.asked, ep |-> e]

Fits(i, n, s, e) == i \in Instances \cup {0} /\ n \in 1..7 /\ s \in Nat /\ e \in Nat

LEMMA MovedIs ==
  ASSUME NEW c \in ToolState, NEW i, NEW n, NEW s, NEW e, Fits(i, n, s, e)
  PROVE  /\ Moved(c, i, n, s, e) \in ToolState
         /\ Moved(c, i, n, s, e).tool = c.tool /\ Moved(c, i, n, s, e).at = n /\ Moved(c, i, n, s, e).inst = i
         /\ Moved(c, i, n, s, e).seen = s /\ Moved(c, i, n, s, e).asked = c.asked /\ Moved(c, i, n, s, e).ep = e
  BY DEF Moved, ToolState, Fits

PutAt(c, n) == [c EXCEPT !.at = n]
PutInst(c, i) == [c EXCEPT !.inst = i]
PutSeen(c, s) == [c EXCEPT !.seen = s]
PutEp(c, e) == [c EXCEPT !.ep = e]

LEMMA Puts ==
  ASSUME NEW c \in ToolState, NEW i \in Instances \cup {0}, NEW n \in 1..7, NEW s \in Nat, NEW e \in Nat
  PROVE  /\ PutAt(c, n) = Moved(c, c.inst, n, c.seen, c.ep) /\ PutInst(c, i) = Moved(c, i, c.at, c.seen, c.ep)
         /\ PutSeen(c, s) = Moved(c, c.inst, c.at, s, c.ep) /\ PutEp(c, e) = Moved(c, c.inst, c.at, c.seen, e)
  <1>1. PICK x \in ToolNames, k \in 1..7, j \in Instances \cup {0}, l \in Nat, q \in 0..MaxRows, o \in Nat :
          c = [tool |-> x, at |-> k, inst |-> j, seen |-> l, asked |-> q, ep |-> o]
    BY DEF ToolState
  <1>2. c.tool = x /\ c.at = k /\ c.inst = j /\ c.seen = l /\ c.asked = q /\ c.ep = o
    BY <1>1
  <1>3. /\ PutAt(c, n) = [tool |-> x, at |-> n, inst |-> j, seen |-> l, asked |-> q, ep |-> o]
        /\ PutInst(c, i) = [tool |-> x, at |-> k, inst |-> i, seen |-> l, asked |-> q, ep |-> o]
        /\ PutSeen(c, s) = [tool |-> x, at |-> k, inst |-> j, seen |-> s, asked |-> q, ep |-> o]
        /\ PutEp(c, e) = [tool |-> x, at |-> k, inst |-> j, seen |-> l, asked |-> q, ep |-> e]
    BY <1>1 DEF PutAt, PutInst, PutSeen, PutEp
  <1> QED BY <1>2, <1>3, Zenon DEF Moved

LEMMA PutsTwice ==
  ASSUME NEW F \in [Workers -> ToolState], NEW t \in Workers, NEW x \in ToolState, NEW y \in ToolState
  PROVE  /\ [F EXCEPT ![t] = x] \in [Workers -> ToolState] /\ [F EXCEPT ![t] = x][t] = x
         /\ [[F EXCEPT ![t] = x] EXCEPT ![t] = y] = [F EXCEPT ![t] = y]
  OBVIOUS

\* What a step of the tool writes.
ToAt(t, n) == [tool EXCEPT ![t].at = n]
ToInst(t, n, i) == [tool EXCEPT ![t].at = n, ![t].inst = i]
ToSeen(t, n, s) == [tool EXCEPT ![t].at = n, ![t].seen = s]
SeenTo(t, s, n) == [tool EXCEPT ![t].seen = s, ![t].at = n]
ToEp(t, n, e) == [tool EXCEPT ![t].at = n, ![t].ep = e]
Goes(t, r) == [tool EXCEPT ![t] = r]

LEMMA ToolMoves ==
  ASSUME tool \in [Workers -> ToolState], NEW t \in Workers, NEW i, NEW n, NEW s, NEW e, Fits(i, n, s, e)
  PROVE  /\ ToAt(t, n) = Goes(t, Moved(tool[t], tool[t].inst, n, tool[t].seen, tool[t].ep))
         /\ ToInst(t, n, i) = Goes(t, Moved(tool[t], i, n, tool[t].seen, tool[t].ep))
         /\ ToSeen(t, n, s) = Goes(t, Moved(tool[t], tool[t].inst, n, s, tool[t].ep))
         /\ SeenTo(t, s, n) = Goes(t, Moved(tool[t], tool[t].inst, n, s, tool[t].ep))
         /\ ToEp(t, n, e) = Goes(t, Moved(tool[t], tool[t].inst, n, tool[t].seen, e))
  <1>1. PICK c \in ToolState : c = tool[t]
    OBVIOUS
  <1>t. c.inst \in Instances \cup {0} /\ c.seen \in Nat /\ c.ep \in Nat /\ c.at \in 1..7
    BY DEF ToolState
  <1>x. i \in Instances \cup {0} /\ n \in 1..7 /\ s \in Nat /\ e \in Nat
    BY DEF Fits
  <1>y. /\ Fits(c.inst, n, c.seen, c.ep) /\ Fits(c.inst, c.at, s, c.ep) /\ Fits(c.inst, n, s, c.ep)
        /\ Fits(i, n, c.seen, c.ep) /\ Fits(c.inst, n, c.seen, e) /\ Fits(i, n, s, e)
    BY <1>t, <1>x DEF Fits
  <1>2. PICK a \in ToolState : a = PutAt(c, n) /\ a = Moved(c, c.inst, n, c.seen, c.ep)
    BY <1>x, <1>y, Puts, MovedIs
  <1>3. PICK b \in ToolState : b = PutSeen(c, s) /\ b = Moved(c, c.inst, c.at, s, c.ep)
    BY <1>x, <1>y, Puts, MovedIs
  <1>a. a.tool = c.tool /\ a.at = n /\ a.inst = c.inst /\ a.seen = c.seen /\ a.asked = c.asked /\ a.ep = c.ep
    BY <1>2 DEF Moved
  <1>b. b.tool = c.tool /\ b.at = c.at /\ b.inst = c.inst /\ b.seen = s /\ b.asked = c.asked /\ b.ep = c.ep
    BY <1>3 DEF Moved
  <1>5. /\ Moved(a, i, a.at, a.seen, a.ep) = Moved(c, i, n, c.seen, c.ep)
        /\ Moved(a, a.inst, a.at, s, a.ep) = Moved(c, c.inst, n, s, c.ep)
        /\ Moved(b, b.inst, n, b.seen, b.ep) = Moved(c, c.inst, n, s, c.ep)
        /\ Moved(a, a.inst, a.at, a.seen, e) = Moved(c, c.inst, n, c.seen, e)
    BY <1>a, <1>b, Zenon DEF Moved
  <1>6. /\ PutInst(a, i) = Moved(c, i, n, c.seen, c.ep) /\ PutSeen(a, s) = Moved(c, c.inst, n, s, c.ep)
        /\ PutAt(b, n) = Moved(c, c.inst, n, s, c.ep) /\ PutEp(a, e) = Moved(c, c.inst, n, c.seen, e)
    BY <1>5, <1>x, Puts
  <1>7. /\ Moved(c, i, n, c.seen, c.ep) \in ToolState /\ Moved(c, c.inst, n, s, c.ep) \in ToolState
        /\ Moved(c, c.inst, n, c.seen, e) \in ToolState
    BY <1>y, MovedIs
  <1>8. PICK F : F = [tool EXCEPT ![t] = a]
    OBVIOUS
  <1>9. PICK G : G = [tool EXCEPT ![t] = b]
    OBVIOUS
  <1>f. F \in [Workers -> ToolState] /\ F[t] = a
    BY <1>8, PutsTwice, Zenon
  <1>g. G \in [Workers -> ToolState] /\ G[t] = b
    BY <1>9, PutsTwice, Zenon
  <1>10. [tool EXCEPT ![t].at = n] = F
    <2>1. [tool EXCEPT ![t].at = n] = [tool EXCEPT ![t] = PutAt(tool[t], n)]
      BY DEF PutAt
    <2> QED BY <1>1, <1>2, <1>8, <2>1
  <1>11. [tool EXCEPT ![t].seen = s] = G
    <2>1. [tool EXCEPT ![t].seen = s] = [tool EXCEPT ![t] = PutSeen(tool[t], s)]
      BY DEF PutSeen
    <2> QED BY <1>1, <1>3, <1>9, <2>1
  <1>12. [F EXCEPT ![t].inst = i] = [F EXCEPT ![t] = PutInst(a, i)]
    BY <1>f DEF PutInst
  <1>13. [F EXCEPT ![t].seen = s] = [F EXCEPT ![t] = PutSeen(a, s)]
    BY <1>f DEF PutSeen
  <1>14. [F EXCEPT ![t].ep = e] = [F EXCEPT ![t] = PutEp(a, e)]
    BY <1>f DEF PutEp
  <1>15. [G EXCEPT ![t].at = n] = [G EXCEPT ![t] = PutAt(b, n)]
    BY <1>g DEF PutAt
  <1>16. ASSUME NEW y \in ToolState PROVE [F EXCEPT ![t] = y] = [tool EXCEPT ![t] = y]
    BY <1>8
  <1>17. ASSUME NEW y \in ToolState PROVE [G EXCEPT ![t] = y] = [tool EXCEPT ![t] = y]
    BY <1>9
  <1> QED BY <1>1, <1>2, <1>6, <1>7, <1>8, <1>10, <1>11, <1>12, <1>13, <1>14, <1>15, <1>16, <1>17, Zenon DEF ToAt, ToInst, ToSeen, SeenTo, ToEp, Goes

LEMMA EntriesAt ==
  ASSUME BenchInv, NEW b \in Benches, NEW f, entries' = [entries EXCEPT ![b] = f]
  PROVE  /\ DOMAIN entries' = Benches /\ Bench!Owned(b)' = DOMAIN f
         /\ \A c \in Benches : c # b => Bench!Owned(c)' = Bench!Owned(c)
  BY DEF BenchInv, Holding, Bench!Owned

\* He takes the answer.
LEMMA TakenTurns ==
  ASSUME BenchInv, NEW t \in Workers, NEW r, tool' = [tool EXCEPT ![t] = r], answer[t].is \in {"ok", "error"},
         Bench!Taken(t), UNCHANGED <<host, stage, queue, hands>>
  PROVE  Turns(t, r) /\ Engaged(t) /\ tool[t] \in ToolState /\ BenchOf[t] \in Benches
  <1>1. Turns(t, r)
    BY DEF Turns, Bench!Taken
  <1>2. Hears(t)
    BY DEF BenchInv, Hearing
  <1>3. Engaged(t)
    BY <1>2 DEF Hears
  <1> QED BY <1>1, <1>3, BenchNumbers, AtWork

\* His tool ends.
LEMMA BenchEndKeeps ==
  ASSUME BenchInv, NEW t \in Workers, Bench!Ends(t), answer[t].is \in {"ok", "error"}, Bench!Taken(t),
         UNCHANGED <<host, stage, queue, hands, episodes>>, DOMAIN entries' = Benches,
         Bench!Owned(BenchOf[t])' \subseteq Bench!Owned(BenchOf[t]),
         \A b \in Benches : b # BenchOf[t] => Bench!Owned(b)' = Bench!Owned(b)
  PROVE  BenchInv'
  <1>1. PICK r \in ToolState : r = Bench!Idle /\ r.tool = "none" /\ r.at = 1 /\ r.inst = 0 /\ r.asked = 0
    BY IdleIsTool
  <1>2. Turns(t, r) /\ Engaged(t)
    BY <1>1, TakenTurns DEF Bench!Ends
  <1>3. Hosting' /\ Handing' /\ Hearing' /\ Queueing' /\ Quiet'
    BY <1>1, <1>2, TurnWaits
  <1>4. ToolsRun'
    BY <1>1, <1>2, TurnRuns
  <1>5. Stored' /\ Filed' /\ Timed'
    BY <1>1, <1>2, TurnAside
  <1>6. Holding'
    <2>1. \A b \in Benches : Bench!Owned(b)' \subseteq Bench!Owned(b)
      OBVIOUS
    <2> QED BY <2>1, HoldLess
  <1> QED BY <1>3, <1>4, <1>5, <1>6 DEF BenchInv

LEMMA RaisesKeeps == ASSUME BenchInv, NEW t \in Workers, Bench!Raises(t) PROVE BenchInv'
  <1>0. BenchOf[t] \in Benches
    BY BenchNumbers
  <1>1. /\ answer[t].is \in {"ok", "error"} /\ Bench!Taken(t) /\ Bench!Ends(t)
        /\ UNCHANGED <<host, stage, queue, hands, episodes>>
    BY DEF Bench!Raises
  <1>2. CASE UNCHANGED entries
    BY <1>1, <1>2, SameOwned, BenchEndKeeps, <1>0
  <1>3. ASSUME NEW f, entries' = [entries EXCEPT ![BenchOf[t]] = f], DOMAIN f \subseteq Bench!Owned(BenchOf[t])
        PROVE  BenchInv'
    BY <1>0, <1>1, <1>3, EntriesAt, BenchEndKeeps
  <1>4. CASE tool[t].tool = "exit"
    <2> DEFINE f == [i \in DOMAIN entries[BenchOf[t]] \ {tool[t].inst} |-> entries[BenchOf[t]][i]]
    <2>1. entries' = [entries EXCEPT ![BenchOf[t]] = f]
      BY <1>0, <1>4 DEF Bench!Raises, Bench!Mine, BenchInv, Holding
    <2>2. DOMAIN f \subseteq Bench!Owned(BenchOf[t])
      BY DEF Bench!Owned
    <2> HIDE DEF f
    <2> QED BY <1>3, <2>1, <2>2
  <1>5. CASE tool[t].tool # "exit"
    BY <1>2, <1>5 DEF Bench!Raises
  <1> QED BY <1>4, <1>5

LEMMA ToolTypes ==
  ASSUME NEW c \in ToolState
  PROVE  c.inst \in Instances \cup {0} /\ c.seen \in Nat /\ c.ep \in Nat /\ c.at \in 1..7 /\ c.asked \in Nat
  <1>1. c.inst \in Instances \cup {0} /\ c.seen \in Nat /\ c.ep \in Nat /\ c.at \in 1..7 /\ c.asked \in 0..MaxRows
    BY DEF ToolState
  <1> QED BY <1>1, BenchNumbers

LEMMA Movable ==
  ASSUME NEW c \in ToolState, NEW i, NEW n, NEW s, NEW e, Fits(i, n, s, e)
  PROVE  \E r \in ToolState : /\ r = Moved(c, i, n, s, e) /\ r.tool = c.tool /\ r.at = n /\ r.inst = i
                              /\ r.seen = s /\ r.asked = c.asked /\ r.ep = e
  <1> DEFINE r == Moved(c, i, n, s, e)
  <1>1. r \in ToolState /\ r.tool = c.tool /\ r.at = n /\ r.inst = i /\ r.seen = s /\ r.asked = c.asked /\ r.ep = e
    BY DEF Moved, ToolState, Fits
  <1>2. r = Moved(c, i, n, s, e)
    OBVIOUS
  <1> HIDE DEF r
  <1> QED BY <1>1, <1>2

\* What was created is his.
LEMMA CreatedKeeps == ASSUME BenchInv, NEW t \in Workers, Bench!Created(t) PROVE BenchInv'
  <1>0. /\ answer[t].is = "ok" /\ Bench!Method(t) = "create" /\ Bench!Taken(t)
        /\ UNCHANGED <<host, stage, queue, hands, episodes>>
        /\ tool \in [Workers -> ToolState]
    BY DEF Bench!Created, BenchInv, ToolsRun
  <1>1. Engaged(t) /\ Hears(t) /\ RunsWell(t) /\ BenchOf[t] \in Benches
    BY <1>0, BenchNumbers DEF BenchInv, Hearing, Hears, ToolsRun
  <1>2. tool[t].tool = "create" /\ tool[t].at = 1 /\ tool[t].inst = 0 /\ tool[t] \in ToolState
    BY <1>0, <1>1, AtWork
  <1>3. PICK i \in Instances : i = answer[t].time /\ stage[i].made = BenchOf[t] /\ i # 0
    BY <1>0, <1>1, <1>2, BenchNumbers DEF Hears
  <1>4. PICK c \in ToolState : c = tool[t]
    BY <1>2
  <1>s. Fits(answer[t].time, 2, c.seen, c.ep)
    BY <1>3, ToolTypes DEF Fits
  <1>r. PICK r \in ToolState : /\ r = Moved(c, answer[t].time, 2, c.seen, c.ep)
                               /\ r.tool = c.tool /\ r.at = 2 /\ r.inst = answer[t].time
    BY <1>s, Movable
  <1>5. tool' = [tool EXCEPT ![t] = r]
    <2>1. tool' = ToInst(t, 2, answer[t].time)
      BY Zenon DEF Bench!Created, ToInst
    <2>2. ToInst(t, 2, answer[t].time) = Goes(t, Moved(tool[t], answer[t].time, 2, tool[t].seen, tool[t].ep))
      BY <1>0, <1>s, ToolMoves
    <2> QED BY <1>4, <1>r, <2>1, <2>2, Zenon DEF Goes
  <1>6. Turns(t, r)
    BY <1>0, <1>5, TakenTurns
  <1> DEFINE f == [k \in DOMAIN entries[BenchOf[t]] \cup {i} |->
                     IF k = i THEN [task |-> FALSE, steps |-> 0] ELSE entries[BenchOf[t]][k]]
  <1>7. entries' = [entries EXCEPT ![BenchOf[t]] = f] /\ DOMAIN f = Bench!Owned(BenchOf[t]) \cup {i}
    BY <1>1, <1>3 DEF Bench!Created, Bench!Mine, Bench!Owned, BenchInv, Holding
  <1> HIDE DEF f
  <1>8. /\ DOMAIN entries' = Benches /\ Bench!Owned(BenchOf[t])' = Bench!Owned(BenchOf[t]) \cup {i}
        /\ \A b \in Benches : b # BenchOf[t] => Bench!Owned(b)' = Bench!Owned(b)
    BY <1>1, <1>7, EntriesAt
  <1>9. Holding'
    <2>1. PICK S : S = Bench!Owned(BenchOf[t])
      OBVIOUS
    <2>2. /\ IsFiniteSet(S) /\ Cardinality(S) < MaxInstances /\ S \subseteq Instances
          /\ \A j \in S : stage[j].made = BenchOf[t]
      BY <1>1, <1>2, <2>1 DEF BenchInv, Holding, RunsWell
    <2>3. IsFiniteSet(S \cup {i}) /\ Cardinality(S \cup {i}) \in {Cardinality(S), Cardinality(S) + 1}
      BY <2>2, FS_AddElement
    <2>4. Cardinality(S) \in Nat /\ Cardinality(S \cup {i}) \in Nat
      BY <2>2, <2>3, FS_CardinalityType
    <2>5. Cardinality(S \cup {i}) <= MaxInstances
      BY <2>2, <2>3, <2>4, BenchNumbers
    <2>6. ASSUME NEW b \in Benches
          PROVE  /\ Bench!Owned(b)' \subseteq Instances /\ IsFiniteSet(Bench!Owned(b)')
                 /\ Cardinality(Bench!Owned(b)') <= MaxInstances
                 /\ \A j \in Bench!Owned(b)' : stage[j].made = b
      <3>1. CASE b = BenchOf[t]
        BY <1>3, <1>8, <2>1, <2>2, <2>3, <2>5, <3>1
      <3>2. CASE b # BenchOf[t]
        BY <1>8, <3>2 DEF BenchInv, Holding
      <3> QED BY <3>1, <3>2
    <2> QED BY <1>0, <1>8, <2>6 DEF Holding
  <1>i. r.tool = "create" /\ r.at = 2 /\ r.inst = i
    BY <1>2, <1>3, <1>4, <1>r
  <1>10. Hosting' /\ Handing' /\ Hearing' /\ Queueing' /\ Quiet'
    BY <1>6, <1>i, TurnWaits
  <1>11. ToolsRun'
    <2>1. 2 \in 1..Len(Bench!Calls["create"])
      BY ToolEnds
    <2> QED BY <1>1, <1>3, <1>6, <1>8, <1>i, <2>1, TurnRuns
  <1>12. Stored' /\ Filed' /\ Timed'
    BY <1>0, <1>6, <1>i, TurnAside
  <1> QED BY <1>9, <1>10, <1>11, <1>12 DEF BenchInv

\* Every other tool but sim_record.
LEMMA AnsweredKeeps == ASSUME BenchInv, NEW t \in Workers, Bench!Answered(t) PROVE BenchInv'
  <1>0. /\ answer[t].is = "ok" /\ Bench!Method(t) # "create" /\ Bench!Taken(t) /\ tool[t].tool # "record"
        /\ UNCHANGED <<host, stage, queue, hands, episodes>>
        /\ tool \in [Workers -> ToolState] /\ BenchOf[t] \in Benches
    BY BenchNumbers DEF Bench!Answered, BenchInv, ToolsRun
  <1>1. Engaged(t) /\ Hears(t) /\ RunsWell(t)
    BY <1>0 DEF BenchInv, Hearing, Hears, ToolsRun
  <1>2. /\ tool[t].inst # 0 /\ tool[t] \in ToolState /\ tool[t].tool \in ToolNames \ {"none"}
        /\ tool[t].at \in 1..Len(Bench!Calls[tool[t].tool])
        /\ Bench!Method(t) = "close" => tool[t].at = Len(Bench!Calls[tool[t].tool])
    BY <1>0, <1>1, AtWork
  <1>3. PICK n \in Nat : n = answer[t].time
    BY <1>0, <1>1, <1>2 DEF Hears
  <1>4. PICK l \in 1..7 : l = Len(Bench!Calls[tool[t].tool])
    BY <1>2, ToolCalls
  <1>5. DOMAIN entries = Benches
    BY DEF BenchInv, Holding
  <1>6. /\ DOMAIN entries' = Benches /\ Bench!Owned(BenchOf[t])' \subseteq Bench!Owned(BenchOf[t])
        /\ Bench!Method(t) # "close" => Bench!Owned(BenchOf[t])' = Bench!Owned(BenchOf[t])
        /\ \A b \in Benches : b # BenchOf[t] => Bench!Owned(b)' = Bench!Owned(b)
    <2>1. DOMAIN entries'[BenchOf[t]] =
            IF Bench!Method(t) = "close" THEN DOMAIN entries[BenchOf[t]] \ {tool[t].inst} ELSE DOMAIN entries[BenchOf[t]]
      BY <1>0, <1>5 DEF Bench!Answered, Bench!Mine
    <2>2. PICK f : entries' = [entries EXCEPT ![BenchOf[t]] = f]
      BY <1>0, <1>5, Zenon DEF Bench!Answered, Bench!Mine
    <2>3. DOMAIN entries' = Benches /\ \A b \in Benches : b # BenchOf[t] => Bench!Owned(b)' = Bench!Owned(b)
      BY <1>0, <2>2, EntriesAt
    <2> QED BY <2>1, <2>3 DEF Bench!Owned
  <1>7. CASE tool[t].at < Len(Bench!Calls[tool[t].tool])
    <2>0. PICK c \in ToolState : c = tool[t]
      BY <1>2
    <2>1. PICK k \in 1..l : k = c.at /\ k < l
      BY <1>2, <1>4, <1>7, <2>0
    <2>2. k + 1 \in 1..7 /\ k + 1 \in 1..l /\ k + 1 # 1
      BY <2>1
    <2>3. Bench!Method(t) # "close"
      BY <1>2, <1>4, <2>0, <2>1
    <2>t. Fits(c.inst, k + 1, n, c.ep)
      BY <2>2, ToolTypes DEF Fits
    <2>4. PICK r \in ToolState : /\ r = Moved(c, c.inst, k + 1, n, c.ep)
                                 /\ r.tool = c.tool /\ r.at = k + 1 /\ r.inst = c.inst
      BY <2>t, Movable
    <2>10. tool' = [tool EXCEPT ![t] = r]
      <3>1. tool' = ToSeen(t, tool[t].at + 1, answer[t].time)
        BY <1>7, Zenon DEF Bench!Answered, ToSeen
      <3>2. tool' = ToSeen(t, k + 1, n)
        BY <1>3, <2>0, <2>1, <3>1
      <3>3. ToSeen(t, k + 1, n) = Goes(t, Moved(tool[t], tool[t].inst, k + 1, n, tool[t].ep))
        BY <1>0, <2>t, ToolMoves
      <3> QED BY <2>0, <2>4, <3>2, <3>3, Zenon DEF Goes
    <2>5. Turns(t, r)
      BY <1>0, <2>10, TakenTurns
    <2>6. Hosting' /\ Handing' /\ Hearing' /\ Queueing' /\ Quiet'
      BY <1>0, <2>0, <2>4, <2>5, TurnWaits
    <2>7. ToolsRun'
      <3>1. r.inst \in Bench!Owned(BenchOf[t])'
        BY <1>1, <1>2, <1>6, <2>0, <2>3, <2>4 DEF RunsWell
      <3> QED BY <1>0, <1>1, <1>2, <1>4, <1>6, <2>0, <2>2, <2>4, <2>5, <3>1, TurnRuns
    <2>8. Stored' /\ Filed' /\ Timed'
      BY <1>0, <2>0, <2>4, <2>5, TurnAside
    <2>9. Holding'
      <3>1. \A b \in Benches : Bench!Owned(b)' \subseteq Bench!Owned(b)
        BY <1>6
      <3> QED BY <1>0, <1>6, <3>1, HoldLess
    <2> QED BY <2>6, <2>7, <2>8, <2>9 DEF BenchInv
  <1>8. CASE ~(tool[t].at < Len(Bench!Calls[tool[t].tool]))
    <2>1. Bench!Ends(t)
      BY <1>8 DEF Bench!Answered
    <2> QED BY <1>0, <1>6, <2>1, BenchEndKeeps
  <1> QED BY <1>7, <1>8

-----------------------------------------------------------------------------
(* A recording goes on. *)

\* Its engine is the same, and it may go on writing.
LEMMA RecordGoes ==
  ASSUME BenchInv, NEW t \in Workers, tool[t].tool = "record", answer[t].is = "ok", Bench!Taken(t),
         UNCHANGED <<host, stage, queue, hands>>, DOMAIN entries' = Benches,
         \A b \in Benches : Bench!Owned(b)' = Bench!Owned(b),
         NEW n, NEW s, NEW e, Fits(tool[t].inst, n, s, e),
         tool' = Goes(t, Moved(tool[t], tool[t].inst, n, s, e)),
         DOMAIN episodes \subseteq DOMAIN episodes',
         \A u \in Workers \ {t} : Recording(u) => episodes'[tool[u].ep] = episodes[tool[u].ep],
         n >= 3 => /\ e \in DOMAIN episodes' /\ Len(episodes'[e].rows) < tool[t].asked
                   /\ \A u \in Workers \ {t} : Recording(u) => tool[u].ep # e
                   /\ \A c : c.at = n /\ c.seen = s => Clock(c, [is |-> "none"], episodes'[e].rows, stage[tool[t].inst].time),
         Stored'
  PROVE  BenchInv'
  <1>1. PICK c \in ToolState : c = tool[t] /\ c.tool = "record" /\ c.asked # 0 /\ c.inst # 0 /\ BenchOf[t] \in Benches
                               /\ c.inst \in Bench!Owned(BenchOf[t])
    <2>1. RunsWell(t) /\ tool[t] \in ToolState
      BY DEF BenchInv, ToolsRun
    <2> QED BY <2>1, AtRecording, AtInstance DEF RunsWell
  <1>2. PICK r \in ToolState : /\ r = Moved(c, c.inst, n, s, e) /\ r.tool = c.tool /\ r.at = n /\ r.inst = c.inst
                               /\ r.seen = s /\ r.asked = c.asked /\ r.ep = e
    BY <1>1, Movable
  <1>3. tool' = [tool EXCEPT ![t] = r]
    BY <1>1, <1>2, Zenon DEF Goes
  <1>4. Turns(t, r) /\ Engaged(t)
    BY <1>3, TakenTurns
  <1>5. Hosting' /\ Handing' /\ Hearing' /\ Queueing' /\ Quiet'
    BY <1>1, <1>2, <1>4, TurnWaits
  <1>6. ToolsRun'
    <2>1. n \in 1..Len(Bench!Calls["record"])
      BY ToolEnds DEF Fits
    <2> QED BY <1>1, <1>2, <1>4, <2>1, TurnRuns
  <1>7. Filed' /\ Timed'
    <2>1. n >= 3 => Clock(r, [is |-> "none"], episodes'[e].rows, stage[r.inst].time)
      BY <1>1, <1>2
    <2> QED BY <1>1, <1>2, <1>4, <2>1, TurnWrites
  <1>8. Holding'
    BY HoldLess
  <1> QED BY <1>5, <1>6, <1>7, <1>8 DEF BenchInv

LEMMA AtAnswer ==
  ASSUME BenchInv, NEW t \in Workers, tool[t].tool = "record", answer[t].is = "ok"
  PROVE  /\ tool \in [Workers -> ToolState] /\ tool[t] \in ToolState /\ answer[t].time \in Nat /\ BenchOf[t] \in Benches
         /\ tool[t].inst \in Instances \cup {0} /\ tool[t].seen \in Nat /\ tool[t].ep \in Nat /\ tool[t].at \in 1..7
         /\ stage[tool[t].inst].time \in Nat
  <1>1. tool \in [Workers -> ToolState] /\ tool[t] \in ToolState
    BY DEF BenchInv, ToolsRun
  <1>2. tool[t].inst # 0 /\ tool[t].inst \in Instances /\ Hears(t)
    BY AtRecording DEF BenchInv, Hearing
  <1>3. answer[t].time \in Nat
    BY <1>2 DEF Hears
  <1>4. stage[tool[t].inst].time \in Nat
    <2>1. stage[tool[t].inst] \in EngineState
      BY <1>2 DEF BenchInv, Hosting
    <2> QED BY <2>1, BenchNumbers DEF EngineState
  <1> QED BY <1>1, <1>3, <1>4, ToolTypes, BenchNumbers

LEMMA PreparesKeeps == ASSUME BenchInv, NEW t \in Workers, Bench!Prepares(t) PROVE BenchInv'
  <1>0. /\ answer[t].is = "ok" /\ tool[t].tool = "record" /\ tool[t].at < 3 /\ Bench!Taken(t)
        /\ UNCHANGED <<host, queue, stage, entries, toolCalls, hands>>
    BY DEF Bench!Prepares, Bench!Before
  <1>1. DOMAIN entries' = Benches /\ \A b \in Benches : Bench!Owned(b)' = Bench!Owned(b)
    BY <1>0, SameOwned
  <1>2. tool \in [Workers -> ToolState] /\ tool[t].inst \in Instances \cup {0} /\ tool[t].seen \in Nat /\ tool[t].ep \in Nat
    BY <1>0, AtAnswer
  <1>3. ASSUME tool[t].at = 1, Bench!Next1(t), UNCHANGED episodes PROVE BenchInv'
    <2>1. Fits(tool[t].inst, 2, tool[t].seen, tool[t].ep)
      BY <1>2 DEF Fits
    <2>2. tool' = ToAt(t, tool[t].at + 1)
      BY <1>3, Zenon DEF Bench!Next1, ToAt
    <2>3. tool[t].at + 1 = 2
      BY <1>3
    <2>4. tool' = Goes(t, Moved(tool[t], tool[t].inst, 2, tool[t].seen, tool[t].ep))
      BY <1>2, <2>1, <2>2, <2>3, ToolMoves
    <2>5. Stored'
      BY <1>3, BenchFrames
    <2>6. ~(2 >= 3)
      OBVIOUS
    <2> QED BY <1>0, <1>1, <1>3, <2>1, <2>4, <2>5, <2>6, RecordGoes
  <1>4. ASSUME Bench!Ends(t), UNCHANGED episodes PROVE BenchInv'
    BY <1>0, <1>1, <1>4, BenchEndKeeps, BenchNumbers
  <1>5. ASSUME tool[t].at = 2, episodes' = Append(episodes, [rows |-> <<>>, complete |-> FALSE]),
               tool' = ToEp(t, 3, Len(episodes) + 1)
        PROVE  BenchInv'
    <2>1. episodes \in Seq(Episode)
      BY DEF BenchInv, Stored
    <2>2. PICK n \in Nat : n = Len(episodes)
      BY <2>1
    <2>3. Fits(tool[t].inst, 3, tool[t].seen, n + 1)
      BY <1>2 DEF Fits
    <2>4. tool' = Goes(t, Moved(tool[t], tool[t].inst, 3, tool[t].seen, n + 1))
      BY <1>2, <1>5, <2>2, <2>3, ToolMoves
    <2>5. PICK w \in Episode : w = [rows |-> <<>>, complete |-> FALSE] /\ w.rows = <<>> /\ ~w.complete
      <3>0. <<>> \in Seq(Frame)
        OBVIOUS
      <3>1. PICK none : none = <<>> /\ none \in Seq(Frame)
        BY <3>0, Zenon
      <3> DEFINE w == [rows |-> none, complete |-> FALSE]
      <3>2. w \in Episode /\ w.rows = none /\ w.complete = FALSE
        BY <3>1 DEF Episode
      <3>3. w = [rows |-> <<>>, complete |-> FALSE]
        BY <3>1
      <3> HIDE DEF w
      <3> QED BY <3>1, <3>2, <3>3
    <2>6. /\ episodes' \in Seq(Episode) /\ DOMAIN episodes = 1..n /\ DOMAIN episodes' = 1..(n + 1)
          /\ episodes'[n + 1] = w /\ \A k \in 1..n : episodes'[k] = episodes[k]
      BY <1>5, <2>1, <2>2, <2>5
    <2>7. n + 1 \in DOMAIN episodes' /\ DOMAIN episodes \subseteq DOMAIN episodes' /\ n + 1 \notin 1..n
      BY <2>2, <2>6
    <2>8. Stored'
      <3>1. ASSUME NEW k \in 1..(n + 1)
            PROVE  /\ Gapless(episodes'[k].rows)
                   /\ episodes'[k].complete => episodes'[k].rows # <<>> /\ Len(episodes'[k].rows) <= MaxRows
        <4>1. CASE k = n + 1
          BY <2>5, <2>6, <4>1 DEF Gapless
        <4>2. CASE k \in 1..n
          BY <2>6, <4>2 DEF BenchInv, Stored
        <4> QED BY <2>2, <4>1, <4>2
      <3> QED BY <2>6, <3>1 DEF Stored
    <2>9. \A u \in Workers \ {t} : Recording(u) => /\ tool[u].ep \in 1..n /\ tool[u].ep # n + 1
                                                 /\ episodes'[tool[u].ep] = episodes[tool[u].ep]
      BY <2>6, <2>7 DEF BenchInv, Filed
    <2>10. Len(episodes'[n + 1].rows) < tool[t].asked
      <3>1. tool[t].asked \in 1..MaxRows
        BY <1>0, AtRecording
      <3>2. Len(episodes'[n + 1].rows) = 0
        BY <2>5, <2>6
      <3> QED BY <3>1, <3>2, BenchNumbers
    <2>11. \A c : c.at = 3 => Clock(c, [is |-> "none"], episodes'[n + 1].rows, stage[tool[t].inst].time)
      BY <2>5, <2>6 DEF Clock, EndsAt
    <2> QED BY <1>0, <1>1, <2>3, <2>4, <2>7, <2>8, <2>9, <2>10, <2>11, RecordGoes
  <1>6. ASSUME tool[t].at = 2, episodes' = Append(episodes, [rows |-> <<>>, complete |-> FALSE]),
               tool' = [tool EXCEPT ![t].at = Bench!Before, ![t].ep = Len(episodes) + 1]
        PROVE  BenchInv'
    <2>1. tool' = ToEp(t, 3, Len(episodes) + 1)
      BY <1>6, Zenon DEF ToEp, Bench!Before
    <2> QED BY <1>5, <1>6, <2>1
  <1>7. \/ tool[t].at = 1 /\ Bench!Next1(t) /\ UNCHANGED episodes
        \/ Bench!Ends(t) /\ UNCHANGED episodes
        \/ /\ tool[t].at = 2 /\ episodes' = Append(episodes, [rows |-> <<>>, complete |-> FALSE])
           /\ tool' = [tool EXCEPT ![t].at = Bench!Before, ![t].ep = Len(episodes) + 1]
    BY Zenon DEF Bench!Prepares
  <1> QED BY <1>3, <1>4, <1>6, <1>7

\* The recording takes its next step, and its demonstration stays as it is.
LEMMA RecordLooks ==
  ASSUME BenchInv, NEW t \in Workers, Recording(t), answer[t].is = "ok", Bench!Taken(t),
         UNCHANGED <<host, stage, queue, hands, episodes>>, DOMAIN entries' = Benches,
         \A b \in Benches : Bench!Owned(b)' = Bench!Owned(b),
         NEW n, NEW s, Fits(tool[t].inst, n, s, tool[t].ep),
         tool' = Goes(t, Moved(tool[t], tool[t].inst, n, s, tool[t].ep)),
         \A c : c.at = n /\ c.seen = s => Clock(c, [is |-> "none"], episodes[tool[t].ep].rows, stage[tool[t].inst].time)
  PROVE  BenchInv'
  <1>1. /\ tool[t].ep \in DOMAIN episodes /\ Len(episodes[tool[t].ep].rows) < tool[t].asked
        /\ \A u \in Workers \ {t} : Recording(u) => tool[u].ep # tool[t].ep
    BY DEF BenchInv, Filed
  <1>2. Stored' /\ tool[t].tool = "record"
    BY BenchFrames DEF Recording
  <1> QED BY <1>1, <1>2, RecordGoes

LEMMA ObservesKeeps == ASSUME BenchInv, NEW t \in Workers, Bench!Observes(t) PROVE BenchInv'
  <1>0. /\ answer[t].is = "ok" /\ tool[t].tool = "record" /\ tool[t].at \in {3, 4, 5} /\ Bench!Taken(t)
        /\ UNCHANGED <<host, queue, stage, entries, episodes, toolCalls, hands>>
    BY DEF Bench!Observes, Bench!Before
  <1>1. DOMAIN entries' = Benches /\ \A b \in Benches : Bench!Owned(b)' = Bench!Owned(b)
    BY <1>0, SameOwned
  <1>2. /\ tool \in [Workers -> ToolState] /\ tool[t].inst \in Instances \cup {0} /\ tool[t].seen \in Nat /\ tool[t].ep \in Nat
        /\ answer[t].time \in Nat
    BY <1>0, AtAnswer
  <1>3. Recording(t) /\ Clock(tool[t], answer[t], episodes[tool[t].ep].rows, stage[tool[t].inst].time)
    BY <1>0 DEF BenchInv, Timed, Recording
  <1>4. PICK rows : rows = episodes[tool[t].ep].rows
    OBVIOUS
  <1>5. PICK now : now = stage[tool[t].inst].time
    OBVIOUS
  <1>6. ASSUME tool[t].at = 3, NEW n \in {4, 5}, tool' = SeenTo(t, answer[t].time, n) PROVE BenchInv'
    <2>1. Fits(tool[t].inst, n, answer[t].time, tool[t].ep)
      BY <1>2 DEF Fits
    <2>2. tool' = Goes(t, Moved(tool[t], tool[t].inst, n, answer[t].time, tool[t].ep))
      BY <1>2, <1>6, <2>1, ToolMoves
    <2>3. answer[t].time = now /\ EndsAt(rows, now)
      BY <1>0, <1>3, <1>4, <1>5, <1>6 DEF Clock
    <2>4. ASSUME NEW c, c.at = n, c.seen = answer[t].time PROVE Clock(c, [is |-> "none"], rows, now)
      BY <2>3, <2>4 DEF Clock
    <2> QED BY <1>0, <1>1, <1>3, <1>4, <1>5, <2>1, <2>2, <2>4, RecordLooks
  <1>7. ASSUME NEW n \in {5, 6}, tool[t].at + 1 = n, Bench!Next1(t), n = 6 => Bench!Settled(t) PROVE BenchInv'
    <2>1. Fits(tool[t].inst, n, tool[t].seen, tool[t].ep)
      BY <1>2 DEF Fits
    <2>2. tool' = ToAt(t, n)
      BY <1>7, Zenon DEF Bench!Next1, ToAt
    <2>3. tool' = Goes(t, Moved(tool[t], tool[t].inst, n, tool[t].seen, tool[t].ep))
      BY <1>2, <2>1, <2>2, ToolMoves
    <2>4. EndsAt(rows, tool[t].seen) /\ (n = 6 => now = tool[t].seen)
      <3>1. tool[t].at > 3 /\ (n = 6 => tool[t].at = 5)
        BY <1>0, <1>7
      <3> QED BY <1>0, <1>3, <1>4, <1>5, <1>7, <3>1 DEF Clock, Bench!Settled
    <2>5. ASSUME NEW c, c.at = n, c.seen = tool[t].seen PROVE Clock(c, [is |-> "none"], rows, now)
      BY <2>4, <2>5 DEF Clock
    <2> QED BY <1>0, <1>1, <1>3, <1>4, <1>5, <2>1, <2>3, <2>5, RecordLooks
  <1>8. ASSUME Bench!Ends(t) PROVE BenchInv'
    BY <1>0, <1>1, <1>8, BenchEndKeeps, BenchNumbers
  <1>9. \/ /\ tool[t].at = 3
           /\ tool' = SeenTo(t, answer[t].time, IF episodes[tool[t].ep].rows = <<>> THEN 5 ELSE 4)
        \/ tool[t].at = 4 /\ Bench!Next1(t)
        \/ tool[t].at = 5 /\ Bench!Settled(t) /\ Bench!Next1(t)
        \/ Bench!Ends(t)
    <2>1. Bench!Before = 3 /\ Bench!Before + 1 = 4 /\ Bench!Before + 2 = 5
      BY DEF Bench!Before
    <2> QED BY <2>1, Zenon DEF Bench!Observes, SeenTo
  <1> QED BY <1>6, <1>7, <1>8, <1>9

LEMMA ActsKeeps == ASSUME BenchInv, NEW t \in Workers, Bench!Acts(t) PROVE BenchInv'
  <1>0. /\ answer[t].is = "ok" /\ tool[t].tool = "record" /\ Bench!Method(t) = "step" /\ Bench!Taken(t)
        /\ UNCHANGED <<host, queue, stage, episodes, toolCalls, hands>>
    BY DEF Bench!Acts
  <1>1. /\ tool \in [Workers -> ToolState] /\ tool[t].inst \in Instances \cup {0} /\ tool[t].seen \in Nat /\ tool[t].ep \in Nat
        /\ BenchOf[t] \in Benches
    BY <1>0, AtAnswer
  <1>2. DOMAIN entries' = Benches /\ \A b \in Benches : Bench!Owned(b)' = Bench!Owned(b)
    BY <1>1 DEF Bench!Acts, Bench!Mine, Bench!Owned, BenchInv, Holding
  <1>3. tool[t].at = 6
    BY <1>0, AtRecording
  <1>4. Recording(t) /\ Clock(tool[t], answer[t], episodes[tool[t].ep].rows, stage[tool[t].inst].time)
    BY <1>0, <1>3 DEF BenchInv, Timed, Recording
  <1>5. PICK rows : rows = episodes[tool[t].ep].rows
    OBVIOUS
  <1>6. PICK now : now = stage[tool[t].inst].time
    OBVIOUS
  <1>7. Fits(tool[t].inst, 7, tool[t].seen, tool[t].ep)
    BY <1>1 DEF Fits
  <1>8. tool' = ToAt(t, 7)
    <2>1. tool' = ToAt(t, tool[t].at + 1)
      BY Zenon DEF Bench!Acts, Bench!Next1, ToAt
    <2> QED BY <1>3, <2>1
  <1>9. tool' = Goes(t, Moved(tool[t], tool[t].inst, 7, tool[t].seen, tool[t].ep))
    BY <1>1, <1>7, <1>8, ToolMoves
  <1>10. ASSUME NEW c, c.at = 7, c.seen = tool[t].seen PROVE Clock(c, [is |-> "none"], rows, now)
    <2>1. EndsAt(rows, tool[t].seen) /\ now = tool[t].seen + 1
      BY <1>0, <1>3, <1>4, <1>5, <1>6 DEF Clock
    <2> QED BY <1>10, <2>1 DEF Clock
  <1> QED BY <1>0, <1>2, <1>4, <1>5, <1>6, <1>7, <1>9, <1>10, RecordLooks

\* A transition of one action joins what is without a gap.
LEMMA RowJoins ==
  ASSUME NEW rows \in Seq(Frame), Gapless(rows), NEW b \in Nat, EndsAt(rows, b)
  PROVE  LET more == Append(rows, [before |-> b, after |-> b + 1])
         IN  /\ more \in Seq(Frame) /\ Gapless(more) /\ more # <<>> /\ Len(more) = Len(rows) + 1
             /\ EndsAt(more, b + 1)
  <1>1. PICK w \in Frame : w = [before |-> b, after |-> b + 1] /\ w.before = b /\ w.after = b + 1
    <2> DEFINE w == [before |-> b, after |-> b + 1]
    <2>1. w \in Frame /\ w.before = b /\ w.after = b + 1
      BY DEF Frame
    <2> HIDE DEF w
    <2> QED BY <2>1 DEF w
  <1>2. PICK n \in Nat : n = Len(rows) /\ DOMAIN rows = 1..n
    OBVIOUS
  <1> DEFINE more == Append(rows, w)
  <1>3. /\ more \in Seq(Frame) /\ DOMAIN more = 1..(n + 1) /\ Len(more) = n + 1 /\ more[n + 1] = w
        /\ \A k \in 1..n : more[k] = rows[k]
    BY <1>2
  <1> HIDE DEF more
  <1>4. more # <<>>
    BY <1>2, <1>3
  <1>5. ASSUME NEW k \in 1..(n + 1)
        PROVE  more[k].after = more[k].before + 1 /\ (k > 1 => more[k].before = more[k - 1].after)
    <2>1. CASE k \in 1..n
      <3>1. k > 1 => k - 1 \in 1..n
        BY <1>2, <2>1
      <3> QED BY <1>2, <1>3, <2>1, <3>1 DEF Gapless
    <2>2. CASE k = n + 1
      <3>1. k > 1 => n \in 1..n /\ rows # <<>> /\ k - 1 = n
        BY <1>2, <2>2
      <3>2. k > 1 => rows[n].after = b
        BY <1>2, <3>1 DEF EndsAt
      <3> QED BY <1>1, <1>3, <2>2, <3>1, <3>2
    <2> QED BY <1>2, <2>1, <2>2
  <1>6. Gapless(more)
    BY <1>3, <1>5 DEF Gapless
  <1>7. EndsAt(more, b + 1)
    BY <1>1, <1>3 DEF EndsAt
  <1> QED BY <1>1, <1>2, <1>3, <1>4, <1>6, <1>7 DEF more

LEMMA StoresKeeps == ASSUME BenchInv, NEW t \in Workers, Bench!Stores(t) PROVE BenchInv'
  <1>0. /\ answer[t].is = "ok" /\ tool[t].tool = "record" /\ tool[t].at = 7 /\ Bench!Taken(t)
        /\ UNCHANGED <<host, queue, stage, entries, toolCalls, hands>>
    <2>1. Len(Bench!Calls.record) = 7
      BY DEF Bench!Calls
    <2> QED BY <2>1 DEF Bench!Stores
  <1>1. DOMAIN entries' = Benches /\ \A b \in Benches : Bench!Owned(b)' = Bench!Owned(b)
    BY <1>0, SameOwned
  <1>2. /\ tool \in [Workers -> ToolState] /\ tool[t].inst \in Instances \cup {0} /\ tool[t].seen \in Nat /\ tool[t].ep \in Nat
        /\ answer[t].time \in Nat /\ BenchOf[t] \in Benches
    BY <1>0, AtAnswer
  <1>3. Recording(t) /\ Clock(tool[t], answer[t], episodes[tool[t].ep].rows, stage[tool[t].inst].time)
    BY <1>0 DEF BenchInv, Timed, Recording
  <1>4. /\ episodes \in Seq(Episode) /\ tool[t].ep \in DOMAIN episodes
        /\ Len(episodes[tool[t].ep].rows) < tool[t].asked /\ tool[t].asked \in 1..MaxRows
        /\ \A u \in Workers \ {t} : Recording(u) => tool[u].ep # tool[t].ep
    BY <1>0, <1>3, AtRecording DEF BenchInv, Stored, Filed
  <1>5. PICK e \in DOMAIN episodes : e = tool[t].ep
    BY <1>4
  <1>6. PICK rows \in Seq(Frame) : rows = episodes[e].rows /\ Gapless(rows)
    <2>1. episodes[e] \in Episode /\ Gapless(episodes[e].rows)
      BY <1>4 DEF BenchInv, Stored
    <2> QED BY <2>1 DEF Episode
  <1>7. PICK b \in Nat : b = tool[t].seen
    BY <1>2
  <1>8. EndsAt(rows, b) /\ answer[t].time = b + 1 /\ stage[tool[t].inst].time = b + 1
    BY <1>0, <1>3, <1>5, <1>6, <1>7 DEF Clock
  <1> DEFINE more == Append(rows, [before |-> b, after |-> b + 1])
  <1>9. /\ more \in Seq(Frame) /\ Gapless(more) /\ more # <<>> /\ Len(more) = Len(rows) + 1 /\ EndsAt(more, b + 1)
    BY <1>6, <1>7, <1>8, RowJoins
  <1>10. more = Append(episodes[tool[t].ep].rows, [before |-> tool[t].seen, after |-> answer[t].time])
    BY <1>5, <1>6, <1>7, <1>8
  <1> HIDE DEF more
  <1>11. ASSUME Bench!Ends(t), UNCHANGED episodes PROVE BenchInv'
    BY <1>0, <1>1, <1>2, <1>11, BenchEndKeeps
  <1>12. ASSUME NEW over \in BOOLEAN, ~over => Len(more) # tool[t].asked,
                episodes' = [episodes EXCEPT ![e] = [rows |-> more, complete |-> over]],
                Bench!Ends(t) \/ (~over /\ tool' = ToAt(t, 3))
         PROVE  BenchInv'
    <2>1. PICK w \in Episode : w = [rows |-> more, complete |-> over] /\ w.rows = more /\ w.complete = over
      <3> DEFINE w == [rows |-> more, complete |-> over]
      <3>1. w \in Episode /\ w.rows = more /\ w.complete = over
        BY <1>9 DEF Episode
      <3> HIDE DEF w
      <3> QED BY <3>1 DEF w
    <2>2. /\ episodes' \in Seq(Episode) /\ DOMAIN episodes' = DOMAIN episodes /\ episodes'[e] = w
          /\ \A k \in DOMAIN episodes \ {e} : episodes'[k] = episodes[k]
      BY <1>4, <1>12, <2>1
    <2>3. Len(more) \in Nat /\ Len(more) <= tool[t].asked /\ Len(more) <= MaxRows /\ (~over => Len(more) < tool[t].asked)
      <3>1. PICK l \in Nat : l = Len(rows)
        OBVIOUS
      <3>2. PICK a \in 1..MaxRows : a = tool[t].asked
        BY <1>4
      <3>3. l < a /\ Len(more) = l + 1
        BY <1>4, <1>5, <1>6, <1>9, <3>1, <3>2
      <3>4. Len(more) <= a /\ Len(more) <= MaxRows /\ (Len(more) # a => Len(more) < a)
        BY <3>3, BenchNumbers
      <3> QED BY <1>12, <3>2, <3>3, <3>4
    <2>4. Stored'
      <3>1. ASSUME NEW k \in DOMAIN episodes
            PROVE  /\ Gapless(episodes'[k].rows)
                   /\ episodes'[k].complete => episodes'[k].rows # <<>> /\ Len(episodes'[k].rows) <= MaxRows
        <4>1. CASE k = e
          BY <1>9, <2>1, <2>2, <2>3, <4>1
        <4>2. CASE k # e
          BY <2>2, <4>2 DEF BenchInv, Stored
        <4> QED BY <4>1, <4>2
      <3> QED BY <2>2, <3>1 DEF Stored
    <2>5. \A u \in Workers \ {t} : Recording(u) => episodes'[tool[u].ep] = episodes[tool[u].ep]
      <3>1. \A u \in Workers \ {t} : Recording(u) => tool[u].ep \in DOMAIN episodes
        BY DEF BenchInv, Filed
      <3> QED BY <1>4, <1>5, <2>2, <3>1
    <2>6. ASSUME ~over, tool' = ToAt(t, 3) PROVE BenchInv'
      <3>1. Fits(tool[t].inst, 3, tool[t].seen, tool[t].ep)
        BY <1>2 DEF Fits
      <3>2. tool' = Goes(t, Moved(tool[t], tool[t].inst, 3, tool[t].seen, tool[t].ep))
        BY <1>2, <2>6, <3>1, ToolMoves
      <3>3. /\ tool[t].ep \in DOMAIN episodes' /\ Len(episodes'[tool[t].ep].rows) < tool[t].asked
            /\ DOMAIN episodes \subseteq DOMAIN episodes'
        BY <1>5, <2>1, <2>2, <2>3, <2>6
      <3>4. ASSUME NEW c, c.at = 3
            PROVE  Clock(c, [is |-> "none"], episodes'[tool[t].ep].rows, stage[tool[t].inst].time)
        BY <1>5, <1>8, <1>9, <2>1, <2>2, <3>4 DEF Clock
      <3> QED BY <1>0, <1>1, <1>4, <2>4, <2>5, <3>1, <3>2, <3>3, <3>4, RecordGoes
    <2>7. ASSUME Bench!Ends(t) PROVE BenchInv'
      <3>1. PICK r \in ToolState : r = Bench!Idle /\ r.tool = "none" /\ r.at = 1 /\ r.inst = 0 /\ r.asked = 0
        BY IdleIsTool
      <3>2. Turns(t, r) /\ Engaged(t)
        BY <1>0, <2>7, <3>1, TakenTurns DEF Bench!Ends
      <3>3. Hosting' /\ Handing' /\ Hearing' /\ Queueing' /\ Quiet'
        BY <3>1, <3>2, TurnWaits
      <3>4. ToolsRun'
        BY <1>1, <3>1, <3>2, TurnRuns
      <3>5. Filed' /\ Timed'
        <4>1. DOMAIN episodes \subseteq DOMAIN episodes'
          BY <2>2
        <4> QED BY <2>5, <3>1, <3>2, <4>1, TurnWrites
      <3>6. Holding'
        BY <1>0, <1>1, HoldLess
      <3> QED BY <2>4, <3>3, <3>4, <3>5, <3>6 DEF BenchInv
    <2> QED BY <1>12, <2>6, <2>7
  <1>13. \/ Bench!Ends(t) /\ UNCHANGED episodes
         \/ \E success \in BOOLEAN :
              LET over == \/ success \/ entries[BenchOf[t]][tool[t].inst].steps >= Horizon
                          \/ Len(Append(episodes[tool[t].ep].rows, [before |-> tool[t].seen, after |-> answer[t].time]))
                               = tool[t].asked
              IN  /\ episodes' = [episodes EXCEPT ![tool[t].ep] =
                       [rows |-> Append(episodes[tool[t].ep].rows, [before |-> tool[t].seen, after |-> answer[t].time]),
                        complete |-> over]]
                  /\ \/ over /\ Bench!Ends(t)
                     \/ ~over /\ tool' = [tool EXCEPT ![t].at = Bench!Before]
                     \/ ~over /\ Bench!Ends(t)
    BY Zenon DEF Bench!Stores, Bench!Mine
  <1>14. ASSUME NEW success \in BOOLEAN, NEW over \in BOOLEAN,
                over <=> \/ success \/ entries[BenchOf[t]][tool[t].inst].steps >= Horizon
                         \/ Len(more) = tool[t].asked,
                episodes' = [episodes EXCEPT ![tool[t].ep] = [rows |-> more, complete |-> over]],
                \/ over /\ Bench!Ends(t)
                \/ ~over /\ tool' = [tool EXCEPT ![t].at = Bench!Before]
                \/ ~over /\ Bench!Ends(t)
         PROVE  BenchInv'
    <2>1. Bench!Ends(t) \/ (~over /\ tool' = ToAt(t, 3))
      BY <1>14, Zenon DEF Bench!Before, ToAt
    <2>2. ~over => Len(more) # tool[t].asked
      BY <1>14
    <2>3. episodes' = [episodes EXCEPT ![e] = [rows |-> more, complete |-> over]]
      BY <1>5, <1>14, Zenon
    <2> QED BY <1>12, <2>1, <2>2, <2>3
  <1>15. ASSUME NEW success \in BOOLEAN,
                LET over == \/ success \/ entries[BenchOf[t]][tool[t].inst].steps >= Horizon
                            \/ Len(more) = tool[t].asked
                IN  /\ episodes' = [episodes EXCEPT ![tool[t].ep] = [rows |-> more, complete |-> over]]
                    /\ \/ over /\ Bench!Ends(t)
                       \/ ~over /\ tool' = [tool EXCEPT ![t].at = Bench!Before]
                       \/ ~over /\ Bench!Ends(t)
         PROVE  BenchInv'
    <2> DEFINE over == \/ success \/ entries[BenchOf[t]][tool[t].inst].steps >= Horizon
                       \/ Len(more) = tool[t].asked
    <2>1. over \in BOOLEAN
      OBVIOUS
    <2>2. /\ episodes' = [episodes EXCEPT ![tool[t].ep] = [rows |-> more, complete |-> over]]
          /\ \/ over /\ Bench!Ends(t)
             \/ ~over /\ tool' = [tool EXCEPT ![t].at = Bench!Before]
             \/ ~over /\ Bench!Ends(t)
      BY <1>15
    <2> QED BY <1>14, <2>1, <2>2, Zenon
  <1> QED BY <1>10, <1>11, <1>13, <1>15, Zenon

-----------------------------------------------------------------------------
LEMMA BenchInitEstablishes == Bench!Init => BenchInv
  <1> SUFFICES ASSUME Bench!Init PROVE BenchInv
    OBVIOUS
  <1> USE BenchNumbers DEF Bench!Init, Bench!None
  <1>1. Hosting
    <2>1. 1 \in 0..MaxLives /\ 0 \in 0..MaxLives /\ 0 \in 0..MaxTime
      OBVIOUS
    <2>2. host \in HostState
      BY <2>1 DEF HostState
    <2>3. PICK k \in Backends : stage = [i \in Instances |-> [made |-> 0, backend |-> k, life |-> 0, time |-> 0]]
      OBVIOUS
    <2>4. [made |-> 0, backend |-> k, life |-> 0, time |-> 0] \in EngineState
      BY <2>1 DEF EngineState
    <2> QED BY <2>2, <2>3, <2>4 DEF Hosting
  <1>2. \A b \in Benches : Bench!Owned(b) = {}
    BY DEF Bench!Owned
  <1>3. Holding
    <2>1. IsFiniteSet({}) /\ Cardinality({}) = 0
      BY FS_EmptySet
    <2>2. Cardinality({}) <= MaxInstances
      BY <2>1
    <2> QED BY <1>2, <2>1, <2>2 DEF Holding
  <1>4. \A t \in Workers : tool[t] \in ToolState /\ tool[t].tool = "none" /\ tool[t].inst = 0
    BY IdleIsTool
  <1>5. ToolsRun
    <2>1. tool \in [Workers -> ToolState]
      BY IdleIsTool
    <2> QED BY <1>4, <2>1 DEF ToolsRun, RunsWell, Locked, Engaged
  <1>6. Hearing
    BY DEF Hearing, Hears
  <1>7. Queueing /\ Quiet
    BY <1>4 DEF Queueing, Quiet, Alone
  <1>8. Handing
    BY DEF Handing
  <1>9. Stored
    BY DEF Stored
  <1>10. Filed /\ Timed
    BY <1>4 DEF Filed, Timed, Recording
  <1> QED BY <1>1, <1>3, <1>5, <1>6, <1>7, <1>8, <1>9, <1>10 DEF BenchInv

LEMMA BenchStepKeeps == BenchInv /\ [Bench!Next]_(Bench!vars) => BenchInv'
  <1> SUFFICES ASSUME BenchInv, [Bench!Next]_(Bench!vars) PROVE BenchInv'
    OBVIOUS
  <1>1. CASE Bench!Serve
    BY <1>1, ServeKeeps
  <1>2. CASE Bench!HostStops
    BY <1>2, HostStopsKeeps
  <1>3. CASE Bench!HostStarts
    BY <1>3, HostStartsKeeps
  <1>4. ASSUME NEW t \in Workers,
               \/ Bench!Create(t) \/ Bench!Exit(t) \/ Bench!Local(t) \/ Bench!Send(t) \/ Bench!Missing(t)
               \/ Bench!Raises(t) \/ Bench!Created(t) \/ Bench!Answered(t) \/ Bench!Prepares(t) \/ Bench!Observes(t)
               \/ Bench!Acts(t) \/ Bench!Stores(t)
        PROVE  BenchInv'
    BY <1>4, CreateKeeps, ExitKeeps, LocalKeeps, SendKeeps, MissingKeeps, RaisesKeeps, CreatedKeeps, AnsweredKeeps,
       PreparesKeeps, ObservesKeeps, ActsKeeps, StoresKeeps
  <1>5. ASSUME NEW t \in Workers, NEW i \in Instances, NEW m \in Tools, Bench!Use(t, m, i) PROVE BenchInv'
    BY <1>5, UseKeeps
  <1>6. ASSUME NEW t \in Workers, NEW i \in Instances, NEW n \in 1..MaxRows, Bench!Record(t, i, n) PROVE BenchInv'
    BY <1>6, RecordKeeps
  <1>7. CASE UNCHANGED Bench!vars
    <2>1. UNCHANGED <<host, queue, stage, entries, tool, answer, episodes, toolCalls, hands>>
      BY <1>7 DEF Bench!vars
    <2> QED BY <2>1, BenchFrames DEF BenchInv
  <1> QED BY <1>1, <1>2, <1>3, <1>4, <1>5, <1>6, <1>7 DEF Bench!Next

LEMMA BenchInvImplies == BenchInv => BenchIsSound
  <1> SUFFICES ASSUME BenchInv PROVE BenchIsSound
    OBVIOUS
  <1> USE DEF BenchInv
  <1>1. host \in [up : BOOLEAN, life : 0..MaxLives, owner : Instances \cup {0}] /\ stage \in [Instances -> EngineState]
    BY DEF Hosting, HostState
  <1>2. \A k \in DOMAIN queue : queue[k].from \in Workers /\ queue[k].inst \in Instances \cup {0}
    <2>1. \A k \in DOMAIN queue : queue[k] \in Asked
      BY DEF Queueing
    <2> QED BY <2>1 DEF Asked
  <1>3. \A b \in Benches : Bench!Owned(b) \subseteq Instances /\ Bench!Cardinality(Bench!Owned(b)) <= MaxInstances
    <2>1. \A S : Bench!Cardinality(S) = Cardinality(S)
      BY DEF Bench!Cardinality, Cardinality
    <2> QED BY <2>1 DEF Holding
  <1>4. \A t \in Workers : tool[t].tool \in DOMAIN Bench!Calls \cup {"none"} /\ tool[t].inst \in Instances \cup {0}
    <2>1. \A t \in Workers : tool[t] \in ToolState
      BY DEF ToolsRun
    <2>2. \A m \in ToolNames \ {"none"} : m \in DOMAIN Bench!Calls
      BY ToolCalls
    <2> QED BY <2>1, <2>2 DEF ToolState
  <1>5. Bench!TypeOK
    BY <1>1, <1>2, <1>3, <1>4 DEF Bench!TypeOK, Bench!None, EngineState
  <1>6. Bench!EpisodesAreWhole
    BY DEF Bench!EpisodesAreWhole, Stored, Gapless
  <1>7. Bench!OwnersAct
    BY DEF Bench!OwnersAct, Handing
  <1> QED BY <1>5, <1>6, <1>7 DEF BenchIsSound

(* A demonstration that is complete is one uninterrupted run of its engine, with
   nothing between two observations but one action, and only the workbench that
   made an instance acts on it (simulation.py, sim_isaac_host.py): also when a
   receipt was given up, the one stage of the bridge has passed to another, or
   the bridge itself was replaced.                                             *)
THEOREM BenchSound == Bench!Spec => []BenchIsSound
  <1>1. BenchInv /\ [Bench!Next]_(Bench!vars) => BenchInv'
    BY BenchStepKeeps
  <1> QED BY BenchInitEstablishes, <1>1, BenchInvImplies, PTL DEF Bench!Spec
=============================================================================
