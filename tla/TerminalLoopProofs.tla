------------------------- MODULE TerminalLoopProofs -------------------------
(***************************************************************************)
(* Theorems about TerminalLoop, for any messages, conversations, timers    *)
(* and bounds: what becomes of the messages of a user, however turns,      *)
(* commands, switches of conversations and kills interleave.               *)
(***************************************************************************)
EXTENDS TerminalLoop, SequenceTheorems, TLAPS

-----------------------------------------------------------------------------
(* Queues: what an operation takes out of one, leaves or adds.             *)

LEMMA EmptyQueue == ToSet(<<>>) = {} /\ IsInjective(<<>>) /\ <<>> \in Seq(Msgs) /\ Len(<<>>) = 0
  BY DEF ToSet, IsInjective

LEMMA QueueElements == ASSUME NEW q \in Seq(Msgs) PROVE ToSet(q) \subseteq Msgs
  BY ElementOfSeq, LenProperties DEF ToSet

LEMMA Singleton == ASSUME NEW m \in Msgs PROVE ToSet(<<m>>) = {m} /\ IsInjective(<<m>>) /\ <<m>> \in Seq(Msgs)
  BY DEF ToSet, IsInjective

LEMMA Appended ==
  ASSUME NEW q \in Seq(Msgs), NEW m \in Msgs
  PROVE  /\ Append(q, m) \in Seq(Msgs) /\ Len(Append(q, m)) = Len(q) + 1
         /\ ToSet(Append(q, m)) = ToSet(q) \cup {m}
         /\ IsInjective(q) /\ m \notin ToSet(q) => IsInjective(Append(q, m))
  <1>1. \A x : x \in ToSet(Append(q, m)) => x \in ToSet(q) \cup {m}
    BY AppendProperties, SMT DEF ToSet
  <1>2. \A x : x \in ToSet(q) => x \in ToSet(Append(q, m))
    BY AppendProperties, SMT DEF ToSet
  <1>3. m \in ToSet(Append(q, m))
    BY AppendProperties, SMT DEF ToSet
  <1>4. IsInjective(q) /\ m \notin ToSet(q) => IsInjective(Append(q, m))
    BY AppendProperties, SMT DEF ToSet, IsInjective
  <1> QED BY <1>1, <1>2, <1>3, <1>4, AppendProperties

\* the first n messages, and the rest
LEMMA Parted ==
  ASSUME NEW q \in Seq(Msgs), NEW n \in 0..Len(q)
  PROVE  LET a == SubSeq(q, 1, n)
             b == SubSeq(q, n + 1, Len(q))
         IN  /\ a \in Seq(Msgs) /\ b \in Seq(Msgs) /\ Len(a) = n /\ Len(b) = Len(q) - n
             /\ ToSet(q) = ToSet(a) \cup ToSet(b)
             /\ IsInjective(q) => IsInjective(a) /\ IsInjective(b) /\ ToSet(a) \cap ToSet(b) = {}
             /\ \A i \in 1..Len(b) : b[i] = q[n + i]
  <1> DEFINE l == Len(q)  a == SubSeq(q, 1, n)  b == SubSeq(q, n + 1, Len(q))
  <1>0. /\ l \in Nat /\ n \in Int /\ n + 1 \in Int /\ l \in Int /\ DOMAIN q = 1..l
        /\ \A i \in 1..l : q[i] \in Msgs
    BY LenProperties, ElementOfSeq
  <1>1. a \in Seq(Msgs) /\ Len(a) = n /\ \A i \in 1..n : a[i] = q[i]
    OBVIOUS
  <1>2. b \in Seq(Msgs) /\ Len(b) = l - n /\ \A i \in 1..(l - n) : b[i] = q[n + i]
    OBVIOUS
  <1> HIDE DEF a, b
  <1>3. DOMAIN a = 1..n /\ DOMAIN b = 1..(l - n)
    BY <1>1, <1>2, LenProperties
  <1>4. \A x : x \in ToSet(q) => x \in ToSet(a) \cup ToSet(b)
    <2> TAKE x
    <2> HAVE x \in ToSet(q)
    <2>1. PICK i \in 1..l : q[i] = x
      BY <1>0 DEF ToSet
    <2>2. CASE i <= n
      <3>1. i \in 1..n /\ a[i] = x
        BY <2>1, <2>2, <1>1, <1>0
      <3> QED BY <3>1, <1>3 DEF ToSet
    <2>3. CASE i > n
      <3>1. i - n \in 1..(l - n) /\ n + (i - n) = i
        BY <2>1, <2>3, <1>0
      <3>2. b[i - n] = x
        BY <3>1, <2>1, <1>2
      <3> QED BY <3>1, <3>2, <1>3 DEF ToSet
    <2> QED BY <2>1, <2>2, <2>3, <1>0
  <1>5. \A i \in 1..n : i \in 1..l
    BY <1>0
  <1>6. \A i \in 1..(l - n) : n + i \in 1..l
    BY <1>0
  <1>7. ToSet(a) \subseteq ToSet(q) /\ ToSet(b) \subseteq ToSet(q)
    <2>1. \A i \in 1..l : q[i] \in ToSet(q)
      BY <1>0 DEF ToSet
    <2>2. (\A i \in 1..n : a[i] \in ToSet(q)) /\ \A i \in 1..(l - n) : b[i] \in ToSet(q)
      BY <2>1, <1>1, <1>2, <1>5, <1>6
    <2> QED BY <2>2, <1>3 DEF ToSet
  <1>8. ASSUME IsInjective(q) PROVE IsInjective(a) /\ IsInjective(b) /\ ToSet(a) \cap ToSet(b) = {}
    <2>1. IsInjective(a)
      BY <1>8, <1>0, <1>1, <1>3, <1>5 DEF IsInjective
    <2>2. IsInjective(b)
      <3> SUFFICES ASSUME NEW i \in 1..(l - n), NEW j \in 1..(l - n), b[i] = b[j] PROVE i = j
        BY <1>3 DEF IsInjective
      <3>1. n + i = n + j
        BY <1>8, <1>0, <1>2, <1>6, Zenon DEF IsInjective
      <3> QED BY <3>1, <1>0
    <2>3. ASSUME NEW x \in ToSet(a), x \in ToSet(b) PROVE FALSE
      <3>1. PICK i \in 1..n : a[i] = x
        BY <1>3, <2>3 DEF ToSet
      <3>2. PICK j \in 1..(l - n) : b[j] = x
        BY <1>3, <2>3 DEF ToSet
      <3>3. q[i] = q[n + j]
        BY <3>1, <3>2, <1>1, <1>2
      <3>4. i = n + j
        BY <3>3, <1>8, <1>0, <1>5, <1>6, Zenon DEF IsInjective
      <3> QED BY <3>4, <1>0
    <2> QED BY <2>1, <2>2, <2>3
  <1> QED BY <1>1, <1>2, <1>4, <1>7, <1>8 DEF a, b

LEMMA Beheaded ==
  ASSUME NEW q \in Seq(Msgs), q # <<>>
  PROVE  /\ Tail(q) \in Seq(Msgs) /\ Len(Tail(q)) <= Len(q) /\ Head(q) \in Msgs
         /\ ToSet(q) = {Head(q)} \cup ToSet(Tail(q))
         /\ IsInjective(q) => IsInjective(Tail(q)) /\ Head(q) \notin ToSet(Tail(q))
         /\ Tail(q) = SubSeq(q, 2, Len(q)) /\ 1 \in 0..Len(q)
  <1>1. Len(q) \in Nat /\ Len(q) # 0 /\ Len(q) \in Int
    BY EmptySeq, LenProperties
  <1>2. Tail(q) = SubSeq(q, 1 + 1, Len(q)) /\ Head(q) = q[1] /\ Head(q) \in Msgs /\ 1 + 1 = 2 /\ 1 \in 0..Len(q)
    BY <1>1, TailIsSubSeq, HeadTailProperties
  <1> DEFINE a == SubSeq(q, 1, 1)  b == SubSeq(q, 1 + 1, Len(q))
  <1>3. /\ a \in Seq(Msgs) /\ b \in Seq(Msgs) /\ Len(a) = 1 /\ Len(b) = Len(q) - 1
        /\ ToSet(q) = ToSet(a) \cup ToSet(b)
        /\ IsInjective(q) => IsInjective(a) /\ IsInjective(b) /\ ToSet(a) \cap ToSet(b) = {}
    BY <1>2, Parted
  <1>4. ToSet(a) = {Head(q)}
    <2>1. a[1] = q[1]
      BY <1>1
    <2>2. a[1] = Head(q) /\ DOMAIN a = 1..1
      BY <2>1, <1>2, <1>3, LenProperties
    <2> HIDE DEF a
    <2> QED BY <2>2 DEF ToSet
  <1> HIDE DEF a, b
  <1>5. b = Tail(q)
    BY <1>2 DEF b
  <1>6. Len(b) <= Len(q)
    BY <1>1, <1>3
  <1> QED BY <1>2, <1>3, <1>4, <1>5, <1>6

LEMMA Shortened ==
  ASSUME NEW q \in Seq(Msgs), q # <<>>
  PROVE  /\ Front(q) \in Seq(Msgs) /\ Len(Front(q)) <= Len(q) /\ Last(q) \in Msgs
         /\ ToSet(q) = {Last(q)} \cup ToSet(Front(q))
         /\ IsInjective(q) => IsInjective(Front(q)) /\ Last(q) \notin ToSet(Front(q))
  <1> DEFINE n == Len(q) - 1  a == SubSeq(q, 1, n)  b == SubSeq(q, n + 1, Len(q))
  <1>1. Len(q) \in Nat /\ Len(q) # 0 /\ Len(q) \in Int /\ n \in 0..Len(q) /\ n + 1 = Len(q) /\ Len(q) - n = 1
        /\ n <= Len(q) /\ n + 1 \in 1..Len(q)
    BY EmptySeq, LenProperties
  <1>2. Last(q) = q[n + 1] /\ Last(q) \in Msgs
    BY <1>1, ElementOfSeq DEF Last
  <1>3. Front(q) = a
    BY DEF Front
  <1>4. /\ a \in Seq(Msgs) /\ b \in Seq(Msgs) /\ Len(a) = n /\ Len(b) = Len(q) - n
        /\ ToSet(q) = ToSet(a) \cup ToSet(b)
        /\ IsInjective(q) => IsInjective(a) /\ IsInjective(b) /\ ToSet(a) \cap ToSet(b) = {}
        /\ \A i \in 1..Len(b) : b[i] = q[n + i]
    BY <1>1, Parted
  <1> HIDE DEF a, b
  <1>5. ToSet(b) = {Last(q)}
    <2>1. DOMAIN b = 1..1 /\ b[1] = q[n + 1]
      BY <1>1, <1>4, LenProperties
    <2> HIDE DEF n
    <2> QED BY <2>1, <1>2 DEF ToSet
  <1> QED BY <1>1, <1>2, <1>3, <1>4, <1>5

LEMMA Joining ==
  ASSUME NEW q \in Seq(Msgs), NEW r \in Seq(Msgs)
  PROVE  /\ q \o r \in Seq(Msgs) /\ ToSet(q \o r) = ToSet(q) \cup ToSet(r)
         /\ IsInjective(q) /\ IsInjective(r) /\ ToSet(q) \cap ToSet(r) = {} => IsInjective(q \o r)
  <1> DEFINE k == Len(q)  l == Len(r)  c == q \o r
  <1>0. k \in Nat /\ l \in Nat /\ DOMAIN q = 1..k /\ DOMAIN r = 1..l
    BY LenProperties
  <1>1. /\ c \in Seq(Msgs) /\ Len(c) = k + l
        /\ \A i \in 1..(k + l) : c[i] = IF i <= k THEN q[i] ELSE r[i - k]
    BY ConcatProperties
  <1>2. DOMAIN c = 1..(k + l)
    BY <1>1, LenProperties
  <1> HIDE DEF c
  <1>3. \A i \in 1..(k + l) : (i \in 1..k /\ c[i] = q[i]) \/ (i \notin 1..k /\ i - k \in 1..l /\ c[i] = r[i - k])
    BY <1>0, <1>1
  <1>4. \A i \in 1..k : i \in 1..(k + l) /\ c[i] = q[i]
    BY <1>0, <1>1
  <1>5. \A i \in 1..l : k + i \in 1..(k + l) /\ c[k + i] = r[i]
    BY <1>0, <1>1
  <1>6. ToSet(c) = ToSet(q) \cup ToSet(r)
    BY <1>0, <1>2, <1>3, <1>4, <1>5, Zenon DEF ToSet
  <1>7. ASSUME IsInjective(q), IsInjective(r), ToSet(q) \cap ToSet(r) = {} PROVE IsInjective(c)
    <2> SUFFICES ASSUME NEW i \in 1..(k + l), NEW j \in 1..(k + l), c[i] = c[j] PROVE i = j
      BY <1>2 DEF IsInjective
    <2>1. CASE i \in 1..k /\ j \in 1..k
      BY <2>1, <1>0, <1>4, <1>7, Zenon DEF IsInjective
    <2>2. CASE i \notin 1..k /\ j \notin 1..k
      <3>1. i - k \in 1..l /\ j - k \in 1..l /\ c[i] = r[i - k] /\ c[j] = r[j - k]
        BY <2>2, <1>3
      <3>2. i - k = j - k
        BY <3>1, <1>0, <1>7, Zenon DEF IsInjective
      <3> QED BY <3>2, <1>0
    <2>3. CASE i \in 1..k /\ j \notin 1..k
      BY <2>3, <1>0, <1>3, <1>7 DEF ToSet
    <2>4. CASE i \notin 1..k /\ j \in 1..k
      BY <2>4, <1>0, <1>3, <1>7 DEF ToSet
    <2> QED BY <2>1, <2>2, <2>3, <2>4
  <1> QED BY <1>1, <1>6, <1>7 DEF c

LEMMA Suffix ==
  ASSUME NEW q \in Seq(Msgs), NEW r \in Seq(Msgs)
  PROVE  IsSuffix(q, r) <=> Len(q) <= Len(r) /\ \A i \in 1..Len(q) : q[i] = r[Len(r) - Len(q) + i]
  <1> DEFINE k == Len(q)  l == Len(r)  p == Reverse(q)  s == Reverse(r)
  <1>0. k \in Nat /\ l \in Nat /\ DOMAIN q = 1..k /\ DOMAIN r = 1..l /\ k \in Int /\ 1 \in Int
        /\ (\A i \in 1..k : q[i] \in Msgs) /\ (\A i \in 1..l : r[i] \in Msgs)
    BY LenProperties, ElementOfSeq
  <1>1. /\ Len(p) = k /\ p \in Seq(Msgs) /\ \A i \in 1..k : p[i] = q[k - i + 1]
        /\ Len(s) = l /\ s \in Seq(Msgs) /\ \A i \in 1..l : s[i] = r[l - i + 1]
    BY DEF Reverse
  <1> HIDE DEF p, s
  <1>2. ASSUME k <= l
        PROVE SubSeq(p, 1, k) = SubSeq(s, 1, k) <=> \A i \in 1..k : p[i] = s[i]
    <2> DEFINE a == SubSeq(p, 1, k)  b == SubSeq(s, 1, k)
    <2>2. a \in Seq(Msgs) /\ Len(a) = k /\ \A i \in 1..k : a[i] = p[i]
      BY <1>0, <1>1
    <2>3. b \in Seq(Msgs) /\ Len(b) = k /\ \A i \in 1..k : b[i] = s[i]
      BY <1>0, <1>1, <1>2
    <2>4. Len(a) = k /\ Len(b) = k /\ \A i \in 1..k : a[i] = p[i] /\ b[i] = s[i]
      BY <2>2, <2>3
    <2>5. a = b <=> \A i \in 1..k : a[i] = b[i]
      <3> HIDE DEF a, b
      <3> QED BY <2>2, <2>3, <2>4, SeqEqual
    <2> HIDE DEF a, b
    <2>6. (\A i \in 1..k : a[i] = b[i]) <=> (\A i \in 1..k : p[i] = s[i])
      BY <2>4
    <2> QED BY <2>5, <2>6 DEF a, b
  <1>3. ASSUME k <= l
        PROVE (\A i \in 1..k : p[i] = s[i]) <=> (\A i \in 1..k : q[i] = r[l - k + i])
    <2>1. ASSUME \A i \in 1..k : p[i] = s[i], NEW i \in 1..k PROVE q[i] = r[l - k + i]
      <3>1. k - i + 1 \in 1..k /\ k - i + 1 \in 1..l /\ k - (k - i + 1) + 1 = i /\ l - (k - i + 1) + 1 = l - k + i
        BY <1>0, <1>3, <2>1
      <3>2. p[k - i + 1] = q[i] /\ s[k - i + 1] = r[l - k + i]
        BY <3>1, <1>1
      <3> QED BY <3>1, <3>2, <2>1
    <2>2. ASSUME \A i \in 1..k : q[i] = r[l - k + i], NEW i \in 1..k PROVE p[i] = s[i]
      <3>1. k - i + 1 \in 1..k /\ i \in 1..l /\ l - k + (k - i + 1) = l - i + 1
        BY <1>0, <1>3, <2>2
      <3>2. q[k - i + 1] = r[l - i + 1]
        BY <3>1, <2>2
      <3> QED BY <3>1, <3>2, <1>1
    <2> QED BY <2>1, <2>2
  <1>4. IsSuffix(q, r) <=> k <= l /\ SubSeq(p, 1, k) = SubSeq(s, 1, k)
    BY <1>1 DEF IsSuffix, IsPrefix, p, s
  <1> HIDE DEF k, l
  <1> QED BY <1>2, <1>3, <1>4 DEF k, l

LEMMA SuffixOfItself == ASSUME NEW q \in Seq(Msgs) PROVE IsSuffix(q, q)
  <1>1. Len(q) \in Nat
    BY LenProperties
  <1> DEFINE k == Len(q)
  <1>2. k <= k /\ \A i \in 1..k : k - k + i = i
    BY <1>1
  <1> QED BY <1>2, Suffix

\* what is left of a suffix is a suffix
LEMMA SuffixLeft ==
  ASSUME NEW q \in Seq(Msgs), NEW r \in Seq(Msgs), NEW n \in 0..Len(q), IsSuffix(q, r)
  PROVE  IsSuffix(SubSeq(q, n + 1, Len(q)), r)
  <1> DEFINE a == SubSeq(q, 1, n)  b == SubSeq(q, n + 1, Len(q))  k == Len(q)  l == Len(r)
  <1>1. k \in Nat /\ l \in Nat
    BY LenProperties
  <1>2. b \in Seq(Msgs) /\ Len(b) = k - n /\ \A i \in 1..Len(b) : b[i] = q[n + i]
    BY Parted
  <1>3. k <= l /\ \A i \in 1..k : q[i] = r[l - k + i]
    BY Suffix
  <1> HIDE DEF b
  <1>4. Len(b) <= l
    BY <1>1, <1>2, <1>3
  <1>5. ASSUME NEW i \in 1..Len(b) PROVE b[i] = r[l - Len(b) + i]
    <2>1. n + i \in 1..k /\ l - k + (n + i) = l - Len(b) + i
      BY <1>1, <1>2
    <2> HIDE DEF k, l
    <2>2. q[n + i] = r[l - k + (n + i)]
      BY <2>1, <1>3
    <2> QED BY <2>1, <2>2, <1>2
  <1>6. IsSuffix(b, r)
    BY <1>2, <1>4, <1>5, Suffix
  <1> QED BY <1>6 DEF b

LEMMA SuffixContained == ASSUME NEW q \in Seq(Msgs), NEW r \in Seq(Msgs), IsSuffix(q, r) PROVE ToSet(q) \subseteq ToSet(r)
  <1>1. Len(q) \in Nat /\ Len(r) \in Nat /\ DOMAIN q = 1..Len(q) /\ DOMAIN r = 1..Len(r)
    BY LenProperties
  <1>2. Len(q) <= Len(r) /\ \A i \in 1..Len(q) : q[i] = r[Len(r) - Len(q) + i]
    BY Suffix
  <1>3. \A i \in 1..Len(q) : Len(r) - Len(q) + i \in 1..Len(r)
    BY <1>1, <1>2
  <1> QED BY <1>1, <1>2, <1>3, Zenon DEF ToSet

-----------------------------------------------------------------------------
(* The invariant.                                                            *)

Conversation == [queue : Seq(Msgs), rec : SUBSET Msgs, draft : Msgs \cup {None}]
Turn == [kind : Kinds \cup {None}, msgs : Seq(Msgs), at : {"run", "steering", "done", "failed"}, from : SUBSET Sessions]

Taken == ToSet(turn.msgs)
Held == Waiting \cup Taken \cup rec
Stored(c) == ToSet(c.queue) \cup c.rec

Typed ==
  /\ TypeOK /\ turn \in Turn
  /\ elsewhere \subseteq Known /\ (target # None => Task \in Known)

\* Saved conversations: what one stores was sent in it and waits there or is
\* recorded, and a draft was not sent and is the draft of one conversation.
Disk(sv, own) ==
  /\ DOMAIN sv \subseteq Sessions /\ sv \in [DOMAIN sv -> Conversation]
  /\ \A s \in DOMAIN sv : /\ Len(sv[s].queue) <= QueueLimit /\ IsInjective(sv[s].queue)
                          /\ ToSet(sv[s].queue) \cap sv[s].rec = {}
                          /\ \A m \in Stored(sv[s]) : own[m] = s
                          /\ sv[s].draft # None => own[sv[s].draft] = None
  /\ \A s, t \in DOMAIN sv : sv[s].draft = sv[t].draft /\ sv[s].draft # None => s = t

\* What a turn was given is recorded when it has ended.
TurnKept ==
  /\ turn.kind = None => turn = NoTurn
  /\ turn.kind \notin {"message", "mail"} => turn.msgs = <<>>
  /\ turn.at \in {"done", "failed"} => Taken \subseteq rec

\* The conversation in memory, against the one on disk.
Live ==
  /\ cur \in Known
  /\ \A m \in Held : owner[m] = cur
  /\ Waiting \cap (Taken \cup rec) = {} /\ IsInjective(queue) /\ IsInjective(turn.msgs)
  /\ IsSuffix(queue, saved[cur].queue)
  /\ Stored(saved[cur]) \subseteq Held /\ rec \subseteq saved[cur].rec \cup Taken
  /\ draft # None => owner[draft] = None
  /\ \A s \in Known : saved[s].draft = draft /\ draft # None => s = cur

Blank == queue = <<>> /\ rec = {} /\ draft = None /\ turn = NoTurn

Memory == IF up = "off" THEN Blank ELSE Live

TerminalInv ==
  /\ Typed /\ Disk(saved, owner) /\ TurnKept /\ Memory
  /\ NothingLost /\ TimersSettle

-----------------------------------------------------------------------------
(* What an action does to the conversations in memory and on disk.           *)

LEMMA Names == /\ None \notin Msgs /\ None \notin Sessions /\ Home \in Sessions /\ Task \in Sessions /\ Home # Task
               /\ QueueLimit \in Nat /\ MailTurns \in Nat
  BY TerminalConstants

LEMMA MemoryType ==
  ASSUME TypeOK, turn \in Turn
  PROVE  /\ queue \in Seq(Msgs) /\ turn.msgs \in Seq(Msgs) /\ rec \subseteq Msgs
         /\ Waiting \subseteq Msgs /\ Taken \subseteq Msgs /\ Held \subseteq Msgs /\ cur \in Sessions
         /\ draft \in Msgs \cup {None} /\ owner \in [Msgs -> Sessions \cup {None}] /\ Len(queue) <= QueueLimit
  <1>1. queue \in Seq(Msgs) /\ turn.msgs \in Seq(Msgs) /\ rec \subseteq Msgs
    BY DEF TypeOK, Turn
  <1> QED BY <1>1, QueueElements DEF TypeOK, Waiting, Taken, Held

LEMMA StoredIn == \A m : m \in OnDisk <=> \E s \in Known : m \in Stored(saved[s])
  BY DEF OnDisk, Stored

LEMMA StoredInNext == \A m : m \in OnDisk' <=> \E s \in Known' : m \in Stored(saved'[s])
  BY DEF OnDisk, Stored

LEMMA ConversationType ==
  ASSUME NEW sv, NEW own, Disk(sv, own), NEW s \in DOMAIN sv
  PROVE  /\ sv[s] \in Conversation /\ sv[s].queue \in Seq(Msgs) /\ sv[s].rec \subseteq Msgs
         /\ Stored(sv[s]) \subseteq Msgs /\ s \in Sessions
         /\ sv[s] = [queue |-> sv[s].queue, rec |-> sv[s].rec, draft |-> sv[s].draft]
  <1>1. sv[s] \in Conversation /\ s \in Sessions
    BY DEF Disk
  <1>2. sv[s].queue \in Seq(Msgs) /\ sv[s].rec \subseteq Msgs
        /\ sv[s] = [queue |-> sv[s].queue, rec |-> sv[s].rec, draft |-> sv[s].draft]
    BY <1>1 DEF Conversation
  <1> QED BY <1>1, <1>2, QueueElements DEF Stored

\* a checkpoint of the conversation in memory
LEMMA KeptIsDisk ==
  ASSUME Typed, Disk(saved, owner), Live, NEW sv, sv = Kept(draft)
  PROVE  /\ Disk(sv, owner) /\ DOMAIN sv = Known /\ sv[cur] = [queue |-> queue, rec |-> rec, draft |-> draft]
         /\ \A x \in Known \ {cur} : sv[x] = saved[x]
  <1> DEFINE c == [queue |-> queue, rec |-> rec, draft |-> draft]
  <1>1. /\ queue \in Seq(Msgs) /\ rec \subseteq Msgs /\ draft \in Msgs \cup {None} /\ Len(queue) <= QueueLimit
        /\ turn.msgs \in Seq(Msgs)
    BY MemoryType DEF Typed
  <1>2. c \in Conversation /\ c.queue = queue /\ c.rec = rec /\ c.draft = draft
    BY <1>1 DEF Conversation
  <1>3. Stored(c) = Waiting \cup rec
    BY DEF Stored, Waiting
  <1>4. cur \in Known /\ Known \subseteq Sessions /\ saved \in [Known -> Conversation]
    BY DEF Live, Disk, Known
  <1>5. sv = [saved EXCEPT ![cur] = c]
    BY DEF Kept
  <1> HIDE DEF c
  <1>6. sv \in [Known -> Conversation] /\ sv[cur] = c /\ \A x \in Known \ {cur} : sv[x] = saved[x]
    BY <1>2, <1>4, <1>5
  <1>7. DOMAIN sv = Known
    BY <1>6
  <1>8. \A s \in Known : /\ Len(sv[s].queue) <= QueueLimit /\ IsInjective(sv[s].queue)
                         /\ ToSet(sv[s].queue) \cap sv[s].rec = {}
                         /\ \A m \in Stored(sv[s]) : owner[m] = s
                         /\ sv[s].draft # None => owner[sv[s].draft] = None
    <2> SUFFICES ASSUME NEW s \in Known
                 PROVE  /\ Len(sv[s].queue) <= QueueLimit /\ IsInjective(sv[s].queue)
                        /\ ToSet(sv[s].queue) \cap sv[s].rec = {}
                        /\ \A m \in Stored(sv[s]) : owner[m] = s
                        /\ sv[s].draft # None => owner[sv[s].draft] = None
      OBVIOUS
    <2>1. CASE s = cur
      BY <2>1, <1>1, <1>2, <1>3, <1>6, <1>4 DEF Live, Held, Waiting
    <2>2. CASE s # cur
      BY <2>2, <1>6 DEF Disk, Known
    <2> QED BY <2>1, <2>2
  <1>9. \A s, t \in Known : sv[s].draft = sv[t].draft /\ sv[s].draft # None => s = t
    BY <1>2, <1>6 DEF Disk, Live, Known
  <1> QED BY <1>4, <1>6, <1>7, <1>8, <1>9 DEF Disk, c

LEMMA EmptyType == /\ Empty \in Conversation /\ Empty.queue = <<>> /\ Empty.rec = {} /\ Empty.draft = None
                   /\ Stored(Empty) = {}
  BY EmptyQueue DEF Empty, Conversation, Stored

LEMMA OpenedIsDisk ==
  ASSUME NEW sv, NEW own, Disk(sv, own), NEW s \in Sessions
  PROVE  /\ Disk(Opened(s, sv), own) /\ DOMAIN Opened(s, sv) = DOMAIN sv \cup {s}
         /\ \A x \in DOMAIN sv : Opened(s, sv)[x] = sv[x]
         /\ s \notin DOMAIN sv => Opened(s, sv)[s] = Empty
  <1> DEFINE from == Opened(s, sv)
  <1>1. /\ DOMAIN from = DOMAIN sv \cup {s} /\ \A x \in DOMAIN sv : from[x] = sv[x]
        /\ s \notin DOMAIN sv => from[s] = Empty
        /\ from = [x \in DOMAIN from |-> from[x]]
    BY DEF Opened
  <1> HIDE DEF from
  <1>2. \A x \in DOMAIN from : from[x] \in Conversation
    BY <1>1, EmptyType DEF Disk
  <1>3. from \in [DOMAIN from -> Conversation] /\ DOMAIN from \subseteq Sessions
    BY <1>1, <1>2 DEF Disk
  <1>4. \A x \in DOMAIN from : /\ Len(from[x].queue) <= QueueLimit /\ IsInjective(from[x].queue)
                               /\ ToSet(from[x].queue) \cap from[x].rec = {}
                               /\ \A m \in Stored(from[x]) : own[m] = x
                               /\ from[x].draft # None => own[from[x].draft] = None
    <2> SUFFICES ASSUME NEW x \in DOMAIN from
                 PROVE  /\ Len(from[x].queue) <= QueueLimit /\ IsInjective(from[x].queue)
                        /\ ToSet(from[x].queue) \cap from[x].rec = {}
                        /\ \A m \in Stored(from[x]) : own[m] = x
                        /\ from[x].draft # None => own[from[x].draft] = None
      OBVIOUS
    <2>1. CASE x \in DOMAIN sv
      BY <2>1, <1>1 DEF Disk
    <2>2. CASE x \notin DOMAIN sv
      <3>1. from[x] = Empty
        BY <2>2, <1>1
      <3> QED BY <3>1, EmptyType, EmptyQueue, Names
    <2> QED BY <2>1, <2>2
  <1>5. \A x, y \in DOMAIN from : from[x].draft = from[y].draft /\ from[x].draft # None => x = y
    BY <1>1, EmptyType DEF Disk
  <1>6. Disk(from, own)
    BY <1>3, <1>4, <1>5 DEF Disk
  <1> QED BY <1>1, <1>6 DEF from

\* what a switch starts from: the checkpoint, and perhaps a new conversation
Written(from, s) == from = Kept(draft) \/ from = Opened(s, Kept(draft))

LEMMA WrittenIsDisk ==
  ASSUME Typed, Disk(saved, owner), Live, NothingLost, up # "off",
         NEW s \in Sessions, NEW from, Written(from, s)
  PROVE  /\ Disk(from, owner) /\ Known \subseteq DOMAIN from /\ DOMAIN from \subseteq Known \cup {s}
         /\ from[cur] = [queue |-> queue, rec |-> rec, draft |-> draft]
         /\ \A x \in Known \ {cur} : from[x] = saved[x]
         /\ \A x \in DOMAIN from \ Known : from[x] = Empty
         /\ \A m \in Msgs : owner[m] # None =>
               m \in lost \/ m \in Taken \/ \E x \in DOMAIN from : m \in Stored(from[x])
  <1> DEFINE sv == Kept(draft)
  <1>1. /\ Disk(sv, owner) /\ DOMAIN sv = Known /\ sv[cur] = [queue |-> queue, rec |-> rec, draft |-> draft]
        /\ \A x \in Known \ {cur} : sv[x] = saved[x]
    BY KeptIsDisk
  <1> HIDE DEF sv
  <1>2. cur \in Known
    BY DEF Live
  <1>3. /\ Disk(from, owner) /\ Known \subseteq DOMAIN from /\ DOMAIN from \subseteq Known \cup {s}
        /\ \A x \in Known : from[x] = sv[x]
        /\ \A x \in DOMAIN from \ Known : from[x] = Empty
    <2>1. CASE from = sv
      BY <2>1, <1>1
    <2>2. CASE from = Opened(s, sv)
      <3>1. /\ Disk(from, owner) /\ DOMAIN from = DOMAIN sv \cup {s} /\ \A x \in DOMAIN sv : from[x] = sv[x]
            /\ s \notin DOMAIN sv => from[s] = Empty
        BY <2>2, <1>1, OpenedIsDisk
      <3> QED BY <3>1, <1>1
    <2> QED BY <2>1, <2>2 DEF Written, sv
  <1>4. from[cur] = [queue |-> queue, rec |-> rec, draft |-> draft] /\ \A x \in Known \ {cur} : from[x] = saved[x]
    BY <1>1, <1>2, <1>3
  <1>5. Stored(from[cur]) = Waiting \cup rec
    BY <1>4 DEF Stored, Waiting
  <1>6. ASSUME NEW m \in Msgs, owner[m] # None, m \notin lost, m \notin Taken
        PROVE \E x \in DOMAIN from : m \in Stored(from[x])
    <2>1. m \in OnDisk \/ m \in Held
      BY <1>6 DEF NothingLost, Held, Taken
    <2>2. CASE m \in Held
      BY <2>2, <1>6, <1>5, <1>2, <1>3 DEF Held
    <2>3. CASE m \in OnDisk
      <3>1. PICK x \in Known : m \in Stored(saved[x])
        BY <2>3, StoredIn
      <3>2. CASE x = cur
        <4>1. m \in Held
          BY <3>1, <3>2 DEF Live
        <4> QED BY <4>1, <2>2
      <3>3. CASE x # cur
        BY <3>1, <3>3, <1>4, <1>3
      <3> QED BY <3>2, <3>3
    <2> QED BY <2>1, <2>2, <2>3
  <1> QED BY <1>3, <1>4, <1>6

Messages == Disk(saved, owner) /\ Memory /\ NothingLost

\* nothing that concerns messages changes
LEMMA StillKeeps ==
  ASSUME Messages, UNCHANGED <<up, cur, queue, rec, draft, turn, saved, owner, lost>>
  PROVE  Messages'
  BY DEF Messages, Disk, Memory, Live, Blank, NothingLost, Known, Held, Taken, Waiting, OnDisk, Stored

\* another turn, with the same messages
LEMMA TurnKeeps ==
  ASSUME Messages, up # "off", up' # "off", turn'.msgs = turn.msgs,
         UNCHANGED <<cur, queue, rec, draft, saved, owner, lost>>
  PROVE  Messages'
  BY DEF Messages, Disk, Memory, Live, NothingLost, Known, Held, Taken, Waiting, OnDisk, Stored

\* a checkpoint
LEMMA SaveKeeps ==
  ASSUME Typed, Messages, up # "off", up' # "off", NEW s \in Sessions, Written(saved', s),
         turn'.msgs = turn.msgs \/ (turn'.msgs = <<>> /\ Taken \subseteq rec),
         UNCHANGED <<cur, queue, rec, draft, owner, lost>>
  PROVE  Messages'
  <1> DEFINE from == saved'
  <1>0. Live /\ Disk(saved, owner) /\ NothingLost
    BY DEF Messages, Memory
  <1>1. /\ Disk(from, owner) /\ Known \subseteq DOMAIN from
        /\ from[cur] = [queue |-> queue, rec |-> rec, draft |-> draft]
        /\ \A x \in Known \ {cur} : from[x] = saved[x]
        /\ \A x \in DOMAIN from \ Known : from[x] = Empty
        /\ \A m \in Msgs : owner[m] # None =>
               m \in lost \/ m \in Taken \/ \E x \in DOMAIN from : m \in Stored(from[x])
    BY <1>0, WrittenIsDisk
  <1>2. queue \in Seq(Msgs) /\ turn.msgs \in Seq(Msgs) /\ cur \in Known
    BY <1>0, MemoryType DEF Typed, Live
  <1>3. /\ Taken' \subseteq Taken /\ Taken \subseteq Taken' \cup rec /\ IsInjective(turn'.msgs)
    BY <1>0, EmptyQueue DEF Taken, Live
  <1>4. Waiting' = Waiting /\ Held' = Held
    BY <1>3 DEF Held, Waiting
  <1>5. Stored(from[cur]) = Waiting \cup rec /\ from[cur].queue = queue /\ from[cur].rec = rec
    BY <1>1 DEF Stored, Waiting
  <1>6. Live'
    <2>1. cur' \in Known'
      BY <1>1, <1>2 DEF Known
    <2>2. \A m \in Held' : owner'[m] = cur'
      BY <1>4, <1>0 DEF Live
    <2>3. Waiting' \cap (Taken' \cup rec') = {} /\ IsInjective(queue')
      BY <1>3, <1>4, <1>0 DEF Live
    <2>4. IsSuffix(queue', saved'[cur'].queue)
      BY <1>2, <1>5, SuffixOfItself
    <2>5. Stored(saved'[cur']) \subseteq Held' /\ rec' \subseteq saved'[cur'].rec \cup Taken'
      BY <1>4, <1>5 DEF Held
    <2>6. draft' # None => owner'[draft'] = None
      BY <1>0 DEF Live
    <2>7. \A x \in Known' : saved'[x].draft = draft' /\ draft' # None => x = cur'
      BY <1>0, <1>1, EmptyType DEF Live, Known
    <2> QED BY <2>1, <2>2, <2>3, <2>4, <2>5, <2>6, <2>7, <1>3 DEF Live
  <1>7. NothingLost'
    <2> SUFFICES ASSUME NEW m \in Msgs, owner[m] # None, m \notin lost
                 PROVE  m \in OnDisk' \/ m \in Taken' \/ m \in rec
      BY DEF NothingLost, Taken
    <2> QED BY <1>1, <1>3, StoredInNext DEF Known
  <1>8. Disk(saved', owner')
    BY <1>1
  <1> QED BY <1>6, <1>7, <1>8 DEF Messages, Memory

\* the terminal becomes that of another conversation
LEMMA AdoptKeeps ==
  ASSUME Typed, Messages, up # "off", up' # "off", NEW s \in Sessions, NEW from, Written(from, s),
         NEW t \in DOMAIN from, Adopt(t, from), turn.msgs = <<>>, turn'.msgs = <<>>,
         UNCHANGED <<owner, lost>>
  PROVE  Messages' /\ saved' = from
  <1>0. Live /\ Disk(saved, owner) /\ NothingLost
    BY DEF Messages, Memory
  <1>1. /\ Disk(from, owner)
        /\ \A m \in Msgs : owner[m] # None =>
               m \in lost \/ m \in Taken \/ \E x \in DOMAIN from : m \in Stored(from[x])
    BY <1>0, WrittenIsDisk
  <1>2. Taken = {} /\ Taken' = {} /\ IsInjective(turn'.msgs)
    BY EmptyQueue DEF Taken
  <1>3. /\ cur' = t /\ queue' = from[t].queue /\ rec' = from[t].rec /\ draft' = from[t].draft
        /\ saved' = [from EXCEPT ![t] = [queue |-> queue', rec |-> rec', draft |-> draft']]
    BY DEF Adopt
  <1>4. from \in [DOMAIN from -> Conversation] /\ queue' \in Seq(Msgs)
        /\ from[t] = [queue |-> queue', rec |-> rec', draft |-> draft']
    BY <1>1, <1>3, ConversationType DEF Disk
  <1>5. saved' = from
    BY <1>3, <1>4
  <1>6. Held' = Stored(from[t]) /\ Waiting' = ToSet(from[t].queue)
    BY <1>2, <1>3 DEF Held, Waiting, Stored
  <1>7. Live'
    <2>1. cur' \in Known'
      BY <1>3, <1>5 DEF Known
    <2>2. \A m \in Held' : owner'[m] = cur'
      BY <1>1, <1>3, <1>6 DEF Disk
    <2>3. Waiting' \cap (Taken' \cup rec') = {} /\ IsInjective(queue')
      BY <1>1, <1>2, <1>3, <1>6 DEF Disk
    <2>4. IsSuffix(queue', saved'[cur'].queue)
      BY <1>3, <1>4, <1>5, SuffixOfItself
    <2>5. Stored(saved'[cur']) \subseteq Held' /\ rec' \subseteq saved'[cur'].rec \cup Taken'
      BY <1>3, <1>5, <1>6
    <2>6. draft' # None => owner'[draft'] = None
      BY <1>1, <1>3 DEF Disk
    <2>7. \A x \in Known' : saved'[x].draft = draft' /\ draft' # None => x = cur'
      BY <1>1, <1>3, <1>5 DEF Disk, Known
    <2> QED BY <2>1, <2>2, <2>3, <2>4, <2>5, <2>6, <2>7, <1>2 DEF Live
  <1>8. NothingLost'
    <2> SUFFICES ASSUME NEW m \in Msgs, owner[m] # None, m \notin lost PROVE m \in OnDisk'
      BY DEF NothingLost
    <2> QED BY <1>1, <1>2, <1>5, StoredInNext DEF Known
  <1>9. Disk(saved', owner')
    BY <1>1, <1>5
  <1> QED BY <1>5, <1>7, <1>8, <1>9 DEF Messages, Memory

-----------------------------------------------------------------------------
(* The actions that move messages.                                           *)

LEMMA TypeKeeps == ASSUME Typed, Messages, NEW m \in Msgs, Type(m) PROVE Messages'
  <1>1. /\ draft = None /\ draft' = m /\ owner[m] = None /\ \A s \in Known : saved[s].draft # m
        /\ UNCHANGED <<up, cur, queue, rec, turn, saved, owner, lost>> /\ up # "off"
    BY DEF Type, Fresh, LoopFree, worker
  <1> QED BY <1>1 DEF Messages, Disk, Memory, Live, Blank, NothingLost, Known, Held, Taken, Waiting, OnDisk, Stored

LEMMA ClearKeeps ==
  ASSUME Messages, up # "off", up' # "off", draft' = None,
         UNCHANGED <<cur, queue, rec, turn, saved, owner, lost>>
  PROVE  Messages'
  BY DEF Messages, Disk, Memory, Live, Blank, NothingLost, Known, Held, Taken, Waiting, OnDisk, Stored

\* messages that are on disk elsewhere, or were in memory, stay accounted for
Rewrites(q, d) ==
  /\ q \in Seq(Msgs) /\ Len(q) <= QueueLimit /\ IsInjective(q) /\ ToSet(q) \cap (Taken \cup rec) = {}
  /\ d \in Msgs \cup {None}
  /\ queue' = q /\ draft' = d
  /\ saved' = [saved EXCEPT ![cur] = [queue |-> q, rec |-> rec, draft |-> d]]
  /\ owner' \in [Msgs -> Sessions \cup {None}] /\ lost \subseteq lost'
  /\ \A m \in ToSet(q) \cup Taken \cup rec : owner'[m] = cur
  /\ \A m \in Msgs : owner[m] \notin {cur, None} => owner'[m] = owner[m]
  /\ \A m \in Msgs : owner[m] = cur /\ m \notin lost' =>
        owner'[m] = None \/ m \in ToSet(q) \cup Taken \cup rec
  /\ \A m \in Msgs : owner[m] = None /\ owner'[m] # None => m \in ToSet(q)
  /\ d # None => owner'[d] = None
  /\ d # None => \A s \in Known \ {cur} : saved[s].draft # d
  /\ \A s \in Known \ {cur} : saved[s].draft # None => owner'[saved[s].draft] = None

LEMMA RewriteKeeps ==
  ASSUME Typed, Messages, up # "off", up' = up, UNCHANGED <<cur, rec, turn>>, NEW q, NEW d, Rewrites(q, d)
  PROVE  Messages'
  <1> USE DEF Rewrites
  <1> DEFINE c == [queue |-> q, rec |-> rec, draft |-> d]
  <1>0. /\ Live /\ Disk(saved, owner) /\ NothingLost /\ cur \in Known
        /\ rec \subseteq Msgs /\ turn.msgs \in Seq(Msgs) /\ owner \in [Msgs -> Sessions \cup {None}]
        /\ Taken \subseteq Msgs /\ Known \subseteq Sessions /\ None \notin Sessions
    BY MemoryType, Names DEF Messages, Memory, Live, Typed, TypeOK
  <1>1. c \in Conversation /\ c.queue = q /\ c.rec = rec /\ c.draft = d /\ Stored(c) = ToSet(q) \cup rec
    BY <1>0 DEF Conversation, Stored
  <1>2. saved \in [Known -> Conversation]
    BY <1>0 DEF Disk, Known
  <1>3. saved' = [saved EXCEPT ![cur] = c]
    OBVIOUS
  <1> HIDE DEF c
  <1>4. /\ saved' \in [Known -> Conversation] /\ Known' = Known /\ saved'[cur] = c
        /\ \A x \in Known \ {cur} : saved'[x] = saved[x]
    <2>1. /\ saved' \in [Known -> Conversation] /\ saved'[cur] = c
          /\ \A x \in Known \ {cur} : saved'[x] = saved[x]
      BY <1>0, <1>1, <1>2, <1>3
    <2> QED BY <2>1 DEF Known
  <1>5. Waiting' = ToSet(q) /\ Taken' = Taken /\ Held' = ToSet(q) \cup Taken \cup rec
    BY DEF Waiting, Taken, Held
  <1>6. ASSUME NEW x \in Known \ {cur}, NEW m \in Stored(saved[x]) PROVE owner'[m] = x
    <2>0. m \in Msgs
      BY <1>0, <1>6, ConversationType DEF Known
    <2>1. owner[m] = x
      BY <1>0, <1>6 DEF Disk, Known
    <2> QED BY <2>0, <2>1, <1>0, <1>6
  <1>7. Disk(saved', owner')
    <2>1. \A s \in Known : /\ Len(saved'[s].queue) <= QueueLimit /\ IsInjective(saved'[s].queue)
                           /\ ToSet(saved'[s].queue) \cap saved'[s].rec = {}
                           /\ \A m \in Stored(saved'[s]) : owner'[m] = s
                           /\ saved'[s].draft # None => owner'[saved'[s].draft] = None
      <3> SUFFICES ASSUME NEW s \in Known
                   PROVE  /\ Len(saved'[s].queue) <= QueueLimit /\ IsInjective(saved'[s].queue)
                          /\ ToSet(saved'[s].queue) \cap saved'[s].rec = {}
                          /\ \A m \in Stored(saved'[s]) : owner'[m] = s
                          /\ saved'[s].draft # None => owner'[saved'[s].draft] = None
        OBVIOUS
      <3>1. CASE s = cur
        BY <3>1, <1>1, <1>4
      <3>2. CASE s # cur
        BY <3>2, <1>0, <1>4, <1>6 DEF Disk, Known
      <3> QED BY <3>1, <3>2
    <2>2. \A s, t \in Known : saved'[s].draft = saved'[t].draft /\ saved'[s].draft # None => s = t
      BY <1>0, <1>1, <1>4 DEF Disk, Known
    <2>3. DOMAIN saved' = Known
      BY <1>4
    <2> QED BY <1>0, <1>4, <2>1, <2>2, <2>3 DEF Disk
  <1>8. Live'
    <2>1. cur' \in Known' /\ \A m \in Held' : owner'[m] = cur'
      BY <1>0, <1>4, <1>5
    <2>2. Waiting' \cap (Taken' \cup rec') = {} /\ IsInjective(queue') /\ IsInjective(turn'.msgs)
      BY <1>0, <1>5 DEF Live
    <2>3. IsSuffix(queue', saved'[cur'].queue)
      BY <1>1, <1>4, SuffixOfItself
    <2>4. Stored(saved'[cur']) \subseteq Held' /\ rec' \subseteq saved'[cur'].rec \cup Taken'
      BY <1>1, <1>4, <1>5
    <2>5. draft' # None => owner'[draft'] = None
      OBVIOUS
    <2>6. \A x \in Known' : saved'[x].draft = draft' /\ draft' # None => x = cur'
      BY <1>4
    <2> QED BY <2>1, <2>2, <2>3, <2>4, <2>5, <2>6 DEF Live
  <1>9. NothingLost'
    <2> SUFFICES ASSUME NEW m \in Msgs, owner'[m] # None, m \notin lost'
                 PROVE  m \in OnDisk' \/ m \in Held'
      BY DEF NothingLost, Held, Taken
    <2>1. CASE owner[m] = None
      BY <2>1, <1>5
    <2>2. CASE owner[m] = cur
      BY <2>2, <1>5
    <2>3. CASE owner[m] \notin {cur, None}
      <3>1. m \notin Held /\ m \notin lost
        BY <2>3, <1>0 DEF Live
      <3>2. m \in OnDisk
        BY <3>1, <2>3, <1>0 DEF NothingLost, Held, Taken
      <3>3. PICK x \in Known : m \in Stored(saved[x])
        BY <3>2, StoredIn
      <3>4. owner[m] = x
        BY <3>3, <1>0 DEF Disk, Known
      <3> QED BY <3>3, <3>4, <2>3, <1>4, StoredInNext
    <2> QED BY <2>1, <2>2, <2>3
  <1> QED BY <1>7, <1>8, <1>9 DEF Messages, Memory

LEMMA EditKeeps == ASSUME Typed, Messages, EditQueue PROVE Messages'
  <1> DEFINE m == Last(queue)  q == Front(queue)
  <1>0. /\ up # "off" /\ up' = up /\ UNCHANGED <<cur, rec, turn, lost>> /\ queue # <<>> /\ queue' = q /\ draft' = m
        /\ owner' = [owner EXCEPT ![m] = None]
        /\ saved' = [saved EXCEPT ![cur] = [queue |-> q, rec |-> rec, draft |-> m]]
    BY DEF EditQueue, LoopFree, worker, Checkpoint
  <1>1. Live /\ Disk(saved, owner) /\ queue \in Seq(Msgs) /\ Len(queue) <= QueueLimit
        /\ owner \in [Msgs -> Sessions \cup {None}] /\ None \notin Sessions /\ None \notin Msgs /\ cur \in Sessions
        /\ Taken \subseteq Msgs /\ rec \subseteq Msgs
    BY <1>0, MemoryType, Names DEF Messages, Memory, Typed
  <1>2. /\ q \in Seq(Msgs) /\ Len(q) <= Len(queue) /\ m \in Msgs
        /\ Waiting = {m} \cup ToSet(q) /\ IsInjective(q) /\ m \notin ToSet(q)
    BY <1>0, <1>1, Shortened DEF Live, Waiting
  <1> HIDE DEF q, m
  <1>3. Len(q) <= QueueLimit
    BY <1>1, <1>2, Names, LenProperties
  <1>4. owner[m] = cur /\ m \notin Taken \cup rec /\ ToSet(q) \cap (Taken \cup rec) = {}
    BY <1>1, <1>2 DEF Live, Held
  <1>5. owner' \in [Msgs -> Sessions \cup {None}] /\ owner'[m] = None /\ \A x \in Msgs \ {m} : owner'[x] = owner[x]
    BY <1>0, <1>1, <1>2
  <1>6. \A x \in ToSet(q) \cup Taken \cup rec : owner'[x] = cur
    <2> SUFFICES ASSUME NEW x \in ToSet(q) \cup Taken \cup rec PROVE owner'[x] = cur
      OBVIOUS
    <2>1. x \in Held /\ x # m /\ x \in Msgs
      BY <1>1, <1>2, <1>4, QueueElements DEF Held
    <2> QED BY <2>1, <1>1, <1>5 DEF Live
  <1>7. \A s \in Known : saved[s].draft # m /\ (saved[s].draft # None => saved[s].draft \in Msgs)
    BY <1>1, <1>2, <1>4, ConversationType DEF Disk, Known, Conversation
  <1>8. \A s \in Known \ {cur} : saved[s].draft # None => owner'[saved[s].draft] = None
    BY <1>1, <1>5, <1>7 DEF Disk, Known
  <1>9. \A x \in Msgs : owner[x] = cur /\ x \notin lost' => owner'[x] = None \/ x \in ToSet(q) \cup Taken \cup rec
    <2> SUFFICES ASSUME NEW x \in Msgs, owner[x] = cur, x \notin lost, x # m PROVE x \in Held
      BY <1>0, <1>2, <1>5 DEF Held
    <2>1. x \in OnDisk \/ x \in Held
      BY <1>0, <1>1 DEF Messages, NothingLost, Held, Taken
    <2>2. ASSUME x \in OnDisk PROVE x \in Held
      <3>1. PICK s \in Known : x \in Stored(saved[s])
        BY <2>2, StoredIn
      <3>2. s = cur
        BY <3>1, <1>1 DEF Disk, Known
      <3> QED BY <3>1, <3>2, <1>1 DEF Live
    <2> QED BY <2>1, <2>2
  <1>10. \A x \in Msgs : owner[x] = None => owner'[x] = None
    BY <1>5
  <1>11. \A x \in Msgs : owner[x] \notin {cur, None} => owner'[x] = owner[x]
    BY <1>4, <1>5
  <1>12. Rewrites(q, m)
    BY <1>0, <1>1, <1>2, <1>3, <1>4, <1>5, <1>6, <1>7, <1>8, <1>9, <1>10, <1>11 DEF Rewrites
  <1> QED BY <1>0, <1>12, RewriteKeeps

LEMMA SendKeeps == ASSUME Typed, Messages, SendMessage PROVE Messages'
  <1> DEFINE q == Append(queue, draft)
  <1>0. /\ up # "off" /\ up' = up /\ UNCHANGED <<cur, rec, turn, lost>> /\ draft # None /\ Len(queue) < QueueLimit
        /\ queue' = q /\ draft' = None /\ owner' = [owner EXCEPT ![draft] = cur]
        /\ saved' = [saved EXCEPT ![cur] = [queue |-> q, rec |-> rec, draft |-> None]]
    BY DEF SendMessage, Submitting, LoopFree, worker, Checkpoint
  <1>1. Live /\ Disk(saved, owner) /\ queue \in Seq(Msgs)
        /\ owner \in [Msgs -> Sessions \cup {None}] /\ None \notin Sessions /\ None \notin Msgs /\ cur \in Sessions
        /\ Taken \subseteq Msgs /\ rec \subseteq Msgs /\ Waiting \subseteq Msgs /\ draft \in Msgs
    BY <1>0, MemoryType, Names DEF Messages, Memory, Typed
  <1>2. owner[draft] = None /\ draft \notin Held
    BY <1>0, <1>1 DEF Live
  <1>3. /\ q \in Seq(Msgs) /\ Len(q) = Len(queue) + 1 /\ ToSet(q) = Waiting \cup {draft} /\ IsInjective(q)
    BY <1>1, <1>2, Appended DEF Live, Waiting, Held
  <1> HIDE DEF q
  <1>4. Len(q) <= QueueLimit
    BY <1>0, <1>1, <1>3, Names, LenProperties
  <1>5. owner' \in [Msgs -> Sessions \cup {None}] /\ owner'[draft] = cur /\ \A x \in Msgs \ {draft} : owner'[x] = owner[x]
    BY <1>0, <1>1
  <1>6. ToSet(q) \cap (Taken \cup rec) = {} /\ ToSet(q) \cup Taken \cup rec = Held \cup {draft}
    BY <1>1, <1>2, <1>3 DEF Live, Held
  <1>7. \A x \in Held : owner'[x] = cur
    BY <1>1, <1>2, <1>5, MemoryType DEF Live, Typed
  <1>8. \A s \in Known \ {cur} : saved[s].draft # None => owner'[saved[s].draft] = None
    <2> SUFFICES ASSUME NEW s \in Known \ {cur}, saved[s].draft # None PROVE owner'[saved[s].draft] = None
      OBVIOUS
    <2>1. saved[s].draft \in Msgs
      BY <1>1, ConversationType DEF Known, Conversation
    <2>2. saved[s].draft # draft /\ owner[saved[s].draft] = None
      BY <1>0, <1>1 DEF Live, Disk, Known
    <2> QED BY <2>1, <2>2, <1>5
  <1>9. \A x \in Msgs : owner[x] = cur /\ x \notin lost' => x \in Held
    <2> SUFFICES ASSUME NEW x \in Msgs, owner[x] = cur, x \notin lost PROVE x \in Held
      BY <1>0
    <2>1. x \in OnDisk \/ x \in Held
      BY <1>1 DEF Messages, NothingLost, Held, Taken
    <2>2. ASSUME x \in OnDisk PROVE x \in Held
      <3>1. PICK s \in Known : x \in Stored(saved[s])
        BY <2>2, StoredIn
      <3>2. s = cur
        BY <3>1, <1>1 DEF Disk, Known
      <3> QED BY <3>1, <3>2, <1>1 DEF Live
    <2> QED BY <2>1, <2>2
  <1>10. Rewrites(q, None)
    BY <1>0, <1>1, <1>2, <1>3, <1>4, <1>5, <1>6, <1>7, <1>8, <1>9 DEF Rewrites
  <1> QED BY <1>0, <1>10, RewriteKeeps

LEMMA ClearQueueKeeps == ASSUME Typed, Messages, ClearQueue PROVE Messages'
  <1>0. /\ up # "off" /\ up' = up /\ UNCHANGED <<cur, rec, turn, owner>> /\ draft = None
        /\ queue' = <<>> /\ draft' = None /\ lost' = lost \cup Waiting
        /\ saved' = [saved EXCEPT ![cur] = [queue |-> <<>>, rec |-> rec, draft |-> None]]
    BY DEF ClearQueue, Command, Submitting, LoopFree, worker, Checkpoint
  <1>1. Live /\ Disk(saved, owner) /\ owner \in [Msgs -> Sessions \cup {None}] /\ None \notin Sessions
    BY <1>0, MemoryType, Names DEF Messages, Memory, Typed
  <1>2. \A x \in Msgs : owner[x] = cur /\ x \notin lost' => x \in Taken \cup rec
    <2> SUFFICES ASSUME NEW x \in Msgs, owner[x] = cur, x \notin lost PROVE x \in Held
      BY <1>0 DEF Held
    <2>1. x \in OnDisk \/ x \in Held
      BY <1>1, MemoryType, Names DEF Messages, NothingLost, Held, Taken, Typed
    <2>2. ASSUME x \in OnDisk PROVE x \in Held
      <3>1. PICK s \in Known : x \in Stored(saved[s])
        BY <2>2, StoredIn
      <3>2. s = cur
        BY <3>1, <1>1 DEF Disk, Known
      <3> QED BY <3>1, <3>2, <1>1 DEF Live
    <2> QED BY <2>1, <2>2
  <1>3. \A m \in Taken \cup rec : owner[m] = cur
    BY <1>1 DEF Live, Held
  <1>4. \A s \in Known \ {cur} : saved[s].draft # None => owner'[saved[s].draft] = None
    BY <1>0, <1>1 DEF Disk, Known
  <1>5. 0 <= QueueLimit
    BY Names
  <1>6. Rewrites(<<>>, None)
    BY <1>0, <1>1, <1>2, <1>3, <1>4, <1>5, EmptyQueue DEF Rewrites
  <1> QED BY <1>0, <1>6, RewriteKeeps

\* a turn takes messages from the front of the queue
LEMMA TakeKeeps ==
  ASSUME Typed, Messages, up # "off", up' = up, UNCHANGED <<cur, rec, draft, saved, owner, lost>>,
         NEW n \in 0..Len(queue), queue' = SubSeq(queue, n + 1, Len(queue)),
         turn'.msgs = turn.msgs \o SubSeq(queue, 1, n)
  PROVE  Messages'
  <1> DEFINE a == SubSeq(queue, 1, n)  b == SubSeq(queue, n + 1, Len(queue))
  <1>1. Live /\ Disk(saved, owner) /\ NothingLost /\ queue \in Seq(Msgs) /\ turn.msgs \in Seq(Msgs) /\ cur \in Known
    BY MemoryType DEF Messages, Memory, Typed, Live
  <1>2. /\ a \in Seq(Msgs) /\ b \in Seq(Msgs) /\ Waiting = ToSet(a) \cup ToSet(b)
        /\ IsInjective(a) /\ IsInjective(b) /\ ToSet(a) \cap ToSet(b) = {}
    BY <1>1, Parted DEF Live, Waiting
  <1>3. IsSuffix(b, saved[cur].queue)
    BY <1>1, SuffixLeft, ConversationType DEF Live, Known
  <1> HIDE DEF a, b
  <1>4. queue' = b /\ turn'.msgs = turn.msgs \o a
    BY DEF a, b
  <1>5. Waiting' = ToSet(b) /\ Taken' = Taken \cup ToSet(a) /\ IsInjective(turn'.msgs)
    <2>1. Taken \cap ToSet(a) = {} /\ IsInjective(turn.msgs)
      BY <1>1, <1>2 DEF Live
    <2>2. ToSet(turn.msgs \o a) = Taken \cup ToSet(a) /\ IsInjective(turn.msgs \o a)
      BY <2>1, <1>1, <1>2, Joining DEF Taken
    <2> QED BY <2>2, <1>4 DEF Waiting, Taken
  <1>6. Held' = Held
    BY <1>2, <1>5 DEF Held
  <1>7. Live'
    <2>1. Waiting' \cap (Taken' \cup rec') = {}
      BY <1>1, <1>2, <1>5 DEF Live
    <2>2. rec' \subseteq saved'[cur'].rec \cup Taken' /\ Stored(saved'[cur']) \subseteq Held'
      BY <1>1, <1>5, <1>6 DEF Live
    <2> QED BY <2>1, <2>2, <1>1, <1>2, <1>3, <1>4, <1>5, <1>6 DEF Live, Known
  <1>8. NothingLost'
    BY <1>1, <1>6 DEF NothingLost, Held, Taken, OnDisk, Known
  <1>9. Disk(saved', owner')
    BY <1>1
  <1> QED BY <1>7, <1>8, <1>9 DEF Messages, Memory

\* the requests of a turn enter the history
LEMMA RecordKeeps ==
  ASSUME Messages, up # "off", up' = up, UNCHANGED <<cur, queue, draft, saved, owner, lost>>,
         turn'.msgs = turn.msgs, rec' = rec \cup Taken
  PROVE  Messages'
  <1>1. Live /\ Disk(saved, owner) /\ NothingLost
    BY DEF Messages, Memory
  <1>2. Waiting' = Waiting /\ Taken' = Taken /\ Held' = Held
    BY DEF Held, Waiting, Taken
  <1>3. Live'
    BY <1>1, <1>2 DEF Live, Known
  <1>4. NothingLost'
    BY <1>1, <1>2 DEF NothingLost, Held, Taken, OnDisk, Known
  <1>5. Disk(saved', owner')
    BY <1>1
  <1> QED BY <1>3, <1>4, <1>5 DEF Messages, Memory

LEMMA CloseKeeps == ASSUME Typed, Messages, TurnKept, Close PROVE Messages'
  <1>0. /\ up = "closing" /\ up' = "off" /\ saved' = Kept(draft) /\ ~Running
        /\ queue' = <<>> /\ rec' = {} /\ draft' = None /\ turn' = NoTurn /\ UNCHANGED <<owner, lost>>
    BY DEF Close, Checkpoint, Kept, Forget
  <1>1. Live /\ Disk(saved, owner) /\ NothingLost /\ up # "off" /\ cur \in Sessions /\ cur \in Known
    BY <1>0, MemoryType DEF Messages, Memory, Typed, Live
  <1>2. Written(saved', cur)
    BY <1>0 DEF Written
  <1>3. /\ Disk(saved', owner) /\ Known \subseteq DOMAIN saved'
        /\ saved'[cur] = [queue |-> queue, rec |-> rec, draft |-> draft]
        /\ \A m \in Msgs : owner[m] # None =>
               m \in lost \/ m \in Taken \/ \E x \in DOMAIN saved' : m \in Stored(saved'[x])
    BY <1>1, <1>2, WrittenIsDisk
  <1>4. Taken \subseteq rec
    BY <1>0 DEF Running, Pending, TurnKept, NoTurn, Typed, Turn
  <1>5. \A m \in Taken : m \in Stored(saved'[cur])
    BY <1>3, <1>4 DEF Stored
  <1>6. NothingLost'
    BY <1>0, <1>1, <1>3, <1>5, StoredInNext DEF NothingLost, Known
  <1> QED BY <1>0, <1>3, <1>6 DEF Messages, Memory, Blank

LEMMA CrashKeeps == ASSUME Typed, Messages, Crash PROVE Messages'
  <1>0. /\ up # "off" /\ up' = "off" /\ saved' = saved /\ lost' = lost \cup (Taken \ OnDisk)
        /\ queue' = <<>> /\ rec' = {} /\ draft' = None /\ turn' = NoTurn /\ owner' = owner
    BY DEF Crash, Forget, Taken
  <1>1. Live /\ Disk(saved, owner) /\ NothingLost /\ queue \in Seq(Msgs) /\ cur \in Known
    BY <1>0, MemoryType DEF Messages, Memory, Typed, Live
  <1>2. Waiting \subseteq ToSet(saved[cur].queue)
    BY <1>1, SuffixContained, ConversationType DEF Live, Known, Waiting
  <1>3. \A m \in Held : m \in Taken \/ m \in OnDisk
    BY <1>1, <1>2, StoredIn DEF Live, Held, Stored
  <1>4. OnDisk' = OnDisk
    BY <1>0 DEF OnDisk, Known
  <1>5. NothingLost'
    BY <1>0, <1>1, <1>3, <1>4 DEF NothingLost, Held, Taken
  <1> QED BY <1>0, <1>1, <1>5 DEF Messages, Memory, Blank

LEMMA LaunchKeeps == ASSUME Typed, Messages, NEW s \in Sessions, Launch(s) PROVE Messages'
  <1>0. /\ up = "off" /\ up' = "on" /\ s \notin Known /\ cur' = s /\ saved' = Opened(s, saved)
        /\ queue' = <<>> /\ rec' = {} /\ draft' = None /\ turn' = NoTurn /\ UNCHANGED <<owner, lost>>
    BY DEF Launch, Forget
  <1>1. Disk(saved, owner) /\ NothingLost
    BY DEF Messages
  <1>2. /\ Disk(saved', owner) /\ Known' = Known \cup {s} /\ \A x \in Known : saved'[x] = saved[x]
        /\ saved'[s] = Empty
    BY <1>0, <1>1, OpenedIsDisk DEF Known
  <1>3. Waiting' = {} /\ Taken' = {} /\ Held' = {} /\ IsInjective(queue') /\ IsInjective(turn'.msgs) /\ queue' \in Seq(Msgs)
    BY <1>0, EmptyQueue DEF Waiting, Taken, Held, NoTurn
  <1>4. IsSuffix(queue', saved'[cur'].queue)
    BY <1>0, <1>2, <1>3, EmptyType, SuffixOfItself
  <1>5. Live'
    BY <1>0, <1>2, <1>3, <1>4, EmptyType DEF Live
  <1>6. NothingLost'
    BY <1>0, <1>1, <1>2, StoredIn, StoredInNext DEF NothingLost
  <1> QED BY <1>0, <1>2, <1>5, <1>6 DEF Messages, Memory

\* another terminal may run what waits in its conversation
LEMMA OtherClosesKeeps ==
  ASSUME Typed, Messages, NEW s \in Sessions, NEW ran \in BOOLEAN, OtherCloses(s, ran)
  PROVE  Messages'
  <1> DEFINE c == saved[s]  d == [queue |-> <<>>, rec |-> c.rec \cup ToSet(c.queue), draft |-> c.draft]
  <1>0. /\ s \in Known /\ (up # "off" => s # cur) /\ UNCHANGED <<up, cur, queue, rec, draft, turn, owner, lost>>
    BY DEF OtherCloses, editor, worker, Typed, TypeOK
  <1>1. saved' = saved \/ saved' = [saved EXCEPT ![s] = d]
    BY DEF OtherCloses
  <1>2. Disk(saved, owner) /\ NothingLost /\ Memory
    BY DEF Messages
  <1>3. CASE saved' = saved
    BY <1>0, <1>3, StillKeeps
  <1>4. CASE saved' = [saved EXCEPT ![s] = d]
    <2>1. /\ c \in Conversation /\ c.queue \in Seq(Msgs) /\ c.rec \subseteq Msgs /\ ToSet(c.queue) \subseteq Msgs
          /\ c.draft \in Msgs \cup {None}
      BY <1>0, <1>2, ConversationType, QueueElements DEF Known, Conversation
    <2>2. d \in Conversation /\ d.queue = <<>> /\ d.draft = c.draft /\ Stored(d) = Stored(c)
      BY <2>1, EmptyQueue DEF Conversation, Stored
    <2> HIDE DEF d
    <2>3. saved' \in [Known -> Conversation] /\ saved'[s] = d /\ \A x \in Known \ {s} : saved'[x] = saved[x]
      BY <1>0, <1>2, <1>4, <2>2 DEF Disk, Known
    <2>4. Known' = Known
      BY <2>3 DEF Known
    <2>5. \A x \in Known : Stored(saved'[x]) = Stored(saved[x]) /\ saved'[x].draft = saved[x].draft
      BY <2>2, <2>3
    <2>6. \A x \in Known : /\ Len(saved'[x].queue) <= QueueLimit /\ IsInjective(saved'[x].queue)
                           /\ ToSet(saved'[x].queue) \cap saved'[x].rec = {}
      <3> SUFFICES ASSUME NEW x \in Known
                   PROVE  /\ Len(saved'[x].queue) <= QueueLimit /\ IsInjective(saved'[x].queue)
                          /\ ToSet(saved'[x].queue) \cap saved'[x].rec = {}
        OBVIOUS
      <3>1. CASE x = s
        BY <3>1, <2>2, <2>3, EmptyQueue, Names
      <3>2. CASE x # s
        BY <3>2, <1>2, <2>3 DEF Disk, Known
      <3> QED BY <3>1, <3>2
    <2>7. Disk(saved', owner')
      <3>1. \A x \in Known : /\ \A m \in Stored(saved'[x]) : owner[m] = x
                             /\ saved'[x].draft # None => owner[saved'[x].draft] = None
        BY <1>2, <2>5 DEF Disk, Known
      <3>2. \A x, y \in Known : saved'[x].draft = saved'[y].draft /\ saved'[x].draft # None => x = y
        BY <1>2, <2>5 DEF Disk, Known
      <3> QED BY <3>1, <3>2, <1>0, <1>2, <2>3, <2>4, <2>6 DEF Disk, Known
    <2>8. Memory'
      <3>1. CASE up = "off"
        BY <3>1, <1>0, <1>2 DEF Memory, Blank
      <3>2. CASE up # "off"
        <4>1. Live /\ saved'[cur] = saved[cur] /\ Waiting' = Waiting /\ Taken' = Taken /\ Held' = Held
          BY <3>2, <1>0, <1>2, <2>3 DEF Memory, Live, Waiting, Taken, Held
        <4> QED BY <4>1, <3>2, <1>0, <2>4, <2>5 DEF Memory, Live
      <3> QED BY <3>1, <3>2
    <2>9. NothingLost'
      <3>1. OnDisk' = OnDisk
        BY <2>4, <2>5, StoredIn, StoredInNext
      <3> QED BY <3>1, <1>0, <1>2 DEF NothingLost, Waiting
    <2> QED BY <2>7, <2>8, <2>9 DEF Messages
  <1> QED BY <1>1, <1>3, <1>4

-----------------------------------------------------------------------------
(* Every step keeps track of the messages.                                   *)

LEMMA SwitchKeeps ==
  ASSUME Typed, Messages, up # "off", up' = up, turn = NoTurn, turn' = turn, UNCHANGED <<owner, lost>>,
         NEW s \in Sessions, NEW from, Written(from, s), s \in DOMAIN from, Switch(s, from)
  PROVE  Messages'
  <1>1. turn.msgs = <<>> /\ turn'.msgs = <<>>
    BY DEF NoTurn
  <1>2. CASE s \in elsewhere
    <2>1. saved' = from /\ UNCHANGED <<cur, queue, rec, draft>>
      BY <1>2 DEF Switch
    <2> QED BY <2>1, <1>1, SaveKeeps
  <1>3. CASE s \notin elsewhere
    <2>1. Adopt(s, from)
      BY <1>3 DEF Switch
    <2> QED BY <2>1, <1>1, AdoptKeeps
  <1> QED BY <1>2, <1>3

LEMMA WithTaskWritten == ASSUME draft = None PROVE Written(WithTask, Task) /\ Task \in DOMAIN WithTask
  BY DEF WithTask, Written, Opened

LEMMA KeptDomain == ASSUME NEW d PROVE DOMAIN Kept(d) = Known
  BY DEF Kept, Known

LEMMA UserKeeps == ASSUME TerminalInv, User PROVE Messages'
  <1>1. Typed /\ Messages /\ cur \in Sessions
    BY MemoryType DEF TerminalInv, Messages, Typed
  <1> HIDE DEF Messages
  <1>2. ASSUME NEW m \in Msgs, Type(m) PROVE Messages'
    BY <1>1, <1>2, TypeKeeps
  <1>3. CASE ClearDraft
    BY <1>1, <1>3, ClearKeeps DEF ClearDraft, LoopFree, worker
  <1>4. CASE CtrlC \/ ControlWord \/ ResumeQueue
    <2>1. /\ saved' = Kept(draft) /\ up = "on" /\ UNCHANGED <<up, cur, queue, rec, draft, turn, owner, lost>>
      BY <1>4 DEF CtrlC, ControlWord, ResumeQueue, Checkpoint, Kept, Command, Submitting, LoopFree, worker
    <2> QED BY <2>1, <1>1, SaveKeeps DEF Written
  <1>5. CASE Escape \/ StopCommand \/ \E allowed \in BOOLEAN : ThreadCommand(allowed)
    <2>1. UNCHANGED <<up, cur, queue, rec, draft, turn, saved, owner, lost>>
      BY <1>5 DEF Escape, StopCommand, ThreadCommand, worker
    <2> QED BY <2>1, <1>1, StillKeeps
  <1>6. CASE EditQueue
    BY <1>1, <1>6, EditKeeps
  <1>7. CASE SendMessage
    BY <1>1, <1>7, SendKeeps
  <1>8. CASE ClearQueue
    BY <1>1, <1>8, ClearQueueKeeps
  <1>9. ASSUME NEW s \in Sessions, NewSession(s) PROVE Messages'
    <2>1. /\ up = "on" /\ up' = up /\ turn = NoTurn /\ turn' = turn /\ UNCHANGED <<owner, lost>> /\ draft = None
          /\ Adopt(s, Opened(s, Kept(draft)))
      BY <1>9 DEF NewSession, Command, Submitting, LoopFree, Pending
    <2>2. s \in DOMAIN Opened(s, Kept(draft)) /\ turn.msgs = <<>>
      BY <2>1 DEF Opened, NoTurn
    <2> QED BY <2>1, <2>2, <1>1, AdoptKeeps DEF Written
  <1>10. ASSUME NEW s \in Sessions, ResumeSession(s) PROVE Messages'
    <2>1. /\ up = "on" /\ up' = up /\ turn = NoTurn /\ turn' = turn /\ UNCHANGED <<owner, lost>> /\ draft = None
          /\ Adopt(s, Kept(draft)) /\ s \in Known
      BY <1>10 DEF ResumeSession, Command, Submitting, LoopFree, Pending
    <2>2. s \in DOMAIN Kept(draft) /\ turn.msgs = <<>>
      BY <2>1, KeptDomain DEF NoTurn
    <2> QED BY <2>1, <2>2, <1>1, AdoptKeeps DEF Written
  <1>11. CASE WorkerCommand
    <2>1. /\ saved' = Kept(draft) /\ up = "on" /\ UNCHANGED <<up, cur, queue, rec, draft, owner, lost>>
          /\ turn.msgs = <<>> /\ turn'.msgs = <<>>
      BY <1>11 DEF WorkerCommand, Checkpoint, Kept, Command, Submitting, LoopFree, editor, Pending, NoTurn
    <2> QED BY <2>1, <1>1, SaveKeeps DEF Written
  <1>12. CASE EnterTask
    <2>1. /\ up = "on" /\ up' = up /\ turn = NoTurn /\ turn' = turn /\ UNCHANGED <<owner, lost>> /\ draft = None
          /\ Switch(Task, WithTask)
      BY <1>12 DEF EnterTask, Command, Submitting, LoopFree, Pending
    <2> QED BY <2>1, <1>1, WithTaskWritten, SwitchKeeps, Names
  <1>13. CASE RequestTask
    <2>1. /\ up = "on" /\ UNCHANGED <<up, cur, queue, rec, draft, turn, owner, lost>> /\ draft = None /\ saved' = WithTask
      BY <1>13 DEF RequestTask, Command, Submitting, LoopFree
    <2> QED BY <2>1, <1>1, WithTaskWritten, SaveKeeps, Names
  <1>14. CASE Exit
    BY <1>1, <1>14, TurnKeeps DEF Exit, LoopFree
  <1> QED BY <1>2, <1>3, <1>4, <1>5, <1>6, <1>7, <1>8, <1>9, <1>10, <1>11, <1>12, <1>13, <1>14 DEF User

LEMMA PollKeeps == ASSUME TerminalInv, Poll PROVE Messages'
  <1>1. Typed /\ Messages /\ cur \in Sessions /\ TurnKept
    BY MemoryType DEF TerminalInv, Messages, Typed
  <1>2. CASE Collect \/ NothingToSettle \/ Rest
    <2>1. UNCHANGED <<up, cur, queue, rec, draft, turn, saved, owner, lost>>
      BY <1>2 DEF Collect, NothingToSettle, Rest, editor, worker
    <2> QED BY <2>1, <1>1, StillKeeps
  <1>3. CASE Settle
    <2>1. /\ saved' = Kept(draft) /\ up = "on" /\ UNCHANGED <<up, cur, queue, rec, draft, owner, lost>>
          /\ turn'.msgs = <<>> /\ Settled
      BY <1>3 DEF Settle, Checkpoint, Kept, NoTurn
    <2>2. Taken \subseteq rec
      BY <2>1, <1>1 DEF Settled, Running, TurnKept, Typed, Turn
    <2> QED BY <2>1, <2>2, <1>1, SaveKeeps DEF Written
  <1>4. CASE SwitchAfterTurn
    <2>1. /\ up = "on" /\ up' = up /\ turn = NoTurn /\ turn' = turn /\ UNCHANGED <<owner, lost>>
          /\ target # None /\ Switch(target, Kept(draft))
      BY <1>4 DEF SwitchAfterTurn, Switching, Pending
    <2>2. target = Task /\ target \in Sessions /\ target \in Known
      BY <2>1, <1>1, Names DEF Typed, TypeOK
    <2> QED BY <2>1, <2>2, <1>1, KeptDomain, SwitchKeeps DEF Written
  <1>5. CASE StartQueued
    <2>1. /\ up # "off" /\ up' = up /\ UNCHANGED <<cur, rec, draft, saved, owner, lost>> /\ queue # <<>>
          /\ turn.msgs = <<>> /\ turn'.msgs = <<Head(queue)>> /\ queue' = Tail(queue)
      BY <1>5 DEF StartQueued, Start, Ready, Pending, NoTurn
    <2>2. /\ Tail(queue) = SubSeq(queue, 1 + 1, Len(queue)) /\ 1 \in 0..Len(queue)
          /\ turn.msgs \o SubSeq(queue, 1, 1) = <<Head(queue)>>
      <3>1. queue \in Seq(Msgs)
        BY <1>1, MemoryType DEF Typed
      <3>2. Tail(queue) = SubSeq(queue, 2, Len(queue)) /\ 1 \in 0..Len(queue) /\ 1 + 1 = 2
        BY <3>1, <2>1, Beheaded
      <3>3. <<>> \o SubSeq(queue, 1, 1) = <<Head(queue)>>
        <4> DEFINE a == SubSeq(queue, 1, 1)
        <4>1. a \in Seq(Msgs) /\ Len(a) = 1
          BY <3>1, <3>2, Parted
        <4>2. a[1] = Head(queue)
          BY <3>1, <2>1
        <4>3. <<>> \o a = a
          BY <4>1, ConcatEmptySeq
        <4> HIDE DEF a
        <4>4. a = <<a[1]>>
          BY <4>1
        <4> QED BY <4>2, <4>3, <4>4 DEF a
      <3> QED BY <3>2, <3>3, <2>1
    <2> QED BY <2>1, <2>2, <1>1, TakeKeeps
  <1>6. CASE StartMail \/ \E j \in Jobs : StartTimer(j)
    <2>1. /\ up # "off" /\ up' = up /\ UNCHANGED <<cur, queue, rec, draft, saved, owner, lost>>
          /\ turn.msgs = <<>> /\ turn'.msgs = <<>>
      BY <1>6 DEF StartMail, StartTimer, Start, Ready, Pending, NoTurn, editor
    <2> QED BY <2>1, <1>1, TurnKeeps
  <1> QED BY <1>2, <1>3, <1>4, <1>5, <1>6 DEF Poll

LEMMA OthersKeep ==
  ASSUME TerminalInv, CommandReturns \/ CommandRaises \/ ShowEvent \/ Worker \/ Close \/ Environment
  PROVE  Messages'
  <1>1. Typed /\ Messages /\ cur \in Sessions /\ TurnKept
    BY MemoryType DEF TerminalInv, Messages, Typed
  <1>2. CASE CommandReturns \/ ShowEvent
    <2>1. /\ saved' = Kept(draft) /\ up = "on" /\ UNCHANGED <<up, cur, queue, rec, draft, turn, owner, lost>>
      BY <1>2 DEF CommandReturns, ShowEvent, Checkpoint, Kept, LoopFree, editor, worker
    <2> QED BY <2>1, <1>1, SaveKeeps DEF Written
  <1>3. CASE CommandRaises \/ \E s \in Sessions : MailArrives(s) \/ OtherOpens(s)
    <2>1. UNCHANGED <<up, cur, queue, rec, draft, turn, saved, owner, lost>>
      BY <1>3 DEF CommandRaises, MailArrives, OtherOpens, editor, worker
    <2> QED BY <2>1, <1>1, StillKeeps
  <1>4. CASE DrainMail
    <2>1. /\ up # "off" /\ up' = up /\ UNCHANGED <<cur, queue, rec, draft, saved, owner, lost>> /\ turn'.msgs = turn.msgs
      BY <1>1, <1>4 DEF DrainMail, Chats, editor, Typed, Turn
    <2> QED BY <2>1, <1>1, TurnKeeps
  <1>5. ASSUME NEW n \in 1..QueueLimit, Steer(n) PROVE Messages'
    <2>1. /\ up # "off" /\ up' = up /\ UNCHANGED <<cur, rec, draft, saved, owner, lost>> /\ n \in 0..Len(queue)
          /\ queue' = SubSeq(queue, n + 1, Len(queue)) /\ turn'.msgs = turn.msgs \o SubSeq(queue, 1, n)
      BY <1>1, <1>5 DEF Steer, Chats, Typed, Turn
    <2> QED BY <2>1, <1>1, TakeKeeps
  <1>6. CASE Joined
    <2>1. /\ up # "off" /\ up' = up /\ UNCHANGED <<cur, queue, draft, saved, owner, lost>>
          /\ turn'.msgs = turn.msgs /\ rec' = rec \cup Taken
      BY <1>1, <1>6 DEF Joined, editor, Typed, Turn, Taken
    <2> QED BY <2>1, <1>1, RecordKeeps
  <1>7. CASE Answers \/ Fails \/ Stopped
    <2>1. /\ up # "off" /\ up' = up /\ UNCHANGED <<cur, queue, draft, saved, owner, lost>>
          /\ turn'.msgs = turn.msgs /\ (rec' = rec \cup Taken \/ rec' = rec)
      BY <1>1, <1>7 DEF Answers, Fails, Stopped, Alive, Ends, editor, Typed, Turn, Taken
    <2> QED BY <2>1, <1>1, RecordKeeps, TurnKeeps
  <1>8. CASE Close
    BY <1>1, <1>8, CloseKeeps
  <1>9. CASE Crash
    BY <1>1, <1>9, CrashKeeps
  <1>10. ASSUME NEW s \in Sessions, Launch(s) PROVE Messages'
    BY <1>1, <1>10, LaunchKeeps
  <1>11. ASSUME NEW s \in Sessions, NEW ran \in BOOLEAN, OtherCloses(s, ran) PROVE Messages'
    BY <1>1, <1>11, OtherClosesKeeps
  <1> QED BY <1>2, <1>3, <1>4, <1>5, <1>6, <1>7, <1>8, <1>9, <1>10, <1>11 DEF Worker, Environment

LEMMA StepMessages == ASSUME TerminalInv, [Next]_vars PROVE Messages'
  <1>1. CASE User
    BY <1>1, UserKeeps
  <1>2. CASE Poll
    BY <1>2, PollKeeps
  <1>3. CASE CommandReturns \/ CommandRaises \/ ShowEvent \/ Worker \/ Close \/ Environment
    BY <1>3, OthersKeep
  <1>4. CASE UNCHANGED vars
    BY <1>4, StillKeeps DEF vars, editor, worker, TerminalInv, Messages
  <1> QED BY <1>1, <1>2, <1>3, <1>4 DEF Next

-----------------------------------------------------------------------------
(* Turns and timers.                                                         *)

TurnsAndTimers == TurnKept /\ TimersSettle

LEMMA IdleTurn == ASSUME turn' = NoTurn PROVE TurnKept'
  BY EmptyQueue DEF TurnKept, NoTurn, Taken

LEMMA SameTurn == ASSUME TurnKept, turn' = turn, rec' = rec PROVE TurnKept'
  BY DEF TurnKept, Taken

LEMMA SameTimers ==
  ASSUME TimersSettle, up' = up \/ up' # "on", turn'.kind = turn.kind, jobs' = jobs
  PROVE  TimersSettle'
  BY DEF TimersSettle

LEMMA UserTurns == ASSUME Typed, TurnsAndTimers, User PROVE TurnsAndTimers'
  <1>0. TurnKept /\ TimersSettle
    BY DEF TurnsAndTimers
  <1>1. CASE WorkerCommand
    <2>1. /\ up' = up /\ jobs' = jobs /\ turn = NoTurn /\ turn' = [kind |-> "command", msgs |-> <<>>, at |-> "run", from |-> {}]
      BY <1>1 DEF WorkerCommand, Command, Submitting, Pending, outside
    <2>2. TurnKept'
      BY <2>1, EmptyQueue DEF TurnKept, NoTurn, Taken, None
    <2>3. TimersSettle'
      BY <2>1, <1>0 DEF TimersSettle, NoTurn, None
    <2> QED BY <2>2, <2>3 DEF TurnsAndTimers
  <1>2. CASE ~WorkerCommand
    <2>1. /\ turn' = turn /\ jobs' = jobs /\ (up' = up \/ up' # "on")
          /\ turn = NoTurn \/ rec' = rec
      BY <1>2 DEF User, Type, ClearDraft, CtrlC, ControlWord, Escape, EditQueue, SendMessage, ResumeQueue, ClearQueue,
                  NewSession, ResumeSession, ThreadCommand, StopCommand, EnterTask, RequestTask, Exit, Pending,
                  worker, outside
    <2>2. TurnKept'
      BY <2>1, <1>0, IdleTurn, SameTurn
    <2>3. TimersSettle'
      BY <2>1, <1>0, SameTimers
    <2> QED BY <2>2, <2>3 DEF TurnsAndTimers
  <1> QED BY <1>1, <1>2

LEMMA SettleTimers == ASSUME Typed, TurnsAndTimers, Settle PROVE TurnsAndTimers'
  <1>1. /\ up' = up /\ turn' = NoTurn /\ jobs \in [Jobs -> {"pending", "running", "done", "failed", "interrupted"}]
        /\ jobs' = [j \in Jobs |-> IF turn.kind = "timer" /\ jobs[j] = "running" THEN Finished(j) ELSE jobs[j]]
        /\ TimersSettle
    BY DEF Settle, Typed, TypeOK, TurnsAndTimers
  <1>2. \A j \in Jobs : Finished(j) # "running"
    BY DEF Finished
  <1>3. up = "on" => \A j \in Jobs : jobs'[j] # "running"
    BY <1>1, <1>2 DEF TimersSettle
  <1>4. TimersSettle'
    BY <1>1, <1>3 DEF TimersSettle, NoTurn, None
  <1> QED BY <1>1, <1>4, IdleTurn DEF TurnsAndTimers

LEMMA PollTurns == ASSUME Typed, TurnsAndTimers, Poll PROVE TurnsAndTimers'
  <1>0. TurnKept /\ TimersSettle
    BY DEF TurnsAndTimers
  <1>1. CASE Collect \/ NothingToSettle \/ Rest \/ SwitchAfterTurn
    <2>1. turn' = turn /\ jobs' = jobs /\ up' = up /\ (turn = NoTurn \/ rec' = rec)
      BY <1>1 DEF Collect, NothingToSettle, Rest, SwitchAfterTurn, Switching, Pending, worker, outside
    <2> QED BY <2>1, <1>0, IdleTurn, SameTurn, SameTimers DEF TurnsAndTimers
  <1>2. CASE Settle
    BY <1>2, SettleTimers
  <1>3. CASE StartQueued \/ StartMail
    <2>1. /\ up' = up /\ jobs' = jobs /\ turn = NoTurn /\ turn'.at = "run" /\ turn'.kind \in {"message", "mail"}
      BY <1>3 DEF StartQueued, StartMail, Start, Ready, Pending, outside
    <2>2. TurnKept'
      BY <2>1 DEF TurnKept, None
    <2>3. TimersSettle'
      BY <2>1, <1>0 DEF TimersSettle, NoTurn, None
    <2> QED BY <2>2, <2>3 DEF TurnsAndTimers
  <1>4. ASSUME NEW j \in Jobs, StartTimer(j) PROVE TurnsAndTimers'
    <2>1. /\ up' = up /\ turn = NoTurn /\ turn'.at = "run" /\ turn'.kind = "timer" /\ turn'.msgs = <<>>
          /\ jobs' = [jobs EXCEPT ![j] = "running"] /\ up = "on"
          /\ jobs \in [Jobs -> {"pending", "running", "done", "failed", "interrupted"}]
      BY <1>4 DEF StartTimer, Start, Ready, Pending, Typed, TypeOK
    <2>2. TurnKept'
      BY <2>1 DEF TurnKept, None
    <2>3. \A i \in Jobs : jobs[i] # "running"
      BY <2>1, <1>0 DEF TimersSettle, NoTurn, None
    <2>4. \A i \in Jobs : jobs'[i] = "running" <=> i = j
      BY <2>1, <2>3
    <2>5. TimersSettle'
      BY <2>1, <2>4 DEF TimersSettle
    <2> QED BY <2>2, <2>5 DEF TurnsAndTimers
  <1> QED BY <1>1, <1>2, <1>3, <1>4 DEF Poll

LEMMA OtherTurns ==
  ASSUME Typed, TurnsAndTimers, CommandReturns \/ CommandRaises \/ ShowEvent \/ Worker \/ Close \/ Environment
  PROVE  TurnsAndTimers'
  <1>0. TurnKept /\ TimersSettle /\ turn \in Turn
    BY DEF TurnsAndTimers, Typed
  <1>1. CASE CommandReturns \/ CommandRaises \/ ShowEvent \/ \E s \in Sessions : MailArrives(s) \/ OtherOpens(s)
                \/ \E ran \in BOOLEAN : OtherCloses(s, ran)
    <2>1. turn' = turn /\ jobs' = jobs /\ up' = up /\ rec' = rec
      BY <1>1 DEF CommandReturns, CommandRaises, ShowEvent, MailArrives, OtherOpens, OtherCloses, worker, outside
    <2> QED BY <2>1, <1>0, SameTurn, SameTimers DEF TurnsAndTimers
  <1>2. CASE Close \/ Crash
    <2>1. turn' = NoTurn /\ up' = "off"
      BY <1>2 DEF Close, Crash, Forget
    <2> QED BY <2>1, IdleTurn DEF TurnsAndTimers, TimersSettle
  <1>3. ASSUME NEW s \in Sessions, Launch(s) PROVE TurnsAndTimers'
    <2>1. turn' = NoTurn /\ jobs' = [j \in Jobs |-> IF jobs[j] = "running" THEN "interrupted" ELSE jobs[j]]
      BY <1>3 DEF Launch, Forget
    <2>2. \A j \in Jobs : jobs'[j] # "running"
      BY <2>1
    <2>3. TimersSettle'
      BY <2>1, <2>2 DEF TimersSettle, NoTurn, None
    <2> QED BY <2>1, <2>3, IdleTurn DEF TurnsAndTimers
  <1>4. CASE Worker
    <2>1. /\ up' = up /\ jobs' = jobs /\ turn'.kind = turn.kind
      BY <1>0, <1>4 DEF Worker, DrainMail, Joined, Answers, Fails, Stopped, Ends, Steer, outside, Turn
    <2>2. TimersSettle'
      BY <2>1, <1>0, SameTimers
    <2>3. turn.at \in {"run", "steering"}
      BY <1>4 DEF Worker, DrainMail, Joined, Answers, Fails, Stopped, Alive, Steer, Chats
    <2>4. turn.kind # None
      BY <2>3, <1>0 DEF TurnKept, NoTurn
    <2>5. CASE DrainMail \/ Joined
      <3>1. turn'.msgs = turn.msgs /\ turn'.at = "run" 
        BY <2>5, <1>0 DEF DrainMail, Joined, Chats, Turn
      <3> QED BY <3>1, <2>1, <2>2, <2>4, <1>0 DEF TurnKept, TurnsAndTimers
    <2>6. CASE \E n \in 1..QueueLimit : Steer(n)
      <3>1. turn'.at = "steering" /\ turn.kind \in {"message", "mail"}
        BY <2>6, <1>0 DEF Steer, Chats, Turn
      <3> QED BY <3>1, <2>1, <2>2, <2>4 DEF TurnKept, TurnsAndTimers
    <2>7. CASE Answers \/ Fails \/ Stopped
      <3>1. turn'.msgs = turn.msgs /\ rec' = IF turn.kind = "message" \/ turn.kind = "mail" THEN rec \cup Taken ELSE rec
        BY <2>7, <1>0 DEF Answers, Fails, Stopped, Ends, Turn, Taken
      <3>2. Taken' = Taken
        BY <3>1 DEF Taken
      <3>3. Taken' \subseteq rec'
        <4>1. CASE turn.kind \in {"message", "mail"}
          BY <4>1, <3>1, <3>2
        <4>2. CASE turn.kind \notin {"message", "mail"}
          BY <4>2, <3>2, <1>0, EmptyQueue DEF TurnKept, Taken
        <4> QED BY <4>1, <4>2
      <3> QED BY <3>1, <3>3, <2>1, <2>2, <2>4, <1>0 DEF TurnKept, TurnsAndTimers
    <2> QED BY <1>4, <2>5, <2>6, <2>7 DEF Worker
  <1> QED BY <1>1, <1>2, <1>3, <1>4 DEF Environment

LEMMA StepTurns == ASSUME Typed, TurnsAndTimers, [Next]_vars PROVE TurnsAndTimers'
  <1>1. CASE User
    BY <1>1, UserTurns
  <1>2. CASE Poll
    BY <1>2, PollTurns
  <1>3. CASE CommandReturns \/ CommandRaises \/ ShowEvent \/ Worker \/ Close \/ Environment
    BY <1>3, OtherTurns
  <1>4. CASE UNCHANGED vars
    BY <1>4, SameTurn, SameTimers DEF vars, worker, outside, TurnsAndTimers
  <1> QED BY <1>1, <1>2, <1>3, <1>4 DEF Next

-----------------------------------------------------------------------------
(* Types.                                                                    *)

Flags ==
  /\ up \in {"on", "closing", "off"} /\ paused \in BOOLEAN /\ stop \in BOOLEAN /\ more \in BOOLEAN
  /\ busy \in {"no", "thread", "redraw"} /\ poll \in {"asleep", "collected", "next"} /\ turns \in 0..MailTurns
  /\ mail \subseteq Sessions
  /\ jobs \in [Jobs -> {"pending", "running", "done", "failed", "interrupted"}]

Texts ==
  /\ rec \subseteq Msgs /\ queue \in Seq(Msgs) /\ Len(queue) <= QueueLimit /\ draft \in Msgs \cup {None}
  /\ turn \in Turn /\ owner \in [Msgs -> Sessions \cup {None}] /\ lost \subseteq Msgs

Places ==
  /\ cur \in Sessions /\ elsewhere \subseteq Known /\ target \in {None, Task}
  /\ (up # "off" => cur \notin elsewhere) /\ (target # None => Task \in Known)

LEMMA TypedParts ==
  ASSUME Disk(saved, owner) PROVE Typed <=> Flags /\ Texts /\ Places
  <1>1. Known \subseteq Sessions /\ \A s \in Known : saved[s].rec \subseteq Msgs
    BY ConversationType DEF Known
  <1>2. turn \in Turn => turn.kind \in Kinds \cup {None} /\ turn.at \in {"run", "steering", "done", "failed"}
    BY DEF Turn
  <1> QED BY <1>1, <1>2 DEF Typed, TypeOK, Flags, Texts, Places

LEMMA SomeTurns ==
  /\ NoTurn \in Turn
  /\ \A k \in Kinds, q \in Seq(Msgs) : [kind |-> k, msgs |-> q, at |-> "run", from |-> {}] \in Turn
  <1>1. <<>> \in Seq(Msgs)
    BY EmptyQueue
  <1> QED BY <1>1 DEF NoTurn, Turn, Kinds

LEMMA UserFlags == Flags /\ User => Flags'
  <1> SUFFICES ASSUME Flags, User PROVE Flags'
    OBVIOUS
  <1>0. 0 \in 0..MailTurns
    BY Names
  <1>1. UNCHANGED <<more, poll, mail, jobs>>
    BY DEF User, Type, ClearDraft, CtrlC, ControlWord, Escape, EditQueue, SendMessage, ResumeQueue, ClearQueue,
           NewSession, ResumeSession, ThreadCommand, StopCommand, WorkerCommand, EnterTask, RequestTask, Exit,
           loop, outside
  <1>2. turns' \in {turns, 0} /\ up' \in {up, "closing"} /\ busy' \in {busy, "no", "thread", "redraw"}
    BY DEF User, Type, ClearDraft, CtrlC, ControlWord, Escape, EditQueue, SendMessage, ResumeQueue, ClearQueue,
           NewSession, ResumeSession, ThreadCommand, StopCommand, WorkerCommand, EnterTask, RequestTask, Exit,
           loop, editor
  <1>3. paused' \in BOOLEAN /\ stop' \in BOOLEAN
    BY DEF User, Type, ClearDraft, CtrlC, ControlWord, Escape, EditQueue, SendMessage, ResumeQueue, ClearQueue,
           NewSession, ResumeSession, ThreadCommand, StopCommand, WorkerCommand, EnterTask, RequestTask, Exit,
           StopNow, Switch, worker, editor, Flags
  <1> QED BY <1>0, <1>1, <1>2, <1>3 DEF Flags

LEMMA PollFlags == Flags /\ Poll => Flags'
  <1> SUFFICES ASSUME Flags, Poll PROVE Flags'
    OBVIOUS
  <1> USE DEF Poll, Collect, Settle, NothingToSettle, SwitchAfterTurn, StartQueued, StartMail, StartTimer, Rest, Start,
              Flags
  <1>1. up' = up /\ mail' = mail /\ busy' = busy /\ poll' \in {"asleep", "collected", "next"} /\ more' \in BOOLEAN
    BY DEF outside, editor
  <1>2. paused' \in BOOLEAN /\ stop' \in BOOLEAN
    BY DEF editor, worker, Switch
  <1>3. turns' \in 0..MailTurns
    BY Names DEF Answering, loop
  <1>4. jobs' \in [Jobs -> {"pending", "running", "done", "failed", "interrupted"}]
    BY DEF outside, Finished
  <1> QED BY <1>1, <1>2, <1>3, <1>4

LEMMA OtherFlags ==
  ASSUME Flags, CommandReturns \/ CommandRaises \/ ShowEvent \/ Worker \/ Close \/ Environment
  PROVE  Flags'
  <1>0. 0 \in 0..MailTurns
    BY Names
  <1>1. CASE CommandReturns \/ CommandRaises \/ ShowEvent
    BY <1>1 DEF CommandReturns, CommandRaises, ShowEvent, worker, loop, outside, editor, Flags
  <1>2. CASE Worker
    <2>1. UNCHANGED <<up, paused, busy, stop, poll, more, turns, jobs>> /\ mail' \in {mail, {}}
      BY <1>2 DEF Worker, DrainMail, Joined, Answers, Fails, Stopped, Ends, Steer, editor, loop, outside
    <2> QED BY <2>1 DEF Flags
  <1>3. CASE Close \/ Crash \/ \E s \in Sessions : Launch(s)
    BY <1>0, <1>3 DEF Close, Crash, Launch, Forget, Flags
  <1>4. CASE \E s \in Sessions : MailArrives(s) \/ OtherOpens(s) \/ \E ran \in BOOLEAN : OtherCloses(s, ran)
    BY <1>4 DEF MailArrives, OtherOpens, OtherCloses, editor, worker, loop, Flags
  <1> QED BY <1>1, <1>2, <1>3, <1>4 DEF Environment

Composed == /\ rec \subseteq Msgs /\ queue \in Seq(Msgs) /\ Len(queue) <= QueueLimit /\ draft \in Msgs \cup {None}

LEMMA AdoptTexts ==
  ASSUME Typed, Messages, up # "off", NEW s \in Sessions, NEW from, Written(from, s),
         NEW t \in DOMAIN from, Adopt(t, from)
  PROVE  Composed' /\ cur' = t /\ Known \subseteq Known'
  <1>1. Disk(from, owner) /\ Known \subseteq DOMAIN from
    BY WrittenIsDisk DEF Messages, Memory
  <1>2. /\ from[t].queue \in Seq(Msgs) /\ Len(from[t].queue) <= QueueLimit /\ from[t].rec \subseteq Msgs
        /\ from[t].draft \in Msgs \cup {None}
    BY <1>1, ConversationType DEF Disk, Conversation
  <1>3. /\ cur' = t /\ queue' = from[t].queue /\ rec' = from[t].rec /\ draft' = from[t].draft
        /\ DOMAIN saved' = DOMAIN from
    BY DEF Adopt
  <1> QED BY <1>1, <1>2, <1>3 DEF Composed, Known

LEMMA SwitchTexts ==
  ASSUME Typed, Messages, up # "off", NEW s \in Sessions, NEW from, Written(from, s), s \in DOMAIN from, Switch(s, from)
  PROVE  Composed' /\ Known \subseteq Known' /\ cur' \in {cur, s} /\ (cur' \in elsewhere => cur' = cur)
  <1>1. CASE s \in elsewhere
    <2>1. UNCHANGED <<cur, queue, rec, draft>> /\ saved' = from
      BY <1>1 DEF Switch
    <2>2. Known \subseteq DOMAIN from
      BY WrittenIsDisk DEF Messages, Memory
    <2> QED BY <2>1, <2>2, MemoryType DEF Composed, Typed, Known
  <1>2. CASE s \notin elsewhere
    <2>1. Adopt(s, from)
      BY <1>2 DEF Switch
    <2> QED BY <2>1, <1>2, AdoptTexts
  <1> QED BY <1>1, <1>2

LEMMA UserTexts == ASSUME TerminalInv, User PROVE Texts'
  <1>0. Typed /\ Messages /\ Disk(saved, owner)
    BY DEF TerminalInv, Messages
  <1> HIDE DEF Messages
  <1>1. Texts /\ Places /\ 0 <= QueueLimit
    BY <1>0, TypedParts, Names
  <1>2. Composed
    BY <1>1 DEF Texts, Composed
  <1>3. ASSUME NEW m \in Msgs, Type(m) PROVE Texts'
    BY <1>1, <1>3 DEF Type, worker, Texts
  <1>4. CASE ClearDraft \/ CtrlC \/ ControlWord \/ Escape \/ ResumeQueue \/ StopCommand \/ RequestTask \/ Exit
             \/ \E allowed \in BOOLEAN : ThreadCommand(allowed)
    <2>1. UNCHANGED <<rec, queue, turn, owner, lost>> /\ draft' \in {draft, None}
      BY <1>4 DEF ClearDraft, CtrlC, ControlWord, Escape, ResumeQueue, StopCommand, RequestTask, Exit, ThreadCommand, worker
    <2> QED BY <2>1, <1>1 DEF Texts
  <1>5. CASE EditQueue
    <2>1. /\ queue # <<>> /\ draft' = Last(queue) /\ queue' = Front(queue) /\ UNCHANGED <<rec, turn, lost>>
          /\ owner' = [owner EXCEPT ![Last(queue)] = None]
      BY <1>5 DEF EditQueue, worker
    <2>2. Front(queue) \in Seq(Msgs) /\ Len(Front(queue)) <= Len(queue) /\ Last(queue) \in Msgs
      BY <2>1, <1>1, Shortened DEF Texts
    <2>3. Len(Front(queue)) <= QueueLimit
      BY <2>2, <1>1, Names, LenProperties DEF Texts
    <2>4. owner' \in [Msgs -> Sessions \cup {None}]
      BY <2>1, <2>2, <1>1 DEF Texts
    <2> QED BY <2>1, <2>2, <2>3, <2>4, <1>1 DEF Texts
  <1>6. CASE SendMessage
    <2>1. /\ draft \in Msgs /\ Len(queue) < QueueLimit /\ queue' = Append(queue, draft) /\ draft' = None
          /\ owner' = [owner EXCEPT ![draft] = cur] /\ UNCHANGED <<rec, turn, lost>>
      BY <1>1, <1>6 DEF SendMessage, worker, Texts
    <2>2. Append(queue, draft) \in Seq(Msgs) /\ Len(Append(queue, draft)) <= QueueLimit
      BY <2>1, <1>1, Appended, Names, LenProperties DEF Texts
    <2>3. owner' \in [Msgs -> Sessions \cup {None}]
      BY <2>1, <1>1 DEF Texts, Places
    <2> QED BY <2>1, <2>2, <2>3, <1>1 DEF Texts
  <1>7. CASE ClearQueue
    <2>1. queue' = <<>> /\ lost' = lost \cup Waiting /\ UNCHANGED <<rec, turn, draft, owner>>
      BY <1>7 DEF ClearQueue, worker
    <2> QED BY <2>1, <1>1, EmptyQueue, QueueElements DEF Texts, Waiting
  <1>8. ASSUME NEW s \in Sessions, NewSession(s) \/ ResumeSession(s) PROVE Texts'
    <2>1. /\ up = "on" /\ UNCHANGED <<turn, owner, lost>> /\ draft = None
          /\ (Adopt(s, Opened(s, Kept(draft))) \/ (Adopt(s, Kept(draft)) /\ s \in Known))
      BY <1>8 DEF NewSession, ResumeSession, Command, Submitting, LoopFree
    <2>2. s \in DOMAIN Opened(s, Kept(draft)) /\ (s \in Known => s \in DOMAIN Kept(draft))
      BY KeptDomain DEF Opened
    <2>3. Composed'
      BY <2>1, <2>2, <1>0, AdoptTexts DEF Written
    <2> QED BY <2>1, <2>3, <1>1 DEF Texts, Composed
  <1>9. CASE WorkerCommand
    <2>1. /\ UNCHANGED <<rec, queue, draft, owner, lost>>
          /\ turn' = [kind |-> "command", msgs |-> <<>>, at |-> "run", from |-> {}]
      BY <1>9 DEF WorkerCommand, editor
    <2>2. turn' \in Turn
      BY <2>1, SomeTurns, EmptyQueue DEF Kinds
    <2> QED BY <2>1, <2>2, <1>1 DEF Texts
  <1>10. CASE EnterTask
    <2>1. up = "on" /\ UNCHANGED <<turn, owner, lost>> /\ draft = None /\ Switch(Task, WithTask)
      BY <1>10 DEF EnterTask, Command, Submitting, LoopFree
    <2>2. Composed'
      BY <2>1, <1>0, WithTaskWritten, SwitchTexts, Names
    <2> QED BY <2>1, <2>2, <1>1 DEF Texts, Composed
  <1> QED BY <1>3, <1>4, <1>5, <1>6, <1>7, <1>8, <1>9, <1>10 DEF User

LEMMA OtherTexts ==
  ASSUME TerminalInv, Poll \/ CommandReturns \/ CommandRaises \/ ShowEvent \/ Worker \/ Close \/ Environment
  PROVE  Texts'
  <1>0. Typed /\ Messages /\ Disk(saved, owner) /\ TurnKept
    BY DEF TerminalInv, Messages
  <1> HIDE DEF Messages
  <1>1. Texts /\ Places /\ Flags /\ 0 <= QueueLimit /\ 0 \in Nat /\ <<>> \in Seq(Msgs)
    BY <1>0, TypedParts, Names, EmptyQueue
  <1>2. CASE \/ Collect \/ NothingToSettle \/ Rest \/ CommandReturns \/ CommandRaises \/ ShowEvent
             \/ \E s \in Sessions : MailArrives(s) \/ OtherOpens(s) \/ \E ran \in BOOLEAN : OtherCloses(s, ran)
    <2>1. UNCHANGED <<rec, queue, draft, turn, owner, lost>>
      BY <1>2 DEF Collect, NothingToSettle, Rest, CommandReturns, CommandRaises, ShowEvent, MailArrives, OtherOpens,
                  OtherCloses, editor, worker
    <2> QED BY <2>1, <1>1 DEF Texts
  <1>3. CASE Settle
    BY <1>1, <1>3, SomeTurns DEF Settle, Texts
  <1>4. CASE SwitchAfterTurn
    <2>1. up = "on" /\ UNCHANGED <<turn, owner, lost>> /\ target # None /\ Switch(target, Kept(draft))
      BY <1>4 DEF SwitchAfterTurn, Switching
    <2>2. target \in Sessions /\ target \in DOMAIN Kept(draft)
      BY <2>1, <1>1, KeptDomain, Names DEF Places
    <2>3. Composed'
      BY <2>1, <2>2, <1>0, SwitchTexts DEF Written
    <2> QED BY <2>1, <2>3, <1>1 DEF Texts, Composed
  <1>5. CASE StartQueued
    <2>1. /\ queue # <<>> /\ queue' = Tail(queue) /\ UNCHANGED <<rec, draft, owner, lost>>
          /\ turn' = [kind |-> "message", msgs |-> <<Head(queue)>>, at |-> "run", from |-> {}]
      BY <1>5 DEF StartQueued, Start
    <2>2. Tail(queue) \in Seq(Msgs) /\ Len(Tail(queue)) <= Len(queue) /\ Head(queue) \in Msgs
      BY <2>1, <1>1, Beheaded DEF Texts
    <2>3. Len(Tail(queue)) <= QueueLimit
      BY <2>2, <1>1, Names, LenProperties DEF Texts
    <2>4. turn' \in Turn
      BY <2>1, <2>2, Singleton, SomeTurns DEF Kinds
    <2> QED BY <2>1, <2>2, <2>3, <2>4, <1>1 DEF Texts
  <1>6. CASE StartMail \/ \E j \in Jobs : StartTimer(j)
    <2>1. /\ UNCHANGED <<rec, queue, draft, owner, lost>>
          /\ \E k \in {"mail", "timer"} : turn' = [kind |-> k, msgs |-> <<>>, at |-> "run", from |-> {}]
      BY <1>6 DEF StartMail, StartTimer, Start, editor
    <2>2. turn' \in Turn
      BY <2>1, <1>1, SomeTurns DEF Kinds
    <2> QED BY <2>1, <2>2, <1>1 DEF Texts
  <1>7. CASE DrainMail \/ Joined \/ Answers \/ Fails \/ Stopped
    <2>1. /\ UNCHANGED <<queue, draft, owner, lost>>
          /\ rec' \in {rec, rec \cup Taken}
      BY <1>7 DEF DrainMail, Joined, Answers, Fails, Stopped, Ends, editor, Taken
    <2>2. turn' \in Turn
      BY <1>1, <1>7 DEF DrainMail, Joined, Answers, Fails, Stopped, Ends, Texts, Turn, Flags
    <2>3. Taken \subseteq Msgs
      BY <1>0, MemoryType DEF Typed
    <2> QED BY <2>1, <2>2, <2>3, <1>1 DEF Texts
  <1>8. ASSUME NEW n \in 1..QueueLimit, Steer(n) PROVE Texts'
    <2>1. /\ n \in 0..Len(queue) /\ queue' = SubSeq(queue, n + 1, Len(queue)) /\ UNCHANGED <<rec, draft, owner, lost>>
          /\ turn' = [turn EXCEPT !.msgs = turn.msgs \o SubSeq(queue, 1, n), !.at = "steering"]
      BY <1>8 DEF Steer
    <2>2. /\ SubSeq(queue, 1, n) \in Seq(Msgs) /\ SubSeq(queue, n + 1, Len(queue)) \in Seq(Msgs)
          /\ Len(SubSeq(queue, n + 1, Len(queue))) = Len(queue) - n
      BY <2>1, <1>1, Parted DEF Texts
    <2>3. queue' \in Seq(Msgs) /\ Len(queue') <= QueueLimit
      BY <2>1, <2>2, <1>1, Names, LenProperties DEF Texts
    <2>4. turn.msgs \o SubSeq(queue, 1, n) \in Seq(Msgs)
      BY <2>2, <1>1, Joining DEF Texts, Turn
    <2>5. turn' \in Turn
      BY <2>1, <2>4, <1>1 DEF Texts, Turn
    <2> QED BY <2>1, <2>3, <2>5, <1>1 DEF Texts
  <1>9. CASE Close \/ Crash \/ \E s \in Sessions : Launch(s)
    <2>1. /\ queue' = <<>> /\ rec' = {} /\ draft' = None /\ turn' = NoTurn /\ owner' = owner
          /\ lost' \in {lost, lost \cup (Taken \ OnDisk)}
      BY <1>9 DEF Close, Crash, Launch, Forget, Taken
    <2>2. Taken \subseteq Msgs
      BY <1>0, MemoryType DEF Typed
    <2> QED BY <2>1, <2>2, <1>1, SomeTurns, EmptyQueue DEF Texts
  <1> QED BY <1>2, <1>3, <1>4, <1>5, <1>6, <1>7, <1>8, <1>9 DEF Poll, Worker, Environment

LEMMA StepPlaces == ASSUME TerminalInv, Next PROVE Places'
  <1>0. Typed /\ Messages /\ Disk(saved, owner) /\ Disk(saved, owner)
    BY DEF TerminalInv, Messages
  <1> HIDE DEF Messages
  <1>1. Places /\ Task \in Sessions /\ Task # None
    BY <1>0, TypedParts, Names
  <1>2. CASE \E s \in Sessions : NewSession(s) \/ ResumeSession(s)
    <2>1. PICK s \in Sessions : NewSession(s) \/ ResumeSession(s)
      BY <1>2
    <2>2. /\ up = "on" /\ UNCHANGED <<up, elsewhere, target>> /\ draft = None /\ s \notin elsewhere
          /\ (Adopt(s, Opened(s, Kept(draft))) \/ (Adopt(s, Kept(draft)) /\ s \in Known))
      BY <2>1, <1>1 DEF NewSession, ResumeSession, Command, Submitting, LoopFree, outside, Places
    <2>3. s \in DOMAIN Opened(s, Kept(draft)) /\ (s \in Known => s \in DOMAIN Kept(draft))
      BY KeptDomain DEF Opened
    <2>4. cur' = s /\ Known \subseteq Known'
      BY <2>2, <2>3, <1>0, AdoptTexts DEF Written
    <2> QED BY <2>2, <2>4, <1>1 DEF Places
  <1>3. CASE EnterTask
    <2>1. /\ up = "on" /\ UNCHANGED <<up, elsewhere>> /\ target' = None /\ draft = None /\ Switch(Task, WithTask)
      BY <1>3 DEF EnterTask, Command, Submitting, LoopFree, outside
    <2>2. Known \subseteq Known' /\ cur' \in {cur, Task} /\ (cur' \in elsewhere => cur' = cur)
      BY <2>1, <1>0, <1>1, WithTaskWritten, SwitchTexts
    <2> QED BY <2>1, <2>2, <1>1 DEF Places
  <1>4. CASE SwitchAfterTurn
    <2>1. /\ up = "on" /\ UNCHANGED <<up, elsewhere>> /\ target # None /\ target' = None /\ Switch(target, Kept(draft))
      BY <1>4 DEF SwitchAfterTurn, Switching, outside
    <2>2. target = Task /\ target \in DOMAIN Kept(draft)
      BY <2>1, <1>1, KeptDomain DEF Places
    <2>3. Known \subseteq Known' /\ cur' \in {cur, Task} /\ (cur' \in elsewhere => cur' = cur)
      BY <2>1, <2>2, <1>0, <1>1, SwitchTexts DEF Written
    <2> QED BY <2>1, <2>3, <1>1 DEF Places
  <1>5. CASE RequestTask
    <2>1. UNCHANGED <<up, cur, elsewhere>> /\ target' = Task /\ draft = None /\ saved' = WithTask
      BY <1>5 DEF RequestTask, Command, Submitting, outside
    <2>2. Known' = Known \cup {Task}
      BY <2>1, KeptDomain DEF Known, WithTask, Opened
    <2> QED BY <2>1, <2>2, <1>1 DEF Places
  <1>6. CASE \E s \in Sessions : Launch(s)
    <2>1. PICK s \in Sessions : Launch(s)
      BY <1>6
    <2>2. cur' = s /\ s \notin Known /\ target' = None /\ elsewhere' = elsewhere /\ Known' = Known \cup {s}
      BY <2>1 DEF Launch, Forget, Opened, Known
    <2> QED BY <2>2, <1>1 DEF Places
  <1>7. CASE \E s \in Sessions : OtherOpens(s) \/ \E ran \in BOOLEAN : OtherCloses(s, ran)
    <2>1. /\ UNCHANGED <<up, cur, target>> /\ elsewhere' \subseteq Known /\ Known' = Known
          /\ up # "off" => cur \notin elsewhere'
      BY <1>1, <1>7 DEF OtherOpens, OtherCloses, editor, Known, Places
    <2> QED BY <2>1, <1>1 DEF Places
  <1>8. CASE Close \/ Crash
    <2>1. up' = "off" /\ target' = None /\ cur' = cur /\ elsewhere' = elsewhere /\ Known' = Known
      BY <1>8 DEF Close, Crash, Forget, Checkpoint, Known
    <2> QED BY <2>1, <1>1 DEF Places
  <1>9. CASE \/ \E m \in Msgs : Type(m)
             \/ ClearDraft \/ CtrlC \/ ControlWord \/ Escape \/ EditQueue \/ SendMessage \/ ResumeQueue \/ ClearQueue
             \/ (\E allowed \in BOOLEAN : ThreadCommand(allowed)) \/ StopCommand \/ WorkerCommand \/ Exit
             \/ Collect \/ Settle \/ NothingToSettle \/ StartQueued \/ StartMail \/ (\E j \in Jobs : StartTimer(j)) \/ Rest
             \/ CommandReturns \/ CommandRaises \/ ShowEvent \/ Worker \/ \E s \in Sessions : MailArrives(s)
    <2>1. UNCHANGED <<cur, target, elsewhere>> /\ (up' = up \/ up = "on")
      BY <1>9 DEF Type, ClearDraft, CtrlC, ControlWord, Escape, EditQueue, SendMessage, ResumeQueue, ClearQueue,
           ThreadCommand, StopCommand, WorkerCommand, Exit, Collect, Settle, NothingToSettle, StartQueued, StartMail,
           StartTimer, Rest, CommandReturns, CommandRaises, ShowEvent, Worker, DrainMail, Joined, Answers, Fails,
           Stopped, Ends, Steer, MailArrives, outside, editor, LoopFree
    <2>2. Known' = Known
      BY <1>9 DEF Type, ClearDraft, CtrlC, ControlWord, Escape, EditQueue, SendMessage, ResumeQueue, ClearQueue,
           ThreadCommand, StopCommand, WorkerCommand, Exit, Collect, Settle, NothingToSettle, StartQueued, StartMail,
           StartTimer, Rest, CommandReturns, CommandRaises, ShowEvent, Worker, DrainMail, Joined, Answers, Fails,
           Stopped, Ends, Steer, MailArrives, Checkpoint, Known
    <2> QED BY <2>1, <2>2, <1>1 DEF Places
  <1> QED BY <1>2, <1>3, <1>4, <1>5, <1>6, <1>7, <1>8, <1>9 DEF Next, User, Poll, Environment

-----------------------------------------------------------------------------
(* The theorems.                                                             *)

LEMMA InitTerminalInv == Init => TerminalInv
  <1> SUFFICES ASSUME Init PROVE TerminalInv
    OBVIOUS
  <1> USE DEF Init
  <1>1. /\ Known = {Home} /\ saved[Home] = Empty /\ saved \in [{Home} -> Conversation]
        /\ Waiting = {} /\ Taken = {} /\ Held = {} /\ \A m \in Msgs : owner[m] = None
    BY EmptyType, EmptyQueue DEF Known, Waiting, Taken, Held, NoTurn
  <1>2. Disk(saved, owner)
    BY <1>1, Names, EmptyType, EmptyQueue DEF Disk, Known
  <1>3. Flags /\ Texts /\ Places
    <2>1. Flags
      <3>1. turns \in 0..MailTurns /\ mail \subseteq Sessions
        BY Names
      <3>2. jobs \in [Jobs -> {"pending", "running", "done", "failed", "interrupted"}]
        OBVIOUS
      <3> QED BY <3>1, <3>2 DEF Flags
    <2>2. queue \in Seq(Msgs) /\ Len(queue) <= QueueLimit /\ turn \in Turn
      BY Names, EmptyQueue, SomeTurns
    <2>3. Texts
      BY <2>2 DEF Texts
    <2>4. Places
      BY Names DEF Places
    <2> QED BY <2>1, <2>3, <2>4
  <1>4. Typed
    BY <1>2, <1>3, TypedParts
  <1>5. IsSuffix(queue, saved[cur].queue)
    BY <1>1, EmptyQueue, EmptyType, SuffixOfItself
  <1>6. Live
    BY <1>1, <1>5, EmptyQueue, EmptyType DEF Live, NoTurn
  <1>7. TurnKept /\ TimersSettle /\ NothingLost
    BY <1>1 DEF TurnKept, TimersSettle, NothingLost, NoTurn, None
  <1> QED BY <1>2, <1>4, <1>6, <1>7 DEF TerminalInv, Memory

LEMMA StepTerminalInv == TerminalInv /\ [Next]_vars => TerminalInv'
  <1> SUFFICES ASSUME TerminalInv, [Next]_vars PROVE TerminalInv'
    OBVIOUS
  <1>1. Messages'
    BY StepMessages
  <1>2. TurnsAndTimers'
    BY StepTurns DEF TerminalInv, TurnsAndTimers
  <1>3. Flags /\ Texts /\ Places
    BY TypedParts DEF TerminalInv
  <1>4. Flags' /\ Texts' /\ Places'
    <2>1. CASE Next
      <3>1. Flags'
        BY <2>1, <1>3, UserFlags, PollFlags, OtherFlags DEF Next
      <3>2. Texts'
        BY <2>1, UserTexts, OtherTexts DEF Next
      <3> QED BY <3>1, <3>2, <2>1, StepPlaces
    <2>2. CASE UNCHANGED vars
      BY <2>2, <1>3 DEF vars, editor, worker, loop, outside, Flags, Texts, Places, Known
    <2> QED BY <2>1, <2>2
  <1>5. Disk(saved, owner)'
    BY <1>1 DEF Messages
  <1>6. Typed'
    BY <1>4, <1>5, TypedParts, PTL
  <1> QED BY <1>1, <1>2, <1>6 DEF TerminalInv, Messages, TurnsAndTimers

(* The invariant holds of every behaviour of the terminal.                    *)
THEOREM TerminalInvariant == Spec => []TerminalInv
  BY InitTerminalInv, StepTerminalInv, PTL DEF Spec

\* No step lowers the stop of a turn that goes on.
LEMMA StepStopStays == [Next]_vars => (Running /\ stop /\ up' # "off" /\ Running' => stop')
  <1> SUFFICES ASSUME [Next]_vars, Running, stop, up' # "off", Running' PROVE stop'
    OBVIOUS
  <1>1. turn # NoTurn /\ turn' # NoTurn
    BY DEF Running, Pending
  <1>2. CASE User
    BY <1>1, <1>2 DEF User, Type, ClearDraft, CtrlC, ControlWord, Escape, EditQueue, SendMessage, ResumeQueue, ClearQueue,
           NewSession, ResumeSession, ThreadCommand, StopCommand, WorkerCommand, EnterTask, RequestTask, Exit, Pending,
           StopNow, worker
  <1>3. CASE Poll
    BY <1>1, <1>3 DEF Poll, Collect, Settle, NothingToSettle, SwitchAfterTurn, StartQueued, StartMail, StartTimer, Rest,
           Switching, Ready, Pending, worker
  <1>4. CASE CommandReturns \/ CommandRaises \/ ShowEvent \/ Worker \/ Close \/ Environment
    BY <1>1, <1>4 DEF CommandReturns, CommandRaises, ShowEvent, Worker, DrainMail, Joined, Answers, Fails, Stopped, Ends,
           Steer, Close, Environment, MailArrives, OtherOpens, OtherCloses, Crash, Launch, Forget, worker
  <1>5. CASE UNCHANGED vars
    BY <1>5 DEF vars, worker
  <1> QED BY <1>2, <1>3, <1>4, <1>5 DEF Next

LEMMA InvIsSafe ==
  TerminalInv => TypeOK /\ QueueIsOnDisk /\ StaysInSession /\ HandedOverOnce /\ NothingLost /\ TimersSettle
  <1> SUFFICES ASSUME TerminalInv
               PROVE  TypeOK /\ QueueIsOnDisk /\ StaysInSession /\ HandedOverOnce /\ NothingLost /\ TimersSettle
    OBVIOUS
  <1>1. /\ TypeOK /\ NothingLost /\ TimersSettle /\ Disk(saved, owner) /\ (up # "off" => Live)
        /\ queue \in Seq(Msgs) /\ turn.msgs \in Seq(Msgs)
    BY MemoryType DEF TerminalInv, Typed, Memory
  <1>2. QueueIsOnDisk
    BY <1>1 DEF QueueIsOnDisk, Live
  <1>3. StaysInSession
    BY <1>1 DEF StaysInSession, Live, Held, Taken, Disk, Stored, Known
  <1>4. HandedOverOnce
    <2>1. \A s \in Known : ToSet(saved[s].queue) \cap saved[s].rec = {}
      BY <1>1 DEF Disk, Known
    <2>2. ASSUME up = "on" PROVE Waiting \cap (ToSet(turn.msgs) \cup rec) = {} /\ IsInjective(queue \o turn.msgs)
      <3>1. Waiting \cap (Taken \cup rec) = {} /\ IsInjective(queue) /\ IsInjective(turn.msgs)
        BY <1>1, <2>2 DEF Live
      <3>2. ToSet(queue) \cap ToSet(turn.msgs) = {}
        BY <3>1 DEF Waiting, Taken
      <3> QED BY <3>1, <3>2, <1>1, Joining DEF Taken
    <2> QED BY <2>1, <2>2 DEF HandedOverOnce
  <1> QED BY <1>1, <1>2, <1>3, <1>4

(* What becomes of messages, timers and stops, for any number of messages,
   conversations, timers, terminals, commands and kills: what waits is on disk,
   a message stays in its conversation, is handed over once and is not lost, at
   most one timer is marked running, exactly while its turn is pending, and a
   stop holds until its turn has ended (Terminal.submit, poll, checkpoint and
   take_queued_steering; SessionStore.save and resume).                       *)
THEOREM TerminalIsSafe == Spec => MessagesAreSafe
  <1>1. Spec => [](TypeOK /\ QueueIsOnDisk /\ StaysInSession /\ HandedOverOnce /\ NothingLost /\ TimersSettle)
    BY TerminalInvariant, InvIsSafe, PTL
  <1>2. Spec => StopStays
    BY StepStopStays, PTL DEF Spec, StopStays
  <1> QED BY <1>1, <1>2 DEF MessagesAreSafe

=============================================================================
