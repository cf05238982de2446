----------------------- MODULE SessionsDashboard_proofs -----------------------
(***************************************************************************)
(* What the agent loop promises of its conversations, for any chats, any   *)
(* messages, tools, consolidations and crashes.  The section between two   *)
(* awaits belongs to one task, the consolidation lock to one task of a     *)
(* chat; so what a task counted under the lock is still so when it writes, *)
(* and what is written is what is cached.                                  *)
(* And what the store says of the traced turns is sound, for any turns,    *)
(* any number of iterations, any queue and any faults.  A run has one      *)
(* write at most, the one that its turn awaits, and the place of the turn  *)
(* bounds the places of what is stored.                                    *)
(***************************************************************************)
EXTENDS MC_SessionsDashboard, SequenceTheorems, FiniteSetTheorems, TLAPS

-----------------------------------------------------------------------------
(* Types. *)

Kind   == {"user", "system", "new", "stop", "status", "background", "subagent"}
Places == {"queued", "lock", "prepare", "wait", "archive", "checkpoint", "saved", "refresh", "model",
           "message", "spawn", "saveTurn", "close", "closeSilent", "clear", "cleared", "start",
           "running", "done"}
ATask  == [kind : Kind, chat : Chats, pc : Places, object : Nat, from : Nat, upto : Nat,
           tries : 0..MaxFailures, begun : {"yes", "no"}, stop : {"yes", "no"}, saved : {"yes", "no"},
           archived : Nat, spoke : {"yes", "no"}, by : Nat]
AnObject == [chat : Chats, entries : Seq(Nat), done : Nat]

TaskTypes ==
    /\ task \in Seq(ATask)
    /\ inbound \in Seq(Nat)
    /\ loop \in [pc : {"idle", "status", "stopTasks", "stopSubagents"}, msg : Nat]
    /\ lock \in [Chats -> Seq(Nat)]

StoreTypes ==
    /\ object \in Seq(AnObject)
    /\ cache \in [Chats -> 0..Len(object)]
    /\ disk \in [Chats -> Session]
    /\ tools \in [chat : Chats, sent : {"yes", "no"}]
    /\ ghost \in [overlap : SUBSET Chats, torn : SUBSET Chats]
    /\ used \in [messages : Nat, tools : Nat, crashes : Nat]

Types == TaskTypes /\ StoreTypes

-----------------------------------------------------------------------------
(* Where a task may be. *)

\* Under a consolidation lock; working on a session; between a save and its end;
\* after its turn is in the session.
Holding == {"archive", "checkpoint", "saved", "refresh", "clear", "cleared"}
Locked  == Holding \cup {"wait"}
Working == Holding \cup {"wait", "prepare", "model", "message", "spawn", "saveTurn", "close", "closeSilent", "start"}
Saving  == {"saved", "saveTurn", "cleared"}
Sync    == {"checkpoint", "saved", "saveTurn", "clear", "cleared"}
Settled == {"saveTurn", "close", "closeSilent", "done"}

PlacesOf(kind) ==
    CASE kind \in {"user", "system"} ->
           Places \ {"clear", "cleared", "start", "running"}
      [] kind = "new" -> {"queued", "lock", "wait", "archive", "clear", "cleared", "done"}
      [] kind = "background" -> {"start", "wait", "archive", "checkpoint", "saved", "refresh", "done"}
      [] kind = "subagent" -> {"running", "done"}
      [] OTHER -> {"queued", "done"}

\* What a task is at its place, whatever the sessions are.
PlaceOK(t) ==
    /\ t.pc \in PlacesOf(t.kind)
    /\ t.stop = "yes" => t.pc \notin Sync \cup {"queued", "done"}
    /\ t.pc = "done" => t.object = 0
    /\ t.pc \notin Settled => t.archived = 0 /\ t.saved = "no"
    /\ t.kind \notin {"user", "system"} => t.archived = 0 /\ t.saved = "no"

\* One synchronous section at a time; the message that the loop handles itself is not in
\* the queue any more, and those of the queue are waiting there, each once.
OneSection == \A i, k \in Tasks : InSync(i) /\ InSync(k) => i = k

QueueOK ==
    /\ \A n \in DOMAIN inbound :
          /\ inbound[n] \in Tasks /\ task[inbound[n]].pc = "queued"
          /\ \A m \in DOMAIN inbound : inbound[m] = inbound[n] => m = n
    /\ loop.pc # "idle" =>
          /\ loop.msg \in Tasks /\ task[loop.msg].pc = "queued"
          /\ task[loop.msg].kind = IF loop.pc = "status" THEN "status" ELSE "stop"
          /\ \A n \in DOMAIN inbound : inbound[n] # loop.msg

\* The tasks in the queue of a consolidation lock are at the lock or under it, and who is
\* under it is the first.
LockOK ==
    /\ \A c \in Chats : \A n \in DOMAIN lock[c] :
          /\ lock[c][n] \in Tasks /\ task[lock[c][n]].chat = c /\ task[lock[c][n]].pc \in Locked
          /\ \A m \in DOMAIN lock[c] : lock[c][m] = lock[c][n] => m = n
    /\ \A i \in Tasks : task[i].pc \in Holding => HoldsLock(i)

\* What /stop has popped is cancelled or over; no subagent that it looked for is left out.
StopOK ==
    LET chat == task[loop.msg].chat IN
    /\ \A i \in Tasks : task[i].kind = "subagent" => task[i].by \in Tasks
    /\ loop.pc = "stopTasks" => \A i \in ActiveTasks(chat) : task[i].stop = "yes"
    /\ loop.pc = "stopSubagents" =>
          /\ ActiveTasks(chat) = {}
          /\ \A i \in Subagents(chat) :
                task[i].stop = "yes" \/ (task[task[i].by].chat = chat => task[task[i].by].kind = "system")

Control == Types /\ (\A i \in Tasks : PlaceOK(task[i])) /\ OneSection /\ QueueOK /\ LockOK /\ StopOK

-----------------------------------------------------------------------------
(* What the sessions hold. *)

\* Entries of a session: turns of its chat that are over or nearly, each once.
EntriesOK(c, entries) ==
    \A n \in DOMAIN entries :
        /\ entries[n] \in Tasks /\ task[entries[n]].chat = c /\ task[entries[n]].pc \in Settled
        /\ task[entries[n]].kind \in {"user", "system"}
        /\ \A m \in DOMAIN entries : entries[m] = entries[n] => m = n

IsSaving(c) == \E i \in Tasks : task[i].chat = c /\ task[i].pc \in Saving

\* Entries that are not consolidated were not archived since the last crash ...
Fresh(s) == \A n \in s.done + 1 .. Len(s.entries) : task[s.entries[n]].archived <= used.crashes

\* ... but between the commit and the checkpoint.
Committing(o, n) ==
    \E i \in Tasks : task[i].object = o /\ (task[i].pc = "clear" \/ (task[i].pc = "checkpoint" /\ n <= task[i].upto))

ObjectOK(o) ==
    LET s == object[o] IN
    /\ EntriesOK(s.chat, s.entries)
    /\ s.chat \in ghost.torn \/ s.done <= Len(s.entries)
    /\ \A n \in s.done + 1 .. Len(s.entries) : task[s.entries[n]].archived <= used.crashes \/ Committing(o, n)

Disjoint(o, p) ==
    \A n \in DOMAIN object[o].entries, m \in DOMAIN object[p].entries : object[o].entries[n] # object[p].entries[m]

\* The file is what is cached; without that it is blank, or nobody has a session of the chat.
FileOK(c) ==
    /\ EntriesOK(c, disk[c].entries)
    /\ c \in ghost.torn \/ disk[c].done <= Len(disk[c].entries)
    /\ cache[c] # 0 => object[cache[c]].chat = c
    /\ ~ IsSaving(c) =>
          IF cache[c] # 0 THEN disk[c] = Contents(cache[c])
          ELSE disk[c] = Blank \/ (Fresh(disk[c]) /\ \A o \in DOMAIN object : object[o].chat # c)

Calm(c) == c \notin ghost.overlap \cup ghost.torn

\* What a task knows of its session.
WorkOK(i) ==
    LET t == task[i]
        o == object[t.object]
    IN  /\ t.object \in 0..Len(object)
        /\ t.pc \in Working => t.object # 0 /\ o.chat = t.chat
        /\ t.pc \in {"archive", "checkpoint"} =>
              t.from = o.done + 1 /\ t.from <= t.upto /\ t.upto <= Len(o.entries)
        /\ t.pc = "archive" /\ t.kind = "new" /\ t.chat \notin ghost.overlap => t.upto = Len(o.entries)
        /\ t.pc \in {"saved", "saveTurn"} => disk[t.chat] = Contents(t.object) /\ o.entries # <<>>
        /\ t.pc = "saveTurn" =>
              /\ o.entries[Len(o.entries)] = i
              /\ t.chat \in ghost.torn \/ o.done < Len(o.entries)
        /\ t.pc = "cleared" => disk[t.chat] = Blank /\ Contents(t.object) = Blank
        /\ Calm(t.chat) /\ i \in InTurn => t.object = cache[t.chat]
        /\ Calm(t.chat) /\ t.pc = "checkpoint" =>
              \A n \in t.from .. t.upto : task[o.entries[n]].archived > 0
        /\ Calm(t.chat) /\ t.pc = "clear" =>
              \A n \in o.done + 1 .. Len(o.entries) : task[o.entries[n]].archived > 0

\* A turn is alone in its chat, and a session that is not cached is empty.
CalmOK(c) ==
    /\ c \notin ghost.overlap =>
          \A i, k \in InTurn : task[i].chat = c /\ task[k].chat = c => i = k
    /\ Calm(c) => \A o \in DOMAIN object : object[o].chat = c /\ o # cache[c] => object[o].entries = <<>>

\* In the file, not consolidated.
InFile(i) ==
    LET s == disk[task[i].chat] IN \E n \in s.done + 1 .. Len(s.entries) : s.entries[n] = i

KeptOK(i) ==
    /\ task[i].archived <= 1 + used.crashes
    /\ task[i].saved = "yes" /\ Calm(task[i].chat) => InFile(i) \/ task[i].archived > 0

Sessions ==
    /\ \A o \in DOMAIN object : ObjectOK(o)
    /\ \A o, p \in DOMAIN object : o # p => Disjoint(o, p)
    /\ \A c \in Chats : FileOK(c) /\ CalmOK(c)
    /\ \A i \in Tasks : WorkOK(i) /\ KeptOK(i)

SInv == Control /\ Sessions

-----------------------------------------------------------------------------
(* Sequences, and the tasks. *)

\* A function on 1..n is a sequence of length n.
LEMMA IsSequence ==
    ASSUME NEW S, NEW n \in Nat, NEW f \in [1..n -> S]
    PROVE  f \in Seq(S) /\ Len(f) = n /\ DOMAIN f = 1..n
  OBVIOUS

\* The head of a sequence.
LEMMA HeadIs ==
    ASSUME NEW S, NEW s \in Seq(S), Len(s) > 0
    PROVE  s # <<>> /\ Head(s) = s[1]
<1>1. Len(s) \in Nat
  OBVIOUS
<1>2. s # <<>>
  <2>1. Len(<<>>) = 0
    OBVIOUS
  <2> QED BY <1>1, <2>1
<1> QED BY <1>2

\* A sequence without its n-th element.
LEMMA Removed ==
    ASSUME NEW s \in Seq(Nat), NEW n \in 1..Len(s)
    PROVE  /\ RemoveAt(s, n) \in Seq(Nat) /\ Len(RemoveAt(s, n)) = Len(s) - 1
           /\ \A m \in 1..Len(s) - 1 : RemoveAt(s, n)[m] = IF m < n THEN s[m] ELSE s[m + 1]
<1> DEFINE a == SubSeq(s, 1, n - 1)
           b == SubSeq(s, n + 1, Len(s))
<1>1. a \in Seq(Nat) /\ Len(a) = n - 1 /\ \A m \in 1..n - 1 : a[m] = s[m]
  <2>1. \A m \in 1 .. n - 1 : s[m] \in Nat
    OBVIOUS
  <2> QED BY <2>1, SubSeqProperties
<1>2. b \in Seq(Nat) /\ Len(b) = Len(s) - n /\ \A m \in 1..Len(s) - n : b[m] = s[n + m]
  <2>1. \A m \in n + 1 .. Len(s) : s[m] \in Nat
    OBVIOUS
  <2>2. /\ b \in Seq(Nat) /\ Len(b) = IF n + 1 <= Len(s) THEN Len(s) - (n + 1) + 1 ELSE 0
        /\ \A m \in 1 .. Len(s) - (n + 1) + 1 : b[m] = s[n + 1 + m - 1]
    BY <2>1, SubSeqProperties
  <2> HIDE DEF b
  <2>3. Len(b) = Len(s) - n
    BY <2>2
  <2>4. \A m \in 1..Len(s) - n : b[m] = s[n + m]
    <3> TAKE m \in 1..Len(s) - n
    <3>1. m \in 1 .. Len(s) - (n + 1) + 1 /\ n + 1 + m - 1 = n + m
      OBVIOUS
    <3> QED BY <2>2, <3>1
  <2> QED BY <2>2, <2>3, <2>4
<1>3. RemoveAt(s, n) = a \o b
  BY DEF RemoveAt
<1> HIDE DEF a, b
<1>4. /\ a \o b \in Seq(Nat) /\ Len(a \o b) = Len(s) - 1
      /\ \A m \in 1..Len(s) - 1 : (a \o b)[m] = IF m < n THEN s[m] ELSE s[m + 1]
  <2>1. /\ a \o b \in Seq(Nat) /\ Len(a \o b) = Len(a) + Len(b)
        /\ \A m \in 1..Len(a) + Len(b) : (a \o b)[m] = IF m <= Len(a) THEN a[m] ELSE b[m - Len(a)]
    BY <1>1, <1>2, ConcatProperties
  <2>2. Len(a \o b) = Len(s) - 1
    BY <1>1, <1>2, <2>1
  <2>3. ASSUME NEW m \in 1..Len(s) - 1 PROVE (a \o b)[m] = IF m < n THEN s[m] ELSE s[m + 1]
    <3>1. (a \o b)[m] = IF m <= n - 1 THEN a[m] ELSE b[m - (n - 1)]
      BY SMTT(30), <1>1, <1>2, <2>1
    <3>2. CASE m < n
      BY <1>1, <3>1, <3>2
    <3>3. CASE m >= n
      <4>1. m - (n - 1) \in 1..Len(s) - n /\ n + (m - (n - 1)) = m + 1 /\ ~ (m <= n - 1) /\ ~ (m < n)
        BY <3>3
      <4>2. (a \o b)[m] = s[m + 1]
        BY <1>2, <3>1, <4>1
      <4> QED BY <4>1, <4>2
    <3>4. m < n \/ m >= n
      <4>1. n \in Int /\ m \in Int
        OBVIOUS
      <4> QED BY <4>1
    <3> QED BY <3>2, <3>3, <3>4
  <2> QED BY <2>1, <2>2, <2>3
<1> QED BY <1>3, <1>4

\* What is kept of the tasks.
LEMMA TasksAre ==
    ASSUME Types
    PROVE  /\ task \in [1..Len(task) -> ATask] /\ Len(task) \in Nat /\ Tasks = 1..Len(task)
           /\ DOMAIN task = Tasks /\ \A i \in Tasks : task[i] \in ATask
  BY DEF Types, TaskTypes, Tasks

\* One task changes.
LEMMA PutIs ==
    ASSUME Types, NEW i \in Tasks, NEW t \in ATask, task' = [task EXCEPT ![i] = t]
    PROVE  /\ task' \in Seq(ATask) /\ Tasks' = Tasks
           /\ task'[i] = t /\ \A k \in Tasks \ {i} : task'[k] = task[k]
<1>1. task' \in [1..Len(task) -> ATask]
  BY TasksAre
<1>2. task' \in Seq(ATask) /\ Len(task') = Len(task)
  BY <1>1, TasksAre, IsSequence
<1> QED BY <1>2, TasksAre DEF Tasks

\* A task is added.
LEMMA AppendIs ==
    ASSUME Types, NEW t \in ATask, task' = Append(task, t)
    PROVE  /\ task' \in Seq(ATask) /\ Tasks' = Tasks \cup {Len(task) + 1} /\ Len(task) + 1 \notin Tasks
           /\ task'[Len(task) + 1] = t /\ \A k \in Tasks : task'[k] = task[k]
<1>1. /\ task' \in Seq(ATask) /\ Len(task') = Len(task) + 1
      /\ \A k \in 1..Len(task) : task'[k] = task[k]
      /\ task'[Len(task) + 1] = t
  BY AppendProperties DEF Types, TaskTypes
<1> QED BY <1>1, TasksAre DEF Tasks

\* One task changes, and another is added.
LEMMA PutAppendIs ==
    ASSUME Types, NEW i \in Tasks, NEW t \in ATask, NEW u \in ATask, task' = Append([task EXCEPT ![i] = t], u)
    PROVE  /\ task' \in Seq(ATask) /\ Tasks' = Tasks \cup {Len(task) + 1} /\ Len(task) + 1 \notin Tasks
           /\ task'[Len(task) + 1] = u /\ task'[i] = t /\ \A k \in Tasks \ {i} : task'[k] = task[k]
<1> DEFINE s == [task EXCEPT ![i] = t]
<1>1. s \in [1..Len(task) -> ATask]
  BY TasksAre
<1>2. s \in Seq(ATask) /\ Len(s) = Len(task)
  BY <1>1, TasksAre, IsSequence
<1>3. s[i] = t /\ \A k \in Tasks \ {i} : s[k] = task[k]
  BY TasksAre
<1> HIDE DEF s
<1>4. /\ task' \in Seq(ATask) /\ Len(task') = Len(s) + 1
      /\ \A k \in 1..Len(s) : task'[k] = s[k]
      /\ task'[Len(s) + 1] = u
  BY <1>2, AppendProperties DEF s
<1> QED BY <1>2, <1>3, <1>4, TasksAre DEF Tasks

\* A task that is over.
LEMMA OverIs ==
    ASSUME Types, NEW i \in Tasks, PlaceOK(task[i])
    PROVE  /\ Over(i) \in ATask /\ PlaceOK(Over(i)) /\ Over(i).pc = "done" /\ Over(i).stop = "no" /\ Over(i).object = 0
           /\ Over(i).kind = task[i].kind /\ Over(i).chat = task[i].chat /\ Over(i).by = task[i].by
           /\ Over(i).archived = task[i].archived /\ Over(i).saved = task[i].saved
<1>1. task[i] \in ATask
  BY TasksAre
<1>2. MaxFailures \in Nat
  BY AgentAssumption
<1>3. /\ Over(i) \in ATask /\ Over(i).pc = "done" /\ Over(i).stop = "no" /\ Over(i).object = 0
      /\ Over(i).kind = task[i].kind /\ Over(i).chat = task[i].chat /\ Over(i).by = task[i].by
      /\ Over(i).archived = task[i].archived /\ Over(i).saved = task[i].saved
  <2>1. 0 \in 0..MaxFailures
    BY <1>2
  <2>2. /\ Over(i).pc = "done" /\ Over(i).stop = "no" /\ Over(i).object = 0
        /\ Over(i).kind = task[i].kind /\ Over(i).chat = task[i].chat /\ Over(i).by = task[i].by
        /\ Over(i).archived = task[i].archived /\ Over(i).saved = task[i].saved
    BY <1>1 DEF Over, ATask
  <2>3. Over(i) \in ATask
    BY <1>1, <2>1 DEF Over, ATask, Places
  <2> QED BY <2>2, <2>3
<1>4. "done" \in PlacesOf(task[i].kind)
  BY <1>1 DEF PlacesOf, ATask, Kind, Places
<1> QED BY <1>3, <1>4 DEF PlaceOK, Settled

-----------------------------------------------------------------------------
(* The consolidation locks. *)

\* The part of LockOK about one lock.
LEMMA LockIs ==
    ASSUME Types, LockOK, NEW c \in Chats
    PROVE  /\ lock[c] \in Seq(Nat) /\ DOMAIN lock[c] = 1..Len(lock[c]) /\ Len(lock[c]) \in Nat
           /\ \A n \in 1..Len(lock[c]) :
                 /\ lock[c][n] \in Tasks /\ task[lock[c][n]].chat = c /\ task[lock[c][n]].pc \in Locked
                 /\ \A m \in 1..Len(lock[c]) : lock[c][m] = lock[c][n] => m = n
<1>1. lock[c] \in Seq(Nat)
  BY DEF Types, TaskTypes
<1> QED BY <1>1 DEF LockOK

\* A task that leaves the lock: the others stay, and the first stays first.
LEMMA Released ==
    ASSUME Types, LockOK, NEW i \in Tasks, Release(i)
    PROVE  /\ lock' \in [Chats -> Seq(Nat)]
           /\ \A c \in Chats : \A n \in 1..Len(lock'[c]) :
                 /\ lock'[c][n] # i
                 /\ \E m \in 1..Len(lock[c]) : lock'[c][n] = lock[c][m]
                 /\ \A k \in 1..Len(lock'[c]) : lock'[c][k] = lock'[c][n] => k = n
           /\ \A c \in Chats : lock[c] # <<>> /\ Head(lock[c]) # i =>
                 lock'[c] # <<>> /\ Head(lock'[c]) = Head(lock[c])
<1> DEFINE d == task[i].chat
           queue == lock[d]
           place == CHOOSE n \in DOMAIN queue : queue[n] = i
<1>0. d \in Chats /\ lock \in [Chats -> Seq(Nat)]
  BY TasksAre DEF ATask, Types, TaskTypes
<1>1. \A c \in Chats : lock[c] \in Seq(Nat)
  BY <1>0
<1>2. \A c \in Chats : \A n \in 1..Len(lock[c]) :
         /\ task[lock[c][n]].chat = c
         /\ \A m \in 1..Len(lock[c]) : lock[c][m] = lock[c][n] => m = n
  BY LockIs
<1>3. CASE i \notin ToSet(queue)
  <2>1. lock' = lock
    BY <1>3 DEF Release
  <2>2. \A n \in 1..Len(queue) : queue[n] # i
    BY <1>0, <1>1, <1>3 DEF ToSet
  <2>3. \A c \in Chats : \A n \in 1..Len(lock[c]) : lock[c][n] # i
    BY <1>2, <2>2
  <2> QED BY <1>0, <1>2, <2>1, <2>3
<1>4. CASE i \in ToSet(queue)
  <2> DEFINE r == RemoveAt(queue, place)
  <2>1. place \in 1..Len(queue) /\ queue[place] = i
    BY <1>0, <1>1, <1>4 DEF ToSet
  <2>2. lock' = [lock EXCEPT ![d] = r]
    BY <1>4 DEF Release
  <2> HIDE DEF place
  <2>3. queue \in Seq(Nat)
    BY <1>0
  <2>4. /\ r \in Seq(Nat) /\ Len(r) = Len(queue) - 1
        /\ \A m \in 1..Len(queue) - 1 : r[m] = IF m < place THEN queue[m] ELSE queue[m + 1]
    BY <2>1, <2>3, Removed
  <2>5. \A n, m \in 1..Len(queue) : queue[m] = queue[n] => m = n
    BY <1>0, <1>2
  <2> HIDE DEF r, queue
  <2>6. \A n \in 1..Len(r) : \E m \in 1..Len(queue) : m # place /\ r[n] = queue[m]
    <3> TAKE n \in 1..Len(r)
    <3>1. CASE n < place BY <2>1, <2>3, <2>4, <3>1
    <3>2. CASE n >= place
      <4>1. PICK l \in Nat, p \in Nat : l = Len(queue) /\ p = place /\ p >= 1
        BY <2>1, <2>3
      <4>2. n \in 1 .. l - 1 /\ n >= p
        BY <2>4, <3>2, <4>1
      <4>3. n + 1 \in 1..l /\ n + 1 # p /\ ~ (n < p)
        BY <4>1, <4>2
      <4>4. r[n] = queue[n + 1]
        BY <2>4, <4>1, <4>2, <4>3
      <4> QED BY <4>1, <4>3, <4>4
    <3> QED BY <2>1, <2>3, <2>4, <3>1, <3>2
  <2>7. \A n \in 1..Len(r) : r[n] # i
    BY <2>1, <2>5, <2>6
  <2>8. \A n, k \in 1..Len(r) : r[k] = r[n] => k = n
    <3> SUFFICES ASSUME NEW n \in 1..Len(r), NEW k \in 1..Len(r), r[k] = r[n], k # n PROVE FALSE
      OBVIOUS
    <3>1. /\ k \in 1..Len(queue) - 1 /\ n \in 1..Len(queue) - 1
          /\ k \in 1..Len(queue) /\ n \in 1..Len(queue) /\ k + 1 \in 1..Len(queue) /\ n + 1 \in 1..Len(queue)
      BY SMTT(30), <2>3, <2>4
    <3>2. CASE n < place /\ k < place
      <4>1. r[n] = queue[n] /\ r[k] = queue[k] /\ k # n BY <2>1, <2>3, <2>4, <3>1, <3>2
      <4> QED BY <2>5, <3>1, <4>1
    <3>3. CASE n >= place /\ k >= place
      <4>0. ~ (n < place) /\ ~ (k < place) /\ k + 1 # n + 1 BY <2>1, <2>3, <3>1, <3>3
      <4>1. r[n] = queue[n + 1] /\ r[k] = queue[k + 1] /\ k + 1 # n + 1 BY <2>4, <3>1, <4>0
      <4> QED BY <2>5, <3>1, <4>1
    <3>4. CASE k < place /\ n >= place
      <4>1. r[n] = queue[n + 1] /\ r[k] = queue[k] /\ k # n + 1 BY <2>1, <2>3, <2>4, <3>1, <3>4
      <4> QED BY <2>5, <3>1, <4>1
    <3>5. CASE n < place /\ k >= place
      <4>1. r[n] = queue[n] /\ r[k] = queue[k + 1] /\ n # k + 1 BY <2>1, <2>3, <2>4, <3>1, <3>5
      <4> QED BY <2>5, <3>1, <4>1
    <3> QED BY <2>1, <2>3, <3>1, <3>2, <3>3, <3>4, <3>5
  <2>9. queue # <<>> /\ Head(queue) # i => r # <<>> /\ Head(r) = Head(queue)
    <3> SUFFICES ASSUME queue # <<>>, Head(queue) # i PROVE r # <<>> /\ Head(r) = Head(queue)
      OBVIOUS
    <3>1. Head(queue) = queue[1] /\ place # 1
      BY <2>1, <2>3
    <3>2. 1 < place /\ 1 \in 1..Len(queue) - 1
      BY <2>1, <2>3, <3>1
    <3>3. r[1] = queue[1]
      BY <2>4, <3>2
    <3> QED BY <2>3, <2>4, <3>1, <3>2, <3>3
  <2>10. \A c \in Chats : lock'[c] = IF c = d THEN r ELSE lock[c]
    BY <1>0, <2>2
  <2>11. lock' \in [Chats -> Seq(Nat)]
    BY <1>0, <2>2, <2>4
  <2>12. \A c \in Chats : c # d => \A n \in 1..Len(lock[c]) : lock[c][n] # i
    BY <1>2
  <2>13. queue = lock[d] BY DEF queue
  <2>14. ASSUME NEW c \in Chats
         PROVE  /\ \A n \in 1..Len(lock'[c]) :
                      /\ lock'[c][n] # i
                      /\ \E m \in 1..Len(lock[c]) : lock'[c][n] = lock[c][m]
                      /\ \A k \in 1..Len(lock'[c]) : lock'[c][k] = lock'[c][n] => k = n
                /\ lock[c] # <<>> /\ Head(lock[c]) # i => lock'[c] # <<>> /\ Head(lock'[c]) = Head(lock[c])
    <3>1. CASE c = d
      BY <2>6, <2>7, <2>8, <2>9, <2>10, <2>13, <3>1
    <3>2. CASE c # d
      BY <1>2, <2>10, <2>12, <3>2
    <3> QED BY <3>1, <3>2
  <2> QED BY <2>11, <2>14
<1> QED BY <1>3, <1>4

-----------------------------------------------------------------------------
(* Control: a step of one task. *)

\* Task i takes a step, or nobody does, and the tasks in new begin.
Moves(i, new) ==
    /\ task' \in Seq(ATask) /\ Tasks' = Tasks \cup new /\ new \cap Tasks = {}
    /\ \A k \in Tasks \ {i} : task'[k] = task[k]
    /\ i \in Tasks =>
          /\ task[i].pc \notin {"queued", "done"} /\ task'[i].pc # "queued" /\ PlaceOK(task'[i])
          /\ task'[i].kind = task[i].kind /\ task'[i].chat = task[i].chat /\ task'[i].by = task[i].by
          /\ task'[i].stop = task[i].stop \/ task'[i].pc = "done"
          /\ \A k \in Tasks \ {i} : ~ InSync(k)
    /\ \A k \in new :
          /\ PlaceOK(task'[k]) /\ task'[k].pc \in {"queued", "start", "running"}
          /\ task'[k].kind = "subagent" =>
                /\ task'[k].by \in Tasks
                /\ loop.pc = "stopSubagents" /\ task[task'[k].by].chat = task[loop.msg].chat =>
                      task[task'[k].by].kind = "system"
    /\ \/ inbound' = inbound
       \/ \E k \in new : task'[k].pc = "queued" /\ inbound' = Append(inbound, k)
    /\ loop' = loop

\* What becomes of the lock that task i has to do with.
LockMoves(i) ==
    \/ /\ lock' = lock
       /\ i \in Tasks => /\ task'[i].pc \in Holding => HoldsLock(i)
                         /\ task[i].pc \in Locked => task'[i].pc \in Locked
    \/ i \in Tasks /\ Release(i) /\ task'[i].pc \notin Locked
    \/ i \in Tasks /\ Enqueue(i) /\ task'[i].pc = "wait" /\ task[i].pc \notin Locked

\* The queue and what the loop handles stay as they are, with the message that is added.
LEMMA MoveQueue ==
    ASSUME Control, NEW i, NEW new, Moves(i, new)
    PROVE  inbound' \in Seq(Nat) /\ QueueOK'
<1>1. inbound \in Seq(Nat) /\ Tasks \subseteq Nat
  BY TasksAre DEF Control, Types, TaskTypes
<1>2. \A k \in Tasks : task[k].pc = "queued" => task'[k] = task[k]
  BY DEF Moves
<1>3. loop' = loop /\ (loop.pc # "idle" => loop.msg \in Tasks /\ task'[loop.msg] = task[loop.msg])
  BY <1>2 DEF Moves, Control, QueueOK
<1>4. Tasks \subseteq Tasks'
  BY DEF Moves
<1>5. CASE inbound' = inbound
  <2>1. \A n \in DOMAIN inbound : task'[inbound[n]] = task[inbound[n]]
    BY <1>2 DEF Control, QueueOK
  <2> QED BY <1>1, <1>3, <1>4, <1>5, <2>1 DEF Control, QueueOK
<1>6. ASSUME NEW k \in new, task'[k].pc = "queued", inbound' = Append(inbound, k)
      PROVE  inbound' \in Seq(Nat) /\ QueueOK'
  <2>1. k \in Nat /\ k \notin Tasks /\ k \in Tasks'
    <3>1. Tasks' = 1..Len(task') /\ Len(task') \in Nat
      BY DEF Tasks, Moves
    <3> QED BY <3>1 DEF Moves
  <2>2. /\ inbound' \in Seq(Nat) /\ Len(inbound') = Len(inbound) + 1
        /\ \A n \in 1..Len(inbound) : inbound'[n] = inbound[n]
        /\ inbound'[Len(inbound) + 1] = k
    BY <1>1, <1>6, <2>1, AppendProperties
  <2>3. DOMAIN inbound = 1..Len(inbound) /\ Len(inbound) \in Nat /\ DOMAIN inbound' = 1..Len(inbound) + 1
    BY <1>1, <2>2
  <2>4. ASSUME NEW n \in 1..Len(inbound)
        PROVE  /\ inbound'[n] \in Tasks /\ task'[inbound'[n]].pc = "queued"
               /\ \A m \in 1..Len(inbound) : inbound'[m] = inbound'[n] => m = n
               /\ loop.pc # "idle" => inbound'[n] # loop.msg
    BY <1>2, <2>2, <2>3 DEF Control, QueueOK
  <2>5. \A n \in 1..Len(inbound) + 1 : n \in 1..Len(inbound) \/ n = Len(inbound) + 1
    BY <2>3
  <2>6. \A n \in 1..Len(inbound) + 1 :
           /\ inbound'[n] \in Tasks' /\ task'[inbound'[n]].pc = "queued"
           /\ \A m \in 1..Len(inbound) + 1 : inbound'[m] = inbound'[n] => m = n
           /\ loop.pc # "idle" => inbound'[n] # loop.msg
    <3>1. \A m \in 1..Len(inbound) : inbound'[m] # k
      BY <2>1, <2>4
    <3> TAKE n \in 1..Len(inbound) + 1
    <3>2. CASE n \in 1..Len(inbound)
      <4>1. inbound'[n] \in Tasks' /\ task'[inbound'[n]].pc = "queued" /\ (loop.pc # "idle" => inbound'[n] # loop.msg)
        BY <1>4, <2>4, <3>2
      <4>2. \A m \in 1..Len(inbound) + 1 : inbound'[m] = inbound'[n] => m = n
        BY <2>2, <2>4, <2>5, <3>1, <3>2
      <4> QED BY <4>1, <4>2
    <3>3. CASE n = Len(inbound) + 1
      <4>1. inbound'[n] = k
        BY <2>2, <3>3
      <4>2. loop.pc # "idle" => k # loop.msg
        BY <1>3, <2>1
      <4>3. \A m \in 1..Len(inbound) + 1 : inbound'[m] = k => m = n
        BY <2>5, <3>1, <3>3
      <4> QED BY <1>6, <2>1, <4>1, <4>2, <4>3
    <3> QED BY <2>5, <3>2, <3>3
  <2>7. loop.pc # "idle" => task[loop.msg].pc = "queued" /\ task[loop.msg].kind = IF loop.pc = "status" THEN "status" ELSE "stop"
    BY DEF Control, QueueOK
  <2> QED BY <1>3, <1>4, <2>2, <2>3, <2>6, <2>7 DEF QueueOK
<1> QED BY <1>5, <1>6 DEF Moves

\* The queues of the locks hold who waits or is under the lock, in that order.
LEMMA MoveLock ==
    ASSUME Control, NEW i, NEW new, Moves(i, new), LockMoves(i)
    PROVE  lock' \in [Chats -> Seq(Nat)] /\ LockOK'
<1>1. lock \in [Chats -> Seq(Nat)] /\ Types /\ LockOK
  BY DEF Control, Types, TaskTypes
<1>2. /\ \A k \in Tasks \ {i} : task'[k] = task[k]
      /\ Tasks \subseteq Tasks' /\ \A k \in Tasks' : k \in Tasks \/ task'[k].pc \notin Locked
      /\ \A k \in Tasks : task'[k].chat = task[k].chat /\ task[k].chat \in Chats
  <2>1. \A k \in Tasks : task[k].chat \in Chats
    BY <1>1, TasksAre DEF ATask
  <2> QED BY <2>1 DEF Moves, Locked, Holding
<1>3. CASE lock' = lock /\ (i \in Tasks => /\ task'[i].pc \in Holding => HoldsLock(i)
                                           /\ task[i].pc \in Locked => task'[i].pc \in Locked)
  <2>1. ASSUME NEW k \in Tasks', task'[k].pc \in Holding PROVE HoldsLock(k)'
    <3>1. k \in Tasks /\ HoldsLock(k)
      BY <1>1, <1>2, <1>3, <2>1 DEF LockOK, Locked
    <3> QED BY <1>2, <1>3, <3>1 DEF HoldsLock
  <2>2. ASSUME NEW c \in Chats, NEW n \in DOMAIN lock[c]
        PROVE  task'[lock[c][n]].pc \in Locked /\ task'[lock[c][n]].chat = c
    BY <1>1, <1>2, <1>3 DEF LockOK
  <2> QED BY <1>1, <1>2, <1>3, <2>1, <2>2 DEF LockOK
<1>4. CASE i \in Tasks /\ Release(i) /\ task'[i].pc \notin Locked
  <2>1. /\ lock' \in [Chats -> Seq(Nat)]
        /\ \A c \in Chats : \A n \in 1..Len(lock'[c]) :
              /\ lock'[c][n] # i
              /\ \E m \in 1..Len(lock[c]) : lock'[c][n] = lock[c][m]
              /\ \A k \in 1..Len(lock'[c]) : lock'[c][k] = lock'[c][n] => k = n
        /\ \A c \in Chats : lock[c] # <<>> /\ Head(lock[c]) # i =>
              lock'[c] # <<>> /\ Head(lock'[c]) = Head(lock[c])
    BY <1>1, <1>4, Released
  <2>2. \A c \in Chats : DOMAIN lock'[c] = 1..Len(lock'[c])
    BY <2>1
  <2>3. ASSUME NEW c \in Chats, NEW n \in 1..Len(lock'[c])
        PROVE  /\ lock'[c][n] \in Tasks' /\ task'[lock'[c][n]].chat = c /\ task'[lock'[c][n]].pc \in Locked
    <3>1. PICK m \in 1..Len(lock[c]) : lock'[c][n] = lock[c][m]
      BY <2>1
    <3>2. lock[c][m] \in Tasks /\ task[lock[c][m]].chat = c /\ task[lock[c][m]].pc \in Locked
      BY <1>1, LockIs
    <3> QED BY <1>2, <2>1, <3>1, <3>2
  <2>4. ASSUME NEW k \in Tasks', task'[k].pc \in Holding PROVE HoldsLock(k)'
    <3>1. k \in Tasks \ {i} /\ HoldsLock(k)
      BY <1>1, <1>2, <1>4, <2>4 DEF LockOK, Locked
    <3> QED BY <1>2, <2>1, <3>1 DEF HoldsLock
  <2> QED BY <2>1, <2>2, <2>3, <2>4 DEF LockOK
<1>5. CASE i \in Tasks /\ Enqueue(i) /\ task'[i].pc = "wait" /\ task[i].pc \notin Locked
  <2> DEFINE d == task[i].chat
             q == lock[d]
  <2>1. d \in Chats /\ i \in Nat /\ q \in Seq(Nat) /\ lock' = [lock EXCEPT ![d] = Append(q, i)]
    BY <1>1, <1>2, <1>5, TasksAre DEF Enqueue
  <2>2. /\ Append(q, i) \in Seq(Nat) /\ Len(Append(q, i)) = Len(q) + 1 /\ Append(q, i)[Len(q) + 1] = i
        /\ \A n \in 1..Len(q) : Append(q, i)[n] = q[n]
    BY <2>1, AppendProperties
  <2>3. \A c \in Chats : lock'[c] = IF c = d THEN Append(q, i) ELSE lock[c]
    BY <1>1, <2>1
  <2>4. lock' \in [Chats -> Seq(Nat)]
    BY <1>1, <2>1, <2>2
  <2>5. \A c \in Chats : \A n \in 1..Len(lock[c]) :
           /\ lock[c][n] \in Tasks /\ lock[c][n] # i /\ task[lock[c][n]].chat = c /\ task[lock[c][n]].pc \in Locked
           /\ \A m \in 1..Len(lock[c]) : lock[c][m] = lock[c][n] => m = n
    BY <1>1, <1>5, LockIs
  <2>6. Len(q) \in Nat /\ (q # <<>> => Head(Append(q, i)) = Head(q) /\ Append(q, i) # <<>>)
    <3>1. Len(q) \in Nat /\ (q # <<>> => 1 \in 1..Len(q) /\ Head(q) = q[1])
      BY <2>1
    <3>2. Append(q, i) # <<>> /\ Head(Append(q, i)) = Append(q, i)[1]
      BY <2>2, <3>1, HeadIs
    <3> QED BY <2>2, <3>1, <3>2
  <2> HIDE DEF d, q
  <2>7. \A n \in 1..Len(q) + 1 : n \in 1..Len(q) \/ n = Len(q) + 1
    BY <2>6
  <2>8. q = lock[d]
    BY DEF q
  <2>9. ASSUME NEW c \in Chats, NEW n \in 1..Len(lock'[c])
        PROVE  /\ lock'[c][n] \in Tasks' /\ task'[lock'[c][n]].chat = c /\ task'[lock'[c][n]].pc \in Locked
               /\ \A m \in 1..Len(lock'[c]) : lock'[c][m] = lock'[c][n] => m = n
    <3>1. CASE c # d
      BY <1>2, <2>3, <2>5, <3>1
    <3>2. CASE c = d
      <4>1. lock'[c] = Append(q, i) /\ Len(lock'[c]) = Len(q) + 1
        BY <2>2, <2>3, <3>2
      <4>2. CASE n \in 1..Len(q)
        <5>1. lock'[c][n] = q[n] /\ q[n] \in Tasks /\ q[n] # i /\ task[q[n]].chat = c /\ task[q[n]].pc \in Locked
          BY <2>2, <2>5, <2>8, <3>2, <4>1, <4>2
        <5>2. \A m \in 1..Len(q) : lock'[c][m] = q[n] => m = n
          BY <2>2, <2>5, <2>8, <3>2, <4>1, <4>2
        <5>3. lock'[c][Len(q) + 1] = i
          BY <2>2, <4>1
        <5> QED BY <1>2, <2>7, <4>1, <5>1, <5>2, <5>3
      <4>3. CASE n = Len(q) + 1
        <5>1. task'[i].chat = d /\ i \in Tasks'
          BY <1>2, <1>5 DEF d
        <5>2. "wait" \in Locked
          BY DEF Locked
        <5>3. lock'[c][n] = i
          BY <2>2, <4>1, <4>3
        <5>4. \A m \in 1..Len(q) : lock'[c][m] # i
          BY <2>2, <2>5, <2>8, <3>2, <4>1
        <5>5. \A m \in 1..Len(lock'[c]) : lock'[c][m] = i => m = n
          BY <2>7, <4>1, <4>3, <5>4
        <5> QED BY <1>5, <3>2, <5>1, <5>2, <5>3, <5>5
      <4> QED BY <2>7, <4>1, <4>2, <4>3
    <3> QED BY <3>1, <3>2
  <2>10. ASSUME NEW k \in Tasks', task'[k].pc \in Holding PROVE HoldsLock(k)'
    <3>1. k \in Tasks \ {i} /\ HoldsLock(k)
      BY <1>1, <1>2, <1>5, <2>10 DEF LockOK, Locked, Holding
    <3> QED BY <1>2, <2>3, <2>6, <2>8, <3>1 DEF HoldsLock
  <2>11. \A c \in Chats : DOMAIN lock'[c] = 1..Len(lock'[c])
    BY <2>4
  <2> QED BY <2>4, <2>9, <2>10, <2>11 DEF LockOK
<1> QED BY <1>3, <1>4, <1>5 DEF LockMoves

\* Nothing /stop looks for escapes it.
LEMMA MoveStop ==
    ASSUME Control, NEW i, NEW new, Moves(i, new)
    PROVE  StopOK'
<1>1. /\ \A k \in Tasks \ {i} : task'[k] = task[k]
      /\ Tasks' = Tasks \cup new /\ loop' = loop
      /\ \A k \in Tasks : task'[k].kind = task[k].kind /\ task'[k].chat = task[k].chat /\ task'[k].by = task[k].by
      /\ \A k \in Tasks : task'[k].pc # "done" =>
            task[k].pc # "done" /\ task'[k].stop = task[k].stop /\ (task'[k].pc # "queued" => task[k].pc # "queued")
  BY DEF Moves
<1>2. \A k \in new : task'[k].pc = "queued" \/ task'[k].kind \notin Dispatched
  BY DEF Moves, PlaceOK, PlacesOf, Dispatched
<1>3. \A c : ActiveTasks(c)' \subseteq ActiveTasks(c)
  BY <1>1, <1>2 DEF ActiveTasks, InDispatch, DispatchKey
<1>4. \A c : \A k \in Subagents(c)' : k \in new \/ k \in Subagents(c)
  BY <1>1 DEF Subagents
<1>5. \A k \in Tasks' : task'[k].kind = "subagent" => task'[k].by \in Tasks
  BY <1>1 DEF Moves, Control, StopOK
<1>6. loop.pc # "idle" => loop.msg \in Tasks
  BY DEF Control, QueueOK
<1> DEFINE chat == task[loop.msg].chat
<1>7. loop.pc # "idle" => chat' = chat
  BY <1>1, <1>6
<1>8. loop.pc = "stopTasks" => \A k \in ActiveTasks(chat)' : task'[k].stop = "yes"
  <2> SUFFICES ASSUME loop.pc = "stopTasks", NEW k \in ActiveTasks(chat)' PROVE task'[k].stop = "yes"
    OBVIOUS
  <2>1. k \in ActiveTasks(chat)
    BY <1>3, <1>7
  <2>2. k \in Tasks /\ task'[k].pc # "done"
    BY <2>1 DEF ActiveTasks, InDispatch
  <2> QED BY <1>1, <2>1, <2>2 DEF Control, StopOK
<1>9. loop.pc = "stopSubagents" => ActiveTasks(chat)' = {}
  BY <1>3, <1>7 DEF Control, StopOK
<1>10. loop.pc = "stopSubagents" =>
          \A k \in Subagents(chat)' :
             task'[k].stop = "yes" \/ (task'[task'[k].by].chat = chat => task'[task'[k].by].kind = "system")
  <2> SUFFICES ASSUME loop.pc = "stopSubagents", NEW k \in Subagents(chat)'
               PROVE  task'[k].stop = "yes" \/ (task'[task'[k].by].chat = chat => task'[task'[k].by].kind = "system")
    OBVIOUS
  <2>1. k \in Tasks' /\ task'[k].pc # "done" /\ task'[k].kind = "subagent"
    BY DEF Subagents
  <2>2. CASE k \in new
    BY <1>1, <1>5, <2>1, <2>2 DEF Moves
  <2>3. CASE k \in Subagents(chat)
    <3>1. k \in Tasks /\ task'[k].by = task[k].by /\ task'[k].stop = task[k].stop /\ task[k].by \in Tasks
      BY <1>1, <1>5, <2>1, <2>3 DEF Subagents
    <3>2. task[k].stop = "yes" \/ (task[task[k].by].chat = chat => task[task[k].by].kind = "system")
      BY <2>3 DEF Control, StopOK
    <3> QED BY <1>1, <3>1, <3>2
  <2> QED BY <1>4, <1>7, <2>2, <2>3
<1> QED BY <1>1, <1>5, <1>7, <1>8, <1>9, <1>10 DEF StopOK, Moves

\* A step of one task leaves Control.
LEMMA Move ==
    ASSUME Control, StoreTypes', NEW i, NEW new, Moves(i, new), LockMoves(i)
    PROVE  Control'
<1>1. TaskTypes'
  BY MoveQueue, MoveLock DEF TaskTypes, Control, Types, Moves
<1>2. \A k \in Tasks' : PlaceOK(task'[k])
  BY DEF Moves, Control
<1>3. OneSection'
  <2>1. \A k \in new : ~ InSync(k)'
    BY DEF Moves, InSync
  <2>2. \A k \in Tasks \ {i} : InSync(k)' => InSync(k)
    BY DEF Moves, InSync
  <2> QED BY <2>1, <2>2 DEF Moves, Control, OneSection
<1> QED BY <1>1, <1>2, <1>3, MoveQueue, MoveLock, MoveStop DEF Control, Types

-----------------------------------------------------------------------------
(* Control: the loop, a commit, and a crash. *)

\* The message at the head of the queue leaves it.
LEMMA Taken ==
    ASSUME Control, inbound # <<>>, inbound' = Tail(inbound)
    PROVE  /\ Head(inbound) \in Tasks /\ task[Head(inbound)].pc = "queued"
           /\ inbound' \in Seq(Nat) /\ DOMAIN inbound' \subseteq Nat
           /\ \A n \in DOMAIN inbound' :
                 /\ inbound'[n] \in Tasks /\ task[inbound'[n]].pc = "queued" /\ inbound'[n] # Head(inbound)
                 /\ \A m \in DOMAIN inbound' : inbound'[m] = inbound'[n] => m = n
                 /\ loop.pc # "idle" => inbound'[n] # loop.msg
<1>1. inbound \in Seq(Nat)
  BY DEF Control, Types, TaskTypes
<1>2. /\ Len(inbound) \in Nat \ {0} /\ DOMAIN inbound = 1..Len(inbound) /\ Head(inbound) = inbound[1]
      /\ inbound' \in Seq(Nat) /\ DOMAIN inbound' = 1..Len(inbound) - 1
      /\ \A n \in 1..Len(inbound) - 1 : inbound'[n] = inbound[n + 1]
  BY <1>1
<1>3. \A n \in 1..Len(inbound) - 1 : n + 1 \in 1..Len(inbound) /\ n + 1 # 1 /\ \A m \in 1..Len(inbound) - 1 : m + 1 = n + 1 => m = n
  BY <1>2
<1>4. 1 \in 1..Len(inbound) /\ 1..Len(inbound) - 1 \subseteq Nat
  BY <1>2
<1>5. \A n \in 1..Len(inbound) :
         /\ inbound[n] \in Tasks /\ task[inbound[n]].pc = "queued"
         /\ \A m \in 1..Len(inbound) : inbound[m] = inbound[n] => m = n
         /\ loop.pc # "idle" => inbound[n] # loop.msg
  BY <1>2 DEF Control, QueueOK
<1> HIDE DEF Control
<1> QED BY <1>2, <1>3, <1>4, <1>5

\* The locks stay as they are, and who waits or holds one stays there.
LEMMA SameLock ==
    ASSUME Control, Tasks' = Tasks, lock' = lock,
           \A k \in Tasks :
              /\ task'[k].chat = task[k].chat
              /\ \/ task'[k].pc = task[k].pc
                 \/ task[k].pc \notin Locked /\ task'[k].pc \notin Locked
                 \/ task[k].pc \in Holding /\ task'[k].pc \in Holding
    PROVE  lock' \in [Chats -> Seq(Nat)] /\ LockOK'
<1>1. lock \in [Chats -> Seq(Nat)] /\ LockOK
  BY DEF Control, Types, TaskTypes
<1>2. \A c \in Chats : \A n \in DOMAIN lock[c] : task'[lock[c][n]].pc \in Locked
  BY <1>1 DEF LockOK, Locked
<1>3. \A k \in Tasks : task'[k].pc \in Holding => HoldsLock(k)
  BY <1>1 DEF LockOK, Locked
<1>4. \A k \in Tasks : HoldsLock(k) => HoldsLock(k)'
  BY DEF HoldsLock
<1> QED BY <1>1, <1>2, <1>3, <1>4 DEF LockOK

\* Tasks that are cancelled.
LEMMA CancelledAre ==
    ASSUME Control, NEW set, task' = Cancelled(set),
           \A i \in set : i \in Tasks => task[i].pc \notin Sync \cup {"queued", "done"}
    PROVE  /\ task' \in Seq(ATask) /\ Tasks' = Tasks
           /\ \A k \in Tasks :
                 /\ task'[k] = IF k \in set THEN [task[k] EXCEPT !.stop = "yes"] ELSE task[k]
                 /\ task'[k].kind = task[k].kind /\ task'[k].chat = task[k].chat /\ task'[k].by = task[k].by
                 /\ task'[k].pc = task[k].pc /\ task'[k].stop = IF k \in set THEN "yes" ELSE task[k].stop
                 /\ task'[k].object = task[k].object /\ task'[k].from = task[k].from /\ task'[k].upto = task[k].upto
                 /\ task'[k].archived = task[k].archived /\ task'[k].saved = task[k].saved
                 /\ PlaceOK(task'[k])
<1>1. /\ task \in [1..Len(task) -> ATask] /\ Len(task) \in Nat /\ Tasks = 1..Len(task)
      /\ \A i \in Tasks : task[i] \in ATask
  BY TasksAre DEF Control
<1>2. \A k \in Tasks : task'[k] = IF k \in set THEN [task[k] EXCEPT !.stop = "yes"] ELSE task[k]
  BY DEF Cancelled
<1>3. ASSUME NEW k \in Tasks
      PROVE  /\ task'[k] \in ATask
             /\ task'[k].kind = task[k].kind /\ task'[k].chat = task[k].chat /\ task'[k].by = task[k].by
             /\ task'[k].pc = task[k].pc /\ task'[k].stop = IF k \in set THEN "yes" ELSE task[k].stop
             /\ task'[k].object = task[k].object /\ task'[k].from = task[k].from /\ task'[k].upto = task[k].upto
             /\ task'[k].archived = task[k].archived /\ task'[k].saved = task[k].saved
  <2>1. [task[k] EXCEPT !.stop = "yes"] \in ATask
    BY <1>1 DEF ATask
  <2>2. CASE k \in set
    BY SMTT(30), <1>1, <1>2, <2>1, <2>2 DEF ATask
  <2>3. CASE k \notin set
    BY <1>1, <1>2, <2>3
  <2> QED BY <2>2, <2>3
<1>4. DOMAIN task' = 1..Len(task) /\ task' \in [1..Len(task) -> ATask]
  <2>1. task' = [k \in 1..Len(task) |-> task'[k]]
    BY <1>1 DEF Cancelled
  <2> QED BY <1>1, <1>3, <2>1
<1>5. task' \in Seq(ATask) /\ Len(task') = Len(task)
  BY <1>1, <1>4, IsSequence
<1>6. ASSUME NEW k \in Tasks PROVE PlaceOK(task'[k])
  BY <1>3 DEF Control, PlaceOK
<1> QED BY <1>1, <1>2, <1>3, <1>5, <1>6 DEF Tasks

\* Which tasks /stop cancels.
LEMMA StoppedAre ==
    /\ \A c, k : k \in ActiveTasks(c) <=> /\ k \in Tasks /\ task[k].kind \in Dispatched \ {"system"}
                                         /\ task[k].pc \notin {"queued", "done"} /\ task[k].chat = c
    /\ \A c, k : k \in Subagents(c) <=> /\ k \in Tasks /\ task[k].kind = "subagent"
                                       /\ task[k].pc # "done" /\ task[k].chat = c
  BY DEF ActiveTasks, InDispatch, DispatchKey, Subagents

\* A message that the loop takes up or answers: of its own task only its place changes, and
\* it is over, or waits for the dispatch lock.
LEMMA LoopControl ==
    ASSUME Control, UNCHANGED <<object, cache, disk, lock, tools, ghost, used>>, Loop
    PROVE  /\ Control' /\ Tasks' = Tasks
           /\ \A k \in Tasks :
                 /\ task'[k].kind = task[k].kind /\ task'[k].chat = task[k].chat
                 /\ task'[k].archived = task[k].archived /\ task'[k].saved = task[k].saved
           /\ \E i : /\ \A k \in Tasks \ {i} :
                          /\ task'[k].pc = task[k].pc /\ task'[k].object = task[k].object
                          /\ task'[k].from = task[k].from /\ task'[k].upto = task[k].upto
                     /\ i \in Tasks => /\ task[i].pc = "queued" /\ task'[i].pc \in {"lock", "done"}
                                       /\ task'[i].object \in {task[i].object, 0}
<1>1. Types /\ StoreTypes' /\ QueueOK /\ LockOK /\ StopOK /\ OneSection
  BY DEF Control, Types, StoreTypes
<1>2. \A i \in Tasks : task[i] \in ATask /\ PlaceOK(task[i]) /\ task[i].chat \in Chats
  BY <1>1, TasksAre DEF Control, ATask
<1>3. /\ task \in Seq(ATask) /\ inbound \in Seq(Nat)
      /\ loop \in [pc : {"idle", "status", "stopTasks", "stopSubagents"}, msg : Nat] /\ Tasks \subseteq Nat
  BY <1>1, TasksAre DEF Types, TaskTypes
<1>9. 0 \notin Tasks
  BY <1>1, TasksAre
<1>4. CASE Consume
  <2> DEFINE i == Head(inbound)
             t == [task[i] EXCEPT !.pc = "lock"]
  <2>1. i \in Tasks /\ task[i].pc = "queued" /\ task[i].kind \in Dispatched /\ loop.pc = "idle" /\ loop' = loop
    BY <1>4, Taken DEF Consume, LoopIsFree, Idle
  <2>2. t \in ATask /\ t.pc = "lock" /\ t.kind = task[i].kind /\ t.chat = task[i].chat /\ t.by = task[i].by
        /\ t.archived = task[i].archived /\ t.saved = task[i].saved /\ t.object = task[i].object /\ t.stop = task[i].stop
    BY <1>2, <2>1 DEF ATask, Places
  <2>3. task' = [task EXCEPT ![i] = t]
    BY <1>4 DEF Consume, Goto, Put
  <2> HIDE DEF t, i
  <2>4. task' \in Seq(ATask) /\ Tasks' = Tasks /\ task'[i] = t /\ \A k \in Tasks \ {i} : task'[k] = task[k]
    BY <1>1, <2>1, <2>2, <2>3, PutIs
  <2>5. PlaceOK(t)
    BY <1>2, <2>1, <2>2 DEF PlaceOK, PlacesOf, Dispatched, Sync, Settled, Places
  <2>6. TaskTypes' /\ QueueOK'
    <3>1. /\ inbound' \in Seq(Nat)
          /\ \A n \in DOMAIN inbound' :
                /\ inbound'[n] \in Tasks /\ task[inbound'[n]].pc = "queued" /\ inbound'[n] # i
                /\ \A m \in DOMAIN inbound' : inbound'[m] = inbound'[n] => m = n
      BY <1>4, Taken DEF Consume, LoopIsFree, i
    <3>2. lock' \in [Chats -> Seq(Nat)]
      BY <1>1 DEF Types, TaskTypes
    <3> QED BY <1>1, <1>3, <2>1, <2>4, <3>1, <3>2 DEF QueueOK, TaskTypes
  <2>7. LockOK' /\ OneSection'
    BY <1>1, <2>1, <2>2, <2>4, SameLock DEF Locked, Holding, OneSection, InSync
  <2>8. StopOK'
    BY <1>1, <2>1, <2>2, <2>4 DEF StopOK
  <2> QED BY <1>1, <1>2, <2>1, <2>2, <2>4, <2>5, <2>6, <2>7, <2>8 DEF Types, Control
<1>5. CASE StatusBegins
  <2>1. Head(inbound) \in Tasks /\ task[Head(inbound)].pc = "queued" /\ task' = task /\ Tasks' = Tasks
    BY <1>5, Taken DEF StatusBegins, LoopIsFree, Tasks
  <2>2. loop' = [pc |-> "status", msg |-> Head(inbound)] /\ task[Head(inbound)].kind = "status"
    BY <1>5 DEF StatusBegins
  <2>3. TaskTypes' /\ QueueOK'
    <3>1. /\ inbound' \in Seq(Nat)
          /\ \A n \in DOMAIN inbound' :
                /\ inbound'[n] \in Tasks /\ task[inbound'[n]].pc = "queued" /\ inbound'[n] # Head(inbound)
                /\ \A m \in DOMAIN inbound' : inbound'[m] = inbound'[n] => m = n
      BY <1>5, Taken DEF StatusBegins, LoopIsFree
    <3>2. lock' \in [Chats -> Seq(Nat)]
      BY <1>1 DEF Types, TaskTypes
    <3> QED BY <1>1, <1>3, <2>1, <2>2, <3>1, <3>2 DEF QueueOK, TaskTypes
  <2>4. LockOK' /\ OneSection'
    BY <1>1, <2>1, SameLock DEF OneSection, InSync
  <2>5. StopOK'
    BY <1>1, <2>1, <2>2 DEF StopOK
  <2>6. Control'
    BY <1>1, <1>2, <2>1, <2>3, <2>4, <2>5 DEF Types, Control
  <2> QED BY <1>9, <2>1, <2>6
<1>6. CASE StatusReplies \/ StopReplies
  <2> DEFINE i == loop.msg
  <2>1. i \in Tasks /\ task[i].pc = "queued" /\ \A n \in DOMAIN inbound : inbound[n] # i
    BY <1>1, <1>6 DEF StatusReplies, StopReplies, QueueOK
  <2>2. /\ Over(i) \in ATask /\ PlaceOK(Over(i)) /\ Over(i).pc = "done" /\ Over(i).stop = "no" /\ Over(i).object = 0
        /\ Over(i).kind = task[i].kind /\ Over(i).chat = task[i].chat /\ Over(i).by = task[i].by
        /\ Over(i).archived = task[i].archived /\ Over(i).saved = task[i].saved
    BY <1>1, <1>2, <2>1, OverIs
  <2>3. task' = [task EXCEPT ![i] = Over(i)] /\ loop' = Idle /\ inbound' = inbound
    BY <1>6 DEF StatusReplies, StopReplies, Put
  <2> HIDE DEF i
  <2>4. task' \in Seq(ATask) /\ Tasks' = Tasks /\ task'[i] = Over(i) /\ \A k \in Tasks \ {i} : task'[k] = task[k]
    BY <1>1, <2>1, <2>2, <2>3, PutIs
  <2>5. TaskTypes' /\ QueueOK'
    <3>1. lock' \in [Chats -> Seq(Nat)] /\ loop'.pc = "idle" /\ loop' \in [pc : {"idle", "status", "stopTasks", "stopSubagents"}, msg : Nat]
      BY <1>1, <2>3 DEF Types, TaskTypes, Idle
    <3> QED BY <1>1, <1>3, <2>1, <2>3, <2>4, <3>1 DEF QueueOK, TaskTypes
  <2>6. LockOK' /\ OneSection'
    BY <1>1, <2>1, <2>2, <2>4, SameLock DEF Locked, Holding, OneSection, InSync
  <2>7. StopOK'
    BY <1>1, <2>1, <2>2, <2>3, <2>4 DEF StopOK, Idle
  <2> QED BY <1>1, <1>2, <2>1, <2>2, <2>4, <2>5, <2>6, <2>7 DEF Types, Control
<1>7. CASE StopBegins
  <2>1. PICK m \in Tasks, c \in Chats : m = Head(inbound) /\ c = task[m].chat
    BY <1>2, <1>7, Taken DEF StopBegins, LoopIsFree
  <2>2. task[m].pc = "queued" /\ task[m].kind = "stop" /\ loop' = [pc |-> "stopTasks", msg |-> m]
        /\ task' = Cancelled(ActiveTasks(c)) /\ \A k \in Tasks : ~ InSync(k)
    BY <1>7, <2>1, Taken DEF StopBegins, LoopIsFree
  <2>3. \A k \in ActiveTasks(c) : k \in Tasks => task[k].pc \notin Sync \cup {"queued", "done"}
    BY <2>2, StoppedAre DEF InSync, Sync
  <2>4. /\ task' \in Seq(ATask) /\ Tasks' = Tasks
        /\ \A k \in Tasks :
                 /\ task'[k] = IF k \in ActiveTasks(c) THEN [task[k] EXCEPT !.stop = "yes"] ELSE task[k]
                 /\ task'[k].kind = task[k].kind /\ task'[k].chat = task[k].chat /\ task'[k].by = task[k].by
                 /\ task'[k].pc = task[k].pc /\ task'[k].stop = IF k \in ActiveTasks(c) THEN "yes" ELSE task[k].stop
                 /\ task'[k].object = task[k].object /\ task'[k].from = task[k].from /\ task'[k].upto = task[k].upto
                 /\ task'[k].archived = task[k].archived /\ task'[k].saved = task[k].saved
                 /\ PlaceOK(task'[k])
    BY <2>2, <2>3, CancelledAre
  <2>4a. Tasks' = Tasks /\ \A k \in Tasks : task'[k].kind = task[k].kind /\ task'[k].chat = task[k].chat /\ task'[k].pc = task[k].pc
    BY <2>4
  <2>5. loop'.pc = "stopTasks" /\ loop'.msg = m /\ m \in Nat
    BY <1>3, <2>2
  <2>6. TaskTypes' /\ QueueOK'
    <3>1. /\ inbound' \in Seq(Nat)
          /\ \A n \in DOMAIN inbound' :
                /\ inbound'[n] \in Tasks /\ task[inbound'[n]].pc = "queued" /\ inbound'[n] # m
                /\ \A k \in DOMAIN inbound' : inbound'[k] = inbound'[n] => k = n
      BY <1>7, <2>1, Taken DEF StopBegins, LoopIsFree
    <3>2. lock' \in [Chats -> Seq(Nat)] /\ loop' \in [pc : {"idle", "status", "stopTasks", "stopSubagents"}, msg : Nat]
      BY <1>1, <2>2, <2>5 DEF Types, TaskTypes
    <3>3. /\ \A n \in DOMAIN inbound' : inbound'[n] \in Tasks' /\ task'[inbound'[n]].pc = "queued" /\ inbound'[n] # m
          /\ m \in Tasks' /\ task'[m].pc = "queued" /\ task'[m].kind = "stop"
      BY <2>2, <2>4, <3>1
    <3> QED BY <2>4, <2>5, <3>1, <3>2, <3>3 DEF QueueOK, TaskTypes
  <2>7. LockOK' /\ OneSection'
    BY <1>1, <2>4, SameLock DEF OneSection, InSync
  <2>8. StopOK'
    <3>1. \A k \in Tasks : task'[k].kind = "subagent" => task'[k].by \in Tasks
      BY <1>1, <2>4 DEF StopOK
    <3>2. task'[loop'.msg].chat = c
      BY <2>1, <2>4, <2>5
    <3>3. \A k \in ActiveTasks(c)' : k \in Tasks /\ k \in ActiveTasks(c)
      <4>1. \A k \in ActiveTasks(c)' :
               /\ k \in Tasks' /\ task'[k].kind \in Dispatched \ {"system"}
               /\ task'[k].pc \notin {"queued", "done"} /\ task'[k].chat = c
        BY DEF ActiveTasks, InDispatch, DispatchKey
      <4> QED BY <2>4a, <4>1, StoppedAre
    <3>4. \A k \in ActiveTasks(c)' : task'[k].stop = "yes"
      BY <2>4, <3>3
    <3>5. \A k \in ActiveTasks(task[loop.msg].chat)' : task'[k].stop = "yes"
      <4>1. \A k : k \in ActiveTasks(task[loop.msg].chat)' <=> k \in ActiveTasks(c)'
        BY <3>2 DEF ActiveTasks
      <4> QED BY <3>4, <4>1
    <3> QED BY <1>1, <2>4, <2>5, <3>1, <3>5 DEF StopOK
  <2>9. Control'
    BY <1>1, <2>4, <2>6, <2>7, <2>8 DEF Types, Control
  <2> QED BY <1>9, <2>4, <2>9
<1>8. CASE StopSubagents
  <2>1. PICK m \in Tasks, c \in Chats : m = loop.msg /\ c = task[m].chat
    BY <1>1, <1>2, <1>8 DEF StopSubagents, QueueOK
  <2>2. /\ loop.pc = "stopTasks" /\ task' = Cancelled(Subagents(c)) /\ inbound' = inbound
        /\ loop' = [loop EXCEPT !.pc = "stopSubagents"] /\ \A k \in InDispatch : task[k].stop = "no"
        /\ \A k \in Tasks : ~ InSync(k)
    BY <1>8, <2>1 DEF StopSubagents
  <2>3. /\ task[m].pc = "queued" /\ task[m].kind = "stop" /\ \A n \in DOMAIN inbound : inbound[n] # m
        /\ loop'.pc = "stopSubagents" /\ loop'.msg = m
        /\ loop' \in [pc : {"idle", "status", "stopTasks", "stopSubagents"}, msg : Nat]
    BY <1>1, <1>3, <2>1, <2>2 DEF QueueOK
  <2>4. \A k \in Subagents(c) : k \in Tasks => task[k].pc \notin Sync \cup {"queued", "done"}
    BY <1>2, StoppedAre DEF Sync, PlaceOK, PlacesOf
  <2>5. /\ task' \in Seq(ATask) /\ Tasks' = Tasks
        /\ \A k \in Tasks :
                 /\ task'[k] = IF k \in Subagents(c) THEN [task[k] EXCEPT !.stop = "yes"] ELSE task[k]
                 /\ task'[k].kind = task[k].kind /\ task'[k].chat = task[k].chat /\ task'[k].by = task[k].by
                 /\ task'[k].pc = task[k].pc /\ task'[k].stop = IF k \in Subagents(c) THEN "yes" ELSE task[k].stop
                 /\ task'[k].object = task[k].object /\ task'[k].from = task[k].from /\ task'[k].upto = task[k].upto
                 /\ task'[k].archived = task[k].archived /\ task'[k].saved = task[k].saved
                 /\ PlaceOK(task'[k])
    BY <2>2, <2>4, CancelledAre
  <2>4a. Tasks' = Tasks /\ \A k \in Tasks : task'[k].kind = task[k].kind /\ task'[k].chat = task[k].chat /\ task'[k].pc = task[k].pc
    BY <2>5
  <2>6. TaskTypes' /\ QueueOK'
    <3>1. lock' \in [Chats -> Seq(Nat)]
      BY <1>1 DEF Types, TaskTypes
    <3>2. /\ \A n \in DOMAIN inbound' :
                /\ inbound'[n] \in Tasks' /\ task'[inbound'[n]].pc = "queued" /\ inbound'[n] # m
                /\ \A k \in DOMAIN inbound' : inbound'[k] = inbound'[n] => k = n
          /\ m \in Tasks' /\ task'[m].pc = "queued" /\ task'[m].kind = "stop"
      <4>1. \A n \in DOMAIN inbound :
               /\ inbound[n] \in Tasks /\ task[inbound[n]].pc = "queued"
               /\ \A k \in DOMAIN inbound : inbound[k] = inbound[n] => k = n
        BY <1>1 DEF QueueOK
      <4> QED BY <2>2, <2>3, <2>4a, <4>1
    <3> QED BY <1>3, <2>2, <2>3, <2>5, <3>1, <3>2 DEF QueueOK, TaskTypes
  <2>7. LockOK' /\ OneSection'
    BY <1>1, <2>5, SameLock DEF OneSection, InSync
  <2>8. StopOK'
    <3>1. ActiveTasks(c) = {}
      <4>1. \A k \in ActiveTasks(c) : task[k].stop = "yes" /\ k \in InDispatch
        BY <1>1, <2>1, <2>2 DEF StopOK, ActiveTasks
      <4> QED BY <2>2, <4>1
    <3>2. \A k : k \notin ActiveTasks(c)'
      <4>1. \A k \in ActiveTasks(c)' :
               /\ k \in Tasks' /\ task'[k].kind \in Dispatched \ {"system"}
               /\ task'[k].pc \notin {"queued", "done"} /\ task'[k].chat = c
        BY DEF ActiveTasks, InDispatch, DispatchKey
      <4> QED BY <2>4a, <3>1, <4>1, StoppedAre
    <3>3. \A k \in Subagents(c)' : k \in Tasks /\ k \in Subagents(c)
      <4>1. \A k \in Subagents(c)' :
               k \in Tasks' /\ task'[k].kind = "subagent" /\ task'[k].pc # "done" /\ task'[k].chat = c
        BY DEF Subagents
      <4> QED BY <2>4a, <4>1, StoppedAre
    <3>4. \A k \in Tasks : task'[k].kind = "subagent" => task'[k].by \in Tasks
      BY <1>1, <2>5 DEF StopOK
    <3>5. task'[loop'.msg].chat = c
      BY <2>1, <2>3, <2>5
    <3>6. /\ \A k : k \in ActiveTasks(task[loop.msg].chat)' <=> k \in ActiveTasks(c)'
          /\ \A k : k \in Subagents(task[loop.msg].chat)' <=> k \in Subagents(c)'
      BY <3>5 DEF ActiveTasks, Subagents
    <3>7. ActiveTasks(task[loop.msg].chat)' = {}
      BY <3>2, <3>6
    <3>8. \A k \in Subagents(task[loop.msg].chat)' : task'[k].stop = "yes"
      BY <2>5, <3>3, <3>6
    <3> QED BY <1>1, <2>3, <2>5, <3>4, <3>7, <3>8 DEF StopOK
  <2>9. Control'
    BY <1>1, <2>5, <2>6, <2>7, <2>8 DEF Types, Control
  <2> QED BY <1>9, <2>5, <2>9
<1> QED BY <1>4, <1>5, <1>6, <1>7, <1>8 DEF Loop

\* Objects: fields and entries.
LEMMA ObjectsAre ==
    ASSUME Types
    PROVE  /\ Len(object) \in Nat /\ DOMAIN object = 1..Len(object)
           /\ \A o \in DOMAIN object :
                 /\ object[o] \in AnObject /\ object[o].chat \in Chats /\ object[o].done \in Nat
                 /\ object[o].entries \in Seq(Nat) /\ Len(object[o].entries) \in Nat
                 /\ DOMAIN object[o].entries = 1..Len(object[o].entries)
<1>1. object \in Seq(AnObject)
  BY DEF Types, StoreTypes
<1>2. \A o \in DOMAIN object : object[o] \in AnObject
  BY <1>1
<1> QED BY <1>1, <1>2 DEF AnObject

\* Files: fields and entries.
LEMMA FilesAre ==
    ASSUME Types, NEW c \in Chats
    PROVE  /\ disk[c] = [entries |-> disk[c].entries, done |-> disk[c].done] /\ disk[c].done \in Nat
           /\ disk[c].entries \in Seq(Nat) /\ Len(disk[c].entries) \in Nat
           /\ DOMAIN disk[c].entries = 1..Len(disk[c].entries)
<1>1. disk[c] \in [entries : Seq(Nat), done : Nat]
  BY DEF Types, StoreTypes, Session
<1> QED BY <1>1

\* A task that is under the lock knows a session of its chat, and which part of it.
LEMMA SessionOf ==
    ASSUME SInv, NEW i \in Tasks, task[i].pc \in Working
    PROVE  /\ task[i].object \in DOMAIN object /\ object[task[i].object].chat = task[i].chat /\ task[i].chat \in Chats
           /\ task[i] \in ATask
<1>1. Types /\ WorkOK(i)
  BY DEF SInv, Control, Sessions
<1>2. task[i] \in ATask /\ task[i].chat \in Chats
  BY <1>1, TasksAre DEF ATask
<1> QED BY <1>1, <1>2, ObjectsAre DEF WorkOK

\* The tasks after a commit.
LEMMA TaskCommitted ==
    ASSUME SInv, NEW i \in Tasks, ArchiveCommits(i)
    PROVE  /\ task' \in Seq(ATask) /\ Tasks' = Tasks
           /\ Chunk(i) \subseteq Tasks \ {i}
           /\ \A k \in Chunk(i) : task[k].pc \in Settled /\ task[k].kind \in {"user", "system"} /\ task[k].chat = task[i].chat
           /\ \A k \in Tasks \ {i} :
                 /\ task'[k].archived = IF k \in Chunk(i) THEN task[k].archived + 1 ELSE task[k].archived
                 /\ task'[k].pc = task[k].pc
           /\ task'[i].pc = (IF task[i].kind = "new" THEN "clear" ELSE "checkpoint") /\ task'[i].archived = task[i].archived
           /\ \A k \in Tasks :
                 /\ task'[k].kind = task[k].kind /\ task'[k].chat = task[k].chat /\ task'[k].by = task[k].by
                 /\ task'[k].object = task[k].object /\ task'[k].from = task[k].from /\ task'[k].upto = task[k].upto
                 /\ task'[k].saved = task[k].saved /\ task'[k].stop = task[k].stop
                 /\ task[k].archived \in Nat /\ PlaceOK(task'[k])
<1>1. Types /\ WorkOK(i) /\ \A k \in Tasks : PlaceOK(task[k])
  BY DEF SInv, Control, Sessions
<1>2. task[i].pc = "archive" /\ task[i].stop = "no"
  BY DEF ArchiveCommits, Runs
<1>3. /\ task \in [1..Len(task) -> ATask] /\ Len(task) \in Nat /\ Tasks = 1..Len(task)
      /\ \A k \in Tasks : task[k] \in ATask
  BY <1>1, TasksAre
<1> DEFINE o == task[i].object
<1>4. /\ o \in DOMAIN object /\ object[o].chat = task[i].chat /\ ObjectOK(o)
      /\ task[i].from = object[o].done + 1 /\ task[i].upto <= Len(object[o].entries)
  <2>1. o \in DOMAIN object /\ object[o].chat = task[i].chat
    BY <1>2, SessionOf DEF Working, Holding
  <2> QED BY <1>1, <1>2, <2>1 DEF WorkOK, SInv, Sessions
<1>5. \A n \in task[i].from .. task[i].upto : n \in DOMAIN object[o].entries
  <2>1. task[i].from \in Nat /\ task[i].upto \in Nat /\ object[o].done \in Nat /\ Len(object[o].entries) \in Nat
        /\ DOMAIN object[o].entries = 1..Len(object[o].entries)
    BY <1>1, <1>3, <1>4, ObjectsAre DEF ATask
  <2> QED BY <1>4, <2>1
<1>6. \A k \in Chunk(i) : k \in Tasks /\ task[k].pc \in Settled /\ task[k].kind \in {"user", "system"} /\ task[k].chat = task[i].chat
  BY <1>4, <1>5 DEF Chunk, ObjectOK, EntriesOK
<1>7. i \notin Chunk(i)
  BY <1>2, <1>6 DEF Settled
<1> DEFINE t == [task[i] EXCEPT !.pc = IF task[i].kind = "new" THEN "clear" ELSE "checkpoint"]
           u(k) == [task[k] EXCEPT !.archived = @ + 1]
<1>8. task' = [k \in Tasks |-> IF k = i THEN t ELSE IF k \in Chunk(i) THEN u(k) ELSE task[k]]
  BY DEF ArchiveCommits
<1>9. /\ t \in ATask /\ t.pc = (IF task[i].kind = "new" THEN "clear" ELSE "checkpoint") /\ t.archived = task[i].archived
      /\ t.kind = task[i].kind /\ t.chat = task[i].chat /\ t.by = task[i].by /\ t.stop = task[i].stop
      /\ t.object = task[i].object /\ t.from = task[i].from /\ t.upto = task[i].upto /\ t.saved = task[i].saved
  BY <1>3 DEF ATask, Places
<1>10. \A k \in Tasks :
          /\ u(k) \in ATask /\ u(k).pc = task[k].pc /\ u(k).archived = task[k].archived + 1 /\ u(k).stop = task[k].stop
          /\ u(k).kind = task[k].kind /\ u(k).chat = task[k].chat /\ u(k).by = task[k].by
          /\ u(k).object = task[k].object /\ u(k).from = task[k].from /\ u(k).upto = task[k].upto
          /\ u(k).saved = task[k].saved /\ task[k].archived \in Nat
  <2> SUFFICES ASSUME NEW k \in Tasks
               PROVE  /\ u(k) \in ATask /\ u(k).pc = task[k].pc /\ u(k).archived = task[k].archived + 1 /\ u(k).stop = task[k].stop
                      /\ u(k).kind = task[k].kind /\ u(k).chat = task[k].chat /\ u(k).by = task[k].by
                      /\ u(k).object = task[k].object /\ u(k).from = task[k].from /\ u(k).upto = task[k].upto
                      /\ u(k).saved = task[k].saved /\ task[k].archived \in Nat
    OBVIOUS
  <2>1. task[k] \in ATask
    BY <1>3
  <2>2. task[k].archived \in Nat /\ task[k].archived + 1 \in Nat
    BY <2>1 DEF ATask
  <2>3. u(k) \in ATask
    BY <2>1, <2>2 DEF ATask
  <2> QED BY <2>1, <2>2, <2>3 DEF ATask
<1> HIDE DEF t, u
<1>11. task' \in [1..Len(task) -> ATask]
  BY <1>3, <1>8, <1>9, <1>10
<1>12. task' \in Seq(ATask) /\ Len(task') = Len(task)
  BY <1>3, <1>11, IsSequence
<1>13. Tasks' = Tasks
  BY <1>3, <1>12 DEF Tasks
<1>14. task'[i] = t
  BY <1>8
<1>15. \A k \in Tasks \ {i} : task'[k] = IF k \in Chunk(i) THEN u(k) ELSE task[k]
  BY <1>8
<1>16. PlaceOK(t)
  <2>1. PlaceOK(task[i]) /\ task[i].pc = "archive" /\ t.stop = "no"
    BY <1>1, <1>2, <1>9
  <2>2. task[i].archived = 0 /\ task[i].saved = "no" /\ task[i].kind \in {"user", "system", "new", "background"}
    BY <1>3, <2>1 DEF PlaceOK, Settled, PlacesOf, ATask, Kind
  <2>3. t.pc \in PlacesOf(t.kind) /\ t.pc \in {"clear", "checkpoint"}
    BY <1>9, <2>2 DEF PlacesOf, Places
  <2> QED BY <1>9, <2>1, <2>2, <2>3 DEF PlaceOK
<1>17. \A k \in Tasks \ {i} : PlaceOK(task'[k])
  <2> SUFFICES ASSUME NEW k \in Tasks \ {i} PROVE PlaceOK(task'[k])
    OBVIOUS
  <2>1. CASE k \in Chunk(i)
    BY <1>1, <1>6, <1>10, <1>15, <2>1 DEF PlaceOK
  <2>2. CASE k \notin Chunk(i)
    BY <1>1, <1>15, <2>2
  <2> QED BY <2>1, <2>2
<1>18. \A k \in Tasks \ {i} :
          /\ task'[k].archived = IF k \in Chunk(i) THEN task[k].archived + 1 ELSE task[k].archived
          /\ task'[k].pc = task[k].pc /\ task'[k].stop = task[k].stop
          /\ task'[k].kind = task[k].kind /\ task'[k].chat = task[k].chat /\ task'[k].by = task[k].by
          /\ task'[k].object = task[k].object /\ task'[k].from = task[k].from /\ task'[k].upto = task[k].upto
          /\ task'[k].saved = task[k].saved
  BY <1>10, <1>15
<1> QED BY <1>6, <1>7, <1>9, <1>10, <1>12, <1>13, <1>14, <1>15, <1>16, <1>17, <1>18

\* A commit leaves the control as it is.
LEMMA CommitControl ==
    ASSUME SInv, NEW i \in Tasks, ArchiveCommits(i)
    PROVE  Control'
<1>1. Control /\ Types /\ StoreTypes' /\ QueueOK /\ LockOK /\ StopOK /\ OneSection
  BY DEF SInv, Control, Types, StoreTypes, ArchiveCommits
<1>2. task[i].pc = "archive" /\ \A k \in Tasks \ {i} : ~ InSync(k)
  BY DEF ArchiveCommits, Runs
<1>3. /\ task' \in Seq(ATask) /\ Tasks' = Tasks /\ \A k \in Tasks : PlaceOK(task'[k])
      /\ \A k \in Tasks \ {i} : task'[k].pc = task[k].pc
      /\ task'[i].pc \in {"clear", "checkpoint"}
      /\ \A k \in Tasks : task'[k].kind = task[k].kind /\ task'[k].chat = task[k].chat /\ task'[k].by = task[k].by
      /\ \A k \in Tasks : task'[k].stop = task[k].stop
  BY TaskCommitted
<1>4. /\ inbound \in Seq(Nat) /\ inbound' = inbound /\ lock' = lock /\ loop' = loop
      /\ loop \in [pc : {"idle", "status", "stopTasks", "stopSubagents"}, msg : Nat]
  BY <1>1 DEF Types, TaskTypes, ArchiveCommits
<1>5. lock' \in [Chats -> Seq(Nat)] /\ LockOK'
  BY <1>1, <1>2, <1>3, <1>4, SameLock DEF Locked, Holding
<1>6. OneSection'
  BY <1>2, <1>3 DEF OneSection, InSync
<1>7. QueueOK'
  BY <1>1, <1>2, <1>3, <1>4 DEF QueueOK
<1>8. StopOK'
  <2>1. \A c, k : k \in ActiveTasks(c)' <=> k \in ActiveTasks(c)
    BY <1>2, <1>3 DEF ActiveTasks, InDispatch, DispatchKey
  <2>2. \A c, k : k \in Subagents(c)' <=> k \in Subagents(c)
    BY <1>2, <1>3 DEF Subagents
  <2>3. loop.pc # "idle" => task'[loop.msg].chat = task[loop.msg].chat
    BY <1>1, <1>3 DEF QueueOK
  <2>4. \A c, k : (k \in ActiveTasks(c) => k \in Tasks) /\ (k \in Subagents(c) => k \in Tasks /\ task[k].by \in Tasks)
    BY <1>1 DEF ActiveTasks, InDispatch, Subagents, StopOK
  <2>5. \A k \in Tasks' : task'[k].kind = "subagent" => task'[k].by \in Tasks'
    BY <1>1, <1>3 DEF StopOK
  <2>6. loop.pc = "stopTasks" => \A k \in ActiveTasks(task[loop.msg].chat)' : task'[k].stop = "yes"
    <3> SUFFICES ASSUME loop.pc = "stopTasks", NEW k \in ActiveTasks(task[loop.msg].chat)' PROVE task'[k].stop = "yes"
      OBVIOUS
    <3>1. PICK c : c = task[loop.msg].chat
      OBVIOUS
    <3>2. task'[loop'.msg].chat = c
      BY <1>4, <2>3, <3>1
    <3>3. k \in ActiveTasks(c)'
      BY <1>4, <3>2 DEF ActiveTasks
    <3>4. k \in ActiveTasks(c) /\ k \in Tasks
      BY <2>1, <2>4, <3>3
    <3> QED BY <1>1, <1>3, <3>1, <3>4 DEF StopOK
  <2>7. loop.pc = "stopSubagents" =>
          /\ ActiveTasks(task[loop.msg].chat)' = {}
          /\ \A k \in Subagents(task[loop.msg].chat)' :
                task'[k].stop = "yes" \/ (task'[task'[k].by].chat = task[loop.msg].chat => task'[task'[k].by].kind = "system")
    <3> SUFFICES ASSUME loop.pc = "stopSubagents"
                 PROVE  /\ ActiveTasks(task[loop.msg].chat)' = {}
                        /\ \A k \in Subagents(task[loop.msg].chat)' :
                              task'[k].stop = "yes" \/ (task'[task'[k].by].chat = task[loop.msg].chat => task'[task'[k].by].kind = "system")
      OBVIOUS
    <3>1. PICK c : c = task[loop.msg].chat
      OBVIOUS
    <3>2. task'[loop'.msg].chat = c
      BY <1>4, <2>3, <3>1
    <3>3. (\A k : k \in ActiveTasks(task[loop.msg].chat)' <=> k \in ActiveTasks(c)')
          /\ (\A k : k \in Subagents(task[loop.msg].chat)' <=> k \in Subagents(c)')
      BY <1>4, <3>2 DEF ActiveTasks, Subagents
    <3>4. \A k : k \notin ActiveTasks(c)
      BY <1>1, <3>1 DEF StopOK
    <3>5. \A k \in Subagents(c) :
             task[k].stop = "yes" \/ (task[task[k].by].chat = c => task[task[k].by].kind = "system")
      BY <1>1, <3>1 DEF StopOK
    <3> QED BY <1>3, <2>1, <2>2, <2>4, <3>1, <3>3, <3>4, <3>5
  <2> QED BY <1>3, <1>4, <2>3, <2>5, <2>6, <2>7 DEF StopOK
<1> QED BY <1>1, <1>3, <1>4, <1>5, <1>6, <1>7, <1>8 DEF Control, Types, TaskTypes

-----------------------------------------------------------------------------
(* Sessions: the steps that leave them as they are. *)

\* Task i takes a step that leaves the sessions alone, and the tasks in new have none.
Quietly(i, new) ==
    /\ Tasks' = Tasks \cup new /\ new \cap Tasks = {}
    /\ object' = object /\ cache' = cache /\ disk' = disk /\ ghost' = ghost /\ used'.crashes = used.crashes
    /\ \A k \in Tasks : /\ task'[k].kind = task[k].kind /\ task'[k].chat = task[k].chat
                        /\ task'[k].archived = task[k].archived /\ task'[k].saved = task[k].saved
    /\ \A k \in Tasks \ {i} : /\ task'[k].pc = task[k].pc /\ task'[k].object = task[k].object
                              /\ task'[k].from = task[k].from /\ task'[k].upto = task[k].upto
    /\ i \in Tasks =>
          LET t == task'[i]
              s == object[t.object]
          IN  /\ task[i].pc \notin Sync /\ (task[i].pc \in Settled => t.pc = "done")
              /\ t.pc \in {"lock", "wait", "model", "message", "spawn", "archive", "clear", "done"}
              /\ t.object \in {task[i].object, 0}
              /\ t.pc \notin {"lock", "done"} => task[i].pc \in Working /\ t.object = task[i].object
              /\ t.pc = "archive" =>
                    /\ t.from = s.done + 1 /\ t.from <= t.upto /\ t.upto <= Len(s.entries)
                    /\ t.kind = "new" /\ t.chat \notin ghost.overlap => t.upto = Len(s.entries)
              /\ t.pc = "clear" => s.done >= Len(s.entries)
    /\ \A k \in new : /\ task'[k].pc \in {"queued", "running"} /\ task'[k].object = 0
                      /\ task'[k].pc = "running" => task'[k].kind \notin Dispatched
                      /\ task'[k].archived = 0 /\ task'[k].saved = "no"

\* A quiet step leaves the sessions as they are.
LEMMA QuietSessions ==
    ASSUME SInv, NEW i, NEW new, Quietly(i, new)
    PROVE  Sessions'
<1>1. Sessions /\ Types
  BY DEF SInv, Control
<1>2. /\ Tasks' = Tasks \cup new /\ new \cap Tasks = {} /\ Tasks \subseteq Tasks'
      /\ object' = object /\ cache' = cache /\ disk' = disk /\ ghost' = ghost /\ used'.crashes = used.crashes
      /\ \A k \in Tasks : /\ task'[k].kind = task[k].kind /\ task'[k].chat = task[k].chat
                          /\ task'[k].archived = task[k].archived /\ task'[k].saved = task[k].saved
  BY DEF Quietly
<1>3. \A k \in Tasks : task[k].pc \in Settled => task'[k].pc \in Settled
  BY DEF Quietly, Settled
<1>4. \A k \in Tasks' : task'[k].pc \in Saving <=> k \in Tasks /\ task[k].pc \in Saving
  BY DEF Quietly, Saving, Sync
<1>5. \A k \in Tasks : task[k].pc \in Sync =>
         task'[k].pc = task[k].pc /\ task'[k].object = task[k].object /\ task'[k].upto = task[k].upto
  BY DEF Quietly
<1>6. \A k : k \in InTurn' => k \in InTurn /\ task'[k].object = task[k].object
  <2>1. \A k \in Tasks \ {i} : task'[k].pc = task[k].pc /\ task'[k].object = task[k].object
    BY DEF Quietly
  <2>2. \A k \in new : task'[k].pc \in {"queued", "running"}
    BY DEF Quietly
  <2>3. i \in Tasks /\ task'[i].pc \notin {"queued", "lock", "done"} =>
           task[i].pc \in Working /\ task'[i].object = task[i].object
    BY DEF Quietly
  <2>4. \A k : k \in InTurn' <=> k \in Tasks' /\ task'[k].kind \in Dispatched /\ task'[k].pc \notin {"queued", "lock", "done"}
    BY DEF InTurn
  <2>5. \A k : k \in InTurn <=> k \in Tasks /\ task[k].kind \in Dispatched /\ task[k].pc \notin {"queued", "lock", "done"}
    BY DEF InTurn
  <2>6. \A k \in new : task'[k].pc = "running" => task'[k].kind \notin Dispatched
    BY DEF Quietly
  <2>7. "queued" \notin Working /\ "lock" \notin Working /\ "done" \notin Working
    BY DEF Working, Holding
  <2> QED BY <1>2, <2>1, <2>2, <2>3, <2>4, <2>5, <2>6, <2>7
<1>7. \A c : IsSaving(c)' <=> IsSaving(c)
  BY <1>2, <1>4 DEF IsSaving, Saving
<1>8. ASSUME NEW c, NEW e, EntriesOK(c, e) PROVE EntriesOK(c, e)'
  BY <1>2, <1>3, <1>8 DEF EntriesOK
<1>9. ASSUME NEW o \in DOMAIN object PROVE ObjectOK(o)'
  <2>1. ObjectOK(o)
    BY <1>1 DEF Sessions
  <2>2. PICK s : s = object[o]
    OBVIOUS
  <2>3. EntriesOK(s.chat, s.entries)'
    BY <1>8, <2>1, <2>2 DEF ObjectOK
  <2>4. \A n : Committing(o, n) => Committing(o, n)'
    BY <1>2, <1>5 DEF Committing, Sync
  <2>5. /\ s.chat \in ghost.torn \/ s.done <= Len(s.entries)
        /\ \A n \in s.done + 1 .. Len(s.entries) : task'[s.entries[n]].archived <= used.crashes \/ Committing(o, n)'
    <3>1. \A n \in s.done + 1 .. Len(s.entries) : task'[s.entries[n]].archived = task[s.entries[n]].archived
      <4>1. /\ DOMAIN s.entries = 1..Len(s.entries) /\ s.done \in Nat /\ Len(s.entries) \in Nat
        BY <1>1, <2>2, ObjectsAre
      <4>2. \A n \in s.done + 1 .. Len(s.entries) : s.entries[n] \in Tasks
        BY <2>1, <2>2, <4>1 DEF ObjectOK, EntriesOK
      <4> QED BY <1>2, <4>2
    <3> QED BY <2>1, <2>2, <2>4, <3>1 DEF ObjectOK
  <2> QED BY <1>2, <2>2, <2>3, <2>5 DEF ObjectOK
<1>10. \A o, p \in DOMAIN object : o # p => Disjoint(o, p)'
  BY <1>1, <1>2 DEF Sessions, Disjoint
<1>11. ASSUME NEW c \in Chats PROVE FileOK(c)'
  <2>1. FileOK(c)
    BY <1>1 DEF Sessions
  <2>2. PICK s : s = disk[c]
    OBVIOUS
  <2>3. EntriesOK(c, s.entries)'
    BY <1>8, <2>1, <2>2 DEF FileOK
  <2>4. Fresh(s) => Fresh(s)'
    <3>1. /\ DOMAIN s.entries = 1..Len(s.entries) /\ s.done \in Nat /\ Len(s.entries) \in Nat
      BY <1>1, <2>2, FilesAre
    <3>2. \A n \in s.done + 1 .. Len(s.entries) : s.entries[n] \in Tasks
      BY <2>1, <2>2, <3>1 DEF FileOK, EntriesOK
    <3> QED BY <1>2, <3>2 DEF Fresh
  <2> QED BY <1>2, <1>7, <2>1, <2>2, <2>3, <2>4 DEF FileOK, Contents
<1>12. ASSUME NEW c \in Chats PROVE CalmOK(c)'
  <2>1. CalmOK(c)
    BY <1>1 DEF Sessions
  <2>2. \A k \in InTurn : k \in Tasks
    BY DEF InTurn
  <2> QED BY <1>2, <1>6, <2>1, <2>2 DEF CalmOK, Calm
<1>13. ASSUME NEW k \in Tasks' PROVE KeptOK(k)'
  <2>1. CASE k \in Tasks
    BY <1>1, <1>2, <2>1 DEF Sessions, KeptOK, InFile, Calm
  <2>2. CASE k \in new
    <3>1. task'[k].archived = 0 /\ task'[k].saved = "no" /\ used.crashes \in Nat
      BY <1>1, <2>2 DEF Quietly, Types, StoreTypes
    <3> QED BY <1>2, <3>1 DEF KeptOK
  <2> QED BY <1>2, <2>1, <2>2
<1>14. ASSUME NEW k \in Tasks' PROVE WorkOK(k)'
  <2>1. CASE k \in new
    <3>1. task'[k].pc \in {"queued", "running"} /\ task'[k].object = 0 /\ Len(object) \in Nat
      BY <1>1, <2>1, ObjectsAre DEF Quietly
    <3>2. ~ (k \in InTurn')
      BY <1>2, <1>6, <2>1 DEF InTurn
    <3> QED BY <1>2, <3>1, <3>2 DEF WorkOK, Working, Holding
  <2>2. CASE k \in Tasks \ {i}
    <3>1. WorkOK(k)
      BY <1>1, <2>2 DEF Sessions
    <3>2. /\ task'[k].pc = task[k].pc /\ task'[k].object = task[k].object /\ task'[k].kind = task[k].kind
          /\ task'[k].chat = task[k].chat /\ task'[k].from = task[k].from /\ task'[k].upto = task[k].upto
      BY <1>2, <2>2 DEF Quietly
    <3>3. task[k].pc \in {"checkpoint", "clear"} =>
            \A n \in object[task[k].object].done + 1 .. Len(object[task[k].object].entries) :
               task'[object[task[k].object].entries[n]].archived = task[object[task[k].object].entries[n]].archived
      <4>1. SUFFICES ASSUME task[k].pc \in {"checkpoint", "clear"},
                            NEW n \in object[task[k].object].done + 1 .. Len(object[task[k].object].entries)
                     PROVE  object[task[k].object].entries[n] \in Tasks
        BY <1>2
      <4>2. PICK o : o = task[k].object
        OBVIOUS
      <4>3. o \in DOMAIN object
        BY <2>2, <4>1, <4>2, SessionOf DEF Working, Holding
      <4>4. DOMAIN object[o].entries = 1..Len(object[o].entries) /\ object[o].done \in Nat /\ Len(object[o].entries) \in Nat
        BY <1>1, <4>3, ObjectsAre
      <4>5. ObjectOK(o)
        BY <1>1, <4>3 DEF Sessions
      <4>6. \A m \in DOMAIN object[o].entries : object[o].entries[m] \in Tasks
        BY <4>5 DEF ObjectOK, EntriesOK
      <4>7. n \in DOMAIN object[o].entries
        BY <4>1, <4>2, <4>4
      <4> QED BY <4>2, <4>6, <4>7
    <3>4. k \in InTurn' => k \in InTurn
      BY <1>6
    <3>5. PICK t : t = task[k]
      OBVIOUS
    <3>6. PICK o : o = object[t.object]
      OBVIOUS
    <3>7. /\ t.object \in 0..Len(object)
          /\ t.pc \in Working => t.object # 0 /\ o.chat = t.chat
          /\ t.pc \in {"archive", "checkpoint"} =>
                t.from = o.done + 1 /\ t.from <= t.upto /\ t.upto <= Len(o.entries)
          /\ t.pc = "archive" /\ t.kind = "new" /\ t.chat \notin ghost.overlap => t.upto = Len(o.entries)
          /\ t.pc \in {"saved", "saveTurn"} => disk[t.chat] = [entries |-> o.entries, done |-> o.done] /\ o.entries # <<>>
          /\ t.pc = "saveTurn" =>
                /\ o.entries[Len(o.entries)] = k
                /\ t.chat \in ghost.torn \/ o.done < Len(o.entries)
          /\ t.pc = "cleared" => disk[t.chat] = Blank /\ [entries |-> o.entries, done |-> o.done] = Blank
          /\ Calm(t.chat) /\ k \in InTurn' => t.object = cache[t.chat]
      BY <3>1, <3>4, <3>5, <3>6 DEF WorkOK, Contents
    <3>8. /\ Calm(t.chat) /\ t.pc = "checkpoint" => \A n \in t.from .. t.upto : task'[o.entries[n]].archived > 0
          /\ Calm(t.chat) /\ t.pc = "clear" => \A n \in o.done + 1 .. Len(o.entries) : task'[o.entries[n]].archived > 0
      <4>1. /\ Calm(t.chat) /\ t.pc = "checkpoint" => \A n \in t.from .. t.upto : task[o.entries[n]].archived > 0
            /\ Calm(t.chat) /\ t.pc = "clear" => \A n \in o.done + 1 .. Len(o.entries) : task[o.entries[n]].archived > 0
        BY <3>1, <3>5, <3>6 DEF WorkOK
      <4>2. t.pc = "checkpoint" => \A n \in t.from .. t.upto : n \in o.done + 1 .. Len(o.entries)
        <5>1. t.pc = "checkpoint" => o.done \in Nat /\ Len(o.entries) \in Nat /\ t.upto \in Nat
          BY <1>1, <2>2, <3>5, <3>6, SessionOf, ObjectsAre DEF Working, Holding, ATask
        <5> QED BY <3>7, <5>1
      <4> QED BY <3>3, <3>5, <3>6, <4>1, <4>2
    <3> HIDE DEF Blank, Working, Calm
    <3>9. Calm(t.chat)' <=> Calm(t.chat)
      BY <1>2 DEF Calm
    <3> QED BY SMTT(30), <1>2, <3>2, <3>5, <3>6, <3>7, <3>8, <3>9 DEF WorkOK, Contents
  <2>3. CASE k = i /\ i \in Tasks
    <3>1. WorkOK(i) /\ Len(object) \in Nat
      BY <1>1, <2>3, ObjectsAre DEF Sessions
    <3>2. PICK t : t = task'[i]
      OBVIOUS
    <3>3. /\ t.pc \in {"lock", "wait", "model", "message", "spawn", "archive", "clear", "done"}
          /\ t.object \in {task[i].object, 0} /\ t.chat = task[i].chat /\ t.kind = task[i].kind
          /\ t.pc \notin {"lock", "done"} => task[i].pc \in Working /\ t.object = task[i].object
      BY <2>3, <3>2 DEF Quietly
    <3>4. t.pc = "archive" =>
             /\ t.from = object[t.object].done + 1 /\ t.from <= t.upto /\ t.upto <= Len(object[t.object].entries)
             /\ t.kind = "new" /\ t.chat \notin ghost.overlap => t.upto = Len(object[t.object].entries)
      BY <2>3, <3>2 DEF Quietly
    <3>5. t.pc = "clear" => object[t.object].done + 1 .. Len(object[t.object].entries) = {}
      <4>1. t.pc = "clear" => object[t.object].done >= Len(object[t.object].entries) /\ t.object = task[i].object /\ task[i].pc \in Working
        BY <2>3, <3>2 DEF Quietly
      <4>2. t.pc = "clear" => object[t.object].done \in Nat /\ Len(object[t.object].entries) \in Nat
        BY <1>1, <2>3, <4>1, SessionOf, ObjectsAre
      <4> QED BY <4>1, <4>2
    <3>6. i \in InTurn' => i \in InTurn /\ t.object = task[i].object
      BY <1>6, <3>2
    <3>7. t.object \in 0..Len(object)
      BY <3>1, <3>3 DEF WorkOK
    <3>8. t.pc \in Working => t.object # 0 /\ object[t.object].chat = t.chat
      BY <3>1, <3>3 DEF WorkOK, Working, Holding
    <3>9. Calm(t.chat) /\ i \in InTurn' => t.object = cache[t.chat]
      BY <3>1, <3>3, <3>6 DEF WorkOK
    <3> QED BY <1>2, <2>3, <3>2, <3>3, <3>4, <3>5, <3>7, <3>8, <3>9 DEF WorkOK, Calm
  <2> QED BY <1>2, <2>1, <2>2, <2>3
<1> QED BY <1>2, <1>9, <1>10, <1>11, <1>12, <1>13, <1>14 DEF Sessions

\* A step of one task that leaves the sessions alone: what the task is afterwards.
QuietTask(i, t) ==
    /\ t \in ATask /\ PlaceOK(t)
    /\ t.kind = task[i].kind /\ t.chat = task[i].chat /\ t.by = task[i].by
    /\ t.archived = task[i].archived /\ t.saved = task[i].saved
    /\ t.stop = task[i].stop \/ t.pc = "done"
    /\ task[i].pc \notin Sync \cup {"queued", "done"} /\ (task[i].pc \in Settled => t.pc = "done")
    /\ t.pc \in {"wait", "model", "message", "spawn", "archive", "clear", "done"}
    /\ IF t.pc = "done" THEN t.object = 0 ELSE task[i].pc \in Working /\ t.object = task[i].object
    /\ t.pc = "archive" =>
          LET s == object[t.object] IN
          /\ t.from = s.done + 1 /\ t.from <= t.upto /\ t.upto <= Len(s.entries)
          /\ t.kind = "new" /\ t.chat \notin ghost.overlap => t.upto = Len(s.entries)
    /\ t.pc = "clear" => object[t.object].done >= Len(object[t.object].entries)

Others(i) == \A k \in Tasks \ {i} : ~ InSync(k)

\* Such a step keeps the invariant.
LEMMA QuietPut ==
    ASSUME SInv, NEW i \in Tasks, NEW t, QuietTask(i, t), Put(i, t), Others(i),
           UNCHANGED <<inbound, loop, object, cache, disk, ghost>>, used'.crashes = used.crashes,
           StoreTypes', LockMoves(i)
    PROVE  SInv'
<1>1. Types /\ Control
  BY DEF SInv, Control
<1>2. task' \in Seq(ATask) /\ Tasks' = Tasks /\ task'[i] = t /\ \A k \in Tasks \ {i} : task'[k] = task[k]
  BY <1>1, PutIs DEF QuietTask, Put
<1>3. Moves(i, {})
  BY <1>2 DEF Moves, QuietTask, Others
<1>4. Quietly(i, {})
  BY <1>2 DEF Quietly, QuietTask
<1> QED BY <1>1, <1>3, <1>4, Move, QuietSessions DEF SInv

\* What the store holds has the types it had.
LEMMA SameStore ==
    ASSUME SInv, UNCHANGED <<object, cache, disk, ghost>>,
           tools' \in [chat : Chats, sent : {"yes", "no"}], used' \in [messages : Nat, tools : Nat, crashes : Nat]
    PROVE  StoreTypes'
  BY DEF SInv, Control, Types, StoreTypes

\* A task at its place.
LEMMA TaskIs ==
    ASSUME SInv, NEW i \in Tasks
    PROVE  /\ task[i] \in ATask /\ PlaceOK(task[i]) /\ Types /\ Control /\ task[i].chat \in Chats
           /\ tools \in [chat : Chats, sent : {"yes", "no"}] /\ used \in [messages : Nat, tools : Nat, crashes : Nat]
           /\ task[i].object \in Nat /\ i \in Nat
<1>1. Control /\ Types /\ PlaceOK(task[i])
  BY DEF SInv, Control
<1>2. task[i] \in ATask /\ i \in Nat
  BY <1>1, TasksAre
<1> QED BY <1>1, <1>2 DEF Types, StoreTypes, ATask

\* A task that is over, with its lock.
LEMMA OverQuiet ==
    ASSUME SInv, NEW i \in Tasks, Put(i, Over(i)), Others(i), task[i].pc \notin Sync \cup {"queued", "done"},
           UNCHANGED <<inbound, loop, object, cache, disk, tools, ghost, used>>,
           Release(i) \/ (lock' = lock /\ task[i].pc \notin Locked)
    PROVE  SInv'
<1>1. /\ Over(i) \in ATask /\ PlaceOK(Over(i)) /\ Over(i).pc = "done" /\ Over(i).stop = "no" /\ Over(i).object = 0
      /\ Over(i).kind = task[i].kind /\ Over(i).chat = task[i].chat /\ Over(i).by = task[i].by
      /\ Over(i).archived = task[i].archived /\ Over(i).saved = task[i].saved
  BY TaskIs, OverIs
<1>2. QuietTask(i, Over(i))
  BY <1>1 DEF QuietTask
<1>3. task'[i] = Over(i)
  BY <1>1, TaskIs, PutIs DEF Put
<1>4. LockMoves(i)
  BY <1>1, <1>3 DEF LockMoves, Locked, Holding
<1> QED BY <1>2, <1>4, QuietPut, SameStore, TaskIs

\* A consolidation is over, for a turn or in the background.
LEMMA ProceedQuiet ==
    ASSUME SInv, NEW i \in Tasks, Proceed(i), Others(i), task[i].stop = "no",
           task[i].pc \in {"prepare", "start", "wait", "archive", "refresh"}, task[i].kind # "new",
           UNCHANGED <<inbound, loop, object, cache, disk, ghost, used>>,
           Release(i) \/ (lock' = lock /\ task[i].pc \notin Locked)
    PROVE  SInv'
<1>1. task[i] \in ATask /\ PlaceOK(task[i])
  BY TaskIs
<1>2. task[i].kind \in {"user", "system", "background"} /\ task[i].archived = 0 /\ task[i].saved = "no"
  BY <1>1 DEF PlaceOK, PlacesOf, ATask, Kind, Settled
<1>3. CASE task[i].kind = "background"
  BY <1>3, OverQuiet DEF Proceed, Sync
<1>4. CASE task[i].kind # "background"
  <2> DEFINE t == [task[i] EXCEPT !.pc = "model", !.from = 0, !.upto = 0, !.tries = 0, !.begun = "no"]
  <2>1. Put(i, t) /\ tools' = [chat |-> task[i].chat, sent |-> IF task[i].kind = "user" THEN "no" ELSE tools.sent]
    BY <1>4 DEF Proceed
  <2>2. 0 \in 0..MaxFailures /\ task[i].pc \in Working
    BY AgentAssumption DEF Working, Holding
  <2>3. t \in ATask
    BY <1>1, <2>2 DEF ATask, Places
  <2>4. /\ t.pc = "model" /\ t.object = task[i].object /\ t.stop = "no"
        /\ t.kind = task[i].kind /\ t.chat = task[i].chat /\ t.by = task[i].by
        /\ t.archived = task[i].archived /\ t.saved = task[i].saved
    BY <1>1 DEF ATask
  <2> HIDE DEF t
  <2>5. PlaceOK(t)
    BY <1>2, <1>4, <2>4 DEF PlaceOK, PlacesOf, Places
  <2>6. QuietTask(i, t)
    BY <1>1, <2>2, <2>3, <2>4, <2>5 DEF QuietTask, Sync, Settled
  <2>7. tools' \in [chat : Chats, sent : {"yes", "no"}]
    BY <2>1, TaskIs
  <2>8. task'[i] = t
    BY <2>1, <2>3, TaskIs, PutIs DEF Put
  <2>9. LockMoves(i)
    BY <2>4, <2>8 DEF LockMoves, Locked, Holding
  <2> QED BY <2>1, <2>6, <2>7, <2>9, QuietPut, SameStore, TaskIs
<1> QED BY <1>3, <1>4

\* A turn or a background task reaches the consolidation.
LEMMA StartQuiet ==
    ASSUME SInv, NEW i \in Tasks, Runs(i, "prepare") \/ Runs(i, "start"), StartConsolidation(i),
           UNCHANGED <<inbound, loop, object, cache, disk, ghost, used>>
    PROVE  SInv'
<1>1. task[i] \in ATask /\ PlaceOK(task[i]) /\ task[i].stop = "no" /\ Others(i) /\ task[i].pc \in {"prepare", "start"}
  BY TaskIs DEF Runs, Others
<1>2. task[i].kind \in {"user", "system", "background"} /\ task[i].archived = 0 /\ task[i].saved = "no"
  BY <1>1 DEF PlaceOK, PlacesOf, ATask, Kind, Settled
<1>3. CASE Proceed(i) /\ lock' = lock
  BY <1>1, <1>2, <1>3, ProceedQuiet DEF Locked, Holding
<1>4. CASE Enqueue(i) /\ Goto(i, "wait") /\ tools' = tools
  <2> DEFINE t == [task[i] EXCEPT !.pc = "wait"]
  <2>1. Put(i, t)
    BY <1>4 DEF Goto
  <2>2. t \in ATask
    BY <1>1 DEF ATask, Places
  <2>3. /\ t.pc = "wait" /\ t.object = task[i].object /\ t.stop = "no"
        /\ t.kind = task[i].kind /\ t.chat = task[i].chat /\ t.by = task[i].by
        /\ t.archived = task[i].archived /\ t.saved = task[i].saved
    BY <1>1 DEF ATask
  <2> HIDE DEF t
  <2>4. PlaceOK(t)
    BY <1>2, <2>3 DEF PlaceOK, PlacesOf, Places
  <2>5. QuietTask(i, t)
    BY <1>1, <2>2, <2>3, <2>4 DEF QuietTask, Sync, Settled, Working
  <2>6. task'[i] = t
    BY <2>1, <2>2, TaskIs, PutIs DEF Put
  <2>7. LockMoves(i)
    BY <1>1, <1>4, <2>3, <2>6 DEF LockMoves, Locked, Holding
  <2> QED BY <1>1, <1>4, <2>1, <2>5, <2>7, QuietPut, SameStore, TaskIs
<1> QED BY <1>3, <1>4 DEF StartConsolidation

\* Where a consolidation stops is in the session, after what is consolidated.
LEMMA Picked ==
    ASSUME NEW s, s.done \in Nat, Len(s.entries) \in Nat, NEW remove, NEW upto \in PickBoundary(s, remove)
    PROVE  upto \in Nat /\ s.done + 1 <= upto /\ upto <= Len(s.entries)
<1>1. PICK n \in Boundaries(s) : upto = n - 1
  BY DEF PickBoundary
<1>2. n \in (s.done + 2)..Len(s.entries)
  BY DEF Boundaries
<1> QED BY <1>1, <1>2

\* A pass of the consolidation.
LEMMA PassQuiet ==
    ASSUME SInv, NEW i \in Tasks, Runs(i, "wait") \/ Runs(i, "refresh"), task[i].kind # "new", HoldsLock(i),
           ConsolidationPass(i), UNCHANGED <<inbound, loop, object, cache, disk, ghost, used>>
    PROVE  SInv'
<1>1. task[i] \in ATask /\ PlaceOK(task[i]) /\ task[i].stop = "no" /\ Others(i) /\ task[i].pc \in {"wait", "refresh"}
  BY TaskIs DEF Runs, Others
<1>2. task[i].kind \in {"user", "system", "background"} /\ task[i].archived = 0 /\ task[i].saved = "no"
  BY <1>1 DEF PlaceOK, PlacesOf, ATask, Kind, Settled
<1> DEFINE s == Contents(task[i].object)
<1>3. CASE Proceed(i) /\ Release(i)
  BY <1>1, <1>3, ProceedQuiet
<1>4. ASSUME NEW remove, NEW upto \in PickBoundary(s, remove), lock' = lock, tools' = tools,
             Put(i, [task[i] EXCEPT !.pc = "archive", !.from = s.done + 1, !.upto = upto, !.tries = 0, !.begun = "yes"])
      PROVE  SInv'
  <2>1. /\ task[i].object \in DOMAIN object /\ s.done = object[task[i].object].done
        /\ s.entries = object[task[i].object].entries /\ s.done \in Nat /\ Len(s.entries) \in Nat
    <3>1. task[i].object \in DOMAIN object
      BY <1>1, SessionOf DEF Working, Holding
    <3> QED BY <3>1, TaskIs, ObjectsAre DEF Contents
  <2>2. upto \in Nat /\ s.done + 1 <= upto /\ upto <= Len(s.entries)
    BY <1>4, <2>1, Picked
  <2> DEFINE t == [task[i] EXCEPT !.pc = "archive", !.from = s.done + 1, !.upto = upto, !.tries = 0, !.begun = "yes"]
  <2>3. 0 \in 0..MaxFailures /\ s.done + 1 \in Nat
    BY <2>1, AgentAssumption
  <2> HIDE DEF s
  <2>4. t \in ATask
    BY <1>1, <2>2, <2>3 DEF ATask, Places
  <2>5. /\ t.pc = "archive" /\ t.object = task[i].object /\ t.stop = "no" /\ t.from = s.done + 1 /\ t.upto = upto
        /\ t.kind = task[i].kind /\ t.chat = task[i].chat /\ t.by = task[i].by
        /\ t.archived = task[i].archived /\ t.saved = task[i].saved
    BY <1>1 DEF ATask
  <2>6. Put(i, t)
    BY <1>4 DEF s
  <2> HIDE DEF t
  <2>7. PlaceOK(t)
    BY <1>2, <2>5 DEF PlaceOK, PlacesOf, Places
  <2>8. QuietTask(i, t)
    BY <1>1, <2>1, <2>2, <2>4, <2>5, <2>7 DEF QuietTask, Sync, Settled, Working, Holding
  <2>9. task'[i] = t
    BY <2>4, <2>6, TaskIs, PutIs DEF Put
  <2>10. LockMoves(i)
    BY <1>4, <2>5, <2>9 DEF LockMoves, Locked, Holding
  <2> QED BY <1>1, <1>4, <2>6, <2>8, <2>10, QuietPut, SameStore, TaskIs
<1> QED BY <1>3, <1>4 DEF ConsolidationPass

\* An archive attempt that fails, and one that is given up.
LEMMA ArchiveQuiet ==
    ASSUME SInv, NEW i \in Tasks, ArchiveFails(i) \/ ArchiveRefused(i) \/ ArchiveRaises(i)
    PROVE  SInv'
<1>1. task[i] \in ATask /\ PlaceOK(task[i]) /\ task[i].stop = "no" /\ Others(i) /\ task[i].pc = "archive"
  BY TaskIs DEF ArchiveFails, ArchiveRefused, ArchiveRaises, Runs, Others
<1>2. CASE ArchiveRaises(i)
  BY <1>1, <1>2, OverQuiet DEF ArchiveRaises, Fails, Sync
<1>3. CASE ArchiveRefused(i)
  <2>1. CASE task[i].kind = "new"
    BY <1>1, <1>3, <2>1, OverQuiet DEF ArchiveRefused, Sync
  <2>2. CASE task[i].kind # "new"
    BY <1>1, <1>3, <2>2, ProceedQuiet DEF ArchiveRefused
  <2> QED BY <2>1, <2>2
<1>4. CASE ArchiveFails(i)
  <2> DEFINE t == [task[i] EXCEPT !.tries = @ + 1]
  <2>1. Put(i, t) /\ task[i].tries < MaxFailures
    BY <1>4 DEF ArchiveFails
  <2>2. task[i].tries + 1 \in 0..MaxFailures
    BY <1>1, <2>1, AgentAssumption DEF ATask
  <2>3. t \in ATask
    BY <1>1, <2>2 DEF ATask
  <2>4. /\ t.pc = "archive" /\ t.object = task[i].object /\ t.stop = "no" /\ t.from = task[i].from /\ t.upto = task[i].upto
        /\ t.kind = task[i].kind /\ t.chat = task[i].chat /\ t.by = task[i].by
        /\ t.archived = task[i].archived /\ t.saved = task[i].saved
    BY <1>1 DEF ATask
  <2> HIDE DEF t
  <2>5. PlaceOK(t)
    BY <1>1, <2>4 DEF PlaceOK
  <2>6. WorkOK(i) /\ HoldsLock(i)
    BY <1>1 DEF SInv, Sessions, Control, LockOK, Holding
  <2>7. QuietTask(i, t)
    BY <1>1, <2>3, <2>4, <2>5, <2>6 DEF QuietTask, Sync, Settled, Working, Holding, WorkOK
  <2>8. task'[i] = t
    BY <2>1, <2>3, TaskIs, PutIs DEF Put
  <2>9. LockMoves(i)
    BY <1>4, <2>4, <2>6, <2>8 DEF ArchiveFails, LockMoves, Locked, Holding
  <2> QED BY <1>1, <1>4, <2>1, <2>7, <2>9, QuietPut, SameStore, TaskIs DEF ArchiveFails
<1> QED BY <1>2, <1>3, <1>4

\* /new looks at what is not consolidated.
LEMMA NewQuiet ==
    ASSUME SInv, NEW i \in Tasks, NewBegins(i)
    PROVE  SInv'
<1>1. /\ task[i] \in ATask /\ PlaceOK(task[i]) /\ task[i].stop = "no" /\ Others(i) /\ task[i].pc = "wait"
      /\ task[i].kind = "new" /\ HoldsLock(i)
  BY TaskIs DEF NewBegins, Runs, Others
<1>2. PICK s : s = Contents(task[i].object)
  OBVIOUS
<1>3. /\ task[i].object \in DOMAIN object /\ s.done = object[task[i].object].done
      /\ s.entries = object[task[i].object].entries /\ s.done \in Nat /\ s.entries \in Seq(Nat) /\ Len(s.entries) \in Nat
  <2>1. task[i].object \in DOMAIN object
    BY <1>1, SessionOf DEF Working
  <2> QED BY <1>2, <2>1, TaskIs, ObjectsAre DEF Contents
<1>4. Unconsolidated(s) = <<>> <=> s.done >= Len(s.entries)
  <2>1. Unconsolidated(s) = SubSeq(s.entries, s.done + 1, Len(s.entries))
    BY DEF Unconsolidated
  <2>2. \A n \in s.done + 1 .. Len(s.entries) : s.entries[n] \in Nat
    BY <1>3
  <2>3. /\ Unconsolidated(s) \in Seq(Nat)
        /\ Len(Unconsolidated(s)) = IF s.done + 1 <= Len(s.entries) THEN Len(s.entries) - (s.done + 1) + 1 ELSE 0
    BY <1>3, <2>1, <2>2, SubSeqProperties
  <2> HIDE DEF Unconsolidated
  <2>4. Unconsolidated(s) = <<>> <=> Len(Unconsolidated(s)) = 0
    BY <2>3, EmptySeq
  <2> QED BY <1>3, <2>3, <2>4
<1> DEFINE pc == IF Unconsolidated(s) = <<>> THEN "clear" ELSE "archive"
           t  == [task[i] EXCEPT !.from = s.done + 1, !.upto = Len(s.entries), !.pc = pc]
<1>5. Put(i, t)
  BY <1>2 DEF NewBegins
<1>6. s.done + 1 \in Nat /\ pc \in {"clear", "archive"}
  BY <1>3
<1>7. pc = "clear" <=> s.done >= Len(s.entries)
  BY <1>4
<1> HIDE DEF pc
<1>8. t \in ATask
  BY <1>1, <1>3, <1>6 DEF ATask, Places
<1>9. /\ t.pc = pc /\ t.object = task[i].object /\ t.stop = "no" /\ t.from = s.done + 1 /\ t.upto = Len(s.entries)
      /\ t.kind = task[i].kind /\ t.chat = task[i].chat /\ t.by = task[i].by
      /\ t.archived = task[i].archived /\ t.saved = task[i].saved
  BY <1>1 DEF ATask
<1> HIDE DEF t
<1>10. PlaceOK(t)
  BY <1>1, <1>6, <1>9 DEF PlaceOK, PlacesOf, Places, Settled
<1>11. pc = "archive" => s.done + 1 <= Len(s.entries)
  BY <1>3, <1>6, <1>7
<1>12. QuietTask(i, t)
  BY <1>1, <1>3, <1>6, <1>7, <1>8, <1>9, <1>10, <1>11 DEF QuietTask, Sync, Settled, Working
<1>13. task'[i] = t
  BY <1>5, <1>8, TaskIs, PutIs DEF Put
<1>14. LockMoves(i)
  BY <1>1, <1>6, <1>9, <1>13 DEF NewBegins, LockMoves, Locked, Holding
<1> QED BY <1>1, <1>5, <1>12, <1>14, QuietPut, SameStore, TaskIs DEF NewBegins

\* The turn calls a tool, and the message tool runs.
LEMMA ToolQuiet ==
    ASSUME SInv, NEW i \in Tasks, NEW tool \in {"message", "spawn"}, CallTool(i, tool) \/ MessageToolRuns(i)
    PROVE  SInv'
<1>1. /\ task[i] \in ATask /\ PlaceOK(task[i]) /\ task[i].stop = "no" /\ Others(i) /\ task[i].pc \in {"model", "message"}
  BY TaskIs DEF CallTool, MessageToolRuns, Runs, Others
<1>2. task[i].kind \in {"user", "system"} /\ task[i].archived = 0 /\ task[i].saved = "no"
  BY <1>1 DEF PlaceOK, PlacesOf, ATask, Kind, Settled
<1>3. /\ tools' \in [chat : Chats, sent : {"yes", "no"}] /\ used' \in [messages : Nat, tools : Nat, crashes : Nat]
      /\ used'.crashes = used.crashes
  <2>1. /\ tools \in [chat : Chats, sent : {"yes", "no"}] /\ used \in [messages : Nat, tools : Nat, crashes : Nat]
        /\ task[i].chat \in Chats
    BY TaskIs
  <2>2. CASE CallTool(i, tool)
    <3>0. used.tools \in Nat /\ used.messages \in Nat /\ used.tools + 1 \in Nat /\ used.messages + 1 \in Nat
      BY <2>1
    <3>1. \E n \in Nat : used' = [used EXCEPT !.tools = used.tools + 1, !.messages = n]
      <4>1. used' = [used EXCEPT !.tools = used.tools + 1, !.messages = IF tool = "spawn" THEN used.messages + 1 ELSE used.messages]
        BY <2>2 DEF CallTool
      <4> QED BY <3>0, <4>1
    <3>2. tools' = [tools EXCEPT !.chat = task[i].chat]
      BY <2>2 DEF CallTool
    <3> QED BY <2>1, <3>0, <3>1, <3>2
  <2>3. CASE MessageToolRuns(i)
    BY <2>1, <2>3 DEF MessageToolRuns
  <2> QED BY <2>2, <2>3
<1>4. ASSUME NEW t, Put(i, t), t \in ATask, t.pc \in {"model", "message", "spawn"}, t.object = task[i].object, t.stop = "no",
             t.kind = task[i].kind, t.chat = task[i].chat, t.by = task[i].by,
             t.archived = task[i].archived, t.saved = task[i].saved
      PROVE  SInv'
  <2>1. PlaceOK(t)
    BY <1>2, <1>4 DEF PlaceOK, PlacesOf, Places, Settled, Sync
  <2>2. QuietTask(i, t)
    BY <1>1, <1>4, <2>1 DEF QuietTask, Sync, Settled, Working, Holding
  <2>3. task'[i] = t
    BY <1>4, TaskIs, PutIs DEF Put
  <2>4. LockMoves(i)
    BY <1>1, <1>4, <2>3 DEF CallTool, MessageToolRuns, LockMoves, Locked, Holding
  <2> QED BY <1>1, <1>3, <1>4, <2>2, <2>4, QuietPut, SameStore, TaskIs DEF CallTool, MessageToolRuns
<1>5. CASE CallTool(i, tool)
  <2> DEFINE t == [task[i] EXCEPT !.pc = tool]
  <2>1. Put(i, t)
    BY <1>5 DEF CallTool, Goto
  <2>2. t \in ATask
    BY <1>1 DEF ATask, Places
  <2>3. /\ t.pc = tool /\ t.object = task[i].object /\ t.stop = "no"
        /\ t.kind = task[i].kind /\ t.chat = task[i].chat /\ t.by = task[i].by
        /\ t.archived = task[i].archived /\ t.saved = task[i].saved
    BY <1>1 DEF ATask
  <2> HIDE DEF t
  <2> QED BY <1>4, <2>1, <2>2, <2>3
<1>6. CASE MessageToolRuns(i)
  <2> DEFINE t == [task[i] EXCEPT !.pc = "model", !.spoke = "yes"]
  <2>1. Put(i, t)
    BY <1>6 DEF MessageToolRuns
  <2>2. t \in ATask
    BY <1>1 DEF ATask, Places
  <2>3. /\ t.pc = "model" /\ t.object = task[i].object /\ t.stop = "no"
        /\ t.kind = task[i].kind /\ t.chat = task[i].chat /\ t.by = task[i].by
        /\ t.archived = task[i].archived /\ t.saved = task[i].saved
    BY <1>1 DEF ATask
  <2> HIDE DEF t
  <2> QED BY <1>4, <2>1, <2>2, <2>3
<1> QED BY <1>5, <1>6

\* The steps that end a task without touching its session.
LEMMA EndQuiet ==
    ASSUME SInv, NEW i \in Tasks,
           PrepareFails(i) \/ RefreshFails(i) \/ ModelFails(i) \/ TurnReplies(i) \/ CancelArrives(i)
    PROVE  SInv'
<1>1. Others(i) /\ PlaceOK(task[i])
  BY TaskIs DEF PrepareFails, RefreshFails, ModelFails, TurnReplies, CancelArrives, Runs, Others
<1>2. CASE PrepareFails(i) \/ RefreshFails(i) \/ ModelFails(i)
  BY <1>1, <1>2, OverQuiet DEF PrepareFails, RefreshFails, ModelFails, Runs, Fails, Sync
<1>3. CASE TurnReplies(i)
  BY <1>1, <1>3, OverQuiet DEF TurnReplies, Sync, Locked, Holding
<1>4. CASE CancelArrives(i)
  BY <1>1, <1>4, OverQuiet DEF CancelArrives, PlaceOK
<1> QED BY <1>2, <1>3, <1>4

\* A task as it begins.
LEMMA NewTaskIs ==
    ASSUME NEW kind \in Kind, NEW chat \in Chats, NEW pc \in Places
    PROVE  LET t == NewTask(kind, chat, pc) IN
           /\ t \in ATask /\ t.kind = kind /\ t.chat = chat /\ t.pc = pc /\ t.object = 0 /\ t.stop = "no"
           /\ t.saved = "no" /\ t.archived = 0 /\ t.by = 0
<1>1. 0 \in 0..MaxFailures
  BY AgentAssumption
<1> QED BY <1>1 DEF NewTask, ATask

\* A message arrives.
LEMMA ReceiveQuiet ==
    ASSUME SInv, NEW kind \in Kinds, NEW chat \in Chats, Receive(kind, chat)
    PROVE  SInv'
<1>1. Types /\ Control /\ used \in [messages : Nat, tools : Nat, crashes : Nat] /\ tools \in [chat : Chats, sent : {"yes", "no"}]
  BY DEF SInv, Control, Types, StoreTypes
<1>2. kind \in {"user", "new", "stop", "status"}
  BY AgentAssumption
<1> DEFINE t == NewTask(kind, chat, "queued")
           new == {Len(task) + 1}
<1>3. /\ t \in ATask /\ t.kind = kind /\ t.chat = chat /\ t.pc = "queued" /\ t.object = 0 /\ t.stop = "no"
      /\ t.saved = "no" /\ t.archived = 0
  BY <1>2, NewTaskIs DEF Kind, Places
<1>4. task' = Append(task, t) /\ inbound' = Append(inbound, Len(task) + 1)
  BY DEF Receive
<1> HIDE DEF t
<1>5. /\ task' \in Seq(ATask) /\ Tasks' = Tasks \cup new /\ Len(task) + 1 \notin Tasks
      /\ task'[Len(task) + 1] = t /\ \A k \in Tasks : task'[k] = task[k]
  BY <1>1, <1>3, <1>4, AppendIs
<1>6. 0 \notin Tasks
  BY <1>1, TasksAre
<1>7. PlaceOK(t)
  BY <1>2, <1>3 DEF PlaceOK, PlacesOf, Places
<1>8. UNCHANGED <<loop, object, cache, disk, lock, tools, ghost>> /\ used' = [used EXCEPT !.messages = @ + 1]
  BY DEF Receive
<1>9. used'.crashes = used.crashes /\ used' \in [messages : Nat, tools : Nat, crashes : Nat]
  BY <1>1, <1>8
<1>10. Moves(0, new)
  BY <1>2, <1>3, <1>4, <1>5, <1>6, <1>7, <1>8 DEF Moves
<1>11. LockMoves(0)
  BY <1>6, <1>8 DEF LockMoves
<1>12. Quietly(0, new)
  BY <1>3, <1>5, <1>6, <1>8, <1>9 DEF Quietly
<1> QED BY <1>1, <1>8, <1>9, <1>10, <1>11, <1>12, Move, QuietSessions, SameStore DEF SInv

\* A subagent begins.
LEMMA SpawnQuiet ==
    ASSUME SInv, NEW i \in Tasks, SpawnToolRuns(i)
    PROVE  SInv'
<1>1. /\ Types /\ Control /\ used \in [messages : Nat, tools : Nat, crashes : Nat] /\ tools \in [chat : Chats, sent : {"yes", "no"}]
      /\ task[i] \in ATask /\ PlaceOK(task[i]) /\ task[i].stop = "no" /\ Others(i) /\ task[i].pc = "spawn" /\ i \in Nat
  BY TaskIs DEF SpawnToolRuns, Runs, Others
<1>2. task[i].kind \in {"user", "system"} /\ task[i].archived = 0 /\ task[i].saved = "no"
  BY <1>1 DEF PlaceOK, PlacesOf, ATask, Kind, Settled
<1> DEFINE t == [task[i] EXCEPT !.pc = "model"]
           u == [NewTask("subagent", tools.chat, "running") EXCEPT !.by = i]
           new == {Len(task) + 1}
<1>3. t \in ATask
  BY <1>1 DEF ATask, Places
<1>4. /\ t.pc = "model" /\ t.object = task[i].object /\ t.stop = "no"
      /\ t.kind = task[i].kind /\ t.chat = task[i].chat /\ t.by = task[i].by
      /\ t.archived = task[i].archived /\ t.saved = task[i].saved
  BY <1>1 DEF ATask
<1>5. /\ u \in ATask /\ u.kind = "subagent" /\ u.pc = "running" /\ u.object = 0 /\ u.stop = "no"
      /\ u.saved = "no" /\ u.archived = 0 /\ u.by = i
  <2>1. PICK v : v = NewTask("subagent", tools.chat, "running")
    OBVIOUS
  <2>2. tools.chat \in Chats /\ "subagent" \in Kind /\ "running" \in Places
    BY <1>1 DEF Kind, Places
  <2>3. /\ v \in ATask /\ v.kind = "subagent" /\ v.pc = "running" /\ v.object = 0 /\ v.stop = "no"
        /\ v.saved = "no" /\ v.archived = 0
    BY <2>1, <2>2, NewTaskIs
  <2>4. u = [v EXCEPT !.by = i]
    BY <2>1
  <2> QED BY <1>1, <2>3, <2>4 DEF ATask
<1>6. task' = Append([task EXCEPT ![i] = t], u)
  <2>1. [task EXCEPT ![i].pc = "model"] = [task EXCEPT ![i] = t]
    OBVIOUS
  <2> QED BY <2>1 DEF SpawnToolRuns
<1> HIDE DEF t, u
<1>7. /\ task' \in Seq(ATask) /\ Tasks' = Tasks \cup new /\ Len(task) + 1 \notin Tasks
      /\ task'[Len(task) + 1] = u /\ task'[i] = t /\ \A k \in Tasks \ {i} : task'[k] = task[k]
  BY <1>1, <1>3, <1>5, <1>6, PutAppendIs
<1>8. PlaceOK(t) /\ PlaceOK(u)
  BY <1>2, <1>4, <1>5 DEF PlaceOK, PlacesOf, Places, Sync
<1>9. UNCHANGED <<inbound, loop, object, cache, disk, lock, tools, ghost, used>>
  BY DEF SpawnToolRuns
<1>10. loop.pc = "stopSubagents" /\ task[i].chat = task[loop.msg].chat => task[i].kind = "system"
  <2> SUFFICES ASSUME loop.pc = "stopSubagents", task[i].chat = task[loop.msg].chat, task[i].kind = "user" PROVE FALSE
    BY <1>2
  <2>1. i \in ActiveTasks(task[loop.msg].chat)
    BY <1>1 DEF ActiveTasks, InDispatch, DispatchKey, Dispatched
  <2> QED BY <1>1, <2>1 DEF Control, StopOK
<1>11. Moves(i, new)
  BY <1>1, <1>4, <1>5, <1>7, <1>8, <1>9, <1>10 DEF Moves, Others
<1>12. LockMoves(i)
  BY <1>1, <1>4, <1>7, <1>9 DEF LockMoves, Locked, Holding
<1>13. Quietly(i, new)
  BY <1>1, <1>4, <1>5, <1>7, <1>9 DEF Quietly, Sync, Settled, Working, Holding, Dispatched
<1> QED BY <1>1, <1>9, <1>11, <1>12, <1>13, Move, QuietSessions, SameStore DEF SInv

\* A subagent reports.
LEMMA SubagentQuiet ==
    ASSUME SInv, NEW i \in Tasks, SubagentEnds(i)
    PROVE  SInv'
<1>1. /\ Types /\ Control /\ used \in [messages : Nat, tools : Nat, crashes : Nat] /\ tools \in [chat : Chats, sent : {"yes", "no"}]
      /\ task[i] \in ATask /\ PlaceOK(task[i]) /\ task[i].stop = "no" /\ Others(i) /\ task[i].pc = "running"
      /\ task[i].chat \in Chats
  BY TaskIs DEF SubagentEnds, Runs, Others
<1> DEFINE t == Over(i)
           u == NewTask("system", task[i].chat, "queued")
           new == {Len(task) + 1}
<1>2. /\ t \in ATask /\ PlaceOK(t) /\ t.pc = "done" /\ t.stop = "no" /\ t.object = 0
      /\ t.kind = task[i].kind /\ t.chat = task[i].chat /\ t.by = task[i].by
      /\ t.archived = task[i].archived /\ t.saved = task[i].saved
  BY <1>1, OverIs
<1>3. /\ u \in ATask /\ u.kind = "system" /\ u.pc = "queued" /\ u.object = 0 /\ u.stop = "no"
      /\ u.saved = "no" /\ u.archived = 0
  <2>1. "system" \in Kind /\ "queued" \in Places
    BY DEF Kind, Places
  <2> QED BY <1>1, <2>1, NewTaskIs
<1>4. task' = Append([task EXCEPT ![i] = t], u) /\ inbound' = Append(inbound, Len(task) + 1)
  BY DEF SubagentEnds
<1> HIDE DEF t, u
<1>5. /\ task' \in Seq(ATask) /\ Tasks' = Tasks \cup new /\ Len(task) + 1 \notin Tasks
      /\ task'[Len(task) + 1] = u /\ task'[i] = t /\ \A k \in Tasks \ {i} : task'[k] = task[k]
  BY <1>1, <1>2, <1>3, <1>4, PutAppendIs
<1>6. PlaceOK(u)
  BY <1>3 DEF PlaceOK, PlacesOf, Places
<1>7. UNCHANGED <<loop, object, cache, disk, lock, tools, ghost, used>>
  BY DEF SubagentEnds
<1>8. Moves(i, new)
  BY <1>1, <1>2, <1>3, <1>4, <1>5, <1>6, <1>7 DEF Moves, Others
<1>9. LockMoves(i)
  BY <1>1, <1>2, <1>5, <1>7 DEF LockMoves, Locked, Holding
<1>10. Quietly(i, new)
  BY <1>1, <1>2, <1>3, <1>5, <1>7 DEF Quietly, Sync, Settled, Working, Holding
<1> QED BY <1>1, <1>7, <1>8, <1>9, <1>10, Move, QuietSessions, SameStore DEF SInv

\* The loop itself.
LEMMA LoopQuiet ==
    ASSUME SInv, Loop
    PROVE  SInv'
<1>1. UNCHANGED <<object, cache, disk, lock, tools, ghost, used>> /\ Control
  BY DEF SInv, Loop, Consume, StatusBegins, StatusReplies, StopBegins, StopSubagents, StopReplies
<1>2. /\ Control' /\ Tasks' = Tasks
      /\ \A k \in Tasks :
            /\ task'[k].kind = task[k].kind /\ task'[k].chat = task[k].chat
            /\ task'[k].archived = task[k].archived /\ task'[k].saved = task[k].saved
  BY <1>1, LoopControl
<1>3. PICK i : /\ \A k \in Tasks \ {i} :
                      /\ task'[k].pc = task[k].pc /\ task'[k].object = task[k].object
                      /\ task'[k].from = task[k].from /\ task'[k].upto = task[k].upto
               /\ i \in Tasks => /\ task[i].pc = "queued" /\ task'[i].pc \in {"lock", "done"}
                                 /\ task'[i].object \in {task[i].object, 0}
  BY <1>1, LoopControl
<1>4. Quietly(i, {})
  BY <1>1, <1>2, <1>3 DEF Quietly, Sync, Settled
<1> QED BY <1>2, <1>4, QuietSessions DEF SInv

-----------------------------------------------------------------------------
(* Sessions: a message enters. *)

\* Entries stay entries.
LEMMA EntriesStay ==
    ASSUME Tasks \subseteq Tasks',
           \A k \in Tasks : /\ task'[k].kind = task[k].kind /\ task'[k].chat = task[k].chat
                            /\ task[k].pc \in Settled => task'[k].pc \in Settled
    PROVE  \A c, e : EntriesOK(c, e) => EntriesOK(c, e)'
  BY DEF EntriesOK

\* Entries of a session are turns, and not one that is not over.
LEMMA EntriesAre ==
    ASSUME SInv, NEW o \in DOMAIN object
    PROVE  /\ object[o].chat \in Chats /\ object[o].done \in Nat /\ Len(object[o].entries) \in Nat
           /\ object[o].entries \in Seq(Nat)
           /\ DOMAIN object[o].entries = 1..Len(object[o].entries)
           /\ \A n \in 1..Len(object[o].entries) :
                 /\ object[o].entries[n] \in Tasks /\ task[object[o].entries[n]].chat = object[o].chat
                 /\ task[object[o].entries[n]].pc \in Settled
                 /\ task[object[o].entries[n]].kind \in {"user", "system"}
                 /\ \A m \in 1..Len(object[o].entries) : object[o].entries[m] = object[o].entries[n] => m = n
           /\ \A n \in object[o].done + 1 .. Len(object[o].entries) : n \in 1..Len(object[o].entries)
<1>1. Types /\ ObjectOK(o)
  BY DEF SInv, Control, Sessions
<1>2. /\ object[o].chat \in Chats /\ object[o].done \in Nat /\ Len(object[o].entries) \in Nat
      /\ object[o].entries \in Seq(Nat)
      /\ DOMAIN object[o].entries = 1..Len(object[o].entries)
  BY <1>1, ObjectsAre
<1>3. \A n \in object[o].done + 1 .. Len(object[o].entries) : n \in 1..Len(object[o].entries)
  BY <1>2
<1> QED BY <1>1, <1>2, <1>3 DEF ObjectOK, EntriesOK

\* So are those of a file.
LEMMA FileEntriesAre ==
    ASSUME SInv, NEW c \in Chats
    PROVE  /\ disk[c].done \in Nat /\ Len(disk[c].entries) \in Nat
           /\ DOMAIN disk[c].entries = 1..Len(disk[c].entries)
           /\ \A n \in 1..Len(disk[c].entries) :
                 /\ disk[c].entries[n] \in Tasks /\ task[disk[c].entries[n]].chat = c
                 /\ task[disk[c].entries[n]].pc \in Settled
           /\ \A n \in disk[c].done + 1 .. Len(disk[c].entries) : n \in 1..Len(disk[c].entries)
<1>1. Types /\ FileOK(c)
  BY DEF SInv, Control, Sessions
<1>2. /\ disk[c].done \in Nat /\ Len(disk[c].entries) \in Nat
      /\ DOMAIN disk[c].entries = 1..Len(disk[c].entries)
  BY <1>1, FilesAre
<1>3. \A n \in disk[c].done + 1 .. Len(disk[c].entries) : n \in 1..Len(disk[c].entries)
  BY <1>2
<1> QED BY <1>1, <1>2, <1>3 DEF FileOK, EntriesOK

\* What becomes of the objects and the cache.
LEMMA Entered ==
    ASSUME SInv, NEW i \in Tasks, Enter(i)
    PROVE  LET c == task[i].chat
               n == Len(object) + 1
           IN  /\ StoreTypes' /\ disk' = disk /\ used' = used /\ n \notin DOMAIN object /\ n # 0
               /\ \A o \in DOMAIN object : o \in DOMAIN object' /\ object'[o] = object[o]
               /\ \A d \in Chats : d # c => cache'[d] = cache[d]
               /\ \/ cache[c] # 0 /\ object' = object /\ cache' = cache
                  \/ /\ cache[c] = 0 /\ cache'[c] = n /\ DOMAIN object' = DOMAIN object \cup {n}
                     /\ object'[n] = [chat |-> c, entries |-> disk[c].entries, done |-> disk[c].done]
               /\ cache'[c] \in DOMAIN object' /\ object'[cache'[c]].chat = c
               /\ ghost'.torn = ghost.torn /\ ghost.overlap \subseteq ghost'.overlap
               /\ c \notin ghost'.overlap => \A k \in InTurn : task[k].chat # c
<1> DEFINE c == task[i].chat
           n == Len(object) + 1
<1>1. Types /\ c \in Chats /\ \A k \in Tasks : ~ InSync(k)
  BY TaskIs DEF Enter, Runs, InSync
<1>2. object \in Seq(AnObject) /\ Len(object) \in Nat /\ DOMAIN object = 1..Len(object) /\ n \notin DOMAIN object /\ n # 0
      /\ cache \in [Chats -> 0..Len(object)] /\ ghost \in [overlap : SUBSET Chats, torn : SUBSET Chats]
  BY <1>1, ObjectsAre DEF Types, StoreTypes
<1>3. FileOK(c)
  BY <1>1 DEF SInv, Sessions
<1>4. /\ ghost' \in [overlap : SUBSET Chats, torn : SUBSET Chats]
      /\ ghost'.torn = ghost.torn /\ ghost.overlap \subseteq ghost'.overlap
      /\ c \notin ghost'.overlap => \A k \in InTurn : task[k].chat # c
  <2>1. CASE \E k \in InTurn : task[k].chat = task[i].chat
    <3>1. ghost' = [ghost EXCEPT !.overlap = ghost.overlap \cup {c}]
      BY <2>1 DEF Enter
    <3> QED BY <1>1, <1>2, <3>1
  <2>2. CASE ~ \E k \in InTurn : task[k].chat = task[i].chat
    BY <1>2, <2>2 DEF Enter
  <2> QED BY <2>1, <2>2
<1>5. disk' = disk /\ used' = used /\ tools' = tools /\ GetOrCreate(i)
  BY DEF Enter
<1>6. CASE cache[c] # 0
  <2>1. object' = object /\ cache' = cache
    BY <1>5, <1>6 DEF GetOrCreate
  <2>2. cache[c] \in DOMAIN object /\ object[cache[c]].chat = c
    BY <1>1, <1>2, <1>3, <1>6 DEF FileOK
  <2> QED BY <1>1, <1>2, <1>4, <1>5, <1>6, <2>1, <2>2 DEF Types, StoreTypes
<1>7. CASE cache[c] = 0
  <2> DEFINE x == [chat |-> c, entries |-> disk[c].entries, done |-> disk[c].done]
  <2>1. object' = Append(object, x) /\ cache' = [cache EXCEPT ![c] = n]
    BY <1>5, <1>7 DEF GetOrCreate
  <2>2. x \in AnObject /\ x.chat = c
    BY <1>1, FilesAre DEF AnObject
  <2> HIDE DEF x
  <2>3. object' \in Seq(AnObject) /\ Len(object') = n /\ object'[n] = x /\ \A o \in 1..Len(object) : object'[o] = object[o]
    BY <1>2, <2>1, <2>2, AppendProperties
  <2>4. DOMAIN object' = DOMAIN object \cup {n}
    BY <1>2, <2>3
  <2>5. cache' \in [Chats -> 0..Len(object')] /\ cache'[c] = n /\ \A d \in Chats : d # c => cache'[d] = cache[d]
    BY <1>1, <1>2, <2>1, <2>3
  <2> QED BY <1>1, <1>2, <1>4, <1>5, <1>7, <2>2, <2>3, <2>4, <2>5 DEF Types, StoreTypes, x
<1> QED BY <1>6, <1>7

\* The task that enters.
LEMMA EnteredTask ==
    ASSUME SInv, NEW i \in Tasks, Enter(i)
    PROVE  /\ Moves(i, {}) /\ LockMoves(i) /\ Others(i) /\ task[i].pc = "lock" /\ task[i].kind \in Dispatched
           /\ task'[i].pc \in {"wait", "prepare"} /\ task'[i].object = cache'[task[i].chat]
           /\ task'[i].archived = task[i].archived /\ task'[i].saved = task[i].saved
<1>1. task[i] \in ATask /\ PlaceOK(task[i]) /\ task[i].stop = "no" /\ Others(i) /\ task[i].pc = "lock" /\ Types
  BY TaskIs DEF Enter, Runs, Others
<1>2. task[i].kind \in Dispatched /\ task[i].archived = 0 /\ task[i].saved = "no"
  BY <1>1 DEF PlaceOK, PlacesOf, ATask, Kind, Settled, Dispatched
<1> DEFINE pc == IF task[i].kind = "new" THEN "wait" ELSE "prepare"
           t  == [task[i] EXCEPT !.object = cache'[task[i].chat], !.pc = pc]
<1>3. Put(i, t)
  BY DEF Enter
<1>4. cache'[task[i].chat] \in Nat
  <2>1. cache' \in [Chats -> 0..Len(object')] /\ Len(object') \in Nat
    <3>1. StoreTypes'
      BY Entered
    <3> QED BY <3>1 DEF StoreTypes
  <2> QED BY <2>1, TaskIs
<1>5. pc \in {"wait", "prepare"} /\ pc = IF task[i].kind = "new" THEN "wait" ELSE "prepare"
  OBVIOUS
<1> HIDE DEF pc
<1>6. t \in ATask
  BY <1>1, <1>4, <1>5 DEF ATask, Places
<1>7. /\ t.pc = pc /\ t.object = cache'[task[i].chat] /\ t.stop = "no"
      /\ t.kind = task[i].kind /\ t.chat = task[i].chat /\ t.by = task[i].by
      /\ t.archived = task[i].archived /\ t.saved = task[i].saved
  BY <1>1 DEF ATask
<1> HIDE DEF t
<1>8. task' \in Seq(ATask) /\ Tasks' = Tasks /\ task'[i] = t /\ \A k \in Tasks \ {i} : task'[k] = task[k]
  BY <1>1, <1>3, <1>6, PutIs DEF Put
<1>9. PlaceOK(t)
  BY <1>2, <1>5, <1>7 DEF PlaceOK, PlacesOf, Places, Dispatched
<1>10. inbound' = inbound /\ loop' = loop
  BY DEF Enter
<1>11. Moves(i, {})
  BY <1>1, <1>5, <1>7, <1>8, <1>9, <1>10 DEF Moves, Others
<1>12. LockMoves(i)
  BY <1>1, <1>5, <1>7, <1>8 DEF Enter, LockMoves, Locked, Holding
<1> QED BY <1>1, <1>2, <1>5, <1>7, <1>8, <1>11, <1>12

\* A message that enters keeps the invariant.
LEMMA EnterSessions ==
    ASSUME SInv, NEW i \in Tasks, Enter(i)
    PROVE  SInv'
<1>1. PICK c \in Chats, n \in Nat : c = task[i].chat /\ n = Len(object) + 1
  BY TaskIs, ObjectsAre
<1>2. /\ StoreTypes' /\ disk' = disk /\ used' = used /\ n \notin DOMAIN object /\ n # 0
      /\ \A o \in DOMAIN object : o \in DOMAIN object' /\ object'[o] = object[o]
      /\ \A d \in Chats : d # c => cache'[d] = cache[d]
      /\ \/ cache[c] # 0 /\ object' = object /\ cache' = cache
         \/ /\ cache[c] = 0 /\ cache'[c] = n /\ DOMAIN object' = DOMAIN object \cup {n}
            /\ object'[n] = [chat |-> c, entries |-> disk[c].entries, done |-> disk[c].done]
      /\ cache'[c] \in DOMAIN object' /\ object'[cache'[c]].chat = c
      /\ ghost'.torn = ghost.torn /\ ghost.overlap \subseteq ghost'.overlap
      /\ c \notin ghost'.overlap => \A k \in InTurn : task[k].chat # c
  BY <1>1, Entered
<1>3. /\ Moves(i, {}) /\ LockMoves(i) /\ Others(i) /\ task[i].pc = "lock" /\ task[i].kind \in Dispatched
      /\ task'[i].pc \in {"wait", "prepare"} /\ task'[i].object = cache'[c]
      /\ task'[i].archived = task[i].archived /\ task'[i].saved = task[i].saved
  BY <1>1, EnteredTask
<1>4. Tasks' = Tasks /\ (\A k \in Tasks \ {i} : task'[k] = task[k]) /\ task'[i].kind = task[i].kind /\ task'[i].chat = c
  BY <1>1, <1>3 DEF Moves
<1>5. Control' /\ Sessions /\ Types
  BY <1>2, <1>3, Move DEF SInv, Control
<1>6. \A k \in Tasks : ~ InSync(k) /\ task[k].pc \notin Saving /\ task'[k].pc \notin Saving \cup {"clear", "checkpoint"}
  BY <1>3, <1>4 DEF Others, InSync, Saving
<1>7. /\ \A d : ~ IsSaving(d) /\ ~ IsSaving(d)'
      /\ \A o, m : ~ Committing(o, m)
  BY <1>4, <1>6 DEF IsSaving, Committing, InSync
<1>8. \A d, e : EntriesOK(d, e) => EntriesOK(d, e)'
  <2>1. \A k \in Tasks : /\ task'[k].kind = task[k].kind /\ task'[k].chat = task[k].chat
                         /\ task[k].pc \in Settled => task'[k].pc \in Settled
    BY <1>1, <1>3, <1>4 DEF Settled
  <2> QED BY <1>4, <2>1, EntriesStay
<1>9. \A k \in Tasks : task'[k].archived = task[k].archived /\ task'[k].saved = task[k].saved /\ task'[k].chat = task[k].chat
  BY <1>1, <1>3, <1>4
<1>10. /\ \A k : k \in InTurn' <=> k = i \/ k \in InTurn
       /\ i \notin InTurn /\ \A k \in InTurn : k \in Tasks
  BY <1>3, <1>4 DEF InTurn
<1>11. FileOK(c) /\ EntriesOK(c, disk[c].entries) /\ (c \in ghost.torn \/ disk[c].done <= Len(disk[c].entries))
       /\ (cache[c] = 0 => disk[c] = Blank \/ (Fresh(disk[c]) /\ \A o \in DOMAIN object : object[o].chat # c))
  BY <1>5, <1>7 DEF Sessions, FileOK
<1>12. DOMAIN object \subseteq DOMAIN object' /\ \A o \in DOMAIN object' : o \in DOMAIN object \/ (o = n /\ cache[c] = 0)
  BY <1>2
<1>13. cache[c] = 0 => object'[n].chat = c /\ object'[n].entries = disk[c].entries /\ object'[n].done = disk[c].done
  BY <1>2
<1>14. ASSUME NEW o \in DOMAIN object' PROVE ObjectOK(o)'
  <2>1. CASE o \in DOMAIN object
    <3>1. PICK s : s = object[o]
      OBVIOUS
    <3>2. /\ EntriesOK(s.chat, s.entries) /\ (s.chat \in ghost.torn \/ s.done <= Len(s.entries))
          /\ \A m \in s.done + 1 .. Len(s.entries) : task[s.entries[m]].archived <= used.crashes
      BY <1>5, <1>7, <2>1, <3>1 DEF Sessions, ObjectOK
    <3>3. \A m \in s.done + 1 .. Len(s.entries) : s.entries[m] \in Tasks
      BY <2>1, <3>1, EntriesAre
    <3> QED BY <1>2, <1>8, <1>9, <2>1, <3>1, <3>2, <3>3 DEF ObjectOK
  <2>2. CASE o = n /\ cache[c] = 0
    <3>1. PICK s : s = disk[c]
      OBVIOUS
    <3>2. EntriesOK(c, s.entries)'
      BY <1>8, <1>11, <3>1
    <3>3. \A m \in s.done + 1 .. Len(s.entries) : task'[s.entries[m]].archived <= used'.crashes
      <4>1. CASE s = Blank
        <5>1. s.done + 1 .. Len(s.entries) = {}
          BY <4>1 DEF Blank
        <5> QED BY <5>1
      <4>2. CASE Fresh(s)
        <5>1. \A m \in s.done + 1 .. Len(s.entries) : s.entries[m] \in Tasks
          BY <3>1, FileEntriesAre
        <5> QED BY <1>2, <1>9, <4>2, <5>1 DEF Fresh
      <4> QED BY <1>11, <2>2, <3>1, <4>1, <4>2
    <3> QED BY <1>2, <1>11, <1>13, <2>2, <3>1, <3>2, <3>3 DEF ObjectOK
  <2> QED BY <1>12, <2>1, <2>2
<1>15. ASSUME NEW o \in DOMAIN object', NEW p \in DOMAIN object', o # p PROVE Disjoint(o, p)'
  <2>1. CASE o \in DOMAIN object /\ p \in DOMAIN object
    BY <1>2, <1>5, <1>15, <2>1 DEF Sessions, Disjoint
  <2>2. \A q \in DOMAIN object : cache[c] = 0 =>
           \A l \in DOMAIN disk[c].entries, m \in DOMAIN object[q].entries : disk[c].entries[l] # object[q].entries[m]
    <3> SUFFICES ASSUME NEW q \in DOMAIN object, cache[c] = 0,
                        NEW l \in DOMAIN disk[c].entries, NEW m \in DOMAIN object[q].entries,
                        disk[c].entries[l] = object[q].entries[m]
                 PROVE  FALSE
      OBVIOUS
    <3>1. disk[c] # Blank
      BY DEF Blank
    <3>2. object[q].chat # c
      BY <1>11, <3>1
    <3>3. task[object[q].entries[m]].chat = object[q].chat
      BY EntriesAre
    <3>4. task[disk[c].entries[l]].chat = c
      BY FileEntriesAre
    <3> QED BY <3>2, <3>3, <3>4
  <2>3. CASE o = n /\ p \in DOMAIN object /\ cache[c] = 0
    BY <1>2, <1>13, <2>2, <2>3 DEF Disjoint
  <2>4. CASE p = n /\ o \in DOMAIN object /\ cache[c] = 0
    BY <1>2, <1>13, <2>2, <2>4 DEF Disjoint
  <2> QED BY <1>12, <1>15, <2>1, <2>3, <2>4
<1>16. ASSUME NEW d \in Chats PROVE FileOK(d)'
  <2>1. FileOK(d)
    BY <1>5 DEF Sessions
  <2>2. EntriesOK(d, disk[d].entries)'
    <3>1. PICK e : e = disk[d].entries
      OBVIOUS
    <3>2. EntriesOK(d, e)'
      BY <1>8, <2>1, <3>1 DEF FileOK
    <3>3. disk'[d].entries = e
      BY <1>2, <3>1
    <3> QED BY <3>2, <3>3 DEF EntriesOK
  <2>3. CASE d = c
    <3>1. cache'[c] # 0 /\ disk[c] = [entries |-> object'[cache'[c]].entries, done |-> object'[cache'[c]].done]
      <4>1. CASE cache[c] # 0
        BY <1>2, <1>7, <2>1, <2>3, <4>1 DEF FileOK, Contents
      <4>2. CASE cache[c] = 0
        BY <1>2, <1>5, <1>13, <4>2, FilesAre
      <4> QED BY <4>1, <4>2
    <3> QED BY <1>2, <2>1, <2>2, <2>3, <3>1 DEF FileOK, Contents
  <2>4. CASE d # c
    <3>1. cache'[d] = cache[d] /\ (cache[d] # 0 => cache[d] \in DOMAIN object)
      BY <1>2, <1>5, <2>4, ObjectsAre DEF Types, StoreTypes
    <3>2. cache[d] # 0 => object'[cache[d]] = object[cache[d]]
      BY <1>2, <3>1
    <3>3. Fresh(disk[d]) => Fresh(disk[d])'
      <4>1. PICK s : s = disk[d]
        OBVIOUS
      <4>2. \A m \in s.done + 1 .. Len(s.entries) : s.entries[m] \in Tasks
        BY <4>1, FileEntriesAre
      <4> QED BY <1>2, <1>9, <4>1, <4>2 DEF Fresh
    <3>4. (\A o \in DOMAIN object : object[o].chat # d) => \A o \in DOMAIN object' : object'[o].chat # d
      BY <1>2, <1>12, <1>13, <2>4
    <3>5. d \in ghost'.torn \/ disk'[d].done <= Len(disk'[d].entries)
      BY <1>2, <2>1 DEF FileOK
    <3>6. cache'[d] # 0 => object'[cache'[d]].chat = d
      BY <2>1, <3>1, <3>2 DEF FileOK
    <3>7. IF cache'[d] # 0 THEN disk'[d] = Contents(cache[d])'
          ELSE disk'[d] = Blank \/ (Fresh(disk[d])' /\ \A o \in DOMAIN object' : object'[o].chat # d)
      BY <1>2, <1>7, <2>1, <3>1, <3>2, <3>3, <3>4 DEF FileOK, Contents
    <3> QED BY <1>2, <2>2, <3>5, <3>6, <3>7 DEF FileOK
  <2> QED BY <2>3, <2>4
<1>17. ASSUME NEW d \in Chats PROVE CalmOK(d)'
  <2>1. CalmOK(d) /\ (d \notin ghost'.overlap => d \notin ghost.overlap) /\ (Calm(d)' => Calm(d))
    BY <1>2, <1>5 DEF Sessions, Calm
  <2>2. d \notin ghost'.overlap => \A k, l \in InTurn' : task'[k].chat = d /\ task'[l].chat = d => k = l
    <3> SUFFICES ASSUME d \notin ghost'.overlap, NEW k \in InTurn', NEW l \in InTurn', task'[k].chat = d, task'[l].chat = d
                 PROVE  k = l
      OBVIOUS
    <3>1. k \in InTurn /\ l \in InTurn => k = l
      BY <1>9, <1>10, <2>1 DEF CalmOK
    <3>2. (k = i \/ k \in InTurn) /\ (l = i \/ l \in InTurn)
      BY <1>10
    <3>3. k = i => d = c /\ l \notin InTurn
      BY <1>2, <1>4, <1>9, <1>10
    <3>4. l = i => d = c /\ k \notin InTurn
      BY <1>2, <1>4, <1>9, <1>10
    <3> QED BY <3>1, <3>2, <3>3, <3>4
  <2>3. Calm(d)' => \A o \in DOMAIN object' : object'[o].chat = d /\ o # cache'[d] => object'[o].entries = <<>>
    <3> SUFFICES ASSUME Calm(d)', NEW o \in DOMAIN object', object'[o].chat = d, o # cache'[d]
                 PROVE  object'[o].entries = <<>>
      OBVIOUS
    <3>1. o \in DOMAIN object
      BY <1>2, <1>12, <1>13
    <3>2. o # cache[d]
      BY <1>2, <1>5, <3>1, ObjectsAre
    <3> QED BY <1>2, <2>1, <3>1, <3>2 DEF CalmOK
  <2> QED BY <2>2, <2>3 DEF CalmOK
<1>18. ASSUME NEW k \in Tasks PROVE KeptOK(k)'
  BY <1>2, <1>5, <1>9 DEF Sessions, KeptOK, InFile, Calm
<1>19. ASSUME NEW k \in Tasks PROVE WorkOK(k)'
  <2>1. Len(object') \in Nat /\ DOMAIN object' = 1..Len(object')
    BY <1>2 DEF StoreTypes
  <2>2. CASE k = i
    <3>1. task'[i].object \in 0..Len(object') /\ task'[i].object # 0
      BY <1>2, <1>3, <2>1
    <3> QED BY <1>2, <1>3, <1>4, <2>2, <3>1 DEF WorkOK
  <2>3. CASE k # i
    <3>1. PICK t : t = task[k]
      OBVIOUS
    <3>2. WorkOK(k) /\ task'[k] = t /\ t.pc \notin Sync
      BY <1>4, <1>5, <1>6, <2>3, <3>1 DEF Sessions, InSync, Sync
    <3>3. t.object \in 0..Len(object') /\ (t.object # 0 => t.object \in DOMAIN object /\ object'[t.object] = object[t.object])
      BY <1>2, <1>5, <1>12, <2>1, <3>1, <3>2, ObjectsAre DEF WorkOK
    <3>4. t.pc \in Working => t.object # 0 /\ object'[t.object].chat = t.chat
      BY <3>1, <3>2, <3>3 DEF WorkOK
    <3>5. /\ t.pc = "archive" =>
                t.from = object'[t.object].done + 1 /\ t.from <= t.upto /\ t.upto <= Len(object'[t.object].entries)
          /\ t.pc = "archive" /\ t.kind = "new" /\ t.chat \notin ghost'.overlap => t.upto = Len(object'[t.object].entries)
      <4>1. t.pc = "archive" => t.object # 0
        BY <3>4 DEF Working, Holding
      <4> QED BY <1>2, <3>1, <3>2, <3>3, <4>1 DEF WorkOK
    <3>6. Calm(t.chat)' /\ k \in InTurn' => t.object = cache'[t.chat]
      <4> SUFFICES ASSUME Calm(t.chat)', k \in InTurn' PROVE t.object = cache'[t.chat]
        OBVIOUS
      <4>1. k \in InTurn /\ Calm(t.chat)
        BY <1>2, <1>10, <2>3 DEF Calm
      <4>2. t.chat # c /\ t.chat \in Chats
        BY <1>2, <1>10, <3>1, <4>1, TaskIs DEF Calm
      <4> QED BY <1>2, <3>1, <3>2, <4>1, <4>2 DEF WorkOK
    <3> QED BY <3>2, <3>3, <3>4, <3>5, <3>6 DEF WorkOK, Sync
  <2> QED BY <2>2, <2>3
<1> QED BY <1>4, <1>5, <1>14, <1>15, <1>16, <1>17, <1>18, <1>19 DEF SInv, Sessions

-----------------------------------------------------------------------------
(* Sessions: a commit, and the checkpoint after it. *)

\* A task at work, while nobody else is in a synchronous section: its session, which
\* nobody else commits or saves.
LEMMA AtWork ==
    ASSUME SInv, NEW i \in Tasks, task[i].pc \in Working, Others(i)
    PROVE  \E o \in DOMAIN object, c \in Chats :
              /\ task[i].object = o /\ task[i].chat = c /\ object[o].chat = c /\ o # 0
              /\ task[i].from \in Nat /\ task[i].upto \in Nat
              /\ \A p \in DOMAIN object : p # 0
              /\ \A k \in Tasks \ {i} : task[k].pc \notin Sync \cup Saving \cup {"clear", "checkpoint"}
              /\ \A p, m : Committing(p, m) => /\ p = o /\ task[i].pc \in {"clear", "checkpoint"}
                                               /\ task[i].pc = "clear" \/ m <= task[i].upto
              /\ \A d : IsSaving(d) => d = c /\ task[i].pc \in Saving
<1>1. task[i].object \in DOMAIN object /\ object[task[i].object].chat = task[i].chat /\ task[i].chat \in Chats /\ task[i] \in ATask
  BY SessionOf
<1>2. \A p \in DOMAIN object : p # 0
  BY ObjectsAre DEF SInv, Control
<1>3. \A k \in Tasks \ {i} : task[k].pc \notin Sync \cup Saving \cup {"clear", "checkpoint"}
  BY DEF Others, InSync, Sync, Saving
<1>4. \A p, m : Committing(p, m) => /\ p = task[i].object /\ task[i].pc \in {"clear", "checkpoint"}
                                    /\ task[i].pc = "clear" \/ m <= task[i].upto
  BY <1>3 DEF Committing
<1>5. \A d : IsSaving(d) => d = task[i].chat /\ task[i].pc \in Saving
  BY <1>3 DEF IsSaving
<1>6. task[i].from \in Nat /\ task[i].upto \in Nat
  BY <1>1 DEF ATask
<1> QED BY <1>1, <1>2, <1>3, <1>4, <1>5, <1>6

\* Nobody else works on a part of the session under the lock.
LEMMA AloneUnderLock ==
    ASSUME SInv, NEW i \in Tasks, task[i].pc \in Holding, NEW k \in Tasks, k # i, task[k].chat = task[i].chat
    PROVE  task[k].pc \notin Holding
<1>1. LockOK
  BY DEF SInv, Control
<1>2. HoldsLock(i)
  BY <1>1 DEF LockOK
<1>3. task[k].pc \in Holding => HoldsLock(k)
  BY <1>1 DEF LockOK
<1> QED BY <1>2, <1>3 DEF HoldsLock

\* A commit keeps the invariant.
LEMMA CommitSessions ==
    ASSUME SInv, NEW i \in Tasks, ArchiveCommits(i)
    PROVE  SInv'
<1>1. task[i].pc = "archive" /\ Others(i) /\ task[i].pc \in Working /\ Sessions /\ Types
  BY DEF ArchiveCommits, Runs, Others, Working, Holding, SInv, Control
<1>2. PICK o \in DOMAIN object, c \in Chats :
              /\ task[i].object = o /\ task[i].chat = c /\ object[o].chat = c /\ o # 0
              /\ task[i].from \in Nat /\ task[i].upto \in Nat
              /\ \A k \in Tasks \ {i} : task[k].pc \notin Sync \cup Saving \cup {"clear", "checkpoint"}
              /\ \A p, m : ~ Committing(p, m)
              /\ \A d : ~ IsSaving(d)
  BY <1>1, AtWork DEF Saving
<1>3. /\ Tasks' = Tasks /\ Chunk(i) \subseteq Tasks \ {i}
      /\ \A k \in Tasks \ {i} :
            /\ task'[k].archived = IF k \in Chunk(i) THEN task[k].archived + 1 ELSE task[k].archived
            /\ task'[k].pc = task[k].pc
      /\ task'[i].pc = (IF task[i].kind = "new" THEN "clear" ELSE "checkpoint") /\ task'[i].archived = task[i].archived
      /\ \A k \in Tasks :
            /\ task'[k].kind = task[k].kind /\ task'[k].chat = task[k].chat
            /\ task'[k].object = task[k].object /\ task'[k].from = task[k].from /\ task'[k].upto = task[k].upto
            /\ task'[k].saved = task[k].saved /\ task[k].archived \in Nat
  BY TaskCommitted
<1>4. UNCHANGED <<object, cache, disk, ghost, used>> /\ used.crashes \in Nat
  BY <1>1 DEF ArchiveCommits, Types, StoreTypes
<1>5. PICK s : s = object[o]
  OBVIOUS
<1>6. /\ s.chat = c /\ s.done \in Nat /\ Len(s.entries) \in Nat /\ DOMAIN s.entries = 1..Len(s.entries)
      /\ \A n \in 1..Len(s.entries) :
            /\ s.entries[n] \in Tasks /\ task[s.entries[n]].chat = c
            /\ task[s.entries[n]].pc \in Settled
            /\ \A m \in 1..Len(s.entries) : s.entries[m] = s.entries[n] => m = n
      /\ \A n \in s.done + 1 .. Len(s.entries) : n \in 1..Len(s.entries)
  <2>1. o \in DOMAIN object
    BY <1>2
  <2> QED BY SMTT(30), <1>2, <1>5, <2>1, EntriesAre
<1>7. /\ task[i].from = s.done + 1 /\ task[i].upto <= Len(s.entries)
      /\ task[i].kind = "new" /\ c \notin ghost.overlap => task[i].upto = Len(s.entries)
  BY <1>1, <1>2, <1>5 DEF Sessions, WorkOK
<1>8. \A k : k \in Chunk(i) <=> \E n \in s.done + 1 .. task[i].upto : k = s.entries[n]
  BY <1>2, <1>5, <1>7 DEF Chunk
<1>9. \A n \in s.done + 1 .. task[i].upto : n \in 1..Len(s.entries) /\ n \in s.done + 1 .. Len(s.entries)
  BY <1>2, <1>6, <1>7
<1>10. \A k \in Chunk(i) : task[k].archived <= used.crashes
  BY <1>1, <1>2, <1>5, <1>8, <1>9 DEF Sessions, ObjectOK
<1>11. \A k \in Tasks : task[k].pc \in Settled => task'[k].pc \in Settled
  BY <1>1, <1>3 DEF Settled
<1>12. \A d, e : EntriesOK(d, e) => EntriesOK(d, e)'
  BY <1>3, <1>11, EntriesStay
<1>13. \A d : ~ IsSaving(d)'
  BY <1>1, <1>2, <1>3 DEF IsSaving, Saving
<1>14. \A n \in s.done + 1 .. Len(s.entries) : s.entries[n] \in Chunk(i) => n <= task[i].upto
  BY <1>2, <1>6, <1>8, <1>9
<1>15. ASSUME NEW p \in DOMAIN object PROVE ObjectOK(p)'
  <2>1. PICK x : x = object[p]
    OBVIOUS
  <2>2. /\ EntriesOK(x.chat, x.entries) /\ (x.chat \in ghost.torn \/ x.done <= Len(x.entries))
        /\ \A n \in x.done + 1 .. Len(x.entries) : task[x.entries[n]].archived <= used.crashes
    BY <1>1, <1>2, <2>1 DEF Sessions, ObjectOK
  <2>3. EntriesOK(x.chat, x.entries)'
    BY <1>12, <2>2
  <2>4. \A n \in x.done + 1 .. Len(x.entries) : x.entries[n] \in Tasks /\ x.entries[n] # i /\ n \in DOMAIN x.entries
    BY <1>1, <2>1, EntriesAre DEF Settled
  <2>5. ASSUME NEW n \in x.done + 1 .. Len(x.entries)
        PROVE  task'[x.entries[n]].archived <= used.crashes \/ Committing(p, n)'
    <3>1. CASE p # o
      <4>1. Disjoint(p, o)
        BY <1>1, <3>1 DEF Sessions
      <4>2. x.entries[n] \notin Chunk(i)
        BY <1>5, <1>6, <1>8, <1>9, <2>1, <2>4, <4>1 DEF Disjoint
      <4> QED BY <1>3, <2>2, <2>4, <4>2
    <3>2. CASE p = o
      <4>1. x = s
        BY <1>5, <2>1, <3>2
      <4>2. CASE x.entries[n] \notin Chunk(i)
        BY <1>3, <2>2, <2>4, <4>2
      <4>3. CASE x.entries[n] \in Chunk(i)
        <5>1. n <= task[i].upto
          BY <1>14, <4>1, <4>3
        <5> QED BY <1>2, <1>3, <3>2, <5>1 DEF Committing
      <4> QED BY <4>2, <4>3
    <3> QED BY <3>1, <3>2
  <2> QED BY <1>4, <2>1, <2>2, <2>3, <2>5 DEF ObjectOK
<1>16. \A p, q \in DOMAIN object : p # q => Disjoint(p, q)'
  BY <1>1, <1>4 DEF Sessions, Disjoint
<1>17. ASSUME NEW d \in Chats PROVE FileOK(d)'
  <2>1. FileOK(d)
    BY <1>1 DEF Sessions
  <2>2. PICK x : x = disk[d]
    OBVIOUS
  <2>3. EntriesOK(d, x.entries)'
    BY <1>12, <2>1, <2>2 DEF FileOK
  <2>4. Fresh(x) /\ (\A p \in DOMAIN object : object[p].chat # d) => Fresh(x)'
    <3> SUFFICES ASSUME Fresh(x), \A p \in DOMAIN object : object[p].chat # d, NEW n \in x.done + 1 .. Len(x.entries)
                 PROVE  task'[x.entries[n]].archived <= used'.crashes
      BY DEF Fresh
    <3>1. x.entries[n] \in Tasks /\ task[x.entries[n]].chat = d /\ task[x.entries[n]].pc \in Settled
      BY <2>2, FileEntriesAre
    <3>2. d # c
      BY <1>2
    <3>3. x.entries[n] \notin Chunk(i) /\ x.entries[n] # i
      BY <1>1, <1>6, <1>8, <1>9, <3>1, <3>2 DEF Settled
    <3> QED BY <1>3, <1>4, <3>1, <3>3 DEF Fresh
  <2> QED BY <1>2, <1>4, <1>13, <2>1, <2>2, <2>3, <2>4 DEF FileOK, Contents
<1>18. /\ \A k : k \in InTurn' <=> k \in InTurn
       /\ \A k \in InTurn : k \in Tasks
  BY <1>1, <1>3 DEF InTurn
<1>19. ASSUME NEW d \in Chats PROVE CalmOK(d)'
  <2>1. CalmOK(d)
    BY <1>1 DEF Sessions
  <2> QED BY <1>3, <1>4, <1>18, <2>1 DEF CalmOK, Calm
<1>20. ASSUME NEW k \in Tasks PROVE KeptOK(k)'
  <2>1. KeptOK(k) /\ task[k].archived \in Nat
    BY <1>1, <1>3 DEF Sessions
  <2>2. task'[k].archived <= 1 + used.crashes /\ task'[k].archived >= task[k].archived
    BY <1>3, <1>4, <1>10, <2>1 DEF KeptOK
  <2>3. task'[k].archived \in Nat
    BY <1>3, <2>1
  <2> QED BY <1>3, <1>4, <2>1, <2>2, <2>3 DEF KeptOK, InFile, Calm
<1>21. ASSUME NEW k \in Tasks PROVE WorkOK(k)'
  <2>1. PICK t : t = task[k]
    OBVIOUS
  <2>2. WorkOK(k) /\ (k \in InTurn' <=> k \in InTurn)
    BY <1>1, <1>18 DEF Sessions
  <2>3. CASE k # i
    <3>1. t.pc \notin Sync /\ task'[k].pc = t.pc
      BY <1>2, <1>3, <2>1, <2>3
    <3> QED BY <1>3, <1>4, <2>1, <2>2, <3>1 DEF WorkOK, Sync, Calm
  <2>4. CASE k = i
    <3>1. /\ t.object = o /\ t.chat = c /\ o \in 0..Len(object) /\ t.from = s.done + 1 /\ t.from <= t.upto /\ t.upto <= Len(s.entries)
          /\ Calm(c) /\ k \in InTurn => o = cache[c]
      BY <1>1, <1>2, <1>5, <2>1, <2>2, <2>4 DEF WorkOK
    <3>2. \A n \in t.from .. t.upto : task'[s.entries[n]].archived > 0
      <4> SUFFICES ASSUME NEW n \in s.done + 1 .. task[i].upto PROVE task'[s.entries[n]].archived > 0
        BY <2>1, <2>4, <3>1
      <4>1. s.entries[n] \in Chunk(i)
        BY <1>8
      <4>2. s.entries[n] \in Tasks \ {i} /\ task[s.entries[n]].archived \in Nat
        BY <1>3, <4>1
      <4>3. task'[s.entries[n]].archived = task[s.entries[n]].archived + 1
        BY <1>3, <4>1, <4>2
      <4> QED BY <4>2, <4>3
    <3>3. task'[i].pc = "clear" /\ Calm(c) => t.upto = Len(s.entries)
      BY <1>3, <1>7, <2>1, <2>4 DEF Calm
    <3>4. task'[i].pc \in {"clear", "checkpoint"}
      BY <1>3
    <3>5. PICK u : u = task'[i]
      OBVIOUS
    <3>6. u.object = o /\ u.chat = c /\ u.from = t.from /\ u.upto = t.upto /\ u.pc \in {"clear", "checkpoint"}
      BY <1>2, <1>3, <2>1, <2>4, <3>4, <3>5
    <3>7. object'[o] = s /\ (Calm(c)' <=> Calm(c)) /\ cache' = cache /\ Len(object') = Len(object)
      BY <1>4, <1>5 DEF Calm
    <3>8. u.pc = "clear" /\ Calm(c) => \A n \in s.done + 1 .. Len(s.entries) : task'[s.entries[n]].archived > 0
      BY <3>1, <3>2, <3>3, <3>5
    <3> QED BY <1>2, <1>5, <2>2, <2>4, <3>1, <3>2, <3>5, <3>6, <3>7, <3>8 DEF WorkOK
  <2> QED BY <2>3, <2>4
<1> QED BY <1>3, <1>4, <1>15, <1>16, <1>17, <1>19, <1>20, <1>21, CommitControl DEF SInv, Sessions

-----------------------------------------------------------------------------
(* Sessions: a session is written.                                         *)

\* Task i gives the session o of chat c the contents x, in memory and in the file.
TaskWrites(i, o, c, x, pc) ==
    /\ o \in DOMAIN object /\ c \in Chats /\ task[i].object = o /\ task[i].chat = c /\ object[o].chat = c
    /\ <<task[i].pc, pc>> \in {<<"checkpoint", "saved">>, <<"model", "saveTurn">>, <<"clear", "cleared">>}
    /\ task[i].stop = "no" /\ Others(i)
    /\ x \in AnObject /\ x.chat = c
    /\ object' = [object EXCEPT ![o] = x]
    /\ disk' = [disk EXCEPT ![c] = [entries |-> x.entries, done |-> x.done]]
    /\ Goto(i, pc)
    /\ UNCHANGED <<inbound, loop, cache, lock, tools, ghost, used>>

\* What the contents must be.
WrittenOK(i, o, c, x, pc) ==
    /\ \A n \in DOMAIN x.entries :
          /\ x.entries[n] \in Tasks /\ task[x.entries[n]].chat = c
          /\ task[x.entries[n]].pc \in Settled \/ (x.entries[n] = i /\ pc = "saveTurn")
          /\ task[x.entries[n]].kind \in {"user", "system"}
          /\ \A m \in DOMAIN x.entries : x.entries[m] = x.entries[n] => m = n
    /\ c \in ghost.torn \/ x.done <= Len(x.entries)
    /\ \A n \in x.done + 1 .. Len(x.entries) : task[x.entries[n]].archived <= used.crashes
    /\ \A p \in DOMAIN object \ {o} : \A n \in DOMAIN x.entries, m \in DOMAIN object[p].entries :
          x.entries[n] # object[p].entries[m]
    /\ \A k \in Tasks \ {i} : task[k].object = o /\ task[k].pc = "archive" =>
          /\ task[k].from = x.done + 1 /\ task[k].upto <= Len(x.entries)
          /\ task[k].kind = "new" /\ c \notin ghost.overlap => task[k].upto = Len(x.entries)
    /\ Calm(c) => o = cache[c] \/ x.entries = <<>>
    /\ pc \in {"saved", "saveTurn"} => x.entries # <<>>
    /\ pc = "saveTurn" => x.entries[Len(x.entries)] = i /\ (c \in ghost.torn \/ x.done < Len(x.entries))
    /\ pc = "cleared" => x.entries = <<>> /\ x.done = 0
    /\ Calm(c) => \A k \in Tasks : task[k].chat = c /\ InFile(k) =>
          (\E n \in x.done + 1 .. Len(x.entries) : x.entries[n] = k) \/ task[k].archived > 0

\* What is changed.
LEMMA WrittenIs ==
    ASSUME SInv, NEW i \in Tasks, NEW o, NEW c, NEW x, NEW pc, TaskWrites(i, o, c, x, pc)
    PROVE  /\ Control' /\ Tasks' = Tasks /\ (\A k \in Tasks \ {i} : task'[k] = task[k])
           /\ task'[i].pc = pc /\ task'[i].kind = task[i].kind /\ task'[i].chat = c /\ task'[i].object = o
           /\ task'[i].archived = task[i].archived /\ task'[i].saved = task[i].saved
           /\ Len(object') = Len(object) /\ DOMAIN object' = DOMAIN object
           /\ object'[o] = x /\ \A p \in DOMAIN object \ {o} : object'[p] = object[p]
           /\ disk'[c] = [entries |-> x.entries, done |-> x.done] /\ \A d \in Chats \ {c} : disk'[d] = disk[d]
           /\ cache' = cache /\ ghost' = ghost /\ used' = used
<1>1. /\ task[i] \in ATask /\ PlaceOK(task[i]) /\ task[i].stop = "no" /\ Others(i) /\ Types /\ Control
  BY TaskIs DEF TaskWrites
<1>2. pc \in {"saved", "saveTurn", "cleared"} /\ task[i].pc \in {"checkpoint", "model", "clear"}
  BY DEF TaskWrites
<1> DEFINE t == [task[i] EXCEPT !.pc = pc]
<1>3. Put(i, t)
  BY DEF TaskWrites, Goto
<1>4. t \in ATask
  BY <1>1, <1>2 DEF ATask, Places
<1>5. /\ t.pc = pc /\ t.object = task[i].object /\ t.stop = "no"
      /\ t.kind = task[i].kind /\ t.chat = task[i].chat /\ t.by = task[i].by
      /\ t.archived = task[i].archived /\ t.saved = task[i].saved
  BY <1>1 DEF ATask
<1> HIDE DEF t
<1>6. task' \in Seq(ATask) /\ Tasks' = Tasks /\ task'[i] = t /\ \A k \in Tasks \ {i} : task'[k] = task[k]
  BY <1>1, <1>3, <1>4, PutIs DEF Put
<1>7. PlaceOK(t)
  <2>1. task[i].archived = 0 /\ task[i].saved = "no"
    BY <1>1, <1>2 DEF PlaceOK, Settled
  <2>2. pc \in PlacesOf(task[i].kind)
    <3>1. task[i].pc \in PlacesOf(task[i].kind)
      BY <1>1 DEF PlaceOK
    <3> QED BY <1>1, <3>1 DEF PlacesOf, Places, ATask, Kind, TaskWrites
  <2> QED BY <1>2, <1>5, <2>1, <2>2 DEF PlaceOK
<1>8. Moves(i, {})
  BY <1>1, <1>2, <1>5, <1>6, <1>7 DEF Moves, Others, TaskWrites
<1>9. LockMoves(i)
  <2>1. task[i].pc \in Holding => HoldsLock(i)
    BY <1>1 DEF Control, LockOK
  <2> QED BY <1>5, <1>6, <2>1 DEF TaskWrites, LockMoves, Locked, Holding
<1>10. object \in Seq(AnObject) /\ Len(object) \in Nat /\ DOMAIN object = 1..Len(object) /\ disk \in [Chats -> Session]
  BY <1>1, ObjectsAre DEF Types, StoreTypes
<1>11. o \in 1..Len(object) /\ x \in AnObject /\ c \in Chats /\ object' = [object EXCEPT ![o] = x]
  BY <1>10 DEF TaskWrites
<1>12. object' \in [1..Len(object) -> AnObject] /\ object'[o] = x /\ \A p \in DOMAIN object \ {o} : object'[p] = object[p]
  BY <1>10, <1>11
<1>13. object' \in Seq(AnObject) /\ Len(object') = Len(object) /\ DOMAIN object' = DOMAIN object
  BY <1>10, <1>12, IsSequence
<1>14. disk' \in [Chats -> Session] /\ disk'[c] = [entries |-> x.entries, done |-> x.done] /\ \A d \in Chats \ {c} : disk'[d] = disk[d]
  <2>1. [entries |-> x.entries, done |-> x.done] \in Session
    BY <1>11 DEF AnObject, Session
  <2>2. disk' = [disk EXCEPT ![c] = [entries |-> x.entries, done |-> x.done]]
    BY DEF TaskWrites
  <2> HIDE DEF Session
  <2> QED BY <1>10, <1>11, <2>1, <2>2
<1>15. cache' = cache /\ ghost' = ghost /\ used' = used /\ tools' = tools
  BY DEF TaskWrites
<1>16. StoreTypes'
  BY <1>1, <1>13, <1>14, <1>15 DEF Types, StoreTypes
<1> QED BY <1>1, <1>5, <1>6, <1>8, <1>9, <1>12, <1>13, <1>14, <1>15, <1>16, Move DEF TaskWrites

\* Such a write keeps the invariant.
LEMMA WriteSessions ==
    ASSUME SInv, NEW i \in Tasks, NEW o, NEW c, NEW x, NEW pc, TaskWrites(i, o, c, x, pc), WrittenOK(i, o, c, x, pc)
    PROVE  SInv'
<1>1. /\ Control' /\ Tasks' = Tasks /\ (\A k \in Tasks \ {i} : task'[k] = task[k])
      /\ task'[i].pc = pc /\ task'[i].kind = task[i].kind /\ task'[i].chat = c /\ task'[i].object = o
      /\ task'[i].archived = task[i].archived /\ task'[i].saved = task[i].saved
      /\ Len(object') = Len(object) /\ DOMAIN object' = DOMAIN object
      /\ object'[o] = x /\ \A p \in DOMAIN object \ {o} : object'[p] = object[p]
      /\ disk'[c] = [entries |-> x.entries, done |-> x.done] /\ \A d \in Chats \ {c} : disk'[d] = disk[d]
      /\ cache' = cache /\ ghost' = ghost /\ used' = used
  BY WrittenIs
<1>2. /\ o \in DOMAIN object /\ c \in Chats /\ task[i].object = o /\ task[i].chat = c /\ object[o].chat = c
      /\ task[i].pc \in {"checkpoint", "model", "clear"} /\ pc \in {"saved", "saveTurn", "cleared"} /\ task[i].pc \in Working
      /\ Others(i) /\ x.chat = c /\ x \in AnObject /\ (pc = "saveTurn" => task[i].pc = "model")
  BY DEF TaskWrites, Working, Holding
<1>3. Sessions /\ Types
  BY DEF SInv, Control
<1>4. /\ o # 0 /\ \A p \in DOMAIN object : p # 0
      /\ \A k \in Tasks \ {i} : task[k].pc \notin Sync \cup Saving \cup {"clear", "checkpoint"}
      /\ \A p, m : Committing(p, m) => p = o
      /\ \A d : ~ IsSaving(d)
  <2>1. PICK o1 \in DOMAIN object, c1 \in Chats :
              /\ task[i].object = o1 /\ task[i].chat = c1 /\ o1 # 0
              /\ \A p \in DOMAIN object : p # 0
              /\ \A k \in Tasks \ {i} : task[k].pc \notin Sync \cup Saving \cup {"clear", "checkpoint"}
              /\ \A p, m : Committing(p, m) => p = o1
              /\ \A d : IsSaving(d) => task[i].pc \in Saving
    BY <1>2, AtWork
  <2> QED BY <1>2, <2>1 DEF Saving
<1>5. \A k \in Tasks : /\ task'[k].kind = task[k].kind /\ task'[k].chat = task[k].chat
                       /\ task'[k].archived = task[k].archived /\ task'[k].saved = task[k].saved
                       /\ task[k].pc \in Settled => task'[k].pc \in Settled
  BY <1>1, <1>2 DEF Settled
<1>6. \A d, e : EntriesOK(d, e) => EntriesOK(d, e)'
  BY <1>1, <1>5, EntriesStay
<1>7. /\ \A d : IsSaving(d)' <=> d = c
      /\ \A p, m : ~ Committing(p, m)'
  BY <1>1, <1>2, <1>4 DEF IsSaving, Committing, Saving
<1>8. x.entries \in Seq(Nat) /\ x.done \in Nat /\ DOMAIN x.entries = 1..Len(x.entries) /\ Len(x.entries) \in Nat
  BY <1>2 DEF AnObject
<1>9. /\ \A n \in DOMAIN x.entries : 
            /\ x.entries[n] \in Tasks /\ task[x.entries[n]].chat = c /\ task[x.entries[n]].kind \in {"user", "system"}
            /\ task[x.entries[n]].pc \in Settled \/ (x.entries[n] = i /\ pc = "saveTurn")
            /\ \A m \in DOMAIN x.entries : x.entries[m] = x.entries[n] => m = n
      /\ c \in ghost.torn \/ x.done <= Len(x.entries)
      /\ \A n \in x.done + 1 .. Len(x.entries) : task[x.entries[n]].archived <= used.crashes
  BY DEF WrittenOK
<1>10. EntriesOK(c, x.entries)'
  <2>1. ASSUME NEW n \in DOMAIN x.entries
        PROVE  /\ x.entries[n] \in Tasks' /\ task'[x.entries[n]].chat = c /\ task'[x.entries[n]].pc \in Settled
               /\ task'[x.entries[n]].kind \in {"user", "system"}
    BY <1>1, <1>5, <1>9, <2>1 DEF Settled
  <2> QED BY <1>9, <2>1 DEF EntriesOK
<1>11. \A n \in x.done + 1 .. Len(x.entries) : n \in DOMAIN x.entries /\ task'[x.entries[n]].archived <= used.crashes
  <2>1. \A n \in x.done + 1 .. Len(x.entries) : n \in DOMAIN x.entries
    BY <1>8
  <2> QED BY <1>5, <1>9, <2>1
<1>12. ASSUME NEW p \in DOMAIN object PROVE ObjectOK(p)'
  <2>1. CASE p = o
    BY <1>1, <1>2, <1>9, <1>10, <1>11, <2>1 DEF ObjectOK
  <2>2. CASE p # o
    <3>1. PICK s : s = object[p]
      OBVIOUS
    <3>2. /\ EntriesOK(s.chat, s.entries) /\ (s.chat \in ghost.torn \/ s.done <= Len(s.entries))
          /\ \A m \in s.done + 1 .. Len(s.entries) : task[s.entries[m]].archived <= used.crashes
      BY <1>3, <1>4, <2>2, <3>1 DEF Sessions, ObjectOK
    <3>3. \A m \in s.done + 1 .. Len(s.entries) : s.entries[m] \in Tasks
      BY <3>1, EntriesAre
    <3> QED BY <1>1, <1>5, <1>6, <2>2, <3>1, <3>2, <3>3 DEF ObjectOK
  <2> QED BY <2>1, <2>2
<1>13. ASSUME NEW p \in DOMAIN object, NEW q \in DOMAIN object, p # q PROVE Disjoint(p, q)'
  <2>1. \A r \in DOMAIN object \ {o} : \A n \in DOMAIN x.entries, m \in DOMAIN object[r].entries :
           x.entries[n] # object[r].entries[m]
    BY DEF WrittenOK
  <2>2. CASE p # o /\ q # o
    BY <1>1, <1>3, <1>13, <2>2 DEF Sessions, Disjoint
  <2>3. CASE p = o
    BY <1>1, <1>13, <2>1, <2>3 DEF Disjoint
  <2>4. CASE q = o
    BY <1>1, <1>13, <2>1, <2>4 DEF Disjoint
  <2> QED BY <2>2, <2>3, <2>4
<1>14. ASSUME NEW d \in Chats PROVE FileOK(d)'
  <2>1. FileOK(d) /\ (cache[d] # 0 => cache[d] \in DOMAIN object)
    BY <1>3, ObjectsAre DEF Sessions, Types, StoreTypes
  <2>2. cache[d] # 0 => object'[cache[d]].chat = d
    BY <1>1, <1>2, <2>1 DEF FileOK
  <2>3. CASE d = c
    <3>1. disk'[d].entries = x.entries /\ disk'[d].done = x.done
      BY <1>1, <2>3
    <3>2. EntriesOK(d, disk[d].entries)'
      BY <1>10, <2>3, <3>1 DEF EntriesOK
    <3> QED BY <1>1, <1>7, <1>9, <2>2, <2>3, <3>1, <3>2 DEF FileOK
  <2>4. CASE d # c
    <3>1. PICK s : s = disk[d]
      OBVIOUS
    <3>2. disk'[d] = s
      BY <1>1, <2>4, <3>1
    <3>3. EntriesOK(d, s.entries)'
      BY <1>6, <2>1, <3>1 DEF FileOK
    <3>4. Fresh(s) => Fresh(s)'
      <4>1. \A m \in s.done + 1 .. Len(s.entries) : s.entries[m] \in Tasks
        BY <3>1, FileEntriesAre
      <4> QED BY <1>1, <1>5, <4>1 DEF Fresh
    <3>5. cache[d] # 0 => object'[cache[d]] = object[cache[d]]
      BY <1>1, <1>2, <2>1, <2>4 DEF FileOK
    <3>6. (\A p \in DOMAIN object : object[p].chat # d) => \A p \in DOMAIN object : object'[p].chat # d
      BY <1>1, <1>2, <2>4
    <3> QED BY <1>1, <1>4, <1>7, <2>1, <2>2, <2>4, <3>1, <3>2, <3>3, <3>4, <3>5, <3>6 DEF FileOK, Contents
  <2> QED BY <2>3, <2>4
<1>15. /\ \A k : k \in InTurn' <=> k \in InTurn
       /\ \A k \in InTurn : k \in Tasks
  BY <1>1, <1>2 DEF InTurn
<1>16. \A d : Calm(d)' <=> Calm(d)
  BY <1>1 DEF Calm
<1>17. ASSUME NEW d \in Chats PROVE CalmOK(d)'
  <2>1. CalmOK(d)
    BY <1>3 DEF Sessions
  <2>2. Calm(d) => \A p \in DOMAIN object : object'[p].chat = d /\ p # cache[d] => object'[p].entries = <<>>
    <3> SUFFICES ASSUME Calm(d), NEW p \in DOMAIN object, object'[p].chat = d, p # cache[d]
                 PROVE  object'[p].entries = <<>>
      OBVIOUS
    <3>1. CASE p # o
      BY <1>1, <2>1, <3>1 DEF CalmOK
    <3>2. CASE p = o
      BY <1>1, <1>2, <3>2 DEF WrittenOK
    <3> QED BY <3>1, <3>2
  <2> QED BY <1>1, <1>5, <1>15, <1>16, <2>1, <2>2 DEF CalmOK
<1>18. ASSUME NEW k \in Tasks PROVE KeptOK(k)'
  <2>1. KeptOK(k) /\ task[k].chat \in Chats
    BY <1>3, TaskIs DEF Sessions
  <2>2. task[k].saved = "yes" /\ Calm(task[k].chat) => InFile(k)' \/ task[k].archived > 0
    <3> SUFFICES ASSUME task[k].saved = "yes", Calm(task[k].chat), ~ (task[k].archived > 0) PROVE InFile(k)'
      OBVIOUS
    <3>1. InFile(k)
      BY <2>1 DEF KeptOK
    <3>2. CASE task[k].chat = c
      <4>1. \E n \in x.done + 1 .. Len(x.entries) : x.entries[n] = k
        BY <3>1, <3>2 DEF WrittenOK
      <4> QED BY <1>1, <1>5, <3>2, <4>1 DEF InFile
    <3>3. CASE task[k].chat # c
      BY <1>1, <1>5, <2>1, <3>1, <3>3 DEF InFile
    <3> QED BY <3>2, <3>3
  <2> QED BY <1>1, <1>5, <1>16, <2>1, <2>2 DEF KeptOK
<1>19. ASSUME NEW k \in Tasks PROVE WorkOK(k)'
  <2>1. WorkOK(k)
    BY <1>3 DEF Sessions
  <2>2. CASE k = i
    <3>1. /\ o \in 0..Len(object) /\ (Calm(c) /\ i \in InTurn => o = cache[c])
      BY <1>2, <2>1, <2>2 DEF WorkOK
    <3>2. /\ pc \in {"saved", "saveTurn"} => x.entries # <<>>
          /\ pc = "saveTurn" => x.entries[Len(x.entries)] = i /\ (c \in ghost.torn \/ x.done < Len(x.entries))
          /\ pc = "cleared" => x.entries = <<>> /\ x.done = 0
      BY DEF WrittenOK
    <3> QED BY <1>1, <1>2, <1>4, <1>15, <1>16, <2>2, <3>1, <3>2 DEF WorkOK, Contents, Blank
  <2>3. CASE k # i
    <3>1. PICK t : t = task[k]
      OBVIOUS
    <3>2. task'[k] = t /\ t.pc \notin Sync
      BY <1>1, <1>4, <2>3, <3>1
    <3>3. t.object \in 0..Len(object) /\ (t.object # 0 => t.object \in DOMAIN object)
      BY <1>3, <2>1, <3>1, ObjectsAre DEF WorkOK
    <3>4. t.pc \in Working => t.object # 0 /\ object'[t.object].chat = t.chat
      BY <1>1, <1>2, <2>1, <3>1, <3>3 DEF WorkOK
    <3>5. /\ t.pc = "archive" =>
                t.from = object'[t.object].done + 1 /\ t.from <= t.upto /\ t.upto <= Len(object'[t.object].entries)
          /\ t.pc = "archive" /\ t.kind = "new" /\ t.chat \notin ghost.overlap => t.upto = Len(object'[t.object].entries)
      <4>1. CASE t.object # o
        <5>1. t.pc = "archive" => t.object # 0
          BY <3>4 DEF Working, Holding
        <5> QED BY <1>1, <2>1, <3>1, <3>3, <4>1, <5>1 DEF WorkOK
      <4>2. CASE t.object = o
        <5>1. t.pc = "archive" => t.chat = c /\ t.from <= t.upto
          BY <1>1, <1>2, <2>1, <3>1, <4>2 DEF WorkOK, Working, Holding
        <5> QED BY <1>1, <2>3, <3>1, <4>2, <5>1 DEF WrittenOK
      <4> QED BY <4>1, <4>2
    <3>6. Calm(t.chat) /\ k \in InTurn => t.object = cache[t.chat]
      BY <2>1, <3>1 DEF WorkOK
    <3> QED BY <1>1, <1>15, <1>16, <3>2, <3>3, <3>4, <3>5, <3>6 DEF WorkOK, Sync
  <2> QED BY <2>2, <2>3
<1> QED BY <1>1, <1>12, <1>13, <1>14, <1>17, <1>18, <1>19 DEF SInv, Sessions

\* In a calm chat the session of a task that has entries is the cached one.
LEMMA CalmCached ==
    ASSUME SInv, NEW o \in DOMAIN object, Calm(object[o].chat), object[o].entries # <<>>
    PROVE  cache[object[o].chat] = o
<1>1. object[o].chat \in Chats
  BY EntriesAre
<1> QED BY <1>1 DEF SInv, Sessions, CalmOK

\* In a calm chat the file is what is cached, even while it is written.
LEMMA CalmFile ==
    ASSUME SInv, NEW c \in Chats, Calm(c), cache[c] # 0
    PROVE  disk[c] = Contents(cache[c]) /\ cache[c] \in DOMAIN object /\ object[cache[c]].chat = c
<1>1. FileOK(c) /\ Types /\ Sessions
  BY DEF SInv, Control, Sessions
<1>2. cache[c] \in DOMAIN object /\ object[cache[c]].chat = c
  BY <1>1, ObjectsAre DEF FileOK, Types, StoreTypes
<1>3. CASE ~ IsSaving(c)
  BY <1>1, <1>2, <1>3 DEF FileOK
<1>4. ASSUME NEW i \in Tasks, task[i].chat = c, task[i].pc \in Saving
      PROVE  disk[c] = Contents(cache[c])
  <2>1. WorkOK(i) /\ PlaceOK(task[i]) /\ task[i] \in ATask
    BY <1>1, TaskIs DEF Sessions
  <2>2. task[i].object \in DOMAIN object /\ object[task[i].object].chat = c
    BY <1>4, SessionOf DEF Saving, Working, Holding
  <2>3. CASE task[i].pc \in {"saved", "saveTurn"}
    BY <1>4, <2>1, <2>2, <2>3, CalmCached DEF WorkOK
  <2>4. CASE task[i].pc = "cleared"
    <3>1. i \in InTurn
      BY <2>1, <2>4 DEF PlaceOK, PlacesOf, InTurn, Dispatched, ATask, Kind, Places
    <3> QED BY <1>4, <2>1, <2>4, <3>1 DEF WorkOK
  <2> QED BY <1>4, <2>3, <2>4 DEF Saving
<1> QED BY <1>2, <1>3, <1>4 DEF IsSaving

\* The checkpoint.
LEMMA CheckpointSessions ==
    ASSUME SInv, NEW i \in Tasks, Checkpoint(i)
    PROVE  SInv'
<1>1. task[i].pc = "checkpoint" /\ task[i].pc \in Working /\ task[i].pc \in Holding /\ task[i].stop = "no" /\ Others(i) /\ Sessions /\ Types
  BY DEF Checkpoint, Runs, Others, Working, Holding, SInv, Control
<1>2. PICK o \in DOMAIN object, c \in Chats :
              /\ task[i].object = o /\ task[i].chat = c /\ object[o].chat = c /\ o # 0
              /\ task[i].from \in Nat /\ task[i].upto \in Nat
              /\ \A p, m : Committing(p, m) => p = o /\ m <= task[i].upto
  BY <1>1, AtWork
<1>3. PICK s : s = object[o]
  OBVIOUS
<1>4. PICK x : x = [s EXCEPT !.done = task[i].upto]
  OBVIOUS
<1>5. /\ s \in AnObject /\ s.chat = c /\ s.done \in Nat /\ Len(s.entries) \in Nat /\ DOMAIN s.entries = 1..Len(s.entries)
      /\ \A n \in 1..Len(s.entries) :
            /\ s.entries[n] \in Tasks /\ task[s.entries[n]].chat = c /\ task[s.entries[n]].pc \in Settled
            /\ task[s.entries[n]].kind \in {"user", "system"}
            /\ \A m \in 1..Len(s.entries) : s.entries[m] = s.entries[n] => m = n
      /\ \A n \in s.done + 1 .. Len(s.entries) : n \in 1..Len(s.entries)
  BY SMTT(30), <1>1, <1>2, <1>3, EntriesAre, ObjectsAre
<1>6. task[i].from = s.done + 1 /\ task[i].from <= task[i].upto /\ task[i].upto <= Len(s.entries)
  BY <1>1, <1>2, <1>3 DEF Sessions, WorkOK
<1>7. x \in AnObject /\ x.chat = c /\ x.entries = s.entries /\ x.done = task[i].upto
  BY <1>2, <1>4, <1>5 DEF AnObject
<1>8. TaskWrites(i, o, c, x, "saved")
  <2>1. object' = [object EXCEPT ![o] = x]
    BY <1>2, <1>3, <1>4 DEF Checkpoint
  <2>2. disk' = [disk EXCEPT ![c] = [entries |-> x.entries, done |-> x.done]]
    BY <1>2, <1>3, <1>7 DEF Checkpoint, Save
  <2> QED BY <1>1, <1>2, <1>7, <2>1, <2>2 DEF TaskWrites, Checkpoint
<1>9. \A n \in x.done + 1 .. Len(x.entries) : n \in s.done + 1 .. Len(s.entries) /\ ~ (n <= task[i].upto)
  BY <1>2, <1>5, <1>6, <1>7
<1>10. \A n \in x.done + 1 .. Len(x.entries) : task[x.entries[n]].archived <= used.crashes
  BY <1>1, <1>2, <1>3, <1>7, <1>9 DEF Sessions, ObjectOK
<1>11. s.entries # <<>>
  <2>1. Len(s.entries) > 0
    BY <1>2, <1>5, <1>6
  <2>2. Len(<<>>) = 0
    OBVIOUS
  <2> QED BY <2>1, <2>2
<1>12. Calm(c) => o = cache[c]
  BY <1>2, <1>3, <1>5, <1>11, CalmCached
<1>13. \A p \in DOMAIN object \ {o} : \A n \in DOMAIN x.entries, m \in DOMAIN object[p].entries :
          x.entries[n] # object[p].entries[m]
  BY <1>1, <1>2, <1>3, <1>7 DEF Sessions, Disjoint
<1>14. ASSUME NEW k \in Tasks \ {i}, task[k].object = o, task[k].pc = "archive" PROVE FALSE
  <2>1. task[k].chat = c
    BY <1>2, <1>14, SessionOf DEF Working, Holding
  <2> QED BY <1>1, <1>2, <1>14, <2>1, AloneUnderLock DEF Holding
<1>15. ASSUME Calm(c), NEW k \in Tasks, task[k].chat = c, InFile(k)
       PROVE  (\E n \in x.done + 1 .. Len(x.entries) : x.entries[n] = k) \/ task[k].archived > 0
  <2>1. disk[c] = Contents(o) /\ disk[c].entries = s.entries /\ disk[c].done = s.done
    BY <1>2, <1>3, <1>12, <1>15, CalmFile DEF Contents
  <2>2. PICK n \in s.done + 1 .. Len(s.entries) : s.entries[n] = k
    BY <1>15, <2>1 DEF InFile
  <2>3. CASE n <= task[i].upto
    <3>1. n \in task[i].from .. task[i].upto
      BY <1>2, <1>5, <1>6, <2>3
    <3> QED BY <1>1, <1>2, <1>3, <1>15, <2>2, <3>1 DEF Sessions, WorkOK
  <2>4. CASE n > task[i].upto
    <3>1. n \in x.done + 1 .. Len(x.entries)
      BY <1>2, <1>5, <1>7, <2>4
    <3> QED BY <1>7, <2>2, <3>1
  <2> QED BY <1>2, <1>5, <2>3, <2>4
<1>16. WrittenOK(i, o, c, x, "saved")
  BY <1>5, <1>6, <1>7, <1>10, <1>11, <1>12, <1>13, <1>14, <1>15 DEF WrittenOK
<1> QED BY <1>8, <1>16, WriteSessions

\* A turn ends.
LEMMA TurnEndSessions ==
    ASSUME SInv, NEW i \in Tasks, TurnEnds(i)
    PROVE  SInv'
<1>1. /\ task[i].pc = "model" /\ task[i].pc \in Working /\ task[i].stop = "no" /\ Others(i) /\ Sessions /\ Types
      /\ PlaceOK(task[i]) /\ task[i] \in ATask /\ i \in Nat /\ used.crashes \in Nat
  BY TaskIs DEF TurnEnds, Runs, Others, Working, SInv, Control
<1>2. PICK o \in DOMAIN object, c \in Chats :
              /\ task[i].object = o /\ task[i].chat = c /\ object[o].chat = c /\ o # 0
              /\ \A p, m : ~ Committing(p, m)
  BY <1>1, AtWork
<1>3. PICK s : s = object[o]
  OBVIOUS
<1>4. PICK x : x = [s EXCEPT !.entries = Append(s.entries, i)]
  OBVIOUS
<1>5. /\ s \in AnObject /\ s.chat = c /\ s.done \in Nat /\ s.entries \in Seq(Nat)
      /\ Len(s.entries) \in Nat /\ DOMAIN s.entries = 1..Len(s.entries)
      /\ \A n \in 1..Len(s.entries) :
            /\ s.entries[n] \in Tasks /\ task[s.entries[n]].chat = c /\ task[s.entries[n]].pc \in Settled
            /\ task[s.entries[n]].kind \in {"user", "system"}
            /\ \A m \in 1..Len(s.entries) : s.entries[m] = s.entries[n] => m = n
      /\ \A n \in s.done + 1 .. Len(s.entries) : n \in 1..Len(s.entries)
  BY SMTT(30), <1>1, <1>2, <1>3, EntriesAre, ObjectsAre
<1>6. /\ Append(s.entries, i) \in Seq(Nat) /\ Len(Append(s.entries, i)) = Len(s.entries) + 1
      /\ Append(s.entries, i)[Len(s.entries) + 1] = i
      /\ \A n \in 1..Len(s.entries) : Append(s.entries, i)[n] = s.entries[n]
  BY <1>1, <1>5, AppendProperties
<1>7. x \in AnObject /\ x.chat = c /\ x.entries = Append(s.entries, i) /\ x.done = s.done
  BY <1>4, <1>5, <1>6 DEF AnObject
<1>8. /\ Len(x.entries) = Len(s.entries) + 1 /\ x.entries[Len(x.entries)] = i
      /\ DOMAIN x.entries = 1..Len(s.entries) + 1
      /\ \A n \in 1..Len(s.entries) : x.entries[n] = s.entries[n]
      /\ \A n \in 1..Len(s.entries) + 1 : n \in 1..Len(s.entries) \/ n = Len(s.entries) + 1
  BY <1>5, <1>6, <1>7
<1>9. TaskWrites(i, o, c, x, "saveTurn")
  <2>1. object' = [object EXCEPT ![o] = x]
    BY <1>2, <1>3, <1>4 DEF TurnEnds
  <2>2. disk' = [disk EXCEPT ![c] = [entries |-> x.entries, done |-> x.done]]
    BY <1>2, <1>3, <1>7 DEF TurnEnds, Save
  <2> QED BY <1>1, <1>2, <1>7, <2>1, <2>2 DEF TaskWrites, TurnEnds
<1>10. task[i].kind \in {"user", "system"} /\ task[i].archived = 0 /\ i \in InTurn /\ task[i].pc \notin Settled
  BY <1>1 DEF PlaceOK, PlacesOf, ATask, Kind, Settled, InTurn, Dispatched
<1>11. \A n \in 1..Len(s.entries) : s.entries[n] # i
  BY <1>5, <1>10
<1>12. \A n \in DOMAIN x.entries :
          /\ x.entries[n] \in Tasks /\ task[x.entries[n]].chat = c
          /\ task[x.entries[n]].pc \in Settled \/ x.entries[n] = i
          /\ task[x.entries[n]].kind \in {"user", "system"}
          /\ \A m \in DOMAIN x.entries : x.entries[m] = x.entries[n] => m = n
  <2> SUFFICES ASSUME NEW n \in 1..Len(s.entries) + 1
               PROVE  /\ x.entries[n] \in Tasks /\ task[x.entries[n]].chat = c
                      /\ task[x.entries[n]].pc \in Settled \/ x.entries[n] = i
                      /\ task[x.entries[n]].kind \in {"user", "system"}
                      /\ \A m \in 1..Len(s.entries) + 1 : x.entries[m] = x.entries[n] => m = n
    BY <1>8
  <2>1. CASE n \in 1..Len(s.entries)
    <3>1. x.entries[n] = s.entries[n] /\ x.entries[n] # i
      BY <1>8, <1>11, <2>1
    <3>2. \A m \in 1..Len(s.entries) + 1 : x.entries[m] = x.entries[n] => m = n
      BY <1>5, <1>8, <2>1, <3>1
    <3> QED BY <1>5, <2>1, <3>1, <3>2
  <2>2. CASE n = Len(s.entries) + 1
    BY <1>2, <1>8, <1>10, <1>11, <2>2
  <2> QED BY <1>8, <2>1, <2>2
<1>13. \A n \in x.done + 1 .. Len(x.entries) : task[x.entries[n]].archived <= used.crashes
  <2> SUFFICES ASSUME NEW n \in s.done + 1 .. Len(s.entries) + 1 PROVE task[x.entries[n]].archived <= used.crashes
    BY <1>7, <1>8
  <2>1. CASE n = Len(s.entries) + 1
    BY <1>1, <1>8, <1>10, <2>1
  <2>2. CASE n # Len(s.entries) + 1
    <3>1. n \in s.done + 1 .. Len(s.entries)
      BY <1>5, <2>2
    <3>2. task[s.entries[n]].archived <= used.crashes
      BY <1>1, <1>2, <1>3, <3>1 DEF Sessions, ObjectOK
    <3> QED BY <1>5, <1>8, <3>1, <3>2
  <2> QED BY <2>1, <2>2
<1>14. c \in ghost.torn \/ (x.done <= Len(x.entries) /\ x.done < Len(x.entries))
  <2>1. c \in ghost.torn \/ s.done <= Len(s.entries)
    BY <1>1, <1>2, <1>3 DEF Sessions, ObjectOK
  <2> QED BY <1>5, <1>7, <1>8, <2>1
<1>15. Calm(c) => o = cache[c]
  BY <1>1, <1>2, <1>10 DEF Sessions, WorkOK
<1>16. \A p \in DOMAIN object \ {o} : \A n \in DOMAIN x.entries, m \in DOMAIN object[p].entries :
          x.entries[n] # object[p].entries[m]
  <2> SUFFICES ASSUME NEW p \in DOMAIN object \ {o}, NEW n \in 1..Len(s.entries) + 1, NEW m \in DOMAIN object[p].entries
               PROVE  x.entries[n] # object[p].entries[m]
    BY <1>8
  <2>1. task[object[p].entries[m]].pc \in Settled
    BY EntriesAre
  <2>2. CASE n = Len(s.entries) + 1
    BY <1>8, <1>10, <2>1, <2>2
  <2>3. CASE n \in 1..Len(s.entries)
    BY SMTT(30), <1>1, <1>2, <1>3, <1>5, <1>8, <2>3 DEF Sessions, Disjoint
  <2> QED BY <1>8, <2>2, <2>3
<1>17. ASSUME NEW k \in Tasks \ {i}, task[k].object = o, task[k].pc = "archive"
       PROVE  /\ task[k].from = x.done + 1 /\ task[k].upto <= Len(x.entries)
              /\ task[k].kind = "new" /\ c \notin ghost.overlap => task[k].upto = Len(x.entries)
  <2>1. WorkOK(k) /\ task[k].chat = c /\ task[k].upto \in Nat
    <3>1. task[k].chat = c /\ task[k] \in ATask
      BY <1>2, <1>17, SessionOf DEF Working, Holding
    <3> QED BY <1>1, <3>1 DEF Sessions, ATask
  <2>2. task[k].from = s.done + 1 /\ task[k].upto <= Len(s.entries)
    BY <1>3, <1>17, <2>1 DEF WorkOK
  <2>3. task[k].kind = "new" => k \in InTurn
    BY <1>17 DEF InTurn, Dispatched
  <2>4. task[k].kind = "new" /\ c \notin ghost.overlap => FALSE
    BY <1>1, <1>2, <1>10, <1>17, <2>1, <2>3 DEF Sessions, CalmOK
  <2> QED BY <1>5, <1>7, <1>8, <2>1, <2>2, <2>4
<1>18. ASSUME Calm(c), NEW k \in Tasks, task[k].chat = c, InFile(k)
       PROVE  \E n \in x.done + 1 .. Len(x.entries) : x.entries[n] = k
  <2>1. disk[c] = Contents(o) /\ disk[c].entries = s.entries /\ disk[c].done = s.done
    BY <1>2, <1>3, <1>15, <1>18, CalmFile DEF Contents
  <2>2. PICK n \in s.done + 1 .. Len(s.entries) : s.entries[n] = k
    BY <1>18, <2>1 DEF InFile
  <2>3. n \in x.done + 1 .. Len(x.entries) /\ n \in 1..Len(s.entries)
    BY <1>5, <1>7, <1>8
  <2> QED BY <1>8, <2>2, <2>3
<1>19. x.entries # <<>>
  <2>1. Len(x.entries) > 0
    BY <1>5, <1>8
  <2>2. Len(<<>>) = 0
    OBVIOUS
  <2> QED BY <2>1, <2>2
<1>20. WrittenOK(i, o, c, x, "saveTurn")
  BY <1>8, <1>12, <1>13, <1>14, <1>15, <1>16, <1>17, <1>18, <1>19 DEF WrittenOK
<1> QED BY <1>9, <1>20, WriteSessions

\* /new empties the session.
LEMMA ClearSessions ==
    ASSUME SInv, NEW i \in Tasks, NewClears(i)
    PROVE  SInv'
<1>1. /\ task[i].pc = "clear" /\ task[i].pc \in Working /\ task[i].pc \in Holding /\ task[i].stop = "no" /\ Others(i) /\ Sessions /\ Types
      /\ PlaceOK(task[i]) /\ task[i] \in ATask
  BY TaskIs DEF NewClears, Runs, Others, Working, Holding, SInv, Control
<1>2. PICK o \in DOMAIN object, c \in Chats :
              task[i].object = o /\ task[i].chat = c /\ object[o].chat = c /\ o # 0
  BY <1>1, AtWork
<1>3. PICK s : s = object[o]
  OBVIOUS
<1>4. PICK x : x = [s EXCEPT !.entries = <<>>, !.done = 0]
  OBVIOUS
<1>5. s \in AnObject
  BY <1>1, <1>3, ObjectsAre
<1>6. x \in AnObject /\ x.chat = c /\ x.entries = <<>> /\ x.done = 0
  <2>1. <<>> \in Seq(Nat) /\ 0 \in Nat
    OBVIOUS
  <2>2. s.chat = c /\ c \in Chats
    BY <1>2, <1>3
  <2>3. x.chat = c /\ x.entries = <<>> /\ x.done = 0
    BY <1>4, <1>5, <2>2 DEF AnObject
  <2>4. x \in AnObject
    BY <1>4, <1>5, <2>1 DEF AnObject
  <2> QED BY <2>3, <2>4
<1>7. TaskWrites(i, o, c, x, "cleared")
  <2>1. object' = [object EXCEPT ![o] = x]
    BY <1>2, <1>3, <1>4 DEF NewClears
  <2>2. disk' = [disk EXCEPT ![c] = [entries |-> x.entries, done |-> x.done]]
    BY <1>2, <1>6 DEF NewClears, Save, Blank
  <2> QED BY <1>1, <1>2, <1>6, <2>1, <2>2 DEF TaskWrites, NewClears
<1>8. i \in InTurn
  BY <1>1 DEF PlaceOK, PlacesOf, ATask, Kind, Places, InTurn, Dispatched
<1>9. DOMAIN x.entries = {} /\ Len(x.entries) = 0 /\ x.done + 1 .. Len(x.entries) = {}
  BY <1>6
<1>10. ASSUME NEW k \in Tasks \ {i}, task[k].object = o, task[k].pc = "archive" PROVE FALSE
  <2>1. task[k].chat = c
    BY <1>2, <1>10, SessionOf DEF Working, Holding
  <2> QED BY <1>1, <1>2, <1>10, <2>1, AloneUnderLock DEF Holding
<1>11. ASSUME Calm(c), NEW k \in Tasks, task[k].chat = c, InFile(k) PROVE task[k].archived > 0
  <2>1. WorkOK(i)
    BY <1>1 DEF Sessions
  <2>2. o = cache[c]
    BY <1>2, <1>8, <1>11, <2>1 DEF WorkOK
  <2>3. disk[c].entries = s.entries /\ disk[c].done = s.done
    <3>1. disk[c] = Contents(o)
      BY <1>2, <1>11, <2>2, CalmFile
    <3> QED BY <1>3, <3>1 DEF Contents
  <2>4. PICK n \in s.done + 1 .. Len(s.entries) : s.entries[n] = k
    BY <1>11, <2>3 DEF InFile
  <2> QED BY <1>1, <1>2, <1>3, <1>11, <2>1, <2>4 DEF WorkOK
<1>12. WrittenOK(i, o, c, x, "cleared")
  BY <1>6, <1>9, <1>10, <1>11 DEF WrittenOK
<1> QED BY <1>7, <1>12, WriteSessions

-----------------------------------------------------------------------------
(* The file is complete: the section of task i, which wrote the file of c  *)
(* from object o, ends.                                                    *)

Finishes(i, o, c, new) ==
    /\ task[i].pc \in Saving /\ Others(i)
    /\ o \in DOMAIN object /\ c \in Chats /\ task[i].object = o /\ task[i].chat = c /\ object[o].chat = c
    /\ Tasks' = Tasks \cup new /\ new \cap Tasks = {}
    /\ object' = object /\ disk' = disk /\ ghost' = ghost /\ used' = used
    /\ \A k \in Tasks \ {i} : task'[k] = task[k]
    /\ task'[i].kind = task[i].kind /\ task'[i].chat = c /\ task'[i].archived = task[i].archived
    /\ IF task[i].pc = "cleared"
       THEN task'[i].pc = "done" /\ task'[i].object = 0 /\ cache' = [cache EXCEPT ![c] = 0]
       ELSE task'[i].object = o /\ cache' = [cache EXCEPT ![c] = o]
    /\ task[i].pc = "saved" => task'[i].pc = "refresh"
    /\ IF task[i].pc = "saveTurn" THEN task'[i].pc \in {"close", "closeSilent"} ELSE task'[i].saved = task[i].saved
    /\ \A k \in new : /\ task'[k].kind = "background" /\ task'[k].chat = c /\ task'[k].pc = "start"
                      /\ task'[k].object = o /\ task'[k].archived = 0 /\ task'[k].saved = "no"

\* What is cached then is what was written; a calm chat had it cached already, or is blank.
LEMMA FinishedCache ==
    ASSUME SInv, NEW i \in Tasks, NEW o, NEW c, NEW new, Finishes(i, o, c, new)
    PROVE  /\ o # 0 /\ cache' \in [Chats -> 0..Len(object)] /\ \A d \in Chats \ {c} : cache'[d] = cache[d]
           /\ IF task[i].pc = "cleared"
              THEN cache'[c] = 0 /\ disk[c] = Blank /\ (Calm(c) => cache[c] = o /\ object[o].entries = <<>>)
              ELSE cache'[c] = o /\ disk[c] = Contents(o) /\ (Calm(c) => cache[c] = o)
           /\ task[i].pc = "cleared" => i \in InTurn
<1>1. /\ o \in DOMAIN object /\ c \in Chats /\ task[i].object = o /\ task[i].chat = c /\ object[o].chat = c
      /\ task[i].pc \in Saving /\ (cache' = [cache EXCEPT ![c] = o] \/ cache' = [cache EXCEPT ![c] = 0])
      /\ (task[i].pc = "cleared" => cache' = [cache EXCEPT ![c] = 0])
      /\ (task[i].pc # "cleared" => cache' = [cache EXCEPT ![c] = o])
  BY DEF Finishes
<1>2. Types /\ Sessions /\ WorkOK(i) /\ PlaceOK(task[i]) /\ task[i] \in ATask
  BY TaskIs DEF SInv, Sessions
<1>3. o \in 1..Len(object) /\ Len(object) \in Nat /\ cache \in [Chats -> 0..Len(object)]
  BY <1>1, <1>2, ObjectsAre DEF Types, StoreTypes
<1>4. o # 0 /\ o \in 0..Len(object) /\ 0 \in 0..Len(object)
  BY <1>3
<1>5. cache' \in [Chats -> 0..Len(object)] /\ \A d \in Chats \ {c} : cache'[d] = cache[d]
  BY <1>1, <1>3, <1>4
<1>6. task[i].pc = "cleared" => i \in InTurn
  BY <1>2 DEF PlaceOK, PlacesOf, InTurn, Dispatched, ATask, Kind, Places
<1>7. CASE task[i].pc = "cleared"
  <2>1. cache'[c] = 0
    BY <1>1, <1>3, <1>7
  <2>2. disk[c] = Blank /\ Contents(o) = Blank
    BY <1>1, <1>2, <1>7 DEF WorkOK
  <2>3. object[o].entries = <<>>
    BY <2>2 DEF Contents, Blank
  <2>4. Calm(c) => cache[c] = o
    BY <1>1, <1>2, <1>6, <1>7 DEF WorkOK
  <2> QED BY <1>4, <1>5, <1>6, <1>7, <2>1, <2>2, <2>3, <2>4
<1>8. CASE task[i].pc # "cleared"
  <2>1. cache'[c] = o
    BY <1>1, <1>3, <1>8
  <2>2. disk[c] = Contents(o) /\ object[o].entries # <<>>
    BY <1>1, <1>2, <1>8 DEF WorkOK, Saving
  <2>3. Calm(c) => cache[c] = o
    BY <1>1, <2>2, CalmCached
  <2> QED BY <1>4, <1>5, <1>6, <1>8, <2>1, <2>2, <2>3
<1> QED BY <1>7, <1>8

\* So the sessions are sound again.
LEMMA FinishSessions ==
    ASSUME SInv, NEW i \in Tasks, NEW o, NEW c, NEW new, Finishes(i, o, c, new),
           task[i].pc = "saveTurn" \/ new = {}
    PROVE  Sessions'
<1>1. /\ task[i].pc \in Saving /\ Others(i) /\ task[i].object = o /\ task[i].chat = c /\ object[o].chat = c
      /\ o \in DOMAIN object /\ c \in Chats
      /\ Tasks' = Tasks \cup new /\ new \cap Tasks = {} /\ Tasks \subseteq Tasks'
      /\ object' = object /\ disk' = disk /\ ghost' = ghost /\ used' = used
      /\ \A k \in Tasks \ {i} : task'[k] = task[k]
      /\ task'[i].kind = task[i].kind /\ task'[i].chat = c /\ task'[i].archived = task[i].archived
      /\ \A k \in new : /\ task'[k].kind = "background" /\ task'[k].chat = c /\ task'[k].pc = "start"
                        /\ task'[k].object = o /\ task'[k].archived = 0 /\ task'[k].saved = "no"
  BY DEF Finishes
<1>2. /\ IF task[i].pc = "cleared" THEN task'[i].pc = "done" /\ task'[i].object = 0 ELSE task'[i].object = o
      /\ task'[i].pc \in {"refresh", "close", "closeSilent", "done"}
      /\ (task[i].pc = "saveTurn" => task'[i].pc \in {"close", "closeSilent"})
      /\ (task[i].pc # "saveTurn" => task'[i].saved = task[i].saved)
      /\ task[i].pc \notin {"done", "clear", "checkpoint"}
  BY DEF Finishes, Saving
<1>3. /\ o # 0 /\ cache' \in [Chats -> 0..Len(object)] /\ (\A d \in Chats \ {c} : cache'[d] = cache[d])
      /\ (task[i].pc = "cleared" =>
            cache'[c] = 0 /\ disk[c] = Blank /\ i \in InTurn /\ (Calm(c) => cache[c] = o /\ object[o].entries = <<>>))
      /\ (task[i].pc # "cleared" => cache'[c] = o /\ disk[c] = Contents(o) /\ (Calm(c) => cache[c] = o))
  BY FinishedCache
<1>4. Sessions /\ Types /\ Len(object) \in Nat
  BY ObjectsAre DEF SInv, Control
<1>5. \A k \in Tasks : /\ task'[k].kind = task[k].kind /\ task'[k].chat = task[k].chat
                       /\ task'[k].archived = task[k].archived
                       /\ task[k].pc \in Settled => task'[k].pc \in Settled
  <2>1. task[i].pc \in Settled => task[i].pc = "saveTurn"
    BY <1>1 DEF Settled, Saving
  <2> QED BY <1>1, <1>2, <2>1 DEF Settled
<1>6. \A d, e : EntriesOK(d, e) => EntriesOK(d, e)'
  BY <1>1, <1>5, EntriesStay
<1>7. /\ \A k \in Tasks \ {i} : task[k].pc \notin Sync \cup Saving \cup {"clear", "checkpoint"}
      /\ \A p, m : ~ Committing(p, m)
      /\ \A d : IsSaving(d) => d = c
  <2>1. task[i].pc \in Working /\ task[i].pc \notin {"clear", "checkpoint"}
    BY <1>1 DEF Working, Holding, Saving
  <2> QED BY <1>1, <2>1, AtWork
<1>8. /\ \A d : ~ IsSaving(d)'
      /\ \A k \in InTurn' : k \in InTurn
      /\ \A k \in new : k \notin InTurn'
      /\ \A k \in InTurn : k \in Tasks
  <2>1. \A k \in Tasks' : task'[k].pc \notin Saving
    <3>1. \A k \in Tasks \ {i} : task'[k].pc \notin Saving
      BY <1>1, <1>7
    <3>2. task'[i].pc \notin Saving /\ \A k \in new : task'[k].pc \notin Saving
      BY <1>1, <1>2 DEF Saving
    <3> QED BY <1>1, <3>1, <3>2
  <2>2. \A d : ~ IsSaving(d)'
    BY <2>1 DEF IsSaving
  <2>3. task[i].pc \notin {"queued", "lock", "done"}
    BY <1>1 DEF Saving
  <2>4. \A k \in new : k \notin InTurn'
    BY <1>1 DEF InTurn, Dispatched
  <2>5. \A k \in InTurn' : k \in InTurn
    BY <1>1, <1>5, <2>3, <2>4 DEF InTurn
  <2> QED BY <2>2, <2>4, <2>5 DEF InTurn
<1>9. ASSUME NEW p \in DOMAIN object PROVE ObjectOK(p)'
  <2>1. PICK s : s = object[p]
    OBVIOUS
  <2>2. /\ EntriesOK(s.chat, s.entries) /\ (s.chat \in ghost.torn \/ s.done <= Len(s.entries))
        /\ \A m \in s.done + 1 .. Len(s.entries) : task[s.entries[m]].archived <= used.crashes
    BY <1>4, <1>7, <2>1 DEF Sessions, ObjectOK
  <2>3. \A m \in s.done + 1 .. Len(s.entries) : s.entries[m] \in Tasks
    BY <2>1, EntriesAre
  <2> QED BY <1>1, <1>5, <1>6, <2>1, <2>2, <2>3 DEF ObjectOK
<1>10. \A p, q \in DOMAIN object : p # q => Disjoint(p, q)'
  BY <1>1, <1>4 DEF Sessions, Disjoint
<1>11. ASSUME NEW d \in Chats PROVE FileOK(d)'
  <2>1. FileOK(d)
    BY <1>4 DEF Sessions
  <2>2. PICK s : s = disk[d]
    OBVIOUS
  <2>3. EntriesOK(d, s.entries)'
    BY <1>6, <2>1, <2>2 DEF FileOK
  <2>4. Fresh(s) => Fresh(s)'
    <3>1. \A m \in s.done + 1 .. Len(s.entries) : s.entries[m] \in Tasks
      BY <2>2, FileEntriesAre
    <3> QED BY <1>1, <1>5, <3>1 DEF Fresh
  <2>5. d \in ghost.torn \/ s.done <= Len(s.entries)
    BY <2>1, <2>2 DEF FileOK
  <2>6. CASE d = c
    <3>1. IF task[i].pc = "cleared" THEN cache'[d] = 0 /\ s = Blank ELSE cache'[d] = o /\ s = Contents(o)
      BY <1>3, <2>2, <2>6
    <3> QED BY <1>1, <1>3, <2>2, <2>3, <2>5, <2>6, <3>1 DEF FileOK, Contents
  <2>7. CASE d # c
    <3>1. cache'[d] = cache[d] /\ ~ IsSaving(d)
      BY <1>3, <1>7, <2>7
    <3> QED BY <1>1, <2>1, <2>2, <2>3, <2>4, <2>5, <3>1 DEF FileOK, Contents
  <2> QED BY <2>6, <2>7
<1>12. \A d : Calm(d)' <=> Calm(d)
  BY <1>1 DEF Calm
<1>13. ASSUME NEW d \in Chats PROVE CalmOK(d)'
  <2>1. CalmOK(d)
    BY <1>4 DEF Sessions
  <2>2. d \notin ghost.overlap => \A j, k \in InTurn' : task'[j].chat = d /\ task'[k].chat = d => j = k
    BY <1>5, <1>8, <2>1 DEF CalmOK
  <2>3. Calm(d) => \A p \in DOMAIN object : object[p].chat = d /\ p # cache'[d] => object[p].entries = <<>>
    <3> SUFFICES ASSUME Calm(d), NEW p \in DOMAIN object, object[p].chat = d, p # cache'[d]
                 PROVE  object[p].entries = <<>>
      OBVIOUS
    <3>1. CASE p # cache[d]
      BY <2>1, <3>1 DEF CalmOK
    <3>2. CASE p = cache[d]
      <4>1. d = c /\ task[i].pc = "cleared" /\ p = o
        BY <1>3, <3>2
      <4> QED BY <1>3, <4>1
    <3> QED BY <3>1, <3>2
  <2> QED BY <1>1, <1>12, <2>2, <2>3 DEF CalmOK
<1>14. ASSUME NEW k \in Tasks' PROVE KeptOK(k)'
  <2>1. CASE k \in new
    <3>1. task'[k].archived = 0 /\ task'[k].saved = "no" /\ used.crashes \in Nat
      BY <1>1, <1>4, <2>1 DEF Types, StoreTypes
    <3> QED BY <1>1, <3>1 DEF KeptOK
  <2>2. CASE k \in Tasks
    <3>1. KeptOK(k) /\ task[k].archived <= 1 + used.crashes
      BY <1>4, <2>2 DEF Sessions, KeptOK
    <3>2. InFile(k)' <=> InFile(k)
      BY <1>1, <1>5, <2>2 DEF InFile
    <3>3. CASE k # i \/ task[i].pc # "saveTurn"
      <4>1. task'[k].saved = task[k].saved
        BY <1>1, <1>2, <2>2, <3>3
      <4> QED BY <1>1, <1>5, <1>12, <2>2, <3>1, <3>2, <4>1 DEF KeptOK
    <3>4. CASE k = i /\ task[i].pc = "saveTurn"
      <4>1. Calm(c) => InFile(i)
        <5>1. PICK s : s = object[o]
          OBVIOUS
        <5>2. /\ disk[c].entries = s.entries /\ disk[c].done = s.done /\ s.done \in Nat /\ Len(s.entries) \in Nat
          <6>1. disk[c] = Contents(o)
            BY <1>3, <3>4
          <6> QED BY <1>1, <5>1, <6>1, EntriesAre DEF Contents
        <5>3. s.entries[Len(s.entries)] = i /\ (c \in ghost.torn \/ s.done < Len(s.entries))
          BY <1>1, <1>4, <3>4, <5>1 DEF Sessions, WorkOK
        <5>4. SUFFICES ASSUME Calm(c) PROVE InFile(i)
          OBVIOUS
        <5>5. Len(s.entries) \in s.done + 1 .. Len(s.entries)
          BY <5>2, <5>3, <5>4 DEF Calm
        <5> QED BY <1>1, <5>2, <5>3, <5>5 DEF InFile
      <4> QED BY <1>1, <1>5, <1>12, <3>1, <3>2, <3>4, <4>1 DEF KeptOK
    <3> QED BY <3>3, <3>4
  <2> QED BY <1>1, <2>1, <2>2
<1>15. ASSUME NEW k \in Tasks' PROVE WorkOK(k)'
  <2>1. CASE k \in new
    <3>1. task'[k].pc = "start" /\ task'[k].object = o /\ task'[k].chat = c /\ o \in 0..Len(object) /\ k \notin InTurn'
      BY <1>1, <1>4, <1>8, <2>1, ObjectsAre
    <3> QED BY <1>1, <1>3, <3>1 DEF WorkOK
  <2>2. CASE k = i
    <3>1. o \in 0..Len(object) /\ 0 \in 0..Len(object)
      BY <1>1, <1>4, ObjectsAre
    <3>2. CASE task[i].pc = "cleared"
      <4>1. task'[i].pc = "done" /\ task'[i].object = 0 /\ i \notin InTurn'
        BY <1>2, <3>2 DEF InTurn
      <4> QED BY <1>1, <2>2, <3>1, <4>1 DEF WorkOK, Working, Holding
    <3>3. CASE task[i].pc # "cleared"
      <4>1. task'[i].pc \in {"refresh", "close", "closeSilent", "done"} /\ task'[i].object = o /\ cache'[c] = o
        BY <1>2, <1>3, <3>3
      <4> QED BY <1>1, <1>3, <2>2, <3>1, <4>1 DEF WorkOK
    <3> QED BY <3>2, <3>3
  <2>3. CASE k \in Tasks \ {i}
    <3>1. WorkOK(k) /\ task'[k] = task[k] /\ task[k].pc \notin Sync
      BY <1>1, <1>4, <1>7, <2>3 DEF Sessions
    <3>2. Calm(task[k].chat) /\ k \in InTurn' => task[k].object = cache'[task[k].chat]
      <4> SUFFICES ASSUME Calm(task[k].chat), k \in InTurn' PROVE task[k].object = cache'[task[k].chat]
        OBVIOUS
      <4>1. k \in InTurn /\ task[k].object = cache[task[k].chat] /\ task[k].chat \in Chats
        BY <1>8, <2>3, <3>1, TaskIs DEF WorkOK
      <4>2. task[k].chat = c /\ task[i].pc = "cleared" => FALSE
        BY <1>1, <1>3, <1>4, <2>3, <4>1 DEF Sessions, CalmOK, Calm
      <4> QED BY <1>3, <4>1, <4>2
    <3>3. PICK t : t = task[k]
      OBVIOUS
    <3>4. PICK s : s = object[t.object]
      OBVIOUS
    <3>5. /\ t.object \in 0..Len(object)
          /\ t.pc \in Working => t.object # 0 /\ s.chat = t.chat
          /\ t.pc = "archive" => t.from = s.done + 1 /\ t.from <= t.upto /\ t.upto <= Len(s.entries)
          /\ t.pc = "archive" /\ t.kind = "new" /\ t.chat \notin ghost.overlap => t.upto = Len(s.entries)
      BY <3>1, <3>3, <3>4 DEF WorkOK
    <3>6. t.pc \notin {"checkpoint", "saved", "saveTurn", "clear", "cleared"}
      BY <3>1, <3>3 DEF Sync
    <3> QED BY <1>1, <1>12, <3>1, <3>2, <3>3, <3>4, <3>5, <3>6 DEF WorkOK
  <2> QED BY <1>1, <2>1, <2>2, <2>3
<1> QED BY <1>1, <1>9, <1>10, <1>11, <1>13, <1>14, <1>15 DEF Sessions

\* A checkpoint is complete.
LEMMA CheckpointSavedSessions ==
    ASSUME SInv, NEW i \in Tasks, CheckpointSaved(i)
    PROVE  SInv'
<1>1. /\ task[i].pc = "saved" /\ task[i].pc \in Working /\ task[i].stop = "no" /\ Others(i)
      /\ task[i] \in ATask /\ PlaceOK(task[i]) /\ Types /\ Control
  BY TaskIs DEF CheckpointSaved, Runs, Others, Working, Holding
<1>2. PICK o \in DOMAIN object, c \in Chats :
              task[i].object = o /\ task[i].chat = c /\ object[o].chat = c /\ o # 0
  BY <1>1, AtWork
<1> DEFINE t == [task[i] EXCEPT !.pc = "refresh"]
<1>3. t \in ATask
  BY <1>1 DEF ATask, Places
<1>4. /\ t.pc = "refresh" /\ t.object = task[i].object /\ t.stop = "no"
      /\ t.kind = task[i].kind /\ t.chat = task[i].chat /\ t.by = task[i].by
      /\ t.archived = task[i].archived /\ t.saved = task[i].saved
  BY <1>1 DEF ATask
<1>5. task' = [task EXCEPT ![i] = t]
  BY DEF CheckpointSaved, Goto, Put
<1> HIDE DEF t
<1>6. task' \in Seq(ATask) /\ Tasks' = Tasks /\ task'[i] = t /\ \A k \in Tasks \ {i} : task'[k] = task[k]
  BY <1>1, <1>3, <1>5, PutIs
<1>7. UNCHANGED <<inbound, loop, object, disk, lock, tools, ghost, used>> /\ cache' = [cache EXCEPT ![c] = o]
  BY <1>2 DEF CheckpointSaved
<1>8. PlaceOK(t)
  BY <1>1, <1>4 DEF PlaceOK, PlacesOf, Places, Sync, Settled, ATask, Kind
<1>9. Finishes(i, o, c, {})
  BY <1>1, <1>2, <1>4, <1>6, <1>7 DEF Finishes, Saving
<1>10. Moves(i, {})
  BY <1>1, <1>4, <1>6, <1>7, <1>8 DEF Moves, Others
<1>11. LockMoves(i)
  <2>1. HoldsLock(i)
    BY <1>1 DEF Control, LockOK, Holding
  <2> QED BY <1>4, <1>6, <1>7, <2>1 DEF LockMoves, Locked, Holding
<1>12. StoreTypes'
  <2>1. cache' \in [Chats -> 0..Len(object)]
    BY <1>9, FinishedCache
  <2> QED BY <1>1, <1>7, <2>1 DEF Types, StoreTypes
<1> QED BY <1>9, <1>10, <1>11, <1>12, Move, FinishSessions DEF SInv

\* /new ends.
LEMMA NewRepliesSessions ==
    ASSUME SInv, NEW i \in Tasks, NewReplies(i)
    PROVE  SInv'
<1>1. /\ task[i].pc = "cleared" /\ task[i].pc \in Working /\ task[i].stop = "no" /\ Others(i)
      /\ task[i] \in ATask /\ PlaceOK(task[i]) /\ Types /\ Control
  BY TaskIs DEF NewReplies, Runs, Others, Working, Holding
<1>2. PICK o \in DOMAIN object, c \in Chats :
              task[i].object = o /\ task[i].chat = c /\ object[o].chat = c /\ o # 0
  BY <1>1, AtWork
<1>3. PICK t : t = Over(i)
  OBVIOUS
<1>4. /\ t \in ATask /\ PlaceOK(t) /\ t.pc = "done" /\ t.stop = "no" /\ t.object = 0
      /\ t.kind = task[i].kind /\ t.chat = task[i].chat /\ t.by = task[i].by
      /\ t.archived = task[i].archived /\ t.saved = task[i].saved
  BY <1>1, <1>3, OverIs
<1>5. task' = [task EXCEPT ![i] = t]
  BY <1>3 DEF NewReplies, Put
<1>6. task' \in Seq(ATask) /\ Tasks' = Tasks /\ task'[i] = t /\ \A k \in Tasks \ {i} : task'[k] = task[k]
  BY <1>1, <1>4, <1>5, PutIs
<1>7. UNCHANGED <<inbound, loop, object, disk, tools, ghost, used>> /\ cache' = [cache EXCEPT ![c] = 0] /\ Release(i)
  BY <1>2 DEF NewReplies
<1>8. Finishes(i, o, c, {})
  BY <1>1, <1>2, <1>4, <1>6, <1>7 DEF Finishes, Saving
<1>9. Moves(i, {})
  BY <1>1, <1>4, <1>6, <1>7 DEF Moves, Others
<1>10. LockMoves(i)
  BY <1>4, <1>6, <1>7 DEF LockMoves, Locked, Holding
<1>11. StoreTypes'
  <2>1. cache' \in [Chats -> 0..Len(object)]
    BY <1>8, FinishedCache
  <2> QED BY <1>1, <1>7, <2>1 DEF Types, StoreTypes
<1> QED BY <1>8, <1>9, <1>10, <1>11, Move, FinishSessions DEF SInv

\* A turn is in its file.
LEMMA TurnSavedSessions ==
    ASSUME SInv, NEW i \in Tasks, TurnSaved(i)
    PROVE  SInv'
<1>1. /\ task[i].pc = "saveTurn" /\ task[i].pc \in Working /\ task[i].stop = "no" /\ Others(i)
      /\ task[i] \in ATask /\ PlaceOK(task[i]) /\ Types /\ Control
  BY TaskIs DEF TurnSaved, Runs, Others, Working, Holding
<1>2. PICK o \in DOMAIN object, c \in Chats :
              task[i].object = o /\ task[i].chat = c /\ object[o].chat = c /\ o # 0
  BY <1>1, AtWork
<1>3. PICK pc \in {"close", "closeSilent"} : pc = IF AnswerIsSuppressed(i) THEN "closeSilent" ELSE "close"
  OBVIOUS
<1> DEFINE t == [task[i] EXCEPT !.pc = pc, !.saved = "yes"]
           u == [NewTask("background", c, "start") EXCEPT !.object = o]
           new == {Len(task) + 1}
<1>4. t \in ATask
  BY <1>1 DEF ATask, Places
<1>5. /\ t.pc = pc /\ t.object = task[i].object /\ t.stop = "no"
      /\ t.kind = task[i].kind /\ t.chat = task[i].chat /\ t.by = task[i].by
      /\ t.archived = task[i].archived /\ t.saved = "yes"
  BY <1>1 DEF ATask
<1>6. /\ u \in ATask /\ u.kind = "background" /\ u.chat = c /\ u.pc = "start" /\ u.object = o /\ u.stop = "no"
      /\ u.saved = "no" /\ u.archived = 0
  <2>1. PICK v : v = NewTask("background", c, "start")
    OBVIOUS
  <2>2. /\ v \in ATask /\ v.kind = "background" /\ v.chat = c /\ v.pc = "start" /\ v.stop = "no"
        /\ v.saved = "no" /\ v.archived = 0
    <3>1. "background" \in Kind /\ "start" \in Places
      BY DEF Kind, Places
    <3> QED BY <2>1, <3>1, NewTaskIs
  <2>3. u = [v EXCEPT !.object = o]
    BY <2>1
  <2>4. o \in Nat
    BY <1>1, ObjectsAre
  <2> QED BY <2>2, <2>3, <2>4 DEF ATask
<1>7. task' = Append([task EXCEPT ![i] = t], u)
  <2>1. [task EXCEPT ![i].pc = pc, ![i].saved = "yes"] = [task EXCEPT ![i] = t]
    BY <1>1, TasksAre
  <2> QED BY <1>2, <1>3, <2>1 DEF TurnSaved
<1> HIDE DEF t, u
<1>8. /\ task' \in Seq(ATask) /\ Tasks' = Tasks \cup new /\ Len(task) + 1 \notin Tasks
      /\ task'[Len(task) + 1] = u /\ task'[i] = t /\ \A k \in Tasks \ {i} : task'[k] = task[k]
  BY <1>1, <1>4, <1>6, <1>7, PutAppendIs
<1>9. UNCHANGED <<inbound, loop, object, disk, lock, tools, ghost, used>> /\ cache' = [cache EXCEPT ![c] = o]
  BY <1>2 DEF TurnSaved
<1>10. PlaceOK(t) /\ PlaceOK(u)
  <2>1. task[i].kind \in {"user", "system"}
    BY <1>1 DEF PlaceOK, PlacesOf, ATask, Kind
  <2> QED BY <1>3, <1>5, <1>6, <2>1 DEF PlaceOK, PlacesOf, Places, Sync, Settled
<1>11. Finishes(i, o, c, new)
  BY <1>1, <1>2, <1>3, <1>5, <1>6, <1>8, <1>9 DEF Finishes, Saving
<1>12. Moves(i, new)
  BY <1>1, <1>3, <1>5, <1>6, <1>8, <1>9, <1>10 DEF Moves, Others
<1>13. LockMoves(i)
  BY <1>1, <1>3, <1>5, <1>8, <1>9 DEF LockMoves, Locked, Holding
<1>14. StoreTypes'
  <2>1. cache' \in [Chats -> 0..Len(object)]
    BY <1>11, FinishedCache
  <2> QED BY <1>1, <1>9, <2>1 DEF Types, StoreTypes
<1> QED BY <1>1, <1>11, <1>12, <1>13, <1>14, Move, FinishSessions DEF SInv

-----------------------------------------------------------------------------
(* The process dies.                                                       *)

\* A file that was cut short holds the first entries, or none.
LEMMA CutShortIs ==
    ASSUME NEW s \in Session, NEW z \in CutShort(s)
    PROVE  /\ z \in Session /\ z.done \in Nat /\ Len(z.entries) \in Nat /\ DOMAIN z.entries = 1..Len(z.entries)
           /\ \A n \in 1..Len(z.entries) : n \in 1..Len(s.entries) /\ z.entries[n] = s.entries[n]
<1>1. s.entries \in Seq(Nat) /\ Len(s.entries) \in Nat /\ s.done \in Nat
  BY DEF Session
<1>2. CASE z = Blank
  <2>1. <<>> \in Seq(Nat) /\ 0 \in Nat /\ Len(<<>>) = 0 /\ DOMAIN <<>> = {}
    OBVIOUS
  <2>2. z.entries = <<>> /\ z.done = 0 /\ z = [entries |-> <<>>, done |-> 0]
    BY <1>2 DEF Blank
  <2>3. z \in Session
    BY <2>1, <2>2 DEF Session
  <2> QED BY <2>1, <2>2, <2>3
<1>3. ASSUME NEW m \in 0..Len(s.entries), z = [s EXCEPT !.entries = SubSeq(s.entries, 1, m)]
      PROVE  /\ z \in Session /\ z.done \in Nat /\ Len(z.entries) \in Nat /\ DOMAIN z.entries = 1..Len(z.entries)
             /\ \A n \in 1..Len(z.entries) : n \in 1..Len(s.entries) /\ z.entries[n] = s.entries[n]
  <2>1. PICK e : e = SubSeq(s.entries, 1, m)
    OBVIOUS
  <2>2. e \in Seq(Nat) /\ Len(e) = m /\ \A n \in 1..m : e[n] = s.entries[n]
    BY <1>1, <1>3, <2>1
  <2>3. z \in Session /\ z.entries = e /\ z.done = s.done
    BY <1>1, <1>3, <2>1, <2>2 DEF Session
  <2>4. DOMAIN e = 1..Len(e) /\ \A n \in 1..m : n \in 1..Len(s.entries)
    BY <1>1, <1>3, <2>2
  <2> QED BY <1>1, <1>3, <2>2, <2>3, <2>4
<1> QED BY <1>2, <1>3 DEF CutShort

\* What is left then.
LEMMA CrashIs ==
    ASSUME SInv, Crash
    PROVE  /\ task' \in Seq(ATask) /\ Tasks' = Tasks
           /\ \A k \in Tasks : /\ task'[k].pc = "done" /\ task'[k].object = 0 /\ PlaceOK(task'[k])
                               /\ task'[k].kind = task[k].kind /\ task'[k].chat = task[k].chat /\ task'[k].by = task[k].by
                               /\ task'[k].archived = task[k].archived /\ task'[k].saved = task[k].saved
           /\ inbound' = <<>> /\ loop' = Idle /\ object' = <<>> /\ cache' = [c \in Chats |-> 0]
           /\ lock' = [c \in Chats |-> <<>>] /\ tools' = [chat |-> CHOOSE c \in Chats : TRUE, sent |-> "no"]
           /\ used' = [used EXCEPT !.crashes = @ + 1]
           /\ disk' \in [Chats -> Session] /\ ghost' \in [overlap : SUBSET Chats, torn : SUBSET Chats]
           /\ \A c \in Chats :
                 \/ disk'[c] = disk[c] /\ (c \in ghost.torn => c \in ghost'.torn)
                 \/ c \in ghost'.torn /\ disk'[c] \in CutShort(disk[c])
           /\ ghost'.overlap = ghost.overlap /\ ghost.torn \subseteq ghost'.torn
<1>1. Types /\ \A k \in Tasks : task[k] \in ATask /\ PlaceOK(task[k])
  BY TaskIs DEF SInv, Control
<1>2. task' = [k \in Tasks |-> IF task[k].pc = "done" THEN task[k] ELSE Over(k)]
  BY DEF Crash
<1>3. ASSUME NEW k \in Tasks
      PROVE  /\ task'[k] \in ATask /\ task'[k].pc = "done" /\ task'[k].object = 0 /\ PlaceOK(task'[k])
             /\ task'[k].kind = task[k].kind /\ task'[k].chat = task[k].chat /\ task'[k].by = task[k].by
             /\ task'[k].archived = task[k].archived /\ task'[k].saved = task[k].saved
  <2>1. CASE task[k].pc = "done"
    <3>1. task'[k] = task[k] /\ task[k].object = 0
      BY <1>1, <1>2, <2>1 DEF PlaceOK
    <3> QED BY <1>1, <2>1, <3>1
  <2>2. CASE task[k].pc # "done"
    <3>1. task'[k] = Over(k)
      BY <1>2, <2>2
    <3> QED BY <1>1, <3>1, OverIs
  <2> QED BY <2>1, <2>2
<1>4. task' \in Seq(ATask) /\ Tasks' = Tasks
  <2>1. Len(task) \in Nat /\ Tasks = 1..Len(task)
    BY <1>1, TasksAre
  <2>2. task' \in [1..Len(task) -> ATask]
    BY <1>2, <1>3, <2>1
  <2>3. task' \in Seq(ATask) /\ Len(task') = Len(task)
    BY <2>1, <2>2, IsSequence
  <2> QED BY <2>3 DEF Tasks
<1>5. /\ disk' \in [Chats -> Session] /\ ghost' \in [overlap : SUBSET Chats, torn : SUBSET Chats]
      /\ \A c \in Chats :
            \/ disk'[c] = disk[c] /\ (c \in ghost.torn => c \in ghost'.torn)
            \/ c \in ghost'.torn /\ disk'[c] \in CutShort(disk[c])
      /\ ghost'.overlap = ghost.overlap /\ ghost.torn \subseteq ghost'.torn
  <2>1. disk \in [Chats -> Session] /\ ghost \in [overlap : SUBSET Chats, torn : SUBSET Chats]
    BY <1>1 DEF Types, StoreTypes
  <2>2. CASE UNCHANGED <<disk, ghost>>
    BY <2>1, <2>2
  <2>3. ASSUME NEW d \in BeingWritten, NEW z \in CutShort(disk[d]), Save(d, z), ghost' = [ghost EXCEPT !.torn = @ \cup {d}]
        PROVE  <1>5!:
    <3>1. d \in Chats
      BY TaskIs DEF BeingWritten
    <3>2. z \in Session
      BY <2>1, <3>1, CutShortIs
    <3>3. disk' = [disk EXCEPT ![d] = z]
      BY <2>3 DEF Save
    <3>4. ghost' \in [overlap : SUBSET Chats, torn : SUBSET Chats] /\ ghost'.overlap = ghost.overlap /\ ghost'.torn = ghost.torn \cup {d}
      BY <2>1, <2>3, <3>1
    <3>5. disk' \in [Chats -> Session] /\ disk'[d] = z /\ \A c \in Chats \ {d} : disk'[c] = disk[c]
      BY <2>1, <3>1, <3>2, <3>3
    <3> QED BY <3>4, <3>5
  <2> QED BY <2>2, <2>3 DEF Crash
<1> QED BY <1>3, <1>4, <1>5 DEF Crash

\* The process dies.
LEMMA CrashSessions ==
    ASSUME SInv, Crash
    PROVE  SInv'
<1>1. /\ task' \in Seq(ATask) /\ Tasks' = Tasks
      /\ \A k \in Tasks : /\ task'[k].pc = "done" /\ task'[k].object = 0 /\ PlaceOK(task'[k])
                          /\ task'[k].kind = task[k].kind /\ task'[k].chat = task[k].chat /\ task'[k].by = task[k].by
                          /\ task'[k].archived = task[k].archived /\ task'[k].saved = task[k].saved
      /\ inbound' = <<>> /\ loop' = Idle /\ object' = <<>> /\ cache' = [c \in Chats |-> 0]
      /\ lock' = [c \in Chats |-> <<>>] /\ tools' = [chat |-> CHOOSE c \in Chats : TRUE, sent |-> "no"]
      /\ used' = [used EXCEPT !.crashes = @ + 1]
      /\ disk' \in [Chats -> Session] /\ ghost' \in [overlap : SUBSET Chats, torn : SUBSET Chats]
      /\ \A c \in Chats :
            \/ disk'[c] = disk[c] /\ (c \in ghost.torn => c \in ghost'.torn)
            \/ c \in ghost'.torn /\ disk'[c] \in CutShort(disk[c])
      /\ ghost'.overlap = ghost.overlap /\ ghost.torn \subseteq ghost'.torn
  BY CrashIs
<1>2. Types /\ Sessions /\ Control
  BY DEF SInv, Control
<1>3. used \in [messages : Nat, tools : Nat, crashes : Nat] /\ disk \in [Chats -> Session]
  BY <1>2 DEF Types, StoreTypes
<1>4. used' \in [messages : Nat, tools : Nat, crashes : Nat] /\ used'.crashes = used.crashes + 1 /\ used.crashes \in Nat
  BY <1>1, <1>3
<1>5. <<>> \in Seq(Nat) /\ <<>> \in Seq(AnObject) /\ Len(<<>>) = 0 /\ DOMAIN <<>> = {} /\ 0 \in 0..0 /\ 0 \in Nat
  OBVIOUS
<1>6. DOMAIN object' = {} /\ Len(object') = 0 /\ \A c \in Chats : cache'[c] = 0 /\ lock'[c] = <<>>
  BY <1>1, <1>5
<1>7. Types'
  <2>1. TaskTypes'
    <3>1. loop' \in [pc : {"idle", "status", "stopTasks", "stopSubagents"}, msg : Nat]
      BY <1>1, <1>5 DEF Idle
    <3>2. lock' \in [Chats -> Seq(Nat)]
      BY <1>1, <1>5
    <3> QED BY <1>1, <1>5, <3>1, <3>2 DEF TaskTypes
  <2>2. StoreTypes'
    <3>1. tools' \in [chat : Chats, sent : {"yes", "no"}]
      <4>1. (CHOOSE c \in Chats : TRUE) \in Chats
        BY AgentAssumption DEF AgentAssumption
      <4> QED BY <1>1, <4>1
    <3>2. cache' \in [Chats -> 0..Len(object')]
      BY <1>1, <1>5, <1>6
    <3> QED BY <1>1, <1>4, <1>5, <3>1, <3>2 DEF StoreTypes
  <2> QED BY <2>1, <2>2 DEF Types
<1>8. Control'
  <2>1. OneSection'
    BY <1>1 DEF OneSection, InSync
  <2>2. QueueOK'
    BY <1>1, <1>5 DEF QueueOK, Idle
  <2>3. LockOK'
    BY <1>1, <1>5, <1>6 DEF LockOK, Holding
  <2>4. StopOK'
    <3>1. \A k \in Tasks : task[k].kind = "subagent" => task[k].by \in Tasks
      BY <1>2 DEF Control, StopOK
    <3>2. loop'.pc = "idle"
      BY <1>1 DEF Idle
    <3> QED BY <1>1, <3>1, <3>2 DEF StopOK
  <2> QED BY <1>1, <1>7, <2>1, <2>2, <2>3, <2>4 DEF Control
<1>9. InTurn' = {} /\ \A c : ~ IsSaving(c)'
  <2>1. InTurn' = {}
    BY <1>1 DEF InTurn
  <2>2. \A c : ~ IsSaving(c)'
    BY <1>1 DEF IsSaving, Saving
  <2> QED BY <2>1, <2>2
<1>10. ASSUME NEW c \in Chats PROVE FileOK(c)'
  <2>1. PICK s : s = disk[c]
    OBVIOUS
  <2>2. PICK z : z = disk'[c]
    OBVIOUS
  <2>3. /\ z.done \in Nat /\ Len(z.entries) \in Nat /\ DOMAIN z.entries = 1..Len(z.entries)
        /\ \A n \in 1..Len(z.entries) : n \in 1..Len(s.entries) /\ z.entries[n] = s.entries[n]
        /\ z = s \/ c \in ghost'.torn
    <3>1. CASE z = s
      BY <2>1, <3>1, FileEntriesAre
    <3>2. CASE z # s
      <4>1. c \in ghost'.torn /\ z \in CutShort(s) /\ s \in Session
        BY <1>1, <1>3, <2>1, <2>2, <3>2
      <4> QED BY <4>1, CutShortIs
    <3> QED BY <3>1, <3>2
  <2>4. EntriesOK(c, s.entries) /\ (c \in ghost.torn \/ s.done <= Len(s.entries)) /\ DOMAIN s.entries = 1..Len(s.entries)
    BY <1>2, <2>1, FileEntriesAre DEF Sessions, FileOK
  <2>5. EntriesOK(c, z.entries)'
    BY <1>1, <2>3, <2>4 DEF EntriesOK, Settled
  <2>6. c \in ghost'.torn \/ z.done <= Len(z.entries)
    BY <1>1, <2>3, <2>4
  <2>7. Fresh(z)'
    <3>1. ASSUME NEW n \in z.done + 1 .. Len(z.entries) PROVE task'[z.entries[n]].archived <= used'.crashes
      <4>1. n \in 1..Len(z.entries)
        BY <2>3
      <4>2. PICK k \in Tasks : k = z.entries[n]
        BY <2>3, <2>4, <4>1 DEF EntriesOK
      <4>3. task[k].archived <= 1 + used.crashes /\ task'[k].archived = task[k].archived
        BY <1>1, <1>2 DEF Sessions, KeptOK
      <4>4. used'.crashes = 1 + used.crashes
        BY <1>4
      <4> QED BY <4>2, <4>3, <4>4
    <3> QED BY <3>1 DEF Fresh
  <2> QED BY <1>6, <2>2, <2>5, <2>6, <2>7 DEF FileOK
<1>11. ASSUME NEW c \in Chats PROVE CalmOK(c)'
  BY <1>6, <1>9 DEF CalmOK
<1>12. ASSUME NEW k \in Tasks PROVE WorkOK(k)'
  <2>1. task'[k].object = 0 /\ task'[k].pc = "done" /\ k \notin InTurn' /\ 0 \in 0..Len(object')
    BY <1>1, <1>5, <1>6, <1>9
  <2> QED BY <2>1 DEF WorkOK, Working, Holding
<1>13. ASSUME NEW k \in Tasks PROVE KeptOK(k)'
  <2>1. KeptOK(k) /\ task[k].archived <= 1 + used.crashes /\ task[k].archived \in Nat /\ task[k].chat \in Chats
    BY <1>2, TaskIs DEF Sessions, KeptOK, ATask
  <2>2. task[k].archived <= 1 + used'.crashes
    BY <1>4, <2>1
  <2>3. Calm(task[k].chat)' => Calm(task[k].chat) /\ disk'[task[k].chat] = disk[task[k].chat]
    BY <1>1, <2>1 DEF Calm
  <2>4. disk'[task[k].chat] = disk[task[k].chat] => (InFile(k)' <=> InFile(k))
    BY <1>1 DEF InFile
  <2> QED BY <1>1, <2>1, <2>2, <2>3, <2>4 DEF KeptOK
<1> QED BY <1>1, <1>6, <1>8, <1>10, <1>11, <1>12, <1>13 DEF SInv, Sessions

-----------------------------------------------------------------------------
(* The invariant.                                                          *)

\* It holds at the start.
LEMMA SessionsStart == Init => SInv
<1> SUFFICES ASSUME Init PROVE SInv
  OBVIOUS
<1>1. <<>> \in Seq(Nat) /\ <<>> \in Seq(AnObject) /\ <<>> \in Seq(ATask) /\ Len(<<>>) = 0 /\ DOMAIN <<>> = {} /\ 0 \in 0..0 /\ 0 \in Nat
  OBVIOUS
<1>2. Tasks = {} /\ DOMAIN object = {} /\ Len(object) = 0 /\ \A c \in Chats : cache[c] = 0 /\ lock[c] = <<>> /\ disk[c] = Blank
  BY <1>1 DEF Init, Tasks
<1>3. Types
  <2>1. TaskTypes
    BY <1>1 DEF Init, TaskTypes, Idle
  <2>2. StoreTypes
    <3>1. tools \in [chat : Chats, sent : {"yes", "no"}]
      <4>1. (CHOOSE c \in Chats : TRUE) \in Chats
        BY AgentAssumption DEF AgentAssumption
      <4> QED BY <4>1 DEF Init
    <3>2. disk \in [Chats -> Session]
      <4>1. Blank \in Session
        BY <1>1 DEF Blank, Session
      <4> QED BY <4>1 DEF Init
    <3>3. cache \in [Chats -> 0..Len(object)]
      BY <1>1, <1>2 DEF Init
    <3> QED BY <1>1, <3>1, <3>2, <3>3 DEF Init, StoreTypes
  <2> QED BY <2>1, <2>2 DEF Types
<1>4. Control
  <2>1. OneSection
    BY <1>2 DEF OneSection
  <2>2. QueueOK
    BY <1>1 DEF QueueOK, Init, Idle
  <2>3. LockOK
    BY <1>1, <1>2 DEF LockOK
  <2>4. StopOK
    BY <1>2 DEF StopOK, Init, Idle
  <2> QED BY <1>2, <1>3, <2>1, <2>2, <2>3, <2>4 DEF Control
<1>5. ASSUME NEW c \in Chats PROVE FileOK(c) /\ CalmOK(c)
  <2>1. disk[c].entries = <<>> /\ disk[c].done = 0 /\ cache[c] = 0 /\ disk[c] = Blank
    BY <1>2 DEF Blank
  <2>2. EntriesOK(c, disk[c].entries)
    BY <1>1, <2>1 DEF EntriesOK
  <2>3. FileOK(c)
    BY <1>1, <2>1, <2>2 DEF FileOK
  <2>4. InTurn = {}
    BY <1>2 DEF InTurn
  <2> QED BY <1>2, <2>3, <2>4 DEF CalmOK
<1> QED BY <1>2, <1>4, <1>5 DEF SInv, Sessions

\* Every step keeps it.
LEMMA SessionsStep == SInv /\ [Next]_vars => SInv'
<1> SUFFICES ASSUME SInv, [Next]_vars PROVE SInv'
  OBVIOUS
<1>1. ASSUME NEW kind \in Kinds, NEW chat \in Chats, Receive(kind, chat) PROVE SInv'
  BY <1>1, ReceiveQuiet
<1>2. CASE Loop
  BY <1>2, LoopQuiet
<1>3. ASSUME NEW i \in Tasks, Turn(i) PROVE SInv'
  <2>1. CASE Enter(i)
    BY <2>1, EnterSessions
  <2>2. CASE Prepare(i)
    BY <2>2, StartQuiet DEF Prepare
  <2>3. CASE PrepareFails(i) \/ ModelFails(i) \/ TurnReplies(i)
    BY <2>3, EndQuiet
  <2>4. CASE MessageToolRuns(i)
    BY <2>4, ToolQuiet
  <2>5. CASE SpawnToolRuns(i)
    BY <2>5, SpawnQuiet
  <2>6. CASE TurnEnds(i)
    BY <2>6, TurnEndSessions
  <2>7. CASE TurnSaved(i)
    BY <2>7, TurnSavedSessions
  <2> QED BY <1>3, <2>1, <2>2, <2>3, <2>4, <2>5, <2>6, <2>7 DEF Turn
<1>4. ASSUME NEW i \in Tasks, Consolidation(i) PROVE SInv'
  <2>1. CASE BackgroundStarts(i)
    BY <2>1, StartQuiet DEF BackgroundStarts
  <2>2. CASE Consolidate(i)
    BY <2>2, PassQuiet DEF Consolidate
  <2>3. CASE Refresh(i)
    <3>1. task[i].pc = "refresh" /\ PlaceOK(task[i]) /\ task[i] \in ATask
      BY <2>3, TaskIs DEF Refresh, Runs
    <3>2. task[i].kind # "new"
      BY <3>1 DEF PlaceOK, PlacesOf
    <3>3. HoldsLock(i)
      BY <3>1 DEF SInv, Control, LockOK, Holding
    <3> QED BY <2>3, <3>2, <3>3, PassQuiet DEF Refresh
  <2>4. CASE RefreshFails(i)
    BY <2>4, EndQuiet
  <2>5. CASE ArchiveCommits(i)
    BY <2>5, CommitSessions
  <2>6. CASE ArchiveFails(i) \/ ArchiveRefused(i) \/ ArchiveRaises(i)
    BY <2>6, ArchiveQuiet
  <2>7. CASE Checkpoint(i)
    BY <2>7, CheckpointSessions
  <2>8. CASE CheckpointSaved(i)
    BY <2>8, CheckpointSavedSessions
  <2> QED BY <1>4, <2>1, <2>2, <2>3, <2>4, <2>5, <2>6, <2>7, <2>8 DEF Consolidation
<1>5. ASSUME NEW i \in Tasks, New(i) PROVE SInv'
  <2>1. CASE NewBegins(i)
    BY <2>1, NewQuiet
  <2>2. CASE NewClears(i)
    BY <2>2, ClearSessions
  <2>3. CASE NewReplies(i)
    BY <2>3, NewRepliesSessions
  <2> QED BY <1>5, <2>1, <2>2, <2>3 DEF New
<1>6. ASSUME NEW i \in Tasks, SubagentEnds(i) \/ CancelArrives(i) PROVE SInv'
  BY <1>6, SubagentQuiet, EndQuiet
<1>7. ASSUME NEW i \in Tasks, NEW tool \in {"message", "spawn"}, CallTool(i, tool) PROVE SInv'
  BY <1>7, ToolQuiet
<1>8. CASE Crash
  BY <1>8, CrashSessions
<1>9. CASE UNCHANGED vars
  <2>1. /\ task' = task /\ inbound' = inbound /\ loop' = loop /\ object' = object /\ cache' = cache /\ disk' = disk
        /\ lock' = lock /\ tools' = tools /\ ghost' = ghost /\ used' = used /\ Tasks' = Tasks
    BY <1>9 DEF vars, Tasks
  <2>2. Control /\ Types /\ 0 \notin Tasks
    BY TasksAre DEF SInv, Control
  <2>3. Moves(0, {})
    BY <2>1, <2>2 DEF Moves, Types, TaskTypes
  <2>4. LockMoves(0)
    BY <2>1, <2>2 DEF LockMoves
  <2>5. StoreTypes'
    BY <2>1, <2>2 DEF Types, StoreTypes
  <2>6. Quietly(0, {})
    BY <2>1, <2>2 DEF Quietly
  <2> QED BY <2>2, <2>3, <2>4, <2>5, <2>6, Move, QuietSessions DEF SInv
<1> QED BY <1>1, <1>2, <1>3, <1>4, <1>5, <1>6, <1>7, <1>8, <1>9 DEF Next, Step

\* The types, who may be where, who holds which lock, and what every file, session object and
\* task at work on one hold: at every moment of every run, crashes included.
THEOREM SessionsInvariant == Spec => []SInv
<1> QED BY SessionsStart, SessionsStep, PTL DEF Spec

-----------------------------------------------------------------------------
(* What it means.                                                          *)

\* What the sessions hold has its type, and at every await the file of a cached session holds
\* what the process shows, although stale Session objects are written too.
THEOREM SessionsSound == Spec => []SessionsAreSound
<1>1. SInv => SessionsAreSound
  <2> SUFFICES ASSUME SInv PROVE SessionsAreSound
    OBVIOUS
  <2>1. Types /\ Sessions /\ Control
    BY DEF SInv, Control
  <2>2. ASSUME NEW i \in Tasks
        PROVE  /\ task[i].kind \in Dispatched \cup {"stop", "status", "background", "subagent"}
               /\ task[i].chat \in Chats /\ task[i].object \in 0..Len(object) /\ task[i].tries \in 0..MaxFailures
    <3>1. task[i] \in ATask
      BY TaskIs
    <3>2. task[i].object \in 0..Len(object)
      BY <2>1 DEF Sessions, WorkOK
    <3> QED BY <3>1, <3>2 DEF ATask, Kind, Dispatched
  <2>3. \A n \in DOMAIN inbound : inbound[n] \in Tasks
    BY <2>1 DEF Control, QueueOK
  <2>4. /\ loop.pc \in {"idle", "status", "stopTasks", "stopSubagents"} /\ cache \in [Chats -> 0..Len(object)]
        /\ disk \in [Chats -> Session] /\ tools.chat \in Chats /\ tools.sent \in {"yes", "no"}
    BY <2>1 DEF Types, TaskTypes, StoreTypes
  <2>5. ASSUME NEW c \in Chats PROVE lock[c] \in Seq(Tasks)
    <3>1. /\ lock[c] \in Seq(Nat) /\ DOMAIN lock[c] = 1..Len(lock[c]) /\ Len(lock[c]) \in Nat
          /\ \A n \in 1..Len(lock[c]) : lock[c][n] \in Tasks
      BY <2>1, LockIs DEF Control
    <3>2. lock[c] \in [1..Len(lock[c]) -> Tasks]
      BY <3>1
    <3> QED BY <3>1, <3>2, IsSequence
  <2>6. ASSUME NEW o \in DOMAIN object
        PROVE  object[o].chat \in ghost.torn \/ object[o].done \in 0..Len(object[o].entries)
    <3>1. object[o].done \in Nat /\ Len(object[o].entries) \in Nat
      BY EntriesAre
    <3> QED BY <2>1, <3>1 DEF Sessions, ObjectOK
  <2>7. TypeOK
    BY <2>2, <2>3, <2>4, <2>5, <2>6 DEF TypeOK
  <2>8. ASSUME AtRest, NEW c \in Chats, cache[c] # 0 PROVE disk[c] = Contents(cache[c])
    <3>1. ~ IsSaving(c)
      BY <2>8 DEF AtRest, IsSaving, InSync, Saving
    <3> QED BY <2>1, <2>8, <3>1 DEF Sessions, FileOK
  <2> QED BY <2>7, <2>8 DEF SessionsAreSound, FileIsView
<1> QED BY <1>1, SessionsInvariant, PTL

\* What is said in a chat stays in its history until it is in the memory database, and gets
\* there once, and at most once more for every crash.
THEOREM KeptOrArchived == Spec => []KeptOrArchivedOnce
<1>1. SInv => KeptOrArchivedOnce
  <2> SUFFICES ASSUME SInv, NEW i \in Tasks
               PROVE  /\ task[i].archived <= 1 + used.crashes
                      /\ task[i].saved = "yes" /\ task[i].chat \notin ghost.overlap \cup ghost.torn
                            => Visible(i) \/ task[i].archived > 0
    BY DEF KeptOrArchivedOnce, NothingLost, ArchivedOnce
  <2>1. KeptOK(i) /\ task[i].chat \in Chats /\ Types
    BY TaskIs DEF SInv, Sessions
  <2>2. ASSUME Calm(task[i].chat), InFile(i) PROVE Visible(i)
    <3>1. PICK c \in Chats : c = task[i].chat
      BY <2>1
    <3>2. PICK s : s = disk[c]
      OBVIOUS
    <3>3. View(c).entries = s.entries /\ View(c).done = s.done
      <4>1. View(c) = IF cache[c] # 0 THEN disk[c] ELSE disk[c]
        BY <2>2, <3>1, CalmFile DEF View
      <4> QED BY <3>2, <4>1
    <3>4. s.done \in Nat /\ Len(s.entries) \in Nat /\ s.entries \in Seq(Nat)
      BY <2>1, <3>2, FilesAre
    <3>5. PICK n \in s.done + 1 .. Len(s.entries) : s.entries[n] = i
      BY <2>2, <3>1, <3>2 DEF InFile
    <3>6. PICK e : e = SubSeq(s.entries, s.done + 1, Len(s.entries))
      OBVIOUS
    <3>7. e \in Seq(Nat) /\ e[n - s.done] = s.entries[n] /\ n - s.done \in 1..Len(e)
      <4>1. PICK a \in Nat, b \in Nat : a = s.done + 1 /\ b = Len(s.entries)
        BY <3>4
      <4>2. n \in Nat /\ a <= n /\ n <= b /\ 1 <= a
        BY <3>4, <4>1
      <4>3. e = SubSeq(s.entries, a, b) /\ \A m \in a..b : s.entries[m] \in Nat
        <5>1. \A m \in 1..b : s.entries[m] \in Nat
          BY <3>4, <4>1
        <5>2. \A m \in a..b : m \in 1..b
          BY <4>2
        <5> QED BY <3>6, <4>1, <5>1, <5>2
      <4>4. /\ e \in Seq(Nat) /\ Len(e) = (IF a <= b THEN b - a + 1 ELSE 0)
            /\ \A m \in 1 .. b - a + 1 : e[m] = s.entries[a + m - 1]
        <5>1. a \in Int /\ b \in Int
          BY <4>1
        <5> QED BY <4>3, <5>1, SubSeqProperties
      <4>5. PICK m \in Nat : m = n - a + 1
        BY <4>1, <4>2
      <4>6. m \in 1 .. b - a + 1 /\ a + m - 1 = n /\ m = n - s.done
        <5>1. m \in 1 .. b - a + 1
          BY <4>2, <4>5
        <5>2. a + m - 1 = n
          BY <4>2, <4>5
        <5>3. m = n - s.done
          <6>1. PICK d \in Nat : d = s.done
            BY <3>4
          <6>2. a = d + 1
            BY <4>1, <6>1
          <6> QED BY <4>2, <4>5, <6>1, <6>2
        <5> QED BY <5>1, <5>2, <5>3
      <4>7. Len(e) = b - a + 1 /\ e[m] = s.entries[n]
        BY SMTT(30), <4>1, <4>2, <4>4, <4>6
      <4> QED BY <4>4, <4>6, <4>7
    <3>8. i \in ToSet(e)
      BY <3>5, <3>7 DEF ToSet
    <3> QED BY <3>1, <3>3, <3>6, <3>8 DEF Visible, Unconsolidated
  <2> QED BY <2>1, <2>2 DEF KeptOK, Calm
<1> QED BY <1>1, SessionsInvariant, PTL

\* When /stop answers, no message of the chat that was dispatched before is worked on, and no
\* subagent that one of them spawned is alive.
THEOREM StopCompletes == Spec => StopIsComplete
<1> DEFINE Done == LET chat == task[loop.msg].chat
                   IN  /\ ActiveTasks(chat) = {}
                       /\ \A i \in Subagents(chat) :
                             LET by == task[task[i].by] IN by.chat = chat => by.kind = "system"
<1>1. SInv /\ StopReplies => Done
  <2> SUFFICES ASSUME SInv, StopReplies PROVE Done
    OBVIOUS
  <2>1. loop.pc = "stopSubagents" /\ \A i \in Tasks : task[i].stop = "no"
    BY DEF StopReplies
  <2>2. \A i \in Subagents(task[loop.msg].chat) : i \in Tasks
    BY DEF Subagents
  <2> QED BY <2>1, <2>2 DEF SInv, Control, StopOK
<1>2. SInv /\ [Next]_vars => [StopReplies => Done]_vars
  BY <1>1
<1> QED BY <1>2, SessionsInvariant, PTL DEF Spec, StopIsComplete

-----------------------------------------------------------------------------
(* The inductive invariant. *)

PCs     == Kept \cup Hooks \cup {"idle", "lock", "prepare", "ask", "execute", "drain", "over"}
Outcome == Terminal \cup {"none"}

ATurn   == [pc : PCs, iteration : Nat, calls : BOOLEAN, stop : {"no", "waits", "raised"}, how : Outcome]
AWrite == [run : RunIds, what : Kept \cup Hooks, iteration : Nat, status : Outcome,
           state : {"runs", "done", "failed"}]
Stored == {"memory", "model", "limit", "tools", "error"}
Row    == [status : Outcome \cup {"running"}, events : Seq(Stored \X Nat), usage : Nat]
Conn   == [state : {"none", "open", "closed"}, subscribed : BOOLEAN, queue : Seq({"event", "end"}),
           sender : {"waits", "sends", "over"}]
Mishap == [errors : Int, stops : Int, breaks : Int, unread : Int, endless : SUBSET RunIds, untold : BOOLEAN]

\* What the trace is made of.
TraceTypes == turn \in [RunIds -> ATurn] /\ writes \in SUBSET AWrite /\ rows \in [RunIds -> Row]

\* What the events, the lock and the faults are made of.
OtherTypes ==
    /\ tracing \in [ready : BOOLEAN, holder : SUBSET RunIds]
    /\ tracing.holder = {} \/ \E r \in RunIds : tracing.holder = {r}
    /\ conn \in Conn /\ Len(conn.queue) <= QueueSize
    /\ wire \in 0 .. WireSize
    /\ mishap \in Mishap

\* A run has at most one write, the one that its turn awaits or, while it drains, one of
\* its hook; and the row says what has been written.
ControlOK(r) ==
    /\ turn[r].iteration >= 1 /\ turn[r].iteration <= MaxIterations[r]
    /\ turn[r].stop = "waits" => turn[r].pc \in Kept
    /\ turn[r].pc \in {"model", "usage", "finish"} => turn[r].how \in Terminal
    /\ \A w \in writes : w.run = r =>
          /\ w.iteration = turn[r].iteration
          /\ IF turn[r].pc = "drain" THEN w.what \in Hooks ELSE w.what = turn[r].pc
          /\ w.what = "start" /\ w.state # "done" => rows[r].status = "none"
    /\ \A v, w \in writes : v.run = r /\ w.run = r => v = w

\* A row ends with its turn, and as the turn did, unless the store refused that or nobody wrote it.
EndOK(r) ==
    /\ turn[r].pc \in {"idle", "lock", "initialize"} => rows[r].status = "none"
    /\ rows[r].status \in Terminal => turn[r].pc \in {"finish", "over"}
    /\ turn[r].pc = "finish" => \A w \in writes : w.run = r =>
          /\ w.status = turn[r].how
          /\ w.state = "done" => rows[r].status \in {"none", turn[r].how}
          /\ w.state = "failed" => r \in mishap.endless
    /\ turn[r].pc = "over" /\ rows[r].status # "none" /\ r \notin mishap.endless => rows[r].status = turn[r].how

\* The place that no event of the run has passed.
High(pc, k, n) ==
    CASE pc \in {"idle", "lock", "initialize", "start", "prepare"} -> -1
      [] pc \in {"memory", "memoryError"} -> 0
      [] pc = "ask" -> 3 * k - 1
      [] pc \in {"model", "usage", "execute"} -> 3 * k
      [] pc = "limit" -> 3 * k + 1
      [] pc = "tools" -> 3 * k + 2
      [] pc = "drain" -> 3 * n + 2
      [] pc \in {"error", "finish", "over"} -> 3 * n + 3

IsEvent(what) == what \in {"memory", "memoryError", "model", "limit", "tools", "error"}

PlaceIn(r, e) == Place(e, MaxIterations[r])
HighOf(r)     == High(turn[r].pc, turn[r].iteration, MaxIterations[r])
PlaceOf(w)    == PlaceIn(w.run, Event(w.what, w.iteration))

\* The events of the row are in order, and whatever is being written comes after them.
EventsOK(r) ==
    LET events == rows[r].events IN
    /\ \A i, j \in DOMAIN events : i < j => PlaceIn(r, events[i]) < PlaceIn(r, events[j])
    /\ \A i \in DOMAIN events : PlaceIn(r, events[i]) <= HighOf(r)
    /\ \A w \in writes : w.run = r /\ w.state = "runs" /\ IsEvent(w.what) =>
          \A i \in DOMAIN events : PlaceIn(r, events[i]) < PlaceOf(w)

IInv ==
    /\ TraceTypes /\ OtherTypes
    /\ \A r \in RunIds : ControlOK(r) /\ EndOK(r) /\ EventsOK(r)

-----------------------------------------------------------------------------
(* The invariant implies the property, and holds initially. *)

\* Places are integers.
LEMMA PlaceType ==
    ASSUME NEW n \in Nat, NEW e \in Stored \X Nat
    PROVE  Place(e, n) \in Int
  BY DEF Place, Stored

\* So is the bound of a turn.
LEMMA HighType ==
    ASSUME NEW n \in Nat, NEW k \in Nat, NEW pc \in PCs
    PROVE  High(pc, k, n) \in Int
  BY DEF High, PCs, Kept, Hooks

\* What is stored of an event has the kind of one.
LEMMA EventType ==
    ASSUME NEW what, IsEvent(what), NEW k \in Nat
    PROVE  Event(what, k) \in Stored \X Nat
  BY DEF Event, IsEvent, Stored

\* Types, order and ends follow from the parts of the invariant.
LEMMA Implied == IInv => TraceIsSound
<1> SUFFICES ASSUME IInv PROVE TraceIsSound
  OBVIOUS
<1>1. DashboardTypeOK
  <2>1. \A r \in RunIds : turn[r].pc \in PCs /\ rows[r].status \in Outcome \cup {"running"}
    BY DEF IInv, TraceTypes, ATurn, Row
  <2>2. Cardinality(tracing.holder) <= 1
    <3>1. CASE tracing.holder = {}
      BY <3>1, FS_EmptySet
    <3>2. ASSUME NEW r \in RunIds, tracing.holder = {r} PROVE Cardinality(tracing.holder) <= 1
      <4>1. Cardinality({r}) = 1
        BY FS_Singleton
      <4> QED BY <3>2, <4>1
    <3> QED BY <3>1, <3>2 DEF IInv, OtherTypes
  <2>3. wire <= WireSize /\ Len(conn.queue) <= QueueSize
    BY DEF IInv, OtherTypes
  <2>4. \A w \in writes : w.run \in RunIds /\ w.what \in Kept \cup Hooks
    BY DEF IInv, TraceTypes, AWrite
  <2> QED BY <2>1, <2>2, <2>3, <2>4 DEF DashboardTypeOK, PCs, Outcome
<1>2. TerminalIsLast
  <2> SUFFICES ASSUME NEW w \in writes, w.state = "runs", rows[w.run].status \in Terminal
               PROVE  w.what = "finish"
    BY DEF TerminalIsLast
  <2>1. w.run \in RunIds /\ w.what \in Kept \cup Hooks
    BY DEF IInv, TraceTypes, AWrite
  <2>2. turn[w.run].pc \in {"finish", "over"}
    BY <2>1 DEF IInv, EndOK
  <2>3. w.what = turn[w.run].pc
    BY <2>1, <2>2 DEF IInv, ControlOK
  <2> QED BY <2>1, <2>2, <2>3 DEF Kept, Hooks
<1>3. EventsInOrder
  BY DEF IInv, EventsOK, PlaceIn, EventsInOrder
<1>4. RunEnds
  BY DEF IInv, EndOK, RunEnds
<1> QED BY <1>1, <1>2, <1>3, <1>4 DEF TraceIsSound

\* No write has begun, and no run has a row.
LEMMA Initially == DashboardInit => IInv
<1> SUFFICES ASSUME DashboardInit PROVE IInv
  OBVIOUS
<1> USE DEF DashboardInit
<1>1. TraceTypes
  BY DEF TraceTypes, ATurn, Row, PCs, Outcome
<1>2. OtherTypes
  BY DashboardAssumption DEF OtherTypes, Conn, Mishap, NoConn
<1>3. ASSUME NEW r \in RunIds PROVE ControlOK(r) /\ EndOK(r) /\ EventsOK(r)
  <2>1. turn[r].pc \in {"idle", "over"} /\ turn[r].iteration = 1 /\ turn[r].stop = "no"
        /\ rows[r].status = "none" /\ rows[r].events = <<>>
    OBVIOUS
  <2> QED BY <1>3, <2>1, DashboardAssumption DEF ControlOK, EndOK, EventsOK, Terminal
<1> QED BY <1>1, <1>2, <1>3 DEF IInv

-----------------------------------------------------------------------------
(* What a step does to the run it is about. *)

OfOthers(r) == {w \in writes : w.run # r}

\* Nothing of another run changes.
OthersKept(r) ==
    /\ \A q \in RunIds \ {r} :
          turn'[q] = turn[q] /\ rows'[q] = rows[q] /\ (q \in mishap'.endless <=> q \in mishap.endless)
    /\ {w \in writes' : w.run # r} = OfOthers(r)

\* A step about one run need only keep the invariant of that run.
LEMMA OneRun ==
    ASSUME IInv, NEW r \in RunIds, OthersKept(r), TraceTypes', OtherTypes',
           ControlOK(r)', EndOK(r)', EventsOK(r)'
    PROVE  IInv'
<1>1. ASSUME NEW q \in RunIds, q # r PROVE ControlOK(q)' /\ EndOK(q)' /\ EventsOK(q)'
  <2>1. turn'[q] = turn[q] /\ rows'[q] = rows[q] /\ (q \in mishap'.endless <=> q \in mishap.endless)
    BY <1>1 DEF OthersKept
  <2>2. \A w : w.run = q => (w \in writes' <=> w \in writes)
    BY <1>1 DEF OthersKept, OfOthers
  <2>3. ControlOK(q) /\ EndOK(q) /\ EventsOK(q)
    BY DEF IInv
  <2>4. ControlOK(q)'
    BY <2>1, <2>2, <2>3 DEF ControlOK
  <2>5. EndOK(q)'
    BY <2>1, <2>2, <2>3 DEF EndOK
  <2>6. EventsOK(q)'
    <3>1. HighOf(q)' = HighOf(q)
      BY <2>1 DEF HighOf
    <3> QED BY <2>1, <2>2, <2>3, <3>1 DEF EventsOK, PlaceOf, PlaceIn
  <2> QED BY <2>4, <2>5, <2>6
<1> QED BY <1>1 DEF IInv

\* A step that is not about a run at all.
LEMMA NoRun ==
    ASSUME IInv, UNCHANGED <<turn, writes, rows>>, mishap'.endless = mishap.endless, OtherTypes'
    PROVE  IInv'
  BY DEF IInv, TraceTypes, ControlOK, EndOK, EventsOK, HighOf, PlaceOf, PlaceIn

\* Outside of a drain, a turn awaits every write of its run.
LEMMA AwaitsAll ==
    ASSUME IInv, NEW r \in RunIds, turn[r].pc # "drain"
    PROVE  /\ Awaited(r) = {w \in writes : w.run = r}
           /\ writes \ Awaited(r) = OfOthers(r)
           /\ turn[r].pc \notin Kept \cup Hooks => writes = OfOthers(r)
  BY DEF IInv, ControlOK, Awaited, OfOthers, TraceTypes, AWrite

\* A turn begins a write.
LEMMA WriteBegins ==
    ASSUME IInv, NEW r \in RunIds, NEW t \in ATurn, NEW w \in AWrite,
           turn' = [turn EXCEPT ![r] = t], writes' = OfOthers(r) \cup {w}, rows' = rows,
           mishap'.endless = mishap.endless, OtherTypes',
           w.run = r, w.state = "runs", w.what = t.pc, w.iteration = t.iteration,
           t.iteration = turn[r].iteration, t.stop = "waits" => t.pc \in Kept,
           t.pc \in {"model", "usage", "finish"} => t.how \in Terminal,
           t.pc \in {"initialize", "start"} => rows[r].status = "none",
           t.pc = "finish" => w.status = t.how,
           turn[r].pc \notin {"finish", "over"},
           HighOf(r) <= High(t.pc, t.iteration, MaxIterations[r]),
           IsEvent(t.pc) => HighOf(r) < PlaceOf(w)
    PROVE  IInv'
<1>1. ControlOK(r) /\ EndOK(r) /\ EventsOK(r) /\ TraceTypes
  BY DEF IInv
<1>2. turn'[r] = t /\ t.pc \in Kept \cup Hooks /\ rows'[r] = rows[r]
  BY <1>1 DEF TraceTypes, AWrite
<1>3. TraceTypes'
  BY <1>1 DEF TraceTypes, OfOthers
<1>4. OthersKept(r)
  BY <1>1 DEF OthersKept, OfOthers, TraceTypes
<1>5. \A v \in writes' : v.run = r => v = w
  BY DEF OfOthers
<1>6. ControlOK(r)'
  BY <1>1, <1>2, <1>5 DEF ControlOK, Kept, Hooks
<1>7. EndOK(r)'
  BY <1>1, <1>2, <1>5 DEF EndOK, Kept, Hooks
<1>8. EventsOK(r)'
  <2> DEFINE events == rows[r].events
  <2>1. \A i \in DOMAIN events : PlaceIn(r, events[i]) <= HighOf(r)
    BY <1>1 DEF EventsOK
  <2>2. \A i \in DOMAIN events : PlaceIn(r, events[i]) \in Int
    BY <1>1, PlaceType, DashboardAssumption DEF TraceTypes, Row, PlaceIn
  <2>3. HighOf(r) \in Int /\ HighOf(r)' \in Int /\ HighOf(r)' = High(t.pc, t.iteration, MaxIterations[r])
    BY <1>1, <1>2, HighType, DashboardAssumption DEF TraceTypes, ATurn, HighOf
  <2>4. IsEvent(t.pc) => PlaceOf(w) \in Int
    BY PlaceType, EventType, DashboardAssumption DEF PlaceOf, PlaceIn, AWrite
  <2>5. ASSUME NEW i \in DOMAIN events PROVE PlaceIn(r, events[i]) <= HighOf(r)'
    BY <2>1, <2>2, <2>3
  <2>6. ASSUME NEW i \in DOMAIN events, IsEvent(t.pc) PROVE PlaceIn(r, events[i]) < PlaceOf(w)
    BY <2>1, <2>2, <2>3, <2>4, <2>6
  <2>7. \A i, j \in DOMAIN events : i < j => PlaceIn(r, events[i]) < PlaceIn(r, events[j])
    BY <1>1 DEF EventsOK
  <2> QED BY <1>2, <1>5, <2>5, <2>6, <2>7 DEF EventsOK, PlaceOf, PlaceIn
<1> QED BY <1>3, <1>4, <1>6, <1>7, <1>8, OneRun

\* A turn goes on without a write.
LEMMA NoWrite ==
    ASSUME IInv, NEW r \in RunIds, NEW t \in ATurn,
           turn' = [turn EXCEPT ![r] = t], writes' = OfOthers(r), rows' = rows,
           \A q \in RunIds \ {r} : q \in mishap'.endless <=> q \in mishap.endless, OtherTypes',
           t.pc \in {"lock", "prepare", "ask", "execute", "over"}, t.stop # "waits",
           t.iteration >= 1, t.iteration <= MaxIterations[r],
           t.pc = "lock" => rows[r].status = "none",
           t.pc # "over" => turn[r].pc \notin {"finish", "over"},
           t.pc = "over" => rows[r].status \in {"none", t.how} \/ r \in mishap'.endless,
           HighOf(r) <= High(t.pc, t.iteration, MaxIterations[r])
    PROVE  IInv'
<1>1. ControlOK(r) /\ EndOK(r) /\ EventsOK(r) /\ TraceTypes
  BY DEF IInv
<1>2. turn'[r] = t /\ rows'[r] = rows[r]
  BY <1>1 DEF TraceTypes
<1>3. TraceTypes'
  BY <1>1 DEF TraceTypes, OfOthers
<1>4. OthersKept(r)
  BY <1>1 DEF OthersKept, OfOthers, TraceTypes
<1>5. \A v \in writes' : v.run # r
  BY DEF OfOthers
<1>6. ControlOK(r)'
  BY <1>1, <1>2, <1>5 DEF ControlOK
<1>7. EndOK(r)'
  BY <1>1, <1>2, <1>5 DEF EndOK
<1>8. EventsOK(r)'
  <2> DEFINE events == rows[r].events
  <2>1. \A i \in DOMAIN events : PlaceIn(r, events[i]) <= HighOf(r)
    BY <1>1 DEF EventsOK
  <2>2. \A i \in DOMAIN events : PlaceIn(r, events[i]) \in Int
    BY <1>1, PlaceType, DashboardAssumption DEF TraceTypes, Row, PlaceIn
  <2>3. HighOf(r) \in Int /\ HighOf(r)' \in Int /\ HighOf(r)' = High(t.pc, t.iteration, MaxIterations[r])
    BY <1>1, <1>2, HighType, DashboardAssumption DEF TraceTypes, ATurn, HighOf
  <2>4. ASSUME NEW i \in DOMAIN events PROVE PlaceIn(r, events[i]) <= HighOf(r)'
    BY <2>1, <2>2, <2>3
  <2>5. \A i, j \in DOMAIN events : i < j => PlaceIn(r, events[i]) < PlaceIn(r, events[j])
    BY <1>1 DEF EventsOK
  <2> QED BY <1>2, <1>5, <2>4, <2>5 DEF EventsOK, PlaceIn
<1> QED BY <1>3, <1>4, <1>6, <1>7, <1>8, OneRun

-----------------------------------------------------------------------------
(* The writes: Commits and WriteErrs. *)

\* A commit adds the event that its turn awaits, which no event of the row has passed.
LEMMA CommitsStep ==
    ASSUME IInv, NEW w \in writes, Commits(w)
    PROVE  IInv'
<1> DEFINE r == w.run
           v == [w EXCEPT !.state = "done"]
           events == rows[r].events
<1>1. r \in RunIds /\ w \in AWrite /\ v \in AWrite /\ TraceTypes
  BY DEF IInv, TraceTypes, AWrite
<1>2. ControlOK(r) /\ EndOK(r) /\ EventsOK(r)
  BY <1>1 DEF IInv
<1>3. \A u \in writes' : u.run = r => u = v
  BY <1>1, <1>2 DEF ControlOK, Commits
<1>4. v.run = r /\ v.what = w.what /\ v.iteration = w.iteration /\ v.status = w.status /\ v.state = "done"
  BY <1>1 DEF AWrite
<1>5. rows'[r] = Committed(w) /\ turn' = turn /\ mishap' = mishap
  BY <1>1 DEF Commits, TraceTypes
<1>6. IsEvent(w.what) => Event(w.what, w.iteration) \in Stored \X Nat
  BY <1>1, EventType DEF AWrite
<1>7. /\ Committed(w) \in Row
      /\ IF IsEvent(w.what) THEN Committed(w).events = Append(events, Event(w.what, w.iteration))
                            ELSE Committed(w).events = events
      /\ CASE w.what = "start" -> Committed(w).status = "running"
           [] w.what = "finish" /\ rows[r].status # "none" -> Committed(w).status = w.status
           [] OTHER -> Committed(w).status = rows[r].status
  <2>1. rows[r] \in Row /\ w.status \in Outcome
    BY <1>1 DEF TraceTypes, AWrite
  <2>2. CASE IsEvent(w.what)
    <3>1. Committed(w) = [rows[r] EXCEPT !.events = Append(@, Event(w.what, w.iteration))]
      BY <2>2 DEF Committed, IsEvent
    <3>2. Append(events, Event(w.what, w.iteration)) \in Seq(Stored \X Nat)
      BY <1>6, <2>1, <2>2 DEF Row
    <3> QED BY <2>1, <2>2, <3>1, <3>2 DEF Row, IsEvent
  <2>3. CASE ~IsEvent(w.what)
    <3>1. w.what \in {"initialize", "start", "usage", "finish"}
      BY <1>1, <2>3 DEF AWrite, IsEvent, Kept, Hooks
    <3> QED BY <2>1, <2>3, <3>1 DEF Committed, Row, IsEvent, Outcome
  <2> QED BY <2>2, <2>3
<1>8. TraceTypes'
  BY <1>1, <1>7 DEF Commits, TraceTypes
<1>9. OthersKept(r)
  BY <1>1, <1>4, <1>5 DEF OthersKept, OfOthers, Commits, TraceTypes
<1>10. OtherTypes'
  BY DEF IInv, OtherTypes, Commits
<1>11. w.state = "runs" /\ w \in writes
  BY DEF Commits
<1>12. ControlOK(r)'
  BY <1>2, <1>3, <1>4, <1>5, <1>11 DEF ControlOK
<1>13. EndOK(r)'
  <2>1. turn[r].pc = "drain" \/ turn[r].pc = w.what
    BY <1>2, <1>11 DEF ControlOK
  <2>2. turn[r].pc = "drain" => w.what \in Hooks
    BY <1>2, <1>11 DEF ControlOK
  <2>3. w.what \in Kept \cup Hooks
    BY <1>1 DEF AWrite
  <2>4. turn[r].pc = "finish" => w.status = turn[r].how
    BY <1>2, <1>11 DEF EndOK
  <2> QED BY <1>2, <1>3, <1>4, <1>5, <1>7, <2>1, <2>2, <2>3, <2>4 DEF EndOK, Kept, Hooks, Terminal
<1>14. EventsOK(r)'
  <2>1. HighOf(r)' = HighOf(r)
    BY <1>5 DEF HighOf
  <2>2. \A u \in writes' : u.run = r => u.state = "done"
    BY <1>3, <1>4
  <2>3. CASE ~IsEvent(w.what)
    <3>1. rows'[r].events = events
      BY <1>5, <1>7, <2>3
    <3> QED BY <1>2, <2>1, <2>2, <3>1 DEF EventsOK, PlaceIn
  <2>4. CASE IsEvent(w.what)
    <3> DEFINE e == Event(w.what, w.iteration)
    <3>1. rows'[r].events = Append(events, e) /\ events \in Seq(Stored \X Nat)
      BY <1>1, <1>5, <1>7, <2>4 DEF TraceTypes, Row
    <3>2. \A i \in DOMAIN events : PlaceIn(r, events[i]) < PlaceIn(r, e)
      BY <1>2, <1>11, <2>4 DEF EventsOK, PlaceOf
    <3>3. PlaceIn(r, e) <= HighOf(r)
      <4>1. turn[r].pc = "drain" \/ turn[r].pc = w.what
        BY <1>2, <1>11 DEF ControlOK
      <4>2. turn[r].pc = "drain" => w.what \in Hooks
        BY <1>2, <1>11 DEF ControlOK
      <4>3. w.iteration = turn[r].iteration /\ w.iteration <= MaxIterations[r] /\ w.iteration \in Nat
            /\ MaxIterations[r] \in Nat
        BY <1>1, <1>2, <1>11, DashboardAssumption DEF ControlOK, AWrite
      <4> QED BY <2>4, <4>1, <4>2, <4>3 DEF PlaceIn, Place, Event, HighOf, High, IsEvent, Hooks
    <3>4. \A i \in DOMAIN events : PlaceIn(r, events[i]) <= HighOf(r)
      BY <1>2 DEF EventsOK
    <3>5. \A i, j \in DOMAIN events : i < j => PlaceIn(r, events[i]) < PlaceIn(r, events[j])
      BY <1>2 DEF EventsOK
    <3> HIDE DEF e, events
    <3>6. DOMAIN Append(events, e) = 1 .. (Len(events) + 1) /\ DOMAIN events = 1 .. Len(events)
          /\ Len(events) \in Nat
          /\ Append(events, e)[Len(events) + 1] = e
          /\ \A i \in DOMAIN events : Append(events, e)[i] = events[i]
      BY <3>1
    <3>7. ASSUME NEW i \in DOMAIN Append(events, e)
          PROVE  PlaceIn(r, Append(events, e)[i]) <= HighOf(r)
      BY <3>3, <3>4, <3>6
    <3>8. ASSUME NEW i \in DOMAIN Append(events, e), NEW j \in DOMAIN Append(events, e), i < j
          PROVE  PlaceIn(r, Append(events, e)[i]) < PlaceIn(r, Append(events, e)[j])
      BY <3>2, <3>5, <3>6, <3>8
    <3> QED BY <2>1, <2>2, <3>1, <3>7, <3>8 DEF EventsOK, PlaceIn
  <2> QED BY <2>3, <2>4
<1> QED BY <1>1, <1>8, <1>9, <1>10, <1>12, <1>13, <1>14, OneRun

\* A write that fails leaves the row; of an end, the run is among those without one.
LEMMA WriteErrsStep ==
    ASSUME IInv, NEW w \in writes, WriteErrs(w)
    PROVE  IInv'
<1> DEFINE r == w.run
           v == [w EXCEPT !.state = "failed"]
<1>1. r \in RunIds /\ w \in AWrite /\ v \in AWrite /\ TraceTypes
  BY DEF IInv, TraceTypes, AWrite
<1>2. ControlOK(r) /\ EndOK(r) /\ EventsOK(r)
  BY <1>1 DEF IInv
<1>3. \A u \in writes' : u.run = r => u = v
  BY <1>1, <1>2 DEF ControlOK, WriteErrs
<1>4. v.run = r /\ v.what = w.what /\ v.iteration = w.iteration /\ v.status = w.status /\ v.state = "failed"
  BY <1>1 DEF AWrite
<1>5. rows' = rows /\ turn' = turn /\ w.state = "runs" /\ w \in writes
  BY DEF WriteErrs
<1>6. /\ mishap' \in Mishap
      /\ w.what = "finish" => mishap'.endless = mishap.endless \cup {r}
      /\ w.what # "finish" => mishap'.endless = mishap.endless
  <2>1. mishap \in Mishap /\ r \in RunIds
    BY <1>1 DEF IInv, OtherTypes
  <2>2. CASE w.what = "finish"
    <3>1. mishap' = [mishap EXCEPT !.errors = @ + 1, !.endless = @ \cup {r}]
      BY <2>2 DEF WriteErrs
    <3>2. mishap.errors + 1 \in Int /\ mishap.endless \cup {r} \in SUBSET RunIds
      BY <2>1 DEF Mishap
    <3> QED BY <2>1, <2>2, <3>1, <3>2 DEF Mishap
  <2>3. CASE w.what # "finish"
    <3>1. mishap' = [mishap EXCEPT !.errors = @ + 1, !.endless = mishap.endless]
      BY <2>3 DEF WriteErrs
    <3>2. mishap.errors + 1 \in Int /\ mishap.endless \in SUBSET RunIds
      BY <2>1 DEF Mishap
    <3> QED BY <2>1, <2>3, <3>1, <3>2 DEF Mishap
  <2> QED BY <2>2, <2>3
<1>7. TraceTypes'
  BY <1>1 DEF WriteErrs, TraceTypes
<1>8. OthersKept(r)
  <2>1. {u \in writes' : u.run # r} = OfOthers(r)
    BY <1>1, <1>4 DEF OfOthers, WriteErrs
  <2>2. \A q \in RunIds \ {r} : q \in mishap'.endless <=> q \in mishap.endless
    BY <1>6
  <2> QED BY <1>5, <2>1, <2>2 DEF OthersKept
<1>9. OtherTypes'
  BY <1>6 DEF IInv, OtherTypes, WriteErrs, view
<1>10. ControlOK(r)'
  BY <1>2, <1>3, <1>4, <1>5 DEF ControlOK
<1>11. EndOK(r)'
  <2>1. turn[r].pc = "finish" => w.what = "finish" /\ w.status = turn[r].how
    BY <1>2, <1>5 DEF ControlOK, EndOK
  <2> QED BY <1>2, <1>3, <1>4, <1>5, <1>6, <2>1 DEF EndOK
<1>12. EventsOK(r)'
  BY <1>2, <1>3, <1>4, <1>5 DEF EventsOK, HighOf, PlaceIn
<1> QED BY <1>1, <1>7, <1>8, <1>9, <1>10, <1>11, <1>12, OneRun

-----------------------------------------------------------------------------
(* What is left alone, and what is published. *)

\* A step of the trace that publishes nothing.
LEMMA OthersSame ==
    ASSUME IInv, UNCHANGED <<tracing, conn, wire, mishap>>
    PROVE  OtherTypes'
  BY DEF IInv, OtherTypes

\* A queue never holds more than it may, whether it takes the event or is closed.
LEMMA Publishes ==
    ASSUME IInv, Publish
    PROVE  conn' \in Conn /\ Len(conn'.queue) <= QueueSize
<1>1. conn \in Conn /\ Len(conn.queue) <= QueueSize /\ QueueSize \in Nat \ {0}
  BY DashboardAssumption DEF IInv, OtherTypes
<1>2. conn.queue \in Seq({"event", "end"}) /\ Len(conn.queue) \in Nat
  BY <1>1 DEF Conn
<1>3. CASE ~conn.subscribed
  BY <1>1, <1>3 DEF Publish
<1>4. CASE conn.subscribed /\ Len(conn.queue) < QueueSize
  <2>1. conn' = [conn EXCEPT !.queue = Append(conn.queue, "event")]
    BY <1>4 DEF Publish
  <2>2. Append(conn.queue, "event") \in Seq({"event", "end"})
        /\ Len(Append(conn.queue, "event")) = Len(conn.queue) + 1
    BY <1>2
  <2>3. conn' \in Conn /\ conn'.queue = Append(conn.queue, "event")
    BY <1>1, <2>1, <2>2 DEF Conn
  <2> QED BY <1>1, <1>2, <1>4, <2>2, <2>3
<1>5. CASE conn.subscribed /\ ~(Len(conn.queue) < QueueSize)
  <2>1. conn' = [conn EXCEPT !.subscribed = FALSE, !.queue = <<"end">>]
    BY <1>5 DEF Publish
  <2>2. <<"end">> \in Seq({"event", "end"}) /\ Len(<<"end">>) = 1
    OBVIOUS
  <2>3. conn' \in Conn /\ conn'.queue = <<"end">>
    BY <1>1, <2>1, <2>2 DEF Conn
  <2> QED BY <1>1, <2>2, <2>3
<1> QED BY <1>3, <1>4, <1>5

\* Whether the write is published or not, the rest of the state keeps its types.
LEMMA Told ==
    ASSUME IInv, NEW r \in RunIds, Tells(r), UNCHANGED <<tracing, wire>>
    PROVE  OtherTypes' /\ mishap'.endless = mishap.endless
<1>1. mishap \in Mishap
  BY DEF IInv, OtherTypes
<1>2. CASE Written(r, "done") /\ turn[r].pc # "initialize"
  <2>1. Publish /\ mishap' = [mishap EXCEPT !.untold = FALSE]
    BY <1>2 DEF Tells
  <2>2. mishap' \in Mishap /\ mishap'.endless = mishap.endless
    BY <1>1, <2>1 DEF Mishap
  <2> QED BY <2>1, <2>2, Publishes DEF IInv, OtherTypes
<1>3. CASE ~(Written(r, "done") /\ turn[r].pc # "initialize")
  <2>1. UNCHANGED <<conn, mishap>>
    BY <1>3 DEF Tells
  <2> QED BY <2>1, OthersSame
<1> QED BY <1>2, <1>3

\* The bound of a turn is never more than that of its end.
LEMMA HighBound ==
    ASSUME IInv, NEW r \in RunIds
    PROVE  /\ MaxIterations[r] \in Nat \ {0} /\ turn[r].iteration \in Nat
           /\ HighOf(r) \in Int /\ HighOf(r) <= 3 * MaxIterations[r] + 3
<1>1. turn[r].pc \in PCs /\ turn[r].iteration \in Nat /\ turn[r].iteration <= MaxIterations[r]
      /\ MaxIterations[r] \in Nat \ {0}
  BY DashboardAssumption DEF IInv, TraceTypes, ATurn, ControlOK
<1> QED BY <1>1 DEF HighOf, High, PCs, Kept, Hooks

-----------------------------------------------------------------------------
(* How a turn goes on, under the names of the specification. *)

\* A turn goes on to a write other than its end.
LEMMA WritesStep ==
    ASSUME IInv, NEW r \in RunIds, NEW what \in (Kept \cup Hooks) \ {"finish"},
           Writes(r, Write(r, what)), rows' = rows, mishap'.endless = mishap.endless, OtherTypes',
           turn[r].pc \notin {"drain", "finish", "over"}, turn[r].stop # "waits",
           what \in {"model", "usage"} => turn[r].how \in Terminal,
           what \in {"initialize", "start"} => rows[r].status = "none",
           HighOf(r) <= High(what, turn[r].iteration, MaxIterations[r]),
           IsEvent(what) => HighOf(r) < PlaceIn(r, Event(what, turn[r].iteration))
    PROVE  IInv'
<1> DEFINE t == [turn[r] EXCEPT !.pc = what]
           w == Write(r, what)
<1>1. turn[r] \in ATurn /\ turn \in [RunIds -> ATurn]
  BY DEF IInv, TraceTypes
<1>2. t \in ATurn /\ t.pc = what /\ t.iteration = turn[r].iteration /\ t.stop = turn[r].stop /\ t.how = turn[r].how
  BY <1>1 DEF ATurn, PCs
<1>3. w \in AWrite /\ w.run = r /\ w.what = what /\ w.iteration = turn[r].iteration /\ w.state = "runs"
  BY <1>1 DEF AWrite, ATurn, Write, Outcome
<1>4. turn' = [turn EXCEPT ![r] = t]
  BY <1>3 DEF Writes, GoesTo
<1>5. writes' = OfOthers(r) \cup {w}
  BY AwaitsAll DEF Writes
<1>6. IsEvent(what) => HighOf(r) < PlaceOf(w)
  BY <1>3 DEF PlaceOf
<1> HIDE DEF t, w
<1> QED BY <1>2, <1>3, <1>4, <1>5, <1>6, WriteBegins

\* A turn goes on to write its end, which may follow any event.
LEMMA EndsStep ==
    ASSUME IInv, NEW r \in RunIds, NEW how \in Terminal,
           Ends(r, how), rows' = rows, mishap'.endless = mishap.endless, OtherTypes',
           turn[r].pc \notin {"drain", "finish", "over"}
    PROVE  IInv'
<1> DEFINE t == [turn[r] EXCEPT !.pc = "finish", !.how = how]
           w == Finish(r, how)
<1>1. turn[r] \in ATurn /\ turn \in [RunIds -> ATurn]
  BY DEF IInv, TraceTypes
<1>2. t \in ATurn /\ t.pc = "finish" /\ t.iteration = turn[r].iteration /\ t.how = how
  BY <1>1 DEF ATurn, PCs, Kept, Outcome
<1>3. w \in AWrite /\ w.run = r /\ w.what = "finish" /\ w.iteration = turn[r].iteration /\ w.state = "runs"
      /\ w.status = how
  BY <1>1 DEF AWrite, ATurn, Finish, Write, Outcome, Kept
<1>4. turn' = [turn EXCEPT ![r] = t]
  BY DEF Ends
<1>5. writes' = OfOthers(r) \cup {w}
  BY AwaitsAll DEF Ends
<1>6. HighOf(r) <= High("finish", turn[r].iteration, MaxIterations[r])
  BY HighBound DEF High
<1> HIDE DEF t, w
<1> QED BY <1>2, <1>3, <1>4, <1>5, <1>6, WriteBegins DEF Kept, IsEvent

\* A turn goes on to something that is not written.
LEMMA GoesStep ==
    ASSUME IInv, NEW r \in RunIds, NEW pc \in {"lock", "prepare", "ask", "execute", "over"},
           GoesTo(r, pc), writes' = OfOthers(r), rows' = rows, mishap'.endless = mishap.endless, OtherTypes',
           turn[r].stop # "waits", pc = "lock" => rows[r].status = "none",
           pc # "over" => turn[r].pc \notin {"finish", "over"},
           pc = "over" => rows[r].status \in {"none", turn[r].how} \/ r \in mishap.endless,
           HighOf(r) <= High(pc, turn[r].iteration, MaxIterations[r])
    PROVE  IInv'
<1> DEFINE t == [turn[r] EXCEPT !.pc = pc]
<1>1. turn[r] \in ATurn /\ turn \in [RunIds -> ATurn]
  BY DEF IInv, TraceTypes
<1>2. t \in ATurn /\ t.pc = pc /\ t.iteration = turn[r].iteration /\ t.stop = turn[r].stop /\ t.how = turn[r].how
  BY <1>1 DEF ATurn, PCs
<1>3. turn' = [turn EXCEPT ![r] = t]
  BY DEF GoesTo
<1>4. t.iteration >= 1 /\ t.iteration <= MaxIterations[r]
  BY <1>2 DEF IInv, ControlOK
<1> HIDE DEF t
<1> QED BY <1>2, <1>3, <1>4, NoWrite

-----------------------------------------------------------------------------
(* The steps of a turn. *)

\* A turn begins to be traced: nothing of it is stored yet.
LEMMA TraceBeginsStep ==
    ASSUME IInv, NEW r \in RunIds, TraceBegins(r)
    PROVE  IInv'
<1>1. turn[r].pc \in {"idle", "lock"} /\ rows' = rows /\ mishap'.endless = mishap.endless
      /\ UNCHANGED <<conn, wire, mishap>>
  BY DEF TraceBegins, view
<1>2. turn[r].stop # "waits" /\ rows[r].status = "none" /\ HighOf(r) = -1
      /\ turn[r].iteration \in Nat /\ MaxIterations[r] \in Nat
  BY <1>1, HighBound DEF IInv, ControlOK, EndOK, Kept, HighOf, High
<1>3. CASE Writes(r, Write(r, "start")) /\ UNCHANGED tracing
  BY <1>1, <1>2, <1>3, OthersSame, WritesStep DEF Kept, High, IsEvent
<1>4. CASE Writes(r, Write(r, "initialize")) /\ tracing' = [tracing EXCEPT !.holder = {r}]
  <2>1. OtherTypes'
    <3>1. tracing' \in [ready : BOOLEAN, holder : SUBSET RunIds] /\ tracing'.holder = {r}
      BY <1>4 DEF IInv, OtherTypes
    <3> QED BY <1>1, <3>1 DEF IInv, OtherTypes
  <2> QED BY <1>1, <1>2, <1>4, <2>1, WritesStep DEF Kept, High, IsEvent
<1>5. CASE GoesTo(r, "lock") /\ UNCHANGED <<writes, tracing>>
  <2>1. writes' = OfOthers(r)
    BY <1>1, <1>5, AwaitsAll DEF Kept, Hooks
  <2> QED BY <1>1, <1>2, <1>5, <2>1, OthersSame, GoesStep DEF High
<1> QED BY <1>3, <1>4, <1>5 DEF TraceBegins

\* The store is ready, or the turn goes on without a trace.
LEMMA InitializedStep ==
    ASSUME IInv, NEW r \in RunIds, Initialized(r)
    PROVE  IInv'
<1>1. turn[r].pc = "initialize" /\ turn[r].stop = "no" /\ rows' = rows /\ mishap'.endless = mishap.endless
      /\ UNCHANGED <<conn, wire, mishap>>
  BY DEF Initialized, view
<1>2. rows[r].status = "none" /\ HighOf(r) = -1 /\ turn[r].iteration \in Nat /\ MaxIterations[r] \in Nat
  BY <1>1, HighBound DEF IInv, EndOK, HighOf, High
<1>3. OtherTypes'
  <2>1. tracing' \in [ready : BOOLEAN, holder : SUBSET RunIds] /\ tracing'.holder = {}
    BY DEF Initialized, Written
  <2> QED BY <1>1, <2>1 DEF IInv, OtherTypes
<1>4. CASE Writes(r, Write(r, "start"))
  BY <1>1, <1>2, <1>3, <1>4, WritesStep DEF Kept, High, IsEvent
<1>5. CASE Leaves(r)
  <2>1. GoesTo(r, "over") /\ writes' = OfOthers(r)
    BY <1>1, <1>5, AwaitsAll DEF Leaves
  <2> QED BY <1>1, <1>2, <1>3, <2>1, GoesStep DEF High
<1> QED BY <1>4, <1>5 DEF Initialized

\* A run whose turn has awaited its end says how it ended, or the store refused that.
LEMMA EndIsWritten ==
    ASSUME IInv, NEW r \in RunIds, turn[r].pc = "finish", Ended(r)
    PROVE  rows[r].status \in {"none", turn[r].how} \/ r \in mishap.endless
  BY DEF IInv, EndOK, Ended, Written, Awaited

\* A run whose start was refused has no row.
LEMMA StartIsRefused ==
    ASSUME IInv, NEW r \in RunIds, turn[r].pc = "start", Ended(r), ~Written(r, "done")
    PROVE  rows[r].status = "none"
  BY DEF IInv, ControlOK, Ended, Written, Awaited

\* A write of _observe has ended.
LEMMA ObservedStep ==
    ASSUME IInv, NEW r \in RunIds, Observed(r)
    PROVE  IInv'
<1>1. turn[r].pc \in Kept \ {"initialize"} /\ turn[r].stop \in {"no", "raised"} /\ Ended(r) /\ Tells(r)
      /\ rows' = rows /\ UNCHANGED <<tracing, wire>>
  BY DEF Observed, view
<1>2. OtherTypes' /\ mishap'.endless = mishap.endless
  BY <1>1, Told
<1>3. turn[r].pc # "drain" /\ writes \ Awaited(r) = OfOthers(r)
  BY <1>1, AwaitsAll DEF Kept
<1>4. turn[r].iteration \in Nat /\ MaxIterations[r] \in Nat \ {0} /\ turn[r].iteration >= 1
  BY HighBound DEF IInv, ControlOK
<1>5. CASE turn[r].pc = "start"
  <2>1. HighOf(r) = -1
    BY <1>5 DEF HighOf, High
  <2>2. CASE Written(r, "done")
    <3>1. GoesTo(r, "prepare") /\ writes' = OfOthers(r)
      BY <1>3, <1>5, <2>2 DEF Observed
    <3> QED BY <1>1, <1>2, <1>5, <2>1, <3>1, GoesStep DEF High
  <2>3. CASE ~Written(r, "done")
    <3>1. GoesTo(r, "over") /\ writes' = OfOthers(r)
      BY <1>3, <1>5, <2>3 DEF Observed, Leaves
    <3>2. rows[r].status = "none"
      BY <1>1, <1>5, <2>3, StartIsRefused
    <3> QED BY <1>1, <1>2, <1>4, <1>5, <2>1, <3>1, <3>2, GoesStep DEF High
  <2> QED BY <2>2, <2>3
<1>6. CASE turn[r].pc = "memory"
  <2>1. GoesTo(r, "ask") /\ writes' = OfOthers(r)
    BY <1>3, <1>6 DEF Observed
  <2>2. HighOf(r) = 0
    BY <1>6 DEF HighOf, High
  <2> QED BY <1>1, <1>2, <1>4, <1>6, <2>1, <2>2, GoesStep DEF High
<1>7. CASE turn[r].pc = "memoryError"
  <2>1. Writes(r, Write(r, "error"))
    BY <1>7 DEF Observed
  <2>2. HighOf(r) = 0
    BY <1>7 DEF HighOf, High
  <2>3. PlaceIn(r, Event("error", turn[r].iteration)) = 3 * MaxIterations[r] + 3
    BY DEF PlaceIn, Place, Event
  <2> QED BY <1>1, <1>2, <1>4, <1>7, <2>1, <2>2, <2>3, WritesStep DEF High, Kept
<1>8. CASE turn[r].pc = "error"
  <2>1. PICK how \in Terminal : Ends(r, how)
    BY <1>8 DEF Observed, Terminal
  <2> QED BY <1>1, <1>2, <1>8, <2>1, EndsStep
<1>9. CASE turn[r].pc = "finish"
  <2>1. GoesTo(r, "over") /\ writes' = OfOthers(r)
    BY <1>3, <1>9 DEF Observed, Leaves
  <2>2. HighOf(r) = 3 * MaxIterations[r] + 3
    BY <1>9 DEF HighOf, High
  <2>3. rows[r].status \in {"none", turn[r].how} \/ r \in mishap.endless
    BY <1>1, <1>9, EndIsWritten
  <2> QED BY <1>1, <1>2, <1>4, <1>9, <2>1, <2>2, <2>3, GoesStep DEF High
<1> QED BY <1>1, <1>5, <1>6, <1>7, <1>8, <1>9 DEF Kept

\* The memory is ready, or failed: the first event.
LEMMA PreparesStep ==
    ASSUME IInv, NEW r \in RunIds, Prepares(r)
    PROVE  IInv'
<1>1. turn[r].pc = "prepare" /\ rows' = rows /\ UNCHANGED <<tracing, conn, wire, mishap>>
  BY DEF Prepares, view
<1>2. PICK what \in {"memory", "memoryError"} : Writes(r, Write(r, what))
  BY DEF Prepares
<1>3. turn[r].stop # "waits" /\ HighOf(r) = -1
  BY <1>1 DEF IInv, ControlOK, Kept, HighOf, High
<1>4. PlaceIn(r, Event(what, turn[r].iteration)) = 0
  BY DEF PlaceIn, Place, Event
<1> QED BY <1>1, <1>2, <1>3, <1>4, OthersSame, WritesStep DEF High, Kept, IsEvent

\* The tools of an iteration come after its model.
LEMMA ExecutesStep ==
    ASSUME IInv, NEW r \in RunIds, Executes(r)
    PROVE  IInv'
<1>1. turn[r].pc = "execute" /\ rows' = rows /\ UNCHANGED <<tracing, conn, wire, mishap>>
      /\ Writes(r, Write(r, "tools"))
  BY DEF Executes, view
<1>2. turn[r].stop # "waits" /\ HighOf(r) = 3 * turn[r].iteration /\ turn[r].iteration \in Nat
  BY <1>1, HighBound DEF IInv, ControlOK, Kept, HighOf, High
<1>3. PlaceIn(r, Event("tools", turn[r].iteration)) = 3 * turn[r].iteration + 2
  BY DEF PlaceIn, Place, Event
<1> QED BY <1>1, <1>2, <1>3, OthersSame, WritesStep DEF High, Hooks

\* The events of an iteration come after those of the one before.
LEMMA AsksModelStep ==
    ASSUME IInv, NEW r \in RunIds, AsksModel(r)
    PROVE  IInv'
<1>1. turn[r].pc = "ask" /\ rows' = rows /\ UNCHANGED <<tracing, conn, wire, mishap>>
  BY DEF AsksModel, view
<1>2. turn[r].stop # "waits" /\ HighOf(r) = 3 * turn[r].iteration - 1
      /\ turn[r].iteration \in Nat /\ turn[r].iteration <= MaxIterations[r] /\ MaxIterations[r] \in Nat
  BY <1>1, HighBound DEF IInv, ControlOK, Kept, HighOf, High
<1>3. /\ PlaceIn(r, Event("model", turn[r].iteration)) = 3 * turn[r].iteration
      /\ PlaceIn(r, Event("limit", turn[r].iteration)) = 3 * turn[r].iteration + 1
      /\ PlaceIn(r, Event("error", turn[r].iteration)) = 3 * MaxIterations[r] + 3
  BY DEF PlaceIn, Place, Event
<1>4. OtherTypes' /\ mishap'.endless = mishap.endless
  BY <1>1, OthersSame
<1>5. ASSUME NEW calls \in BOOLEAN, NEW how \in {"completed", "error"},
             turn' = [turn EXCEPT ![r].pc = "model", ![r].calls = calls, ![r].how = how],
             writes' = writes \cup {Write(r, "model")}
      PROVE  IInv'
  <2> DEFINE t == [turn[r] EXCEPT !.pc = "model", !.calls = calls, !.how = how]
             w == Write(r, "model")
  <2>1. turn[r] \in ATurn /\ turn \in [RunIds -> ATurn]
    BY DEF IInv, TraceTypes
  <2>2. t \in ATurn /\ t.pc = "model" /\ t.iteration = turn[r].iteration /\ t.how = how /\ t.stop = turn[r].stop
    BY <2>1 DEF ATurn, PCs, Hooks, Outcome, Terminal
  <2>3. w \in AWrite /\ w.run = r /\ w.what = "model" /\ w.iteration = turn[r].iteration /\ w.state = "runs"
    BY <2>1 DEF AWrite, ATurn, Write, Outcome, Hooks
  <2>4. turn' = [turn EXCEPT ![r] = t]
    BY <1>5
  <2>5. writes' = OfOthers(r) \cup {w}
    BY <1>1, <1>5, AwaitsAll DEF Kept, Hooks
  <2>6. HighOf(r) < PlaceOf(w) /\ HighOf(r) <= High("model", turn[r].iteration, MaxIterations[r])
    BY <1>2, <1>3, <2>3 DEF PlaceOf, High
  <2>7. how \in Terminal
    BY DEF Terminal
  <2> HIDE DEF t, w
  <2> QED BY <1>1, <1>2, <1>4, <2>2, <2>3, <2>4, <2>5, <2>6, <2>7, WriteBegins
<1>6. CASE Writes(r, Write(r, "limit"))
  BY <1>1, <1>2, <1>3, <1>4, <1>6, WritesStep DEF High, Hooks
<1>7. CASE Writes(r, Write(r, "error"))
  BY <1>1, <1>2, <1>3, <1>4, <1>7, WritesStep DEF High, Kept
<1> QED BY <1>5, <1>6, <1>7 DEF AsksModel

\* A write of the hook has ended.
LEMMA HookedStep ==
    ASSUME IInv, NEW r \in RunIds, Hooked(r)
    PROVE  IInv'
<1>1. turn[r].pc \in Hooks /\ Ended(r) /\ Tells(r) /\ rows' = rows /\ UNCHANGED <<tracing, wire>>
  BY DEF Hooked, view
<1>2. OtherTypes' /\ mishap'.endless = mishap.endless
  BY <1>1, Told
<1>3. turn[r].pc \notin {"drain", "finish", "over"} /\ turn[r].stop # "waits"
      /\ writes \ Awaited(r) = OfOthers(r)
  BY <1>1, AwaitsAll DEF Hooks, Kept, IInv, ControlOK
<1>4. turn[r].iteration \in Nat /\ MaxIterations[r] \in Nat \ {0} /\ turn[r].iteration >= 1
      /\ turn[r].iteration <= MaxIterations[r]
  BY HighBound DEF IInv, ControlOK
<1>5. CASE turn[r].pc = "model"
  <2>1. Writes(r, Write(r, "usage")) /\ turn[r].how \in Terminal /\ HighOf(r) = 3 * turn[r].iteration
    BY <1>5 DEF Hooked, IInv, ControlOK, HighOf, High
  <2> QED BY <1>1, <1>2, <1>3, <1>4, <2>1, WritesStep DEF High, Hooks, IsEvent
<1>6. CASE turn[r].pc = "usage"
  <2>1. turn[r].how \in Terminal /\ HighOf(r) = 3 * turn[r].iteration
    BY <1>6 DEF IInv, ControlOK, HighOf, High
  <2>2. CASE turn[r].calls
    <3>1. GoesTo(r, "execute") /\ writes' = OfOthers(r)
      BY <1>3, <1>6, <2>2 DEF Hooked
    <3> QED BY <1>1, <1>2, <1>3, <1>4, <2>1, <3>1, GoesStep DEF High
  <2>3. CASE ~turn[r].calls
    <3>1. Ends(r, turn[r].how)
      BY <1>6, <2>3 DEF Hooked
    <3> QED BY <1>1, <1>2, <1>3, <2>1, <3>1, EndsStep
  <2> QED BY <2>2, <2>3
<1>7. CASE turn[r].pc = "limit"
  <2>1. Ends(r, "stopped") /\ "stopped" \in Terminal
    BY <1>7 DEF Hooked, Terminal
  <2> QED BY <1>1, <1>2, <1>3, <2>1, EndsStep
<1>8. CASE turn[r].pc = "tools" /\ turn[r].iteration = MaxIterations[r]
  <2>1. Ends(r, "stopped") /\ "stopped" \in Terminal
    BY <1>8 DEF Hooked, Terminal
  <2> QED BY <1>1, <1>2, <1>3, <2>1, EndsStep
<1>9. CASE turn[r].pc = "tools" /\ turn[r].iteration # MaxIterations[r]
  <2> DEFINE t == [turn[r] EXCEPT !.pc = "ask", !.iteration = turn[r].iteration + 1]
  <2>1. turn[r] \in ATurn /\ turn \in [RunIds -> ATurn]
    BY DEF IInv, TraceTypes
  <2>2. turn[r].iteration + 1 \in Nat /\ turn[r].iteration + 1 >= 1 /\ turn[r].iteration + 1 <= MaxIterations[r]
    BY <1>4, <1>9
  <2>3. t \in ATurn /\ t.pc = "ask" /\ t.iteration = turn[r].iteration + 1 /\ t.stop = turn[r].stop
    BY <2>1, <2>2 DEF ATurn, PCs
  <2>4. turn' = [turn EXCEPT ![r] = t] /\ writes' = OfOthers(r)
    BY <1>3, <1>9 DEF Hooked
  <2>5. HighOf(r) <= High("ask", t.iteration, MaxIterations[r])
    BY <1>4, <1>9, <2>3 DEF HighOf, High
  <2>6. t.iteration >= 1 /\ t.iteration <= MaxIterations[r]
    BY <2>3, <2>2
  <2> HIDE DEF t
  <2> QED BY <1>1, <1>2, <1>3, <2>3, <2>4, <2>5, <2>6, NoWrite
<1> QED BY <1>1, <1>5, <1>6, <1>7, <1>8, <1>9 DEF Hooks

\* A turn that is told to stop keeps its write.
LEMMA StopsWith ==
    ASSUME IInv, NEW r \in RunIds, NEW t \in ATurn,
           turn' = [turn EXCEPT ![r] = t], writes' = writes, rows' = rows,
           mishap'.endless = mishap.endless, OtherTypes',
           t.iteration = turn[r].iteration, t.how = turn[r].how,
           \/ t.pc = turn[r].pc /\ t.pc \in Kept
           \/ t.pc = "drain" /\ turn[r].pc \in Hooks \cup {"ask", "execute"} /\ t.stop = "raised"
    PROVE  IInv'
<1>1. ControlOK(r) /\ EndOK(r) /\ EventsOK(r) /\ TraceTypes
  BY DEF IInv
<1>2. turn'[r] = t /\ rows'[r] = rows[r]
  BY <1>1 DEF TraceTypes
<1>3. TraceTypes'
  BY <1>1 DEF TraceTypes
<1>4. OthersKept(r)
  BY <1>1 DEF OthersKept, OfOthers, TraceTypes
<1>5. t.pc = "drain" => \A w \in writes : w.run = r => w.what \in Hooks
  BY <1>1 DEF ControlOK, TraceTypes, AWrite, Kept, Hooks
<1>6. ControlOK(r)'
  BY <1>1, <1>2, <1>5 DEF ControlOK, Kept, Hooks
<1>7. EndOK(r)'
  BY <1>1, <1>2 DEF EndOK, Kept, Hooks
<1>8. EventsOK(r)'
  <2> DEFINE events == rows[r].events
  <2>1. \A i \in DOMAIN events : PlaceIn(r, events[i]) <= HighOf(r)
    BY <1>1 DEF EventsOK
  <2>2. \A i \in DOMAIN events : PlaceIn(r, events[i]) \in Int
    BY <1>1, PlaceType, DashboardAssumption DEF TraceTypes, Row, PlaceIn
  <2>3. HighOf(r) \in Int /\ HighOf(r)' \in Int /\ HighOf(r) <= HighOf(r)'
    <3>1. turn[r].iteration \in Nat /\ MaxIterations[r] \in Nat /\ turn[r].iteration <= MaxIterations[r]
          /\ turn[r].iteration >= 1
      BY <1>1, HighBound DEF ControlOK
    <3>2. CASE t.pc = turn[r].pc
      BY <1>2, <3>2, HighBound DEF HighOf
    <3>3. CASE t.pc = "drain" /\ turn[r].pc \in Hooks \cup {"ask", "execute"}
      <4>1. HighOf(r)' = 3 * MaxIterations[r] + 2
        BY <1>2, <3>3 DEF HighOf, High
      <4> QED BY <3>1, <3>3, <4>1 DEF HighOf, High, Hooks
    <3> QED BY <3>2, <3>3
  <2>4. ASSUME NEW i \in DOMAIN events PROVE PlaceIn(r, events[i]) <= HighOf(r)'
    BY <2>1, <2>2, <2>3
  <2> QED BY <1>1, <1>2, <2>4 DEF EventsOK, PlaceOf, PlaceIn
<1> QED BY <1>3, <1>4, <1>6, <1>7, <1>8, OneRun

\* A fault or a commit that nobody learns of is counted, and changes nothing else.
LEMMA Counted ==
    ASSUME IInv, NEW b \in BOOLEAN, NEW e \in SUBSET RunIds, UNCHANGED <<conn, wire>>,
           tracing' \in [ready : BOOLEAN, holder : SUBSET RunIds],
           tracing'.holder \in {tracing.holder, {}},
           mishap' = [mishap EXCEPT !.untold = b, !.endless = e]
    PROVE  OtherTypes' /\ mishap'.endless = e
<1>1. mishap \in Mishap
  BY DEF IInv, OtherTypes
<1>2. mishap' \in Mishap /\ mishap'.endless = e
  BY <1>1 DEF Mishap
<1>3. tracing'.holder = {} \/ \E r \in RunIds : tracing'.holder = {r}
  BY DEF IInv, OtherTypes
<1> QED BY <1>2, <1>3 DEF IInv, OtherTypes

\* Wherever a turn is cancelled, what it was writing is the last of its kind.
LEMMA CancelStep ==
    ASSUME IInv, NEW r \in RunIds, Cancel(r)
    PROVE  IInv'
<1>1. turn[r].pc \notin {"idle", "over", "drain"} /\ turn[r].stop = "no" /\ rows' = rows
      /\ UNCHANGED <<tracing, conn, wire>> /\ mishap' = [mishap EXCEPT !.stops = @ + 1]
  BY DEF Cancel, view
<1>2. mishap' \in Mishap /\ mishap'.endless = mishap.endless
  <2>1. mishap \in Mishap
    BY DEF IInv, OtherTypes
  <2> QED BY <1>1, <2>1 DEF Mishap
<1>3. OtherTypes'
  BY <1>1, <1>2 DEF IInv, OtherTypes
<1>4. turn[r] \in ATurn /\ turn \in [RunIds -> ATurn]
  BY DEF IInv, TraceTypes
<1>5. turn[r].iteration \in Nat /\ MaxIterations[r] \in Nat \ {0}
  BY HighBound
<1>6. turn[r].pc \notin Kept \cup Hooks => writes = OfOthers(r)
  BY <1>1, AwaitsAll
<1>7. CASE turn[r].pc \in Kept
  <2> DEFINE t == [turn[r] EXCEPT !.stop = "waits"]
  <2>1. t \in ATurn /\ t.pc = turn[r].pc /\ t.iteration = turn[r].iteration /\ t.how = turn[r].how
    BY <1>4 DEF ATurn
  <2>2. turn' = [turn EXCEPT ![r] = t] /\ writes' = writes
    BY <1>7 DEF Cancel, Kept
  <2> HIDE DEF t
  <2> QED BY <1>1, <1>2, <1>3, <1>7, <2>1, <2>2, StopsWith
<1>8. CASE turn[r].pc = "prepare"
  <2> DEFINE t == [turn[r] EXCEPT !.pc = "memoryError", !.stop = "raised"]
             w == Write(r, "memoryError")
  <2>1. t \in ATurn /\ t.pc = "memoryError" /\ t.iteration = turn[r].iteration /\ t.stop = "raised"
    BY <1>4 DEF ATurn, PCs, Kept
  <2>2. w \in AWrite /\ w.run = r /\ w.what = "memoryError" /\ w.iteration = turn[r].iteration /\ w.state = "runs"
    BY <1>4 DEF AWrite, ATurn, Write, Outcome, Kept
  <2>3. turn' = [turn EXCEPT ![r] = t] /\ writes' = OfOthers(r) \cup {w}
    BY <1>6, <1>8 DEF Cancel, Kept, Hooks
  <2>4. HighOf(r) < PlaceOf(w) /\ HighOf(r) <= High("memoryError", turn[r].iteration, MaxIterations[r])
    BY <1>8, <2>2 DEF HighOf, High, PlaceOf, PlaceIn, Place, Event
  <2> HIDE DEF t, w
  <2> QED BY <1>1, <1>2, <1>3, <1>8, <2>1, <2>2, <2>3, <2>4, WriteBegins
<1>9. CASE turn[r].pc = "lock"
  <2> DEFINE t == [turn[r] EXCEPT !.pc = "finish", !.stop = "raised", !.how = "cancelled"]
             w == Finish(r, "cancelled")
  <2>1. t \in ATurn /\ t.pc = "finish" /\ t.iteration = turn[r].iteration /\ t.stop = "raised" /\ t.how = "cancelled"
    BY <1>4 DEF ATurn, PCs, Kept, Outcome, Terminal
  <2>2. w \in AWrite /\ w.run = r /\ w.what = "finish" /\ w.iteration = turn[r].iteration /\ w.state = "runs"
        /\ w.status = "cancelled"
    BY <1>4 DEF AWrite, ATurn, Write, Finish, Outcome, Terminal, Kept
  <2>3. turn' = [turn EXCEPT ![r] = t] /\ writes' = OfOthers(r) \cup {w}
    BY <1>6, <1>9 DEF Cancel, Kept, Hooks
  <2>4. HighOf(r) <= High("finish", turn[r].iteration, MaxIterations[r])
    BY HighBound DEF High
  <2> HIDE DEF t, w
  <2> QED BY <1>1, <1>2, <1>3, <1>9, <2>1, <2>2, <2>3, <2>4, WriteBegins DEF IsEvent, Terminal
<1>10. CASE turn[r].pc \notin Kept \cup {"prepare", "lock"}
  <2> DEFINE t == [turn[r] EXCEPT !.pc = "drain", !.stop = "raised"]
  <2>1. t \in ATurn /\ t.pc = "drain" /\ t.iteration = turn[r].iteration /\ t.how = turn[r].how /\ t.stop = "raised"
    BY <1>4 DEF ATurn, PCs
  <2>2. turn' = [turn EXCEPT ![r] = t] /\ writes' = writes
    BY <1>10 DEF Cancel, Caught
  <2>3. turn[r].pc \in Hooks \cup {"ask", "execute"}
    BY <1>1, <1>4, <1>10 DEF ATurn, PCs
  <2> HIDE DEF t
  <2> QED BY <1>1, <1>2, <1>3, <2>1, <2>2, <2>3, StopsWith
<1> QED BY <1>7, <1>8, <1>9, <1>10

\* After the drain no write of the hook is left, so the error is the last event.
LEMMA DrainEndsStep ==
    ASSUME IInv, NEW r \in RunIds, DrainEnds(r)
    PROVE  IInv'
<1> DEFINE t == [turn[r] EXCEPT !.pc = "error"]
           w == Write(r, "error")
           b == mishap.untold \/ \E v \in writes : v.run = r /\ v.state = "done"
<1>1. turn[r].pc = "drain" /\ turn[r].stop # "waits" /\ rows' = rows /\ UNCHANGED <<tracing, conn, wire>>
  BY DEF DrainEnds, view, IInv, ControlOK, Kept
<1>2. OtherTypes' /\ mishap'.endless = mishap.endless
  <2>1. mishap \in Mishap
    BY DEF IInv, OtherTypes
  <2>2. mishap' = [mishap EXCEPT !.untold = b]
    BY DEF DrainEnds
  <2>3. b \in BOOLEAN
    OBVIOUS
  <2> HIDE DEF b
  <2>4. mishap' \in Mishap /\ mishap'.endless = mishap.endless
    BY <2>1, <2>2, <2>3 DEF Mishap
  <2> QED BY <1>1, <2>4 DEF IInv, OtherTypes
<1>3. turn[r] \in ATurn /\ turn \in [RunIds -> ATurn]
  BY DEF IInv, TraceTypes
<1>4. t \in ATurn /\ t.pc = "error" /\ t.iteration = turn[r].iteration /\ t.stop = turn[r].stop
  BY <1>3 DEF ATurn, PCs, Kept
<1>5. w \in AWrite /\ w.run = r /\ w.what = "error" /\ w.iteration = turn[r].iteration /\ w.state = "runs"
  BY <1>3 DEF AWrite, ATurn, Write, Outcome, Kept
<1>6. turn' = [turn EXCEPT ![r] = t]
  BY DEF DrainEnds, GoesTo
<1>7. writes' = OfOthers(r) \cup {w}
  <2>1. \A v \in writes : v.run = r => v.state # "runs"
    BY <1>1 DEF DrainEnds, Drained, IInv, ControlOK
  <2> QED BY <2>1 DEF DrainEnds, OfOthers
<1>8. HighOf(r) < PlaceOf(w) /\ HighOf(r) <= High("error", turn[r].iteration, MaxIterations[r])
  BY <1>1, <1>5, HighBound DEF HighOf, High, PlaceOf, PlaceIn, Place, Event
<1> HIDE DEF t, w
<1> QED BY <1>1, <1>2, <1>4, <1>5, <1>6, <1>7, <1>8, WriteBegins DEF Kept

\* A cancelled _observe has waited for its write, so nothing of it comes later.
LEMMA UnwindsStep ==
    ASSUME IInv, NEW r \in RunIds, Unwinds(r)
    PROVE  IInv'
<1> DEFINE b == mishap.untold \/ (turn[r].pc # "initialize" /\ Written(r, "done"))
           e == IF turn[r].pc = "error" THEN mishap.endless \cup {r} ELSE mishap.endless
           rest == writes \ {w \in Awaited(r) : w.state # "runs"}
<1>1. turn[r].stop = "waits" /\ Ended(r) /\ rows' = rows /\ UNCHANGED <<conn, wire>>
  BY DEF Unwinds, MayUnwind, view
<1>2. turn[r].pc \in Kept
  BY <1>1 DEF IInv, ControlOK
<1>3. OtherTypes' /\ mishap'.endless = e
  <2>1. mishap \in Mishap /\ tracing \in [ready : BOOLEAN, holder : SUBSET RunIds]
    BY DEF IInv, OtherTypes
  <2>2. b \in BOOLEAN
    OBVIOUS
  <2>3. e \in SUBSET RunIds
    BY <2>1 DEF Mishap
  <2>4. mishap' = [mishap EXCEPT !.untold = b, !.endless = e]
    BY DEF Unwinds
  <2>5. /\ tracing' \in [ready : BOOLEAN, holder : SUBSET RunIds]
        /\ tracing'.holder \in {tracing.holder, {}}
    BY <2>1 DEF Unwinds
  <2> HIDE DEF b, e
  <2> QED BY <1>1, <2>2, <2>3, <2>4, <2>5, Counted
<1>4. rest = OfOthers(r)
  <2>1. \A v, w \in writes : v.run = r /\ w.run = r => v = w
    BY DEF IInv, ControlOK
  <2>2. PICK w \in Awaited(r) : w.state \in {"done", "failed"}
    BY <1>1 DEF Ended, Written
  <2>3. Awaited(r) = {v \in writes : v.run = r}
    BY <1>2, AwaitsAll DEF Kept
  <2> QED BY <2>1, <2>2, <2>3 DEF OfOthers
<1>5. turn[r] \in ATurn /\ turn \in [RunIds -> ATurn]
  BY DEF IInv, TraceTypes
<1>6. CASE turn[r].pc \in {"initialize", "start"}
  <2> DEFINE t == [turn[r] EXCEPT !.pc = "finish", !.stop = "raised", !.how = "cancelled"]
             w == Finish(r, "cancelled")
  <2>1. t \in ATurn /\ t.pc = "finish" /\ t.iteration = turn[r].iteration /\ t.stop = "raised" /\ t.how = "cancelled"
    BY <1>5 DEF ATurn, PCs, Kept, Outcome, Terminal
  <2>2. w \in AWrite /\ w.run = r /\ w.what = "finish" /\ w.iteration = turn[r].iteration /\ w.state = "runs"
        /\ w.status = "cancelled"
    BY <1>5 DEF AWrite, ATurn, Write, Finish, Outcome, Terminal, Kept
  <2>3. turn' = [turn EXCEPT ![r] = t] /\ writes' = OfOthers(r) \cup {w}
    BY <1>4, <1>6 DEF Unwinds
  <2>4. HighOf(r) <= High("finish", turn[r].iteration, MaxIterations[r])
    BY HighBound DEF High
  <2>5. mishap'.endless = mishap.endless
    BY <1>3, <1>6
  <2> HIDE DEF t, w, e
  <2> QED BY <1>1, <1>3, <1>6, <2>1, <2>2, <2>3, <2>4, <2>5, WriteBegins DEF IsEvent, Terminal
<1>7. CASE turn[r].pc \in {"memory", "memoryError"}
  <2> DEFINE t == [turn[r] EXCEPT !.pc = "error", !.stop = "raised"]
             w == Write(r, "error")
  <2>1. t \in ATurn /\ t.pc = "error" /\ t.iteration = turn[r].iteration /\ t.stop = "raised"
    BY <1>5 DEF ATurn, PCs, Kept
  <2>2. w \in AWrite /\ w.run = r /\ w.what = "error" /\ w.iteration = turn[r].iteration /\ w.state = "runs"
    BY <1>5 DEF AWrite, ATurn, Write, Outcome, Kept
  <2>3. turn' = [turn EXCEPT ![r] = t] /\ writes' = OfOthers(r) \cup {w}
    BY <1>4, <1>7 DEF Unwinds
  <2>4. HighOf(r) < PlaceOf(w) /\ HighOf(r) <= High("error", turn[r].iteration, MaxIterations[r])
    BY <1>7, <2>2, HighBound DEF HighOf, High, PlaceOf, PlaceIn, Place, Event
  <2>5. mishap'.endless = mishap.endless
    BY <1>3, <1>7
  <2> HIDE DEF t, w, e
  <2> QED BY <1>1, <1>3, <1>7, <2>1, <2>2, <2>3, <2>4, <2>5, WriteBegins
<1>8. CASE turn[r].pc \in {"error", "finish"}
  <2> DEFINE t == [turn[r] EXCEPT !.pc = "over", !.stop = "raised"]
  <2>1. t \in ATurn /\ t.pc = "over" /\ t.iteration = turn[r].iteration /\ t.stop = "raised" /\ t.how = turn[r].how
    BY <1>5 DEF ATurn, PCs
  <2>2. turn' = [turn EXCEPT ![r] = t] /\ writes' = OfOthers(r)
    BY <1>4, <1>8 DEF Unwinds
  <2>3. HighOf(r) <= High("over", turn[r].iteration, MaxIterations[r])
    BY HighBound DEF High
  <2>4. \A q \in RunIds \ {r} : q \in mishap'.endless <=> q \in mishap.endless
    BY <1>3
  <2>5. rows[r].status \in {"none", turn[r].how} \/ r \in mishap'.endless
    <3>1. CASE turn[r].pc = "error"
      BY <1>3, <3>1
    <3>2. CASE turn[r].pc = "finish"
      BY <1>1, <1>3, <3>2, EndIsWritten
    <3> QED BY <1>8, <3>1, <3>2
  <2>6. turn[r].iteration >= 1 /\ turn[r].iteration <= MaxIterations[r]
    BY DEF IInv, ControlOK
  <2> HIDE DEF t, e
  <2> QED BY <1>1, <1>3, <2>1, <2>2, <2>3, <2>4, <2>5, <2>6, NoWrite
<1> QED BY <1>2, <1>6, <1>7, <1>8 DEF Kept

-----------------------------------------------------------------------------
(* The connection and the page do not write. *)

\* A connection that is made or broken has an empty queue.
LEMMA NoConnType ==
    NoConn \in Conn /\ Len(NoConn.queue) <= QueueSize
  BY DashboardAssumption DEF NoConn, Conn

\* What the server sends, and how connections end, does not change what is stored.
LEMMA ServesStep ==
    ASSUME IInv, Serves \/ LinkBreaks \/ ShutsDown
    PROVE  IInv'
<1>1. OtherTypes /\ QueueSize \in Nat \ {0} /\ WireSize \in Nat
  BY DashboardAssumption DEF IInv
<1>2. conn \in Conn /\ mishap \in Mishap /\ wire \in 0 .. WireSize /\ Len(conn.queue) <= QueueSize
  BY <1>1 DEF OtherTypes
<1>3. conn.queue \in Seq({"event", "end"}) /\ Len(conn.queue) \in Nat
  BY <1>2 DEF Conn
<1>4. CASE SenderGets
  <2> DEFINE next == IF Head(conn.queue) = "end" THEN "over" ELSE "sends"
  <2>1. Tail(conn.queue) \in Seq({"event", "end"}) /\ Len(Tail(conn.queue)) <= QueueSize
    <3>1. conn.queue # <<>>
      BY <1>4 DEF SenderGets
    <3>2. Tail(conn.queue) \in Seq({"event", "end"}) /\ Len(Tail(conn.queue)) = Len(conn.queue) - 1
      BY <1>3, <3>1
    <3> QED BY <1>1, <1>2, <1>3, <3>2
  <2>2. conn' = [conn EXCEPT !.queue = Tail(conn.queue), !.sender = next] /\ next \in {"over", "sends"}
    BY <1>4 DEF SenderGets
  <2> HIDE DEF next
  <2>3. conn' \in Conn /\ conn'.queue = Tail(conn.queue)
    BY <1>2, <2>1, <2>2 DEF Conn
  <2>4. OtherTypes'
    BY <1>1, <1>4, <2>1, <2>3 DEF OtherTypes, SenderGets, trace, view
  <2> QED BY <1>4, <2>4, NoRun DEF SenderGets, trace
<1>5. CASE SendsEvent
  <2>1. conn' \in Conn /\ conn'.queue = conn.queue
    BY <1>2, <1>5 DEF Conn, SendsEvent
  <2>2. OtherTypes'
    BY <1>1, <1>5, <2>1 DEF OtherTypes, SendsEvent, trace
  <2> QED BY <1>5, <2>2, NoRun DEF SendsEvent, trace
<1>6. CASE SendTimesOut
  <2>1. conn' \in Conn /\ conn'.queue = conn.queue
    BY <1>2, <1>6 DEF Conn, SendTimesOut
  <2>2. mishap' \in Mishap /\ mishap'.endless = mishap.endless
    BY <1>2, <1>6 DEF Mishap, SendTimesOut
  <2>3. OtherTypes'
    BY <1>1, <1>6, <2>1, <2>2 DEF OtherTypes, SendTimesOut, trace, view
  <2> QED BY <1>6, <2>2, <2>3, NoRun DEF SendTimesOut, trace
<1>7. CASE Closes
  <2>1. conn' \in Conn /\ conn'.queue = NoConn.queue
    BY <1>7, NoConnType DEF Closes, Conn, NoConn
  <2>2. OtherTypes'
    BY <1>1, <1>7, <2>1, NoConnType DEF OtherTypes, Closes, trace, view
  <2> QED BY <1>7, <2>2, NoRun DEF Closes, trace
<1>8. CASE LinkBreaks
  <2>1. conn' \in Conn /\ conn'.queue = NoConn.queue
    BY <1>8, NoConnType DEF LinkBreaks, Conn, NoConn
  <2>2. mishap' \in Mishap /\ mishap'.endless = mishap.endless
    BY <1>2, <1>8 DEF Mishap, LinkBreaks
  <2>3. OtherTypes'
    BY <1>1, <1>8, <2>1, <2>2, NoConnType DEF OtherTypes, LinkBreaks, trace
  <2> QED BY <1>8, <2>2, <2>3, NoRun DEF LinkBreaks, trace
<1>9. CASE ShutsDown
  <2> DEFINE kept == IF Len(conn.queue) < QueueSize THEN conn.queue ELSE Tail(conn.queue)
  <2>1. kept \in Seq({"event", "end"}) /\ Len(kept) + 1 <= QueueSize
    <3>1. CASE Len(conn.queue) < QueueSize
      BY <1>1, <1>3, <3>1
    <3>2. CASE Len(conn.queue) = QueueSize
      <4>1. conn.queue # <<>> /\ Tail(conn.queue) \in Seq({"event", "end"})
            /\ Len(Tail(conn.queue)) = Len(conn.queue) - 1
        BY <1>1, <1>3, <3>2
      <4> QED BY <1>1, <3>2, <4>1
    <3> QED BY <1>1, <1>2, <1>3, <3>1, <3>2
  <2> HIDE DEF kept
  <2>2. Append(kept, "end") \in Seq({"event", "end"}) /\ Len(Append(kept, "end")) <= QueueSize
    BY <2>1
  <2>3. conn' = IF conn.subscribed THEN [conn EXCEPT !.subscribed = FALSE, !.queue = Append(kept, "end")] ELSE conn
    BY <1>9 DEF ShutsDown, kept
  <2>4. conn' \in Conn /\ Len(conn'.queue) <= QueueSize
    <3>1. CASE conn.subscribed
      <4>1. conn' = [conn EXCEPT !.subscribed = FALSE, !.queue = Append(kept, "end")]
        BY <2>3, <3>1
      <4>2. conn' \in Conn /\ conn'.queue = Append(kept, "end")
        BY <1>2, <2>2, <4>1 DEF Conn
      <4> QED BY <2>2, <4>2
    <3>2. CASE ~conn.subscribed
      BY <1>2, <2>3, <3>2
    <3> QED BY <3>1, <3>2
  <2>5. OtherTypes'
    BY <1>1, <1>9, <2>4 DEF OtherTypes, ShutsDown, trace, view
  <2> QED BY <1>9, <2>5, NoRun DEF ShutsDown, trace
<1> QED BY <1>4, <1>5, <1>6, <1>7, <1>8, <1>9 DEF Serves

\* Nor does the page.
LEMMA ViewsStep ==
    ASSUME IInv, Views
    PROVE  IInv'
<1>1. UNCHANGED trace /\ mishap'.endless = mishap.endless /\ OtherTypes'
  <2>1. OtherTypes /\ mishap \in Mishap /\ WireSize \in Nat
    BY DashboardAssumption DEF IInv, OtherTypes
  <2>2. CASE Connects
    <3>1. conn' \in Conn /\ conn'.queue = NoConn.queue
      BY <2>2, NoConnType DEF Connects, Conn, NoConn
    <3> QED BY <2>1, <2>2, <3>1, NoConnType DEF OtherTypes, Connects, trace
  <2>3. CASE Opens \/ Rereads \/ StoreIsRead \/ (\E v \in page.fetches : Displays(v))
    BY <2>1, <2>3 DEF OtherTypes, Opens, Rereads, StoreIsRead, Displays, trace
  <2>4. CASE Gets
    BY <2>1, <2>4 DEF OtherTypes, Gets, trace
  <2>5. CASE SeesClose
    BY <2>1, <2>5, NoConnType DEF OtherTypes, SeesClose, trace
  <2>6. CASE ReadErrs
    <3>1. mishap' \in Mishap /\ mishap'.endless = mishap.endless
      BY <2>1, <2>6 DEF Mishap, ReadErrs
    <3> QED BY <2>1, <2>6, <3>1 DEF OtherTypes, ReadErrs, trace
  <2> QED BY <2>2, <2>3, <2>4, <2>5, <2>6 DEF Views
<1> QED BY <1>1, NoRun DEF trace

-----------------------------------------------------------------------------

\* Every step keeps the invariant.
LEMMA Inductive == IInv /\ [DashboardNext]_dashboard => IInv'
<1> SUFFICES ASSUME IInv, [DashboardNext]_dashboard PROVE IInv'
  OBVIOUS
<1>1. CASE \E w \in writes : Commits(w) \/ WriteErrs(w)
  BY <1>1, CommitsStep, WriteErrsStep
<1>2. ASSUME NEW r \in RunIds,
             \/ TraceBegins(r) \/ Initialized(r) \/ Observed(r) \/ Prepares(r) \/ AsksModel(r) \/ Executes(r)
             \/ Hooked(r) \/ DrainEnds(r) \/ Unwinds(r) \/ Cancel(r)
      PROVE  IInv'
  BY <1>2, TraceBeginsStep, InitializedStep, ObservedStep, PreparesStep, AsksModelStep, ExecutesStep,
     HookedStep, DrainEndsStep, UnwindsStep, CancelStep
<1>3. CASE Serves \/ LinkBreaks \/ ShutsDown
  BY <1>3, ServesStep
<1>4. CASE Views
  BY <1>4, ViewsStep
<1>5. CASE UNCHANGED dashboard
  <2>1. OtherTypes'
    BY <1>5, OthersSame DEF dashboard
  <2> QED BY <1>5, <2>1, NoRun DEF dashboard
<1> QED BY <1>1, <1>2, <1>3, <1>4, <1>5 DEF DashboardNext, Goes, Traces

\* TraceIsSound for any turns, queue and faults: whenever the store is read, each run's
\* events are in order and each once, nothing but the end is still being written about a
\* run that has one, and a run whose turn is over says how it ended, wherever the turn was
\* cancelled and whichever write failed (_observe, drain; agent/loop.py, observability/hook.py).
THEOREM TraceStaysSound == DashboardSpec => []TraceIsSound
<1> QED BY Initially, Inductive, Implied, PTL DEF DashboardSpec

-----------------------------------------------------------------------------

\* All of it in the specification the run checks, where conversations and traces stand side by
\* side: while the one goes on the other rests.
THEOREM SoundSideBySide ==
    MCSpec => /\ [](SessionsAreSound /\ KeptOrArchivedOnce /\ TraceIsSound)
              /\ StopIsComplete
<1>1. MCInit => Init /\ DashboardInit
  BY DEF MCInit
<1>2. [MCNext]_mc => [Next]_vars
  BY DEF MCNext, Chatting, Observing, mc
<1>3. [MCNext]_mc => [DashboardNext]_dashboard
  BY DEF MCNext, Chatting, Observing, mc
<1>4. MCSpec => Spec
  BY <1>1, <1>2, PTL DEF MCSpec, Spec
<1>5. MCSpec => []TraceIsSound
  BY <1>1, <1>3, Initially, Inductive, Implied, PTL DEF MCSpec
<1> QED BY <1>4, <1>5, SessionsSound, KeptOrArchived, StopCompletes, PTL

===============================================================================
