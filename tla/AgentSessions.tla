---------------------------- MODULE AgentSessions ----------------------------
(***************************************************************************)
(* The agent loop of nanobot and the conversations it keeps: run and       *)
(* _dispatch (agent/loop.py), the turn of a message, the consolidation of  *)
(* a long session (agent/memory.py), /new and /stop (command/builtin.py),  *)
(* subagents (agent/subagent.py), and the session files                    *)
(* (session/manager.py).                                                   *)
(*                                                                         *)
(* Everything runs on one event loop, so a step lasts from one await to    *)
(* the next.  Only where a crash must be able to fall between a database   *)
(* commit and a file, or into a file being written, such a step is cut in  *)
(* two; nothing but a crash comes between the parts (InSync).              *)
(*                                                                         *)
(* A task is an inbound message, from its arrival on, a consolidation in   *)
(* the background, or a subagent; its number tells it apart.  What a turn  *)
(* adds to a session, its user message and the answers, is one entry: the  *)
(* number of the turn.  The prompt is measured in entries.  A definition   *)
(* Mut_X is a plausible mistake in the definition it precedes.             *)
(***************************************************************************)
EXTENDS Integers, Sequences, FiniteSets, SequencesExt

CONSTANTS
    Chats,         \* channel:chat_id of the conversations
    Budget,        \* context_window_tokens - max_completion_tokens - _SAFETY_BUFFER
    Gate,          \* NANOBOT_MAX_CONCURRENT_REQUESTS
    MaxFailures,   \* _MAX_EXTRACTION_FAILURES
    Kinds,         \* the messages people send: "user", "new", "stop", "status"
    MaxMessages,   \* bound: messages people send and subagents spawned
    MaxQueue,      \* bound: messages in the queue when one more arrives from people
    MaxTools,      \* bound: calls of the message and spawn tools
    MaxCrashes     \* bound: deaths of the process

ASSUME AgentAssumption ==
    /\ Chats # {} /\ Budget \in Nat \ {0} /\ Gate \in Nat \ {0}
    /\ MaxFailures \in Nat \ {0} /\ Kinds \subseteq {"user", "new", "stop", "status"}
    /\ MaxMessages \in Nat /\ MaxQueue \in Nat \ {0} /\ MaxTools \in Nat /\ MaxCrashes \in Nat

VARIABLES
    task,       \* messages, background consolidations and subagents
    inbound,    \* the bus' inbound queue
    loop,       \* what AgentLoop.run is doing
    object,     \* the Session objects
    cache,      \* SessionManager._cache, 0 without an object
    disk,       \* the session files
    lock,       \* the consolidation locks: holder first, then who waits
    tools,      \* what the shared tools hold: default chat, _sent_in_turn
    ghost,      \* chats whose turns overlapped, chats whose file was cut short
    used        \* how much of the bounds is used up

vars == <<task, inbound, loop, object, cache, disk, lock, tools, ghost, used>>

-----------------------------------------------------------------------------
(* Tasks. *)

Tasks == 1..Len(task)

\* object: its Session; from, upto: the entries it archives; begun: it archived some
\* already; stop: it is being cancelled.  Ghosts: saved, the turn is in its session;
\* archived, how often its entry was committed to the memory database; spoke, it used
\* the message tool; by, the turn that spawned it.
NewTask(kind, chat, pc) ==
    [kind |-> kind, chat |-> chat, pc |-> pc, object |-> 0, from |-> 0, upto |-> 0, tries |-> 0,
     begun |-> "no", stop |-> "no", saved |-> "no", archived |-> 0,
     spoke |-> "no", by |-> 0]

\* The synchronous sections that a crash may cut.
InSync(i) == task[i].pc \in {"checkpoint", "saved", "saveTurn", "clear", "cleared"}

\* The event loop runs task i, which was not cancelled.
Runs(i, pc) == /\ i \in Tasks /\ task[i].pc = pc /\ task[i].stop = "no"
               /\ \A k \in Tasks \ {i} : ~ InSync(k)

Put(i, t)  == task' = [task EXCEPT ![i] = t]
Goto(i, l) == Put(i, [task[i] EXCEPT !.pc = l])

\* The task is over; only what the properties ask of it is kept.
Over(i) ==
    [task[i] EXCEPT !.pc = "done", !.object = 0, !.from = 0, !.upto = 0, !.tries = 0,
                    !.begun = "no", !.stop = "no", !.spoke = "no"]

Dispatched == {"user", "system", "new"}

\* The key of _dispatch: a system message has the channel "system".
DispatchKey(i) == <<task[i].chat, IF task[i].kind = "system" THEN "system" ELSE "chat">>

\* Dispatched messages that are not over; asyncio.Lock serves them in the order
\* in which their tasks started, which is that of their numbers.
InDispatch == {i \in Tasks : task[i].kind \in Dispatched /\ task[i].pc \notin {"queued", "done"}}

HoldsDispatchLock(i) == \A k \in InDispatch : DispatchKey(k) = DispatchKey(i) => i <= k
GateIsOpen == Cardinality({i \in InDispatch : task[i].pc # "lock"}) < Gate

-----------------------------------------------------------------------------
(* Sessions. *)

Blank == [entries |-> <<>>, done |-> 0]     \* done is last_consolidated

Contents(o) == [entries |-> object[o].entries, done |-> object[o].done]

Unconsolidated(s) == SubSeq(s.entries, s.done + 1, Len(s.entries))

\* What the chat's history is now: the cached object, or what would be loaded.
View(chat) == IF cache[chat] # 0 THEN Contents(cache[chat]) ELSE disk[chat]

\* SessionManager.save: the file is opened, truncated and written line by line.
Save(chat, contents) == disk' = [disk EXCEPT ![chat] = contents]

\* What may be left of a file when the process dies while it is written: the first
\* lines, or something that _load cannot read.
CutShort(s) == {[s EXCEPT !.entries = SubSeq(s.entries, 1, n)] : n \in 0..Len(s.entries)} \cup {Blank}

-----------------------------------------------------------------------------
(* The consolidation locks. *)

\* Mutant: there is no lock.
Mut_NoLock(i) == TRUE
HoldsLock(i) == lock[task[i].chat] # <<>> /\ Head(lock[task[i].chat]) = i
Enqueue(i)   == lock' = [lock EXCEPT ![task[i].chat] = Append(@, i)]
\* Mutant: an error path keeps the lock.
Mut_KeepLock(i) == UNCHANGED lock
Release(i)   ==
    LET queue == lock[task[i].chat]
        place == CHOOSE n \in DOMAIN queue : queue[n] = i
    IN  IF i \in ToSet(queue) THEN lock' = [lock EXCEPT ![task[i].chat] = RemoveAt(queue, place)]
        ELSE UNCHANGED lock

-----------------------------------------------------------------------------
(* Messages arrive, and the loop takes them. *)

Receive(kind, chat) ==
    /\ used.messages < MaxMessages /\ Len(inbound) < MaxQueue
    /\ used' = [used EXCEPT !.messages = @ + 1]
    /\ task' = Append(task, NewTask(kind, chat, "queued"))
    /\ inbound' = Append(inbound, Len(task) + 1)
    /\ UNCHANGED <<loop, object, cache, disk, lock, tools, ghost>>

Idle == [pc |-> "idle", msg |-> 0]
LoopIsFree == /\ \A k \in Tasks : ~ InSync(k)
              /\ loop = Idle /\ inbound # <<>>

\* run: everything but the priority commands becomes a task of its own.
Consume ==
    /\ LoopIsFree
    /\ task[Head(inbound)].kind \in Dispatched
    /\ inbound' = Tail(inbound)
    /\ Goto(Head(inbound), "lock")
    /\ UNCHANGED <<loop, object, cache, disk, lock, tools, ghost, used>>

\* /status is answered in run itself, which waits for the memory store.
StatusBegins ==
    /\ LoopIsFree
    /\ task[Head(inbound)].kind = "status"
    /\ inbound' = Tail(inbound)
    /\ loop' = [pc |-> "status", msg |-> Head(inbound)]
    /\ UNCHANGED <<task, object, cache, disk, lock, tools, ghost, used>>

StatusReplies ==
    /\ loop.pc = "status" /\ \A k \in Tasks : ~ InSync(k)
    /\ Put(loop.msg, Over(loop.msg))
    /\ loop' = Idle
    /\ UNCHANGED <<inbound, object, cache, disk, lock, tools, ghost, used>>

-----------------------------------------------------------------------------
(* /stop: cancel the dispatched tasks of the chat, wait for them, then its *)
(* subagents.                                                              *)

\* _active_tasks of the chat.  A system message is filed under another key.
ActiveTasks(chat) == {i \in InDispatch : DispatchKey(i) = <<chat, "chat">>}
Subagents(chat)   == {i \in Tasks : task[i].kind = "subagent" /\ task[i].chat = chat /\ task[i].pc # "done"}

Cancelled(set) == [i \in Tasks |-> IF i \in set THEN [task[i] EXCEPT !.stop = "yes"] ELSE task[i]]

\* Mutant: the tasks are popped, but not cancelled.
Mut_PoppedOnly ==
    /\ LoopIsFree
    /\ task[Head(inbound)].kind = "stop"
    /\ inbound' = Tail(inbound)
    /\ loop' = [pc |-> "stopTasks", msg |-> Head(inbound)]
    /\ UNCHANGED <<task, object, cache, disk, lock, tools, ghost, used>>
StopBegins ==
    /\ LoopIsFree
    /\ task[Head(inbound)].kind = "stop"
    /\ inbound' = Tail(inbound)
    /\ loop' = [pc |-> "stopTasks", msg |-> Head(inbound)]
    /\ task' = Cancelled(ActiveTasks(task[Head(inbound)].chat))
    /\ UNCHANGED <<object, cache, disk, lock, tools, ghost, used>>

\* Every popped task has ended: cancel_by_session.
StopSubagents ==
    /\ loop.pc = "stopTasks" /\ \A k \in Tasks : ~ InSync(k)
    /\ \A i \in InDispatch : task[i].stop = "no"
    /\ loop' = [loop EXCEPT !.pc = "stopSubagents"]
    /\ task' = Cancelled(Subagents(task[loop.msg].chat))
    /\ UNCHANGED <<inbound, object, cache, disk, lock, tools, ghost, used>>

StopReplies ==
    /\ loop.pc = "stopSubagents" /\ \A k \in Tasks : ~ InSync(k)
    /\ \A i \in Tasks : task[i].stop = "no"
    /\ Put(loop.msg, Over(loop.msg))
    /\ loop' = Idle
    /\ UNCHANGED <<inbound, object, cache, disk, lock, tools, ghost, used>>

\* CancelledError reaches the task at its await; the locks are released.
CancelArrives(i) ==
    /\ i \in Tasks /\ task[i].stop = "yes" /\ task[i].pc # "done"
    /\ \A k \in Tasks : ~ InSync(k)
    /\ Put(i, Over(i))
    /\ Release(i)
    /\ UNCHANGED <<inbound, loop, object, cache, disk, tools, ghost, used>>

-----------------------------------------------------------------------------
(* A dispatched message enters: get_or_create, then the command or the turn. *)

InTurn == {i \in Tasks : task[i].kind \in Dispatched /\ task[i].pc \notin {"queued", "lock", "done"}}

\* SessionManager.get_or_create
GetOrCreate(i) ==
    LET chat == task[i].chat
    IN  IF cache[chat] # 0 THEN UNCHANGED <<object, cache>>
        ELSE /\ object' = Append(object, [chat |-> chat, entries |-> disk[chat].entries, done |-> disk[chat].done])
             /\ cache' = [cache EXCEPT ![chat] = Len(object) + 1]

Enter(i) ==
    /\ Runs(i, "lock") /\ HoldsDispatchLock(i) /\ GateIsOpen
    /\ GetOrCreate(i)
    /\ ghost' = IF \E k \in InTurn : task[k].chat = task[i].chat
                THEN [ghost EXCEPT !.overlap = @ \cup {task[i].chat}] ELSE ghost
    /\ Put(i, [task[i] EXCEPT !.object = cache'[task[i].chat],
                              !.pc = IF task[i].kind = "new" THEN "wait" ELSE "prepare"])
    /\ IF task[i].kind = "new" THEN Enqueue(i) ELSE UNCHANGED lock
    /\ UNCHANGED <<inbound, loop, disk, tools, used>>

\* The turn or command raised: _dispatch answers with an error text.  A background
\* task just ends.
Fails(i) ==
    /\ Put(i, Over(i))
    /\ Release(i)
    /\ UNCHANGED <<inbound, loop, object, cache, disk, tools, ghost, used>>

\* After maybe_consolidate_by_tokens: _set_tool_context and, for a message of a
\* person, start_turn; a background consolidation is over.
Proceed(i) ==
    IF task[i].kind = "background"
    THEN /\ Put(i, Over(i))
         /\ UNCHANGED tools
    ELSE /\ Put(i, [task[i] EXCEPT !.pc = "model", !.from = 0, !.upto = 0, !.tries = 0, !.begun = "no"])
         /\ tools' = [chat |-> task[i].chat,
                      sent |-> IF task[i].kind = "user" THEN "no" ELSE tools.sent]

\* The start of maybe_consolidate_by_tokens, before its lock.
StartConsolidation(i) ==
    IF object[task[i].object].entries = <<>>
    THEN Proceed(i) /\ UNCHANGED lock
    ELSE Enqueue(i) /\ Goto(i, "wait") /\ UNCHANGED tools

\* The trace is opened, memory prepared and fitted; each may fail.
Prepare(i) ==
    /\ Runs(i, "prepare")
    /\ StartConsolidation(i)
    /\ UNCHANGED <<inbound, loop, object, cache, disk, ghost, used>>

PrepareFails(i) == Runs(i, "prepare") /\ Fails(i)

BackgroundStarts(i) ==
    /\ Runs(i, "start")
    /\ StartConsolidation(i)
    /\ UNCHANGED <<inbound, loop, object, cache, disk, ghost, used>>

-----------------------------------------------------------------------------
(* maybe_consolidate_by_tokens under its lock.                             *)

\* pick_consolidation_boundary: up to the first message of a person, after the start,
\* before which enough was removed, else up to the last one there is; nowhere is None.
Boundaries(s) == {n \in (s.done + 2)..Len(s.entries) : task[s.entries[n]].kind = "user"}
PickBoundary(s, remove) ==
    LET enough == {n \in Boundaries(s) : n - 1 - s.done >= remove}
        first  == {n \in enough : \A m \in enough : n <= m}
        last   == {n \in Boundaries(s) : \A m \in Boundaries(s) : m <= n}
    IN  {n - 1 : n \in IF enough # {} THEN first ELSE last}

Target == Budget \div 2

\* One pass of the loop; the first one only from Budget entries on.
ConsolidationPass(i) ==
    LET s         == Contents(task[i].object)
        estimated == Len(Unconsolidated(s))
        picked    == PickBoundary(s, estimated - Target)
        first     == task[i].begun = "no"
    IN  IF (first /\ estimated < Budget) \/ estimated <= Target \/ picked = {}
        THEN Proceed(i) /\ Release(i)
        ELSE /\ \E upto \in picked :
                   Put(i, [task[i] EXCEPT !.pc = "archive", !.from = s.done + 1, !.upto = upto,
                                          !.tries = 0, !.begun = "yes"])
             /\ UNCHANGED <<lock, tools>>

Consolidate(i) ==
    /\ Runs(i, "wait") /\ task[i].kind # "new"
    /\ HoldsLock(i)
    /\ ConsolidationPass(i)
    /\ UNCHANGED <<inbound, loop, object, cache, disk, ghost, used>>

\* The next pass, after the memory context was prepared again (which may fail).
Refresh(i) ==
    /\ Runs(i, "refresh")
    /\ ConsolidationPass(i)
    /\ UNCHANGED <<inbound, loop, object, cache, disk, ghost, used>>

RefreshFails(i) == Runs(i, "refresh") /\ Fails(i)

\* The slice of the session that archive_messages was given.
Chunk(i) == {object[task[i].object].entries[n] : n \in task[i].from .. task[i].upto}

\* archive_messages: consolidate commits the chunk, ...
ArchiveCommits(i) ==
    /\ Runs(i, "archive")
    /\ task' = [k \in Tasks |->
                  IF k = i THEN [task[i] EXCEPT !.pc = IF task[i].kind = "new" THEN "clear" ELSE "checkpoint"]
                  ELSE IF k \in Chunk(i) THEN [task[k] EXCEPT !.archived = @ + 1] ELSE task[k]]
    /\ UNCHANGED <<inbound, loop, object, cache, disk, lock, tools, ghost, used>>

\* ... or fails in a way that may be tried again, the last time by archive_raw, ...
ArchiveFails(i) ==
    /\ Runs(i, "archive")
    /\ task[i].tries < MaxFailures
    /\ Put(i, [task[i] EXCEPT !.tries = @ + 1])
    /\ UNCHANGED <<inbound, loop, object, cache, disk, lock, tools, ghost, used>>

\* ... or for good: the session stays as it is, and /new says so.
ArchiveRefused(i) ==
    /\ Runs(i, "archive")
    /\ IF task[i].kind = "new"
       THEN Put(i, Over(i)) /\ UNCHANGED tools
       ELSE Proceed(i)
    /\ Release(i)
    /\ UNCHANGED <<inbound, loop, object, cache, disk, ghost, used>>

ArchiveRaises(i) == Runs(i, "archive") /\ Fails(i)

\* last_consolidated, and the file ...
\* Mutant: the checkpoint stays in memory.
Mut_CheckpointInMemory(i) ==
    /\ Runs(i, "checkpoint")
    /\ object' = [object EXCEPT ![task[i].object].done = task[i].upto]
    /\ Goto(i, "saved")
    /\ UNCHANGED <<inbound, loop, cache, disk, lock, tools, ghost, used>>
Checkpoint(i) ==
    /\ Runs(i, "checkpoint")
    /\ object' = [object EXCEPT ![task[i].object].done = task[i].upto]
    /\ Save(task[i].chat, [entries |-> object[task[i].object].entries, done |-> task[i].upto])
    /\ Goto(i, "saved")
    /\ UNCHANGED <<inbound, loop, cache, lock, tools, ghost, used>>

\* ... which is complete; save also caches the session.
CheckpointSaved(i) ==
    /\ Runs(i, "saved")
    /\ cache' = [cache EXCEPT ![task[i].chat] = task[i].object]
    /\ Goto(i, "refresh")
    /\ UNCHANGED <<inbound, loop, object, disk, lock, tools, ghost, used>>

-----------------------------------------------------------------------------
(* The model and its tools.                                                *)

\* before_execute_tools sets the context of the shared tools, and the tool runs
\* after the awaits of the other hooks and of gather.
CallTool(i, tool) ==
    /\ Runs(i, "model")
    /\ used.tools < MaxTools
    /\ tool = "spawn" => used.messages < MaxMessages
    /\ used' = [used EXCEPT !.tools = @ + 1, !.messages = IF tool = "spawn" THEN @ + 1 ELSE @]
    /\ tools' = [tools EXCEPT !.chat = task[i].chat]
    /\ Goto(i, tool)
    /\ UNCHANGED <<inbound, loop, object, cache, disk, lock, ghost>>

\* MessageTool.execute to the default chat
MessageToolRuns(i) ==
    /\ Runs(i, "message")
    /\ tools' = [tools EXCEPT !.sent = "yes"]
    /\ Put(i, [task[i] EXCEPT !.pc = "model", !.spoke = "yes"])
    /\ UNCHANGED <<inbound, loop, object, cache, disk, lock, ghost, used>>

\* SpawnTool.execute: the subagent belongs to the chat the tool was told last.
SpawnToolRuns(i) ==
    /\ Runs(i, "spawn")
    /\ task' = Append([task EXCEPT ![i].pc = "model"],
                      [NewTask("subagent", tools.chat, "running") EXCEPT !.by = i])
    /\ UNCHANGED <<inbound, loop, object, cache, disk, lock, tools, ghost, used>>

\* _announce_result, whatever became of the subagent
SubagentEnds(i) ==
    /\ Runs(i, "running")
    /\ task' = Append([task EXCEPT ![i] = Over(i)], NewTask("system", task[i].chat, "queued"))
    /\ inbound' = Append(inbound, Len(task) + 1)
    /\ UNCHANGED <<loop, object, cache, disk, lock, tools, ghost, used>>

ModelFails(i) == Runs(i, "model") /\ Fails(i)

\* The turn ends: _save_turn and the file ...
\* Mutant: the turn's messages stay in memory.
Mut_TurnInMemory(i) ==
    /\ Runs(i, "model")
    /\ object' = [object EXCEPT ![task[i].object].entries = Append(@, i)]
    /\ Goto(i, "saveTurn")
    /\ UNCHANGED <<inbound, loop, cache, disk, lock, tools, ghost, used>>
TurnEnds(i) ==
    /\ Runs(i, "model")
    /\ LET o == task[i].object
       IN  /\ object' = [object EXCEPT ![o].entries = Append(@, i)]
           /\ Save(task[i].chat, [entries |-> Append(object[o].entries, i), done |-> object[o].done])
    /\ Goto(i, "saveTurn")
    /\ UNCHANGED <<inbound, loop, cache, lock, tools, ghost, used>>

\* _sent_in_turn is asked before the trace is closed.
AnswerIsSuppressed(i) == task[i].kind = "user" /\ tools.sent = "yes"

\* ... is complete; a consolidation is scheduled in the background.
TurnSaved(i) ==
    /\ Runs(i, "saveTurn")
    /\ cache' = [cache EXCEPT ![task[i].chat] = task[i].object]
    /\ task' = Append(
           [task EXCEPT ![i].pc = IF AnswerIsSuppressed(i) THEN "closeSilent" ELSE "close",
                        ![i].saved = "yes"],
           [NewTask("background", task[i].chat, "start") EXCEPT !.object = task[i].object])
    /\ UNCHANGED <<inbound, loop, object, disk, lock, tools, ghost, used>>

\* The trace is closed, and _dispatch publishes the answer if there is one.
TurnReplies(i) ==
    /\ i \in Tasks /\ task[i].pc \in {"close", "closeSilent"} /\ task[i].stop = "no"
    /\ \A k \in Tasks : ~ InSync(k)
    /\ Put(i, Over(i))
    /\ UNCHANGED <<inbound, loop, object, cache, disk, lock, tools, ghost, used>>

-----------------------------------------------------------------------------
(* /new *)

NewBegins(i) ==
    /\ Runs(i, "wait") /\ task[i].kind = "new"
    /\ HoldsLock(i)
    /\ LET s == Contents(task[i].object)
       IN  Put(i, [task[i] EXCEPT !.from = s.done + 1, !.upto = Len(s.entries),
                                  !.pc = IF Unconsolidated(s) = <<>> THEN "clear" ELSE "archive"])
    /\ UNCHANGED <<inbound, loop, object, cache, disk, lock, tools, ghost, used>>

\* Mutant: Session.clear forgets last_consolidated.
Mut_DoneKept(i) ==
    /\ Runs(i, "clear")
    /\ object' = [object EXCEPT ![task[i].object].entries = <<>>]
    /\ Save(task[i].chat, [Blank EXCEPT !.done = object[task[i].object].done])
    /\ Goto(i, "cleared")
    /\ UNCHANGED <<inbound, loop, cache, lock, tools, ghost, used>>
NewClears(i) ==
    /\ Runs(i, "clear")
    /\ object' = [object EXCEPT ![task[i].object].entries = <<>>, ![task[i].object].done = 0]
    /\ Save(task[i].chat, Blank)
    /\ Goto(i, "cleared")
    /\ UNCHANGED <<inbound, loop, cache, lock, tools, ghost, used>>

NewReplies(i) ==
    /\ Runs(i, "cleared")
    /\ cache' = [cache EXCEPT ![task[i].chat] = 0]
    /\ Put(i, Over(i))
    /\ Release(i)
    /\ UNCHANGED <<inbound, loop, object, disk, tools, ghost, used>>

-----------------------------------------------------------------------------
(* The process dies: the database and the session files stay, a file that  *)
(* was being written is cut short, and the bus is empty again.             *)

BeingWritten == {task[i].chat : i \in {k \in Tasks : task[k].pc \in {"saved", "saveTurn", "cleared"}}}

Crash ==
    /\ used.crashes < MaxCrashes
    /\ used' = [used EXCEPT !.crashes = @ + 1]
    /\ \/ UNCHANGED <<disk, ghost>>
       \/ \E chat \in BeingWritten : \E s \in CutShort(disk[chat]) :
             /\ Save(chat, s)
             /\ ghost' = [ghost EXCEPT !.torn = @ \cup {chat}]
    /\ task' = [i \in Tasks |-> IF task[i].pc = "done" THEN task[i] ELSE Over(i)]
    /\ inbound' = <<>> /\ loop' = Idle
    /\ object' = <<>> /\ cache' = [c \in Chats |-> 0]
    /\ lock' = [c \in Chats |-> <<>>]
    /\ tools' = [chat |-> CHOOSE c \in Chats : TRUE, sent |-> "no"]

-----------------------------------------------------------------------------
Init ==
    /\ task = <<>> /\ inbound = <<>> /\ loop = Idle
    /\ object = <<>> /\ cache = [c \in Chats |-> 0]
    /\ disk = [c \in Chats |-> Blank]
    /\ lock = [c \in Chats |-> <<>>]
    /\ tools = [chat |-> CHOOSE c \in Chats : TRUE, sent |-> "no"]
    /\ ghost = [overlap |-> {}, torn |-> {}]
    /\ used = [messages |-> 0, tools |-> 0, crashes |-> 0]

Loop == Consume \/ StatusBegins \/ StatusReplies \/ StopBegins \/ StopSubagents \/ StopReplies

Turn(i) ==
    \/ Enter(i) \/ Prepare(i) \/ PrepareFails(i)
    \/ MessageToolRuns(i) \/ SpawnToolRuns(i) \/ ModelFails(i)
    \/ TurnEnds(i) \/ TurnSaved(i) \/ TurnReplies(i)

Consolidation(i) ==
    \/ BackgroundStarts(i) \/ Consolidate(i) \/ Refresh(i) \/ RefreshFails(i)
    \/ ArchiveCommits(i) \/ ArchiveFails(i) \/ ArchiveRefused(i) \/ ArchiveRaises(i)
    \/ Checkpoint(i) \/ CheckpointSaved(i)

New(i) == NewBegins(i) \/ NewClears(i) \/ NewReplies(i)

Step(i) == Turn(i) \/ Consolidation(i) \/ New(i) \/ SubagentEnds(i) \/ CancelArrives(i)

Next ==
    \/ \E kind \in Kinds, chat \in Chats : Receive(kind, chat)
    \/ Loop
    \/ \E i \in Tasks : Step(i)
    \/ \E i \in Tasks, tool \in {"message", "spawn"} : CallTool(i, tool)
    \/ Crash

Spec == Init /\ [][Next]_vars

\* The event loop runs what is ready, model calls and tools come back (providers,
\* tools and iterations are bounded).  Nothing is assumed of people and crashes.
FairSpec == Spec /\ WF_vars(Loop) /\ WF_vars(\E i \in Tasks : Step(i))

-----------------------------------------------------------------------------
(* Properties. *)

Session == [entries : Seq(Nat), done : Nat]

\* Types; a session never counts more messages as consolidated than it has, unless
\* its file was cut short by a crash.
TypeOK ==
    /\ \A i \in Tasks :
          /\ task[i].kind \in Dispatched \cup {"stop", "status", "background", "subagent"}
          /\ task[i].chat \in Chats
          /\ task[i].object \in 0..Len(object)
          /\ task[i].tries \in 0..MaxFailures
    /\ \A n \in DOMAIN inbound : inbound[n] \in Tasks
    /\ loop.pc \in {"idle", "status", "stopTasks", "stopSubagents"}
    /\ cache \in [Chats -> 0..Len(object)]
    /\ disk \in [Chats -> Session]
    /\ \A c \in Chats : lock[c] \in Seq(Tasks)
    /\ tools.chat \in Chats /\ tools.sent \in {"yes", "no"}
    /\ \A o \in DOMAIN object :
          object[o].chat \in ghost.torn \/ object[o].done \in 0..Len(object[o].entries)

AtRest == \A i \in Tasks : ~ InSync(i)

\* Whenever the loop is at an await, the file of a cached session holds exactly what
\* the process shows: a restart changes nothing (SessionManager.save, memory.py 149-150,
\* builtin.py 85-87), although stale Session objects are written too.
FileIsView ==
    AtRest => \A c \in Chats : cache[c] # 0 => disk[c] = Contents(cache[c])

\* The sessions are sound: their types, and a restart changes nothing.
SessionsAreSound == TypeOK /\ FileIsView

Visible(i) == i \in ToSet(Unconsolidated(View(task[i].chat)))

\* A turn that was saved stays in the history of its chat until it is in the memory
\* database, through consolidations, /new, /stop and restarts; provided no file was cut
\* short and turns of the chat did not overlap (_dispatch's lock lets only a system
\* message overlap).
NothingLost ==
    \A i \in Tasks :
        /\ task[i].saved = "yes"
        /\ task[i].chat \notin ghost.overlap \cup ghost.torn
        => Visible(i) \/ task[i].archived > 0

\* However many turns, background tasks and /new compete for a session, an entry is
\* archived once, and at most once more for every crash (memory.py 149).
ArchivedOnce == \A i \in Tasks : task[i].archived <= 1 + used.crashes

\* What is said in a chat is kept until it is in the memory database, and gets there
\* once (memory.py, builtin.py /new).
KeptOrArchivedOnce == NothingLost /\ ArchivedOnce

\* When /stop answers, no message of the chat that was dispatched before is worked on, and
\* no subagent of the chat that one of them spawned is alive (cmd_stop).
StopIsComplete ==
    [][StopReplies =>
         LET chat == task[loop.msg].chat
         IN  /\ ActiveTasks(chat) = {}
             /\ \A i \in Subagents(chat) :
                   LET by == task[task[i].by] IN by.chat = chat => by.kind = "system"]_vars

\* When people stop sending, the loop comes to rest: nobody waits for ever on the dispatch
\* lock, the gate, the consolidation lock, or in /stop on a task that does not end.
Drains == []<>(\A i \in Tasks : task[i].pc = "done")
=============================================================================
