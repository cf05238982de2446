----------------------------- MODULE Transcript -----------------------------
(***************************************************************************)
(* The transcript of one session of nanobot: what a turn adds to it        *)
(* (agent/runner.py, agent/loop.py), what consolidation and the heartbeat  *)
(* take from it (agent/memory.py, cli/commands.py), what of it becomes the *)
(* history of a request (session/manager.py), and what the providers make  *)
(* of the request on the wire (providers/*.py).  The APIs reject a request *)
(* whose tool calls and tool results do not match, and then the session is *)
(* stuck: the same history is sent again with every later message.         *)
(*                                                                         *)
(* A step lasts from one await to the next.  Token counts are abstracted:  *)
(* whether and how far to consolidate is open.                             *)
(* A definition Mut_X is a plausible mistake in the definition it          *)
(* precedes.                                                               *)
(***************************************************************************)
EXTENDS Integers, Sequences, FiniteSets, SequencesExt

CONSTANTS
    KeepRecent,     \* gateway.heartbeat.keep_recent_messages
    MaxIterations,  \* agents.defaults.max_tool_iterations
    RetryDelays,    \* how many there are in _CHAT_RETRY_DELAYS
    MaxTurns,       \* bound: turns
    MaxCalls,       \* bound: tool calls of one response
    MaxArchives,    \* bound: archives
    MaxErrors,      \* bound: errors of the model and of turns
    MaxRestarts     \* bound: restarts of the process

ASSUME TranscriptAssumption ==
    /\ KeepRecent \in Nat /\ MaxIterations \in Nat \ {0} /\ RetryDelays \in Nat
    /\ MaxTurns \in Nat /\ MaxCalls \in Nat \ {0} /\ MaxArchives \in Nat /\ MaxErrors \in Nat /\ MaxRestarts \in Nat

VARIABLES
    key,        \* "chat", or the session "heartbeat"
    session,    \* the Session object: messages, last_consolidated
    file,       \* what SessionManager.save wrote last
    turn,       \* the turn of each lane
    job,        \* who holds the consolidation lock, and the boundary it archives up to
    waiting,    \* background consolidations that have not begun
    beat,       \* HeartbeatService._tick
    archived,   \* ghost: the messages that the memory has
    used        \* how much of the bounds is used up; ghosts

vars == <<key, session, file, turn, job, waiting, beat, archived, used>>

\* System messages have a dispatch lock of their own, so a subagent's result may be
\* answered while a user's message is.
Lanes == {"user", "system"}

-----------------------------------------------------------------------------
(* Messages.  n numbers those of the session (ghost); content is "none" for None, "empty"  *)
(* for the empty string, "blank" for a message of spaces.                  *)

Message(role, content) == [role |-> role, n |-> 0, content |-> content, calls |-> <<>>, answers |-> <<>>]
Calling(content, ids) == [Message("assistant", content) EXCEPT !.calls = ids]
Result(id) == [Message("tool", "text") EXCEPT !.answers = id]

Drop(s, k) == SubSeq(s, k + 1, Len(s))

\* Positions of the messages that begin a turn of the user.
UserAt(s) == {i \in DOMAIN s : s[i].role = "user"}
Numbers(s) == {s[i].n : i \in DOMAIN s}
Least(S) == CHOOSE i \in S : \A j \in S : i <= j
Greatest(S) == CHOOSE i \in S : \A j \in S : j <= i

-----------------------------------------------------------------------------
(* Session *)

\* _find_legal_start: everything up to the last result whose call was not seen is dropped.
\* Mutant: only a result at the very front is an orphan.
Mut_FrontOnly(s) == IF s # <<>> /\ s[1].role = "tool" THEN 1 ELSE 0
FindLegalStart(s) ==
    LET walk[i \in 0..Len(s)] ==
            IF i = 0 THEN [start |-> 0, declared |-> {}]
            ELSE IF s[i].role = "assistant" THEN [walk[i - 1] EXCEPT !.declared = @ \cup Range(s[i].calls)]
            ELSE IF s[i].role = "tool" /\ s[i].answers \notin walk[i - 1].declared THEN [start |-> i, declared |-> {}]
            ELSE walk[i - 1]
    IN  walk[Len(s)].start

\* get_history(max_messages=0): the whole of what is not consolidated, from its first
\* user message on.
History ==
    LET s == Drop(session.messages, session.last)
        t == IF UserAt(s) = {} THEN s ELSE Drop(s, Least(UserAt(s)) - 1)
    IN  Drop(t, FindLegalStart(t))

\* retain_recent_legal_suffix: last_consolidated moves with the messages.
\* Mutant: it stays where it is.
Mut_StaysPut(max) ==
    LET s     == session.messages
        start == Greatest({1} \cup {i \in UserAt(s) : i <= Len(s) - max + 1})
        kept  == Drop(Drop(s, start - 1), FindLegalStart(Drop(s, start - 1)))
    IN  IF max <= 0 THEN [messages |-> <<>>, last |-> 0]
        ELSE IF Len(s) <= max THEN session
        ELSE [messages |-> kept, last |-> session.last]
\* Mutant: what was dropped is subtracted, whatever the position was.
Mut_Negative(max) ==
    LET s       == session.messages
        start   == Greatest({1} \cup {i \in UserAt(s) : i <= Len(s) - max + 1})
        kept    == Drop(Drop(s, start - 1), FindLegalStart(Drop(s, start - 1)))
    IN  IF max <= 0 THEN [messages |-> <<>>, last |-> 0]
        ELSE IF Len(s) <= max THEN session
        ELSE [messages |-> kept, last |-> session.last - (Len(s) - Len(kept))]
RetainRecent(max) ==
    LET s       == session.messages
        start   == Greatest({1} \cup {i \in UserAt(s) : i <= Len(s) - max + 1})
        kept    == Drop(Drop(s, start - 1), FindLegalStart(Drop(s, start - 1)))
        dropped == Len(s) - Len(kept)
    IN  IF max <= 0 THEN [messages |-> <<>>, last |-> 0]
        ELSE IF Len(s) <= max THEN session
        ELSE [messages |-> kept,
              last |-> IF session.last > dropped THEN session.last - dropped ELSE 0]

-----------------------------------------------------------------------------
(* A turn *)

\* seen (ghost): what was in the session when the request was built.
IdleTurn == [pc |-> "idle", no |-> 0, msgs |-> <<>>, skip |-> 0, seen |-> {}, iteration |-> 0, attempt |-> 0, stripped |-> FALSE]

Begins(l) ==
    /\ used.turns < MaxTurns
    /\ turn[l].pc = "idle"
    /\ turn' = [turn EXCEPT ![l].pc = "prepare", ![l].no = used.turns + 1]
    /\ used' = [used EXCEPT !.turns = @ + 1]

\* A message of a user, or of cron or a subagent.
MessageArrives(l) ==
    /\ key = "chat"
    /\ Begins(l)
    /\ UNCHANGED <<key, session, file, job, waiting, beat, archived>>

\* _decide said "run": on_heartbeat_execute calls process_direct.
BeatRuns ==
    /\ key = "heartbeat" /\ beat = "deciding" /\ beat' = "running"
    /\ Begins("user")
    /\ UNCHANGED <<key, session, file, job, waiting, archived>>

\* The consolidation before the turn is over (or there was none): build_messages.  A
\* subagent's result becomes a message of the assistant.
BuildRequest(l) ==
    /\ turn[l].pc = "prepare"
    /\ job.by = "nobody" \/ session.messages = <<>>
    /\ \E role \in IF l = "user" THEN {"user"} ELSE {"user", "assistant"},
          content \in IF l = "user" THEN {"text", "blank", "image"} ELSE {"text"} :
          turn' = [turn EXCEPT ![l] = [@ EXCEPT !.pc = "model", !.seen = Numbers(session.messages), !.skip = Len(History),
                       !.msgs = Append(History, Message(role, content))]]
    /\ UNCHANGED <<key, session, file, job, waiting, beat, archived, used>>

Says(l, pc, m) ==
    /\ turn' = [turn EXCEPT ![l] = [turn[l] EXCEPT !.pc = pc, !.attempt = 0, !.stripped = FALSE, !.msgs = Append(@, m)]]
    /\ UNCHANGED <<key, session, file, job, waiting, beat, archived, used>>

\* The response has tool calls, whatever its finish_reason: the calls are appended.
ModelCalls(l) ==
    /\ turn[l].pc = "model"
    /\ \E k \in 1..MaxCalls, content \in {"text", "empty"} :
          Says(l, "tools", Calling(content, [i \in 1..k |-> <<turn[l].no, turn[l].iteration, i>>]))

\* _execute_tools: a result for every call, an error being one too; then the next iteration.
ToolsReturn(l) ==
    /\ turn[l].pc = "tools"
    /\ LET ids == Last(turn[l].msgs).calls
           results == [i \in DOMAIN ids |-> Result(ids[i])]
       IN  turn' = [turn EXCEPT ![l] =
                          [turn[l] EXCEPT !.msgs = @ \o results, !.iteration = @ + 1,
                                    !.pc = IF turn[l].iteration + 1 < MaxIterations THEN "model" ELSE "save"]]
    /\ UNCHANGED <<key, session, file, job, waiting, beat, archived, used>>

\* The answer may be empty after finalize_content.
ModelAnswers(l) ==
    /\ turn[l].pc = "model"
    /\ \E content \in {"text", "none"} : Says(l, "save", Message("assistant", content))

HasImage(ms) == \E i \in DOMAIN ms : ms[i].content = "image"

\* An error of the model: chat_with_retry asks again if it may pass, or without the images;
\* otherwise the turn ends, and nothing is appended.  ContextBudgetError ends it likewise.
ModelErrs(l) ==
    /\ turn[l].pc = "model" /\ used.errors < MaxErrors
    /\ used' = [used EXCEPT !.errors = @ + 1]
    /\ LET t == turn[l]
           again == ~ t.stripped /\ t.attempt < RetryDelays
       IN  \/ again /\ turn' = [turn EXCEPT ![l].attempt = @ + 1]
           \/ again /\ HasImage(t.msgs) /\ turn' = [turn EXCEPT ![l].stripped = TRUE]
           \/ ~ (again /\ HasImage(t.msgs)) /\ turn' = [turn EXCEPT ![l].pc = "save"]
    /\ UNCHANGED <<key, session, file, job, waiting, beat, archived>>

\* An exception, or /stop: nothing is saved, and the heartbeat does not prune.
TurnBreaksOff(l) ==
    /\ turn[l].pc \in {"prepare", "model", "tools"} /\ job.by # l /\ used.errors < MaxErrors
    /\ used' = [used EXCEPT !.errors = @ + 1]
    /\ turn' = [turn EXCEPT ![l] = IdleTurn]
    /\ beat' = IF key = "heartbeat" THEN "idle" ELSE beat
    /\ UNCHANGED <<key, session, file, job, waiting, archived>>

\* _save_turn: empty answers are skipped, and users' messages of which nothing but the
\* runtime context is left; images become placeholders.
\* Mutant: an assistant message is skipped for want of content even if it calls tools.
Mut_SkipsCalls(ms) ==
    LET keep(m) == /\ ~ (m.role = "assistant" /\ m.content \in {"none", "empty"})
                   /\ ~ (m.role = "user" /\ m.content = "blank")
    IN  [i \in DOMAIN SelectSeq(ms, keep) |-> [SelectSeq(ms, keep)[i] EXCEPT !.n = used.n + i]]
Persisted(ms) ==
    LET keep(m) == /\ ~ (m.role = "assistant" /\ m.content \in {"none", "empty"} /\ m.calls = <<>>)
                   /\ ~ (m.role = "user" /\ m.content = "blank")
        walk[i \in 0..Len(ms)] ==
            IF i = 0 THEN <<>> ELSE IF keep(ms[i]) THEN Append(walk[i - 1], ms[i]) ELSE walk[i - 1]
        kept == walk[Len(ms)]
    IN  [i \in DOMAIN kept |-> [kept[i] EXCEPT !.n = used.n + i, !.content = IF @ = "image" THEN "text" ELSE @]]

\* The turn is saved and a background consolidation scheduled.
SaveTurn(l) ==
    /\ turn[l].pc = "save"
    /\ LET new == Persisted(Drop(turn[l].msgs, turn[l].skip))
       IN  /\ session' = [session EXCEPT !.messages = @ \o new]
           /\ used' = [used EXCEPT !.n = @ + Len(new)]
    /\ file' = session'
    /\ waiting' = waiting + 1
    /\ turn' = [turn EXCEPT ![l] = [IdleTurn EXCEPT !.pc = IF key = "heartbeat" THEN "retain" ELSE "idle"]]
    /\ UNCHANGED <<key, job, beat, archived>>

-----------------------------------------------------------------------------
(* MemoryConsolidator.maybe_consolidate_by_tokens, before a turn (by its   *)
(* lane) and in the background.                                            *)

NoJob == [by |-> "nobody", end |-> 0, chunk |-> {}]

\* pick_consolidation_boundary: a user message after the first message.
\* Mutant: any message after the first one.
Mut_AnyMessage == {i - 1 : i \in {j \in DOMAIN session.messages : j > session.last + 1}}
Boundaries == {i - 1 : i \in {j \in UserAt(session.messages) : j > session.last + 1}}

Archives(by) ==
    /\ used.archives < MaxArchives
    /\ used' = [used EXCEPT !.archives = @ + 1]
    /\ \E end \in Boundaries :
          job' = [by |-> by, end |-> end,
                  chunk |-> {session.messages[i].n : i \in (session.last + 1)..end}]
    /\ UNCHANGED <<key, session, file, turn, beat, archived>>

ArchiveBegins(l) ==
    /\ job.by = "nobody" /\ turn[l].pc = "prepare"
    /\ Archives(l)
    /\ UNCHANGED waiting

BackgroundBegins ==
    /\ job.by = "nobody" /\ waiting > 0 /\ waiting' = waiting - 1
    /\ Archives("background")

\* Nothing to consolidate.
BackgroundReturns ==
    /\ job.by = "nobody" /\ waiting > 0 /\ waiting' = waiting - 1
    /\ UNCHANGED <<key, session, file, turn, job, beat, archived, used>>

\* The archive is committed; the next round begins, or the lock is released.
ArchiveCommits ==
    /\ job.by # "nobody"
    /\ archived' = archived \cup job.chunk
    /\ session' = [session EXCEPT !.last = job.end]
    /\ file' = session'
    /\ \/ job' = NoJob /\ UNCHANGED used
       \/ /\ used.archives < MaxArchives
          /\ used' = [used EXCEPT !.archives = @ + 1]
          /\ \E end \in {e \in Boundaries : e > job.end} :
                job' = [job EXCEPT !.end = end,
                            !.chunk = {session.messages[i].n : i \in (job.end + 1)..end}]
    /\ UNCHANGED <<key, turn, waiting, beat>>

\* It failed: nothing is marked.
ArchiveFails ==
    /\ job.by # "nobody" /\ used.errors < MaxErrors
    /\ used' = [used EXCEPT !.errors = @ + 1]
    /\ job' = NoJob
    /\ UNCHANGED <<key, session, file, turn, waiting, beat, archived>>

-----------------------------------------------------------------------------
(* HeartbeatService, on_heartbeat_execute                                  *)

\* The interval is over and HEARTBEAT.md says something; _decide asks the model.
Tick ==
    /\ key = "heartbeat" /\ beat = "idle" /\ used.turns < MaxTurns
    /\ beat' = "deciding"
    /\ UNCHANGED <<key, session, file, turn, job, waiting, archived, used>>

\* "skip", no tool call, or an error
DecideSkips ==
    /\ beat = "deciding" /\ used.errors < MaxErrors
    /\ beat' = "idle" /\ used' = [used EXCEPT !.errors = @ + 1]
    /\ UNCHANGED <<key, session, file, turn, job, waiting, archived>>

\* After the turn.  Its trace is written in between, if there is one: consolidation may have
\* begun.  shifted (ghost): it has, and holds a position in the messages of before.
Retain ==
    /\ turn["user"].pc = "retain"
    /\ session' = RetainRecent(KeepRecent)
    /\ file' = session'
    /\ turn' = [turn EXCEPT !["user"] = IdleTurn]
    /\ beat' = "evaluating"
    /\ used' = [used EXCEPT !.shifted = @ \/ (job.by # "nobody" /\ session' # session)]
    /\ UNCHANGED <<key, job, waiting, archived>>

\* evaluate_response, and on_notify unless it says no.
BeatEnds ==
    /\ beat = "evaluating" /\ beat' = "idle"
    /\ UNCHANGED <<key, session, file, turn, job, waiting, archived, used>>

\* The process dies and starts again; the session is loaded from its file.
Restart ==
    /\ used.restarts < MaxRestarts
    /\ used' = [used EXCEPT !.restarts = @ + 1]
    /\ session' = file
    /\ turn' = [l \in Lanes |-> IdleTurn] /\ job' = NoJob /\ waiting' = 0 /\ beat' = "idle"
    /\ UNCHANGED <<key, file, archived>>

-----------------------------------------------------------------------------
(* The file may be of an earlier version, which cut the transcript at a    *)
(* fixed size: any suffix of a turn with two calls.                        *)

Legacy ==
    LET ids == <<<<0, 0, 1>>, <<0, 0, 2>>>>
        ms  == <<Message("user", "text"), Calling("empty", ids), Result(ids[1]), Result(ids[2])>>
    IN  [i \in DOMAIN ms |-> [ms[i] EXCEPT !.n = i]]

Init ==
    /\ key \in {"chat", "heartbeat"}
    /\ \E k \in 0..Len(Legacy) : session = [messages |-> Drop(Legacy, k), last |-> 0]
    /\ file = session
    /\ turn = [l \in Lanes |-> IdleTurn]
    /\ job = NoJob /\ waiting = 0 /\ beat = "idle"
    /\ archived = {}
    /\ used = [n |-> Len(Legacy), turns |-> 0, archives |-> 0, errors |-> 0, restarts |-> 0, shifted |-> FALSE]

Turn(l) ==
    \/ MessageArrives(l) \/ BuildRequest(l) \/ ModelCalls(l) \/ ToolsReturn(l) \/ ModelAnswers(l)
    \/ ModelErrs(l) \/ TurnBreaksOff(l) \/ SaveTurn(l) \/ ArchiveBegins(l)

Next ==
    \/ \E l \in Lanes : Turn(l)
    \/ BackgroundBegins \/ BackgroundReturns \/ ArchiveCommits \/ ArchiveFails
    \/ Tick \/ DecideSkips \/ BeatRuns \/ Retain \/ BeatEnds \/ Restart

Spec == Init /\ [][Next]_vars

-----------------------------------------------------------------------------
(* What the providers send.                                                *)

\* _strip_image_content
Stripped(t) ==
    IF t.stripped THEN [i \in DOMAIN t.msgs |-> [t.msgs[i] EXCEPT !.content = IF @ = "image" THEN "text" ELSE @]]
    ELSE t.msgs

\* _sanitize_empty_content
Sanitized(ms) ==
    [i \in DOMAIN ms |-> [ms[i] EXCEPT !.content =
        IF @ # "empty" THEN @ ELSE IF ms[i].calls # <<>> THEN "none" ELSE "text"]]

\* OpenAICompatProvider._sanitize_messages and Azure keep roles and order; the 9 characters
\* of _normalize_tool_call_id are taken to be distinct.
OpenAIWire(t) == Sanitized(Stripped(t))

Block(type, id) == [type |-> type, id |-> id]

\* AnthropicProvider._assistant_blocks
AssistantBlocks(m) ==
    LET text == IF m.content \in {"none", "empty"} THEN <<>> ELSE <<Block("text", <<>>)>>
        uses == [i \in DOMAIN m.calls |-> Block("tool_use", m.calls[i])]
    IN  IF text \o uses = <<>> THEN <<Block("no text", <<>>)>> ELSE text \o uses

\* _convert_messages, one message
AnthropicBlocks(m) ==
    IF m.role = "tool" THEN <<Block("tool_result", m.answers)>>
    ELSE IF m.role = "assistant" THEN AssistantBlocks(m)
    ELSE IF m.content = "image" THEN <<Block("image", <<>>), Block("text", <<>>)>>
    ELSE <<Block("text", <<>>)>>

\* Results go to messages of the user, and _merge_consecutive joins what follows one another.
\* Mutant: only tool results are joined.
Mut_ResultsOnly(ms) ==
    LET side(m) == IF m.role = "assistant" THEN "assistant" ELSE "user"
        add(a, m) ==
            IF a # <<>> /\ m.role = "tool" /\ Last(a).role = "user"
            THEN [a EXCEPT ![Len(a)].blocks = @ \o AnthropicBlocks(m)]
            ELSE Append(a, [role |-> side(m), blocks |-> AnthropicBlocks(m)])
    IN  FoldLeft(add, <<>>, ms)
Merged(ms) ==
    LET side(m) == IF m.role = "assistant" THEN "assistant" ELSE "user"
        add(a, m) ==
            IF a # <<>> /\ Last(a).role = side(m)
            THEN [a EXCEPT ![Len(a)].blocks = @ \o AnthropicBlocks(m)]
            ELSE Append(a, [role |-> side(m), blocks |-> AnthropicBlocks(m)])
        walk[i \in 0..Len(ms)] == IF i = 0 THEN <<>> ELSE add(walk[i - 1], ms[i])
    IN  walk[Len(ms)]
AnthropicWire(t) == Merged(Sanitized(Stripped(t)))

\* openai_codex_provider._convert_messages: the items of one message
\* Mutant: a message with a text is not looked at for calls.
Mut_TextOrCalls(m) ==
    IF m.role = "tool" THEN <<Block("output", m.answers)>>
    ELSE IF m.role = "user" THEN <<Block("message", <<>>)>>
    ELSE IF m.content \in {"none", "empty"} THEN [i \in DOMAIN m.calls |-> Block("call", m.calls[i])]
    ELSE <<Block("message", <<>>)>>
CodexItems(m) ==
    CASE m.role = "tool" -> <<Block("output", m.answers)>>
      [] m.role = "user" -> <<Block("message", <<>>)>>
      [] OTHER           -> (IF m.content \in {"none", "empty"} THEN <<>> ELSE <<Block("message", <<>>)>>)
                            \o [i \in DOMAIN m.calls |-> Block("call", m.calls[i])]
CodexWire(t) ==
    LET ms == Stripped(t)
        walk[i \in 0..Len(ms)] == IF i = 0 THEN <<>> ELSE walk[i - 1] \o CodexItems(ms[i])
    IN  walk[Len(ms)]

-----------------------------------------------------------------------------
(* Properties. *)

TypeOK ==
    /\ key \in {"chat", "heartbeat"} /\ session.last \in Nat /\ file.last \in Nat
    /\ \A l \in Lanes : turn[l].pc \in {"idle", "prepare", "model", "tools", "save", "retain"}
    /\ \A l \in Lanes : turn[l].iteration \in 0..MaxIterations /\ turn[l].attempt \in 0..RetryDelays
    /\ job.by \in Lanes \cup {"nobody", "background"} /\ waiting \in 0..MaxTurns
    /\ beat \in {"idle", "deciding", "running", "evaluating"}

\* The turns that call the model.
Asking == {l \in Lanes : turn[l].pc = "model"}

\* Every request is one that the APIs take: the results of an assistant's calls follow it
\* at once, each call has exactly one, and there are no others; a message without calls
\* says something.  However turns of two lanes, consolidation, pruning, errors and restarts
\* interleave, and whatever an earlier version left in the file.
ResultsOf(w, i) == {j \in DOMAIN w : /\ j > i /\ \A k \in (i + 1)..j : w[k].role = "tool"}
OpenAITakes(w) ==
    /\ \A i \in DOMAIN w : w[i].role = "tool" =>
          \E c \in 1..(i - 1) : i \in ResultsOf(w, c) /\ w[i].answers \in Range(w[c].calls)
    /\ \A i \in DOMAIN w : w[i].role = "assistant" =>
          /\ Cardinality(ResultsOf(w, i)) = Len(w[i].calls)
          /\ \A id \in Range(w[i].calls) : \E j \in ResultsOf(w, i) : w[j].answers = id
    /\ \A i \in DOMAIN w : w[i].content \in {"none", "empty"} => w[i].calls # <<>>
RequestIsLegal == \A l \in Asking : OpenAITakes(OpenAIWire(turn[l]))

\* The same for Anthropic: roles alternate, no text is empty, and the uses in one message are
\* those that the next one has results for.
BlockIds(m, type) == {b.id : b \in {c \in Range(m.blocks) : c.type = type}}
AnthropicTakes(w) ==
    \A i \in DOMAIN w :
        /\ i > 1 => w[i].role # w[i - 1].role
        /\ \A b \in Range(w[i].blocks) : b.type # "no text"
        /\ BlockIds(w[i], "tool_use") = IF i < Len(w) THEN BlockIds(w[i + 1], "tool_result") ELSE {}
        /\ i = 1 => BlockIds(w[i], "tool_result") = {}
AnthropicIsLegal == \A l \in Asking : AnthropicTakes(AnthropicWire(turn[l]))

\* The same for Codex: every output has its call before it, every call its output after it.
CodexTakes(w) ==
    \A i \in DOMAIN w :
        /\ w[i].type = "output" => \E j \in 1..(i - 1) : w[j] = Block("call", w[i].id)
        /\ w[i].type = "call" => \E j \in (i + 1)..Len(w) : w[j] = Block("output", w[i].id)
CodexIsLegal == \A l \in Asking : CodexTakes(CodexWire(turn[l]))

\* Whatever the provider, it takes the request.
RequestsAreLegal == RequestIsLegal /\ AnthropicIsLegal /\ CodexIsLegal

\* A turn sees all that was said before it: each message that was in the session when the
\* request was built is in the request or in the memory.  Excepted are messages before the
\* first one of a user (get_history drops them), and what follows a shift, see below.
KeptIsSent ==
    ~ used.shifted =>
        \A l \in Asking : \A i \in DOMAIN session.messages :
            LET m == session.messages[i]
            IN  m.n \in turn[l].seen /\ m.n \notin archived /\ (\E j \in 1..i : j \in UserAt(session.messages))
                    => \E j \in DOMAIN turn[l].msgs : turn[l].msgs[j].n = m.n

\* The messages that last_consolidated skips have been archived ("how many messages have
\* been processed by memory consolidation", session/manager.py:36), also after the
\* heartbeat has pruned the list under the position.  Excepted is pruning while an archive
\* is awaited: the position it then stores belongs to the list of before.
SkippedIsArchived ==
    ~ used.shifted =>
        /\ session.last <= Len(session.messages)
        /\ \A i \in 1..session.last : session.messages[i].n \in archived

\* Types, and nothing of the conversation is forgotten: what a request leaves out, and what
\* the position skips, is in the memory.
NothingForgotten == TypeOK /\ KeptIsSent /\ SkippedIsArchived
=============================================================================
