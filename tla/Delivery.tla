------------------------------ MODULE Delivery ------------------------------
(***************************************************************************)
(* How an answer of nanobot reaches a chat: turns publish it on the bus    *)
(* (agent/runner.py, agent/loop.py), in one piece or as a stream; the one  *)
(* dispatcher of ChannelManager coalesces and sends it with retries        *)
(* (channels/manager.py); the Telegram channel turns it into messages that *)
(* it edits as the stream grows (channels/telegram.py).                    *)
(*                                                                         *)
(* All of it shares one event loop: a step lasts from one await to the     *)
(* next, and publishing never waits (the queues are unbounded).            *)
(*                                                                         *)
(* A text is a sequence of tokens.  A call of the Telegram API may time    *)
(* out, before or after it had its effect, or be refused.                  *)
(* A definition Mut_X is a plausible mistake in the definition it          *)
(* precedes.                                                               *)
(***************************************************************************)
EXTENDS Integers, Sequences, FiniteSets, SequencesExt

CONSTANTS
    Sessions,       \* the dispatch keys: turns of one session follow one another
    Streaming,      \* those whose messages come from a user of a streaming channel
    Chats,
    ChatOf,         \* the chat of a session; topics of one group share it
    Reachable,      \* the chats of enabled channels
    SendMaxRetries, \* channels.send_max_retries
    ApiTries,       \* _SEND_MAX_RETRIES of telegram.py
    SendProgress, SendToolHints,    \* channels.send_progress, send_tool_hints
    MaxMessages,    \* bound: inbound messages
    MaxDeltas,      \* bound: tokens of a turn
    MaxIterations,  \* agents.defaults.max_tool_iterations
    MaxFailures,    \* bound: calls of the API that fail
    MaxQueue        \* bound: messages in the queue when a turn publishes

ASSUME DeliveryAssumption ==
    /\ Streaming \subseteq Sessions /\ ChatOf \in [Sessions -> Chats] /\ Reachable \subseteq Chats
    /\ \A s \in Streaming : ChatOf[s] \in Reachable     \* the channel that streams is enabled
    /\ SendMaxRetries \in Nat /\ ApiTries \in Nat \ {0}
    /\ MaxMessages \in Nat /\ MaxDeltas \in Nat /\ MaxIterations \in Nat \ {0} /\ MaxFailures \in Nat
    /\ MaxQueue \in Nat

VARIABLES
    inbound,    \* messages that wait for the session's lock
    turn,       \* the turn of every session
    tool,       \* the one MessageTool: its context and _sent_in_turn
    queue,      \* MessageBus.outbound
    pending,    \* the dispatcher's buffer
    hand,       \* what the dispatcher is sending
    buf,        \* TelegramChannel._stream_bufs
    shown,      \* what the users see
    typing,     \* TelegramChannel._typing_tasks
    used        \* how much of the bounds is used up; ghosts, see below

vars == <<inbound, turn, tool, queue, pending, hand, buf, shown, typing, used>>
agent == <<inbound, turn, tool>>

-----------------------------------------------------------------------------
(* Data. *)

\* stream: <<session, turn, segment>>; whole (ghost): for an end, all that was streamed in
\* its segment; for a streamed answer, its text and the segment that should show it.
NoStream == <<>>
Msg(kind, s, c) ==
    [kind |-> kind, from |-> s, chat |-> c, stream |-> NoStream, text |-> <<>>, streamed |-> "no", whole |-> <<>>]

\* said: the answer so far; streamed: the tokens published in this segment.
IdleTurn(n) == [pc |-> "idle", n |-> n, segment |-> 0, said |-> <<>>, streamed |-> <<>>, deltas |-> 0, tools |-> 0]

\* A text that does not come from the model's stream.
OurText == <<0>>

NoBuf  == [stream |-> NoStream, text |-> <<>>, id |-> 0]
NoHand == [pc |-> "idle", msg |-> Msg("none", "none", "none"), attempt |-> 0, op |-> "none", fallback |-> "no", tries |-> 0]

Streams(s) == s \in Streaming
StreamId(s) == <<s, turn[s].n, turn[s].segment>>
Publish(msgs) == Len(queue) < MaxQueue /\ queue' = queue \o msgs

\* Ghosts.  clash: two streams of one chat were open at a time.  muted: an answer was not
\* handed to the channel.  lost: the streams of which a delta was given up after all attempts.
OpenIn(c) == {s \in Streaming : ChatOf[s] = c /\ turn[s].pc \in {"model", "tools", "reply"}}

-----------------------------------------------------------------------------
(* A message comes in: TelegramChannel._on_message, MessageBus.inbound.  A *)
(* session that does not stream stands for system and cron messages.       *)

MessageArrives(s) ==
    /\ used.messages < MaxMessages
    /\ used' = [used EXCEPT !.messages = @ + 1]
    /\ inbound' = [inbound EXCEPT ![s] = @ + 1]
    /\ typing' = IF Streams(s) THEN [typing EXCEPT ![ChatOf[s]] = "on"] ELSE typing
    /\ UNCHANGED <<turn, tool, queue, pending, hand, buf, shown>>

\* _dispatch has the session's lock; start_turn and _set_tool_context.
TurnStarts(s) ==
    /\ turn[s].pc = "idle" /\ inbound[s] > 0
    /\ inbound' = [inbound EXCEPT ![s] = @ - 1]
    /\ turn' = [turn EXCEPT ![s] = [IdleTurn(turn[s].n + 1) EXCEPT !.pc = "model"]]
    /\ tool' = [chat |-> ChatOf[s], sent |-> "no"]
    /\ used' = [used EXCEPT !.clash = IF Streams(s) /\ OpenIn(ChatOf[s]) # {} THEN "yes" ELSE @]
    /\ UNCHANGED <<queue, pending, hand, buf, shown, typing>>

-----------------------------------------------------------------------------
(* AgentRunner.run, with the callbacks of _dispatch.                       *)

\* on_stream
Delta(s) ==
    /\ turn[s].pc = "model" /\ Streams(s) /\ turn[s].deltas < MaxDeltas
    /\ LET token == turn[s].deltas + 1
       IN  /\ turn' = [turn EXCEPT ![s].deltas = token, ![s].said = Append(@, token),
                                   ![s].streamed = Append(@, token)]
           /\ Publish(<<[Msg("delta", s, ChatOf[s]) EXCEPT !.stream = StreamId(s), !.text = <<token>>]>>)
    /\ UNCHANGED <<inbound, tool, pending, hand, buf, shown, typing, used>>

\* chat_stream_with_retry: the model is asked again from the start; what was streamed stays.
ProviderRetries(s) ==
    /\ turn[s].pc = "model" /\ turn[s].said # <<>>
    /\ turn' = [turn EXCEPT ![s].said = <<>>]
    /\ UNCHANGED <<inbound, tool, queue, pending, hand, buf, shown, typing, used>>

\* on_stream_end: one more segment begins.
NextSegment(s, t) == [t EXCEPT !.segment = @ + 1, !.said = <<>>, !.streamed = <<>>]
StreamEnd(s) ==
    IF Streams(s) THEN <<[Msg("end", s, ChatOf[s]) EXCEPT !.stream = StreamId(s), !.whole = turn[s].streamed]>>
    ELSE <<>>

\* The response calls tools: on_stream_end, and the progress of before_execute_tools.
ToolCalls(s) ==
    /\ turn[s].pc = "model"
    /\ Publish(StreamEnd(s) \o (IF Streams(s) THEN <<>> ELSE <<Msg("progress", s, ChatOf[s])>>)
               \o <<Msg("hint", s, ChatOf[s])>>)
    /\ turn' = [turn EXCEPT ![s] =
                    [NextSegment(s, turn[s]) EXCEPT !.pc = "tools", !.tools = turn[s].tools + 1]]
    /\ tool' = [tool EXCEPT !.chat = ChatOf[s]]
    /\ UNCHANGED <<inbound, pending, hand, buf, shown, typing, used>>

\* After the last iteration the answer says so; nothing of it is streamed.
AfterTools(s) ==
    turn' = [turn EXCEPT ![s] = IF @.tools < MaxIterations THEN [@ EXCEPT !.pc = "model"]
                                ELSE [@ EXCEPT !.pc = "reply", !.said = OurText]]

ToolsReturn(s) ==
    /\ turn[s].pc = "tools"
    /\ AfterTools(s)
    /\ UNCHANGED <<inbound, tool, queue, pending, hand, buf, shown, typing, used>>

\* One of them is MessageTool.execute.
SendsMessage(s, c) ==
    /\ turn[s].pc = "tools"
    /\ AfterTools(s)
    /\ Publish(<<[Msg("reply", s, c) EXCEPT !.text = OurText]>>)
    /\ tool' = IF c = tool.chat THEN [tool EXCEPT !.sent = "yes"] ELSE tool
    /\ UNCHANGED <<inbound, pending, hand, buf, shown, typing, used>>

\* The answer is complete; instead of an empty one there is a text of ours.
ModelAnswers(s) ==
    /\ turn[s].pc = "model"
    /\ Publish(StreamEnd(s))
    /\ turn' = [turn EXCEPT ![s].pc = "reply", ![s].said =
                    IF @ # <<>> THEN @ ELSE OurText]
    /\ UNCHANGED <<inbound, tool, pending, hand, buf, shown, typing, used>>

\* finish_reason = "error"
ModelFails(s) ==
    /\ turn[s].pc = "model"
    /\ Publish(StreamEnd(s))
    /\ turn' = [turn EXCEPT ![s].pc = "reply", ![s].said = OurText]
    /\ UNCHANGED <<inbound, tool, pending, hand, buf, shown, typing, used>>

\* The text of an answer of the model, and not one of ours.
IsStreamed(text) == text # OurText

\* The turn has been saved.  After a message of the message tool there is no answer.
Reply(s) ==
    /\ turn[s].pc = "reply"
    /\ IF tool.sent = "yes" THEN UNCHANGED queue
       ELSE Publish(<<[Msg("reply", s, ChatOf[s]) EXCEPT
                !.text = turn[s].said, !.whole = StreamId(s),
                                                   !.streamed = IF Streams(s) THEN "yes" ELSE "no"]>>)
    /\ turn' = [turn EXCEPT ![s] = IdleTurn(@.n)]
    /\ used' = [used EXCEPT !.muted = IF tool.sent = "yes" \/ (Streams(s) /\ ~ IsStreamed(turn[s].said))
                                       THEN "yes" ELSE @]
    /\ UNCHANGED <<inbound, tool, pending, hand, buf, shown, typing>>

\* _dispatch: an exception of the turn; or /stop, whose reply says so.  No stream end.
TurnBreaksOff(s) ==
    /\ turn[s].pc # "idle"
    /\ turn' = [turn EXCEPT ![s] = IdleTurn(@.n)]
    /\ Publish(<<[Msg("reply", s, ChatOf[s]) EXCEPT !.text = OurText]>>)
    /\ UNCHANGED <<inbound, tool, pending, hand, buf, shown, typing, used>>

-----------------------------------------------------------------------------
(* The channel begins to send message m: what TelegramChannel.send and     *)
(* send_delta do before the API is called.  Sent: nothing (more) to do.    *)

Filtered(m) == (m.kind = "hint" /\ ~ SendToolHints) \/ (m.kind = "progress" /\ ~ SendProgress)

Call(m, n, op, fallback) ==
    hand' = [pc |-> "call", msg |-> m, attempt |-> n, op |-> op, fallback |-> fallback, tries |-> 0]
Sent == hand' = NoHand

\* The buffer of the chat with the delta added; that of another stream is replaced.
\* Mutant: the buffer is known by the chat alone.
Mut_ByChat(m) ==
    [stream |-> m.stream, text |-> buf[m.chat].text \o m.text, id |-> buf[m.chat].id]
BufWith(m) ==
    LET b == IF buf[m.chat].stream \in {NoStream, m.stream} THEN buf[m.chat] ELSE NoBuf
    IN  [stream |-> m.stream, text |-> b.text \o m.text, id |-> b.id]

\* Not more often than every _STREAM_EDIT_INTERVAL.
SendDelta(m, n) ==
    LET b == BufWith(m)
    IN  /\ buf' = [buf EXCEPT ![m.chat] = b]
        /\ IF b.id = 0 THEN Call(m, n, "send", "no")
           ELSE Call(m, n, "edit", "no") \/ Sent
        /\ UNCHANGED typing

\* Mutant: a streamed answer does not stop the indicator.
Mut_KeepsTyping(m, n) ==
    /\ IF buf[m.chat].id # 0 /\ buf[m.chat].stream = m.stream
       THEN Call(m, n, "edit", "plain") ELSE Sent
    /\ UNCHANGED <<buf, typing>>
SendEnd(m, n) ==
    /\ IF buf[m.chat].id # 0 /\ buf[m.chat].stream = m.stream
       THEN typing' = [typing EXCEPT ![m.chat] = "off"] /\ Call(m, n, "edit", "plain")
       ELSE UNCHANGED typing /\ Sent
    /\ UNCHANGED buf

SendWhole(m, n) ==
    /\ IF m.streamed = "yes" THEN UNCHANGED typing /\ Sent
       ELSE /\ typing' = IF m.kind = "reply" THEN [typing EXCEPT ![m.chat] = "off"] ELSE typing
            /\ Call(m, n, "send", "plain")
    /\ UNCHANGED buf

\* ChannelManager._send_once
SendOnce(m, n) ==
    CASE m.kind = "delta" -> SendDelta(m, n)
      [] m.kind = "end"   -> SendEnd(m, n)
      [] OTHER            -> SendWhole(m, n)

-----------------------------------------------------------------------------
(* ChannelManager._dispatch_outbound.                                      *)

\* The channel of the message, if there is one, sends it.
HandOver(m) ==
    IF m.chat \in Reachable THEN SendOnce(m, 1) ELSE Sent /\ UNCHANGED <<buf, typing>>

\* How many messages at the front of rest are deltas for the chat of m.
RunOf(m, rest) ==
    LET Joins(j) == rest[j].kind = "delta" /\ rest[j].chat = m.chat
    IN  CHOOSE k \in 0..Len(rest) :
            /\ \A j \in 1..k : Joins(j)
            /\ k < Len(rest) => ~ Joins(k + 1)

After(rest, k) == IF k < Len(rest) THEN <<rest[k + 1]>> ELSE <<>>

\* _coalesce_stream_deltas: the run is merged, the message after it becomes pending.
\* Mutant: the message that ends the run is forgotten.
Mut_Forgets(m, rest) ==
    LET k == RunOf(m, rest)
    IN  /\ pending' = <<>>
        /\ queue' = SubSeq(rest, k + 2, Len(rest))
        /\ HandOver([m EXCEPT !.text = FoldLeft(LAMBDA t, q : t \o q.text, @, SubSeq(rest, 1, k))])
Coalesce(m, rest) ==
    LET k == RunOf(m, rest)
    IN  /\ pending' = After(rest, k)
        /\ queue' = SubSeq(rest, k + 2, Len(rest))
        /\ HandOver([m EXCEPT !.text = FoldLeft(LAMBDA t, q : t \o q.text, @, SubSeq(rest, 1, k))])

\* What is pending comes before what is in the queue.
\* Mutant: the dispatcher waits for the queue even if something is pending.
Mut_QueueFirst == queue
Ready == pending \o queue

Take ==
    /\ hand.pc = "idle" /\ Ready # <<>>
    /\ LET m == Head(Ready)
       IN  IF m.kind = "delta" THEN Coalesce(m, Tail(Ready))
           ELSE /\ pending' = <<>>
                /\ queue' = Tail(Ready)
                /\ IF Filtered(m) THEN Sent /\ UNCHANGED <<buf, typing>> ELSE HandOver(m)
    /\ UNCHANGED <<agent, shown, used>>

-----------------------------------------------------------------------------
(* The call of the Telegram API, and what follows when it raises.          *)

\* The messages of a segment are listed; other texts matter to no property.
Effect ==
    LET c == hand.msg.chat
    IN  IF hand.msg.stream = NoStream THEN shown
        ELSE IF hand.op = "send"
             THEN [shown EXCEPT ![c] = Append(@, [stream |-> buf[c].stream, text |-> buf[c].text])]
             ELSE [shown EXCEPT ![c][buf[c].id].text = buf[c].text]

\* The message id is kept for the edits; after the last one the buffer is dropped.
BufAfter ==
    LET c == hand.msg.chat
    IN  CASE hand.msg.kind = "end" -> [buf EXCEPT ![c] = NoBuf]
          [] hand.msg.kind = "delta" /\ hand.op = "send" -> [buf EXCEPT ![c].id = Len(shown[c]) + 1]
          [] OTHER -> buf

\* "message is not modified" counts as success.
CallSucceeds ==
    /\ hand.pc = "call"
    /\ shown' = Effect /\ buf' = BufAfter
    /\ Sent
    /\ UNCHANGED <<agent, queue, pending, typing, used>>

Attempts == IF SendMaxRetries > 1 THEN SendMaxRetries ELSE 1

\* The formatted text is tried again as plain text; then it is up to _send_with_retry.
\* Mutant: one attempt too many.
Mut_OneMore ==
    hand' = IF hand.fallback = "plain" THEN [hand EXCEPT !.fallback = "no", !.tries = 0]
            ELSE IF hand.attempt <= Attempts THEN [NoHand EXCEPT !.pc = "backoff", !.msg = hand.msg, !.attempt = hand.attempt]
            ELSE NoHand
Raised ==
    hand' = IF hand.fallback = "plain" THEN [hand EXCEPT !.fallback = "no", !.tries = 0]
            ELSE IF hand.attempt < Attempts THEN [NoHand EXCEPT !.pc = "backoff", !.msg = hand.msg, !.attempt = hand.attempt]
            ELSE NoHand

Fails ==
    /\ hand.pc = "call" /\ used.failures < MaxFailures
    /\ UNCHANGED <<agent, queue, pending, buf, typing>>

\* The failure is counted; the dispatcher may have given up.
Counted ==
    used' = [used EXCEPT !.failures = @ + 1,
                         !.lost = IF hand.msg.kind = "delta" /\ hand'.pc = "idle"
                                  THEN @ \cup {hand.msg.stream} ELSE @]

\* _call_with_retry calls again; the call that timed out may have had its effect.
TimesOut ==
    /\ Fails
    /\ shown' \in {shown, Effect}
    /\ IF hand.tries + 1 < ApiTries THEN hand' = [hand EXCEPT !.tries = @ + 1] ELSE Raised
    /\ Counted

Refused ==
    /\ Fails
    /\ Raised
    /\ Counted
    /\ UNCHANGED shown

\* The delay is over: _send_once, with the same message.
\* Mutant: a message is given up after its first failure.
Mut_NoRetry ==
    /\ hand.pc = "backoff"
    /\ Sent
    /\ UNCHANGED <<agent, queue, pending, buf, shown, typing, used>>
SendAgain ==
    /\ hand.pc = "backoff"
    /\ SendOnce(hand.msg, hand.attempt + 1)
    /\ UNCHANGED <<agent, queue, pending, shown, used>>

\* The gateway stops: stop_all cancels the dispatcher and stops the channels; the process
\* ends, and what is queued is lost.
StopAll ==
    /\ hand.pc # "stopped"
    /\ hand' = [NoHand EXCEPT !.pc = "stopped"]
    /\ turn' = [s \in Sessions |-> IdleTurn(turn[s].n)]
    /\ inbound' = [s \in Sessions |-> 0]
    /\ queue' = <<>> /\ pending' = <<>>
    /\ buf' = [c \in Chats |-> NoBuf] /\ typing' = [c \in Chats |-> "off"]
    /\ UNCHANGED <<tool, shown, used>>

-----------------------------------------------------------------------------
Init ==
    /\ inbound = [s \in Sessions |-> 0]
    /\ turn = [s \in Sessions |-> IdleTurn(0)]
    /\ tool = [chat |-> "none", sent |-> "no"]
    /\ queue = <<>> /\ pending = <<>>
    /\ hand = NoHand
    /\ buf = [c \in Chats |-> NoBuf]
    /\ shown = [c \in Chats |-> <<>>]
    /\ typing = [c \in Chats |-> "off"]
    /\ used = [messages |-> 0, failures |-> 0, clash |-> "no", muted |-> "no", lost |-> {}]

Turn(s) ==
    \/ Delta(s) \/ ProviderRetries(s) \/ ToolCalls(s) \/ ToolsReturn(s)
    \/ \E c \in Chats : SendsMessage(s, c)
    \/ ModelAnswers(s) \/ ModelFails(s) \/ Reply(s) \/ TurnBreaksOff(s)

Dispatch == Take \/ CallSucceeds \/ TimesOut \/ Refused \/ SendAgain

Next ==
    \/ hand.pc # "stopped" /\ \E s \in Sessions : MessageArrives(s) \/ TurnStarts(s) \/ Turn(s)
    \/ Dispatch \/ StopAll

Spec == Init /\ [][Next]_vars

\* The dispatcher's task goes on: calls end, delays pass.
FairSpec == Spec /\ WF_vars(Dispatch)

-----------------------------------------------------------------------------
(* Properties. *)

TypeOK ==
    /\ \A s \in Sessions : inbound[s] \in 0..MaxMessages /\ turn[s].pc \in {"idle", "model", "tools", "reply"}
    /\ Len(pending) <= 1
    /\ hand.pc \in {"idle", "call", "backoff", "stopped"} /\ hand.attempt \in 0..Attempts
    /\ \A c \in Chats : buf[c].id \in 0..Len(shown[c])

\* All that the chat shows of a segment.
TextOf(c, stream) ==
    FoldLeft(LAMBDA t, q : IF q.stream = stream THEN t \o q.text ELSE t, <<>>, shown[c])

\* t is u without some of its tokens.
IsPart(t, u) ==
    \E at \in [DOMAIN t -> DOMAIN u] :
        /\ \A i \in DOMAIN t : u[at[i]] = t[i]
        /\ \A i, j \in DOMAIN t : i < j => at[i] < at[j]

\* The end m of a segment is handed to the channel for the last time.
EndIsDone(m) ==
    \/ Take /\ Ready # <<>> /\ m = Head(Ready) /\ hand'.pc = "idle"
    \/ CallSucceeds /\ m = hand.msg

\* When its end has been handed over, a segment is shown completely, once and in order,
\* however its tokens were coalesced and its edits throttled.  Should calls fail, a token
\* may appear twice (send_delta adds it again when it is retried), and a segment may be
\* missing only if a delta of it was given up after all attempts: as long as its first
\* message has no id, the end sends nothing (send_delta).  If the end has its edit, nothing
\* is missing in any case; of an end that is given up itself nothing is said.
\* Excepted are chats in which two streams were open at a time: their deltas are merged
\* (_coalesce_stream_deltas) and they share a buffer.
SegmentIsShown ==
    [][\A m \in {hand.msg} \cup Range(After(Ready, 0)) :
          m.kind = "end" /\ EndIsDone(m) /\ used.clash = "no" =>
              /\ used.failures = 0 => TextOf(m.chat, m.stream)' = m.whole
              /\ m.stream \notin used.lost \/ CallSucceeds => IsPart(m.whole, TextOf(m.chat, m.stream)')]_vars

\* An answer marked _streamed is not sent: its text has been shown as the last segment of
\* its turn, also if the provider began the answer again.  Texts of the loop itself, which
\* nobody streamed, are excepted; see StreamedWasSent.
AnswerIsShown ==
    [][Take /\ used.failures = 0 /\ used.clash = "no" =>
          LET m == Head(Ready)
          IN  m.streamed = "yes" /\ IsStreamed(m.text) => IsPart(m.text, TextOf(m.chat, m.whole))]_vars

\* "_streamed means message was already sent via send_delta" (test_channel_plugins.py:497),
\* whatever the answer is.
StreamedWasSent ==
    [][Take /\ used.failures = 0 /\ used.clash = "no" =>
          LET m == Head(Ready)
          IN  m.streamed = "yes" => IsPart(m.text, TextOf(m.chat, m.whole))]_vars

\* What the model streams is on the screen when its turn is over: every segment, and the
\* answer that is not sent because it was streamed.
StreamIsShown == SegmentIsShown /\ AnswerIsShown

Handed == hand.pc = "idle" /\ pending = <<>> /\ queue = <<>>

Quiet ==
    /\ Handed
    /\ \A s \in Sessions : inbound[s] = 0 /\ turn[s].pc = "idle"

\* The "typing" indicator does not outlive the work: its task loops until somebody stops
\* it, so every way a turn may end has to.  Excepted are failures of the API and answers
\* that the channel was never given.
TypingStops ==
    Quiet /\ used.failures = 0 /\ used.muted = "no" => \A c \in Chats : typing[c] = "off"

\* Types, and an indicator that is true when the system is quiet.
ChatsAreSound == TypeOK /\ TypingStops

\* Whatever calls fail, the dispatcher gets to the end of what was published.
Drains == <>[](hand.pc = "stopped" \/ Handed)
=============================================================================
