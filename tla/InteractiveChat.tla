-------------------------- MODULE InteractiveChat ---------------------------
(* `nanobot agent` at the terminal: the prompt, the task that consumes the  *)
(* outbound queue, the renderer of streamed text, and the agent loop behind *)
(* the bus.  A turn may stream, call tools, let the message tool write to   *)
(* the terminal, fail, or be cancelled by a /stop; a subagent's result is a *)
(* turn nobody typed.                                                       *)
EXTENDS Integers, Sequences, FiniteSets, SequencesExt

CONSTANTS
    MaxInputs,      \* bound: lines typed
    MaxParts,       \* bound: deltas, tool calls and sends of a turn
    MaxBackground   \* bound: answers of subagents

ASSUME ChatAssumption == MaxInputs \in Nat /\ MaxParts \in Nat /\ MaxBackground \in Nat

VARIABLES
    prompt,         \* "reading" | "waiting" for the turn | "exited"
    turn_done,      \* the event the prompt waits for
    turn_response,  \* what the turn answered, to be printed by the prompt
    renderer,       \* the StreamRenderer of the latest turn
    inbound,        \* typed lines the loop has not taken: "stop" or a turn
    turns,          \* turn -> its state
    parts,          \* turn -> deltas, tool calls and sends so far
    sent,           \* texts published but not streamed, by turn and number
    outbound,       \* messages the terminal has not consumed
    background,     \* answers of subagents so far
    printed,        \* texts printed, in order
    upset           \* what has happened that upsets the prompt

chat == <<prompt, turn_done, turn_response, renderer, inbound, turns, parts, sent,
          outbound, background, printed, upset>>

Turns == 1..MaxInputs
Packet(kind, turn, n) == [kind |-> kind, turn |-> turn, n |-> n]
Publish(m) == outbound' = Append(outbound, m)
HasContent(m) == m.kind = "plain"
Speaks(turn, n) == Publish(Packet("plain", turn, n)) /\ sent' = sent \cup {<<turn, n>>}

ChatInit ==
    /\ prompt = "reading" /\ turn_done = TRUE /\ turn_response = <<>>
    /\ renderer = [streamed |-> FALSE, live |-> FALSE, spins |-> FALSE]
    /\ inbound = <<>> /\ turns = [t \in Turns |-> "none"] /\ parts = [t \in Turns |-> 0]
    /\ sent = {} /\ outbound = <<>> /\ background = 0 /\ printed = <<>>
    /\ upset = [unasked |-> FALSE, unended |-> FALSE]

agentOnly == <<prompt, turn_done, turn_response, renderer, inbound, background, printed>>
terminalOnly == <<inbound, turns, parts, sent, background, upset>>

-----------------------------------------------------------------------------
(* The agent loop *)

Active(t) == turns[t] \in {"running", "streaming", "tools", "ended", "silent"}

\* The loop answers /stop itself, cancelling whatever of the session is
\* active; anything else becomes a task.
Receive ==
    /\ inbound # <<>> /\ inbound' = Tail(inbound)
    /\ \E t \in {Head(inbound).turn} :
         IF Head(inbound).kind = "stop"
         THEN /\ turns' = [u \in Turns |-> IF u = t THEN "done"
                             ELSE IF turns[u] = "queued" \/ Active(u) THEN "cancelled"
                             ELSE turns[u]]
              /\ Speaks(t, MaxParts + 1)
              /\ upset' = [upset EXCEPT !.unended = @ \/ \E u \in Turns : turns[u] \in {"running", "streaming", "tools"}]
         ELSE /\ turns' = [turns EXCEPT ![t] = "queued"]
              /\ UNCHANGED <<outbound, sent, upset>>
    /\ UNCHANGED <<prompt, turn_done, turn_response, renderer, parts, background, printed>>

\* One turn at a time: the lock of the session, in the order of its waiters.
Begin(t) ==
    /\ turns[t] = "queued" /\ \A u \in Turns : ~Active(u) /\ (u < t => turns[u] # "queued")
    /\ turns' = [turns EXCEPT ![t] = "running"]
    /\ UNCHANGED <<agentOnly, parts, sent, outbound, upset>>

Part(t) == parts[t] < MaxParts /\ parts' = [parts EXCEPT ![t] = @ + 1]

\* A model's answer is awaited, and nothing or something of it was streamed.
Answering(t) == turns[t] \in {"running", "streaming"}

Streams(t) ==
    /\ Answering(t) /\ Part(t)
    /\ turns' = [turns EXCEPT ![t] = "streaming"]
    /\ Publish(Packet("delta", t, parts'[t]))
    /\ UNCHANGED <<agentOnly, sent, upset>>

\* Tool calls end the streamed text, to be resumed, and give a progress line.
CallsTools(t) ==
    /\ Answering(t) /\ Part(t)
    /\ turns' = [turns EXCEPT ![t] = "tools"]
    /\ outbound' = outbound \o <<Packet("resume", t, 0), Packet("progress", t, 0)>>
    /\ UNCHANGED <<agentOnly, sent, upset>>

\* The message tool publishes to the chat the turn came from.
ToolSends(t) ==
    /\ turns[t] = "tools" /\ Part(t)
    /\ Speaks(t, parts'[t])
    /\ upset' = [upset EXCEPT !.unasked = TRUE]
    /\ UNCHANGED <<agentOnly, turns>>

ToolsDone(t) ==
    /\ turns[t] = "tools"
    /\ turns' = [turns EXCEPT ![t] = "running"]
    /\ UNCHANGED <<agentOnly, parts, sent, outbound, upset>>

\* The last answer ends the stream ...
EndsStream(t) ==
    /\ Answering(t)
    /\ turns' = [turns EXCEPT ![t] = IF @ = "streaming" THEN "ended" ELSE "silent"]
    /\ Publish(Packet("end", t, 0))
    /\ UNCHANGED <<agentOnly, parts, sent, upset>>

\* ... and the turn's response follows it, always marked as streamed, or an empty
\* one if the message tool has spoken.  The response repeats the text that was
\* streamed or, if own, is a text of the loop's that nobody streamed: an error of
\* the provider, a phrase for an empty answer, the limit of iterations.
SentInTurn(t) == \E n \in 1..MaxParts : <<t, n>> \in sent
Concludes(t, own) ==
    IF SentInTurn(t) THEN Publish(Packet("empty", t, 0)) /\ UNCHANGED sent
    ELSE /\ Publish(Packet("streamed", t, 0))
         /\ sent' = IF own THEN sent \cup {<<t, 0>>} ELSE sent
Responds(t) ==
    /\ turns[t] \in {"ended", "silent"}
    /\ \E own \in BOOLEAN : (turns[t] = "silent" => own) /\ Concludes(t, own)
    /\ turns' = [turns EXCEPT ![t] = "done"]
    /\ UNCHANGED <<agentOnly, parts, upset>>

\* Out of iterations after a tool call: the stream that was to be resumed never
\* ends, and the loop's own text says so.
GivesUp(t) ==
    /\ turns[t] = "tools"
    /\ turns' = [turns EXCEPT ![t] = "done"] /\ Concludes(t, TRUE)
    /\ upset' = [upset EXCEPT !.unended = TRUE]
    /\ UNCHANGED <<agentOnly, parts>>

\* Mutant of Fails: the exception is only logged.
Mut_Silent(t) ==
    /\ Answering(t)
    /\ turns' = [turns EXCEPT ![t] = "done"]
    /\ UNCHANGED <<agentOnly, parts, sent, outbound, upset>>

\* Mutant of Fails: the error is marked as streamed, as the loop's own answers are.
Mut_Marked(t) ==
    /\ Answering(t)
    /\ turns' = [turns EXCEPT ![t] = "done"]
    /\ Publish(Packet("streamed", t, MaxParts + 1)) /\ sent' = sent \cup {<<t, MaxParts + 1>>}
    /\ UNCHANGED <<agentOnly, parts, upset>>

\* An exception, or a slash command: one plain answer.
Fails(t) ==
    /\ Answering(t)
    /\ turns' = [turns EXCEPT ![t] = "done"]
    /\ Speaks(t, MaxParts + 1)
    /\ UNCHANGED <<agentOnly, parts, upset>>

SubagentAnswers ==
    /\ prompt # "exited" /\ background < MaxBackground
    /\ background' = background + 1
    /\ Speaks(0, background')
    /\ upset' = [upset EXCEPT !.unasked = TRUE]
    /\ UNCHANGED <<prompt, turn_done, turn_response, renderer, inbound, turns, parts, printed>>

TurnStep(t) ==
    \/ Begin(t) \/ Streams(t) \/ CallsTools(t) \/ ToolSends(t) \/ ToolsDone(t)
    \/ EndsStream(t) \/ Responds(t) \/ GivesUp(t) \/ Fails(t)

-----------------------------------------------------------------------------
(* The terminal *)

Fresh == [streamed |-> FALSE, live |-> FALSE, spins |-> TRUE]

\* Mutant of Types: the last response is not cleared.
Mut_KeepsResponse(kind) ==
    /\ prompt = "reading" /\ \E t \in Turns : turns[t] = "none"
    /\ LET t == CHOOSE u \in Turns : turns[u] = "none" /\ \A v \in Turns : v < u => turns[v] # "none" IN
       /\ turns' = [turns EXCEPT ![t] = "typed"]
       /\ inbound' = Append(inbound, Packet(kind, t, 0))
    /\ prompt' = "waiting" /\ turn_done' = FALSE /\ renderer' = Fresh
    /\ UNCHANGED <<turn_response, parts, sent, outbound, background, printed, upset>>

\* A typed line: the event and the last response are cleared before the line
\* is published.
Types(kind) ==
    /\ prompt = "reading" /\ \E t \in Turns : turns[t] = "none"
    /\ LET t == CHOOSE u \in Turns : turns[u] = "none" /\ \A v \in Turns : v < u => turns[v] # "none" IN
       /\ turns' = [turns EXCEPT ![t] = "typed"]
       /\ inbound' = Append(inbound, Packet(kind, t, 0))
    /\ prompt' = "waiting" /\ turn_done' = FALSE /\ turn_response' = <<>> /\ renderer' = Fresh
    /\ UNCHANGED <<parts, sent, outbound, background, printed, upset>>

\* StreamRenderer.on_delta, on_end and close.
OnDelta == renderer' = [streamed |-> TRUE, live |-> TRUE, spins |-> FALSE]
OnEnd(resuming) == renderer' = [renderer EXCEPT !.live = FALSE, !.spins = resuming]
\* Mutant of Closed: close() leaves the display as it is.
Mut_NotClosed == renderer
Closed == [renderer EXCEPT !.live = FALSE, !.spins = FALSE]

Id(m) == <<m.turn, m.n>>

\* Mutant of TakesPlain: every message is kept for the prompt.
Mut_KeepsAll(m) ==
    /\ turn_response' = IF HasContent(m) THEN Append(turn_response, Id(m)) ELSE turn_response
    /\ turn_done' = TRUE /\ UNCHANGED printed

\* A message that is no part of a stream answers the turn that is waited for,
\* whichever turn it is from; it is printed at once when none is.
TakesPlain(m) ==
    IF ~turn_done
    THEN /\ turn_response' = IF HasContent(m) THEN Append(turn_response, Id(m)) ELSE turn_response
         /\ turn_done' = TRUE /\ UNCHANGED printed
    ELSE /\ printed' = IF HasContent(m) THEN Append(printed, Id(m)) ELSE printed
         /\ UNCHANGED <<turn_response, turn_done>>

Consumes ==
    /\ prompt # "exited" /\ outbound # <<>> /\ outbound' = Tail(outbound)
    /\ LET m == Head(outbound) IN
       \/ /\ m.kind = "delta" /\ OnDelta
          /\ UNCHANGED <<turn_done, turn_response, printed>>
       \/ /\ m.kind \in {"end", "resume"} /\ OnEnd(m.kind = "resume")
          /\ UNCHANGED <<turn_done, turn_response, printed>>
       \/ /\ m.kind = "streamed" /\ turn_done' = TRUE
          /\ UNCHANGED <<turn_response, renderer, printed>>
       \/ /\ m.kind = "progress" /\ UNCHANGED <<turn_done, turn_response, renderer, printed>>
       \/ /\ m.kind \in {"plain", "empty"} /\ TakesPlain(m) /\ UNCHANGED renderer
    /\ UNCHANGED <<prompt, terminalOnly>>

\* Mutant of Returns: the prompt does not wait for the event.
Mut_NoWait ==
    /\ prompt = "waiting" /\ prompt' = "reading"
    /\ IF turn_response # <<>>
       THEN renderer' = Closed /\ printed' = Append(printed, Head(turn_response))
       ELSE /\ renderer' = IF renderer.streamed THEN renderer ELSE Closed
            /\ UNCHANGED printed
    /\ UNCHANGED <<turn_done, turn_response, outbound, terminalOnly>>

\* The prompt wakes up, some time after the event was set.
Returns ==
    /\ prompt = "waiting" /\ turn_done /\ prompt' = "reading"
    /\ IF turn_response # <<>>
       THEN renderer' = Closed /\ printed' = Append(printed, Head(turn_response))
       ELSE /\ renderer' = IF renderer.streamed THEN renderer ELSE Closed
            /\ UNCHANGED printed
    /\ UNCHANGED <<turn_done, turn_response, outbound, terminalOnly>>

\* exit, Ctrl+D or a signal: agent_loop.stop(), and the tasks are cancelled.
Exits ==
    /\ prompt # "exited" /\ prompt' = "exited"
    /\ inbound' = <<>> /\ outbound' = <<>>
    /\ turns' = [t \in Turns |-> IF turns[t] = "none" THEN "none" ELSE "cancelled"]
    /\ UNCHANGED <<turn_done, turn_response, renderer, parts, sent, background, printed, upset>>

ChatNext ==
    \/ Receive \/ SubagentAnswers
    \/ \E t \in Turns : TurnStep(t)
    \/ \E kind \in {"turn", "stop"} : Types(kind)
    \/ Consumes \/ Returns \/ Exits

\* The loop, the turns - each ends some day - the consumer and the prompt run.
TurnsEnd == \E t \in Turns : TurnStep(t)
ChatFair == WF_chat(Receive) /\ WF_chat(TurnsEnd) /\ WF_chat(Consumes) /\ WF_chat(Returns)
ChatSpec == ChatInit /\ [][ChatNext]_chat /\ ChatFair

-----------------------------------------------------------------------------
(* Properties *)

ChatTypeOK ==
    /\ prompt \in {"reading", "waiting", "exited"} /\ turn_done \in BOOLEAN
    /\ Len(turn_response) <= 1 /\ sent \subseteq (0..MaxInputs) \X Nat /\ parts \in [Turns -> 0..MaxParts]
    /\ \A k \in DOMAIN outbound : outbound[k].turn \in 0..MaxInputs

\* The answers of a typed turn that the loop itself words.
OwnAnswers == {<<t, 0>> : t \in Turns}

\* No text is printed twice.  A text published for the terminal is on its way,
\* waits for the prompt to print it, or is printed, whatever turn the prompt took
\* it for: so the answers of subagents, of the message tool and of /stop, and the
\* error of a turn that fails.  Excepted are the loop's own answers: they carry a
\* text nobody streamed but are marked as streamed, and the terminal drops them.
Pending == IF prompt = "waiting" THEN Range(turn_response) ELSE {}
PrintedOnce ==
    /\ IsInjective(printed)
    /\ Range(printed) \cap Pending = {}
    /\ prompt # "exited" =>
         \A id \in sent \ OwnAnswers :
            \/ id \in Range(printed) \cup Pending
            \/ \E k \in DOMAIN outbound : Id(outbound[k]) = id /\ HasContent(outbound[k])

\* As long as nobody but the turns themselves writes to the terminal, the
\* prompt returns when its turn has ended and not before: everything the turn
\* published has been consumed.
PromptMeansDone ==
    prompt = "reading" /\ ~upset.unasked =>
        inbound = <<>> /\ outbound = <<>> /\ \A t \in Turns : turns[t] \in {"none", "done", "cancelled"}

\* Neither a spinner nor a live display runs under the prompt.
SpinnerRests ==
    prompt = "reading" /\ ~upset.unasked /\ ~upset.unended => ~renderer.spins /\ ~renderer.live

\* The terminal is sound: types, texts printed once, none lost but the loop's own
\* answers, and a prompt that means what it says.
TerminalIsSound == ChatTypeOK /\ PrintedOnce /\ PromptMeansDone /\ SpinnerRests

\* A typed line is followed by the prompt again: no turn leaves it waiting,
\* whether it streams, fails, is stopped or is spoken for by a tool.
PromptReturns == prompt = "waiting" ~> prompt # "waiting"
=============================================================================
