---------------------------- MODULE ChannelSend ----------------------------
(***************************************************************************)
(* How the channels of nanobot send one whole message: send() of the       *)
(* adapters (channels/*.py) under ChannelManager._send_with_retry.  A      *)
(* message has attachments and a text, which long texts split into chunks; *)
(* an adapter sends these parts one by one, each in one or more ways, and  *)
(* when all ways fail it raises, so that the manager sends all parts       *)
(* again, puts a note in the part's place, or goes on.                     *)
(*                                                                         *)
(* A call of a server's API is done and answered; refused, which some      *)
(* libraries return as a value; or broken, which raises, and then it may   *)
(* have been done.  (Streams are in module Delivery.)                      *)
(* A definition Mut_X is a plausible mistake in the definition it          *)
(* precedes.                                                               *)
(***************************************************************************)
EXTENDS Integers, Sequences, FiniteSets, SequencesExt, FiniteSetsExt

CONSTANTS
    Senders,        \* the adapters to check
    SendMaxRetries, \* channels.send_max_retries: attempts, the first one included
    MaxMedia,       \* bound: attachments
    MaxTexts,       \* bound: chunks of the text
    MaxFailedCalls  \* bound: calls that fail

ASSUME SendAssumption ==
    /\ Senders \subseteq {"telegram", "weixin", "matrix", "email", "mochat", "discord", "feishu", "qq",
                          "wecom", "dingtalk", "slack", "whatsapp"}
    /\ SendMaxRetries \in Nat /\ MaxMedia \in Nat /\ MaxTexts \in Nat /\ MaxFailedCalls \in Nat

VARIABLES
    msg,        \* adapter, number of media and texts, progress (not the final answer),
                \* ready: connected, logged in, knows how to answer this chat
    attempt,    \* of _send_with_retry
    todo,       \* the parts that this attempt has yet to send
    tries,      \* the ways that failed for the first of them
    first,      \* Feishu: first_send
    marks,      \* Matrix, Discord: attachments that failed in this attempt
    outcome,    \* "sending"; then "sent" (send returned), "failed" (the manager gave up)
    shown,      \* what the user sees, in order: media, texts, notes that replace media
    sign,       \* the typing indicator, or Slack's reaction: "on", "off", "done"
    failed      \* bound, ghost: how many calls failed

out == <<msg, attempt, todo, tries, first, marks, outcome, shown, sign, failed>>

Media(i) == [kind |-> "media", n |-> i]
Chunk(i) == [kind |-> "text", n |-> i]
Note(i)  == [kind |-> "note", n |-> i]

Medias == [i \in 1 .. msg.media |-> Media(i)]
Texts  == [i \in 1 .. msg.texts |-> Chunk(i)]
\* Adapters that do not split a text send it in one.
Text   == IF msg.texts > 0 THEN <<Chunk(1)>> ELSE <<>>

-----------------------------------------------------------------------------
(* The adapters: the order of the parts; per kind, in how many ways a part *)
(* is tried, and what comes after the last: for a refusal and for a broken *)
(* call.                                                                   *)

Reacts(ways, refused, broken) == [ways |-> ways, refused |-> refused, broken |-> broken]
Same(ways, does) == Reacts(ways, does, does)

\* A note for a failed attachment is sent once; a text as HTML, then plainly.
Mut_NoNotes ==
    [parts |-> Medias \o Texts, media |-> Same(1, "skip"), note |-> Same(1, "raise"), text |-> Same(2, "raise")]
TelegramSend ==
    [parts |-> Medias \o Texts, media |-> Same(1, "note"), note |-> Same(1, "raise"), text |-> Same(2, "raise")]

\* _send_text logs an error code and returns.
WeixinSend ==
    [parts |-> Medias \o Texts, media |-> Same(1, "note"), note |-> Reacts(1, "skip", "raise"),
     text |-> Reacts(1, "skip", "raise")]

QQSend ==
    [parts |-> Medias \o Text, media |-> Same(1, "note"), note |-> Same(1, "raise"), text |-> Same(1, "raise")]

\* An attachment that cannot be uploaded (Missing), or whose message is broken, is marked in
\* the text; the library returns refused messages as values, which _send_room_content ignores.
MatrixSend ==
    [parts |-> Medias \o Text, media |-> Reacts(1, "skip", "mark"), note |-> Reacts(1, "skip", "raise"),
     text |-> Reacts(1, "skip", "raise")]

Mut_GoesOn ==
    [parts |-> Medias \o Texts, media |-> Same(3, "mark"), note |-> Same(3, "skip"), text |-> Same(3, "skip")]
\* _send_payload and _send_file try three times and return False; a failed chunk ends the
\* message, failed attachments are named only when there is nothing else.
DiscordSend ==
    [parts |-> Medias \o Texts, media |-> Same(3, "mark"), note |-> Same(3, "stop"), text |-> Same(3, "stop")]

\* The first part is a reply, and a plain message when that fails; failures are logged.
FeishuSend ==
    [parts |-> Medias \o Texts, media |-> Same(2, "skip"), note |-> Same(1, "skip"), text |-> Same(2, "skip")]

\* The text first; an image by its URL, by upload, as a file.
DingtalkSend ==
    [parts |-> Text \o Medias, media |-> Same(3, "note"), note |-> Same(1, "skip"), text |-> Same(1, "skip")]

SlackSend ==
    [parts |-> Text \o Medias, media |-> Same(1, "skip"), note |-> Same(1, "skip"), text |-> Same(1, "raise")]

WecomSend ==
    [parts |-> Text, media |-> Same(1, "skip"), note |-> Same(1, "skip"), text |-> Same(1, "raise")]

EmailSend ==
    [parts |-> Text, media |-> Same(1, "skip"), note |-> Same(1, "skip"), text |-> Same(1, "raise")]

\* Attachments are lines of the one text.
MochatSend ==
    [parts |-> <<Chunk(1)>>, media |-> Same(1, "skip"), note |-> Same(1, "skip"), text |-> Same(1, "raise")]

\* The bridge's refusals come back later, as messages that are logged.
WhatsAppSend ==
    [parts |-> Text \o Medias, media |-> Reacts(1, "skip", "raise"), note |-> Same(1, "skip"),
     text |-> Reacts(1, "skip", "raise")]

Send ==
    CASE msg.adapter = "telegram" -> TelegramSend
      [] msg.adapter = "weixin"   -> WeixinSend
      [] msg.adapter = "qq"       -> QQSend
      [] msg.adapter = "matrix"   -> MatrixSend
      [] msg.adapter = "discord"  -> DiscordSend
      [] msg.adapter = "feishu"   -> FeishuSend
      [] msg.adapter = "dingtalk" -> DingtalkSend
      [] msg.adapter = "slack"    -> SlackSend
      [] msg.adapter = "wecom"    -> WecomSend
      [] msg.adapter = "email"    -> EmailSend
      [] msg.adapter = "mochat"   -> MochatSend
      [] msg.adapter = "whatsapp" -> WhatsAppSend

\* Feishu replies with the first part that it sends, and sends that plainly if it must.
Ways(p) == IF msg.adapter = "feishu" /\ ~first THEN 1 ELSE Send[p.kind].ways

\* What a part shows: Matrix marks failed attachments in the text; Chunk(0) has nothing else.
Shows(p) ==
    (IF p.n = 0 THEN <<>> ELSE <<p>>)
    \o (IF p.n = 0 \/ (msg.adapter = "matrix" /\ p.kind = "text") THEN SetToSeq({Note(i) : i \in marks}) ELSE <<>>)

\* Without a text, Matrix sends the marks, and Discord when no attachment could be sent.
Rest(marked) ==
    IF Tail(todo) = <<>> /\ Head(todo).kind = "media" /\ msg.texts = 0 /\ marked # {}
       /\ (msg.adapter = "matrix" \/ (msg.adapter = "discord" /\ Cardinality(marked) = msg.media))
    THEN <<Chunk(0)>> ELSE Tail(todo)

-----------------------------------------------------------------------------
(* Steps. *)

\* Telegram's typing ends before the first part; that of Matrix and Discord in a finally.
SignAtStart == IF msg.adapter = "telegram" /\ ~msg.progress THEN "off" ELSE sign
Mut_NoFinally(raised) ==
    CASE msg.adapter = "discord" -> "off"
      [] msg.adapter = "matrix" /\ ~msg.progress /\ ~raised -> "off"
      [] msg.adapter = "slack" /\ ~msg.progress /\ ~raised -> "done"
      [] OTHER -> sign
SignAtEnd(raised) ==
    CASE msg.adapter = "discord" -> "off"
      [] msg.adapter = "matrix" /\ ~msg.progress -> "off"
      [] msg.adapter = "slack" /\ ~msg.progress /\ ~raised -> "done"
      [] OTHER -> sign

Start == outcome = "sending" /\ todo = <<[kind |-> "begin", n |-> 0]>>
Busy  == outcome = "sending" /\ todo # <<>> /\ Head(todo).kind # "begin"

\* Not connected, no token, no consent, nobody to answer to: a warning and a return.
NotReady ==
    /\ Start /\ ~msg.ready
    /\ outcome' = "sent" /\ todo' = <<>>
    /\ UNCHANGED <<msg, attempt, tries, first, marks, shown, sign, failed>>

\* An attempt of _send_with_retry: all parts, from the first.
Begins ==
    /\ Start /\ msg.ready
    /\ attempt' = attempt + 1
    /\ todo' = Send.parts /\ tries' = 0 /\ first' = TRUE /\ marks' = {}
    /\ sign' = SignAtStart
    /\ UNCHANGED <<msg, outcome, shown, failed>>

Succeeds ==
    /\ Busy
    /\ shown' = shown \o Shows(Head(todo))
    /\ todo' = Rest(marks) /\ tries' = 0 /\ first' = FALSE
    /\ UNCHANGED <<msg, attempt, marks, outcome, sign, failed>>

Mut_OneMoreTime ==
    /\ sign' = SignAtEnd(TRUE)
    /\ IF attempt > SendMaxRetries
       THEN outcome' = "failed" /\ todo' = <<>>
       ELSE outcome' = outcome /\ todo' = <<[kind |-> "begin", n |-> 0]>>
\* The exception reaches _send_with_retry, which sleeps and tries again or gives up.
Mut_GivesUpEarly ==
    /\ sign' = SignAtEnd(TRUE)
    /\ IF attempt + 1 >= SendMaxRetries
       THEN outcome' = "failed" /\ todo' = <<>>
       ELSE outcome' = outcome /\ todo' = <<[kind |-> "begin", n |-> 0]>>
Raises ==
    /\ sign' = SignAtEnd(TRUE)
    /\ IF attempt >= SendMaxRetries
       THEN outcome' = "failed" /\ todo' = <<>>
       ELSE outcome' = outcome /\ todo' = <<[kind |-> "begin", n |-> 0]>>

GoesOn(parts) == todo' = parts /\ UNCHANGED <<outcome, sign>>

\* All ways of a part failed.
Reaction(p, does) ==
    /\ marks' = IF does = "mark" THEN marks \cup {p.n} ELSE marks
    /\ \/ does = "raise" /\ Raises
       \/ does = "skip"  /\ GoesOn(Tail(todo))
       \/ does = "stop"  /\ GoesOn(<<>>)
       \/ does = "note"  /\ GoesOn(<<Note(p.n)>> \o Tail(todo))
       \/ does = "mark"  /\ GoesOn(Rest(marks'))

\* done: the call had its effect all the same.
CallFails(how, done) ==
    /\ Busy /\ failed < MaxFailedCalls /\ (done => how = "broken")
    /\ failed' = failed + 1 /\ first' = FALSE
    /\ LET p == Head(todo)
       IN  /\ shown' = IF done THEN shown \o Shows(p) ELSE shown
           /\ IF tries + 1 < Ways(p)
              THEN tries' = tries + 1 /\ UNCHANGED <<todo, marks, outcome, sign>>
              ELSE tries' = 0 /\ Reaction(p, Send[p.kind][how])
    /\ UNCHANGED <<msg, attempt>>

\* The file is not there, too large, or cannot be uploaded: nothing is sent.  The WhatsApp
\* adapter only passes its name on.
Missing ==
    /\ Busy /\ Head(todo).kind = "media" /\ tries = 0 /\ msg.adapter # "whatsapp" /\ failed < MaxFailedCalls
    /\ failed' = failed + 1
    /\ Reaction(Head(todo), Send.media.broken)
    /\ UNCHANGED <<msg, attempt, tries, first, shown>>

Returns ==
    /\ outcome = "sending" /\ todo = <<>>
    /\ outcome' = "sent" /\ sign' = SignAtEnd(FALSE)
    /\ UNCHANGED <<msg, attempt, todo, tries, first, marks, shown, failed>>

SendInit ==
    /\ msg \in [adapter : Senders, media : 0 .. MaxMedia, texts : 0 .. MaxTexts,
                progress : BOOLEAN, ready : BOOLEAN]
    /\ msg.media + msg.texts > 0
    /\ attempt = 0 /\ todo = <<[kind |-> "begin", n |-> 0]>> /\ tries = 0 /\ first = TRUE /\ marks = {}
    /\ outcome = "sending" /\ shown = <<>> /\ sign = "on" /\ failed = 0

SendNext ==
    \/ NotReady \/ Begins \/ Succeeds \/ Missing \/ Returns
    \/ \E how \in {"refused", "broken"}, done \in BOOLEAN : CallFails(how, done)

SendSpec == SendInit /\ [][SendNext]_out

-----------------------------------------------------------------------------
(* Properties. *)

Seen(p) == Contains(shown, p)
MediaIsTold(i) == Seen(Media(i)) \/ Seen(Note(i))

\* Everything has its type; no more attempts are made than configured.
SendTypeOK ==
    /\ attempt \in 0 .. Max({1, SendMaxRetries}) /\ tries \in 0 .. 2
    /\ outcome \in {"sending", "sent", "failed"} /\ sign \in {"on", "off", "done"}
    /\ marks \subseteq 1 .. msg.media
    /\ (outcome # "sending" => todo = <<>>)

\* What send() reports as sent is seen by the user: every chunk, and every attachment or
\* a note that it failed.  ("Implementations should raise on delivery failure", base.py;
\* these adapters do.)
SentIsShown ==
    outcome = "sent" /\ msg.ready =>
        /\ msg.adapter \in {"telegram", "qq", "slack", "wecom", "email", "mochat"} => \A i \in DOMAIN Send.parts :
               Send.parts[i].kind = "text" => Seen(Send.parts[i])
        /\ msg.adapter \in {"telegram", "qq"} => \A i \in 1 .. msg.media : MediaIsTold(i)

\* The text of an answer survives so many failed calls: fewer than the attempts times the
\* ways of one part.
RetriesMend ==
    LET attempts == Max({1, SendMaxRetries})
        enough == CASE msg.adapter = "telegram" -> 2 * attempts
                    [] msg.adapter \in {"slack", "wecom", "email", "mochat"} -> attempts
                    [] msg.adapter = "qq" -> attempts
                    [] msg.adapter \in {"discord"} -> 3
                    [] OTHER -> 0
    IN  outcome # "sending" /\ msg.ready /\ failed < enough =>
            outcome = "sent" /\ \A i \in DOMAIN Send.parts : Send.parts[i].kind = "text" => Seen(Send.parts[i])

\* A text is read from its beginning: no chunk comes before the one that precedes it has
\* been shown, in whichever attempt.
ChunksFollow ==
    msg.adapter \in {"telegram", "discord"} =>
        \A i \in DOMAIN shown : shown[i].kind = "text" /\ shown[i].n > 1 =>
            \E j \in 1 .. (i - 1) : shown[j] = Chunk(shown[i].n - 1)

\* When the manager is through with an answer, however that ended, no typing indicator is
\* left on; Slack's reaction says "done" only when the text is there.
SignIsTrue ==
    /\ outcome # "sending" /\ msg.ready /\ ~msg.progress /\ msg.adapter \in {"telegram", "matrix", "discord"} =>
           sign = "off"
    /\ sign = "done" => outcome = "sent" /\ \A i \in DOMAIN Send.parts : Send.parts[i].kind = "text" => Seen(Send.parts[i])

\* Sending is sound: types, what is seen when send returns, what survives failed calls,
\* in which order, and what the indicator says at the end.
SendingIsSound == SendTypeOK /\ SentIsShown /\ RetriesMend /\ ChunksFollow /\ SignIsTrue

=============================================================================
