--------------------------- MODULE ChannelReceive ---------------------------
(***************************************************************************)
(* How the channels of nanobot take messages from their servers            *)
(* (channels/*.py): one chat of one adapter.  Some adapters ask for what   *)
(* follows a cursor (WeChat, Matrix, Telegram, Mochat), for unread mail,   *)
(* or for the latest messages of a panel; others are pushed events.  They  *)
(* drop messages of senders that are not allowed and messages that they    *)
(* remember, may hold messages back to join them into one turn, and put    *)
(* the rest on the bus.  Servers send again; connections break; the        *)
(* process restarts.                                                       *)
(*                                                                         *)
(* An adapter's handler is a sequence of steps (below); what its steps do  *)
(* is the same for all of them.  Contents, downloads and metadata are left *)
(* out: a failed download becomes a note in the content.                   *)
(* A definition Mut_X is a plausible mistake in the definition it          *)
(* precedes.                                                               *)
(***************************************************************************)
EXTENDS Integers, Sequences, FiniteSets, SequencesExt, FiniteSetsExt

CONSTANTS
    Adapters,       \* those to check, of AllAdapters
    CacheSize,      \* how many message ids an adapter remembers
    PanelLimit,     \* mochat.watch_limit, for panels
    MaxMessages,    \* bound: messages that users write
    MaxUnwanted,    \* bound: messages among them that are not for the bot
    MaxPushes,      \* bound: how often a server pushes a message
    MaxNotifies,    \* bound: how often Mochat notifies of a message
    MaxFailures,    \* bound: IMAP connections that break, messages that cannot be fetched
    MaxRestarts     \* bound: restarts of the process

Messages == 1 .. MaxMessages

AllAdapters == {"telegram", "weixin", "matrix", "email", "session", "panel",
                "discord", "feishu", "qq", "wecom", "dingtalk", "slack", "whatsapp"}

ASSUME ReceiveAssumption ==
    /\ Adapters \subseteq AllAdapters
    /\ CacheSize \in Nat \ {0} /\ PanelLimit \in Nat \ {0} /\ CacheSize >= PanelLimit
    /\ MaxMessages \in Nat /\ MaxUnwanted \in Nat /\ MaxPushes \in Nat \ {0} /\ MaxNotifies \in Nat /\ MaxFailures \in Nat /\ MaxRestarts \in Nat

VARIABLES
    conf,       \* adapter; resumes: the cursor survives a restart; knowsBot and open (Slack);
                \* kind of every message
    posted,     \* how many messages users wrote
    pushes,     \* how often the server pushed each
    flagged,    \* the mails marked \Seen
    link,       \* the connection that events are pushed over
    inbox,      \* deliveries that the adapter has taken and not begun to handle
    handlers,   \* handlers that run: delivery and the steps that remain
    seen,       \* the ids that the adapter remembers, oldest first
    cursor,     \* how far it has asked, in memory
    saved,      \*   and on disk; -1 when a session is not in the file
    cold,       \* Mochat: session in _cold_sessions
    flight,     \* Mochat: answers on their way, as intervals
    fetch,      \* Email: _fetch_messages
    held,       \* Telegram: the album buffer; Mochat: the delayed entries.  Their timer runs.
    bus,        \* what was put on the bus: turns, each a sequence of messages
    used        \* counters of the bounds; ghosts, see below

vars == <<conf, posted, pushes, flagged, link, inbox, handlers, seen, cursor, saved, cold, flight,
          fetch, held, bus, used>>
server == <<conf, posted, pushes, flagged, link>>
state == <<seen, cursor, saved, cold, flight, fetch>>

adapter == conf.adapter
\* Slack's policy "mention" wants nothing else in a channel.
Wanted(m) == conf.kind[m] # "unwanted" /\ (adapter = "slack" /\ ~conf.open => conf.kind[m] = "mention")
Upto(a, b) == [i \in 1 .. (b - a) |-> a + i]        \* a + 1 .. b, in order
Drop(s, k) == SubSeq(s, k + 1, Len(s))
\* Those of s that are in a set, in their order.
Those(s, set) ==
    LET walk[i \in 0 .. Len(s)] ==
            IF i = 0 THEN <<>> ELSE IF s[i] \in set THEN Append(walk[i - 1], s[i]) ELSE walk[i - 1]
    IN  walk[Len(s)]

-----------------------------------------------------------------------------
(* The adapters.                                                           *)

\* One event loop that handles a message to its end before it takes the next.
OneByOne == {"telegram", "weixin", "matrix", "email", "discord", "whatsapp"}
Pushed   == {"discord", "feishu", "qq", "wecom", "dingtalk", "slack", "whatsapp"}
\* Those with _processed_ids or the like; the others trust the server to push once.
Remembers == {"weixin", "feishu", "qq", "wecom", "whatsapp", "email", "session", "panel"}
\* What is sent while the connection is down does not come later: Discord is identified
\* anew instead of resumed, the WhatsApp bridge broadcasts to whom is connected.
Transient == {"discord", "whatsapp"}

\* Each step lasts from one await (a download, a reaction) to the next.
\* "remember": drop what is remembered, remember the rest; "allow", "group": drop what
\* the allow list or the group policy rejects; "album": hold back pictures of an album;
\* "twice": of two events for a mention, drop one; "publish": _handle_message, which has
\* the allow list again.
TelegramSteps == <<{"group"}, {"album"}, {"publish"}>>
WeixinSteps   == <<{"remember"}, {"publish"}>>
MatrixSteps   == <<{"allow", "group"}, {"publish"}>>
EmailSteps    == <<{"publish"}>>
DiscordSteps  == <<{"allow", "group"}, {"publish"}>>
FeishuSteps   == <<{"remember", "group"}, {"publish"}>>
QQSteps       == <<{"remember"}, {"publish"}>>
WecomSteps    == <<{"remember"}, {"publish"}>>
DingtalkSteps == <<{}, {"publish"}>>
SlackSteps    == <<{"twice", "allow", "group"}, {"publish"}>>
WhatsAppSteps == <<{"remember", "group", "publish"}>>

Steps ==
    CASE adapter = "telegram" -> TelegramSteps
      [] adapter = "weixin"   -> WeixinSteps
      [] adapter = "matrix"   -> MatrixSteps
      [] adapter = "email"    -> EmailSteps
      [] adapter = "discord"  -> DiscordSteps
      [] adapter = "feishu"   -> FeishuSteps
      [] adapter = "qq"       -> QQSteps
      [] adapter = "wecom"    -> WecomSteps
      [] adapter = "dingtalk" -> DingtalkSteps
      [] adapter = "slack"    -> SlackSteps
      [] adapter = "whatsapp" -> WhatsAppSteps

KindsOf(a) == {"plain", "unwanted"} \cup (IF a = "telegram" THEN {"album"} ELSE {})
                                    \cup (IF a \in {"slack", "panel"} THEN {"mention"} ELSE {})

Mut_OneMore(s, m) == IF Len(s) <= CacheSize THEN Append(s, m) ELSE Append(Tail(s), m)
Remember(s, m) == IF Len(s) < CacheSize THEN Append(s, m) ELSE Append(Tail(s), m)

-----------------------------------------------------------------------------
(* Ghosts: used.lost, the messages that got lost in a way that is known    *)
(* (each place says why); used.again, those that may come twice: forgotten *)
(* by the adapter while the server may still send them.                    *)

Lose(set)  == [used EXCEPT !.lost = @ \cup set]
Repeat(set) == [used EXCEPT !.again = @ \cup set]
Forgotten(new) == ToSet(seen) \ ToSet(new)

-----------------------------------------------------------------------------
(* The users and the servers.                                              *)

\* Over a connection that is down, some servers send nothing, now or later.
Posts ==
    /\ posted < MaxMessages
    /\ posted' = posted + 1
    /\ used' = IF adapter \in Transient /\ link = "down" THEN Lose({posted + 1}) ELSE used
    /\ UNCHANGED <<conf, pushes, flagged, link, inbox, handlers, state, held, bus>>

LinkChanges ==
    /\ adapter \in Transient
    /\ used.links < 2
    /\ link' = IF link = "up" THEN "down" ELSE "up"
    /\ used' = [used EXCEPT !.links = @ + 1]
    /\ UNCHANGED <<conf, posted, pushes, flagged, inbox, handlers, state, held, bus>>

\* Slack sends two events for a mention in a channel.
Events(m) == IF adapter = "slack" /\ conf.kind[m] = "mention"
             THEN <<[m |-> m, event |-> "message"], [m |-> m, event |-> "app_mention"]>>
             ELSE <<[m |-> m, event |-> "message"]>>

\* A server sends again what it takes for lost; to an adapter that does not remember, once.
Push(m) ==
    /\ adapter \in Pushed /\ link = "up" /\ m <= posted /\ m \notin used.lost
    /\ pushes[m] < IF adapter \in Remembers THEN MaxPushes ELSE 1
    /\ adapter \in OneByOne => \A k \in 1 .. (m - 1) : pushes[k] > 0 \/ k \in used.lost
    /\ pushes' = [pushes EXCEPT ![m] = @ + 1]
    /\ inbox' = inbox \o Events(m)
    /\ UNCHANGED <<conf, posted, flagged, link, handlers, state, held, bus, used>>

-----------------------------------------------------------------------------
(* Handlers.                                                               *)

\* Without the bot's own id (auth_test failed), Slack's adapter cannot tell that a message
\* is a mention, which comes as an app_mention too; the policy "mention" rejects it all the same.
Rejected(step, d) ==
    \/ step \cap {"allow", "group", "publish"} # {} /\ ~Wanted(d.m)
    \/ "group" \in step /\ adapter = "slack" /\ d.event = "message" /\ ~conf.open
    \/ "twice" \in step /\ conf.knowsBot /\ conf.kind[d.m] = "mention" /\ d.event = "message"

IsHeld(step, d) == "album" \in step /\ conf.kind[d.m] = "album"

\* The first of the steps: the handler goes on with the others unless the delivery is
\* known, rejected, held back or published.
Do(d, steps, others) ==
    LET step  == Head(steps)
        known == "remember" \in step /\ Contains(seen, d.m)
        taken == ~known /\ ~Rejected(step, d)
        new   == IF "remember" \in step /\ ~known THEN Remember(seen, d.m) ELSE seen
    IN  /\ seen' = new /\ used' = Repeat(Forgotten(new))
        /\ held' = IF IsHeld(step, d) THEN Append(held, d.m) ELSE held
        /\ bus' = IF taken /\ "publish" \in step THEN Append(bus, <<d.m>>) ELSE bus
        /\ handlers' = others \cup IF taken /\ ~IsHeld(step, d) /\ "publish" \notin step
                                   THEN {[d |-> d, rest |-> Tail(steps)]} ELSE {}

Mut_SideBySide ==
    /\ inbox # <<>>
    /\ inbox' = Tail(inbox)
    /\ Do(Head(inbox), Steps, handlers)
    /\ UNCHANGED <<server, cursor, saved, cold, flight, fetch>>

\* Feishu schedules a coroutine for every event; the SDKs of QQ, WeCom, DingTalk and
\* Slack may run handlers side by side.
Begin ==
    /\ inbox # <<>> /\ (adapter \in OneByOne => handlers = {})
    /\ inbox' = Tail(inbox)
    /\ Do(Head(inbox), Steps, handlers)
    /\ UNCHANGED <<server, cursor, saved, cold, flight, fetch>>

Step(h) ==
    /\ Do(h.d, h.rest, handlers \ {h})
    /\ UNCHANGED <<server, inbox, cursor, saved, cold, flight, fetch>>

Mut_Lone ==
    /\ Len(held) > 1
    /\ bus' = Append(bus, held)
    /\ held' = <<>>
    /\ UNCHANGED <<server, inbox, handlers, state, used>>

\* _flush_media_group, 0.6 s after the album's first picture; _delay_flush_after.
Flush ==
    /\ held # <<>>
    /\ bus' = Append(bus, held)
    /\ held' = <<>>
    /\ UNCHANGED <<server, inbox, handlers, state, used>>

-----------------------------------------------------------------------------
(* WeChat, Matrix, Telegram: ask for what follows the cursor.              *)

Idle == inbox = <<>> /\ handlers = {}
Taken == [i \in 1 .. (posted - cursor) |-> [m |-> cursor + i, event |-> "message"]]

\* _poll_once saves the cursor before it handles a message.
WeixinPoll ==
    /\ adapter = "weixin" /\ Idle /\ posted > cursor
    /\ inbox' = Taken
    /\ cursor' = posted /\ saved' = posted
    /\ UNCHANGED <<server, handlers, seen, cold, flight, fetch, held, bus, used>>

\* The library keeps the sync token, before or after it has called the adapter; with
\* device_id only.
MatrixSync ==
    /\ adapter = "matrix" /\ Idle /\ posted > cursor
    /\ inbox' = Taken
    /\ cursor' = posted
    /\ saved' \in {saved} \cup (IF conf.resumes THEN {posted} ELSE {})
    /\ UNCHANGED <<server, handlers, seen, cold, flight, fetch, held, bus, used>>

MatrixStored ==
    /\ adapter = "matrix" /\ Idle /\ conf.resumes /\ saved < cursor
    /\ saved' = cursor
    /\ UNCHANGED <<server, inbox, handlers, seen, cursor, cold, flight, fetch, held, bus, used>>

\* The library confirms updates when it asks for the next ones.
TelegramUpdates ==
    /\ adapter = "telegram" /\ posted > cursor
    /\ inbox' = inbox \o Taken
    /\ cursor' = posted
    /\ UNCHANGED <<server, handlers, seen, saved, cold, flight, fetch, held, bus, used>>

-----------------------------------------------------------------------------
(* Email: _fetch_messages searches unread mail in a thread, retries once   *)
(* when the connection went stale, and hands over what it has.             *)

NoFetch == [on |-> "no", todo |-> <<>>, list |-> <<>>, mark |-> 0]
Unread == Those(Upto(0, posted), Messages \ flagged)

\* on: "first" or "second" attempt.
EmailSearch ==
    /\ adapter = "email" /\ Idle /\ fetch.on = "no" /\ Unread # <<>>
    /\ fetch' = [NoFetch EXCEPT !.on = "first", !.todo = Unread]
    /\ UNCHANGED <<server, inbox, handlers, seen, cursor, saved, cold, flight, held, bus, used>>

\* _processed_uids forgets any half when it is full.
Halves(s) == {Those(s, kept) : kept \in kSubset(Len(s) - Len(s) \div 2, ToSet(s))}
Processed(s, m) == IF Len(s) < CacheSize THEN {Append(s, m)} ELSE Halves(Append(s, m))

\* cycle_uids has the mails of this cycle, _processed_uids those of earlier ones.
InCycle == ToSet(fetch.list)

EmailFetchOne ==
    /\ fetch.todo # <<>> /\ fetch.mark = 0
    /\ LET m == Head(fetch.todo)
       IN  IF m \in InCycle \/ Contains(seen, m)
           THEN /\ fetch' = [fetch EXCEPT !.todo = Tail(@)]
                /\ UNCHANGED <<seen, used>>
           ELSE /\ fetch' = [fetch EXCEPT !.todo = Tail(@), !.list = Append(@, m), !.mark = m]
                /\ seen' \in Processed(seen, m)
                /\ used' = Repeat((ToSet(seen) \cup {m}) \ (ToSet(seen') \cup flagged))
    /\ UNCHANGED <<server, inbox, handlers, cursor, saved, cold, flight, held, bus>>

\* A mail that cannot be fetched is left for the next cycle.
EmailSkips ==
    /\ fetch.todo # <<>> /\ fetch.mark = 0 /\ used.failures < MaxFailures
    /\ fetch' = [fetch EXCEPT !.todo = Tail(@)]
    /\ used' = [used EXCEPT !.failures = @ + 1, !.late = @ \cup {Head(fetch.todo)}]
    /\ UNCHANGED <<server, inbox, handlers, seen, cursor, saved, cold, flight, held, bus>>

EmailMark ==
    /\ fetch.mark # 0
    /\ flagged' = flagged \cup {fetch.mark}
    /\ fetch' = [fetch EXCEPT !.mark = 0]
    /\ UNCHANGED <<conf, posted, pushes, link, inbox, handlers, seen, cursor, saved, cold, flight, held, bus, used>>

Mut_Anew ==
    /\ fetch.on = "first" /\ used.failures < MaxFailures
    /\ fetch' = [NoFetch EXCEPT !.on = "second", !.todo = Unread]
    /\ used' = [used EXCEPT !.failures = @ + 1]
    /\ UNCHANGED <<server, inbox, handlers, seen, cursor, saved, cold, flight, held, bus>>

EmailGoesStale ==
    /\ fetch.on = "first" /\ used.failures < MaxFailures
    /\ fetch' = [fetch EXCEPT !.on = "second", !.todo = Unread, !.mark = 0]
    /\ used' = [used EXCEPT !.failures = @ + 1]
    /\ UNCHANGED <<server, inbox, handlers, seen, cursor, saved, cold, flight, held, bus>>

\* Any other error, or the second: the list is dropped with the exception, although its
\* mails are in _processed_uids and most are marked.  Known loss.
EmailBreaks ==
    /\ fetch.on # "no" /\ used.failures < MaxFailures
    /\ fetch' = NoFetch
    /\ used' = [Lose(ToSet(fetch.list)) EXCEPT !.failures = @ + 1]
    /\ UNCHANGED <<server, inbox, handlers, seen, cursor, saved, cold, flight, held, bus>>

EmailHandsOver ==
    /\ fetch.on # "no" /\ fetch.todo = <<>> /\ fetch.mark = 0
    /\ inbox' = [i \in DOMAIN fetch.list |-> [m |-> fetch.list[i], event |-> "message"]]
    /\ fetch' = NoFetch
    /\ UNCHANGED <<server, handlers, seen, cursor, saved, cold, flight, held, bus, used>>

-----------------------------------------------------------------------------
(* Mochat.  Answers of the watch or the poll worker, events of the socket  *)
(* and notifications tell of the same messages, and may overtake each      *)
(* other.  Handling one never waits.                                       *)

TakeDirect(acc, m)  == [acc EXCEPT !.bus = Append(@, <<m>>)]
\* reply_delay_mode "non-mention": a mention takes the delayed entries along.
Mut_MentionAlone(acc, m) ==
    IF conf.kind[m] = "mention" THEN [acc EXCEPT !.bus = Append(@, <<m>>), !.held = <<>>]
    ELSE [acc EXCEPT !.held = Append(@, m)]
TakeDelayed(acc, m) ==
    IF conf.kind[m] = "mention" THEN [acc EXCEPT !.bus = Append(@, acc.held \o <<m>>), !.held = <<>>]
    ELSE [acc EXCEPT !.held = Append(@, m)]

\* _process_inbound_event
Mut_NoMemory(acc, m) ==
    IF ~Wanted(m) THEN acc
    ELSE LET kept == Remember(acc.seen, m)
             new == [acc EXCEPT !.seen = kept, !.forgotten = @ \cup (ToSet(acc.seen) \ ToSet(kept))]
         IN  IF adapter = "panel" THEN TakeDelayed(new, m) ELSE TakeDirect(new, m)
ProcessEvent(acc, m) ==
    IF ~Wanted(m) \/ Contains(acc.seen, m) THEN acc
    ELSE LET kept == Remember(acc.seen, m)
             new == [acc EXCEPT !.seen = kept, !.forgotten = @ \cup (ToSet(acc.seen) \ ToSet(kept))]
         IN  IF adapter = "panel" THEN TakeDelayed(new, m) ELSE TakeDirect(new, m)

ProcessAll(events) ==
    LET walk[i \in 0 .. Len(events)] ==
            IF i = 0 THEN [seen |-> seen, held |-> held, bus |-> bus, forgotten |-> {}]
            ELSE ProcessEvent(walk[i - 1], events[i])
        r == walk[Len(events)]
    IN  /\ seen' = r.seen /\ held' = r.held /\ bus' = r.bus
        /\ used' = Repeat(r.forgotten)

\* The server answers: a watch from the cursor (the worker's, and the socket's), a poll
\* with the latest messages.
Answers ==
    /\ Cardinality(flight) < CASE adapter = "session" -> 2 [] adapter = "panel" -> 1 [] OTHER -> 0
    /\ LET from == IF adapter = "session" THEN cursor ELSE Max({0, posted - PanelLimit})
       IN  /\ from < posted \/ cold
           /\ flight' = flight \cup {[from |-> from, to |-> posted]}
    /\ UNCHANGED <<server, inbox, handlers, seen, cursor, saved, cold, fetch, held, bus, used>>

\* _handle_watch_payload.  The first answer about a session without a cursor is taken for
\* history (known loss).
SessionPayload(p) ==
    /\ adapter = "session" /\ p \in flight
    /\ flight' = flight \ {p}
    /\ cursor' = Max({cursor, p.to})
    /\ cold' = FALSE
    /\ IF cold
       THEN /\ used' = Lose(ToSet(Upto(p.from, p.to)))
            /\ UNCHANGED <<seen, held, bus>>
       ELSE ProcessAll(Upto(p.from, p.to))
    /\ UNCHANGED <<server, inbox, handlers, saved, fetch>>

\* _panel_poll_worker
PanelPayload(p) ==
    /\ adapter = "panel" /\ p \in flight
    /\ flight' = flight \ {p}
    /\ ProcessAll(Upto(p.from, p.to))
    /\ UNCHANGED <<server, inbox, handlers, cursor, saved, cold, fetch>>

\* notify:chat.inbox.append, notify:chat.message.*
Notify(m) ==
    /\ adapter \in {"session", "panel"} /\ m <= posted /\ pushes[m] < MaxNotifies
    /\ pushes' = [pushes EXCEPT ![m] = @ + 1]
    /\ ProcessAll(<<m>>)
    /\ UNCHANGED <<conf, posted, flagged, link, inbox, handlers, cursor, saved, cold, flight, fetch>>

\* _save_cursor_debounced
SaveCursors ==
    /\ adapter = "session" /\ ~cold /\ saved < cursor
    /\ saved' = cursor
    /\ UNCHANGED <<server, inbox, handlers, seen, cursor, cold, flight, fetch, held, bus, used>>

-----------------------------------------------------------------------------
(* A restart: memory is lost.  Telegram drops pending updates ("Ignore old *)
(* messages on startup"); without the state file WeChat begins anew.       *)

InHand(m) ==
    \/ \E i \in DOMAIN inbox : inbox[i].m = m
    \/ \E h \in handlers : h.d.m = m
    \/ Contains(held, m) \/ Contains(fetch.list, m)
Times(m) == Cardinality({i \in DOMAIN bus : Contains(bus[i], m)})

\* Whether the server sends m to a new process, or may send if it pushes.
ComesAgain(m, s) ==
    CASE adapter = "telegram" -> FALSE
      [] adapter = "weixin"   -> ~conf.resumes \/ m > s
      [] adapter = "matrix"   -> m > s
      [] adapter = "session"  -> m > s \/ pushes[m] < MaxNotifies
      [] adapter = "email"    -> m \notin flagged
      [] adapter = "panel"    -> TRUE
      [] adapter \in Pushed   -> pushes[m] < IF adapter \in Remembers THEN MaxPushes ELSE 1

TelegramBegins  == posted
WeixinBegins(s) == IF conf.resumes THEN s ELSE 0
MochatBegins(s) == Max({0, s})

\* stop() saves Mochat's cursors and WeChat's, which is saved already.
Restart(graceful) ==
    /\ used.restarts < MaxRestarts /\ (graceful => adapter = "session")
    /\ LET s == IF graceful /\ adapter = "session" /\ ~cold THEN cursor ELSE saved
           known == 1 .. posted
           doubtful == {m \in known : ComesAgain(m, s)}
       IN  /\ saved' = s
           /\ cursor' = CASE adapter = "telegram" -> TelegramBegins
                          [] adapter = "weixin"   -> WeixinBegins(s)
                          [] OTHER                -> MochatBegins(s)
           /\ cold' = (s = -1)
           /\ used' = [used EXCEPT !.restarts = @ + 1,
                           !.again = @ \cup {m \in doubtful : Times(m) > 0 \/ Contains(seen, m)},
                           !.lost = @ \cup {m \in known : Times(m) = 0 /\
                               (adapter = "telegram" \/ (InHand(m) /\ (m \notin doubtful \/ adapter \in Pushed)))}]
    /\ inbox' = <<>> /\ handlers' = {} /\ seen' = <<>> /\ flight' = {} /\ fetch' = NoFetch /\ held' = <<>>
    /\ link' = "up"
    /\ UNCHANGED <<conf, posted, pushes, flagged, bus>>

-----------------------------------------------------------------------------

Init ==
    /\ conf \in UNION {[adapter : {a}, kind : [Messages -> KindsOf(a)],
                        resumes : IF a \in {"weixin", "matrix"} THEN BOOLEAN ELSE {TRUE},
                        knowsBot : IF a = "slack" THEN BOOLEAN ELSE {TRUE},
                        open : IF a = "slack" THEN BOOLEAN ELSE {TRUE}] : a \in Adapters}
    /\ Cardinality({m \in Messages : conf.kind[m] = "unwanted"}) <= MaxUnwanted
    /\ posted = 0 /\ pushes = [m \in Messages |-> 0] /\ flagged = {} /\ link = "up"
    /\ inbox = <<>> /\ handlers = {} /\ seen = <<>> /\ cursor = 0
    /\ saved = IF adapter = "session" THEN -1 ELSE 0
    /\ cold = (adapter = "session")
    /\ flight = {} /\ fetch = NoFetch /\ held = <<>> /\ bus = <<>>
    /\ used = [failures |-> 0, restarts |-> 0, links |-> 0, lost |-> {}, again |-> {}, late |-> {}]

Handles == Begin \/ (\E h \in handlers : Step(h)) \/ Flush
Asks == WeixinPoll \/ MatrixSync \/ MatrixStored \/ TelegramUpdates \/ EmailSearch \/ Answers
Fetches == EmailFetchOne \/ EmailMark \/ EmailHandsOver

Next ==
    \/ Posts \/ LinkChanges
    \/ \E m \in Messages : Push(m) \/ Notify(m)
    \/ Handles \/ Asks \/ Fetches
    \/ EmailSkips \/ EmailGoesStale \/ EmailBreaks
    \/ \E p \in flight : SessionPayload(p) \/ PanelPayload(p)
    \/ SaveCursors
    \/ \E graceful \in BOOLEAN : Restart(graceful)

Spec == Init /\ [][Next]_vars

\* The event loop runs what is ready, timers fire, the polling loops poll again.
FairSpec == Spec /\ WF_vars(Handles) /\ WF_vars(Asks) /\ WF_vars(Fetches)

-----------------------------------------------------------------------------
(* Properties.                                                             *)

\* Everything has its type; no more ids are remembered than the cache holds.
TypeOK ==
    /\ posted \in 0 .. MaxMessages /\ pushes \in [Messages -> Nat] /\ flagged \subseteq 1 .. posted
    /\ link \in {"up", "down"} /\ cold \in BOOLEAN
    /\ \A i \in DOMAIN inbox : inbox[i].m \in 1 .. posted
    /\ \A h \in handlers : h.d.m \in 1 .. posted /\ h.rest # <<>> /\ \E k \in 1 .. 2 : h.rest = Drop(Steps, k)
    /\ ToSet(seen) \subseteq 1 .. posted /\ Len(seen) <= CacheSize /\ IsInjective(seen)
    /\ cursor \in 0 .. posted /\ saved \in -1 .. posted
    /\ \A p \in flight : 0 <= p.from /\ p.from <= p.to /\ p.to <= posted
    /\ ToSet(fetch.todo) \cup ToSet(fetch.list) \subseteq 1 .. posted
    /\ ToSet(held) \subseteq 1 .. posted
    /\ \A i \in DOMAIN bus : bus[i] # <<>> /\ ToSet(bus[i]) \subseteq {m \in 1 .. posted : Wanted(m)}

\* Whether m is still to come to this process.
StillComes(m) ==
    CASE adapter \in {"telegram", "weixin", "matrix"} -> m > cursor
      [] adapter = "email"   -> m \notin flagged /\ ~Contains(seen, m)
      [] adapter = "session" -> m > cursor
      [] adapter = "panel"   -> TRUE
      [] adapter \in Pushed  -> pushes[m] = 0

\* A message of an allowed sender that the server has handed over, or that the adapter
\* told the server it has (a cursor, a flag, an acknowledgement), is on the bus or on its
\* way there, whatever was sent again, retried, remembered or saved meanwhile.  Known
\* losses are those of used.lost.
NothingLost ==
    \A m \in 1 .. posted : Wanted(m) => Times(m) > 0 \/ InHand(m) \/ StillComes(m) \/ m \in used.lost

\* Mochat's panel has no cursor: what the adapter remembers of it was forwarded or waits
\* for the timer or a mention.
DelayedIsKept ==
    adapter = "panel" => \A m \in ToSet(seen) : Times(m) > 0 \/ Contains(held, m)

\* Types, and every message that the adapter has taken is kept.
TakenIsKept == TypeOK /\ NothingLost /\ DelayedIsKept

\* No message makes two turns, although servers send again, several sources tell of it,
\* and a mail is searched for twice; except when the adapter forgot it, and when Slack's
\* adapter does not know the bot and answers everyone.
AtMostOnce ==
    \A m \in Messages : \/ Times(m) <= 1 \/ m \in used.again
                        \/ adapter = "slack" /\ ~conf.knowsBot /\ conf.open

\* A chat's messages come in the order in which they were written, from the adapters that
\* handle them one by one; an album waits for its pictures, and a mail that could not be
\* fetched comes later.
OrderKept ==
    LET free(m) == conf.kind[m] # "album" /\ m \notin used.again \cup used.late
    IN  adapter \in OneByOne =>
            \A i, j \in DOMAIN bus : \A x \in DOMAIN bus[i], y \in DOMAIN bus[j] :
                (i < j \/ (i = j /\ x < y)) /\ free(bus[i][x]) /\ free(bus[j][y]) => bus[i][x] < bus[j][y]

\* The bus gets the messages of a chat once and in their order.
OnceInOrder == AtMostOnce /\ OrderKept

\* What an adapter has taken reaches the bus: buffers are flushed, mails handed over.
TakenIsHandled ==
    \A m \in Messages : (InHand(m) /\ Wanted(m)) ~> (Times(m) > 0 \/ StillComes(m) \/ m \in used.lost)
=============================================================================
