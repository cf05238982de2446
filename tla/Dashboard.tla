----------------------------- MODULE Dashboard -----------------------------
(***************************************************************************)
(* How a run of nanobot's agent gets to the dashboard: the trace of a turn *)
(* is written by _trace_run (agent/loop.py) and ObservabilityHook          *)
(* (observability/hook.py), each write in a thread of its own; after it,   *)
(* an event without content is put in the bounded queue of the page's      *)
(* subscription (observability/events.py), sent over a WebSocket           *)
(* (api/dashboard.py), and makes the page read the store again             *)
(* (dashboard/src/components/LiveUpdates.tsx, pages/Runs.tsx).             *)
(*                                                                         *)
(* A step lasts from one await to the next; threads commit at any time.  A *)
(* turn is cancelled at most once, at any await (/stop, a timer that is    *)
(* armed again).  All views of the page are one.  Contents of events,      *)
(* times and counts of tokens are left out.                                *)
(* A definition Mut_X is a plausible mistake in the definition it          *)
(* precedes.                                                               *)
(***************************************************************************)
EXTENDS Integers, Sequences, FiniteSets

CONSTANTS
    RunIds,           \* the turns that are traced
    QueueSize,      \* of a subscription
    MaxIterations,  \* of each turn
    MaxWriteErrors, \* bound: writes that fail (locked for 3 s, disk)
    MaxStops,       \* bound: turns that are cancelled
    MaxBreaks,      \* bound: connections that break, messages that cannot be sent in 5 s
    MaxUnread,      \* bound: reads of the page that fail
    WireSize        \* bound: events on their way to the page

ASSUME DashboardAssumption ==
    QueueSize \in Nat \ {0} /\ MaxIterations \in [RunIds -> Nat \ {0}] /\ WireSize \in Nat

VARIABLES
    turn,       \* per run: pc, iteration, whether its tools are called, cancellation, how it ends
    writes,     \* writes in threads: run, what, iteration, state; with a finish, the status
    rows,       \* per run: status of its row, its events, how often usage was added
    tracing,    \* _observability_initialized, and who holds the lock of its initialization
    conn,       \* the page's WebSocket at the server: state, subscribed, queue, sender
    wire,       \* how many events are on their way to the page
    page,       \* status ("none": no browser), timer (flushTimer), error; fetches, what it shows
    down,       \* the dashboard has been shut down
    mishap      \* bounds; ghosts: runs without an end, whether a commit was not published

dashboard == <<turn, writes, rows, tracing, conn, wire, page, down, mishap>>
trace     == <<turn, writes, rows, tracing>>
view      == <<wire, page>>

-----------------------------------------------------------------------------
(* Writes, and events for the page. *)

Kept     == {"initialize", "start", "memory", "memoryError", "error", "finish"}     \* _observe
Hooks    == {"model", "usage", "tools", "limit"}                                    \* ObservabilityHook._write
Terminal == {"completed", "stopped", "error", "cancelled"}

Write(r, what) == [run |-> r, what |-> what, iteration |-> turn[r].iteration, status |-> "none", state |-> "runs"]
Finish(r, status) == [Write(r, "finish") EXCEPT !.status = status]

\* The write that run r awaits.
Awaited(r) == {w \in writes : w.run = r /\ w.what = turn[r].pc /\ w.iteration = turn[r].iteration}
Written(r, state) == \E w \in Awaited(r) : w.state = state
Ended(r) == turn[r].pc \in Kept \cup Hooks /\ (Written(r, "done") \/ Written(r, "failed"))

\* What is stored of an event; the kind of the model's failure at an iteration is "error", too.
Event(what, iteration) == <<IF what = "memoryError" THEN "memory" ELSE what, iteration>>

\* What a write that succeeds leaves in the store; what the page has read of it is stale then.
Committed(w) ==
    LET s == rows[w.run] IN
    CASE w.what = "initialize" -> s
      [] w.what = "start"  -> [s EXCEPT !.status = "running"]
      [] w.what = "usage"  -> [s EXCEPT !.usage = @ + 1]
      [] w.what = "finish" -> IF s.status = "none" THEN s ELSE [s EXCEPT !.status = w.status]
      [] OTHER             -> [s EXCEPT !.events = Append(@, Event(w.what, w.iteration))]

Commits(w) ==
    /\ w \in writes /\ w.state = "runs"
    /\ writes' = (writes \ {w}) \cup {[w EXCEPT !.state = "done"]}
    /\ rows' = [rows EXCEPT ![w.run] = Committed(w)]
    /\ page' = IF Committed(w) = rows[w.run] THEN page
               ELSE [page EXCEPT !.shows = "stale", !.fetches = {IF f = "unread" THEN f ELSE "stale" : f \in @}]
    /\ UNCHANGED <<turn, tracing, conn, wire, down, mishap>>

WriteErrs(w) ==
    /\ w \in writes /\ w.state = "runs" /\ mishap.errors < MaxWriteErrors
    /\ writes' = (writes \ {w}) \cup {[w EXCEPT !.state = "failed"]}
    /\ mishap' = [mishap EXCEPT !.errors = @ + 1, !.endless = IF w.what = "finish" THEN @ \cup {w.run} ELSE @]
    /\ UNCHANGED <<turn, rows, tracing, conn, view, down>>

\* DashboardEvents.publish
Publish ==
    conn' = IF ~conn.subscribed THEN conn
            ELSE IF Len(conn.queue) < QueueSize THEN [conn EXCEPT !.queue = Append(@, "event")]
            ELSE [conn EXCEPT !.subscribed = FALSE, !.queue = <<"end">>]

\* After the write that r awaited: the event is published, or nobody learns of the write.
Tells(r) ==
    IF Written(r, "done") /\ turn[r].pc # "initialize"
    THEN Publish /\ mishap' = [mishap EXCEPT !.untold = FALSE]
    ELSE UNCHANGED <<conn, mishap>>

-----------------------------------------------------------------------------
(* A turn under _trace_run. *)

GoesTo(r, pc) == turn' = [turn EXCEPT ![r].pc = pc]
Leaves(r) == GoesTo(r, "over") /\ writes' = writes \ Awaited(r)

\* r goes on to the next write, which it awaits.
Writes(r, w) == GoesTo(r, w.what) /\ writes' = (writes \ Awaited(r)) \cup {w}
Ends(r, how) ==
    /\ turn' = [turn EXCEPT ![r].pc = "finish", ![r].how = how]
    /\ writes' = (writes \ Awaited(r)) \cup {Finish(r, how)}

TraceBegins(r) ==
    /\ turn[r].pc \in {"idle", "lock"}
    /\ IF tracing.ready THEN Writes(r, Write(r, "start")) /\ UNCHANGED tracing
       ELSE IF tracing.holder = {} THEN Writes(r, Write(r, "initialize")) /\ tracing' = [tracing EXCEPT !.holder = {r}]
       ELSE turn[r].pc = "idle" /\ GoesTo(r, "lock") /\ UNCHANGED <<writes, tracing>>
    /\ UNCHANGED <<rows, conn, view, down, mishap>>

\* _initialize_observability
Initialized(r) ==
    /\ turn[r].pc = "initialize" /\ turn[r].stop = "no" /\ Ended(r)
    /\ tracing' = [ready |-> Written(r, "done"), holder |-> {}]
    /\ IF Written(r, "done") THEN Writes(r, Write(r, "start")) ELSE Leaves(r)     \* goes on without a trace
    /\ UNCHANGED <<rows, conn, view, down, mishap>>

\* What comes after a write of _observe, if it was not cancelled.
Observed(r) ==
    /\ turn[r].pc \in Kept \ {"initialize"} /\ turn[r].stop \in {"no", "raised"} /\ Ended(r) /\ Tells(r)
    /\ CASE turn[r].pc = "start"       -> IF Written(r, "done") THEN GoesTo(r, "prepare") /\ writes' = writes \ Awaited(r)
                                          ELSE Leaves(r)
         [] turn[r].pc = "memory"      -> GoesTo(r, "ask") /\ writes' = writes \ Awaited(r)
         [] turn[r].pc = "memoryError" -> Writes(r, Write(r, "error"))
         [] turn[r].pc = "error"       -> Ends(r, IF turn[r].stop = "no" THEN "error" ELSE "cancelled")
         [] turn[r].pc = "finish"      -> Leaves(r)
    /\ UNCHANGED <<rows, tracing, view, down>>

\* What the turn itself awaits: the memory, then the model ("ask") and the tools ("execute").
Prepares(r) ==
    /\ turn[r].pc = "prepare" /\ \E what \in {"memory", "memoryError"} : Writes(r, Write(r, what))
    /\ UNCHANGED <<rows, tracing, conn, view, down, mishap>>

\* The model answers, or the request does not fit; or the provider raises.
AsksModel(r) ==
    /\ turn[r].pc = "ask"
    /\ \/ \E calls \in BOOLEAN, how \in {"completed", "error"} :
             /\ calls => how = "completed"
             /\ turn' = [turn EXCEPT ![r].pc = "model", ![r].calls = calls, ![r].how = how]
             /\ writes' = writes \cup {Write(r, "model")}
       \/ Writes(r, Write(r, "limit"))
       \/ Writes(r, Write(r, "error"))
    /\ UNCHANGED <<rows, tracing, conn, view, down, mishap>>

Executes(r) ==
    /\ turn[r].pc = "execute" /\ Writes(r, Write(r, "tools"))
    /\ UNCHANGED <<rows, tracing, conn, view, down, mishap>>

\* What comes after a write of the hook: _model, before_execute_tools, after_iteration.
Hooked(r) ==
    /\ turn[r].pc \in Hooks /\ Ended(r) /\ Tells(r)
    /\ CASE turn[r].pc = "model" -> Writes(r, Write(r, "usage"))
         [] turn[r].pc = "usage" -> IF turn[r].calls THEN GoesTo(r, "execute") /\ writes' = writes \ Awaited(r)
                                    ELSE Ends(r, turn[r].how)
         [] turn[r].pc = "limit" -> Ends(r, "stopped")
         [] turn[r].pc = "tools" ->
              IF turn[r].iteration = MaxIterations[r] THEN Ends(r, "stopped")
              ELSE /\ turn' = [turn EXCEPT ![r].pc = "ask", ![r].iteration = @ + 1]
                   /\ writes' = writes \ Awaited(r)
    /\ UNCHANGED <<rows, tracing, view, down>>

-----------------------------------------------------------------------------
(* Cancellation *)

\* ObservabilityHook.drain: _trace_run waits for the write that was cut off.
Mut_NoDrain(r) == TRUE
Drained(r) == \A w \in writes : w.run = r /\ w.what \in Hooks => w.state # "runs"

\* The traced body is left: "except BaseException", then drain.
Mut_OnlyErrors == "over"
Caught == "drain"

\* CancelledError is raised where the turn stands; _observe first waits for its write.
Cancel(r) ==
    /\ turn[r].pc \notin {"idle", "over", "drain"} /\ turn[r].stop = "no" /\ mishap.stops < MaxStops
    /\ CASE turn[r].pc \in Kept -> turn' = [turn EXCEPT ![r].stop = "waits"] /\ UNCHANGED writes
         [] turn[r].pc = "prepare" ->
              /\ turn' = [turn EXCEPT ![r].pc = "memoryError", ![r].stop = "raised"]
              /\ writes' = writes \cup {Write(r, "memoryError")}
         [] turn[r].pc = "lock" ->
              /\ turn' = [turn EXCEPT ![r].pc = "finish", ![r].stop = "raised", ![r].how = "cancelled"]
              /\ writes' = writes \cup {Finish(r, "cancelled")}
         [] OTHER -> turn' = [turn EXCEPT ![r].pc = Caught, ![r].stop = "raised"] /\ UNCHANGED writes
    /\ mishap' = [mishap EXCEPT !.stops = @ + 1]
    /\ UNCHANGED <<rows, tracing, conn, view, down>>

DrainEnds(r) ==
    /\ turn[r].pc = "drain" /\ Drained(r)
    /\ GoesTo(r, "error") /\ writes' = {w \in writes : w.run # r \/ w.state = "runs"} \cup {Write(r, "error")}
    /\ mishap' = [mishap EXCEPT !.untold = @ \/ \E w \in writes : w.run = r /\ w.state = "done"]
    /\ UNCHANGED <<rows, tracing, conn, view, down>>

\* The write that a cancelled _observe waited for has ended.  Nothing is published.
Mut_DoesNotWait(r) == TRUE
MayUnwind(r) == Ended(r)
Unwinds(r) ==
    /\ turn[r].stop = "waits" /\ MayUnwind(r)
    /\ LET rest == writes \ {w \in Awaited(r) : w.state # "runs"} IN
       CASE turn[r].pc \in {"initialize", "start"} ->       \* not yet in the traced body
              /\ turn' = [turn EXCEPT ![r].pc = "finish", ![r].stop = "raised", ![r].how = "cancelled"]
              /\ writes' = rest \cup {Finish(r, "cancelled")}
         [] turn[r].pc \in {"memory", "memoryError"} ->
              /\ turn' = [turn EXCEPT ![r].pc = "error", ![r].stop = "raised"]
              /\ writes' = rest \cup {Write(r, "error")}
         [] turn[r].pc \in {"error", "finish"} ->
              /\ turn' = [turn EXCEPT ![r].pc = "over", ![r].stop = "raised"]
              /\ writes' = rest
    /\ tracing' = IF turn[r].pc = "initialize" THEN [tracing EXCEPT !.holder = {}] ELSE tracing
    /\ mishap' = [mishap EXCEPT !.untold = @ \/ (turn[r].pc # "initialize" /\ Written(r, "done")),
                                !.endless = IF turn[r].pc = "error" THEN @ \cup {r} ELSE @]
    /\ UNCHANGED <<rows, conn, view, down>>

-----------------------------------------------------------------------------
(* dashboard_events: one task sends, one reads, and when one of them ends    *)
(* the connection is closed.                                                 *)

NoConn == [state |-> "none", subscribed |-> FALSE, queue |-> <<>>, sender |-> "waits"]

SenderGets ==
    /\ conn.state = "open" /\ conn.sender = "waits" /\ conn.queue # <<>>
    /\ conn' = [conn EXCEPT !.queue = Tail(@), !.sender = IF Head(conn.queue) = "end" THEN "over" ELSE "sends"]
    /\ UNCHANGED <<trace, view, down, mishap>>

SendsEvent ==
    /\ conn.state = "open" /\ conn.sender = "sends" /\ wire < WireSize
    /\ conn' = [conn EXCEPT !.sender = "waits"] /\ wire' = wire + 1
    /\ UNCHANGED <<trace, page, down, mishap>>

SendTimesOut ==
    /\ conn.state = "open" /\ conn.sender = "sends" /\ mishap.breaks < MaxBreaks
    /\ conn' = [conn EXCEPT !.sender = "over"]
    /\ mishap' = [mishap EXCEPT !.breaks = @ + 1]
    /\ UNCHANGED <<trace, view, down>>

\* Unsubscribed and closed; the page gets what was sent before.
Mut_StaysOpen == FALSE
SenderIsOver == conn.sender = "over"
Closes ==
    /\ conn.state = "open" /\ SenderIsOver
    /\ conn' = [NoConn EXCEPT !.state = "closed"]
    /\ UNCHANGED <<trace, view, down, mishap>>

LinkBreaks ==
    /\ conn.state = "open" /\ mishap.breaks < MaxBreaks
    /\ conn' = [NoConn EXCEPT !.state = "closed"] /\ wire' = 0
    /\ mishap' = [mishap EXCEPT !.breaks = @ + 1]
    /\ UNCHANGED <<trace, page, down>>

\* close_dashboard_events, when the turns have been cancelled: DashboardEvents.close.
ShutsDown ==
    /\ ~down /\ \A r \in RunIds : turn[r].pc = "over"
    /\ down' = TRUE
    /\ conn' = IF conn.subscribed
               THEN [conn EXCEPT !.subscribed = FALSE,
                                 !.queue = Append(IF Len(@) < QueueSize THEN @ ELSE Tail(@), "end")]
               ELSE conn
    /\ UNCHANGED <<trace, view, mishap>>

-----------------------------------------------------------------------------
(* The page: LiveUpdatesProvider, and a view that reads the store.           *)

Connects ==
    /\ page.status = "disconnected" /\ conn.state = "none" /\ ~down
    /\ conn' = [NoConn EXCEPT !.state = "open", !.subscribed = TRUE]
    /\ page' = [page EXCEPT !.status = "connecting"]
    /\ UNCHANGED <<trace, wire, down, mishap>>

\* onopen: invalidate(...all)
Mut_NoReread == page.timer
OnOpen == TRUE
Opens ==
    /\ page.status = "connecting" /\ conn.state # "none"
    /\ page' = [page EXCEPT !.status = "connected", !.timer = OnOpen]
    /\ UNCHANGED <<trace, conn, wire, down, mishap>>

\* onmessage
Gets ==
    /\ page.status = "connected" /\ wire > 0
    /\ wire' = wire - 1 /\ page' = [page EXCEPT !.timer = TRUE]
    /\ UNCHANGED <<trace, conn, down, mishap>>

SeesClose ==
    /\ page.status = "connected" /\ wire = 0 /\ conn.state = "closed"
    /\ page' = [page EXCEPT !.status = "disconnected"] /\ conn' = NoConn
    /\ UNCHANGED <<trace, wire, down, mishap>>

\* The timer of invalidate: the views read again, and abort what they are reading.
Mut_KeepsReading == page.fetches \cup {"unread"}
Reading == {"unread"}
Rereads ==
    /\ page.timer
    /\ page' = [page EXCEPT !.timer = FALSE, !.fetches = Reading, !.error = FALSE]
    /\ UNCHANGED <<trace, conn, wire, down, mishap>>

StoreIsRead ==
    /\ "unread" \in page.fetches
    /\ page' = [page EXCEPT !.fetches = (@ \ {"unread"}) \cup {"fresh"}]
    /\ UNCHANGED <<trace, conn, wire, down, mishap>>

\* 503, or the server is gone: the page tells it, and shows what it has.
ReadErrs ==
    /\ "unread" \in page.fetches /\ mishap.unread < MaxUnread
    /\ page' = [page EXCEPT !.fetches = @ \ {"unread"}, !.error = TRUE]
    /\ mishap' = [mishap EXCEPT !.unread = @ + 1]
    /\ UNCHANGED <<trace, conn, wire, down>>

Displays(v) ==
    /\ v \in page.fetches \ {"unread"}
    /\ page' = [page EXCEPT !.fetches = @ \ {v}, !.shows = v]
    /\ UNCHANGED <<trace, conn, wire, down, mishap>>

-----------------------------------------------------------------------------
DashboardInit ==
    /\ \E begun \in SUBSET RunIds :
          turn = [r \in RunIds |-> [pc |-> IF r \in begun THEN "idle" ELSE "over", iteration |-> 1,
                                  calls |-> FALSE, stop |-> "no", how |-> "none"]]
    /\ writes = {}
    /\ rows = [r \in RunIds |-> [status |-> "none", events |-> <<>>, usage |-> 0]]
    /\ tracing = [ready |-> FALSE, holder |-> {}]
    /\ conn = NoConn /\ wire = 0 /\ down = FALSE
    /\ \E status \in {"none", "disconnected"} :
          page = [status |-> status, timer |-> FALSE, fetches |-> IF status = "none" THEN {} ELSE {"unread"},
                  shows |-> "stale", error |-> FALSE]
    /\ \E errors \in 0 .. MaxWriteErrors :
          mishap = [errors |-> errors, stops |-> 0, breaks |-> 0, unread |-> 0, endless |-> {}, untold |-> FALSE]

Traces ==
    \/ \E w \in writes : Commits(w) \/ WriteErrs(w)
    \/ \E r \in RunIds : \/ TraceBegins(r) \/ Initialized(r) \/ Observed(r) \/ Prepares(r) \/ AsksModel(r) \/ Executes(r)
                       \/ Hooked(r) \/ DrainEnds(r) \/ Unwinds(r)
Serves == SenderGets \/ SendsEvent \/ SendTimesOut \/ Closes
Views ==
    \/ Connects \/ Opens \/ Gets \/ SeesClose \/ Rereads \/ StoreIsRead \/ ReadErrs
    \/ \E v \in page.fetches : Displays(v)

Goes == Traces \/ Serves \/ Views

DashboardNext == Goes \/ (\E r \in RunIds : Cancel(r)) \/ LinkBreaks \/ ShutsDown

\* Threads end, awaited calls return, the event loop and the browser do what is ready:
\* something goes on as long as it can.
DashboardSpec == DashboardInit /\ [][DashboardNext]_dashboard /\ WF_dashboard(Goes)

-----------------------------------------------------------------------------
(* Properties *)

DashboardTypeOK ==
    /\ \A r \in RunIds : turn[r].pc \in Kept \cup Hooks \cup {"idle", "lock", "prepare", "ask", "execute", "drain", "over"}
    /\ \A r \in RunIds : rows[r].status \in Terminal \cup {"none", "running"}
    /\ \A w \in writes : w.run \in RunIds /\ w.what \in Kept \cup Hooks
    /\ Len(conn.queue) <= QueueSize /\ wire <= WireSize
    /\ Cardinality(tracing.holder) <= 1

\* The row of a run gets its end after everything else that is written about the run, also
\* when a cancellation has cut the turn off in the middle of a write ("Let an
\* already-started write finish before the terminal write", _observe; drain).
TerminalIsLast ==
    \A w \in writes : w.state = "runs" /\ rows[w.run].status \in Terminal => w.what = "finish"

\* When an event happens in a turn of at most n iterations.
Place(e, n) ==
    CASE e[1] = "memory" -> 0
      [] e[1] = "model" -> 3 * e[2]
      [] e[1] = "limit" -> 3 * e[2] + 1
      [] e[1] = "tools" -> 3 * e[2] + 2
      [] e[1] = "error" -> 3 * n + 3

\* The events of a run are stored once each and in the order in which they happened,
\* although each is written by a thread of its own.
EventsInOrder ==
    \A r \in RunIds : \A i, j \in DOMAIN rows[r].events :
        i < j => Place(rows[r].events[i], MaxIterations[r]) < Place(rows[r].events[j], MaxIterations[r])

\* "A cancelled run receives a terminal state when the process can finish the write"
\* (docs/DASHBOARD_V1_PLAN.md:74): a run that was begun does not stay "running", and says how
\* the turn ended.  Excepted are a turn that has raised and is cancelled while its error
\* is written, for then nothing writes the end, and ends that the store refused.
RunEnds ==
    \A r \in RunIds :
        turn[r].pc = "over" /\ rows[r].status # "none" /\ r \notin mishap.endless => rows[r].status = turn[r].how

\* What the store says of a run is sound: types, order, and the end.
TraceIsSound == DashboardTypeOK /\ TerminalIsLast /\ EventsInOrder /\ RunEnds

\* However slow the page, whichever connection breaks, and however many events are
\* dropped with a subscription, it comes to show what is in the store ("Slow subscribers
\* are closed; clients read current state again through REST", docs/DASHBOARD_RUNTIME.md:134).
\* Excepted are an error that it displays, and commits that were not published because the
\* turn was cancelled in them.
PageCatchesUp ==
    <>[](\/ page.status = "none"
        \/ IF down THEN page.status = "disconnected" ELSE page.error \/ mishap.untold \/ page.shows = "fresh")
=============================================================================
