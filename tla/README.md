# A verification project for nanobot

nanobot is an asyncio agent gateway: chat channels, an agent loop that calls a
language model and tools, sessions, a long-term memory, a web knowledge base
and a scheduler. This directory models the parts of it whose correctness
depends on order, failure and staleness, checks the models with TLC and proves
properties of the memory, the scheduler, the sessions, the knowledge base, the delivery of
answers and the traces with TLAPS. Paths are relative to the repository (`nanobot/...`).

## Inventory

| part | state | operations | talks to | what is hard | what makes it correct |
|---|---|---|---|---|---|
| memory database, `agent/memory_db.py` | revision, canonical memories, raw events, publication intent and baseline (SQLite) | `read_snapshot`, `commit_snapshot`, `stage_memory_publish`, `confirm_memory_publish`, `record_memory_publish_baseline` | synchronizer, service | two processes on one file; two-statement read | compare-and-set loses no update; the intent is for the head |
| markdown synchronizer, `agent/memory_sync.py` | `MEMORY.md`, `HISTORY.md` | `recover_pending`, `sync`, import, publish | database, a person with an editor | crash between commit, `os.replace` and confirmation; edits at any moment | no silent overwrite, no double import, recovery completes |
| memory service and pipeline, `agent/memory_service.py`, `memory_pipeline.py` | what one operation has read | `prepare_context`, `sync_markdown`, `consolidate`, `archive_raw` | model, embedder, the two above | text and revision held across awaits | honest results |
| cron service, `cron/service.py` | `jobs.json`, cached store, timer task | `start`, `stop`, tick, turns, add, remove, enable, list, run | agent loop, dashboard, other processes | every call cancels the timer; the store is held over turns | no wake-up lost, no run repeated, only live jobs start |
| agent loop, `agent/loop.py`; commands, `command/builtin.py`; subagents; message and spawn tools | dispatch locks, gate, active and background tasks, the context of shared tools | `run`, `_dispatch`, turns, `/new`, `/stop`, `/status`, spawn | bus, sessions, memory service | cancellation at any await; a system message has another lock than its session | `/stop` is complete, nobody waits for ever |
| sessions, `session/manager.py`; consolidation, `agent/memory.py` | message list, `last_consolidated`, cache, JSONL files | save, invalidate, archive by tokens, prune, history | loop, memory service | background task against `/new` and other turns; crash between archive and save; stale objects | everything said is kept or archived, once |
| runner, `agent/runner.py`; providers, `providers/*.py`; heartbeat | messages of a turn | iterations, retries, conversion to the wire | session, API | lists that are cut between a call and its result | every request is legal |
| knowledge base, `agent/knowledge*.py`; retrieval | pages, blocks, three indexes, metadata | ingest, search, rerank, assess, supplement | embedder, web | the same page ingested twice at a time, two processes | a page's rows are those of one content |
| bus, `bus/queue.py`; channel manager, `channels/manager.py`; Telegram's streams | outbound queue, pending message, stream buffers, typing tasks | publish, coalesce, send with retry, edit, stop | runner, Telegram | deltas coalesced, throttled and retried | a stream is shown once and whole |
| channel adapters, `channels/*.py` | cursors, remembered ids, held back messages | poll, push, acknowledge, hand over; send the parts of a message | chat servers | duplicates, reordering, restarts; half of a message sent | taken messages are kept, once and in order |
| terminal, `cli/commands.py`, `cli/stream.py` | prompt, consumer task, renderer | type, consume, render | bus | texts that nobody asked for | no text lost but the loop's own, none printed twice; the prompt returns |
| onboarding, `cli/onboard.py`, `config/loader.py` | `config.json`, drafts of the wizard | load, migrate, merge, edit, save | a person | nested drafts, unloadable file | only what the user confirmed is saved |
| memory evaluations, `agent/memory_semantic_eval.py`, `memory_query_eval.py` | matchings, judge's cache, reports | match, judge, score, rank | embedder, model | matchings in stages, verdicts reused | every item counted once |
| observability, `observability/*.py`, `_trace_run` in `agent/loop.py`; the dashboard's WebSocket, `api/dashboard.py`, and its page, `dashboard/src` | rows and events of runs (SQLite), a bounded queue per subscription, what the page shows | trace a turn, publish, send, reconnect, read again | agent loop, hooks, browser | writes in threads that outlive a cancelled turn; slow pages, broken connections, reads that cross | a run gets its end, last; the page comes to show the store |
| HTTP API, file and shell tools, MCP, security checks, upgrade script, other benchmarks, bridge | - | - | - | I/O, wiring, parsing | not modelled, see below |

`PROJECT.json` lists every part with its status, and under `hazards` the places
that are hardest to test, with the properties that would catch them going wrong.

## Modules

Every module says at its top what it models. A step lasts from one `await` to
the next, for each process is one event loop; a synchronous section is cut in
two only where a crash or another process can fall into it. A definition `Mut_X`
is a plausible bug in the definition that follows it, which the runs are known
to detect; the specification does not use it.

| module | code | proofs |
|---|---|---|
| `MemorySync`, which implements `MemoryLedger` | memory database, synchronizer, service | `MemorySync_proofs` |
| `CronService` | cron service | `CronService_proofs` |
| `AgentSessions` | agent loop, commands, sessions, consolidation, subagents | `SessionsDashboard_proofs` |
| `Transcript` | session list, runner, consolidation, heartbeat, wire formats | `Standalone_proofs` |
| `WebKnowledge` | ingestion, knowledge database, retriever | `WebKnowledge_proofs` |
| `Delivery` | runner's streams, bus, channel manager, Telegram's streams | `Delivery_proofs` |
| `ChannelReceive`, `ChannelSend` | the adapters | `Channels_proofs` |
| `InteractiveChat`, `Onboarding` | `nanobot agent`, `nanobot onboard` | `Standalone_proofs` |
| `Dashboard` | traces of turns, events of the dashboard, the page | `SessionsDashboard_proofs` |
| `Matching`, used by `SemanticEvaluation` and `QueryEvaluation` | the two memory evaluations | `Evaluation_proofs` |

`MC_X` gives TLC the sets for module `X`. `MC_Channels`, `MC_SessionsDashboard`
(`AgentSessions` and `Dashboard`) and `MC_Standalone` hold
several modules that share no state side by side, so that one of them moves and
the others rest.

### MemorySync

One nanobot process is a record `svc[p]` that says where it is (`pc`), in which
operation, and what it has read: the current revision and rows, the intent, the
text seen and the text expected. The database is `revision`, `memories`,
`events`, `published`, `pending`; the files are `memoryFile` and `historyFile`.

- Every SQLite transaction and every file access is one action, named for what
  it does: `RecoverRead`, `CompareFile`, `RecheckFile`, `ReplaceFile`,
  `RenderHistory`, `WriteHistory`, `Confirm` (recovery and publication),
  `ReadRevision`, `ReadRows`, `ReadState`, `ReadFile`, `Stage`,
  `RecordBaseline` (sync), `ReadExpected`, `Extract`, `Embed`, `CheckRevision`,
  `CheckFile`, `Commit` (consolidate and archive).
- The write lock of the service makes one operation at a time in a process, so a
  process has one `pc`; processes interleave freely.
- The surroundings are `EditMemory`, `DeleteHistory`, `Crash` and `WriteFails`.
  A person may edit at any moment. The ghost `used.close` records how close the
  edits came: 0 while all fell into an awaited call of the model or the embedder,
  1 when one fell elsewhere, 2 when one fell between the last comparison and
  `os.replace`, the window the design concedes
  (`spec/MEMORY_P2_IMPLEMENTATION.md` 63). `NoSilentOverwrite` and
  `SyncedFileIsView` speak of 0, `NothingOverwritten` of less than 2, the others
  of every edit.
- A snapshot is a model value. A text is missing, a zero byte file, malformed, parsable but
  in another layout (`Loose`), or the exact rendering of a snapshot
  (`Rendered`): all that the synchronizer distinguishes.

`MemoryLedger` is the abstract specification: a growing list of snapshots, an
open intent to publish the head, the last acknowledged revision. `MemorySync`
implements it under `ledger <- the snapshots of events`, `intent <- pending.rev`,
`acked <- published.rev`.

### CronService

Only the sleep of the tick and the turn of a job are awaited.

| model | code |
|---|---|
| `file`, `synced` | `jobs.json`; its modification time is `_last_mtime` |
| `store`, `loaded` | `_store`, and whether it is set |
| `Current` | what `_load_store` returns; a reload gives new job objects, so a turn that holds the old ones is no longer `attached` and its record is lost |
| `Keep`, `Save`, `Arm` | load only; `_save_store`; `_arm_timer`, which cancels the current tick even when it is running a job |
| `tick` | `_timer_task`: none, asleep until `wake`, or in the turn of a job with the `rest` of `due_jobs` |
| `TimerFires`, `TurnEnds` | `_on_timer`, `_execute_job` |
| `AddJob`, `RemoveJob`, `EnableJob`, `ListJobs`, `RunJobBegins`, `RunJobEnds`, `Start`, `Stop` | the methods |
| `Crash`, `ForeignAdd`, `ForeignRemove`, `ForeignDisable` | death of the process; another process on the same file (`nanobot agent`) |

Jobs are numbered in the order they are added, which is that of the list. A job
has a kind of schedule, an instant and a next run; names, payloads and run
history are left out. A cron expression is a multiple of the period, an interval
is counted from now, `at` is an instant that may be past. `on_job` ending well
or with an exception has the same effect on what is modelled.

### AgentSessions

A `task` is an inbound message from its arrival on, a background consolidation,
or a subagent; `pc` is the await it stands at and `stop` whether it has been
cancelled. `object` are the Session objects in memory, of which `cache` names
the current one of each chat and tasks may hold older ones; `disk` are the
files. `lock` is the queue at a chat's consolidation lock; the dispatch lock and
the gate follow from the tasks that hold them. `tools` is the context of the
shared message tool.

- `Receive`, `Consume`, `StatusBegins`, `StopBegins`, `StopSubagents`,
  `StopReplies` are `run` and `cmd_stop`: the loop cancels the dispatched tasks
  of a chat, waits for them, and then for the subagents. `CancelArrives` delivers a
  cancellation at whatever await a task stands.
- `Enter`, `Prepare`, `CallTool`, `MessageToolRuns`, `SpawnToolRuns`, `TurnEnds`,
  `TurnSaved`, `TurnReplies` are a turn; the `...Fails` its exceptions.
  `BackgroundStarts` is the consolidation that is scheduled behind it.
- `ConsolidationPass`, `Refresh`, `ArchiveCommits`, `ArchiveFails`,
  `ArchiveRefused`, `Checkpoint`, `CheckpointSaved` are
  `maybe_consolidate_by_tokens` under its lock; `NewBegins`, `NewClears`,
  `NewReplies` are `/new`.
- `Crash` leaves the database and the files; a file being written is cut short.

What a turn adds to a session is one entry, and the prompt is measured in
entries. The archive is `MemorySync`'s operation as its caller sees it: it commits and
says so, or changes nothing, or is refused (`ResultIsHonest` there).

### Transcript

The same session seen closely: messages with roles, calls, results and
contents, `last_consolidated`, the two lanes (the chat's turns, and those of
system messages) that may work on it at a time, the archive `job`, and the
heartbeat. `BuildRequest`, `ModelCalls`, `ToolsReturn`, `ModelAnswers`,
`ModelErrs`, `SaveTurn` are a turn; `ArchiveBegins`, `ArchiveCommits`,
`ArchiveFails` the consolidation, whose boundary is any the code might pick
(token counts are left open); `Tick`, `BeatRuns`, `Retain`, `BeatEnds` the
heartbeat. `OpenAIWire`, `AnthropicWire` and `CodexWire` are the conversions of
the providers. `Init` also starts from files of earlier versions, cut anywhere.

### WebKnowledge

Processes with tasks on one database: `WebFetchReturns` starts a background
ingestion; `LookUp`, `MarkSeen`, `Embedded`, `EmbeddingFails`,
`UpsertUnchanged`, `Upsert`, `UpsertFails` are `ingest_page`;
`Retrieve`, `SearchFts`, `SearchVector`, `Rerank`, `Assess`, `OnlineSearch`,
`TakeHit`, `Fetched`, `HitsEnd` are `KnowledgeRetriever`; `Start` and `WriteMetadata` are
`initialize`, which compares and inserts in two steps. `pages`, `parents`,
`children` are the tables and `index` the three indexes over them; the content
of a page is a version, and `meta` the version its title and flags are from.
What a query matches is arbitrary. `chosen` keeps what the first search's reranking chose, with
which `ResultIsHonest` compares the evidence when a later search fails.

### Delivery

`turn` is the runner's turn of each session with what it has said and streamed
in the current segment; `queue` and `pending` are the bus and the dispatcher's
pushed back message; `hand` is the message that the dispatcher is sending, with
its attempt and the API call under way; `buf` is Telegram's stream buffer of a
chat, `shown` the messages on the screen and `typing` the typing task. `Take`
is one round of `_dispatch_outbound` with `Filtered` and `Coalesce`;
`CallSucceeds`, `TimesOut`, `Refused` are the outcomes of a call, which may have
had its effect although it timed out. `ProviderRetries` is a stream that broke
off and is asked for again.

### ChannelReceive and ChannelSend

`ChannelReceive` is one chat of one of thirteen kinds of receiver: a table
(`Steps`) gives each adapter's handler as a sequence of steps between awaits
(remember, hold back for an album, publish, ...), and the few ways to get at
messages are actions: `WeixinPoll`, `MatrixSync`, `TelegramUpdates`, the email
cycle, Mochat's watch, panel, notification and delay, and `Push` for the
others. `LinkChanges` and `Restart` are the faults. Losses
that the code accepts are counted in `used.lost` where they happen, with the
reason; `NothingLost` says that there are no others.

`ChannelSend` is `send()` under `_send_with_retry`: a record per adapter gives
the order of the parts, in how many ways a part is tried and what comes after the
last of them (raise, note, go on), for a refusal and for a broken call; a broken
call may have been done. `sign` is the typing indicator or reaction.

### Dashboard

`turn` is a turn under `_trace_run`: the write it awaits, its iteration, how it
will end, and whether its cancellation still waits for a write of `_observe`.
`writes` are the writes in threads, which commit (`Commits`) or fail
(`WriteErrs`) at any time, also when their turn has been cut off; `rows` is what
is in the store. `TraceBegins`, `Initialized`, `Observed`, `Prepares` and
`Unwinds` are `_trace_run` with `_observe`; `AsksModel`, `Executes`, `Hooked` the
iterations with `ObservabilityHook`; `Cancel` and `DrainEnds` a cancellation.
`conn` is the subscription and its sender (`Publish`, `SenderGets`,
`SendsEvent`, `SendTimesOut`, `Closes`, `LinkBreaks`, `ShutsDown`), `wire` the events on
their way, and `page` the browser: `Connects`, `Opens`, `Gets`, `SeesClose` are
`LiveUpdates.tsx`, `Rereads`, `StoreIsRead`, `ReadErrs`, `Displays` a view. What
the page has read is fresh until the next commit. Events have no content, and
all views are one.

### InteractiveChat, Onboarding, the evaluations

`InteractiveChat` has the prompt, the consumer task, the renderer and the agent
loop behind the bus; a turn may stream, call tools, fail, be stopped or be
spoken for by the message tool. A turn's state tells whether its latest model call
has streamed anything (`streaming`, then `ended`) or not (`silent`), and with it
whether its answer is the streamed text or one of the loop's own (`own` in
`Concludes`): an error of the provider, a phrase for an empty answer, the limit of
iterations. `sent` has every text that was published but not streamed, those answers
too (`OwnAnswers`). `Onboarding` has `config.json`, the working copy and
the stack of drafts; the fields stand for their kinds (one per section, one
nested, one of a channel). `Matching` defines the best assignments that
`linear_sum_assignment` chooses from; `SemanticEvaluation` and `QueryEvaluation`
take any of them.

## Runs

| run | question | bounds |
|---|---|---|
| `memory_service` | no silent overwrite, exact view after sync, honest results, complete history, no double import, a publication stays pending only when an edit blocks it | 1 process, 2 writes, 2 edits, 1 crash, 1 file system error |
| `memory_processes` | the database is coherent, no update is lost, `MemoryLedger` is implemented | 2 processes, 2 writes, 1 edit |
| `memory_overwrite` | violated, see below | 1 process, 1 write, 1 edit |
| `cron_alone` | no wake-up is lost, only live jobs start, recorded runs are final, a due job does not stay due | 2 jobs of 4 kinds, 4 instants, 3 calls, 1 crash |
| `cron_shared` | between turns the cache is the file; what another process disables before a tick is not started by it | 2 jobs of 2 kinds, 3 instants, 3 calls, 1 crash, 2 foreign writes |
| `cron_disable` | violated, see below | 1 job, 2 calls |
| `sessions_chat` | turns are kept or archived once, files are the view, `/stop` is complete, the loop drains; traces are sound, the page catches up | 1 chat, 3 messages of 4 kinds, budget 2, gate 2, 1 tool call, 1 archive failure, 1 crash; traces: 2 turns of up to 2 iterations with 1 failing write, or 1 turn of 1 iteration and a page with a queue of 1, 1 broken connection and 1 failing read; 1 cancellation in either |
| `knowledge` | rows, indexes and vectors agree, what is saved is stored, evidence is of one version and honest | 2 processes, 2 pages of 2 versions, 2 models, 1 ingestion, 1 retrieval with up to 2 supplements, 1 change of the web, 2 starts |
| `delivery` | streams are shown whole, typing stops, the dispatcher drains | a chat's session and a cron session in one group, 2 messages, 2 deltas, 2 iterations, 2 attempts, 2 failures, queue of 2 |
| `delivery_streamed` | violated, see below | 1 message, no failure |
| `channels` | taken messages are kept, once, in order and handed over; sending is sound | 13 receivers: 3 messages, 2 pushes of each, cache of 2, 1 failure, 1 restart; 12 senders: 2 attachments, 2 chunks, 2 attempts, 4 failed calls |
| `standalone` | requests are legal and nothing is forgotten; reports and results are sound; the terminal and the configuration are sound; the prompt returns | transcript: 2 turns with 1 call, 2 iterations, 2 archives, 1 error, 1 restart; evaluations: 4 items in 2 cases, 5 memories; terminal: 2 lines, 2 parts each, 1 subagent; onboarding: 2 edits, 1 crash |

Several invariants are conjunctions of named parts, with the type invariant
among them: `SessionsAreSound` (`TypeOK`, `FileIsView`), `KeptOrArchivedOnce`
(`NothingLost`, `ArchivedOnce`), `DatabaseIsSound` (`TypeOK`,
`SnapshotIsConsistent`, `VectorsAreComparable`), `EvidenceIsSound`
(`EvidenceIsOneVersion`, `ResultIsHonest`), `ChatsAreSound` (`TypeOK`,
`TypingStops`), `StreamIsShown` (`SegmentIsShown`, `AnswerIsShown`),
`TakenIsKept` (`TypeOK`, `NothingLost`, `DelayedIsKept`), `OnceInOrder`
(`AtMostOnce`, `OrderKept`), `SendingIsSound` (`SendTypeOK`, `SentIsShown`,
`RetriesMend`, `ChunksFollow`, `SignIsTrue`), `RequestsAreLegal` (one part per
wire format), `NothingForgotten` (`TypeOK`, `KeptIsSent`, `SkippedIsArchived`),
`TraceIsSound` (`DashboardTypeOK`, `TerminalIsLast`, `EventsInOrder`, `RunEnds`),
`EvaluationIsSound` (`ReportIsSound`, `QueryIsSound`) and `CommandLineIsSound`
(`TerminalIsSound`, `ConfigIsTheUsers`). The comment at each part says what it is about, and what it leaves out.

Why these bounds are enough to be interesting. Two writes, two edits and a crash
let an edit fall before, inside and after a publication that is interrupted and
recovered, and let a second edit fall on the result; two processes are what it
takes to interleave a read with a commit. In the scheduler two jobs make a list
of due jobs of which the second can be changed during the first, and four instants
let a recurring job run twice. In a chat two turns exceed the budget, so that a
third message, a `/new` or a `/stop` meets a consolidation in the background;
the gate of two lets two dispatched tasks go on and blocks a third. Two versions
of a page and two processes let a newer content arrive in the middle of an
ingestion and of a search. Two deltas and a queue of two let deltas be
coalesced with a message of another stream behind them. A cache of two forgets
one of three messages. Two turns, archives and lanes let each cut of the
transcript meet each other one. Four items, two of one text, let a case be
perfect, ambiguous, or wrong on both sides. Two traced turns meet at the lock of
the initialization; a queue of one overflows with the second event, and a connection
that breaks as well makes the page connect three times.

Symmetry is used in `memory_processes` and `knowledge`, which check no
liveness. Deadlock is checked for the memory and the scheduler; the other systems
stop when their bounded inputs are used up, and `Drains`, `TakenIsHandled`,
`PromptReturns` and `PageCatchesUp` say instead that nothing is left half done.

### Fairness

`MemorySync` assumes weak fairness of the steps of a process that has begun an
operation (the event loop runs), of the start of a dead process (the gateway is a
supervised service) and of the next synchronization (every message and heartbeat
calls `prepare_context`); edits, crashes and errors are never fair.
`CronService` assumes it of the timer and of the end of turns: the event loop
runs what is ready, and the turns of the agent are bounded. `on_job` itself has
no timeout, so a turn that hangs blocks the scheduler; that is an assumption.
Calls are bounded, so the run does not speak of a caller
that cancels turns for ever. Nothing is assumed of the clock.
`AgentSessions` assumes weak fairness of the loop and of the tasks, `Delivery` of
the dispatcher, `MC_Channels` of the handlers, polls and fetches of a receiver,
`MC_Standalone` of the agent loop, the turns, the consumer and the return of
the prompt, `Dashboard` only that something goes on as long as a traced turn, a
write, the server's side of the connection or the page can: the event loop and
the browser run what is ready, and awaited calls return or time out. Messages, faults, cancellations and restarts
are never fair.

### What the violated runs show

- `memory_overwrite`: `consolidate` and `archive_raw` read the text they expect to replace after
  `sync` has returned. An edit between the two is taken for the synchronized
  text and replaced without having been imported.
- `cron_disable`: every change of a job arms the timer, which cancels the task
  that is awaiting a turn; the dashboard document says that disabling does not
  cancel a running task. The turn is not recorded: a one-shot job that is cut off
  by a call about another job starts again at once.
- `delivery_streamed`: a turn of a streaming session that ends with a text of the
  loop itself (the iteration limit, an error) is marked `_streamed`, although
  nobody streamed that text, so the manager does not send it. The terminal's consumer
  drops such an answer for the same reason (`commands.py:983-985`).

### Behaviour the properties except

What the code does and the properties leave out on purpose, each with a ghost
that says when:

- a system message's turn that is appended to a session while `/new` awaits its
  archive is cleared unarchived (`ghost.overlap`);
- pruning by the heartbeat during an archive shifts the position that the
  archive then stores (`used.shifted`);
- two first starts of the knowledge base with different models at one time
  (`used.raced`), and another process that replaces a page between two searches;
- two streams open in one chat share a buffer (`used.clash`); an answer that is
  suppressed leaves the typing indicator on (`used.muted`); a segment of a stream is
  missing if one of its messages was given up after all its attempts (`used.lost`)
  and the call that should have finished it does not succeed: its first message may
  have no id, and its end then does nothing (`telegram.py:496-497`);
- adapters whose `send` swallows failures are not retried; parts already sent
  come twice when a later one fails;
- the losses of receivers named in `ChannelReceive` (a crash behind a saved
  cursor, mails fetched before an error, Telegram's dropped updates, panel
  messages beyond the limit);
- the first text that comes while the prompt waits ends the wait, whoever said
  it (`upset.unasked`), and a turn at the iteration limit, or stopped while it
  works, leaves the spinner on (`upset.unended`);
- the loop's own answers of a typed turn, which are marked as streamed, are dropped
  by the terminal (`OwnAnswers` in `PrintedOnce`);
- a `config.json` that cannot be loaded is replaced by defaults on refresh;
- a turn that has raised and is cancelled while its error is written leaves its
  run `running` for ever (`mishap.endless`), and a write whose turn is cancelled in it
  is not published, so that the page shows it only after the next event
  (`mishap.untold`);
- changes to `jobs.json` by another process during a tick are overwritten at its
  end, and jobs it adds are not covered by the timer until it is armed again;
- the retrieved memories are sorted by id before they are ranked, so that the
  ranks of the query evaluation are not those of the retrieval.

Further places that are hard to test and that no property is about: a torn read
of `jobs.json`, an `at` in the past, the dashboard's `list_jobs` in a worker
thread, a turn that hangs; Mochat's cold session and its delay at a stop; Slack's
second event for a mention when the bot's id is unknown; attachments that WeCom
and email ignore; the outbound queue at shutdown; the one `_sent_in_turn` for all
sessions, of which both outcomes are in the models.

## Proofs

Every theorem is of the module's own specification, `Spec => []P` or, for an
action property, `Spec => P`, and rests on an inductive invariant; where a run puts
modules side by side, it is stated of that specification (`MCSpec`) too. All holds for
any value of the bounds.

| module | invariant | properties proved | for |
|---|---|---|---|
| `MemorySync_proofs` | `IInv` | `TypeOK`, `BaselineIsRendering`, `IntentIsHead`, `ReadsAreCoherent`, `NoLostUpdate`, `LedgerSpec` | any processes and snapshots |
| | `HInv` | `ResultIsHonest` | any processes and snapshots |
| | `SInv` | `HistoryIsComplete`, `ImportsAreEdits`, `NoSilentOverwrite`, `SyncedFileIsView` | one process on a workspace |
| `CronService_proofs` | | `TypeOK`, `CacheIsFresh`, `ExternalDisableHonored` | any jobs, clock, other processes |
| | `Alone` | `TimerCoversJobs`, `StartsOnlyLiveJobs`, `RecordedRunsAreFinal` | no other process writes the file |
| `SessionsDashboard_proofs` | `SInv` | `SessionsAreSound`, `KeptOrArchivedOnce`, `StopIsComplete` | any chats, messages, tools, crashes |
| | `IInv` | `TraceIsSound` | any turns, iterations, queue, faults |
| `WebKnowledge_proofs` | `KInv` | `DatabaseIsSound`, `EvidenceIsSound`, `SavedIsStored` | any processes, pages, versions, models |
| `Delivery_proofs` | `DInv` | `ChatsAreSound` | any sessions, chats, tokens, retries |
| `Channels_proofs` | `SendInv` | `SendingIsSound` | any attachments, chunks, attempts, failed calls |
| | `TakenInv` | `TakenIsKept` | any receivers, messages, remembered ids, pushes, faults |
| | `TakenInv`, `OnceInv` | `OnceInOrder` | any of these |
| `Standalone_proofs` | `ChatInv`, `OnboardInv` | `CommandLineIsSound`, that is `TerminalIsSound` and `ConfigIsTheUsers` | any lines, texts, subagents, edits, crashes |
| | `TranscriptInv` | `NothingForgotten` | any turns, calls, limits, archives, errors, restarts |
| | `TranscriptInv`, `LegalInv` | `RequestsAreLegal` | any of these, on all three wires |
| `Evaluation_proofs` | `EvaluationInv`, `QueryInv` | `EvaluationIsSound`, that is `ReportIsSound` and `QueryIsSound` | any items, texts, classes, similarities, thresholds, verdicts |

Each of these invariants was first an invariant of a TLC run on the bounds of the
module's own run, and is written so that its parts have a name.

### Memory

`IInv` adds to the database's coherence what each process holds (`LocalOK`): a
snapshot that was read is either stale, and then every compare-and-set refuses it, or
the head; a staged intent is the rendering of that snapshot; a confirmation has
an intent. Without it the database facts are not inductive, because `Stage` and
`Confirm` write values computed several steps earlier. Most actions touch one
process only: the lemmas `...Moves` show that they leave a sound local record, and
`QuietStep` that this suffices. The refinement maps `Commit` to `Record`, `Stage` to
`Restage`, `Confirm` to `Acknowledge`, `RecordBaseline` to `Adopt`, everything else to
a stutter. The only assumption is that the empty snapshot is a snapshot.

`HInv` adds what a caller is told (`Honest`): an operation is in `_commit` exactly while
its event is committed and not yet reported, and what it is about to confirm is at
least that event. It needs no assumption about processes: revisions only grow.

`SInv` is about a single process (`Alone`). That is needed: with two processes a
`HISTORY.md` rendered by one can be written after the commit of the other, and a
text compared by one can be replaced after the other has published. With one,
the snapshot that a routine has read stays the head until it commits (`Solo`),
so only the person comes between a comparison and a write; `Calm` says what the files
are if the person did not (`used.close = 0`), and an import is due (`ImportDue`) only
while an edit is not yet accounted for, which bounds the imports by the edits.

### Scheduler

`Alone` adds that a running service never reloads, that the jobs left in
`due_jobs` are still live and distinct (`TurnsAreLive`), that recorded runs lie in the past
and that no job is scheduled for one. Every method ends in a save and an arm, so
`SaveAndArmTypes` and `SaveAndArmAlone` reduce it to what it does to the list
(`WithJobs`, `EnabledJobs`, `RecomputedJobs`, `FinishedJobs`). The last three properties
assume that no other process writes the file (`MaxForeign = 0`).

### Sessions

`SInv` is `Control /\ Sessions`. `Control` is about places: of all tasks at most one is in a
section without an await (`OneSection`); who is under a consolidation lock is the first of
its queue (`LockOK`); what `/stop` has popped is cancelled or over, and no subagent
that it looked for is left out (`StopOK`), from which `StopIsComplete` follows. `Sessions` is
about what is held: an entry of a session is a turn that is over or nearly, each once;
two Session objects have no entry in common, because the cache is left only
for an empty object or a fresh load; at every await the file is what is cached (`FileOK`), so
that a crash loses only what a torn save loses; what a task counted under the lock is still so when
it writes (`WorkOK`); an entry that is not consolidated was not archived since the last
crash, but between commit and checkpoint (`Fresh`, `Committing`). The exceptions are those
of the code: a chat in which a turn overlapped `/new`, and one whose file was cut short by a
crash, are not `Calm`. A crash is the hardest step (`CutShort`): a blank file is nobody's, an
old one is the cached object. TLC checked `SInv` with two chats as well (4.7
million states) before the proof.

### Knowledge base

`KInv` says what a section without an await relies on. No task of the same process
runs before it ends, and a task of another process is told by a ghost of its own (`Told`, which
sets `meanwhile`): until then `found` is the page's row (`ReadOK`), the hits of a
search are the rows they were read from, and evidence is of one version. Row ids are
bounded by the counters, so that a new row meets no old one. The first start alone
names the model, and those that start later have compared theirs (`ModelOK`), unless two first
starts raced. The proof needs what `_split_blocks` and `_build_rows` do with a text:
blocks are numbered in order and every one has a chunk (`KnowledgeAssumption`; a page without
text is not ingested), and that "none" is not the name of a model.

### Delivery

An indicator that is on has a `Reason`, some work at hand that will turn it off: a turn of a
streaming session that has shown nothing yet, an answer or a delta on its way,
or a stream on the screen whose end is to come. The steps hand the reason on: a turn
that starts takes over from the message that waited, a delta from the turn, the
buffer from the delta. `DeltasEnd` keeps a reason alive in the queue: after a delta comes the
end of its segment or an answer in one piece, or its segment is still open at the model.
Whether the head of the queue is coalesced, filtered or sent is covered by two
lemmas on the messages that are `Ready`: a step of the agent only appends (`Grows`), a step of the
dispatcher takes a first part away (`Takes`). How far coalescing goes is a least
number; its existence is `NatLeast`, from the library's well-founded order of the
naturals. Assumed of the constants: a session streams only on a channel that is
enabled, for the flag comes with messages that a running channel has put on the bus.

The proof found one mistake in the model: in `Effect` two guards of a `CASE` overlapped for
a message outside any stream that is sent, so that its value was left to a choice. It
is a chain of `IF` now, and so are the places of `Transcript` with
overlapping guards.

### Sending

`SendInv` says where an attempt stands in the parts of its message (`Listed`, `Place`), what has been
seen of the parts behind it (`Told`), and what attempts cost (`Calls`): an attempt that raised has
used up all ways of one part, so that fewer failed calls than attempts times
ways leave one attempt that succeeds. It is the relation of these two that makes
`RetriesMend` inductive. `Discord` does not raise, and is bounded by its own three tries.

### Receiving

`TakenInv` says where a wanted message can be (`OnItsWay`): the inbox, a handler that waits, a
buffer, the list of a fetch, the bus; it is in one of these, still to come from the
server (`StillComes`), or an accepted loss (`Kept`). That is not inductive: a
delivery of an id that is remembered is dropped. So what an adapter remembers must have got through
(`SeenIsKept`), and `PartsUsed` says which adapter uses which part of the state, and how the
cursors stand: what is saved is not ahead of what was taken, but in Weixin when its state file is
gone after a restart. Of Slack's two events for a mention only one counts as a delivery (`Counts`).
The evictions forget ids, which never hurts here; that a half of the ids is kept or the oldest are
dropped matters for `OnceInOrder` only. `StepTaken`, `RestartTaken` and the lemmas of the mail
fetch go through the thirteen receivers; the rest say that what a step does not name stays
(`Aside`, `Beside`). Assumed: the bounds are natural numbers.

`OnceInv` is about what may still come. A message is `Accepted` when it is on the bus or
past the adapter's check, and then `Shut`: its id is remembered, the cursor has passed
it, the server has pushed it for the last time, its mail is marked. `Once` has both, and
that an accepted message is in one place, once (`OnePlace`). It speaks of the messages
that are `Fresh`, which no restart or full memory may repeat; there the evictions
matter, because what is forgotten while the server may send it again stops to be
`Fresh`. Of Mochat's sessions an id may be forgotten when no notification is left and
every answer under way begins after it (`Exhausted`). The order needs more of the
adapters that take one message after the other (`ArrivalOrder`): what is on the bus
precedes what a handler has, that what waits, and that what will come (`BusFirst`,
`HandlerNext`, `InboxNext`, `ListNext`); a search that was cut short leaves out later
mails only (`SearchIsAhead`), and what WhatsApp's bridge may push again waits or is
remembered (`PushedIsKnown`). For the other adapters no order is claimed. `StillOnce`,
`Onward` and `RestingOrder` say once what a step that takes nothing keeps; the lemmas
`...Once` and `...Order` are one for each action.

### Traces

Writes run in threads, so the invariant `IInv` says what keeps them apart: a run has at most
one write, the one that its turn awaits or, while it drains, one of its hook
(`ControlOK`); a row ends with its turn (`EndOK`); and each place a turn can be at bounds
the places of the events stored so far, strictly if one is being written
(`EventsOK`, `High`). `OneRun` reduces a step to the run it is about, and `WriteBegins`,
`NoWrite` and `StopsWith` cover the ways in which a turn goes on. Assumed: the queue holds an
event, and a turn has an iteration.

### Command line

A text that a turn has sent is in one place: in the outbound queue, in the response
that the prompt will print, or printed (`InOnePlace`), and in one at all (`AllShown`); the
loop's own answers (`OwnAnswers`) are in none.
`OneAtATime` follows the one line the prompt waits for: in the inbound queue, at work,
answered, or its answer consumed. It cannot be had without `Answered`, which says
that of the messages in the queue only the last ends the turn; and it holds as long as
nobody but turns writes to the terminal (`upset.unasked`). `DisplayEnds` says after how many
messages the spinner rests, which `StillShifts` counts down.

`OnboardInv` relates values to what was entered (`OfUser`): those that are new are exactly the
fields entered, and a value of the old file is there or among them. A draft is honest
about its own fields and those of the drafts around it; "[Done]" takes over the fields of
the section and no others (`TakenIsOfUser`), which keeps that relation. A wizard left at
once has confirmed nothing, because the configuration it started from has nothing new.

The proof found a mistake in the model: a crash left the drafts, and the steps of the wizard that
look at a draft could still be taken by the dead process. `Crash` drops them now.

### Transcript

`TranscriptInv` says of the position that a message of the user follows it and that all before it
is archived, or is the chunk of the archive under way (`PositionIsSound`, `JobIsSound`); both hold until
the heartbeat prunes under an archive. `SeenIsSent` needs more: when a request is built,
`FindLegalStart` must drop nothing after the first message of the user, and that is so because
every later result has its call before it in the same turn of the user (`CallsAreKept`), in the
session as in what a turn is about to save (`TurnIsSound`). `_save_turn` skips
messages, so that the proof follows the order in which those it keeps stand (`Embeds`), which
holds because a message that calls is always kept. `HistoryHolds` puts this together.
What the loops of `_find_legal_start` and `_save_turn` compute is shown by
induction (`Induct`, `Recursion`), from the least element of a set of naturals.

`LegalInv` adds that transcripts are `Paired`: the results of a message's calls follow it at
once, in their order, and every result has its call (`IsAnswered`), but for results at the very
front, which may be the rest of a turn that an earlier version cut. That exception is what
makes it hold of any session file and of what the heartbeat keeps, and `_find_legal_start`
takes it away: what it leaves does not begin with a result. A turn is paired up to its last
message while that message's tools run (`TurnIsLegal`). Dropping a first part, appending
and saving keep it (`PairedDropped`, `PairedJoined`, `PairedResults`, `PairedSaved`).
Of a `LegalRequest` each wire is shown on its own: OpenAI's keeps the messages in their
places; Codex's puts the items of message j before those of j + 1 (`PartsAt`), so that
calls come before outputs; Anthropic's has the blocks of message j in message g[j], which
grows by one where the side changes (`PlacesUpto`), so that the results of a
call are in the message after it (`ResultsNext`).

### Evaluations

`EvaluationInv` says of each gold snapshot matched so far what its matching is (`MatchedWell`)
and that of every pair the judge was asked about and called the same, one end is taken
(`JudgedAll`). The latter must hold against the cache as it grows: a verdict
is never changed, so that what is left over later is judged as before (`VerdictsAre`).
That a perfect snapshot is matched completely rests on weights: pairing
each item with itself weighs n times `Same`, nothing weighs more, and an assignment of that
weight has no pair below it, thus none below a threshold (`EqualsWeighMost`).
`TakeInOrder` is decided along the order of the pairs, which is total (`TakenIsDecided`,
`EarlierIsAnOrder`). Sums over sets are compared term by term (`SumsCompare`), which puts
a summed rate between its terms (`RateBetween`): were it below all of them, tp * FN would
exceed fn * TP in every case, and so in the sum, where both are TP * FN.

`QueryInv` needs little beside the property: the k-th memory of a text is paired with the k-th
of the other side (`SameTextMeets`), and ranks are places in a set of numbers (`RanksFit`).
Assumed are finitely many items and memories, similarities and thresholds that are numbers, and
no similarity or threshold above that of a text and itself.

### Only model-checked

- Liveness (`PendingResolves`, `DueJobRuns`, `Drains`, `TakenIsHandled`, `PromptReturns`,
  `PageCatchesUp`), which TLAPS does not prove.
- `NothingOverwritten`, `DisableKeepsTurn` and `StreamedWasSent`, which are violated where TLC checks them.
- `StreamIsShown` compares texts that folds and flattenings build from chunks: induction
  over data, for which the installed provers lack a theorem that can be instantiated.

## Not modelled

- Of the memory: the records inside a snapshot and the indexes over them, scored
  retrieval, validation of the model's output, the parser's grammar.
- Of the scheduler: a torn read of `jobs.json` (its write is not atomic), two
  writes within one modification time, changes of the wall clock, worker threads
  of the dashboard, more than one `run_job` at a time (only tests call it).
- Of the sessions and the loop: token counts, prompt texts, `/restart` as anything but
  a crash, shutdown but for the dispatcher's, the migration of old session files.
- Of the knowledge base and retrieval: parsing of pages, scores and rank fusion.
- Of the channels: login, media, formatting, group policies in detail,
  Feishu's stream cards and Matrix's threads; of the providers: parsing of
  answers, connections, the registry.
- Of the dashboard: redaction and previews, paging of the runs, the publication
  of task changes (it is that of runs), layout and forms of the page.
- The HTTP handlers (each reads or calls one operation of a component above),
  file, shell, web and MCP tools, security checks, the upgrade script,
  exact-match benchmarks and the bridge: I/O, wiring and parsing without a
  protocol of their own.

## Plan

1. An abstract specification of a chat (kept, then archived) that
   `AgentSessions` and `Transcript` both implement.
2. `AgentSessions` with two chats and a heartbeat that prunes.
