----------------------------- MODULE MemorySync -----------------------------
(***************************************************************************)
(* The long-term memory of nanobot: the SQLite snapshot (memory_db.py),    *)
(* its editable Markdown view MEMORY.md and its export HISTORY.md          *)
(* (memory_sync.py), and the service whose operations read and write them  *)
(* (memory_service.py).                                                    *)
(*                                                                         *)
(* A process of Procs is one running nanobot with one MemoryService on the *)
(* workspace.  Inside a process the asyncio write lock lets one operation  *)
(* run at a time; what still interleaves with it is a person editing or    *)
(* deleting the files, a crash, and another process on the same workspace. *)
(* Every SQLite transaction and every file system call is one step.        *)
(*                                                                         *)
(* A snapshot is a member of Contents; a text is what the synchronizer can *)
(* tell about MEMORY.md.  A definition Mut_X is a plausible mistake in the *)
(* definition it precedes; the specification does not use it.              *)
(***************************************************************************)
EXTENDS Integers, Sequences, FiniteSets

CONSTANTS
    Contents,          \* the memory snapshots
    Empty,             \* the snapshot without any record
    Procs,             \* the processes that share the workspace
    MaxWrites,         \* bound: consolidate and archive_raw calls
    MaxEdits,          \* bound: manual edits of the two files
    MaxCrashes,        \* bound: crashes
    MaxFaults          \* bound: file system errors

ASSUME EmptyAssumption == Empty \in Contents

VARIABLES
    revision,     \* metadata row 'revision'
    memories,     \* canonical_memories
    events,       \* raw_events; mem is the snapshot the event committed (ghost)
    published,    \* memory_sync_state: last published revision and text
    pending,      \* memory_sync_state: publication intent
    memoryFile,   \* MEMORY.md
    historyFile,  \* HISTORY.md: how many events it shows
    svc,          \* what each process is doing
    used          \* how much of the bounds is used up; close: see Closeness (ghost)

db    == <<revision, memories, events, published, pending>>
files == <<memoryFile, historyFile>>
vars  == <<revision, memories, events, published, pending,
           memoryFile, historyFile, svc, used>>

-----------------------------------------------------------------------------
(* Data. *)

NoRev     == -1
NoHistory == -1

Text == [form : {"missing", "zero", "malformed", "loose", "rendered"}, mem : Contents]

Rendered(c) == [form |-> "rendered", mem |-> c]   \* render_memory_markdown
Loose(c)    == [form |-> "loose", mem |-> c]      \* parses to c, not in canonical layout
Missing     == [form |-> "missing", mem |-> Empty]
ZeroByte    == [form |-> "zero", mem |-> Empty]
Malformed   == [form |-> "malformed", mem |-> Empty]

Parses(t) == t.form \in {"loose", "rendered"}     \* parse_memory_markdown succeeds

\* The snapshot of a revision: the one its event committed, Empty for revision 0.
Snapshot(r) == IF r = 0 THEN Empty ELSE events[r].mem

NoBaseline == [rev |-> NoRev, text |-> Missing]
NoIntent   == [rev |-> NoRev, expected |-> Missing, target |-> Missing]

\* MemoryWriteResult, or the exception that reached the caller.
Returned(committed, exported, retryable) ==
    [outcome |-> "returned", committed |-> committed,
     exported |-> exported, retryable |-> retryable]
Raised   == [outcome |-> "raised", committed |-> FALSE, exported |-> FALSE, retryable |-> FALSE]
NoResult == [outcome |-> "none", committed |-> FALSE, exported |-> FALSE, retryable |-> FALSE]

\* Local state of a process.  stage: which routine runs, MemorySynchronizer.sync,
\* the body of consolidate / archive_raw, or _commit.  caller: who called
\* recover_pending.  next: what follows publish_history.  redo: the sync that
\* follows a stale extraction.  wrote: the revision this operation committed.
Down(result) ==
    [pc |-> "down", op |-> "none", stage |-> "sync", caller |-> "sync",
     next |-> "confirm", redo |-> FALSE, cur |-> [rev |-> 0, mem |-> Empty],
     base |-> NoBaseline, seen |-> Missing, intent |-> NoIntent, draft |-> Empty,
     fresh |-> FALSE, shown |-> 0, wrote |-> NoRev, result |-> result]

\* Where the event loop is suspended or nothing runs.
Suspended == {"down", "idle", "embed", "extract"}
Labels == Suspended \cup
    {"recover", "compare", "recheck", "replace", "renderHistory", "writeHistory",
     "confirm", "readRevision", "readRows", "readState", "readFile", "readExpected",
     "stage", "baseline", "checkRevision", "checkFile", "commit"}

-----------------------------------------------------------------------------
(* Control: svc[p] becomes s, and nothing else of svc changes. *)

Set(p, s)  == svc' = [svc EXCEPT ![p] = s]
Goto(p, l) == Set(p, [svc[p] EXCEPT !.pc = l])

Finish(p, result) ==
    Set(p, [Down(result) EXCEPT !.pc = "idle", !.op = svc[p].op, !.wrote = svc[p].wrote])

\* The compare-and-set of memory_db.py: the snapshot this process read is still the head.
\* Mutant: any snapshot will do, however old.
Mut_AnySnapshotIsHead(p) == TRUE
AtHead(p) == revision = svc[p].cur.rev

\* An exception.  _commit turns a failed publication into a result, consolidate
\* and archive_raw catch the two synchronization errors of sync, the constructor
\* and everything else let the exception out.
\* Mutant: a failed publication is reported as a failed commit.
Mut_CommitForgotten(p, isSyncError) ==
    IF svc[p].caller = "boot" THEN Set(p, Down(Raised)) ELSE Finish(p, Returned(FALSE, FALSE, TRUE))
Raise(p, isSyncError) ==
    CASE svc[p].caller = "boot"   -> Set(p, Down(Raised))
      [] svc[p].caller = "commit" -> Finish(p, Returned(TRUE, FALSE, TRUE))
      [] OTHER -> IF isSyncError /\ svc[p].op # "sync"
                  THEN Finish(p, Returned(FALSE, FALSE, FALSE))
                  ELSE Finish(p, Raised)

\* sync returned: the read-only callers are done, the writers go on.
SyncDone(p) ==
    CASE svc[p].op = "sync" -> Finish(p, Returned(TRUE, TRUE, TRUE))
      [] svc[p].op # "sync" /\ svc[p].redo -> Finish(p, Returned(FALSE, FALSE, FALSE))
      [] OTHER -> Set(p, [Down(NoResult) EXCEPT !.pc = "readRevision", !.op = svc[p].op,
                                                !.stage = "extract"])

\* recover_pending or publish_pending returned to its caller.
RecoverDone(p) ==
    CASE svc[p].caller = "boot"   -> Finish(p, NoResult)
      [] svc[p].caller = "sync"   ->
           Set(p, [svc[p] EXCEPT !.pc = "readRevision", !.intent = NoIntent])
      [] svc[p].caller = "stage"  -> SyncDone(p)
      [] svc[p].caller = "commit" -> Finish(p, Returned(TRUE, TRUE, TRUE))

-----------------------------------------------------------------------------
(* MemoryService: construction and the public operations. *)

Start(p) ==
    /\ svc[p].pc = "down"
    /\ IF pending.rev = NoRev
       THEN Finish(p, NoResult)
       ELSE Set(p, [Down(NoResult) EXCEPT !.pc = "recover", !.caller = "boot"])
    /\ UNCHANGED <<db, files, used>>

\* op "sync" stands for sync_markdown, prepare_context and consolidate([]).
Invoke(p, op) ==
    /\ svc[p].pc = "idle"
    /\ op \in {"consolidate", "archive"} => used.writes < MaxWrites
    /\ Set(p, [Down(NoResult) EXCEPT !.pc = "recover", !.op = op])
    /\ used' = IF op = "sync" THEN used ELSE [used EXCEPT !.writes = @ + 1]
    /\ UNCHANGED <<db, files>>

-----------------------------------------------------------------------------
(* recover_pending, publish_pending, publish_history. *)

RecoverRead(p) ==
    /\ svc[p].pc = "recover"
    /\ CASE pending.rev # NoRev ->
              Set(p, [svc[p] EXCEPT !.pc = "compare", !.intent = pending])
         [] pending.rev = NoRev /\ svc[p].caller # "sync" /\ historyFile = NoHistory ->
              Set(p, [svc[p] EXCEPT !.pc = "renderHistory", !.next = "return"])
         [] OTHER -> RecoverDone(p)
    /\ UNCHANGED <<db, files, used>>

\* Mutant: a text that is neither expected nor target is replaced too.
Mut_OverwriteOnConflict(p) ==
    /\ svc[p].pc = "compare"
    /\ IF memoryFile = svc[p].intent.target
       THEN Set(p, [svc[p] EXCEPT !.pc = "renderHistory", !.next = "confirm"])
       ELSE Goto(p, "replace")
    /\ UNCHANGED <<db, files, used>>
\* Mutant: a file that already shows the target counts as a conflict.
Mut_TargetIsConflict(p) ==
    /\ svc[p].pc = "compare"
    /\ IF memoryFile = svc[p].intent.expected THEN Goto(p, "recheck") ELSE Raise(p, TRUE)
    /\ UNCHANGED <<db, files, used>>
\* Mutant: recovery takes it that HISTORY.md was written with MEMORY.md.
Mut_HistoryNotRecovered(p) ==
    /\ svc[p].pc = "compare"
    /\ CASE memoryFile = svc[p].intent.expected -> Goto(p, "recheck")
         [] memoryFile # svc[p].intent.expected /\ memoryFile = svc[p].intent.target ->
              Goto(p, "confirm")
         [] OTHER -> Raise(p, TRUE)
    /\ UNCHANGED <<db, files, used>>
CompareFile(p) ==
    /\ svc[p].pc = "compare"
    /\ CASE memoryFile = svc[p].intent.expected -> Goto(p, "recheck")
         [] memoryFile # svc[p].intent.expected /\ memoryFile = svc[p].intent.target ->
              Set(p, [svc[p] EXCEPT !.pc = "renderHistory", !.next = "confirm"])
         [] OTHER -> Raise(p, TRUE)
    /\ UNCHANGED <<db, files, used>>

\* _atomic_write_checked: the comparison just before os.replace ...
RecheckFile(p) ==
    /\ svc[p].pc = "recheck"
    /\ CASE memoryFile = svc[p].intent.target ->
              Set(p, [svc[p] EXCEPT !.pc = "renderHistory", !.next = "confirm"])
         [] memoryFile # svc[p].intent.target /\ memoryFile = svc[p].intent.expected ->
              Goto(p, "replace")
         [] OTHER -> Raise(p, TRUE)
    /\ UNCHANGED <<db, files, used>>

\* ... and os.replace itself.
\* Mutant: the publication goes on without the file.
Mut_ReplaceForgotten(p) ==
    /\ svc[p].pc = "replace"
    /\ Set(p, [svc[p] EXCEPT !.pc = "renderHistory", !.next = "confirm"])
    /\ UNCHANGED <<db, files, used>>
ReplaceFile(p) ==
    /\ svc[p].pc = "replace"
    /\ memoryFile' = svc[p].intent.target
    /\ Set(p, [svc[p] EXCEPT !.pc = "renderHistory", !.next = "confirm"])
    /\ UNCHANGED <<db, historyFile, used>>

\* Mutant: the newest event is not shown.
Mut_NewestEventDropped == Len(events) - 1
HistoryView == Len(events)   \* render_history_view

RenderHistory(p) ==
    /\ svc[p].pc = "renderHistory"
    /\ Set(p, [svc[p] EXCEPT !.pc = "writeHistory", !.shown = HistoryView])
    /\ UNCHANGED <<db, files, used>>

WriteHistory(p) ==
    /\ svc[p].pc = "writeHistory"
    /\ historyFile' = svc[p].shown
    /\ CASE svc[p].next = "confirm"  -> Goto(p, "confirm")
         [] svc[p].next = "baseline" -> Goto(p, "baseline")
         [] svc[p].next = "return"   ->
              IF svc[p].caller = "sync" THEN SyncDone(p) ELSE RecoverDone(p)
    /\ UNCHANGED <<db, memoryFile, used>>

\* confirm_memory_publish
\* Mutant: whatever is pending is confirmed.
Mut_AnyIntentIsOurs(p) == TRUE
IntentIsOurs(p) == pending.rev = svc[p].intent.rev /\ pending.target = svc[p].intent.target

Confirm(p) ==
    /\ svc[p].pc = "confirm"
    /\ IF IntentIsOurs(p)
       THEN /\ published' = [rev |-> svc[p].intent.rev, text |-> svc[p].intent.target]
            /\ pending' = NoIntent
            /\ RecoverDone(p)
       ELSE Raise(p, FALSE) /\ UNCHANGED <<published, pending>>
    /\ UNCHANGED <<revision, memories, events, files, used>>

-----------------------------------------------------------------------------
(* MemorySynchronizer.sync and _import_file. *)

\* read_snapshot is two statements on an autocommit connection: the revision ...
ReadRevision(p) ==
    /\ svc[p].pc = "readRevision"
    /\ Set(p, [svc[p] EXCEPT !.pc = "readRows", !.cur.rev = revision])
    /\ UNCHANGED <<db, files, used>>

\* ... and the rows.
ReadRows(p) ==
    /\ svc[p].pc = "readRows"
    /\ Set(p, [svc[p] EXCEPT !.cur.mem = memories,
                             !.pc = IF svc[p].stage = "sync" THEN "readState" ELSE "readExpected"])
    /\ UNCHANGED <<db, files, used>>

ReadState(p) ==
    /\ svc[p].pc = "readState"
    /\ Set(p, [svc[p] EXCEPT !.pc = "readFile", !.base = published])
    /\ UNCHANGED <<db, files, used>>

\* What sync decides about the text t it read, for the snapshot cur and the
\* published baseline base it read before.
StageView(p, t) ==
    Set(p, [svc[p] EXCEPT !.pc = "stage", !.seen = t,
                          !.intent = [rev      |-> svc[p].cur.rev,
                                      expected |-> t,
                                      target   |-> Rendered(svc[p].cur.mem)]])

AdoptView(p, t) ==
    Set(p, [svc[p] EXCEPT !.pc = "renderHistory", !.next = "baseline", !.seen = t])

\* Mutant: equal records are taken for an equal text.
Mut_LayoutKept(p, t) ==
    CASE ~ Parses(t) -> Raise(p, TRUE)
      [] Parses(t) /\ t.mem # svc[p].cur.mem ->
           Set(p, [svc[p] EXCEPT !.pc = "embed", !.seen = t, !.draft = t.mem])
      [] OTHER -> AdoptView(p, t)
ImportFile(p, t) ==
    CASE ~ Parses(t) -> Raise(p, TRUE)
      [] Parses(t) /\ t.mem # svc[p].cur.mem ->
           Set(p, [svc[p] EXCEPT !.pc = "embed", !.seen = t, !.draft = t.mem])
      [] Parses(t) /\ t.mem = svc[p].cur.mem ->
           IF t # Rendered(t.mem) THEN StageView(p, t) ELSE AdoptView(p, t)

FirstSync(p, t) ==
    LET cur == svc[p].cur
    IN  CASE t = Rendered(cur.mem) -> AdoptView(p, t)
          [] t # Rendered(cur.mem) /\ (cur.rev # 0 \/ cur.mem # Empty) -> Raise(p, TRUE)
          [] OTHER -> ImportFile(p, t)

LaterSync(p, t) ==
    LET cur  == svc[p].cur
        base == svc[p].base
    IN  CASE t = base.text /\ cur.rev # base.rev -> StageView(p, t)
          [] t = base.text /\ cur.rev = base.rev ->
               IF historyFile = NoHistory
               THEN Set(p, [svc[p] EXCEPT !.pc = "renderHistory", !.next = "return"])
               ELSE SyncDone(p)
          [] t # base.text /\ cur.rev # base.rev -> Raise(p, TRUE)
          [] t # base.text /\ cur.rev = base.rev -> ImportFile(p, t)

ReadFile(p) ==
    /\ svc[p].pc = "readFile"
    /\ CASE memoryFile = Missing      -> StageView(p, Missing)
         [] memoryFile.form = "zero"  -> Raise(p, TRUE)
         [] OTHER -> IF svc[p].base.rev = NoRev
                     THEN FirstSync(p, memoryFile)
                     ELSE LaterSync(p, memoryFile)
    /\ UNCHANGED <<db, files, used>>

\* stage_memory_publish
Stage(p) ==
    /\ svc[p].pc = "stage"
    /\ IF AtHead(p) /\ pending.rev = NoRev
       THEN /\ pending' = svc[p].intent
            /\ Set(p, [Down(NoResult) EXCEPT !.pc = "recover", !.op = svc[p].op,
                                              !.caller = "stage", !.redo = svc[p].redo])
       ELSE Raise(p, FALSE) /\ UNCHANGED pending
    /\ UNCHANGED <<revision, memories, events, published, files, used>>

\* record_memory_publish_baseline
RecordBaseline(p) ==
    /\ svc[p].pc = "baseline"
    /\ IF AtHead(p) /\ published.rev = NoRev /\ pending.rev = NoRev
       THEN /\ published' = [rev |-> revision, text |-> svc[p].seen]
            /\ SyncDone(p)
       ELSE Raise(p, FALSE) /\ UNCHANGED published
    /\ UNCHANGED <<revision, memories, events, pending, files, used>>

-----------------------------------------------------------------------------
(* Awaits, the checks after them, and commit_snapshot. *)

\* consolidate and archive_raw read the file text they will expect to replace.
ReadExpected(p) ==
    /\ svc[p].pc = "readExpected"
    /\ LET s == [svc[p] EXCEPT !.seen = memoryFile]
       IN  IF s.op = "consolidate"
           THEN Set(p, [s EXCEPT !.pc = "extract"])
           ELSE Set(p, [s EXCEPT !.pc = "checkRevision", !.stage = "commit",
                                 !.draft = s.cur.mem])
    /\ UNCHANGED <<db, files, used>>

\* The model call: a snapshot, or a failure that may be retried.
Extract(p) ==
    /\ svc[p].pc = "extract"
    /\ \/ \E c \in Contents :
            Set(p, [svc[p] EXCEPT !.pc = "checkRevision", !.draft = c])
       \/ Finish(p, Returned(FALSE, FALSE, TRUE))
    /\ UNCHANGED <<db, files, used>>

\* The embedding call (or an unrenderable extraction): it may fail.
Embed(p) ==
    /\ svc[p].pc = "embed"
    /\ \/ Goto(p, "checkRevision")
       \/ IF svc[p].stage = "sync" THEN Raise(p, FALSE)
          ELSE Finish(p, Returned(FALSE, FALSE, TRUE))
    /\ UNCHANGED <<db, files, used>>

\* After each await: has the revision moved ...
CheckRevision(p) ==
    /\ svc[p].pc = "checkRevision"
    /\ Set(p, [svc[p] EXCEPT !.pc = "checkFile", !.fresh = AtHead(p)])
    /\ UNCHANGED <<db, files, used>>

\* ... or the file?  An import conflicts, a stale extraction is discarded after
\* another sync, _commit gives up.
CheckFile(p) ==
    /\ svc[p].pc = "checkFile"
    /\ LET fresh == svc[p].fresh /\ memoryFile = svc[p].seen
       IN  CASE fresh /\ svc[p].stage = "extract" ->
                  Set(p, [svc[p] EXCEPT !.pc = "embed", !.stage = "commit"])
             [] fresh /\ svc[p].stage # "extract" -> Goto(p, "commit")
             [] ~ fresh /\ svc[p].stage = "sync"  -> Raise(p, TRUE)
             [] ~ fresh /\ svc[p].stage = "extract" ->
                  Set(p, [svc[p] EXCEPT !.pc = "recover", !.stage = "sync",
                                        !.caller = "sync", !.redo = TRUE])
             [] ~ fresh /\ svc[p].stage = "commit" ->
                  Finish(p, Returned(FALSE, FALSE, FALSE))
    /\ UNCHANGED <<db, files, used>>

\* Mutant: the revision stands still.
Mut_RevisionKept == revision
NewRevision == revision + 1

\* commit_snapshot with stage_publish: event, rows, revision and publication
\* intent in one transaction, or nothing.
Commit(p) ==
    /\ svc[p].pc = "commit"
    /\ LET s  == svc[p]
           ok == AtHead(p) /\ pending.rev = NoRev
       IN  IF ok
           THEN /\ revision' = NewRevision
                /\ memories' = s.draft
                /\ events' = Append(events, [mem |-> s.draft, by |-> s.stage])
                /\ pending' = [rev |-> NewRevision, expected |-> s.seen,
                               target |-> Rendered(s.draft)]
                /\ Set(p, [Down(NoResult) EXCEPT
                               !.pc = "recover", !.op = s.op, !.stage = s.stage, !.redo = s.redo,
                               !.caller = IF s.stage = "sync" THEN "stage" ELSE "commit",
                               !.wrote = IF s.stage = "sync" THEN NoRev ELSE NewRevision])
           ELSE /\ IF s.stage = "sync" THEN Raise(p, FALSE)
                   ELSE Finish(p, Returned(FALSE, FALSE, AtHead(p)))
                /\ UNCHANGED <<revision, memories, events, pending>>
    /\ UNCHANGED <<published, files, used>>

-----------------------------------------------------------------------------
(* The environment: file system errors, crashes, the person at the files. *)

\* OSError while the temporary file is written or moved.
WriteFails(p) ==
    /\ used.faults < MaxFaults
    /\ svc[p].pc \in {"recheck", "replace", "writeHistory"}
    /\ Raise(p, FALSE)
    /\ used' = [used EXCEPT !.faults = @ + 1]
    /\ UNCHANGED <<db, files>>

\* The process dies; the database and the files keep what they have.
Crash(p) ==
    /\ used.crashes < MaxCrashes
    /\ svc[p].pc # "down"
    /\ Set(p, Down(NoResult))
    /\ used' = [used EXCEPT !.crashes = @ + 1]
    /\ UNCHANGED <<db, files>>

\* How close to the program's own accesses a person writes now.  0: while it waits;
\* 1: between two of its steps, but not 2: between the last comparison and os.replace,
\* the window that spec/MEMORY_P2_IMPLEMENTATION.md concedes.
Closeness ==
    IF \E p \in Procs : svc[p].pc = "replace" THEN 2
    ELSE IF \A p \in Procs : svc[p].pc \in Suspended THEN 0 ELSE 1

PersonWrites ==
    /\ used.edits < MaxEdits
    /\ used' = [used EXCEPT !.edits = @ + 1,
                            !.close = IF Closeness > @ THEN Closeness ELSE @]

EditMemory ==
    /\ PersonWrites
    /\ \E t \in {Missing, ZeroByte, Malformed} \cup {Loose(c) : c \in Contents}
                                               \cup {Rendered(c) : c \in Contents} :
          t # memoryFile /\ memoryFile' = t
    /\ UNCHANGED <<db, historyFile, svc>>

DeleteHistory ==
    /\ PersonWrites
    /\ historyFile # NoHistory
    /\ historyFile' = NoHistory
    /\ UNCHANGED <<db, memoryFile, svc>>

-----------------------------------------------------------------------------
Init ==
    /\ revision = 0
    /\ memories = Empty
    /\ events = <<>>
    /\ published = NoBaseline
    /\ pending = NoIntent
    /\ memoryFile \in {Missing} \cup {Loose(c) : c \in Contents}
    /\ historyFile = NoHistory
    /\ svc = [p \in Procs |-> Down(NoResult)]
    /\ used = [writes |-> 0, edits |-> 0, crashes |-> 0, faults |-> 0, close |-> 0]

Recover(p) ==
    \/ RecoverRead(p)   \/ CompareFile(p)   \/ RecheckFile(p)  \/ ReplaceFile(p)
    \/ RenderHistory(p) \/ WriteHistory(p)  \/ Confirm(p)

Sync(p) ==
    \/ ReadRevision(p)  \/ ReadRows(p)  \/ ReadState(p)  \/ ReadFile(p)
    \/ Stage(p)         \/ RecordBaseline(p)

Write(p) ==
    \/ ReadExpected(p)  \/ Extract(p)  \/ Embed(p)
    \/ CheckRevision(p) \/ CheckFile(p) \/ Commit(p)

\* What the program does by itself once it was started and called.
Run(p) == Recover(p) \/ Sync(p) \/ Write(p)

Next ==
    \/ \E p \in Procs : \/ Start(p)
                        \/ \E op \in {"sync", "consolidate", "archive"} : Invoke(p, op)
                        \/ Run(p)
                        \/ WriteFails(p)
                        \/ Crash(p)
    \/ EditMemory
    \/ DeleteHistory

Spec == Init /\ [][Next]_vars

\* The event loop keeps running, a dead process is started again, and messages
\* or heartbeats keep coming: each of them calls prepare_context.  Nothing is
\* assumed of the person, of crashes or of errors.
FairSpec ==
    /\ Spec
    /\ \A p \in Procs : /\ WF_vars(Run(p))
                        /\ WF_vars(Start(p))
                        /\ WF_vars(Invoke(p, "sync"))

-----------------------------------------------------------------------------
(* Properties. *)

Local ==
    [pc : Labels, op : {"none", "sync", "consolidate", "archive"},
     stage : {"sync", "extract", "commit"}, caller : {"boot", "sync", "stage", "commit"},
     next : {"confirm", "baseline", "return"}, redo : BOOLEAN,
     cur : [rev : Nat, mem : Contents], base : [rev : Nat \cup {NoRev}, text : Text],
     seen : Text,
     intent : [rev : Nat \cup {NoRev}, expected : Text, target : Text],
     draft : Contents, fresh : BOOLEAN, shown : Nat, wrote : Nat \cup {NoRev},
     result : [outcome : {"none", "returned", "raised"}, committed : BOOLEAN,
               exported : BOOLEAN, retryable : BOOLEAN]]

\* The type invariant of the module: every column and local variable keeps its range.
TypeOK ==
    /\ revision \in Nat
    /\ memories \in Contents
    /\ events \in Seq([mem : Contents, by : {"sync", "extract", "commit"}])
    /\ published \in [rev : Nat \cup {NoRev}, text : Text]
    /\ pending \in [rev : Nat \cup {NoRev}, expected : Text, target : Text]
    /\ memoryFile \in Text
    /\ historyFile \in Nat \cup {NoHistory}
    /\ svc \in [Procs -> Local]
    /\ used \in [writes : Nat, edits : Nat, crashes : Nat, faults : Nat, close : Nat]

\* The baseline that later decides whether a person edited MEMORY.md is the exact
\* rendering of the snapshot of its revision, and once no publication is pending
\* it is the baseline of the current revision (memory_sync.py 355-404 relies on it).
BaselineIsRendering ==
    published.rev # NoRev =>
        /\ published.rev \in 0 .. revision
        /\ published.text = Rendered(Snapshot(published.rev))
        /\ pending.rev = NoRev => published.rev = revision

\* A pending publication always carries the newest revision and its rendering: no
\* commit slips in behind an intent, and recovery can never publish an old snapshot.
IntentIsHead ==
    pending.rev # NoRev =>
        /\ pending.rev = revision
        /\ pending.target = Rendered(memories)

\* A snapshot read in two statements is never a mix: when its revision is still the
\* head, so are its rows.  Everything computed from it may rely on the revision alone.
ReadsAreCoherent ==
    \A p \in Procs : svc[p].pc # "readRows" /\ svc[p].cur.rev = revision => svc[p].cur.mem = memories

\* No lost update: the snapshot a commit replaces is the one the extraction or the
\* import was computed from, also when its revision and rows were read apart and
\* other processes commit in between (consolidate 190-220, _import_file 432-438).
NoLostUpdate ==
    [][\A p \in Procs : Commit(p) /\ revision' # revision => memories = svc[p].cur.mem]_vars

\* A result tells the truth: committed iff this call's event is in the database, so
\* the retry loop of archive_messages never repeats an archive that already happened,
\* and an exported result means the published view is at least that revision.
ResultIsHonest ==
    \A p \in Procs :
        LET s == svc[p]
        IN  s.pc = "idle" /\ s.op \in {"consolidate", "archive"} =>
                /\ s.result.committed <=> s.wrote # NoRev
                /\ s.result.exported  => published.rev >= s.wrote

\* A text of MEMORY.md the service may replace: none, or one whose records are in
\* the database, as the pending revision or as the one before it.
Accounted(t) ==
    \/ t = Missing
    \/ /\ Parses(t)
       /\ \/ t.mem = Snapshot(revision)
          \/ revision > 0 /\ t.mem = Snapshot(revision - 1)

\* What a person wrote into MEMORY.md while the program waited for a call, the model or
\* the embedder is never replaced before it was imported.
NoSilentOverwrite ==
    [][\A p \in Procs : ReplaceFile(p) /\ used.close = 0 => Accounted(memoryFile)]_vars

\* "publish committed snapshots without silent overwrite" (memory_sync.py 280), whenever
\* the person wrote, except in the window that the documentation concedes.
NothingOverwritten ==
    [][\A p \in Procs : ReplaceFile(p) /\ used.close < 2 => Accounted(memoryFile)]_vars

\* When the synchronization of prepare_context or sync_markdown returns, the file is
\* the exact view of the snapshot the next prompt is built from.
SyncedFileIsView ==
    [][\A p \in Procs :
          /\ used.close = 0
          /\ svc[p].pc # "idle" /\ svc'[p].pc = "idle"
          /\ svc[p].op = "sync" /\ svc'[p].result.outcome = "returned"
          => memoryFile' = Rendered(memories')]_vars

\* Every "Imported manual MEMORY.md edit" event answers an edit (or the file found at
\* the first start), and none is imported twice, whatever crashed in between.
ImportsAreEdits ==
    Cardinality({i \in 1 .. Len(events) : events[i].by = "sync"}) <= used.edits + 1

\* HISTORY.md, unless somebody deleted it, shows every event whenever no
\* publication is pending and nothing runs, whatever crashed before.
HistoryIsComplete ==
    /\ \A p \in Procs : svc[p].pc \in {"down", "idle"}
    /\ pending.rev = NoRev /\ published.rev # NoRev
    /\ historyFile # NoHistory
    => historyFile = Len(events)

\* A publication that stays pending for ever is blocked by an edit of MEMORY.md that
\* is neither the expected nor the target text; nothing else ever wedges the view.
PendingResolves ==
    <>[](pending.rev # NoRev) => <>[](memoryFile \notin {pending.expected, pending.target})

-----------------------------------------------------------------------------
\* The abstract view of the same state, for the refinement.
Ledger == INSTANCE MemoryLedger WITH
    ledger <- [i \in 1 .. Len(events) |-> events[i].mem],
    intent <- pending.rev,
    acked  <- published.rev

LedgerSpec == Ledger!Spec
=============================================================================
