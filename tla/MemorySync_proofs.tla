-------------------------- MODULE MemorySync_proofs --------------------------
(***************************************************************************)
(* Theorems about MemorySync, for any number of processes and any bounds.  *)
(* IInv is the inductive invariant.  Its two halves depend on each other:  *)
(* the intents and baselines in the database are sound because each        *)
(* process computed them from a snapshot that is either stale, and then    *)
(* refused by the compare-and-set, or exactly the head.  HInv adds what a  *)
(* result says of the database, and SInv what holds when one process works *)
(* on the workspace: what happens to the files, and which import answers   *)
(* which edit.                                                             *)
(***************************************************************************)
EXTENDS MemorySync, FiniteSetTheorems, TLAPS

\* The process carries an intent that it may still confirm.
Confirming(s) ==
    \/ s.pc \in {"compare", "recheck", "replace", "confirm"}
    \/ s.pc \in {"renderHistory", "writeHistory"} /\ s.next = "confirm"

\* The process is about to record the text it saw as the first baseline.
Adopting(s) ==
    \/ s.pc = "baseline"
    \/ s.pc \in {"renderHistory", "writeHistory"} /\ s.next = "baseline"

\* What a process read and computed, against the database as it is now.
LocalOK(s) ==
    /\ s.cur.rev <= revision
    /\ s.pc # "readRows" /\ s.cur.rev = revision => s.cur.mem = memories
    /\ s.pc = "stage" => /\ s.intent.rev = s.cur.rev
                         /\ s.intent.target = Rendered(s.cur.mem)
    /\ Adopting(s) => s.seen = Rendered(s.cur.mem)
    /\ Confirming(s) => s.intent.rev # NoRev

\* The rows belong to the last event, and memory_sync_state to the rows.
DatabaseOK ==
    /\ revision = Len(events)
    /\ memories = Snapshot(revision)
    /\ BaselineIsRendering
    /\ IntentIsHead

\* The inductive invariant.
IInv ==
    /\ TypeOK
    /\ DatabaseOK
    /\ \A p \in Procs : LocalOK(svc[p])

-----------------------------------------------------------------------------
\* The values of MemoryWriteResult, and an exception.
Results == [outcome : {"none", "returned", "raised"}, committed : BOOLEAN,
            exported : BOOLEAN, retryable : BOOLEAN]

\* A process that starts afresh, with any result, is well typed.
LEMMA DownType == ASSUME NEW r \in Results PROVE Down(r) \in Local
  BY EmptyAssumption DEF Down, Local, Results, NoBaseline, NoIntent, Missing, Text, NoRev, Labels, Suspended

\* The program locations, one by one: citing them is cheaper than the set.
LEMMA LabelTypes ==
    /\ "down" \in Labels          /\ "idle" \in Labels         /\ "embed" \in Labels
    /\ "extract" \in Labels       /\ "recover" \in Labels      /\ "compare" \in Labels
    /\ "recheck" \in Labels       /\ "replace" \in Labels      /\ "renderHistory" \in Labels
    /\ "writeHistory" \in Labels  /\ "confirm" \in Labels      /\ "readRevision" \in Labels
    /\ "readRows" \in Labels      /\ "readState" \in Labels    /\ "readFile" \in Labels
    /\ "readExpected" \in Labels  /\ "stage" \in Labels        /\ "baseline" \in Labels
    /\ "checkRevision" \in Labels /\ "checkFile" \in Labels    /\ "commit" \in Labels
  BY DEF Labels, Suspended

\* The results an operation can have.
LEMMA ResultTypes ==
    /\ NoResult \in Results
    /\ Raised \in Results
    /\ \A a, b, c \in BOOLEAN : Returned(a, b, c) \in Results
  BY DEF Results, NoResult, Raised, Returned

\* The database of a new workspace satisfies the invariant.
LEMMA InitIInv == Init => IInv
<1> SUFFICES ASSUME Init PROVE IInv
  OBVIOUS
<1>1. TypeOK
  BY DownType, ResultTypes, EmptyAssumption
  DEF Init, TypeOK, NoBaseline, NoIntent, NoHistory, Missing, Loose, Text, NoRev
<1>2. DatabaseOK
  BY DEF Init, DatabaseOK, Snapshot, BaselineIsRendering, IntentIsHead, NoBaseline, NoIntent
<1>3. \A p \in Procs : LocalOK(svc[p])
  BY DEF Init, LocalOK, Down, Confirming, Adopting
<1> QED BY <1>1, <1>2, <1>3 DEF IInv

\* The empty intent is well typed.
LEMMA IntentType == NoIntent \in [rev : Nat \cup {NoRev}, expected : Text, target : Text]
  BY EmptyAssumption DEF NoIntent, Missing, Text

\* A step of p that leaves its local record sound.
Move(p) == \E s \in Local : LocalOK(s) /\ Set(p, s)

\* Returning to the caller leaves a sound local record.
LEMMA FinishMoves ==
    ASSUME IInv, NEW p \in Procs, NEW r \in Results, Finish(p, r)
    PROVE  Move(p)
<1> DEFINE s == [Down(r) EXCEPT !.pc = "idle", !.op = svc[p].op, !.wrote = svc[p].wrote]
<1>1. svc[p] \in Local
  BY DEF IInv, TypeOK
<1>2. Down(r) \in Local
  BY DownType
<1>3. s \in Local
  BY <1>1, <1>2, LabelTypes DEF Local
<1>4. LocalOK(s)
  BY <1>2 DEF LocalOK, Down, Confirming, Adopting, IInv, TypeOK, DatabaseOK, Snapshot
<1> QED BY <1>3, <1>4 DEF Finish, Move

\* So does raising an exception, whoever catches it.
LEMMA RaiseMoves ==
    ASSUME IInv, NEW p \in Procs, NEW e \in BOOLEAN, Raise(p, e)
    PROVE  Move(p)
<1>1. CASE svc[p].caller = "boot"
  <2>1. Down(Raised) \in Local
    BY DownType, ResultTypes
  <2>2. LocalOK(Down(Raised))
    BY DEF LocalOK, Down, Confirming, Adopting, IInv, TypeOK, DatabaseOK, Snapshot
  <2> QED BY <1>1, <2>1, <2>2 DEF Raise, Move
<1>2. CASE svc[p].caller # "boot"
  <2>1. \E r \in Results : Finish(p, r)
    BY <1>2, ResultTypes DEF Raise
  <2> QED BY <2>1, FinishMoves
<1> QED BY <1>1, <1>2

\* So does returning from sync.
LEMMA SyncDoneMoves ==
    ASSUME IInv, NEW p \in Procs, SyncDone(p)
    PROVE  Move(p)
<1>1. CASE svc[p].op = "sync" \/ svc[p].redo
  <2>1. \E r \in Results : Finish(p, r)
    BY <1>1, ResultTypes DEF SyncDone
  <2> QED BY <2>1, FinishMoves
<1>2. CASE ~ (svc[p].op = "sync" \/ svc[p].redo)
  <2> DEFINE s == [Down(NoResult) EXCEPT !.pc = "readRevision", !.op = svc[p].op,
                                         !.stage = "extract"]
  <2>1. svc[p] \in Local
    BY DEF IInv, TypeOK
  <2>2. Down(NoResult) \in Local
    BY DownType, ResultTypes
  <2>3. s \in Local
    BY <2>1, <2>2, LabelTypes DEF Local
  <2>4. LocalOK(s)
    BY <2>1 DEF LocalOK, Down, Confirming, Adopting, IInv, TypeOK, DatabaseOK, Snapshot
  <2> QED BY <1>2, <2>3, <2>4 DEF SyncDone, Move
<1> QED BY <1>1, <1>2

\* So does returning from recover_pending or publish_pending.
LEMMA RecoverDoneMoves ==
    ASSUME IInv, NEW p \in Procs, RecoverDone(p), svc[p].pc # "readRows"
    PROVE  Move(p)
<1>0. svc[p] \in Local /\ LocalOK(svc[p])
  BY DEF IInv, TypeOK
<1>1. CASE svc[p].caller \in {"boot", "commit"}
  <2>1. \E r \in Results : Finish(p, r)
    BY <1>1, ResultTypes DEF RecoverDone
  <2> QED BY <2>1, FinishMoves
<1>2. CASE svc[p].caller = "stage"
  BY <1>2, SyncDoneMoves DEF RecoverDone
<1>3. CASE svc[p].caller = "sync"
  <2> DEFINE s == [svc[p] EXCEPT !.pc = "readRevision", !.intent = NoIntent]
  <2>1. s \in Local
    BY <1>0, LabelTypes, IntentType DEF Local
  <2>2. LocalOK(s)
    BY <1>0 DEF LocalOK, Confirming, Adopting, Local
  <2> QED BY <1>3, <2>1, <2>2 DEF RecoverDone, Move
<1> QED BY <1>0, <1>1, <1>2, <1>3 DEF Local

-----------------------------------------------------------------------------
(* Steps of a process that leave the database alone. *)

\* A sound move that leaves the database alone preserves the invariant.
LEMMA QuietStep ==
    ASSUME IInv, NEW p \in Procs, Move(p), UNCHANGED db,
           memoryFile' \in Text, historyFile' \in Nat \cup {NoHistory},
           used' \in [writes : Nat, edits : Nat, crashes : Nat, faults : Nat, close : Nat]
    PROVE  IInv'
<1>1. PICK s \in Local : LocalOK(s) /\ Set(p, s)
  BY DEF Move
<1>2. svc' = [svc EXCEPT ![p] = s]
  BY <1>1 DEF Set
<1>3. svc \in [Procs -> Local]
  BY DEF IInv, TypeOK
<1>4. TypeOK'
  BY <1>2, <1>3 DEF IInv, TypeOK, db
<1>5. DatabaseOK'
  BY DEF IInv, DatabaseOK, BaselineIsRendering, IntentIsHead, Snapshot, db
<1>6. \A q \in Procs : LocalOK(svc[q])'
  <2> SUFFICES ASSUME NEW q \in Procs PROVE LocalOK(svc[q])'
    OBVIOUS
  <2>1. svc'[q] = IF q = p THEN s ELSE svc[q]
    BY <1>2, <1>3
  <2>2. LocalOK(svc'[q])
    BY <1>1, <2>1 DEF IInv
  <2> QED BY <2>2 DEF LocalOK, db
<1> QED BY <1>4, <1>5, <1>6 DEF IInv

\* MemoryService.__init__.
LEMMA StartMoves ==
    ASSUME IInv, NEW p \in Procs, Start(p)
    PROVE  Move(p)
<1> DEFINE s == [Down(NoResult) EXCEPT !.pc = "recover", !.caller = "boot"]
<1>1. Down(NoResult) \in Local
  BY DownType, ResultTypes
<1>2. s \in Local
  BY <1>1, LabelTypes DEF Local
<1>3. LocalOK(s)
  BY <1>1 DEF LocalOK, Down, Confirming, Adopting, IInv, TypeOK, DatabaseOK, Snapshot
<1>4. CASE pending.rev = NoRev
  BY <1>4, ResultTypes, FinishMoves DEF Start
<1>5. CASE pending.rev # NoRev
  BY <1>2, <1>3, <1>5 DEF Start, Move
<1> QED BY <1>4, <1>5

\* Entering a public operation.
LEMMA InvokeMoves ==
    ASSUME IInv, NEW p \in Procs, NEW op \in {"sync", "consolidate", "archive"}, Invoke(p, op)
    PROVE  Move(p)
<1> DEFINE s == [Down(NoResult) EXCEPT !.pc = "recover", !.op = op]
<1>1. Down(NoResult) \in Local
  BY DownType, ResultTypes
<1>2. s \in Local
  BY <1>1, LabelTypes DEF Local
<1>3. LocalOK(s)
  BY <1>1 DEF LocalOK, Down, Confirming, Adopting, IInv, TypeOK, DatabaseOK, Snapshot
<1> QED BY <1>2, <1>3 DEF Invoke, Move

\* The read at the head of recover_pending: a pending intent has a revision.
LEMMA RecoverReadMoves ==
    ASSUME IInv, NEW p \in Procs, RecoverRead(p)
    PROVE  Move(p)
<1>0. svc[p] \in Local
  BY DEF IInv, TypeOK
<1>00. LocalOK(svc[p]) /\ svc[p].pc = "recover"
  BY DEF IInv, RecoverRead
<1>1. CASE pending.rev # NoRev
  <2> DEFINE s == [svc[p] EXCEPT !.pc = "compare", !.intent = pending]
  <2>1. s \in Local
    BY <1>0, LabelTypes DEF Local, IInv, TypeOK
  <2>2. LocalOK(s)
    BY <1>0, <1>00, <1>1 DEF LocalOK, Confirming, Adopting, Local
  <2> QED BY <1>1, <2>1, <2>2 DEF RecoverRead, Move
<1>2. CASE pending.rev = NoRev /\ svc[p].caller # "sync" /\ historyFile = NoHistory
  <2> DEFINE s == [svc[p] EXCEPT !.pc = "renderHistory", !.next = "return"]
  <2>1. s \in Local
    BY <1>0, LabelTypes DEF Local
  <2>2. LocalOK(s)
    BY <1>0, <1>00 DEF LocalOK, Confirming, Adopting, Local
  <2> QED BY <1>2, <2>1, <2>2 DEF RecoverRead, Move
<1>3. CASE RecoverDone(p)
  BY <1>00, <1>3, RecoverDoneMoves
<1> QED BY <1>1, <1>2, <1>3 DEF RecoverRead

\* The comparison in recover_pending.
LEMMA CompareFileMoves ==
    ASSUME IInv, NEW p \in Procs, CompareFile(p)
    PROVE  Move(p)
<1>0. svc[p] \in Local
  BY DEF IInv, TypeOK
<1>00. LocalOK(svc[p]) /\ svc[p].pc = "compare"
  BY DEF IInv, CompareFile
<1> DEFINE s == [svc[p] EXCEPT !.pc = "recheck"]
           t == [svc[p] EXCEPT !.pc = "renderHistory", !.next = "confirm"]
<1>1. s \in Local
  BY <1>0, LabelTypes DEF Local
<1>2. t \in Local
  BY <1>0, LabelTypes DEF Local
<1>3. LocalOK(s)
  BY <1>0, <1>00 DEF LocalOK, Confirming, Adopting, Local
<1>4. LocalOK(t)
  BY <1>0, <1>00 DEF LocalOK, Confirming, Adopting, Local
<1>5. Set(p, s) \/ Set(p, t) \/ Raise(p, TRUE)
  BY DEF CompareFile, Goto
<1> QED BY <1>1, <1>2, <1>3, <1>4, <1>5, RaiseMoves DEF Move

\* The comparison in _atomic_write_checked.
LEMMA RecheckFileMoves ==
    ASSUME IInv, NEW p \in Procs, RecheckFile(p)
    PROVE  Move(p)
<1>0. svc[p] \in Local
  BY DEF IInv, TypeOK
<1>00. LocalOK(svc[p]) /\ svc[p].pc = "recheck"
  BY DEF IInv, RecheckFile
<1> DEFINE s == [svc[p] EXCEPT !.pc = "replace"]
           t == [svc[p] EXCEPT !.pc = "renderHistory", !.next = "confirm"]
<1>1. s \in Local
  BY <1>0, LabelTypes DEF Local
<1>2. t \in Local
  BY <1>0, LabelTypes DEF Local
<1>3. LocalOK(s)
  BY <1>0, <1>00 DEF LocalOK, Confirming, Adopting, Local
<1>4. LocalOK(t)
  BY <1>0, <1>00 DEF LocalOK, Confirming, Adopting, Local
<1>5. Set(p, s) \/ Set(p, t) \/ Raise(p, TRUE)
  BY DEF RecheckFile, Goto
<1> QED BY <1>1, <1>2, <1>3, <1>4, <1>5, RaiseMoves DEF Move

\* os.replace puts the target, a text, into MEMORY.md.
LEMMA ReplaceFileMoves ==
    ASSUME IInv, NEW p \in Procs, ReplaceFile(p)
    PROVE  Move(p) /\ memoryFile' \in Text
<1>0. svc[p] \in Local
  BY DEF IInv, TypeOK
<1>00. LocalOK(svc[p]) /\ svc[p].pc = "replace"
  BY DEF IInv, ReplaceFile
<1> DEFINE s == [svc[p] EXCEPT !.pc = "renderHistory", !.next = "confirm"]
<1>1. s \in Local
  BY <1>0, LabelTypes DEF Local
<1>2. LocalOK(s)
  BY <1>0, <1>00 DEF LocalOK, Confirming, Adopting, Local
<1>3. memoryFile' \in Text
  BY <1>0 DEF ReplaceFile, Local
<1> QED BY <1>1, <1>2, <1>3 DEF ReplaceFile, Move

\* render_history_view counts the events.
LEMMA RenderHistoryMoves ==
    ASSUME IInv, NEW p \in Procs, RenderHistory(p)
    PROVE  Move(p)
<1>0. svc[p] \in Local
  BY DEF IInv, TypeOK
<1>00. LocalOK(svc[p]) /\ svc[p].pc = "renderHistory"
  BY DEF IInv, RenderHistory
<1> DEFINE s == [svc[p] EXCEPT !.pc = "writeHistory", !.shown = HistoryView]
<1>1. HistoryView \in Nat
  BY DEF HistoryView, IInv, TypeOK
<1>2. s \in Local
  BY <1>0, <1>1, LabelTypes DEF Local
<1>3. LocalOK(s)
  BY <1>0, <1>00 DEF LocalOK, Confirming, Adopting, Local
<1> QED BY <1>2, <1>3 DEF RenderHistory, Move

\* Writing HISTORY.md, whatever follows it.
LEMMA WriteHistoryMoves ==
    ASSUME IInv, NEW p \in Procs, WriteHistory(p)
    PROVE  Move(p) /\ historyFile' \in Nat
<1>0. svc[p] \in Local
  BY DEF IInv, TypeOK
<1>00. LocalOK(svc[p]) /\ svc[p].pc = "writeHistory"
  BY DEF IInv, WriteHistory
<1>1. historyFile' \in Nat
  BY <1>0 DEF WriteHistory, Local
<1>2. CASE svc[p].next = "confirm"
  <2> DEFINE s == [svc[p] EXCEPT !.pc = "confirm"]
  <2>1. s \in Local
    BY <1>0, LabelTypes DEF Local
  <2>2. LocalOK(s)
    BY <1>0, <1>00, <1>2 DEF LocalOK, Confirming, Adopting, Local
  <2> QED BY <1>1, <1>2, <2>1, <2>2 DEF WriteHistory, Goto, Move
<1>3. CASE svc[p].next = "baseline"
  <2> DEFINE s == [svc[p] EXCEPT !.pc = "baseline"]
  <2>1. s \in Local
    BY <1>0, LabelTypes DEF Local
  <2>2. LocalOK(s)
    BY <1>0, <1>00, <1>3 DEF LocalOK, Confirming, Adopting, Local
  <2> QED BY <1>1, <1>3, <2>1, <2>2 DEF WriteHistory, Goto, Move
<1>4. CASE svc[p].next = "return"
  BY <1>00, <1>1, <1>4, SyncDoneMoves, RecoverDoneMoves DEF WriteHistory
<1> QED BY <1>0, <1>2, <1>3, <1>4 DEF Local

\* The first read of read_snapshot: the revision is never ahead of the database.
LEMMA ReadRevisionMoves ==
    ASSUME IInv, NEW p \in Procs, ReadRevision(p)
    PROVE  Move(p)
<1>0. svc[p] \in Local
  BY DEF IInv, TypeOK
<1>00. revision \in Nat
  BY DEF IInv, TypeOK
<1> DEFINE s == [svc[p] EXCEPT !.pc = "readRows", !.cur.rev = revision]
<1>1. s \in Local
  BY <1>0, <1>00, LabelTypes DEF Local
<1>2. LocalOK(s)
  BY <1>0, <1>00 DEF LocalOK, Confirming, Adopting, Local
<1> QED BY <1>1, <1>2 DEF ReadRevision, Move

\* The second read: the rows are those of the head at this moment.
LEMMA ReadRowsMoves ==
    ASSUME IInv, NEW p \in Procs, ReadRows(p)
    PROVE  Move(p)
<1>0. svc[p] \in Local
  BY DEF IInv, TypeOK
<1>00. LocalOK(svc[p])
  BY DEF IInv
<1>000. memories \in Contents
  BY DEF IInv, TypeOK
<1> DEFINE l == IF svc[p].stage = "sync" THEN "readState" ELSE "readExpected"
           s == [svc[p] EXCEPT !.cur.mem = memories, !.pc = l]
<1>1. l \in Labels /\ l \in {"readState", "readExpected"}
  BY LabelTypes
<1>2. s \in Local
  <2> HIDE DEF l
  <2> QED BY <1>0, <1>000, <1>1 DEF Local
<1>3. LocalOK(s)
  <2> HIDE DEF l
  <2> QED BY <1>0, <1>00, <1>1 DEF LocalOK, Confirming, Adopting, Local
<1> QED BY <1>2, <1>3 DEF ReadRows, Move

\* The baseline a sync works with.
LEMMA ReadStateMoves ==
    ASSUME IInv, NEW p \in Procs, ReadState(p)
    PROVE  Move(p)
<1>0. svc[p] \in Local
  BY DEF IInv, TypeOK
<1>00. LocalOK(svc[p]) /\ svc[p].pc = "readState"
  BY DEF IInv, ReadState
<1> DEFINE s == [svc[p] EXCEPT !.pc = "readFile", !.base = published]
<1>1. s \in Local
  BY <1>0, LabelTypes DEF Local, IInv, TypeOK
<1>2. LocalOK(s)
  BY <1>0, <1>00 DEF LocalOK, Confirming, Adopting, Local
<1> QED BY <1>1, <1>2 DEF ReadState, Move

\* A staged view is the rendering of the snapshot that was read.
LEMMA StageViewMoves ==
    ASSUME IInv, NEW p \in Procs, NEW t \in Text, svc[p].pc = "readFile", StageView(p, t)
    PROVE  Move(p)
<1>0. svc[p] \in Local
  BY DEF IInv, TypeOK
<1>00. LocalOK(svc[p])
  BY DEF IInv
<1> DEFINE i == [rev |-> svc[p].cur.rev, expected |-> t, target |-> Rendered(svc[p].cur.mem)]
           s == [svc[p] EXCEPT !.pc = "stage", !.seen = t, !.intent = i]
<1>1. i \in [rev : Nat \cup {NoRev}, expected : Text, target : Text]
  BY <1>0 DEF Local, Rendered, Text
<1>2. i.rev = svc[p].cur.rev /\ i.target = Rendered(svc[p].cur.mem)
  OBVIOUS
<1>3. s \in Local
  <2> HIDE DEF i
  <2> QED BY <1>0, <1>1, LabelTypes DEF Local
<1>4. LocalOK(s)
  <2> HIDE DEF i
  <2> QED BY <1>0, <1>00, <1>2 DEF LocalOK, Confirming, Adopting, Local
<1> QED BY <1>3, <1>4 DEF StageView, Move

\* A view is adopted only when it is that rendering.
LEMMA AdoptViewMoves ==
    ASSUME IInv, NEW p \in Procs, NEW t \in Text, svc[p].pc = "readFile",
           t = Rendered(svc[p].cur.mem), AdoptView(p, t)
    PROVE  Move(p)
<1>0. svc[p] \in Local
  BY DEF IInv, TypeOK
<1>00. LocalOK(svc[p])
  BY DEF IInv
<1> DEFINE s == [svc[p] EXCEPT !.pc = "renderHistory", !.next = "baseline", !.seen = t]
<1>1. s \in Local
  BY <1>0, LabelTypes DEF Local
<1>2. LocalOK(s)
  BY <1>0, <1>00 DEF LocalOK, Confirming, Adopting, Local
<1> QED BY <1>1, <1>2 DEF AdoptView, Move

\* _import_file on any text.
LEMMA ImportFileMoves ==
    ASSUME IInv, NEW p \in Procs, NEW t \in Text, svc[p].pc = "readFile", ImportFile(p, t)
    PROVE  Move(p)
<1>0. svc[p] \in Local
  BY DEF IInv, TypeOK
<1>00. LocalOK(svc[p])
  BY DEF IInv
<1>1. CASE ~ Parses(t)
  BY <1>1, RaiseMoves DEF ImportFile
<1>2. CASE Parses(t) /\ t.mem # svc[p].cur.mem
  <2> DEFINE s == [svc[p] EXCEPT !.pc = "embed", !.seen = t, !.draft = t.mem]
  <2>1. t.mem \in Contents
    BY DEF Text
  <2>2. s \in Local
    BY <1>0, <2>1, LabelTypes DEF Local
  <2>3. LocalOK(s)
    BY <1>0, <1>00 DEF LocalOK, Confirming, Adopting, Local
  <2> QED BY <1>2, <2>2, <2>3 DEF ImportFile, Move
<1>3. CASE Parses(t) /\ t.mem = svc[p].cur.mem
  <2>1. CASE t # Rendered(t.mem)
    BY <1>3, <2>1, StageViewMoves DEF ImportFile
  <2>2. CASE t = Rendered(t.mem)
    BY <1>3, <2>2, AdoptViewMoves DEF ImportFile
  <2> QED BY <2>1, <2>2
<1> QED BY <1>1, <1>2, <1>3

\* Every decision of sync about the text it read.
LEMMA ReadFileMoves ==
    ASSUME IInv, NEW p \in Procs, ReadFile(p)
    PROVE  Move(p)
<1>0. svc[p] \in Local
  BY DEF IInv, TypeOK
<1>00. LocalOK(svc[p]) /\ svc[p].pc = "readFile"
  BY DEF IInv, ReadFile
<1>000. memoryFile \in Text /\ Missing \in Text
  BY EmptyAssumption DEF IInv, TypeOK, Missing, Text
<1>1. CASE StageView(p, Missing)
  BY <1>00, <1>000, <1>1, StageViewMoves
<1>2. CASE Raise(p, TRUE)
  BY <1>2, RaiseMoves
<1>3. CASE FirstSync(p, memoryFile)
  <2>1. CASE memoryFile = Rendered(svc[p].cur.mem)
    BY <1>00, <1>000, <1>3, <2>1, AdoptViewMoves DEF FirstSync
  <2>2. CASE memoryFile # Rendered(svc[p].cur.mem)
    BY <1>00, <1>000, <1>3, <2>2, RaiseMoves, ImportFileMoves DEF FirstSync
  <2> QED BY <2>1, <2>2
<1>4. CASE LaterSync(p, memoryFile)
  <2>1. CASE StageView(p, memoryFile) \/ SyncDone(p) \/ Raise(p, TRUE) \/ ImportFile(p, memoryFile)
    BY <1>00, <1>000, <2>1, StageViewMoves, SyncDoneMoves, RaiseMoves, ImportFileMoves
  <2> DEFINE s == [svc[p] EXCEPT !.pc = "renderHistory", !.next = "return"]
  <2>2. s \in Local
    BY <1>0, LabelTypes DEF Local
  <2>3. LocalOK(s)
    BY <1>0, <1>00 DEF LocalOK, Confirming, Adopting, Local
  <2>4. CASE Set(p, s)
    BY <2>2, <2>3, <2>4 DEF Move
  <2> QED BY <1>4, <2>1, <2>4 DEF LaterSync
<1> QED BY <1>1, <1>2, <1>3, <1>4 DEF ReadFile

\* The text consolidate and archive_raw expect to replace.
LEMMA ReadExpectedMoves ==
    ASSUME IInv, NEW p \in Procs, ReadExpected(p)
    PROVE  Move(p)
<1>0. svc[p] \in Local
  BY DEF IInv, TypeOK
<1>00. LocalOK(svc[p]) /\ svc[p].pc = "readExpected"
  BY DEF IInv, ReadExpected
<1>000. memoryFile \in Text /\ svc[p].cur.mem \in Contents
  BY <1>0 DEF IInv, TypeOK, Local
<1> DEFINE s == [svc[p] EXCEPT !.seen = memoryFile]
           t == [s EXCEPT !.pc = "extract"]
           u == [s EXCEPT !.pc = "checkRevision", !.stage = "commit", !.draft = s.cur.mem]
<1>1. t \in Local
  BY <1>0, <1>000, LabelTypes DEF Local
<1>2. u \in Local
  BY <1>0, <1>000, LabelTypes DEF Local
<1>3. LocalOK(t)
  BY <1>0, <1>00 DEF LocalOK, Confirming, Adopting, Local
<1>4. LocalOK(u)
  BY <1>0, <1>00 DEF LocalOK, Confirming, Adopting, Local
<1>5. Set(p, t) \/ Set(p, u)
  BY DEF ReadExpected
<1> QED BY <1>1, <1>2, <1>3, <1>4, <1>5 DEF Move

\* The model may answer any snapshot.
LEMMA ExtractMoves ==
    ASSUME IInv, NEW p \in Procs, Extract(p)
    PROVE  Move(p)
<1>0. svc[p] \in Local
  BY DEF IInv, TypeOK
<1>00. LocalOK(svc[p]) /\ svc[p].pc = "extract"
  BY DEF IInv, Extract
<1>1. CASE Finish(p, Returned(FALSE, FALSE, TRUE))
  BY <1>1, ResultTypes, FinishMoves
<1>2. ASSUME NEW c \in Contents,
             Set(p, [svc[p] EXCEPT !.pc = "checkRevision", !.draft = c])
      PROVE  Move(p)
  <2> DEFINE s == [svc[p] EXCEPT !.pc = "checkRevision", !.draft = c]
  <2>1. s \in Local
    BY <1>0, LabelTypes DEF Local
  <2>2. LocalOK(s)
    BY <1>0, <1>00 DEF LocalOK, Confirming, Adopting, Local
  <2> QED BY <1>2, <2>1, <2>2 DEF Move
<1> QED BY <1>1, <1>2 DEF Extract

\* The embedding call, with its failures.
LEMMA EmbedMoves ==
    ASSUME IInv, NEW p \in Procs, Embed(p)
    PROVE  Move(p)
<1>0. svc[p] \in Local
  BY DEF IInv, TypeOK
<1>00. LocalOK(svc[p]) /\ svc[p].pc = "embed"
  BY DEF IInv, Embed
<1> DEFINE s == [svc[p] EXCEPT !.pc = "checkRevision"]
<1>1. s \in Local
  BY <1>0, LabelTypes DEF Local
<1>2. LocalOK(s)
  BY <1>0, <1>00 DEF LocalOK, Confirming, Adopting, Local
<1>3. Set(p, s) \/ Raise(p, FALSE) \/ Finish(p, Returned(FALSE, FALSE, TRUE))
  BY DEF Embed, Goto
<1> QED BY <1>1, <1>2, <1>3, ResultTypes, RaiseMoves, FinishMoves DEF Move

\* The revision check after an await.
LEMMA CheckRevisionMoves ==
    ASSUME IInv, NEW p \in Procs, CheckRevision(p)
    PROVE  Move(p)
<1>0. svc[p] \in Local
  BY DEF IInv, TypeOK
<1>00. LocalOK(svc[p]) /\ svc[p].pc = "checkRevision"
  BY DEF IInv, CheckRevision
<1> DEFINE s == [svc[p] EXCEPT !.pc = "checkFile", !.fresh = AtHead(p)]
<1>1. AtHead(p) \in BOOLEAN
  BY DEF AtHead
<1>2. s \in Local
  BY <1>0, <1>1, LabelTypes DEF Local
<1>3. LocalOK(s)
  BY <1>0, <1>00 DEF LocalOK, Confirming, Adopting, Local
<1> QED BY <1>2, <1>3 DEF CheckRevision, Move

\* The file check after it.
LEMMA CheckFileMoves ==
    ASSUME IInv, NEW p \in Procs, CheckFile(p)
    PROVE  Move(p)
<1>0. svc[p] \in Local
  BY DEF IInv, TypeOK
<1>00. LocalOK(svc[p]) /\ svc[p].pc = "checkFile"
  BY DEF IInv, CheckFile
<1> DEFINE s == [svc[p] EXCEPT !.pc = "embed", !.stage = "commit"]
           t == [svc[p] EXCEPT !.pc = "commit"]
           u == [svc[p] EXCEPT !.pc = "recover", !.stage = "sync", !.caller = "sync",
                               !.redo = TRUE]
<1>1. s \in Local
  BY <1>0, LabelTypes DEF Local
<1>2. t \in Local
  BY <1>0, LabelTypes DEF Local
<1>3. u \in Local
  BY <1>0, LabelTypes DEF Local
<1>4. LocalOK(s)
  BY <1>0, <1>00 DEF LocalOK, Confirming, Adopting, Local
<1>5. LocalOK(t)
  BY <1>0, <1>00 DEF LocalOK, Confirming, Adopting, Local
<1>6. LocalOK(u)
  BY <1>0, <1>00 DEF LocalOK, Confirming, Adopting, Local
<1>7. svc[p].stage \in {"sync", "extract", "commit"}
  BY <1>0 DEF Local
<1>8. \/ Set(p, s) \/ Set(p, t) \/ Set(p, u)
      \/ Raise(p, TRUE) \/ Finish(p, Returned(FALSE, FALSE, FALSE))
  BY <1>7 DEF CheckFile, Goto
<1> QED BY <1>1, <1>2, <1>3, <1>4, <1>5, <1>6, <1>8, ResultTypes, RaiseMoves, FinishMoves DEF Move

\* A crash forgets the local record.
LEMMA CrashMoves ==
    ASSUME IInv, NEW p \in Procs, Crash(p)
    PROVE  Move(p)
<1>1. Down(NoResult) \in Local
  BY DownType, ResultTypes
<1>2. LocalOK(Down(NoResult))
  BY DEF LocalOK, Down, Confirming, Adopting, IInv, TypeOK, DatabaseOK, Snapshot
<1> QED BY <1>1, <1>2 DEF Crash, Move

-----------------------------------------------------------------------------
(* Steps that write the database: its new value, the local record of p and   *)
(* what the other processes have read all stay sound.                        *)

\* A step that changes the database preserves the invariant when it keeps the types and
\* the database part, and no local record of another process becomes unsound.
LEMMA DatabaseStep ==
    ASSUME IInv, NEW p \in Procs, UNCHANGED <<files, used>>, NEW s \in Local, Set(p, s),
           LocalOK(s)',
           \A t \in Local : LocalOK(t) => LocalOK(t)',
           revision' \in Nat, memories' \in Contents,
           events' \in Seq([mem : Contents, by : {"sync", "extract", "commit"}]),
           published' \in [rev : Nat \cup {NoRev}, text : Text],
           pending' \in [rev : Nat \cup {NoRev}, expected : Text, target : Text],
           DatabaseOK'
    PROVE  IInv'
<1>1. svc \in [Procs -> Local] /\ svc' = [svc EXCEPT ![p] = s]
  BY DEF IInv, TypeOK, Set
<1>2. TypeOK'
  BY <1>1 DEF IInv, TypeOK, files
<1>3. \A q \in Procs : LocalOK(svc[q])'
  <2> SUFFICES ASSUME NEW q \in Procs PROVE LocalOK(svc[q])'
    OBVIOUS
  <2>1. CASE q = p
    <3>1. svc'[q] = s
      BY <1>1, <2>1
    <3> QED BY <3>1 DEF LocalOK
  <2>2. CASE q # p
    <3>1. svc'[q] = svc[q] /\ svc[q] \in Local /\ LocalOK(svc[q])
      BY <1>1, <2>2 DEF IInv
    <3> QED BY <3>1 DEF LocalOK
  <2> QED BY <2>1, <2>2
<1> QED BY <1>2, <1>3 DEF IInv

\* The same for a step that leaves the snapshot alone and writes memory_sync_state only.
LEMMA SyncStateStep ==
    ASSUME IInv, NEW p \in Procs, Move(p),
           UNCHANGED <<revision, memories, events, files, used>>,
           published' \in [rev : Nat \cup {NoRev}, text : Text],
           pending' \in [rev : Nat \cup {NoRev}, expected : Text, target : Text],
           BaselineIsRendering', IntentIsHead'
    PROVE  IInv'
<1>1. PICK s \in Local : LocalOK(s) /\ Set(p, s)
  BY DEF Move
<1>2. \A t \in Local : LocalOK(t) => LocalOK(t)'
  BY DEF LocalOK
<1>3. LocalOK(s)'
  BY <1>1, <1>2
<1>4. DatabaseOK'
  BY DEF IInv, DatabaseOK, Snapshot
<1>5. /\ revision' \in Nat /\ memories' \in Contents
      /\ events' \in Seq([mem : Contents, by : {"sync", "extract", "commit"}])
  BY DEF IInv, TypeOK
<1> QED BY <1>1, <1>2, <1>3, <1>4, <1>5, DatabaseStep

\* confirm_memory_publish: the intent it confirms is the pending one, thus the head.
LEMMA ConfirmStep ==
    ASSUME IInv, NEW p \in Procs, Confirm(p)
    PROVE  IInv'
<1>0. svc[p] \in Local
  BY DEF IInv, TypeOK
<1>00. LocalOK(svc[p]) /\ svc[p].pc = "confirm"
  BY DEF IInv, Confirm
<1>1. CASE IntentIsOurs(p)
  <2>1. Move(p)
    BY <1>00, <1>1, RecoverDoneMoves DEF Confirm
  <2>2. /\ published' = [rev |-> svc[p].intent.rev, text |-> svc[p].intent.target]
        /\ pending' = NoIntent
        /\ UNCHANGED <<revision, memories, events, files, used>>
    BY <1>1 DEF Confirm
  <2>3. /\ svc[p].intent.rev = revision /\ svc[p].intent.target = Rendered(Snapshot(revision))
    BY <1>00, <1>1 DEF IntentIsOurs, IInv, DatabaseOK, IntentIsHead, LocalOK, Confirming
  <2>4. published' \in [rev : Nat \cup {NoRev}, text : Text]
    BY <1>0, <2>2 DEF Local
  <2>5. pending' \in [rev : Nat \cup {NoRev}, expected : Text, target : Text]
    BY <2>2, IntentType
  <2>6. revision \in Nat /\ Snapshot(revision)' = Snapshot(revision)
    BY <2>2 DEF IInv, TypeOK, Snapshot
  <2>7. BaselineIsRendering'
    <3>1. published'.rev = revision /\ published'.text = Rendered(Snapshot(revision))
      BY <2>2, <2>3
    <3>2. revision' = revision /\ published'.rev \in 0 .. revision
      BY <2>2, <2>6, <3>1
    <3>3. Rendered(Snapshot(published.rev))' = Rendered(Snapshot(revision))
      BY <2>2, <3>1 DEF Snapshot, Rendered
    <3> QED BY <3>1, <3>2, <3>3 DEF BaselineIsRendering
  <2>8. IntentIsHead'
    BY <2>2 DEF IntentIsHead, NoIntent
  <2> QED BY <2>1, <2>2, <2>4, <2>5, <2>7, <2>8, SyncStateStep
<1>2. CASE ~ IntentIsOurs(p)
  <2>1. Move(p) /\ UNCHANGED <<db, files, used>>
    BY <1>2, RaiseMoves DEF Confirm, db
  <2> QED BY <2>1, QuietStep DEF IInv, TypeOK, files
<1> QED BY <1>1, <1>2

\* stage_memory_publish: at the head, the staged view is the rendering of the rows.
LEMMA StageStep ==
    ASSUME IInv, NEW p \in Procs, Stage(p)
    PROVE  IInv'
<1>0. svc[p] \in Local
  BY DEF IInv, TypeOK
<1>00. LocalOK(svc[p]) /\ svc[p].pc = "stage"
  BY DEF IInv, Stage
<1>1. CASE AtHead(p) /\ pending.rev = NoRev
  <2> DEFINE s == [Down(NoResult) EXCEPT !.pc = "recover", !.op = svc[p].op,
                                         !.caller = "stage", !.redo = svc[p].redo]
  <2>1. Down(NoResult) \in Local
    BY DownType, ResultTypes
  <2>2. s \in Local
    BY <1>0, <2>1, LabelTypes DEF Local
  <2>3. LocalOK(s)
    BY <2>1 DEF LocalOK, Down, Confirming, Adopting, IInv, TypeOK, DatabaseOK, Snapshot
  <2>4. /\ pending' = svc[p].intent /\ Set(p, s)
        /\ UNCHANGED <<revision, memories, events, published, files, used>>
    BY <1>1 DEF Stage
  <2>5. Move(p)
    BY <2>2, <2>3, <2>4 DEF Move
  <2>6. svc[p].intent.rev = revision /\ svc[p].intent.target = Rendered(memories)
    BY <1>00, <1>1 DEF AtHead, LocalOK
  <2>7. pending' \in [rev : Nat \cup {NoRev}, expected : Text, target : Text]
    BY <1>0, <2>4 DEF Local
  <2>8. BaselineIsRendering'
    <3>1. pending'.rev # NoRev
      BY <2>4, <2>6 DEF IInv, TypeOK, NoRev
    <3>2. Rendered(Snapshot(published.rev))' = Rendered(Snapshot(published.rev))
      BY <2>4 DEF Snapshot, Rendered
    <3> QED BY <2>4, <3>1, <3>2 DEF BaselineIsRendering, IInv, DatabaseOK
  <2>9. IntentIsHead'
    BY <2>4, <2>6 DEF IntentIsHead, Rendered
  <2>10. published' \in [rev : Nat \cup {NoRev}, text : Text]
    BY <2>4 DEF IInv, TypeOK
  <2> QED BY <2>4, <2>5, <2>7, <2>8, <2>9, <2>10, SyncStateStep
<1>2. CASE ~ (AtHead(p) /\ pending.rev = NoRev)
  <2>1. Move(p) /\ UNCHANGED <<db, files, used>>
    BY <1>2, RaiseMoves DEF Stage, db
  <2> QED BY <2>1, QuietStep DEF IInv, TypeOK, files
<1> QED BY <1>1, <1>2

\* record_memory_publish_baseline: at the head, the adopted text is that rendering.
LEMMA RecordBaselineStep ==
    ASSUME IInv, NEW p \in Procs, RecordBaseline(p)
    PROVE  IInv'
<1>0. svc[p] \in Local
  BY DEF IInv, TypeOK
<1>00. LocalOK(svc[p]) /\ svc[p].pc = "baseline"
  BY DEF IInv, RecordBaseline
<1>1. CASE AtHead(p) /\ published.rev = NoRev /\ pending.rev = NoRev
  <2>1. /\ Move(p) /\ published' = [rev |-> revision, text |-> svc[p].seen]
        /\ UNCHANGED <<revision, memories, events, pending, files, used>>
    BY <1>1, SyncDoneMoves DEF RecordBaseline
  <2>2. svc[p].seen = Rendered(memories) /\ memories = Snapshot(revision) /\ revision \in Nat
    BY <1>00, <1>1 DEF AtHead, LocalOK, Adopting, IInv, DatabaseOK, TypeOK
  <2>3. published' \in [rev : Nat \cup {NoRev}, text : Text]
    BY <1>0, <2>1, <2>2 DEF Local
  <2>4. pending' \in [rev : Nat \cup {NoRev}, expected : Text, target : Text]
    BY <2>1 DEF IInv, TypeOK
  <2>5. BaselineIsRendering'
    <3>1. published'.rev = revision /\ published'.text = Rendered(Snapshot(revision))
      BY <2>1, <2>2
    <3>2. revision' = revision /\ published'.rev \in 0 .. revision
      BY <2>1, <2>2, <3>1
    <3>3. Rendered(Snapshot(published.rev))' = Rendered(Snapshot(revision))
      BY <2>1, <3>1 DEF Snapshot, Rendered
    <3> QED BY <3>1, <3>2, <3>3 DEF BaselineIsRendering
  <2>6. IntentIsHead'
    BY <2>1 DEF IntentIsHead, IInv, DatabaseOK, Rendered
  <2> QED BY <2>1, <2>3, <2>4, <2>5, <2>6, SyncStateStep
<1>2. CASE ~ (AtHead(p) /\ published.rev = NoRev /\ pending.rev = NoRev)
  <2>1. Move(p) /\ UNCHANGED <<db, files, used>>
    BY <1>2, RaiseMoves DEF RecordBaseline, db
  <2> QED BY <2>1, QuietStep DEF IInv, TypeOK, files
<1> QED BY <1>1, <1>2

\* commit_snapshot: every other process now holds an older revision.
LEMMA CommitStep ==
    ASSUME IInv, NEW p \in Procs, Commit(p)
    PROVE  IInv'
<1>0. svc[p] \in Local
  BY DEF IInv, TypeOK
<1>1. CASE AtHead(p) /\ pending.rev = NoRev
  <2> DEFINE e == [mem |-> svc[p].draft, by |-> svc[p].stage]
             c == IF svc[p].stage = "sync" THEN "stage" ELSE "commit"
             w == IF svc[p].stage = "sync" THEN NoRev ELSE revision + 1
             s == [Down(NoResult) EXCEPT !.pc = "recover", !.op = svc[p].op,
                                         !.stage = svc[p].stage, !.redo = svc[p].redo,
                                         !.caller = c, !.wrote = w]
  <2>1. /\ revision' = revision + 1
        /\ memories' = svc[p].draft
        /\ events' = Append(events, e)
        /\ pending' = [rev |-> revision + 1, expected |-> svc[p].seen,
                       target |-> Rendered(svc[p].draft)]
        /\ Set(p, s)
        /\ UNCHANGED <<published, files, used>>
    BY <1>1 DEF Commit, NewRevision
  <2>2. /\ revision \in Nat /\ revision = Len(events)
        /\ events \in Seq([mem : Contents, by : {"sync", "extract", "commit"}])
        /\ published \in [rev : Nat \cup {NoRev}, text : Text]
    BY DEF IInv, TypeOK, DatabaseOK
  <2>3. svc[p].draft \in Contents /\ svc[p].seen \in Text
    BY <1>0 DEF Local
  <2>4. svc[p].stage \in {"sync", "extract", "commit"}
    BY <1>0 DEF Local
  <2>5. s \in Local
    <3>1. Down(NoResult) \in Local
      BY DownType, ResultTypes
    <3>2. c \in {"boot", "sync", "stage", "commit"}
      OBVIOUS
    <3>3. w \in Nat \cup {NoRev}
      BY <2>2
    <3> HIDE DEF c, w
    <3> QED BY <1>0, <3>1, <3>2, <3>3, LabelTypes DEF Local
  <2>6. events' \in Seq([mem : Contents, by : {"sync", "extract", "commit"}])
    BY <2>1, <2>2, <2>3, <2>4
  <2>7. Len(events') = revision + 1 /\ events'[revision + 1] = e
    BY <2>1, <2>2
  <2>8. \A r \in 1 .. revision : events'[r] = events[r]
    BY <2>1, <2>2
  <2>9. \A t \in Local : LocalOK(t) => LocalOK(t)'
    <3> SUFFICES ASSUME NEW t \in Local, LocalOK(t) PROVE LocalOK(t)'
      OBVIOUS
    <3>1. t.cur.rev \in Nat /\ t.cur.rev <= revision
      BY DEF Local, LocalOK
    <3>2. t.cur.rev <= revision' /\ t.cur.rev # revision'
      BY <2>1, <2>2, <3>1
    <3> QED BY <3>2 DEF LocalOK
  <2>10. PICK z \in Local : Set(p, z) /\ z.cur.rev = 0 /\ z.pc = "recover"
    <3>1. s.cur.rev = 0 /\ s.pc = "recover"
      BY DEF Down
    <3> HIDE DEF s
    <3> QED BY <2>1, <2>5, <3>1
  <2>11. LocalOK(z)'
    BY <2>1, <2>2, <2>10 DEF LocalOK, Adopting, Confirming
  <2>12. DatabaseOK'
    <3>1. memories' = Snapshot(revision)'
      BY <2>1, <2>2, <2>7 DEF Snapshot
    <3>2. IntentIsHead'
      BY <2>1 DEF IntentIsHead, Rendered
    <3>3. BaselineIsRendering'
      <4>1. pending'.rev # NoRev
        BY <2>1, <2>2 DEF NoRev
      <4> SUFFICES ASSUME published.rev # NoRev
                   PROVE  /\ published.rev \in 0 .. revision'
                          /\ published.text = Rendered(Snapshot(published.rev))'
        BY <2>1, <4>1 DEF BaselineIsRendering, Rendered, Snapshot
      <4>2. /\ published.rev \in 0 .. revision
            /\ published.text = Rendered(Snapshot(published.rev))
        BY DEF IInv, DatabaseOK, BaselineIsRendering
      <4>3. Snapshot(published.rev)' = Snapshot(published.rev)
        BY <2>1, <2>2, <2>8, <4>2 DEF Snapshot
      <4> QED BY <2>1, <2>2, <4>2, <4>3 DEF Rendered
    <3> QED BY <2>1, <2>2, <2>7, <3>1, <3>2, <3>3 DEF DatabaseOK
  <2>13. pending' \in [rev : Nat \cup {NoRev}, expected : Text, target : Text]
    BY <2>1, <2>2, <2>3 DEF Rendered, Text
  <2>14. revision' \in Nat /\ memories' \in Contents
         /\ published' \in [rev : Nat \cup {NoRev}, text : Text]
    BY <2>1, <2>2, <2>3
  <2> QED BY <2>1, <2>6, <2>9, <2>10, <2>11, <2>12, <2>13, <2>14, DatabaseStep
<1>2. CASE ~ (AtHead(p) /\ pending.rev = NoRev)
  <2>1. AtHead(p) \in BOOLEAN
    BY DEF AtHead
  <2>2. Move(p)
    <3>1. CASE svc[p].stage = "sync"
      BY <1>2, <3>1, RaiseMoves DEF Commit
    <3>2. CASE svc[p].stage # "sync"
      BY <1>2, <2>1, <3>2, ResultTypes, FinishMoves DEF Commit
    <3> QED BY <3>1, <3>2
  <2>3. UNCHANGED <<db, files, used>>
    BY <1>2 DEF Commit, db
  <2> QED BY <2>2, <2>3, QuietStep DEF IInv, TypeOK, files
<1> QED BY <1>1, <1>2

-----------------------------------------------------------------------------
(* The invariant is inductive. *)

\* The person changes files only.
LEMMA EditorStep ==
    ASSUME IInv, EditMemory \/ DeleteHistory
    PROVE  IInv'
<1>1. UNCHANGED <<db, svc>>
  BY DEF EditMemory, DeleteHistory
<1>2. memoryFile' \in Text
  <2>1. CASE EditMemory
    <3>1. {Missing, ZeroByte, Malformed} \cup {Loose(c) : c \in Contents}
                                         \cup {Rendered(c) : c \in Contents} \subseteq Text
      BY EmptyAssumption DEF Missing, ZeroByte, Malformed, Loose, Rendered, Text
    <3> QED BY <2>1, <3>1 DEF EditMemory
  <2>2. CASE DeleteHistory
    BY <2>2 DEF DeleteHistory, IInv, TypeOK
  <2> QED BY <2>1, <2>2
<1>3. historyFile' \in Nat \cup {NoHistory}
  BY DEF EditMemory, DeleteHistory, IInv, TypeOK
<1>4. used' \in [writes : Nat, edits : Nat, crashes : Nat, faults : Nat, close : Nat]
  <2>1. used \in [writes : Nat, edits : Nat, crashes : Nat, faults : Nat, close : Nat]
    BY DEF IInv, TypeOK
  <2> DEFINE k == used.edits + 1
  <2> DEFINE n == IF Closeness > used.close THEN Closeness ELSE used.close
  <2>2. k \in Nat
    BY <2>1
  <2>3. n \in Nat
    <3>1. Closeness \in Nat
      BY DEF Closeness
    <3> QED BY <2>1, <3>1
  <2>4. used' = [used EXCEPT !.edits = k, !.close = n]
    BY DEF EditMemory, DeleteHistory, PersonWrites
  <2> HIDE DEF k, n
  <2>5. used' = [[used EXCEPT !.edits = k] EXCEPT !.close = n]
    BY <2>4, Zenon
  <2>6. [used EXCEPT !.edits = k] \in [writes : Nat, edits : Nat, crashes : Nat, faults : Nat, close : Nat]
    BY <2>1, <2>2
  <2> QED BY <2>3, <2>5, <2>6
<1>5. TypeOK'
  BY <1>1, <1>2, <1>3, <1>4 DEF IInv, TypeOK, db
<1>6. DatabaseOK'
  BY <1>1 DEF IInv, DatabaseOK, BaselineIsRendering, IntentIsHead, Snapshot, Rendered, db
<1>7. \A q \in Procs : LocalOK(svc[q])'
  BY <1>1 DEF IInv, LocalOK, Adopting, Confirming, Rendered, db
<1> QED BY <1>5, <1>6, <1>7 DEF IInv

\* Every step of a process.
LEMMA ProcessStep ==
    ASSUME IInv, NEW p \in Procs,
           \/ Start(p)
           \/ \E op \in {"sync", "consolidate", "archive"} : Invoke(p, op)
           \/ Run(p)
           \/ WriteFails(p)
           \/ Crash(p)
    PROVE  IInv'
<1>0. /\ memoryFile \in Text /\ historyFile \in Nat \cup {NoHistory}
      /\ used \in [writes : Nat, edits : Nat, crashes : Nat, faults : Nat, close : Nat]
  BY DEF IInv, TypeOK
<1>1. CASE Start(p)
  <2>1. Move(p) /\ UNCHANGED <<db, files, used>>
    BY <1>1, StartMoves DEF Start
  <2> QED BY <1>0, <2>1, QuietStep DEF files
<1>2. CASE \E op \in {"sync", "consolidate", "archive"} : Invoke(p, op)
  <2>1. PICK op \in {"sync", "consolidate", "archive"} : Invoke(p, op)
    BY <1>2
  <2>2. Move(p) /\ UNCHANGED <<db, files>>
    BY <2>1, InvokeMoves DEF Invoke
  <2>3. used' = used \/ used' = [used EXCEPT !.writes = used.writes + 1]
    BY <2>1 DEF Invoke
  <2>4. used' \in [writes : Nat, edits : Nat, crashes : Nat, faults : Nat, close : Nat]
    BY <1>0, <2>3
  <2> QED BY <1>0, <2>2, <2>4, QuietStep DEF files
<1>3. CASE Recover(p)
  <2>1. CASE RecoverRead(p) \/ CompareFile(p) \/ RecheckFile(p) \/ RenderHistory(p)
    <3>1. Move(p)
      BY <2>1, RecoverReadMoves, CompareFileMoves, RecheckFileMoves, RenderHistoryMoves
    <3>2. UNCHANGED <<db, files, used>>
      BY <2>1 DEF RecoverRead, CompareFile, RecheckFile, RenderHistory
    <3> QED BY <1>0, <3>1, <3>2, QuietStep DEF files
  <2>2. CASE ReplaceFile(p)
    <3>1. Move(p) /\ memoryFile' \in Text /\ UNCHANGED <<db, historyFile, used>>
      BY <2>2, ReplaceFileMoves DEF ReplaceFile
    <3> QED BY <1>0, <3>1, QuietStep
  <2>3. CASE WriteHistory(p)
    <3>1. Move(p) /\ historyFile' \in Nat /\ UNCHANGED <<db, memoryFile, used>>
      BY <2>3, WriteHistoryMoves DEF WriteHistory
    <3> QED BY <1>0, <3>1, QuietStep
  <2>4. CASE Confirm(p)
    BY <2>4, ConfirmStep
  <2> QED BY <1>3, <2>1, <2>2, <2>3, <2>4 DEF Recover
<1>4. CASE Sync(p)
  <2>1. CASE ReadRevision(p) \/ ReadRows(p) \/ ReadState(p) \/ ReadFile(p)
    <3>1. Move(p)
      BY <2>1, ReadRevisionMoves, ReadRowsMoves, ReadStateMoves, ReadFileMoves
    <3>2. UNCHANGED <<db, files, used>>
      BY <2>1 DEF ReadRevision, ReadRows, ReadState, ReadFile
    <3> QED BY <1>0, <3>1, <3>2, QuietStep DEF files
  <2> QED BY <1>4, <2>1, StageStep, RecordBaselineStep DEF Sync
<1>5. CASE Write(p)
  <2>1. CASE ReadExpected(p) \/ Extract(p) \/ Embed(p) \/ CheckRevision(p) \/ CheckFile(p)
    <3>1. Move(p)
      BY <2>1, ReadExpectedMoves, ExtractMoves, EmbedMoves, CheckRevisionMoves, CheckFileMoves
    <3>2. UNCHANGED <<db, files, used>>
      BY <2>1 DEF ReadExpected, Extract, Embed, CheckRevision, CheckFile
    <3> QED BY <1>0, <3>1, <3>2, QuietStep DEF files
  <2> QED BY <1>5, <2>1, CommitStep DEF Write
<1>6. CASE WriteFails(p)
  <2>1. Move(p) /\ UNCHANGED <<db, files>>
    BY <1>6, RaiseMoves DEF WriteFails
  <2>2. used' = [used EXCEPT !.faults = used.faults + 1]
    BY <1>6 DEF WriteFails
  <2>3. used' \in [writes : Nat, edits : Nat, crashes : Nat, faults : Nat, close : Nat]
    BY <1>0, <2>2
  <2> QED BY <1>0, <2>1, <2>3, QuietStep DEF files
<1>7. CASE Crash(p)
  <2>1. Move(p) /\ UNCHANGED <<db, files>>
    BY <1>7, CrashMoves DEF Crash
  <2>2. used' = [used EXCEPT !.crashes = used.crashes + 1]
    BY <1>7 DEF Crash
  <2>3. used' \in [writes : Nat, edits : Nat, crashes : Nat, faults : Nat, close : Nat]
    BY <1>0, <2>2
  <2> QED BY <1>0, <2>1, <2>3, QuietStep DEF files
<1> QED BY <1>1, <1>2, <1>3, <1>4, <1>5, <1>6, <1>7 DEF Run

\* No step, of a process or of the person, breaks the invariant.
LEMMA IInvStep == IInv /\ [Next]_vars => IInv'
<1> SUFFICES ASSUME IInv, [Next]_vars PROVE IInv'
  OBVIOUS
<1>1. CASE Next
  BY <1>1, ProcessStep, EditorStep DEF Next
<1>2. CASE UNCHANGED vars
  <2>1. UNCHANGED <<db, files, svc, used>>
    BY <1>2 DEF vars, db, files
  <2>2. TypeOK'
    BY <1>2 DEF IInv, TypeOK, vars
  <2>3. DatabaseOK'
    BY <1>2 DEF IInv, DatabaseOK, BaselineIsRendering, IntentIsHead, Snapshot, Rendered, vars
  <2>4. \A q \in Procs : LocalOK(svc[q])'
    BY <1>2 DEF IInv, LocalOK, Adopting, Confirming, Rendered, vars
  <2> QED BY <2>2, <2>3, <2>4 DEF IInv
<1> QED BY <1>1, <1>2

\* The inductive invariant: types, the two facts about memory_sync_state, and for every
\* process that what it read is no newer than the database and agrees with it at the head.
THEOREM Invariance == Spec => []IInv
  BY InitIInv, IInvStep, PTL DEF Spec

\* Every variable keeps its type, for any number of processes, edits and crashes.
THEOREM TypeCorrect == Spec => []TypeOK
<1>1. IInv => TypeOK
  BY DEF IInv
<1> QED BY <1>1, Invariance, PTL

\* The published baseline is the rendering of its snapshot, and of the head when nothing
\* is pending: a text that differs from it was written by somebody else.
THEOREM BaselineCorrect == Spec => []BaselineIsRendering
<1>1. IInv => BaselineIsRendering
  BY DEF IInv, DatabaseOK
<1> QED BY <1>1, Invariance, PTL

\* A pending publication is always the one of the newest revision.
THEOREM IntentCorrect == Spec => []IntentIsHead
<1>1. IInv => IntentIsHead
  BY DEF IInv, DatabaseOK
<1> QED BY <1>1, Invariance, PTL

\* A snapshot read in two statements is coherent as long as its revision is the head.
THEOREM ReadsCorrect == Spec => []ReadsAreCoherent
<1>1. IInv => ReadsAreCoherent
  BY DEF IInv, LocalOK, ReadsAreCoherent, AtHead
<1> QED BY <1>1, Invariance, PTL

\* No commit, import or consolidation, of any process, replaces a snapshot other than
\* the one it was computed from.
THEOREM NoUpdateIsLost == Spec => NoLostUpdate
<1>1. IInv /\ [Next]_vars =>
        [\A p \in Procs : Commit(p) /\ revision' # revision => memories = svc[p].cur.mem]_vars
  <2> SUFFICES ASSUME IInv, NEW p \in Procs, Commit(p), revision' # revision
               PROVE  memories = svc[p].cur.mem
    OBVIOUS
  <2>1. AtHead(p) /\ svc[p].pc = "commit"
    BY DEF Commit
  <2> QED BY <2>1 DEF IInv, LocalOK, AtHead
<1> QED BY <1>1, Invariance, PTL DEF Spec, NoLostUpdate

-----------------------------------------------------------------------------
(* The refinement: the database is the ledger of MemoryLedger. *)

\* The snapshots of the ledger.
Mems == [i \in 1 .. Len(events) |-> events[i].mem]

\* The four steps of the ledger are the four transactions that change the database.
LEMMA LedgerSteps ==
    ASSUME Next
    PROVE  \/ UNCHANGED db
           \/ \E p \in Procs : Confirm(p) \/ Stage(p) \/ RecordBaseline(p) \/ Commit(p)
<1>1. ASSUME NEW p \in Procs, Recover(p), ~ Confirm(p)
      PROVE  UNCHANGED db
  BY <1>1 DEF Recover, RecoverRead, CompareFile, RecheckFile, ReplaceFile, RenderHistory, WriteHistory, db
<1>2. ASSUME NEW p \in Procs, Sync(p), ~ Stage(p), ~ RecordBaseline(p)
      PROVE  UNCHANGED db
  BY <1>2 DEF Sync, ReadRevision, ReadRows, ReadState, ReadFile, db
<1>3. ASSUME NEW p \in Procs, Write(p), ~ Commit(p)
      PROVE  UNCHANGED db
  BY <1>3 DEF Write, ReadExpected, Extract, Embed, CheckRevision, CheckFile, db
<1>4. ASSUME NEW p \in Procs, Start(p) \/ WriteFails(p) \/ Crash(p)
      PROVE  UNCHANGED db
  BY <1>4 DEF Start, WriteFails, Crash, db
<1>5. ASSUME NEW p \in Procs, NEW op \in {"sync", "consolidate", "archive"}, Invoke(p, op)
      PROVE  UNCHANGED db
  BY <1>5 DEF Invoke, db
<1>6. CASE EditMemory \/ DeleteHistory
  BY <1>6 DEF EditMemory, DeleteHistory, db
<1>7. QED
  BY <1>1, <1>2, <1>3, <1>4, <1>5, <1>6 DEF Next, Run

\* confirm_memory_publish is Acknowledge.
LEMMA ConfirmAcknowledges ==
    ASSUME IInv, NEW p \in Procs, Confirm(p), ~ UNCHANGED <<events, pending, published>>
    PROVE  Ledger!Acknowledge
<1>1. IntentIsOurs(p) /\ events' = events
  BY DEF Confirm
<1>2. /\ published' = [rev |-> svc[p].intent.rev, text |-> svc[p].intent.target]
      /\ pending' = NoIntent
  BY <1>1 DEF Confirm
<1>3. pending.rev = svc[p].intent.rev /\ pending.rev # NoRev
  BY <1>1 DEF IntentIsOurs, IInv, LocalOK, Confirming, Confirm
<1> QED BY <1>1, <1>2, <1>3 DEF Ledger!Acknowledge, Ledger!None, NoRev, NoIntent

\* stage_memory_publish is Restage.
LEMMA StageRestages ==
    ASSUME IInv, NEW p \in Procs, Stage(p), ~ UNCHANGED <<events, pending, published>>
    PROVE  Ledger!Restage
<1>1. AtHead(p) /\ pending.rev = NoRev /\ pending' = svc[p].intent
  BY DEF Stage
<1>2. events' = events /\ published' = published
  BY DEF Stage
<1>3. pending'.rev = Len(events)
  BY <1>1 DEF Stage, AtHead, IInv, LocalOK, DatabaseOK
<1>4. Len(events) \in Nat
  BY DEF IInv, TypeOK
<1>5. Len(Mems) = Len(events)
  BY <1>4 DEF Mems
<1> QED BY <1>1, <1>2, <1>3, <1>5 DEF Ledger!Restage, Ledger!None, Ledger!Top, NoRev, Mems

\* record_memory_publish_baseline is Adopt.
LEMMA BaselineAdopts ==
    ASSUME IInv, NEW p \in Procs, RecordBaseline(p), ~ UNCHANGED <<events, pending, published>>
    PROVE  Ledger!Adopt
<1>1. /\ published.rev = NoRev /\ pending.rev = NoRev
      /\ published' = [rev |-> revision, text |-> svc[p].seen]
      /\ events' = events /\ pending' = pending
  BY DEF RecordBaseline
<1>2. published'.rev = Len(events)
  BY <1>1 DEF IInv, DatabaseOK
<1>3. Len(events) \in Nat
  BY DEF IInv, TypeOK
<1>4. Len(Mems) = Len(events)
  BY <1>3 DEF Mems
<1> QED BY <1>1, <1>2, <1>4 DEF Ledger!Adopt, Ledger!None, Ledger!Top, NoRev, Mems

\* The elements of a typed sequence.
LEMMA ElementType == \A R : \A s \in Seq(R) : \A i \in 1 .. Len(s) : s[i] \in R
  OBVIOUS

\* commit_snapshot is Record.
LEMMA CommitRecords ==
    ASSUME IInv, NEW p \in Procs, Commit(p), ~ UNCHANGED <<events, pending, published>>
    PROVE  \E c \in Contents : Ledger!Record(c)
<1> DEFINE c == svc[p].draft
           e == [mem |-> c, by |-> svc[p].stage]
<1>0. AtHead(p) /\ pending.rev = NoRev
  <2>1. CASE ~ (AtHead(p) /\ pending.rev = NoRev)
    BY <2>1 DEF Commit
  <2> QED BY <2>1
<1>1. /\ pending.rev = NoRev
      /\ events' = Append(events, e)
      /\ pending' = [rev |-> revision + 1, expected |-> svc[p].seen,
                     target |-> Rendered(c)]
      /\ published' = published
  BY <1>0 DEF Commit, NewRevision
<1>2. c \in Contents
  BY DEF IInv, TypeOK, Local
<1>3. Len(events) \in Nat /\ revision = Len(events)
      /\ events \in Seq([mem : Contents, by : {"sync", "extract", "commit"}])
  BY DEF IInv, TypeOK, DatabaseOK
<1>4. svc[p].stage \in {"sync", "extract", "commit"}
  BY DEF IInv, TypeOK, Local
<1>5. Mems \in Seq(Contents) /\ Len(Mems) = Len(events)
  <2>1. \A i \in 1 .. Len(events) : events[i].mem \in Contents
    <3>1. \A i \in 1 .. Len(events) :
             events[i] \in [mem : Contents, by : {"sync", "extract", "commit"}]
      BY <1>3, ElementType
    <3> QED BY <3>1
  <2>2. Mems \in [1 .. Len(events) -> Contents]
    BY <2>1 DEF Mems
  <2> QED BY <1>3, <2>2
<1>6. Mems' = Append(Mems, c)
  <2>1. e \in [mem : Contents, by : {"sync", "extract", "commit"}]
    BY <1>2, <1>4
  <2>2. Len(events') = Len(events) + 1 /\ events'[Len(events) + 1].mem = c
    BY <1>1, <1>3, <2>1
  <2>3. \A i \in 1 .. Len(events) : events'[i] = events[i]
    BY <1>1, <1>3, <2>1
  <2>4. Len(Append(Mems, c)) = Len(events) + 1
    BY <1>2, <1>5
  <2>5. \A i \in 1 .. Len(events) + 1 : Mems'[i] = Append(Mems, c)[i]
    BY <1>2, <1>3, <1>5, <2>2, <2>3 DEF Mems
  <2>6. Mems' = [i \in 1 .. Len(events) + 1 |-> Mems'[i]]
    BY <2>2 DEF Mems
  <2>7. Append(Mems, c) = [i \in 1 .. Len(events) + 1 |-> Append(Mems, c)[i]]
    BY <1>2, <1>5
  <2> QED BY <2>5, <2>6, <2>7
<1>7. Ledger!Record(c)
  BY <1>1, <1>3, <1>5, <1>6 DEF Ledger!Record, Ledger!None, Ledger!Top, NoRev, Mems
<1> HIDE DEF c
<1> QED BY <1>2, <1>7 DEF Ledger!Record

\* The store with its two-statement reads, publication intents, recoveries, crashes and
\* several processes implements the ledger: snapshots are only ever appended, one at a
\* time, each with its intent, and every acknowledgement is of the newest one.
THEOREM ImplementsLedger == Spec => LedgerSpec
<1>1. Init => Ledger!Init
  BY DEF Init, Ledger!Init, Ledger!None, NoRev, NoIntent, NoBaseline
<1>2. IInv /\ [Next]_vars => [Ledger!Next]_(Ledger!lvars)
  <2> SUFFICES ASSUME IInv, [Next]_vars PROVE [Ledger!Next]_(Ledger!lvars)
    OBVIOUS
  <2>1. CASE UNCHANGED <<events, pending, published>>
    BY <2>1 DEF Ledger!lvars
  <2>2. CASE ~ UNCHANGED <<events, pending, published>>
    <3>1. Next
      BY <2>2 DEF vars
    <3>2. PICK p \in Procs : Confirm(p) \/ Stage(p) \/ RecordBaseline(p) \/ Commit(p)
      BY <2>2, <3>1, LedgerSteps DEF db
    <3>3. Ledger!Next
      BY <2>2, <3>2, ConfirmAcknowledges, StageRestages, BaselineAdopts, CommitRecords
      DEF Ledger!Next
    <3> QED BY <3>3
  <2> QED BY <2>1, <2>2
<1> QED BY <1>1, <1>2, Invariance, PTL DEF Spec, LedgerSpec, Ledger!Spec
-----------------------------------------------------------------------------
(* What MemoryService tells its callers, and what happens to the files.  With a *)
(* single process, its snapshot stays the head until it commits, so MEMORY.md   *)
(* and HISTORY.md can only differ from the database through the person, and     *)
(* every import answers an edit.                                                *)

\* The process is in recover_pending or publish_pending.
Publishing(s) ==
    \/ s.pc \in {"recover", "compare", "recheck", "replace", "confirm"}
    \/ s.pc \in {"renderHistory", "writeHistory"} /\ s.next # "baseline"

\* What the control state and the result of a process say of the database: the caller is
\* _commit exactly while the event of this operation is committed and not yet reported,
\* and the last lines tell which routine can be where.
Honest(s) ==
    /\ s.pc # "idle" => (s.caller = "commit" <=> s.wrote # NoRev)
    /\ s.caller = "commit" =>
         /\ Publishing(s)
         /\ s.op # "sync"
         /\ s.wrote \in 1 .. revision
         /\ Confirming(s) => s.wrote <= s.intent.rev
         /\ ~ Confirming(s) /\ s.pc # "recover" => s.wrote <= published.rev
    /\ s.pc = "idle" /\ s.op \in {"consolidate", "archive"} =>
         /\ s.result.committed <=> s.wrote # NoRev
         /\ s.result.exported => s.wrote <= published.rev
    /\ s.stage = "commit" =>
         s.caller = "commit" \/ s.pc \in {"checkRevision", "checkFile", "embed", "commit"}
    /\ s.stage = "extract" =>
         s.pc \in {"readRevision", "readRows", "readExpected", "extract", "checkRevision", "checkFile"}
    /\ s.pc \in {"readExpected", "extract"} => s.stage = "extract"
    /\ s.stage # "sync" => s.op # "sync"

-----------------------------------------------------------------------------
(* What the control operators leave in the local record. *)

\* The local record after a return or an exception: nothing of the operation but its
\* name, the revision it committed and its result.
Ended(s, t, r) ==
    /\ t.pc = "idle" /\ t.op = s.op /\ t.wrote = s.wrote /\ t.result = r
    /\ t.stage = "sync" /\ t.caller = "sync"

\* Finish.
LEMMA FinishFields ==
    ASSUME IInv, NEW p \in Procs, NEW r, Finish(p, r)
    PROVE  Ended(svc[p], svc'[p], r)
<1>1. svc' = [svc EXCEPT ![p] = [Down(r) EXCEPT !.pc = "idle", !.op = svc[p].op,
                                                !.wrote = svc[p].wrote]]
  BY DEF Finish, Set
<1>2. svc'[p] = [Down(r) EXCEPT !.pc = "idle", !.op = svc[p].op, !.wrote = svc[p].wrote]
  BY <1>1 DEF IInv, TypeOK
<1> QED BY <1>2 DEF Ended, Down

\* Raise.
LEMMA RaiseFields ==
    ASSUME IInv, NEW p \in Procs, NEW e \in BOOLEAN, Raise(p, e)
    PROVE  \/ svc[p].caller = "boot" /\ svc'[p] = Down(Raised)
           \/ svc[p].caller = "commit" /\ Ended(svc[p], svc'[p], Returned(TRUE, FALSE, TRUE))
           \/ /\ svc[p].caller \notin {"boot", "commit"} /\ e /\ svc[p].op # "sync"
              /\ Ended(svc[p], svc'[p], Returned(FALSE, FALSE, FALSE))
           \/ /\ svc[p].caller \notin {"boot", "commit"}
              /\ Ended(svc[p], svc'[p], Raised)
<1>1. CASE svc[p].caller = "boot"
  BY <1>1 DEF Raise, Set, IInv, TypeOK
<1>2. CASE svc[p].caller = "commit"
  BY <1>2, FinishFields DEF Raise
<1>3. CASE svc[p].caller \notin {"boot", "commit"}
  BY <1>3, FinishFields DEF Raise
<1> QED BY <1>1, <1>2, <1>3

\* SyncDone.
LEMMA SyncDoneFields ==
    ASSUME IInv, NEW p \in Procs, SyncDone(p)
    PROVE  \/ svc[p].op = "sync" /\ Ended(svc[p], svc'[p], Returned(TRUE, TRUE, TRUE))
           \/ svc[p].op # "sync" /\ Ended(svc[p], svc'[p], Returned(FALSE, FALSE, FALSE))
           \/ /\ svc[p].op # "sync"
              /\ svc'[p] = [Down(NoResult) EXCEPT !.pc = "readRevision", !.op = svc[p].op,
                                                  !.stage = "extract"]
<1>1. CASE svc[p].op = "sync"
  BY <1>1, FinishFields DEF SyncDone
<1>2. CASE svc[p].op # "sync" /\ svc[p].redo
  BY <1>2, FinishFields DEF SyncDone
<1>3. CASE svc[p].op # "sync" /\ ~ svc[p].redo
  BY <1>3 DEF SyncDone, Set, IInv, TypeOK
<1> QED BY <1>1, <1>2, <1>3 DEF IInv, TypeOK, Local

\* Any other change of the local record.
LEMMA SetField ==
    ASSUME IInv, NEW p \in Procs, NEW s, Set(p, s)
    PROVE  svc'[p] = s
  BY DEF IInv, TypeOK, Set

\* RecoverDone.
LEMMA RecoverDoneFields ==
    ASSUME IInv, NEW p \in Procs, RecoverDone(p)
    PROVE  \/ svc[p].caller = "boot" /\ Ended(svc[p], svc'[p], NoResult)
           \/ /\ svc[p].caller = "sync"
              /\ svc'[p] = [svc[p] EXCEPT !.pc = "readRevision", !.intent = NoIntent]
           \/ svc[p].caller = "stage" /\ SyncDone(p)
           \/ svc[p].caller = "commit" /\ Ended(svc[p], svc'[p], Returned(TRUE, TRUE, TRUE))
<1>1. CASE svc[p].caller = "boot"
  BY <1>1, FinishFields DEF RecoverDone
<1>2. CASE svc[p].caller = "sync"
  BY <1>2, SetField DEF RecoverDone
<1>3. CASE svc[p].caller = "stage"
  BY <1>3 DEF RecoverDone
<1>4. CASE svc[p].caller = "commit"
  BY <1>4, FinishFields DEF RecoverDone
<1> QED BY <1>1, <1>2, <1>3, <1>4 DEF IInv, TypeOK, Local

-----------------------------------------------------------------------------
(* Results. *)

\* A new record is honest.
LEMMA DownHonest ==
    ASSUME NEW p \in Procs, NEW r \in Results, svc'[p] = Down(r)
    PROVE  Honest(svc[p])'
<1>1. /\ svc'[p].pc = "down" /\ svc'[p].caller = "sync" /\ svc'[p].wrote = NoRev
      /\ svc'[p].stage = "sync"
  BY DEF Down
<1> QED BY <1>1 DEF Honest

\* A result is honest when it is about what the operation wrote.
LEMMA EndedHonest ==
    ASSUME NEW p \in Procs, NEW r \in Results, Ended(svc[p], svc'[p], r),
           svc[p].op \in {"consolidate", "archive"} =>
               /\ r.committed <=> svc[p].wrote # NoRev
               /\ r.exported => svc[p].wrote <= published'.rev
    PROVE  Honest(svc[p])'
  BY DEF Ended, Honest

\* An exception says that the event is committed exactly when it is.
LEMMA RaiseHonest ==
    ASSUME IInv, NEW p \in Procs, NEW e \in BOOLEAN, Raise(p, e),
           Honest(svc[p]), svc[p].pc # "idle"
    PROVE  Honest(svc[p])'
<1>1. CASE svc'[p] = Down(Raised)
  BY <1>1, ResultTypes, DownHonest
<1>2. CASE svc[p].caller = "commit" /\ Ended(svc[p], svc'[p], Returned(TRUE, FALSE, TRUE))
  BY <1>2, ResultTypes, EndedHonest DEF Honest, Returned
<1>3. CASE svc[p].caller # "commit" /\ Ended(svc[p], svc'[p], Returned(FALSE, FALSE, FALSE))
  BY <1>3, ResultTypes, EndedHonest DEF Honest, Returned
<1>4. CASE svc[p].caller # "commit" /\ Ended(svc[p], svc'[p], Raised)
  BY <1>4, ResultTypes, EndedHonest DEF Honest, Raised
<1> QED BY <1>1, <1>2, <1>3, <1>4, RaiseFields

\* So does the return of a synchronization, that has written no event of its caller.
LEMMA SyncDoneHonest ==
    ASSUME IInv, NEW p \in Procs, SyncDone(p), Honest(svc[p]), svc[p].pc # "idle",
           svc[p].caller # "commit"
    PROVE  Honest(svc[p])'
<1>1. CASE svc[p].op = "sync" /\ Ended(svc[p], svc'[p], Returned(TRUE, TRUE, TRUE))
  BY <1>1, ResultTypes, EndedHonest
<1>2. CASE Ended(svc[p], svc'[p], Returned(FALSE, FALSE, FALSE))
  BY <1>2, ResultTypes, EndedHonest DEF Honest, Returned
<1>3. CASE /\ svc[p].op # "sync"
           /\ svc'[p] = [Down(NoResult) EXCEPT !.pc = "readRevision", !.op = svc[p].op,
                                               !.stage = "extract"]
  <2>1. /\ svc'[p].pc = "readRevision" /\ svc'[p].caller = "sync" /\ svc'[p].wrote = NoRev
        /\ svc'[p].stage = "extract" /\ svc'[p].op = svc[p].op
    BY <1>3 DEF Down
  <2> QED BY <1>3, <2>1 DEF Honest
<1> QED BY <1>1, <1>2, <1>3, SyncDoneFields

\* So does the return of a publication, once the view is that of its revision or later.
LEMMA RecoverDoneHonest ==
    ASSUME IInv, NEW p \in Procs, RecoverDone(p), Honest(svc[p]), 
           svc[p].pc \in {"recover", "writeHistory", "confirm"},
           svc[p].caller = "commit" => svc[p].wrote <= published'.rev
    PROVE  Honest(svc[p])'
<1>1. CASE svc[p].caller = "boot" /\ Ended(svc[p], svc'[p], NoResult)
  BY <1>1, ResultTypes, EndedHonest DEF Honest, NoResult
<1>2. CASE /\ svc[p].caller = "sync"
           /\ svc'[p] = [svc[p] EXCEPT !.pc = "readRevision", !.intent = NoIntent]
  <2>1. svc[p] \in Local
    BY DEF IInv, TypeOK
  <2>2. /\ svc'[p].pc = "readRevision" /\ svc'[p].caller = "sync"
        /\ svc'[p].wrote = svc[p].wrote
        /\ svc'[p].stage = svc[p].stage /\ svc'[p].op = svc[p].op
    BY <1>2, <2>1 DEF Local
  <2> QED BY <1>2, <2>2 DEF Honest
<1>3. CASE svc[p].caller = "stage" /\ SyncDone(p)
  BY <1>3, SyncDoneHonest
<1>4. CASE svc[p].caller = "commit" /\ Ended(svc[p], svc'[p], Returned(TRUE, TRUE, TRUE))
  BY <1>4, ResultTypes, EndedHonest DEF Honest, Returned
<1> QED BY <1>1, <1>2, <1>3, <1>4, RecoverDoneFields

\* Once an event is in the database, its view is pending or there is a baseline.
Covered == revision > 0 => pending.rev # NoRev \/ published.rev # NoRev

\* The steps of recover_pending and publish_pending.
LEMMA RecoverHonest ==
    ASSUME IInv, Covered, NEW p \in Procs, Honest(svc[p]), Recover(p)
    PROVE  Honest(svc[p])'
<1>0. /\ svc[p] \in Local /\ LocalOK(svc[p])
      /\ revision \in Nat /\ published.rev \in Nat \cup {NoRev} /\ NoRev = -1
      /\ pending.rev # NoRev => pending.rev = revision
      /\ pending.rev = NoRev /\ published.rev # NoRev => published.rev = revision
  BY DEF IInv, TypeOK, DatabaseOK, IntentIsHead, BaselineIsRendering, NoRev
<1>1. CASE RecoverRead(p)
  <2>1. CASE pending.rev # NoRev
    <3>1. svc'[p] = [svc[p] EXCEPT !.pc = "compare", !.intent = pending]
      BY <1>1, <2>1, SetField DEF RecoverRead
    <3>2. UNCHANGED <<revision, published>> /\ svc[p].pc = "recover"
      BY <1>1 DEF RecoverRead, db
    <3> QED BY <1>0, <2>1, <3>1, <3>2 DEF Honest, Publishing, Confirming, Local
  <2>2. CASE pending.rev = NoRev /\ svc[p].caller # "sync" /\ historyFile = NoHistory
    <3>1. svc'[p] = [svc[p] EXCEPT !.pc = "renderHistory", !.next = "return"]
      BY <1>1, <2>2, SetField DEF RecoverRead
    <3>2. UNCHANGED <<revision, published>> /\ svc[p].pc = "recover"
      BY <1>1 DEF RecoverRead, db
    <3>3. svc[p].caller = "commit" => svc[p].wrote <= published.rev
      BY <1>0, <2>2, <3>2 DEF Honest, Local, Covered
    <3> QED BY <1>0, <3>1, <3>2, <3>3 DEF Honest, Publishing, Confirming, Local
  <2>3. CASE RecoverDone(p) /\ pending.rev = NoRev
    <3>1. UNCHANGED <<revision, published>> /\ svc[p].pc = "recover"
      BY <1>1 DEF RecoverRead, db
    <3>2. svc[p].caller = "commit" => svc[p].wrote <= published'.rev
      BY <1>0, <2>3, <3>1 DEF Honest, Local, Covered
    <3> QED BY <2>3, <3>1, <3>2, RecoverDoneHonest
  <2> QED BY <1>1, <2>1, <2>2, <2>3 DEF RecoverRead
<1>2. CASE CompareFile(p) \/ RecheckFile(p) \/ ReplaceFile(p)
  <2>1. svc[p].pc \in {"compare", "recheck", "replace"} /\ UNCHANGED <<revision, published>>
    BY <1>2 DEF CompareFile, RecheckFile, ReplaceFile, db
  <2>2. CASE Raise(p, TRUE)
    BY <2>1, <2>2, RaiseHonest
  <2>3. CASE \E l \in {"recheck", "replace"} : svc'[p] = [svc[p] EXCEPT !.pc = l]
    BY <1>0, <2>1, <2>3 DEF Honest, Publishing, Confirming, Local
  <2>4. CASE svc'[p] = [svc[p] EXCEPT !.pc = "renderHistory", !.next = "confirm"]
    BY <1>0, <2>1, <2>4 DEF Honest, Publishing, Confirming, Local
  <2>5. \/ Set(p, [svc[p] EXCEPT !.pc = "recheck"]) \/ Set(p, [svc[p] EXCEPT !.pc = "replace"])
        \/ Set(p, [svc[p] EXCEPT !.pc = "renderHistory", !.next = "confirm"]) \/ Raise(p, TRUE)
    BY <1>2 DEF CompareFile, RecheckFile, ReplaceFile, Goto
  <2> QED BY <2>2, <2>3, <2>4, <2>5, SetField
<1>3. CASE RenderHistory(p)
  <2>1. svc'[p] = [svc[p] EXCEPT !.pc = "writeHistory", !.shown = HistoryView]
    BY <1>3, SetField DEF RenderHistory
  <2>2. svc[p].pc = "renderHistory" /\ UNCHANGED <<revision, published>>
    BY <1>3 DEF RenderHistory, db
  <2> QED BY <1>0, <2>1, <2>2 DEF Honest, Publishing, Confirming, Local
<1>4. CASE WriteHistory(p)
  <2>1. svc[p].pc = "writeHistory" /\ UNCHANGED <<revision, published>>
    BY <1>4 DEF WriteHistory, db
  <2>2. CASE svc[p].next = "confirm"
    <3>1. svc'[p] = [svc[p] EXCEPT !.pc = "confirm"]
      BY <1>4, <2>2, SetField DEF WriteHistory, Goto
    <3> QED BY <1>0, <2>1, <2>2, <3>1 DEF Honest, Publishing, Confirming, Local
  <2>3. CASE svc[p].next = "baseline"
    <3>1. svc'[p] = [svc[p] EXCEPT !.pc = "baseline"]
      BY <1>4, <2>3, SetField DEF WriteHistory, Goto
    <3> QED BY <1>0, <2>1, <2>3, <3>1 DEF Honest, Publishing, Confirming, Local
  <2>4. CASE svc[p].next = "return" /\ svc[p].caller = "sync"
    <3>1. SyncDone(p)
      BY <1>4, <2>4 DEF WriteHistory
    <3> QED BY <2>1, <2>4, <3>1, SyncDoneHonest
  <2>5. CASE svc[p].next = "return" /\ svc[p].caller # "sync"
    <3>1. RecoverDone(p)
      BY <1>4, <2>5 DEF WriteHistory
    <3>2. svc[p].caller = "commit" => svc[p].wrote <= published'.rev
      BY <2>1, <2>5 DEF Honest, Confirming
    <3> QED BY <2>1, <3>1, <3>2, RecoverDoneHonest
  <2> QED BY <1>0, <2>2, <2>3, <2>4, <2>5 DEF Local
<1>5. CASE Confirm(p)
  <2>1. svc[p].pc = "confirm" /\ revision' = revision
    BY <1>5 DEF Confirm
  <2>2. CASE IntentIsOurs(p)
    <3>1. RecoverDone(p) /\ published'.rev = svc[p].intent.rev
      BY <1>5, <2>2 DEF Confirm
    <3>2. svc[p].caller = "commit" => svc[p].wrote <= published'.rev
      BY <2>1, <3>1 DEF Honest, Confirming
    <3> QED BY <2>1, <3>1, <3>2, RecoverDoneHonest
  <2>3. CASE ~ IntentIsOurs(p)
    BY <1>5, <2>1, <2>3, RaiseHonest DEF Confirm
  <2> QED BY <2>2, <2>3
<1> QED BY <1>1, <1>2, <1>3, <1>4, <1>5 DEF Recover

\* The steps of sync up to its decision, and of its two transactions.
LEMMA SyncHonest ==
    ASSUME IInv, NEW p \in Procs, Honest(svc[p]), Sync(p)
    PROVE  Honest(svc[p])'
<1>0. svc[p] \in Local
  BY DEF IInv, TypeOK
<1>1. CASE ReadRevision(p) \/ ReadRows(p) \/ ReadState(p)
  <2>1. /\ svc[p].pc \in {"readRevision", "readRows", "readState"}
        /\ UNCHANGED <<revision, published>>
    BY <1>1 DEF ReadRevision, ReadRows, ReadState, db
  <2>2. CASE ReadRevision(p)
    <3>1. svc'[p] = [svc[p] EXCEPT !.pc = "readRows", !.cur.rev = revision]
      BY <2>2, SetField DEF ReadRevision
    <3> QED BY <1>0, <2>1, <3>1 DEF Honest, Publishing, Local
  <2>3. CASE ReadRows(p)
    <3> DEFINE l == IF svc[p].stage = "sync" THEN "readState" ELSE "readExpected"
    <3>1. svc'[p] = [svc[p] EXCEPT !.cur.mem = memories, !.pc = l]
      BY <2>3, SetField DEF ReadRows
    <3>2. /\ svc'[p].pc = l /\ svc'[p].caller = svc[p].caller /\ svc'[p].op = svc[p].op
          /\ svc'[p].wrote = svc[p].wrote /\ svc'[p].stage = svc[p].stage
      BY <1>0, <3>1 DEF Local
    <3> QED BY <1>0, <2>1, <3>2 DEF Honest, Publishing, Local
  <2>4. CASE ReadState(p)
    <3>1. svc'[p] = [svc[p] EXCEPT !.pc = "readFile", !.base = published]
      BY <2>4, SetField DEF ReadState
    <3>2. /\ svc'[p].pc = "readFile" /\ svc'[p].caller = svc[p].caller
          /\ svc'[p].op = svc[p].op /\ svc'[p].wrote = svc[p].wrote
          /\ svc'[p].stage = svc[p].stage
      BY <1>0, <3>1 DEF Local
    <3>3. svc[p].pc = "readState"
      BY <2>4 DEF ReadState
    <3> QED BY <1>0, <2>1, <3>2, <3>3 DEF Honest, Publishing, Local
  <2> QED BY <1>1, <2>2, <2>3, <2>4
<1>2. CASE ReadFile(p)
  <2>1. svc[p].pc = "readFile" /\ UNCHANGED <<revision, published>>
    BY <1>2 DEF ReadFile, db
  <2>2. CASE Raise(p, TRUE)
    BY <2>1, <2>2, RaiseHonest
  <2>3. CASE SyncDone(p)
    BY <2>1, <2>3, SyncDoneHonest DEF Honest, Publishing
  <2>4. CASE \E t : \E i : svc'[p] = [svc[p] EXCEPT !.pc = "stage", !.seen = t, !.intent = i]
    BY <1>0, <2>1, <2>4 DEF Honest, Publishing, Local
  <2>5. CASE \E t : svc'[p] = [svc[p] EXCEPT !.pc = "renderHistory", !.next = "baseline", !.seen = t]
    BY <1>0, <2>1, <2>5 DEF Honest, Publishing, Local
  <2>6. CASE svc'[p] = [svc[p] EXCEPT !.pc = "renderHistory", !.next = "return"]
    BY <1>0, <2>1, <2>6 DEF Honest, Publishing, Local
  <2>7. CASE \E t, m : svc'[p] = [svc[p] EXCEPT !.pc = "embed", !.seen = t, !.draft = m]
    BY <1>0, <2>1, <2>7 DEF Honest, Publishing, Local
  <2>8. \/ \E t : StageView(p, t) \/ AdoptView(p, t)
        \/ \E t, m : Set(p, [svc[p] EXCEPT !.pc = "embed", !.seen = t, !.draft = m])
        \/ Set(p, [svc[p] EXCEPT !.pc = "renderHistory", !.next = "return"])
        \/ SyncDone(p) \/ Raise(p, TRUE)
    BY <1>2 DEF ReadFile, FirstSync, LaterSync, ImportFile
  <2> QED BY <2>2, <2>3, <2>4, <2>5, <2>6, <2>7, <2>8, SetField DEF StageView, AdoptView
<1>3. CASE Stage(p)
  <2>1. svc[p].pc = "stage"
    BY <1>3 DEF Stage
  <2>2. CASE Raise(p, FALSE)
    BY <2>1, <2>2, RaiseHonest
  <2>3. CASE svc'[p] = [Down(NoResult) EXCEPT !.pc = "recover", !.op = svc[p].op,
                                              !.caller = "stage", !.redo = svc[p].redo]
    <3>1. /\ svc'[p].pc = "recover" /\ svc'[p].caller = "stage" /\ svc'[p].wrote = NoRev
          /\ svc'[p].stage = "sync"
      BY <2>3 DEF Down
    <3> QED BY <3>1 DEF Honest
  <2> QED BY <1>3, <2>2, <2>3, SetField DEF Stage
<1>4. CASE RecordBaseline(p)
  <2>1. svc[p].pc = "baseline" /\ svc[p].caller # "commit"
    BY <1>4 DEF RecordBaseline, Honest, Publishing
  <2> QED BY <1>4, <2>1, SyncDoneHonest, RaiseHonest DEF RecordBaseline
<1> QED BY <1>1, <1>2, <1>3, <1>4 DEF Sync

\* The awaits, the checks after them and the commit.
LEMMA WriteHonest ==
    ASSUME IInv, NEW p \in Procs, Honest(svc[p]), Write(p)
    PROVE  Honest(svc[p])'
<1>0. svc[p] \in Local /\ revision \in Nat /\ NoRev = -1
  BY DEF IInv, TypeOK, NoRev
<1>1. CASE ReadExpected(p)
  <2>1. svc[p].pc = "readExpected" /\ UNCHANGED <<revision, published>>
    BY <1>1 DEF ReadExpected, db
  <2> DEFINE s == [svc[p] EXCEPT !.seen = memoryFile]
  <2>2. CASE svc'[p] = [s EXCEPT !.pc = "extract"]
    BY <1>0, <2>1, <2>2 DEF Honest, Publishing, Local
  <2>3. CASE svc'[p] = [s EXCEPT !.pc = "checkRevision", !.stage = "commit",
                                 !.draft = s.cur.mem]
    BY <1>0, <2>1, <2>3 DEF Honest, Publishing, Local
  <2> QED BY <1>1, <2>2, <2>3, SetField DEF ReadExpected
<1>2. CASE Extract(p)
  <2>1. svc[p].pc = "extract" /\ UNCHANGED <<revision, published>>
    BY <1>2 DEF Extract, db
  <2>2. CASE \E c : svc'[p] = [svc[p] EXCEPT !.pc = "checkRevision", !.draft = c]
    BY <1>0, <2>1, <2>2 DEF Honest, Publishing, Local
  <2>3. CASE Finish(p, Returned(FALSE, FALSE, TRUE))
    BY <2>1, <2>3, ResultTypes, FinishFields, EndedHonest DEF Honest, Publishing, Returned
  <2> QED BY <1>2, <2>2, <2>3, SetField DEF Extract
<1>3. CASE Embed(p)
  <2>1. svc[p].pc = "embed" /\ UNCHANGED <<revision, published>>
    BY <1>3 DEF Embed, db
  <2>2. CASE svc'[p] = [svc[p] EXCEPT !.pc = "checkRevision"]
    BY <1>0, <2>1, <2>2 DEF Honest, Publishing, Local
  <2>3. CASE Raise(p, FALSE)
    BY <2>1, <2>3, RaiseHonest
  <2>4. CASE Finish(p, Returned(FALSE, FALSE, TRUE))
    BY <2>1, <2>4, ResultTypes, FinishFields, EndedHonest DEF Honest, Publishing, Returned
  <2> QED BY <1>3, <2>2, <2>3, <2>4, SetField DEF Embed, Goto
<1>4. CASE CheckRevision(p)
  <2>1. svc[p].pc = "checkRevision" /\ UNCHANGED <<revision, published>>
    BY <1>4 DEF CheckRevision, db
  <2>2. svc'[p] = [svc[p] EXCEPT !.pc = "checkFile", !.fresh = AtHead(p)]
    BY <1>4, SetField DEF CheckRevision
  <2>3. /\ svc'[p].pc = "checkFile" /\ svc'[p].caller = svc[p].caller /\ svc'[p].op = svc[p].op
        /\ svc'[p].wrote = svc[p].wrote /\ svc'[p].stage = svc[p].stage
    BY <1>0, <2>2 DEF Local
  <2> QED BY <2>1, <2>3 DEF Honest, Publishing
<1>5. CASE CheckFile(p)
  <2>1. svc[p].pc = "checkFile" /\ UNCHANGED <<revision, published>>
    BY <1>5 DEF CheckFile, db
  <2>2. CASE svc'[p] = [svc[p] EXCEPT !.pc = "embed", !.stage = "commit"] /\ svc[p].stage = "extract"
    BY <1>0, <2>1, <2>2 DEF Honest, Publishing, Local
  <2>3. CASE svc'[p] = [svc[p] EXCEPT !.pc = "commit"] /\ svc[p].stage # "extract"
    BY <1>0, <2>1, <2>3 DEF Honest, Publishing, Local
  <2>4. CASE svc'[p] = [svc[p] EXCEPT !.pc = "recover", !.stage = "sync",
                                      !.caller = "sync", !.redo = TRUE]
    BY <1>0, <2>1, <2>4 DEF Honest, Publishing, Local
  <2>5. CASE Raise(p, TRUE)
    BY <2>1, <2>5, RaiseHonest
  <2>6. CASE Finish(p, Returned(FALSE, FALSE, FALSE))
    BY <2>1, <2>6, ResultTypes, FinishFields, EndedHonest DEF Honest, Publishing, Returned
  <2>7. svc[p].stage \in {"sync", "extract", "commit"}
    BY <1>0 DEF Local
  <2> QED BY <1>5, <2>2, <2>3, <2>4, <2>5, <2>6, <2>7, SetField DEF CheckFile, Goto
<1>6. CASE Commit(p)
  <2>1. svc[p].pc = "commit" /\ svc[p].caller # "commit"
    BY <1>6 DEF Commit, Honest, Publishing
  <2>2. CASE AtHead(p) /\ pending.rev = NoRev
    <3> DEFINE c == IF svc[p].stage = "sync" THEN "stage" ELSE "commit"
               w == IF svc[p].stage = "sync" THEN NoRev ELSE revision + 1
    <3>1. revision' = revision + 1
      BY <1>6, <2>2 DEF Commit, NewRevision
    <3>2. svc'[p] = [Down(NoResult) EXCEPT
                         !.pc = "recover", !.op = svc[p].op, !.stage = svc[p].stage,
                         !.redo = svc[p].redo, !.caller = c, !.wrote = w]
      BY <1>6, <2>2, SetField DEF Commit, NewRevision
    <3>3. /\ svc'[p].pc = "recover" /\ svc'[p].caller = c /\ svc'[p].op = svc[p].op
          /\ svc'[p].wrote = w /\ svc'[p].stage = svc[p].stage
      BY <3>2 DEF Down
    <3>4. svc[p].stage # "sync" => svc[p].op # "sync" /\ svc[p].stage = "commit"
      BY <1>0, <2>1 DEF Honest, Local
    <3> QED BY <1>0, <3>1, <3>3, <3>4 DEF Honest, Publishing, Confirming
  <2>3. CASE ~ (AtHead(p) /\ pending.rev = NoRev) /\ svc[p].stage = "sync"
    BY <1>6, <2>1, <2>3, RaiseHonest DEF Commit
  <2>4. CASE ~ (AtHead(p) /\ pending.rev = NoRev) /\ svc[p].stage # "sync"
    <3> DEFINE r == Returned(FALSE, FALSE, AtHead(p))
    <3>1. AtHead(p) \in BOOLEAN
      BY DEF AtHead
    <3>2. r \in Results /\ r.committed = FALSE /\ r.exported = FALSE
      BY <3>1, ResultTypes DEF Returned
    <3>3. Ended(svc[p], svc'[p], r)
      BY <1>6, <2>4, FinishFields DEF Commit
    <3> HIDE DEF r
    <3> QED BY <2>1, <3>2, <3>3, EndedHonest DEF Honest
  <2> QED BY <2>2, <2>3, <2>4
<1> QED BY <1>1, <1>2, <1>3, <1>4, <1>5, <1>6 DEF Write

\* Every step of the process itself.
LEMMA OwnHonest ==
    ASSUME IInv, Covered, NEW p \in Procs, Honest(svc[p]),
           \/ Start(p)
           \/ \E op \in {"sync", "consolidate", "archive"} : Invoke(p, op)
           \/ Run(p)
           \/ WriteFails(p)
           \/ Crash(p)
    PROVE  Honest(svc[p])'
<1>1. CASE Start(p)
  <2>1. svc[p].pc = "down" /\ svc[p] \in Local
    BY <1>1 DEF Start, IInv, TypeOK
  <2>2. CASE svc'[p] = [Down(NoResult) EXCEPT !.pc = "recover", !.caller = "boot"]
    <3>1. /\ svc'[p].pc = "recover" /\ svc'[p].caller = "boot" /\ svc'[p].wrote = NoRev
          /\ svc'[p].stage = "sync"
      BY <2>2 DEF Down
    <3> QED BY <3>1 DEF Honest
  <2>3. CASE Finish(p, NoResult)
    BY <2>1, <2>3, ResultTypes, FinishFields, EndedHonest DEF Honest, Publishing, NoResult
  <2> QED BY <1>1, <2>2, <2>3, SetField DEF Start
<1>2. CASE \E op \in {"sync", "consolidate", "archive"} : Invoke(p, op)
  <2>1. PICK op \in {"sync", "consolidate", "archive"} : Invoke(p, op)
    BY <1>2
  <2>2. svc'[p] = [Down(NoResult) EXCEPT !.pc = "recover", !.op = op]
    BY <2>1, SetField DEF Invoke
  <2>3. /\ svc'[p].pc = "recover" /\ svc'[p].caller = "sync" /\ svc'[p].wrote = NoRev
        /\ svc'[p].stage = "sync"
    BY <2>2 DEF Down
  <2> QED BY <2>3 DEF Honest
<1>3. CASE Run(p)
  BY <1>3, RecoverHonest, SyncHonest, WriteHonest DEF Run
<1>4. CASE WriteFails(p)
  BY <1>4, RaiseHonest DEF WriteFails
<1>5. CASE Crash(p)
  BY <1>5, SetField, ResultTypes, DownHonest DEF Crash
<1> QED BY <1>1, <1>2, <1>3, <1>4, <1>5

\* The database moves forward: revisions and baselines only grow, and an event stays covered.
LEMMA Forward ==
    ASSUME IInv, Covered, [Next]_vars
    PROVE  revision' >= revision /\ published'.rev >= published.rev /\ Covered'
<1>0. /\ revision \in Nat /\ published.rev \in Nat \cup {NoRev} /\ NoRev = -1
      /\ published.rev # NoRev => published.rev <= revision
      /\ pending.rev # NoRev => pending.rev = revision
  BY DEF IInv, TypeOK, DatabaseOK, IntentIsHead, BaselineIsRendering, NoRev
<1>1. CASE UNCHANGED <<revision, published, pending>>
  BY <1>0, <1>1 DEF Covered
<1>2. ASSUME NEW p \in Procs, Confirm(p), ~ UNCHANGED <<revision, published, pending>>
      PROVE  revision' >= revision /\ published'.rev >= published.rev /\ Covered'
  <2>1. IntentIsOurs(p)
    BY <1>2 DEF Confirm
  <2>2. /\ published'.rev = svc[p].intent.rev /\ revision' = revision
    BY <1>2, <2>1 DEF Confirm
  <2>3. svc[p].intent.rev # NoRev /\ svc[p].intent.rev = pending.rev
    BY <1>2, <2>1 DEF Confirm, IntentIsOurs, IInv, LocalOK, Confirming
  <2> QED BY <1>0, <2>2, <2>3 DEF Covered
<1>3. ASSUME NEW p \in Procs, Stage(p), ~ UNCHANGED <<revision, published, pending>>
      PROVE  revision' >= revision /\ published'.rev >= published.rev /\ Covered'
  <2>1. AtHead(p) /\ svc[p].pc = "stage" /\ pending' = svc[p].intent
        /\ UNCHANGED <<revision, published>>
    BY <1>3 DEF Stage
  <2>2. pending'.rev = revision
    BY <2>1 DEF AtHead, IInv, LocalOK
  <2> QED BY <1>0, <2>1, <2>2 DEF Covered
<1>4. ASSUME NEW p \in Procs, RecordBaseline(p), ~ UNCHANGED <<revision, published, pending>>
      PROVE  revision' >= revision /\ published'.rev >= published.rev /\ Covered'
  <2>1. UNCHANGED <<revision, pending>>
    BY <1>4 DEF RecordBaseline
  <2>2. published.rev = NoRev /\ published' = [rev |-> revision, text |-> svc[p].seen]
    BY <1>4, <2>1 DEF RecordBaseline
  <2> QED BY <1>0, <2>1, <2>2 DEF Covered
<1>5. ASSUME NEW p \in Procs, Commit(p), ~ UNCHANGED <<revision, published, pending>>
      PROVE  revision' >= revision /\ published'.rev >= published.rev /\ Covered'
  <2>1. AtHead(p) /\ pending.rev = NoRev
    BY <1>5 DEF Commit
  <2>2. revision' = revision + 1 /\ pending'.rev = revision + 1 /\ published' = published
    BY <1>5, <2>1 DEF Commit, NewRevision
  <2> QED BY <1>0, <2>2 DEF Covered
<1>6. \/ UNCHANGED <<revision, published, pending>>
      \/ \E p \in Procs : Confirm(p) \/ Stage(p) \/ RecordBaseline(p) \/ Commit(p)
  BY LedgerSteps DEF db, vars
<1> QED BY <1>1, <1>2, <1>3, <1>4, <1>5, <1>6

\* The steps of process p.
Steps(p) ==
    \/ Start(p)
    \/ \E op \in {"sync", "consolidate", "archive"} : Invoke(p, op)
    \/ Run(p)
    \/ WriteFails(p)
    \/ Crash(p)

\* A step of one process leaves the local records of the others alone.
LEMMA Others ==
    ASSUME IInv, NEW p \in Procs, Steps(p), NEW q \in Procs, q # p
    PROVE  svc'[q] = svc[q]
<1>1. \E s : Set(p, s)
  <2>0. /\ svc[p].caller \in {"boot", "sync", "stage", "commit"}
        /\ svc[p].next \in {"confirm", "baseline", "return"}
        /\ svc[p].stage \in {"sync", "extract", "commit"}
    BY DEF IInv, TypeOK, Local
  <2>1. ASSUME NEW r, Finish(p, r) PROVE \E s : Set(p, s)
    BY <2>1 DEF Finish
  <2>2. ASSUME NEW e, Raise(p, e) PROVE \E s : Set(p, s)
    BY <2>1, <2>2 DEF Raise
  <2>3. ASSUME SyncDone(p) PROVE \E s : Set(p, s)
    BY <2>1, <2>3 DEF SyncDone
  <2>4. ASSUME RecoverDone(p) PROVE \E s : Set(p, s)
    BY <2>0, <2>1, <2>3, <2>4 DEF RecoverDone
  <2>5. CASE \/ Start(p) \/ Crash(p) \/ WriteFails(p)
             \/ \E op \in {"sync", "consolidate", "archive"} : Invoke(p, op)
    BY <2>1, <2>2, <2>5 DEF Start, Crash, WriteFails, Invoke
  <2>6. CASE Recover(p)
    <3>1. CASE WriteHistory(p)
      BY <2>0, <2>3, <2>4, <3>1 DEF WriteHistory, Goto
    <3>2. CASE RecoverRead(p) \/ Confirm(p) \/ RenderHistory(p) \/ ReplaceFile(p)
      BY <2>2, <2>4, <3>2 DEF RecoverRead, Confirm, RenderHistory, ReplaceFile
    <3>3. CASE CompareFile(p) \/ RecheckFile(p)
      BY <2>2, <3>3 DEF CompareFile, RecheckFile, Goto
    <3> QED BY <2>6, <3>1, <3>2, <3>3 DEF Recover
  <2>7. CASE ReadRevision(p) \/ ReadRows(p) \/ ReadState(p) \/ Stage(p) \/ RecordBaseline(p)
    BY <2>2, <2>3, <2>7 DEF ReadRevision, ReadRows, ReadState, Stage, RecordBaseline
  <2>8. CASE ReadFile(p)
    BY <2>2, <2>3, <2>8 DEF ReadFile, FirstSync, LaterSync, ImportFile, StageView, AdoptView
  <2>9. CASE Write(p)
    <3>1. CASE CheckFile(p)
      BY <2>0, <2>1, <2>2, <3>1 DEF CheckFile, Goto
    <3>2. CASE ReadExpected(p) \/ Extract(p) \/ Embed(p) \/ CheckRevision(p)
      BY <2>1, <2>2, <3>2 DEF ReadExpected, Extract, Embed, CheckRevision, Goto
    <3>3. CASE Commit(p)
      BY <2>1, <2>2, <3>3 DEF Commit
    <3> QED BY <2>9, <3>1, <3>2, <3>3 DEF Write
  <2> QED BY <2>5, <2>6, <2>7, <2>8, <2>9 DEF Steps, Run, Sync
<1> QED BY <1>1 DEF Set, IInv, TypeOK

\* Honesty outlives what other processes do: revisions and baselines only grow.
LEMMA StaysHonest ==
    ASSUME IInv, NEW q \in Procs, Honest(svc[q]), svc'[q] = svc[q],
           revision' \in Nat, revision' >= revision, published'.rev >= published.rev,
           published'.rev \in Nat \cup {NoRev}
    PROVE  Honest(svc[q])'
<1>1. /\ svc[q] \in Local /\ revision \in Nat
      /\ published.rev \in Nat \cup {NoRev} /\ NoRev = -1
  BY DEF IInv, TypeOK, NoRev
<1>2. svc[q].wrote \in Int
  BY <1>1 DEF Local
<1> QED BY <1>1, <1>2 DEF Honest, Publishing, Confirming

\* The inductive invariant of the results.
HInv == IInv /\ Covered /\ \A p \in Procs : Honest(svc[p])

\* It holds of a new workspace.
LEMMA HInvInit == Init => HInv
<1> SUFFICES ASSUME Init PROVE HInv
  OBVIOUS
<1>1. Covered
  BY DEF Init, Covered
<1>2. ASSUME NEW p \in Procs PROVE Honest(svc[p])
  <2>1. svc[p].pc = "down" /\ svc[p].caller = "sync" /\ svc[p].wrote = NoRev /\ svc[p].stage = "sync"
    BY DEF Init, Down
  <2> QED BY <2>1 DEF Honest
<1> QED BY <1>1, <1>2, InitIInv DEF HInv

\* No step breaks it.
LEMMA HInvStep == HInv /\ [Next]_vars => HInv'
<1> SUFFICES ASSUME HInv, [Next]_vars PROVE HInv'
  OBVIOUS
<1>1. IInv /\ Covered /\ IInv'
  BY IInvStep DEF HInv
<1>2. revision' >= revision /\ published'.rev >= published.rev /\ Covered'
  BY <1>1, Forward
<1>3. revision' \in Nat /\ published'.rev \in Nat \cup {NoRev}
  BY <1>1 DEF IInv, TypeOK
<1>4. ASSUME NEW q \in Procs PROVE Honest(svc[q])'
  <2>1. Honest(svc[q])
    BY DEF HInv
  <2>2. CASE svc'[q] = svc[q]
    BY <1>1, <1>2, <1>3, <2>1, <2>2, StaysHonest
  <2>3. CASE Steps(q)
    BY <1>1, <2>1, <2>3, OwnHonest DEF Steps
  <2>4. CASE \E p \in Procs : Steps(p)
    BY <1>1, <2>2, <2>3, <2>4, Others
  <2>5. CASE EditMemory \/ DeleteHistory \/ UNCHANGED vars
    <3>1. svc' = svc
      BY <2>5 DEF EditMemory, DeleteHistory, vars
    <3> QED BY <2>2, <3>1
  <2> QED BY <2>4, <2>5 DEF Next, Steps
<1> QED BY <1>1, <1>2, <1>4 DEF HInv

\* Every result is about what its operation wrote, in every process.
THEOREM HonestResults == Spec => []HInv
  BY HInvInit, HInvStep, PTL DEF Spec

\* A result tells the truth: committed exactly when the event of this call is in the
\* database, exported only when the published view is at least that revision.
THEOREM ResultsCorrect == Spec => []ResultIsHonest
<1>1. HInv => ResultIsHonest
  <2> SUFFICES ASSUME HInv, NEW p \in Procs, svc[p].pc = "idle",
                      svc[p].op \in {"consolidate", "archive"}
               PROVE  /\ svc[p].result.committed <=> svc[p].wrote # NoRev
                      /\ svc[p].result.exported  => published.rev >= svc[p].wrote
    BY DEF ResultIsHonest
  <2>1. Honest(svc[p]) /\ svc[p].wrote \in Int /\ published.rev \in Int
    BY DEF HInv, IInv, TypeOK, Local, NoRev
  <2> QED BY <2>1 DEF Honest
<1> QED BY <1>1, HonestResults, PTL

-----------------------------------------------------------------------------
(* A single process on the workspace.  Then the snapshot a routine has read is *)
(* the head until the routine commits, and only the person disturbs the files. *)

\* One process on the workspace: the write lock then orders every operation.
Alone == \A p, q \in Procs : p = q

\* The process works on the snapshot it has read, or begins to.
Reading(s) ==
    \/ s.pc \in {"readRows", "readState", "readFile", "readExpected", "stage", "embed",
                 "extract", "checkRevision", "checkFile", "commit"}
    \/ Adopting(s)

\* It restores HISTORY.md on the way out of a synchronization.
Returning(s) == s.pc \in {"renderHistory", "writeHistory"} /\ s.next = "return"

\* It has made sure that MEMORY.md shows the target of its intent.
Shown(s) ==
    \/ s.pc = "confirm"
    \/ s.pc \in {"renderHistory", "writeHistory"} /\ s.next = "confirm"

\* It is about to commit what a person wrote.
Importing(s) == s.stage = "sync" /\ s.pc \in {"embed", "checkRevision", "checkFile", "commit"}

\* What the local record of the only process says about the database and HISTORY.md.
Solo(s) ==
    /\ Reading(s) => s.cur.rev = revision
    /\ Reading(s) \/ Returning(s) \/ s.pc = "readRevision" => pending.rev = NoRev
    /\ Confirming(s) => s.intent = pending
    /\ s.pc = "recover" /\ s.caller # "sync" => pending.rev # NoRev
    /\ Returning(s) => s.caller = "sync"
    /\ s.pc \in {"readRevision", "readRows", "readState", "readFile"} => s.caller = "sync"
    /\ s.pc = "readFile" => s.base = published
    /\ s.pc = "writeHistory" => s.shown = Len(events)
    /\ s.pc = "confirm" => historyFile \in {NoHistory, Len(events)}
    /\ Importing(s) => Parses(s.seen) /\ s.draft = s.seen.mem

\* What it says about MEMORY.md, as long as nobody wrote between two steps of it.
Calm(s) ==
    /\ s.pc = "replace" => memoryFile = s.intent.expected
    /\ Shown(s) => memoryFile = s.intent.target
    /\ \/ Returning(s) \/ Adopting(s)
       \/ s.stage = "extract" /\ s.pc \in {"readRevision", "readRows", "readExpected"}
       => memoryFile = Rendered(memories)
    /\ s.stage # "sync" /\ s.pc \in {"extract", "embed", "checkRevision", "checkFile", "commit"}
       => s.seen = Rendered(memories)
    /\ s.pc = "stage" => Accounted(s.intent.expected)

\* A step of the only process may still import the text of MEMORY.md as an edit.
ImportDue ==
    \/ \E p \in Procs : Importing(svc[p])
    \/ pending.rev = NoRev /\ (published.rev = NoRev \/ memoryFile # published.text)
    \/ /\ pending.rev # NoRev
       /\ \E p \in Procs : Shown(svc[p]) /\ memoryFile # pending.target

\* The revisions that imports committed.
Imports == {i \in 1 .. Len(events) : events[i].by = "sync"}

\* The inductive invariant of a single process.
HistoryOK == pending.rev = NoRev => historyFile \in {NoHistory, Len(events)}
IntentOK == used.close = 0 /\ pending.rev # NoRev => Accounted(pending.expected)
ImportsOK == Cardinality(Imports) + (IF ImportDue THEN 1 ELSE 0) <= used.edits + 1

\* What a step of process p keeps when it leaves the database alone.
Keeps(p) ==
    /\ Solo(svc[p])'
    /\ used.close = 0 => Calm(svc[p])'
    /\ Importing(svc[p])' => Importing(svc[p]) \/ ImportDue
    /\ pending'.rev # NoRev /\ Shown(svc[p])' /\ memoryFile' # pending'.target => ImportDue
    /\ used.close = 0 /\ svc[p].op = "sync" /\ svc'[p].pc = "idle"
       /\ svc'[p].result.outcome = "returned" => memoryFile' = Rendered(memories')

\* A process at rest has nothing to keep, unless it reports a synchronization.
LEMMA RestKeeps ==
    ASSUME NEW p \in Procs, svc'[p].pc \in {"idle", "down"},
           svc'[p].result.outcome = "returned" => svc[p].op # "sync"
    PROVE  Keeps(p)
  BY DEF Keeps, Solo, Calm, Reading, Adopting, Confirming, Returning, Shown, Importing

\* An exception leaves it at rest.
LEMMA RaiseRests ==
    ASSUME IInv, NEW p \in Procs, Honest(svc[p]), NEW e \in BOOLEAN, Raise(p, e)
    PROVE  /\ svc'[p].pc \in {"idle", "down"}
           /\ svc'[p].result.outcome = "returned" => svc[p].op # "sync"
<1>1. CASE svc'[p] = Down(Raised)
  BY <1>1 DEF Down, Raised
<1>2. CASE /\ svc[p].caller = "commit" \/ svc[p].op # "sync"
           /\ \E r : Ended(svc[p], svc'[p], r)
  BY <1>2 DEF Ended, Honest
<1>3. CASE Ended(svc[p], svc'[p], Raised)
  BY <1>3 DEF Ended, Raised
<1> QED BY <1>1, <1>2, <1>3, RaiseFields

\* The return of a synchronization that leaves the view in MEMORY.md.
LEMMA SyncDoneKeeps ==
    ASSUME IInv, NEW p \in Procs, SyncDone(p), pending'.rev = NoRev,
           used.close = 0 => memoryFile' = Rendered(memories')
    PROVE  Keeps(p)
<1>1. CASE svc'[p].pc = "idle"
  BY <1>1 DEF Keeps, Solo, Calm, Reading, Adopting, Confirming, Returning, Shown, Importing
<1>2. CASE svc'[p] = [Down(NoResult) EXCEPT !.pc = "readRevision", !.op = svc[p].op,
                                            !.stage = "extract"]
  <2>1. svc'[p].pc = "readRevision" /\ svc'[p].stage = "extract" /\ svc'[p].caller = "sync"
    BY <1>2 DEF Down
  <2> QED BY <2>1 DEF Keeps, Solo, Calm, Reading, Adopting, Confirming, Returning, Shown, Importing
<1> QED BY <1>1, <1>2, SyncDoneFields DEF Ended

\* The return of recover_pending: nothing is pending any more.
LEMMA RecoverDoneKeeps ==
    ASSUME IInv, NEW p \in Procs, Honest(svc[p]), RecoverDone(p), pending'.rev = NoRev,
           svc[p].pc \in {"recover", "writeHistory", "confirm"},
           svc[p].caller # "sync" /\ used.close = 0 => memoryFile' = Rendered(memories')
    PROVE  Keeps(p)
<1>1. CASE svc[p].caller = "boot" /\ Ended(svc[p], svc'[p], NoResult)
  BY <1>1, RestKeeps DEF Ended, NoResult
<1>4. CASE svc[p].caller = "commit" /\ Ended(svc[p], svc'[p], Returned(TRUE, TRUE, TRUE))
  BY <1>4, RestKeeps DEF Ended, Honest
<1>2. CASE /\ svc[p].caller = "sync"
           /\ svc'[p] = [svc[p] EXCEPT !.pc = "readRevision", !.intent = NoIntent]
  <2>1. svc[p] \in Local
    BY DEF IInv, TypeOK
  <2>2. svc[p].stage = "sync"
    BY <1>2, <2>1 DEF Honest, Local
  <2>3. svc'[p].pc = "readRevision" /\ svc'[p].stage = "sync" /\ svc'[p].caller = "sync"
    BY <1>2, <2>1, <2>2 DEF Local
  <2> QED BY <2>3 DEF Keeps, Solo, Calm, Reading, Adopting, Confirming, Returning, Shown, Importing
<1>3. CASE svc[p].caller = "stage" /\ SyncDone(p)
  BY <1>3, SyncDoneKeeps
<1> QED BY <1>1, <1>2, <1>3, <1>4, RecoverDoneFields

\* A label alone changes.
LEMMA GotoFields ==
    ASSUME IInv, NEW p \in Procs, NEW l, svc'[p] = [svc[p] EXCEPT !.pc = l]
    PROVE  /\ svc'[p].pc = l
           /\ svc'[p].op = svc[p].op         /\ svc'[p].stage = svc[p].stage
           /\ svc'[p].caller = svc[p].caller /\ svc'[p].next = svc[p].next
           /\ svc'[p].cur = svc[p].cur       /\ svc'[p].base = svc[p].base
           /\ svc'[p].seen = svc[p].seen     /\ svc'[p].intent = svc[p].intent
           /\ svc'[p].draft = svc[p].draft   /\ svc'[p].shown = svc[p].shown
  BY DEF IInv, TypeOK, Local

\* The steps of recover_pending and publish_pending.
LEMMA RecoverKeeps ==
    ASSUME IInv, NEW p \in Procs, Honest(svc[p]), Solo(svc[p]), used.close = 0 => Calm(svc[p]),
           Recover(p), Alone
    PROVE  Keeps(p)
<1>0. /\ svc[p] \in Local /\ NoRev = -1
      /\ pending.rev # NoRev => pending.target = Rendered(memories)
      /\ \A q \in Procs : q = p
  BY DEF IInv, TypeOK, DatabaseOK, IntentIsHead, NoRev, Alone
<1>1. CASE RecoverRead(p)
  <2>1. CASE pending.rev # NoRev
    <3>1. svc'[p] = [svc[p] EXCEPT !.pc = "compare", !.intent = pending]
      BY <1>1, <2>1, SetField DEF RecoverRead
    <3>2. svc'[p].pc = "compare" /\ svc'[p].intent = pending /\ svc'[p].stage = svc[p].stage
      BY <1>0, <3>1 DEF Local
    <3>3. UNCHANGED db
      BY <1>1 DEF RecoverRead
    <3> QED BY <3>2, <3>3 DEF Keeps, Solo, Calm, Reading, Adopting, Confirming, Returning, Shown, Importing, db
  <2>2. CASE pending.rev = NoRev
    <3>1. svc[p].pc = "recover" /\ svc[p].caller = "sync" /\ UNCHANGED db
      BY <1>1, <2>2 DEF RecoverRead, Solo
    <3>2. RecoverDone(p)
      BY <1>1, <2>2, <3>1 DEF RecoverRead
    <3> QED BY <2>2, <3>1, <3>2, RecoverDoneKeeps DEF db
  <2> QED BY <2>1, <2>2
<1>2. CASE CompareFile(p) \/ RecheckFile(p) \/ ReplaceFile(p)
  <2>1. /\ svc[p].pc \in {"compare", "recheck", "replace"} /\ UNCHANGED <<db, historyFile>>
        /\ svc[p].intent = pending
    BY <1>2 DEF CompareFile, RecheckFile, ReplaceFile, files, Solo, Confirming
  <2>2. CASE Raise(p, TRUE)
    BY <2>2, RaiseRests, RestKeeps
  <2>3. CASE svc'[p] = [svc[p] EXCEPT !.pc = "recheck"]
    BY <2>1, <2>3, GotoFields DEF Keeps, Solo, Calm, Reading, Adopting, Confirming, Returning, Shown, Importing, db
  <2>4. CASE svc'[p] = [svc[p] EXCEPT !.pc = "replace"] /\ memoryFile' = svc[p].intent.expected
    BY <2>1, <2>4, GotoFields DEF Keeps, Solo, Calm, Reading, Adopting, Confirming, Returning, Shown, Importing, db
  <2>5. CASE /\ svc'[p] = [svc[p] EXCEPT !.pc = "renderHistory", !.next = "confirm"]
             /\ memoryFile' = svc[p].intent.target
    <3>1. /\ svc'[p].pc = "renderHistory" /\ svc'[p].intent = svc[p].intent
          /\ svc'[p].next = "confirm" /\ svc'[p].stage = svc[p].stage
      BY <1>0, <2>5 DEF Local
    <3> QED BY <2>1, <2>5, <3>1 DEF Keeps, Solo, Calm, Reading, Adopting, Confirming, Returning, Shown, Importing, db
  <2>6. \/ Set(p, [svc[p] EXCEPT !.pc = "recheck"])
        \/ Set(p, [svc[p] EXCEPT !.pc = "replace"]) /\ memoryFile' = svc[p].intent.expected
        \/ /\ Set(p, [svc[p] EXCEPT !.pc = "renderHistory", !.next = "confirm"])
           /\ memoryFile' = svc[p].intent.target
        \/ Raise(p, TRUE)
    BY <1>2 DEF CompareFile, RecheckFile, ReplaceFile, Goto, files
  <2> QED BY <2>2, <2>3, <2>4, <2>5, <2>6, SetField
<1>3. CASE RenderHistory(p)
  <2>1. svc'[p] = [svc[p] EXCEPT !.pc = "writeHistory", !.shown = HistoryView]
    BY <1>3, SetField DEF RenderHistory
  <2>2. svc[p].pc = "renderHistory" /\ UNCHANGED <<db, files>>
    BY <1>3 DEF RenderHistory
  <2>3. /\ svc'[p].pc = "writeHistory" /\ svc'[p].shown = Len(events)
        /\ svc'[p].stage = svc[p].stage /\ svc'[p].caller = svc[p].caller
        /\ svc'[p].next = svc[p].next   /\ svc'[p].cur = svc[p].cur
        /\ svc'[p].intent = svc[p].intent
    BY <1>0, <2>1 DEF Local, HistoryView
  <2> QED BY <1>0, <2>2, <2>3 DEF Keeps, Solo, Calm, Reading, Adopting, Confirming, Returning, Shown,
          Importing, ImportDue, db, files
<1>4. CASE WriteHistory(p)
  <2>1. svc[p].pc = "writeHistory" /\ UNCHANGED <<db, memoryFile>> /\ historyFile' = Len(events)
    BY <1>4 DEF WriteHistory, Solo
  <2>2. CASE svc[p].next = "confirm"
    <3>1. svc'[p] = [svc[p] EXCEPT !.pc = "confirm"]
      BY <1>4, <2>2, SetField DEF WriteHistory, Goto
    <3> QED BY <1>0, <2>1, <2>2, <3>1, GotoFields DEF Keeps, Solo, Calm, Reading, Adopting, Confirming,
            Returning, Shown, Importing, ImportDue, db
  <2>3. CASE svc[p].next = "baseline"
    <3>1. svc'[p] = [svc[p] EXCEPT !.pc = "baseline"]
      BY <1>4, <2>3, SetField DEF WriteHistory, Goto
    <3> QED BY <1>0, <2>1, <2>3, <3>1, GotoFields DEF Keeps, Solo, Calm, Reading, Adopting, Confirming,
            Returning, Shown, Importing, ImportDue, db
  <2>4. CASE svc[p].next = "return"
    <3>1. SyncDone(p) /\ pending.rev = NoRev
      BY <1>4, <2>1, <2>4 DEF WriteHistory, Solo, Returning
    <3>2. used.close = 0 => memoryFile = Rendered(memories)
      BY <2>1, <2>4 DEF Calm, Returning
    <3>3. Rendered(memories)' = Rendered(memories)
      BY <2>1 DEF db, Rendered
    <3> QED BY <2>1, <3>1, <3>2, <3>3, SyncDoneKeeps DEF db, Rendered
  <2> QED BY <1>0, <2>2, <2>3, <2>4 DEF Local
<1>5. CASE Confirm(p)
  <2>1. /\ svc[p].pc = "confirm" /\ svc[p].intent = pending /\ pending.rev # NoRev
        /\ UNCHANGED <<memories, files>>
    BY <1>5 DEF Confirm, Solo, Confirming, IInv, LocalOK
  <2>2. RecoverDone(p) /\ pending' = NoIntent
    BY <1>5, <2>1 DEF Confirm, IntentIsOurs
  <2>3. used.close = 0 => memoryFile = Rendered(memories)
    BY <1>0, <2>1 DEF Calm, Shown
  <2>4. Rendered(memories)' = Rendered(memories) /\ memoryFile' = memoryFile /\ pending'.rev = NoRev
    BY <2>1, <2>2 DEF files, Rendered, NoIntent
  <2> QED BY <2>1, <2>2, <2>3, <2>4, RecoverDoneKeeps DEF Rendered
<1> QED BY <1>1, <1>2, <1>3, <1>4, <1>5 DEF Recover

\* The steps of sync.
LEMMA SyncKeeps ==
    ASSUME IInv, NEW p \in Procs, Honest(svc[p]), Solo(svc[p]), used.close = 0 => Calm(svc[p]),
           Sync(p), Alone
    PROVE  Keeps(p)
<1>0. /\ svc[p] \in Local /\ NoRev = -1 /\ LocalOK(svc[p]) /\ revision \in Nat
      /\ \A q \in Procs : q = p
      /\ memories = Snapshot(revision)
      /\ published.rev # NoRev /\ pending.rev = NoRev =>
           published.rev = revision /\ published.text = Rendered(memories)
  BY DEF IInv, TypeOK, DatabaseOK, BaselineIsRendering, NoRev, Alone
<1>1. CASE ReadRevision(p)
  <2>1. svc'[p] = [svc[p] EXCEPT !.pc = "readRows", !.cur.rev = revision]
    BY <1>1, SetField DEF ReadRevision
  <2>2. svc[p].pc = "readRevision" /\ UNCHANGED <<db, files>>
    BY <1>1 DEF ReadRevision
  <2>3. /\ svc'[p].pc = "readRows" /\ svc'[p].cur.rev = revision
        /\ svc'[p].stage = svc[p].stage /\ svc'[p].caller = svc[p].caller
    BY <1>0, <2>1 DEF Local
  <2> QED BY <2>2, <2>3 DEF Keeps, Solo, Calm, Reading, Adopting, Confirming, Returning, Shown, Importing, db, files, Rendered
<1>2. CASE ReadRows(p)
  <2> DEFINE l == IF svc[p].stage = "sync" THEN "readState" ELSE "readExpected"
  <2>1. svc'[p] = [svc[p] EXCEPT !.cur.mem = memories, !.pc = l]
    BY <1>2, SetField DEF ReadRows
  <2>2. svc[p].pc = "readRows" /\ UNCHANGED <<db, files>>
    BY <1>2 DEF ReadRows
  <2>3. /\ svc'[p].pc = l /\ svc'[p].cur.rev = svc[p].cur.rev
        /\ svc'[p].stage = svc[p].stage /\ svc'[p].caller = svc[p].caller
    BY <1>0, <2>1 DEF Local
  <2> QED BY <2>2, <2>3 DEF Keeps, Solo, Calm, Reading, Adopting, Confirming, Returning, Shown, Importing, db, files, Rendered
<1>3. CASE ReadState(p)
  <2>1. svc'[p] = [svc[p] EXCEPT !.pc = "readFile", !.base = published]
    BY <1>3, SetField DEF ReadState
  <2>2. svc[p].pc = "readState" /\ UNCHANGED <<db, files>>
    BY <1>3 DEF ReadState
  <2>3. /\ svc'[p].pc = "readFile" /\ svc'[p].cur = svc[p].cur /\ svc'[p].stage = svc[p].stage
        /\ svc'[p].base = published /\ svc'[p].caller = svc[p].caller
    BY <1>0, <2>1 DEF Local
  <2> QED BY <2>2, <2>3 DEF Keeps, Solo, Calm, Reading, Adopting, Confirming, Returning, Shown, Importing, db, files, Rendered
<1>4. CASE ReadFile(p)
  <2>1. /\ svc[p].pc = "readFile" /\ UNCHANGED <<db, files>>
        /\ svc[p].cur.rev = revision /\ svc[p].cur.mem = memories
        /\ pending.rev = NoRev /\ svc[p].base = published /\ svc[p].stage = "sync"
    <3>1. svc[p].pc = "readFile" /\ UNCHANGED <<db, files>>
      BY <1>4 DEF ReadFile
    <3>2. svc[p].stage = "sync"
      BY <1>0, <3>1 DEF Honest, Publishing, Local
    <3> QED BY <1>0, <3>1, <3>2 DEF Solo, Reading, LocalOK
  <2>2. CASE Raise(p, TRUE)
    BY <2>2, RaiseRests, RestKeeps
  <2>3. CASE SyncDone(p) /\ memoryFile = published.text /\ published.rev # NoRev
    <3>1. Rendered(memories)' = Rendered(memories)
      BY <2>1 DEF db, Rendered
    <3> QED BY <1>0, <2>1, <2>3, <3>1, SyncDoneKeeps DEF db, files, Rendered
  <2>4. ASSUME NEW t, StageView(p, t), Accounted(t)
        PROVE  Keeps(p)
    <3> DEFINE i == [rev |-> svc[p].cur.rev, expected |-> t, target |-> Rendered(svc[p].cur.mem)]
    <3>1. svc'[p] = [svc[p] EXCEPT !.pc = "stage", !.seen = t, !.intent = i]
      BY <2>4, SetField DEF StageView
    <3>2. i.expected = t
      OBVIOUS
    <3>3. /\ svc'[p].pc = "stage" /\ svc'[p].intent.expected = t /\ svc'[p].cur = svc[p].cur
          /\ svc'[p].stage = svc[p].stage
      <4> HIDE DEF i
      <4> QED BY <1>0, <3>1, <3>2 DEF Local
    <3>4. Accounted(t)'
      BY <2>1, <2>4 DEF Accounted, Snapshot, db, Parses, Missing
    <3> QED BY <2>1, <2>4, <3>3, <3>4 DEF Keeps, Solo, Calm, Reading, Adopting, Confirming, Returning, Shown, Importing, db, files
  <2>5. ASSUME NEW t, AdoptView(p, t), t = memoryFile, t = Rendered(memories)
        PROVE  Keeps(p)
    <3>1. svc'[p] = [svc[p] EXCEPT !.pc = "renderHistory", !.next = "baseline", !.seen = t]
      BY <2>5, SetField DEF AdoptView
    <3>2. /\ svc'[p].pc = "renderHistory" /\ svc'[p].next = "baseline" /\ svc'[p].cur = svc[p].cur
          /\ svc'[p].stage = svc[p].stage
      BY <1>0, <3>1 DEF Local
    <3> QED BY <2>1, <2>5, <3>2 DEF Keeps, Solo, Calm, Reading, Adopting, Confirming, Returning, Shown, Importing, db, files, Rendered
  <2>6. CASE /\ Set(p, [svc[p] EXCEPT !.pc = "renderHistory", !.next = "return"])
             /\ memoryFile = published.text /\ published.rev # NoRev
    <3>1. svc'[p] = [svc[p] EXCEPT !.pc = "renderHistory", !.next = "return"]
      BY <2>6, SetField
    <3>2. /\ svc'[p].pc = "renderHistory" /\ svc'[p].next = "return"
          /\ svc'[p].stage = svc[p].stage /\ svc'[p].caller = svc[p].caller
      BY <1>0, <3>1 DEF Local
    <3>3. svc[p].caller = "sync"
      BY <1>0, <2>1 DEF Solo
    <3> QED BY <1>0, <2>1, <2>6, <3>2, <3>3 DEF Keeps, Solo, Calm, Reading, Adopting, Confirming, Returning, Shown, Importing, db, files, Rendered
  <2>7. ASSUME ImportFile(p, memoryFile), published.rev = NoRev \/ memoryFile # published.text
        PROVE  Keeps(p)
    <3> DEFINE t == memoryFile
    <3>1. CASE ~ Parses(t)
      BY <2>2, <2>7, <3>1 DEF ImportFile
    <3>2. CASE Parses(t) /\ t.mem # svc[p].cur.mem
      <4>1. svc'[p] = [svc[p] EXCEPT !.pc = "embed", !.seen = t, !.draft = t.mem]
        BY <2>7, <3>2, SetField DEF ImportFile
      <4>2. /\ svc'[p].pc = "embed" /\ svc'[p].seen = t /\ svc'[p].draft = t.mem
            /\ svc'[p].stage = svc[p].stage /\ svc'[p].cur = svc[p].cur
        BY <1>0, <4>1 DEF Local
      <4>3. ImportDue
        BY <2>1, <2>7 DEF ImportDue
      <4> QED BY <2>1, <3>2, <4>2, <4>3 DEF Keeps, Solo, Calm, Reading, Adopting, Confirming, Returning, Shown, Importing, db, files, Parses
    <3>3. CASE Parses(t) /\ t.mem = svc[p].cur.mem
      <4>1. CASE t # Rendered(t.mem)
        BY <1>0, <2>1, <2>4, <2>7, <3>3, <4>1 DEF ImportFile, Accounted
      <4>2. CASE t = Rendered(t.mem)
        BY <2>1, <2>5, <2>7, <3>3, <4>2 DEF ImportFile
      <4> QED BY <4>1, <4>2
    <3> QED BY <3>1, <3>2, <3>3
  <2>8. CASE memoryFile = Missing
    <3>1. StageView(p, Missing)
      BY <1>4, <2>8 DEF ReadFile, Missing
    <3>2. Accounted(Missing)
      BY DEF Accounted
    <3> QED BY <2>4, <3>1, <3>2
  <2>9. CASE memoryFile # Missing /\ memoryFile.form = "zero"
    BY <1>4, <2>2, <2>9 DEF ReadFile
  <2>10. CASE memoryFile # Missing /\ memoryFile.form # "zero" /\ published.rev = NoRev
    <3>1. FirstSync(p, memoryFile)
      BY <1>4, <2>1, <2>10 DEF ReadFile
    <3> QED BY <2>1, <2>2, <2>5, <2>7, <2>10, <3>1 DEF FirstSync
  <2>11. CASE memoryFile # Missing /\ memoryFile.form # "zero" /\ published.rev # NoRev
    <3>1. LaterSync(p, memoryFile)
      BY <1>4, <2>1, <2>11 DEF ReadFile
    <3>2. published.rev = revision
      BY <1>0, <2>1, <2>11
    <3>3. CASE memoryFile = published.text
      BY <2>1, <2>3, <2>6, <2>11, <3>1, <3>2, <3>3 DEF LaterSync
    <3>4. CASE memoryFile # published.text
      BY <2>1, <2>7, <3>1, <3>2, <3>4 DEF LaterSync
    <3> QED BY <3>3, <3>4
  <2> QED BY <2>8, <2>9, <2>10, <2>11
<1>5. CASE Stage(p)
  <2>1. CASE Raise(p, FALSE)
    BY <2>1, RaiseRests, RestKeeps
  <2>2. CASE /\ svc'[p] = [Down(NoResult) EXCEPT !.pc = "recover", !.op = svc[p].op,
                                                 !.caller = "stage", !.redo = svc[p].redo]
             /\ pending' = svc[p].intent /\ AtHead(p)
    <3>1. svc'[p].pc = "recover" /\ svc'[p].caller = "stage" /\ svc'[p].stage = "sync"
      BY <2>2 DEF Down
    <3>2. pending'.rev # NoRev
      BY <1>0, <1>5, <2>2 DEF Stage, AtHead, LocalOK
    <3> QED BY <3>1, <3>2 DEF Keeps, Solo, Calm, Reading, Adopting, Confirming, Returning, Shown, Importing
  <2> QED BY <1>5, <2>1, <2>2, SetField DEF Stage
<1>6. CASE RecordBaseline(p)
  <2>1. CASE Raise(p, FALSE)
    BY <2>1, RaiseRests, RestKeeps
  <2>2. CASE ~ Raise(p, FALSE)
    <3>1. SyncDone(p) /\ svc[p].pc = "baseline" /\ UNCHANGED <<memories, pending, files>>
      BY <1>6, <2>2 DEF RecordBaseline
    <3>2. pending.rev = NoRev /\ (used.close = 0 => memoryFile = Rendered(memories))
      BY <3>1 DEF Solo, Calm, Reading, Adopting
    <3>3. Rendered(memories)' = Rendered(memories)
      BY <3>1 DEF Rendered
    <3> QED BY <3>1, <3>2, <3>3, SyncDoneKeeps DEF files, Rendered
  <2> QED BY <2>1, <2>2
<1> QED BY <1>1, <1>2, <1>3, <1>4, <1>5, <1>6 DEF Sync

\* The awaits, the checks after them and the commit.
LEMMA WriteKeeps ==
    ASSUME IInv, NEW p \in Procs, Honest(svc[p]), Solo(svc[p]), used.close = 0 => Calm(svc[p]),
           Write(p), Alone
    PROVE  Keeps(p)
<1>0. svc[p] \in Local /\ NoRev = -1 /\ LocalOK(svc[p]) /\ revision \in Nat
  BY DEF IInv, TypeOK, NoRev
<1>1. CASE ReadExpected(p)
  <2>1. svc[p].pc = "readExpected" /\ UNCHANGED <<db, files>> /\ svc[p].stage = "extract"
    BY <1>1 DEF ReadExpected, Honest
  <2> DEFINE s == [svc[p] EXCEPT !.seen = memoryFile]
  <2>2. CASE svc'[p] = [s EXCEPT !.pc = "extract"]
    <3>1. /\ svc'[p].pc = "extract" /\ svc'[p].seen = memoryFile /\ svc'[p].cur = svc[p].cur
          /\ svc'[p].stage = svc[p].stage
      BY <1>0, <2>2 DEF Local
    <3> QED BY <2>1, <3>1 DEF Keeps, Solo, Calm, Reading, Adopting, Confirming, Returning, Shown, Importing, db, files, Rendered
  <2>3. CASE svc'[p] = [s EXCEPT !.pc = "checkRevision", !.stage = "commit",
                                 !.draft = s.cur.mem]
    <3>1. /\ svc'[p].pc = "checkRevision" /\ svc'[p].seen = memoryFile /\ svc'[p].cur = svc[p].cur
          /\ svc'[p].stage = "commit"
      BY <1>0, <2>3 DEF Local
    <3> QED BY <2>1, <3>1 DEF Keeps, Solo, Calm, Reading, Adopting, Confirming, Returning, Shown, Importing, db, files, Rendered
  <2> QED BY <1>1, <2>2, <2>3, SetField DEF ReadExpected
<1>2. CASE Extract(p)
  <2>1. svc[p].pc = "extract" /\ UNCHANGED <<db, files>> /\ svc[p].stage = "extract"
    BY <1>2 DEF Extract, Honest
  <2>2. CASE \E c : svc'[p] = [svc[p] EXCEPT !.pc = "checkRevision", !.draft = c]
    <3>1. /\ svc'[p].pc = "checkRevision" /\ svc'[p].seen = svc[p].seen /\ svc'[p].cur = svc[p].cur
          /\ svc'[p].stage = svc[p].stage
      BY <1>0, <2>2 DEF Local
    <3> QED BY <2>1, <3>1 DEF Keeps, Solo, Calm, Reading, Adopting, Confirming, Returning, Shown, Importing, db, files, Rendered
  <2>3. CASE Finish(p, Returned(FALSE, FALSE, TRUE))
    BY <2>1, <2>3, FinishFields, RestKeeps DEF Ended, Honest
  <2> QED BY <1>2, <2>2, <2>3, SetField DEF Extract
<1>3. CASE Embed(p)
  <2>1. svc[p].pc = "embed" /\ UNCHANGED <<db, files>>
    BY <1>3 DEF Embed
  <2>2. CASE svc'[p] = [svc[p] EXCEPT !.pc = "checkRevision"]
    BY <2>1, <2>2, GotoFields DEF Keeps, Solo, Calm, Reading, Adopting, Confirming, Returning, Shown, Importing, db, files, Rendered
  <2>3. CASE Raise(p, FALSE)
    BY <2>3, RaiseRests, RestKeeps
  <2>4. CASE Finish(p, Returned(FALSE, FALSE, TRUE)) /\ svc[p].stage # "sync"
    BY <2>4, FinishFields, RestKeeps DEF Ended, Honest
  <2> QED BY <1>3, <2>2, <2>3, <2>4, SetField DEF Embed, Goto
<1>4. CASE CheckRevision(p)
  <2>1. svc[p].pc = "checkRevision" /\ UNCHANGED <<db, files>>
    BY <1>4 DEF CheckRevision
  <2>2. svc'[p] = [svc[p] EXCEPT !.pc = "checkFile", !.fresh = AtHead(p)]
    BY <1>4, SetField DEF CheckRevision
  <2>3. /\ svc'[p].pc = "checkFile" /\ svc'[p].seen = svc[p].seen /\ svc'[p].cur = svc[p].cur
        /\ svc'[p].stage = svc[p].stage /\ svc'[p].draft = svc[p].draft
    BY <1>0, <2>2 DEF Local
  <2> QED BY <2>1, <2>3 DEF Keeps, Solo, Calm, Reading, Adopting, Confirming, Returning, Shown, Importing, db, files, Rendered
<1>5. CASE CheckFile(p)
  <2>1. svc[p].pc = "checkFile" /\ UNCHANGED <<db, files>>
    BY <1>5 DEF CheckFile
  <2>2. CASE svc'[p] = [svc[p] EXCEPT !.pc = "embed", !.stage = "commit"] /\ svc[p].stage = "extract"
    <3>1. /\ svc'[p].pc = "embed" /\ svc'[p].seen = svc[p].seen /\ svc'[p].cur = svc[p].cur
          /\ svc'[p].stage = "commit"
      BY <1>0, <2>2 DEF Local
    <3> QED BY <2>1, <2>2, <3>1 DEF Keeps, Solo, Calm, Reading, Adopting, Confirming, Returning, Shown, Importing, db, files, Rendered
  <2>3. CASE svc'[p] = [svc[p] EXCEPT !.pc = "commit"] /\ svc[p].stage # "extract"
    BY <2>1, <2>3, GotoFields DEF Keeps, Solo, Calm, Reading, Adopting, Confirming, Returning, Shown, Importing, db, files, Rendered
  <2>4. CASE svc'[p] = [svc[p] EXCEPT !.pc = "recover", !.stage = "sync",
                                      !.caller = "sync", !.redo = TRUE]
    <3>1. svc'[p].pc = "recover" /\ svc'[p].caller = "sync" /\ svc'[p].stage = "sync"
      BY <1>0, <2>4 DEF Local
    <3> QED BY <3>1 DEF Keeps, Solo, Calm, Reading, Adopting, Confirming, Returning, Shown, Importing
  <2>5. CASE Raise(p, TRUE)
    BY <2>5, RaiseRests, RestKeeps
  <2>6. CASE Finish(p, Returned(FALSE, FALSE, FALSE)) /\ svc[p].stage # "sync"
    BY <2>6, FinishFields, RestKeeps DEF Ended, Honest
  <2>7. svc[p].stage \in {"sync", "extract", "commit"}
    BY <1>0 DEF Local
  <2> QED BY <1>5, <2>2, <2>3, <2>4, <2>5, <2>6, <2>7, SetField DEF CheckFile, Goto
<1>6. CASE Commit(p)
  <2>1. CASE AtHead(p) /\ pending.rev = NoRev
    <3> DEFINE c == IF svc[p].stage = "sync" THEN "stage" ELSE "commit"
               w == IF svc[p].stage = "sync" THEN NoRev ELSE revision + 1
    <3>1. pending'.rev = revision + 1
      BY <1>6, <2>1 DEF Commit, NewRevision
    <3>2. svc'[p] = [Down(NoResult) EXCEPT
                         !.pc = "recover", !.op = svc[p].op, !.stage = svc[p].stage,
                         !.redo = svc[p].redo, !.caller = c, !.wrote = w]
      BY <1>6, <2>1, SetField DEF Commit, NewRevision
    <3>3. svc'[p].pc = "recover"
      BY <3>2 DEF Down
    <3> QED BY <1>0, <3>1, <3>3 DEF Keeps, Solo, Calm, Reading, Adopting, Confirming, Returning, Shown, Importing
  <2>2. CASE ~ (AtHead(p) /\ pending.rev = NoRev) /\ svc[p].stage = "sync"
    BY <1>6, <2>2, RaiseRests, RestKeeps DEF Commit
  <2>3. CASE ~ (AtHead(p) /\ pending.rev = NoRev) /\ svc[p].stage # "sync"
    BY <1>6, <2>3, FinishFields, RestKeeps DEF Commit, Ended, Honest
  <2> QED BY <2>1, <2>2, <2>3
<1> QED BY <1>1, <1>2, <1>3, <1>4, <1>5, <1>6 DEF Write

\* The inductive invariant of a single process.
SInv ==
    /\ HInv
    /\ \A p \in Procs : Solo(svc[p])
    /\ used.close = 0 => \A p \in Procs : Calm(svc[p])
    /\ HistoryOK
    /\ IntentOK
    /\ ImportsOK

\* The steps that write the database or a file of the workspace are few.
LEMMA QuietSteps ==
    ASSUME NEW p \in Procs, Steps(p)
    PROVE  \/ UNCHANGED <<db, files>>
           \/ ReplaceFile(p) \/ WriteHistory(p)
           \/ Confirm(p) \/ Stage(p) \/ RecordBaseline(p) \/ Commit(p)
  BY DEF Steps, Start, Invoke, Run, Recover, Sync, Write, RecoverRead, CompareFile, RecheckFile,
         RenderHistory, ReadRevision, ReadRows, ReadState, ReadFile,
         ReadExpected, Extract, Embed, CheckRevision, CheckFile, WriteFails, Crash, db, files

\* Only the person writes close to the program.
LEMMA StepsUsed ==
    ASSUME IInv, NEW p \in Procs, Steps(p)
    PROVE  used'.close = used.close /\ used'.edits = used.edits
<1>1. used \in [writes : Nat, edits : Nat, crashes : Nat, faults : Nat, close : Nat]
  BY DEF IInv, TypeOK
<1>2. \/ used' = used
      \/ used' = [used EXCEPT !.writes = used.writes + 1]
      \/ used' = [used EXCEPT !.faults = used.faults + 1]
      \/ used' = [used EXCEPT !.crashes = used.crashes + 1]
  BY DEF Steps, Start, Invoke, Run, Recover, Sync, Write, RecoverRead, CompareFile, RecheckFile,
         ReplaceFile, RenderHistory, WriteHistory, Confirm, ReadRevision, ReadRows, ReadState,
         ReadFile, Stage, RecordBaseline,
         ReadExpected, Extract, Embed, CheckRevision, CheckFile, Commit, WriteFails, Crash
<1> QED BY <1>1, <1>2

\* What a successful commit does to the database.
LEMMA Commits ==
    ASSUME IInv, NEW p \in Procs, Commit(p), revision' # revision
    PROVE  /\ revision' = revision + 1 /\ pending'.rev = revision'
           /\ pending'.expected = svc[p].seen
           /\ events' = Append(events, [mem |-> svc[p].draft, by |-> svc[p].stage])
           /\ revision = Len(events) /\ revision' = Len(events')
           /\ events' # events
           /\ Snapshot(revision)' = svc[p].draft /\ Snapshot(revision - 1)' = memories
           /\ svc'[p].pc = "recover"
<1>0. /\ revision \in Nat /\ revision = Len(events) /\ memories = Snapshot(revision)
      /\ events \in Seq([mem : Contents, by : {"sync", "extract", "commit"}])
      /\ svc[p] \in Local
  BY DEF IInv, TypeOK, DatabaseOK
<1>1. AtHead(p) /\ pending.rev = NoRev
  BY DEF Commit
<1> DEFINE e == [mem |-> svc[p].draft, by |-> svc[p].stage]
<1>2. /\ revision' = revision + 1
      /\ pending' = [rev |-> revision + 1, expected |-> svc[p].seen,
                     target |-> Rendered(svc[p].draft)]
      /\ events' = Append(events, e)
  BY <1>1 DEF Commit, NewRevision
<1>3. svc[p].draft \in Contents /\ svc[p].stage \in {"sync", "extract", "commit"}
  BY <1>0 DEF Local
<1>4. /\ Len(events') = revision + 1 /\ events'[revision + 1] = e
      /\ \A r \in 1 .. revision : events'[r] = events[r]
  BY <1>0, <1>2, <1>3
<1>5. events' # events
  BY <1>0, <1>4
<1>6. Snapshot(revision)' = svc[p].draft /\ Snapshot(revision - 1)' = memories
  <2>1. revision' # 0 /\ revision' - 1 = revision /\ (revision = 0 => memories = Empty)
    BY <1>0, <1>2 DEF Snapshot
  <2>2. revision # 0 => events'[revision].mem = memories
    BY <1>0, <1>4 DEF Snapshot
  <2> QED BY <1>2, <1>4, <2>1, <2>2 DEF Snapshot
<1>7. svc'[p].pc = "recover"
  <2> DEFINE c == IF svc[p].stage = "sync" THEN "stage" ELSE "commit"
             w == IF svc[p].stage = "sync" THEN NoRev ELSE revision + 1
  <2>1. svc'[p] = [Down(NoResult) EXCEPT
                       !.pc = "recover", !.op = svc[p].op, !.stage = svc[p].stage,
                       !.redo = svc[p].redo, !.caller = c, !.wrote = w]
    BY <1>1, SetField DEF Commit, NewRevision
  <2> QED BY <2>1 DEF Down
<1> QED BY <1>0, <1>2, <1>4, <1>5, <1>6, <1>7

\* A refused commit does nothing.
LEMMA CommitRefused ==
    ASSUME IInv, NEW p \in Procs, Commit(p), revision' = revision
    PROVE  UNCHANGED <<db, files>>
<1>1. revision \in Nat
  BY DEF IInv, TypeOK
<1>2. CASE AtHead(p) /\ pending.rev = NoRev
  <2>1. revision' = revision + 1
    BY <1>2 DEF Commit, NewRevision
  <2> QED BY <1>1, <2>1
<1>3. CASE ~ (AtHead(p) /\ pending.rev = NoRev)
  BY <1>3 DEF Commit, db
<1> QED BY <1>2, <1>3

\* Whatever else a step does, it leaves the events alone.
LEMMA EventsStay ==
    ASSUME IInv, NEW p \in Procs, Steps(p), ~ (Commit(p) /\ revision' # revision)
    PROVE  UNCHANGED <<revision, events>>
<1>1. CASE Commit(p)
  BY <1>1, CommitRefused DEF db
<1>2. CASE ~ Commit(p)
  BY <1>2, QuietSteps DEF ReplaceFile, WriteHistory, Confirm, Stage, RecordBaseline, db
<1> QED BY <1>1, <1>2

\* HISTORY.md is complete whenever nothing is pending.
LEMMA HistoryStep ==
    ASSUME SInv, NEW p \in Procs, Steps(p)
    PROVE  HistoryOK'
<1>0. IInv /\ Solo(svc[p]) /\ LocalOK(svc[p]) /\ HistoryOK /\ revision \in Nat /\ NoRev = -1
  BY DEF SInv, HInv, IInv, TypeOK, NoRev
<1>1. CASE Commit(p) /\ revision' # revision
  <2>1. revision' = revision + 1 /\ pending'.rev = revision'
    BY <1>0, <1>1, Commits
  <2> QED BY <1>0, <2>1 DEF HistoryOK
<1>2. CASE ~ (Commit(p) /\ revision' # revision)
  <2>1. UNCHANGED <<revision, events>>
    BY <1>0, <1>2, EventsStay
  <2>2. CASE WriteHistory(p)
    BY <1>0, <2>1, <2>2 DEF WriteHistory, Solo, HistoryOK
  <2>3. CASE Confirm(p)
    BY <1>0, <2>1, <2>3 DEF Confirm, Solo, HistoryOK, files
  <2>4. CASE Stage(p)
    BY <1>0, <2>1, <2>4 DEF Stage, HistoryOK, files, AtHead, LocalOK
  <2>5. CASE UNCHANGED <<pending, historyFile>>
    BY <1>0, <2>1, <2>5 DEF HistoryOK
  <2>6. CASE Commit(p)
    <3>1. UNCHANGED <<pending, historyFile>>
      BY <1>0, <2>1, <2>6, CommitRefused DEF db, files
    <3> QED BY <2>5, <3>1
  <2> QED BY <2>2, <2>3, <2>4, <2>5, <2>6, QuietSteps DEF ReplaceFile, RecordBaseline, db, files
<1> QED BY <1>1, <1>2

\* Every intent may replace the text it expects.
LEMMA IntentStep ==
    ASSUME SInv, NEW p \in Procs, Steps(p)
    PROVE  IntentOK'
<1>0. /\ IInv /\ Solo(svc[p]) /\ LocalOK(svc[p]) /\ IntentOK /\ revision \in Nat /\ NoRev = -1
      /\ svc[p] \in Local /\ Honest(svc[p])
      /\ used'.close = used.close
      /\ used.close = 0 => Calm(svc[p])
  BY StepsUsed DEF SInv, HInv, IInv, TypeOK, NoRev
<1>1. CASE Commit(p) /\ revision' # revision
  <2>1. svc[p].pc = "commit"
    BY <1>1 DEF Commit
  <2>2. CASE svc[p].stage = "sync"
    <3>1. Parses(svc[p].seen) /\ svc[p].draft = svc[p].seen.mem
      BY <1>0, <2>1, <2>2 DEF Solo, Importing
    <3>2. pending'.expected = svc[p].seen /\ Snapshot(revision)' = svc[p].draft
      BY <1>0, <1>1, Commits
    <3>3. Accounted(pending.expected)'
      BY <3>1, <3>2 DEF Accounted, Parses
    <3> QED BY <3>3 DEF IntentOK
  <2>3. CASE svc[p].stage # "sync" /\ used.close = 0
    <3>1. svc[p].seen = Rendered(memories)
      BY <1>0, <2>1, <2>3 DEF Calm
    <3>2. Parses(svc[p].seen) /\ svc[p].seen.mem = memories
      BY <3>1 DEF Parses, Rendered
    <3>3. /\ pending'.expected = svc[p].seen /\ Snapshot(revision - 1)' = memories
          /\ revision' = revision + 1
      BY <1>0, <1>1, Commits
    <3>4. Accounted(pending.expected)'
      BY <1>0, <3>2, <3>3 DEF Accounted, Parses
    <3> QED BY <3>4 DEF IntentOK
  <2> QED BY <1>0, <2>2, <2>3 DEF IntentOK
<1>2. CASE ~ (Commit(p) /\ revision' # revision)
  <2>1. UNCHANGED <<revision, events>>
    BY <1>0, <1>2, EventsStay
  <2>2. CASE UNCHANGED pending
    BY <1>0, <2>1, <2>2 DEF IntentOK, Accounted, Snapshot, Parses, Missing
  <2>3. CASE Confirm(p)
    <3>1. pending' = pending \/ pending' = NoIntent
      BY <2>3 DEF Confirm
    <3> QED BY <2>2, <3>1 DEF IntentOK, NoIntent
  <2>4. CASE Stage(p)
    <3>1. pending' = pending \/ (pending' = svc[p].intent /\ svc[p].pc = "stage")
      BY <2>4 DEF Stage
    <3>2. svc[p].pc = "stage" /\ used.close = 0 => Accounted(svc[p].intent.expected)
      BY <1>0 DEF Calm
    <3> QED BY <1>0, <2>1, <2>2, <3>1, <3>2 DEF IntentOK, Accounted, Snapshot, Parses, Missing
  <2>5. CASE Commit(p)
    <3>1. UNCHANGED pending
      BY <1>0, <2>1, <2>5, CommitRefused DEF db
    <3> QED BY <2>2, <3>1
  <2> QED BY <2>2, <2>3, <2>4, <2>5, QuietSteps DEF ReplaceFile, WriteHistory, RecordBaseline, db
<1> QED BY <1>1, <1>2

\* An import uses up the edit it answers.
LEMMA ImportStep ==
    ASSUME SInv, NEW p \in Procs, Steps(p), Keeps(p), Alone
    PROVE  ImportsOK'
<1>0. /\ IInv /\ Solo(svc[p]) /\ LocalOK(svc[p]) /\ ImportsOK /\ revision \in Nat /\ NoRev = -1
      /\ svc[p] \in Local /\ used'.edits = used.edits /\ used.edits \in Nat
      /\ events \in Seq([mem : Contents, by : {"sync", "extract", "commit"}])
      /\ \A q \in Procs : q = p
  BY StepsUsed DEF SInv, HInv, IInv, TypeOK, NoRev, Alone
<1>1. IsFiniteSet(Imports) /\ Cardinality(Imports) \in Nat
  <2>1. IsFiniteSet(1 .. Len(events)) /\ Imports \subseteq 1 .. Len(events)
    BY <1>0, FS_Interval DEF Imports
  <2> QED BY <2>1, FS_Subset, FS_CardinalityType
<1>2. CASE Commit(p) /\ revision' # revision
  <2> DEFINE n == Len(events) + 1
  <2>1. /\ events' = Append(events, [mem |-> svc[p].draft, by |-> svc[p].stage])
        /\ svc'[p].pc = "recover" /\ pending'.rev # NoRev
        /\ svc[p].pc = "commit"
    <3>1. revision' = revision + 1 /\ pending'.rev = revision'
      BY <1>0, <1>2, Commits
    <3>2. svc[p].pc = "commit"
      BY <1>2 DEF Commit
    <3> QED BY <1>0, <1>2, <3>1, <3>2, Commits
  <2>2. ~ ImportDue'
    BY <1>0, <2>1 DEF ImportDue, Importing, Shown
  <2>3. svc[p].draft \in Contents /\ svc[p].stage \in {"sync", "extract", "commit"}
    BY <1>0 DEF Local
  <2>4. /\ Len(events') = n /\ events'[n].by = svc[p].stage /\ n \in Nat
        /\ \A i \in 1 .. Len(events) : events'[i] = events[i]
    BY <1>0, <2>1, <2>3
  <2>5. CASE svc[p].stage = "sync"
    <3>1. ImportDue
      BY <1>0, <2>1, <2>5 DEF ImportDue, Importing
    <3>2. Imports' = Imports \cup {n} /\ n \notin Imports
      BY <1>0, <2>4, <2>5 DEF Imports
    <3>3. Cardinality(Imports') = Cardinality(Imports) + 1
      BY <1>1, <3>2, FS_AddElement
    <3> QED BY <1>0, <1>1, <2>2, <3>1, <3>3 DEF ImportsOK
  <2>6. CASE svc[p].stage # "sync"
    <3>1. Imports' = Imports
      BY <1>0, <2>4, <2>6 DEF Imports
    <3> QED BY <1>0, <1>1, <2>2, <3>1 DEF ImportsOK
  <2> QED BY <2>5, <2>6
<1>3. CASE ~ (Commit(p) /\ revision' # revision)
  <2>1. UNCHANGED <<revision, events>>
    BY <1>0, <1>3, EventsStay
  <2>2. Imports' = Imports
    BY <2>1 DEF Imports
  <2>3. ImportDue' => ImportDue
    <3> SUFFICES ASSUME ImportDue' PROVE ImportDue
      OBVIOUS
    <3>1. CASE \E q \in Procs : Importing(svc[q])'
      BY <1>0, <3>1 DEF Keeps, ImportDue
    <3>2. CASE /\ pending'.rev # NoRev
               /\ \E q \in Procs : Shown(svc[q])' /\ memoryFile' # pending'.target
      BY <1>0, <3>2 DEF Keeps
    <3>3. CASE pending'.rev = NoRev /\ (published'.rev = NoRev \/ memoryFile' # published'.text)
      <4>1. CASE UNCHANGED <<pending, published, memoryFile>>
        BY <3>3, <4>1 DEF ImportDue
      <4>2. CASE ReplaceFile(p)
        BY <1>0, <3>3, <4>2 DEF ReplaceFile, Solo, Confirming, db, LocalOK
      <4>3. CASE Confirm(p)
        <5>1. /\ svc[p].pc = "confirm" /\ svc[p].intent = pending /\ pending.rev # NoRev
              /\ memoryFile' = memoryFile
          BY <1>0, <4>3 DEF Confirm, Solo, Confirming, files, LocalOK
        <5>2. published' = [rev |-> pending.rev, text |-> pending.target]
          BY <4>3, <5>1 DEF Confirm, IntentIsOurs
        <5> QED BY <3>3, <5>1, <5>2 DEF ImportDue, Shown
      <4>4. CASE Stage(p)
        <5>1. CASE AtHead(p) /\ pending.rev = NoRev
          BY <1>0, <3>3, <4>4, <5>1 DEF Stage, AtHead, LocalOK
        <5>2. CASE ~ (AtHead(p) /\ pending.rev = NoRev)
          BY <4>1, <4>4, <5>2 DEF Stage, files
        <5> QED BY <5>1, <5>2
      <4>5. CASE RecordBaseline(p)
        <5>1. UNCHANGED <<pending, memoryFile>> /\ (published' = published \/ published.rev = NoRev)
          BY <4>5 DEF RecordBaseline, files
        <5> QED BY <3>3, <4>1, <5>1 DEF ImportDue
      <4>6. CASE Commit(p)
        <5>1. UNCHANGED <<pending, published, memoryFile>>
          BY <1>0, <2>1, <4>6, CommitRefused DEF db, files
        <5> QED BY <4>1, <5>1
      <4> QED BY <4>1, <4>2, <4>3, <4>4, <4>5, <4>6, QuietSteps DEF WriteHistory, db, files
    <3> QED BY <3>1, <3>2, <3>3 DEF ImportDue
  <2> QED BY <1>0, <1>1, <2>2, <2>3 DEF ImportsOK
<1> QED BY <1>2, <1>3

\* Starting, entering an operation, failing and dying keep what there is to keep.
LEMMA OwnKeeps ==
    ASSUME SInv, NEW p \in Procs, Steps(p), Alone
    PROVE  Keeps(p)
<1>0. IInv /\ Honest(svc[p]) /\ Solo(svc[p]) /\ (used.close = 0 => Calm(svc[p]))
  BY DEF SInv, HInv
<1>1. CASE Start(p)
  <2>1. CASE pending.rev = NoRev
    BY <1>0, <1>1, <2>1, FinishFields, RestKeeps DEF Start, Ended, NoResult
  <2>2. CASE pending.rev # NoRev
    <3>1. svc'[p] = [Down(NoResult) EXCEPT !.pc = "recover", !.caller = "boot"] /\ UNCHANGED db
      BY <1>0, <1>1, <2>2, SetField DEF Start
    <3>2. svc'[p].pc = "recover" /\ pending'.rev # NoRev
      BY <2>2, <3>1 DEF Down, db
    <3> QED BY <3>2 DEF Keeps, Solo, Calm, Reading, Adopting, Confirming, Returning, Shown, Importing
  <2> QED BY <2>1, <2>2
<1>2. CASE \E op \in {"sync", "consolidate", "archive"} : Invoke(p, op)
  <2>1. PICK op \in {"sync", "consolidate", "archive"} : Invoke(p, op)
    BY <1>2
  <2>2. svc'[p] = [Down(NoResult) EXCEPT !.pc = "recover", !.op = op]
    BY <1>0, <2>1, SetField DEF Invoke
  <2>3. svc'[p].pc = "recover" /\ svc'[p].caller = "sync"
    BY <2>2 DEF Down
  <2> QED BY <2>3 DEF Keeps, Solo, Calm, Reading, Adopting, Confirming, Returning, Shown, Importing
<1>3. CASE Run(p)
  BY <1>0, <1>3, RecoverKeeps, SyncKeeps, WriteKeeps DEF Run
<1>4. CASE WriteFails(p)
  BY <1>0, <1>4, RaiseRests, RestKeeps DEF WriteFails
<1>5. CASE Crash(p)
  <2>1. svc'[p] = Down(NoResult)
    BY <1>0, <1>5, SetField DEF Crash
  <2>2. svc'[p].pc = "down" /\ svc'[p].result.outcome = "none"
    BY <2>1 DEF Down, NoResult
  <2> QED BY <2>2, RestKeeps
<1> QED BY <1>1, <1>2, <1>3, <1>4, <1>5 DEF Steps

\* The person: an edit is counted, and while close is 0 it falls where no routine
\* has looked at the file and not yet acted.
LEMMA PersonKeeps ==
    ASSUME SInv, EditMemory \/ DeleteHistory, Alone
    PROVE  /\ \A p \in Procs : Solo(svc[p])'
           /\ used'.close = 0 => \A p \in Procs : Calm(svc[p])'
           /\ HistoryOK' /\ IntentOK' /\ ImportsOK'
<1>0. /\ IInv /\ \A p \in Procs : Solo(svc[p])
      /\ used.close = 0 => \A p \in Procs : Calm(svc[p])
      /\ HistoryOK /\ IntentOK /\ ImportsOK
      /\ used \in [writes : Nat, edits : Nat, crashes : Nat, faults : Nat, close : Nat]
      /\ events \in Seq([mem : Contents, by : {"sync", "extract", "commit"}])
  BY DEF SInv, HInv, IInv, TypeOK
<1>1. /\ UNCHANGED <<db, svc>> /\ PersonWrites
      /\ historyFile' \in {historyFile, NoHistory}
  BY DEF EditMemory, DeleteHistory
<1>2. used'.edits = used.edits + 1
      /\ used'.close = IF Closeness > used.close THEN Closeness ELSE used.close
  <2> DEFINE k == used.edits + 1
             n == IF Closeness > used.close THEN Closeness ELSE used.close
  <2>1. used' = [used EXCEPT !.edits = k, !.close = n]
    BY <1>1 DEF PersonWrites
  <2> HIDE DEF k, n
  <2>2. used'.edits = k /\ used'.close = n
    BY <1>0, <2>1
  <2> QED BY <2>2 DEF k, n
<1>3. \A p \in Procs : Solo(svc[p])'
  BY <1>0, <1>1 DEF Solo, Reading, Adopting, Confirming, Returning, Importing, Parses, db
<1>4. Closeness \in {0, 1, 2}
  BY DEF Closeness
<1>5. used'.close = 0 => used.close = 0 /\ Closeness = 0
  BY <1>0, <1>2, <1>4
<1>6. used'.close = 0 => \A p \in Procs : Calm(svc[p])'
  <2> SUFFICES ASSUME used'.close = 0, NEW p \in Procs PROVE Calm(svc[p])'
    OBVIOUS
  <2>1. svc[p].pc \in Suspended /\ Calm(svc[p])
    BY <1>0, <1>5 DEF Closeness
  <2> QED BY <1>1, <2>1 DEF Calm, Suspended, Shown, Returning, Adopting, Rendered, db
<1>7. HistoryOK'
  BY <1>0, <1>1 DEF HistoryOK, db
<1>8. IntentOK'
  BY <1>0, <1>1, <1>5 DEF IntentOK, Accounted, Snapshot, Parses, Missing, db
<1>9. ImportsOK'
  <2>1. IsFiniteSet(Imports) /\ Cardinality(Imports) \in Nat
    <3>1. IsFiniteSet(1 .. Len(events)) /\ Imports \subseteq 1 .. Len(events)
      BY <1>0, FS_Interval DEF Imports
    <3> QED BY <3>1, FS_Subset, FS_CardinalityType
  <2>2. Imports' = Imports
    BY <1>1 DEF Imports, db
  <2>3. used.edits \in Nat
    BY <1>0
  <2> QED BY <1>0, <1>2, <2>1, <2>2, <2>3 DEF ImportsOK
<1> QED BY <1>3, <1>6, <1>7, <1>8, <1>9

\* With a single process, SInv is inductive.
THEOREM SingleProcess ==
    ASSUME Alone
    PROVE  Spec => []SInv
<1>1. Init => SInv
  <2> SUFFICES ASSUME Init PROVE SInv
    OBVIOUS
  <2>1. HInv
    BY HInvInit
  <2>2. ASSUME NEW p \in Procs PROVE Solo(svc[p]) /\ Calm(svc[p]) /\ ~ Importing(svc[p])
    <3>1. svc[p].pc = "down"
      BY DEF Init, Down
    <3> QED BY <3>1 DEF Solo, Calm, Reading, Adopting, Confirming, Returning, Shown, Importing
  <2>3. HistoryOK /\ IntentOK
    BY DEF Init, HistoryOK, IntentOK, NoIntent
  <2>4. ImportsOK
    <3>1. Imports = {} /\ used.edits = 0
      BY DEF Init, Imports
    <3> QED BY <3>1, FS_EmptySet DEF ImportsOK
  <2> QED BY <2>1, <2>2, <2>3, <2>4 DEF SInv
<1>2. SInv /\ [Next]_vars => SInv'
  <2> SUFFICES ASSUME SInv, [Next]_vars PROVE SInv'
    OBVIOUS
  <2>1. HInv'
    BY HInvStep DEF SInv
  <2>2. CASE \E p \in Procs : Steps(p)
    <3>1. PICK p \in Procs : Steps(p)
      BY <2>2
    <3>2. Keeps(p) /\ used'.close = used.close /\ \A q \in Procs : q = p
      BY <3>1, OwnKeeps, StepsUsed DEF SInv, HInv, Alone
    <3>3. /\ \A q \in Procs : Solo(svc[q])'
          /\ used'.close = 0 => \A q \in Procs : Calm(svc[q])'
      BY <3>2 DEF Keeps
    <3>4. HistoryOK' /\ IntentOK' /\ ImportsOK'
      BY <3>1, <3>2, HistoryStep, IntentStep, ImportStep
    <3> QED BY <2>1, <3>3, <3>4 DEF SInv
  <2>3. CASE EditMemory \/ DeleteHistory
    BY <2>1, <2>3, PersonKeeps DEF SInv
  <2>4. CASE UNCHANGED vars
    BY <2>1, <2>4 DEF SInv, Solo, Calm, Reading, Adopting, Confirming, Returning, Shown, Importing,
       HistoryOK, IntentOK, ImportsOK, Imports, ImportDue, Accounted, Snapshot, Rendered, Missing, Parses, vars
  <2> QED BY <2>2, <2>3, <2>4 DEF Next, Steps
<1> QED BY <1>1, <1>2, PTL DEF Spec

\* HISTORY.md shows every event whenever no publication is pending and nothing runs.
THEOREM HistoryCorrect ==
    ASSUME Alone
    PROVE  Spec => []HistoryIsComplete
<1>1. SInv => HistoryIsComplete
  BY DEF SInv, HistoryOK, HistoryIsComplete
<1> QED BY <1>1, SingleProcess, PTL

\* No edit is imported twice, whatever crashed in between.
THEOREM ImportsCorrect ==
    ASSUME Alone
    PROVE  Spec => []ImportsAreEdits
<1>1. SInv => ImportsAreEdits
  <2> SUFFICES ASSUME SInv PROVE Cardinality(Imports) <= used.edits + 1
    BY DEF ImportsAreEdits, Imports
  <2>1. /\ ImportsOK /\ used.edits \in Nat
        /\ events \in Seq([mem : Contents, by : {"sync", "extract", "commit"}])
    BY DEF SInv, HInv, IInv, TypeOK
  <2>2. Cardinality(Imports) \in Nat
    <3>1. IsFiniteSet(1 .. Len(events)) /\ Imports \subseteq 1 .. Len(events)
      BY <2>1, FS_Interval DEF Imports
    <3> QED BY <3>1, FS_Subset, FS_CardinalityType
  <2> QED BY <2>1, <2>2 DEF ImportsOK
<1> QED BY <1>1, SingleProcess, PTL

\* What a person wrote while the program waited is imported before it is replaced.
THEOREM NothingOverwrittenUnread ==
    ASSUME Alone
    PROVE  Spec => NoSilentOverwrite
<1>1. SInv /\ [Next]_vars =>
        [\A p \in Procs : ReplaceFile(p) /\ used.close = 0 => Accounted(memoryFile)]_vars
  <2> SUFFICES ASSUME SInv, NEW p \in Procs, ReplaceFile(p), used.close = 0
               PROVE  Accounted(memoryFile)
    OBVIOUS
  <2>1. svc[p].pc = "replace" /\ Solo(svc[p]) /\ Calm(svc[p]) /\ IntentOK /\ LocalOK(svc[p])
    BY DEF ReplaceFile, SInv, HInv, IInv
  <2>2. memoryFile = svc[p].intent.expected /\ svc[p].intent = pending /\ pending.rev # NoRev
    BY <2>1 DEF Solo, Calm, Confirming, LocalOK
  <2> QED BY <2>1, <2>2 DEF IntentOK
<1> QED BY <1>1, SingleProcess, PTL DEF Spec, NoSilentOverwrite

\* When prepare_context or sync_markdown returns, MEMORY.md is the view of the snapshot.
THEOREM SyncLeavesView ==
    ASSUME Alone
    PROVE  Spec => SyncedFileIsView
<1> DEFINE Synced(p) ==
      /\ used.close = 0
      /\ svc[p].pc # "idle" /\ svc'[p].pc = "idle"
      /\ svc[p].op = "sync" /\ svc'[p].result.outcome = "returned"
      => memoryFile' = Rendered(memories')
<1>1. SInv /\ [Next]_vars => [\A p \in Procs : Synced(p)]_vars
  <2> SUFFICES ASSUME SInv, Next, NEW p \in Procs PROVE Synced(p)
    OBVIOUS
  <2>1. CASE \E q \in Procs : Steps(q)
    <3>1. Steps(p)
      BY <2>1 DEF Alone
    <3> QED BY <3>1, OwnKeeps DEF Keeps
  <2>2. CASE EditMemory \/ DeleteHistory
    BY <2>2 DEF EditMemory, DeleteHistory
  <2> QED BY <2>1, <2>2 DEF Next, Steps
<1> QED BY <1>1, SingleProcess, PTL DEF Spec, SyncedFileIsView

=============================================================================
