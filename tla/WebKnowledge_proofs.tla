------------------------ MODULE WebKnowledge_proofs ------------------------
(***************************************************************************)
(* The database of the knowledge base is sound and its evidence honest,    *)
(* for any processes, pages, versions and embedding models, and any number *)
(* of ingestions, retrievals and restarts.  What a section without an      *)
(* await relies on is what it read itself: no task of its own process runs *)
(* before the section ends, and a task of another is told (Told).          *)
(***************************************************************************)
EXTENDS WebKnowledge, FiniteSetTheorems, TLAPS

-----------------------------------------------------------------------------
(* The inductive invariant. *)

Page  == {NoPage} \cup [version : Versions, meta : Versions]
Hit   == [url : Urls, version : Versions]
PCs   == {"fetched", "mark", "embed", "upsert", "query", "vector", "rerank", "assess", "online",
          "hits", "fetch", "result", "done"}
ATask == [kind : {"ingest", "retrieve"}, proc : Procs, pc : PCs, url : Urls \cup {"none"},
          version : Versions \cup {0}, found : Page, meanwhile : {"no", "yes"}, round : {1, 2},
          seen : SUBSET Urls, fetched : 0..OnlineMaxUrls, ingested : SUBSET Urls,
          errors : {"no", "yes"}, hits : SUBSET Hit, first : SUBSET Hit, chosen : SUBSET Hit,
          status : {"none", "sufficient", "insufficient", "assessment_error", "retrieval_error", "online_error"}]

\* The rows of both tables are functions on their ids, which the counters bound.
RowTypes ==
    /\ nextId \in [parent : Nat, child : Nat]
    /\ parents \in [DOMAIN parents -> [url : Urls, block : Nat, version : Versions]]
    /\ DOMAIN parents \subseteq 1..nextId.parent
    /\ children \in [DOMAIN children -> [parent : Int, url : Urls, version : Versions]]
    /\ DOMAIN children \subseteq 1..nextId.child
    /\ \A id \in DOMAIN children : children[id].parent \in DOMAIN parents

Types ==
    /\ web \in [Urls -> Versions]
    /\ model \in Models \cup {"none"}
    /\ pages \in [Urls -> Page]
    /\ RowTypes
    /\ proc \in [Procs -> [pc : {"down", "check", "up"}, model : Models \cup {"none"}]]
    /\ task \in Seq(ATask)
    /\ used \in [updates : Nat, starts : Nat, raced : {"no", "yes"}]

\* The rows of one page, as SnapshotIsConsistent wants them.
RowsOK(u) ==
    IF pages[u] = NoPage THEN ParentsOf(u) = {} /\ ChildrenOf(u) = {}
    ELSE LET blocks == Blocks[pages[u].version]
         IN  /\ Cardinality(ChildrenOf(u)) = Len(blocks)
             /\ \A id \in ChildrenOf(u) : children[id].version = pages[u].version
             /\ {children[id].parent : id \in ChildrenOf(u)} = ParentsOf(u)
             /\ {parents[id].block : id \in ParentsOf(u)} = Range(blocks)

\* Unless two first starts met, the first process to start names the model alone, and
\* those that start later have compared theirs with it.
ModelOK ==
    used.raced = "no" =>
        /\ \A id \in DOMAIN index.vector : model # "none" /\ index.vector[id] = model
        /\ \A p \in Procs :
              /\ proc[p].pc = "up" => model # "none" /\ proc[p].model = model
              /\ proc[p].pc = "check" => proc[p].model \in Models /\ model \in {"none", proc[p].model}
        /\ model = "none" =>
              \A p, q \in Procs : proc[p].pc = "check" /\ proc[q].pc = "check" => p = q

\* A task knows the page it is about, and is about one version of it.
PlaceOK(t) ==
    /\ t.pc \in {"fetched", "mark", "embed", "upsert", "fetch"} => t.url \in Urls
    /\ t.pc \in {"fetched", "mark", "embed", "upsert"} => t.version \in Versions
    /\ t.pc = "mark" => t.found.version = t.version

\* What a section without an await read still holds, unless the task is told otherwise.
ReadOK(t) ==
    /\ t.pc \in {"mark", "upsert"} =>
          /\ t.found # NoPage => pages[t.url] # NoPage
          /\ t.meanwhile = "no" => t.found = pages[t.url]
    /\ t.pc = "vector" /\ t.meanwhile = "no" => \A r \in t.hits : pages[r.url].version = r.version

\* Evidence shows one version of a page.
OneVersion(t) ==
    t.pc \in {"rerank", "assess"} /\ t.meanwhile = "no" =>
        \A r, s \in t.hits : r.url = s.url => r.version = s.version

\* How far a retrieval is: before the web nothing is fetched, after it something is ingested,
\* and until its result it holds what its first search selected.
ProgressOK(t) ==
    /\ t.pc \in {"rerank", "assess"} => t.hits # {}
    /\ t.round = 2 => t.ingested # {}
    /\ t.pc = "online" => t.round = 1
    /\ t.round = 1 /\ t.pc \in {"query", "vector", "rerank", "assess", "online"} =>
          t.fetched = 0 /\ t.ingested = {}
    /\ t.round = 1 /\ t.pc \in {"query", "vector", "rerank"} => t.first = {}
    /\ t.round = 1 /\ t.pc = "assess" => t.chosen = t.hits
    /\ t.pc # "result" /\ ~ (t.round = 1 /\ t.pc = "assess") => t.first = t.chosen
    /\ t.pc = "result" =>
          /\ t.status \in {"sufficient", "assessment_error"} => t.first # {}
          /\ t.status = "online_error" => t.ingested = {}
          /\ t.status = "retrieval_error" /\ t.round = 1 => t.fetched = 0
          /\ t.round = 1 \/ t.status = "retrieval_error" => t.first = t.chosen

\* All of it, for one task.
TaskOK(t) == t \in ATask /\ PlaceOK(t) /\ ReadOK(t) /\ OneVersion(t) /\ ProgressOK(t)

IndexOK ==
    /\ index.parentFts = DOMAIN parents
    /\ index.childFts = DOMAIN children
    /\ DOMAIN index.vector = DOMAIN children

KInv ==
    /\ Types
    /\ IndexOK
    /\ \A u \in Urls : RowsOK(u)
    /\ ModelOK
    /\ \A i \in Tasks : TaskOK(task[i])
-----------------------------------------------------------------------------
(* Sequences, and the record of a task. *)

\* A function on 1..n is a sequence of length n.
LEMMA IsSequence ==
    ASSUME NEW S, NEW n \in Nat, NEW f \in [1..n -> S]
    PROVE  f \in Seq(S) /\ Len(f) = n /\ DOMAIN f = 1..n
  OBVIOUS

\* A sequence is a function on its positions.
LEMMA SequenceIs ==
    ASSUME NEW S, NEW s \in Seq(S)
    PROVE  s \in [1..Len(s) -> S]
  OBVIOUS

\* What is kept of the tasks: their number, and their types.
LEMMA TasksAre ==
    ASSUME Types
    PROVE  /\ task \in [Tasks -> ATask]
           /\ Len(task) \in Nat
           /\ DOMAIN task = Tasks
  BY DEF Types, Tasks

\* A new task, and one that is over, is well formed and needs nothing.
LEMMA NewTaskOK ==
    ASSUME NEW kind \in {"ingest", "retrieve"}, NEW p \in Procs,
           NEW pc \in {"query", "online", "done"}
    PROVE  TaskOK(NewTask(kind, p, pc))
  BY KnowledgeAssumption DEF NewTask, TaskOK, ATask, PCs, Page, NoPage, Hit, PlaceOK, ReadOK, OneVersion, ProgressOK

\* The store, the web and the processes as they were.
LEMMA StoreStays ==
    ASSUME KInv, UNCHANGED <<web, store, proc, used>>
    PROVE  /\ task' \in Seq(ATask) => Types'
           /\ IndexOK' /\ ModelOK' /\ \A u \in Urls : RowsOK(u)'
<1>1. task' \in Seq(ATask) => Types'
  BY DEF KInv, Types, RowTypes, store
<1>2. IndexOK' /\ ModelOK'
  BY DEF KInv, IndexOK, ModelOK, store
<1>3. ASSUME NEW u \in Urls PROVE RowsOK(u)'
  <2>1. RowsOK(u) BY DEF KInv
  <2>2. ParentsOf(u)' = ParentsOf(u) /\ ChildrenOf(u)' = ChildrenOf(u)
    BY DEF ParentsOf, ChildrenOf, store
  <2>3. UNCHANGED <<pages, parents, children>> BY DEF store
  <2> QED BY <2>1, <2>2, <2>3 DEF RowsOK
<1> QED BY <1>1, <1>2, <1>3

\* The tasks, when every one of them is as it should be.
LEMMA TasksStep ==
    ASSUME KInv, UNCHANGED <<web, store, proc, used>>, NEW n \in Nat, task' \in [1..n -> ATask],
           \A k \in 1..n : TaskOK(task'[k])
    PROVE  KInv'
<1>1. task' \in Seq(ATask) /\ Tasks' = 1..n
  BY IsSequence DEF Tasks
<1>2. ASSUME NEW k \in 1..n PROVE TaskOK(task[k])'
  <2>1. TaskOK(task'[k]) OBVIOUS
  <2>2. pages' = pages BY DEF store
  <2> QED BY <2>1, <2>2 DEF TaskOK, ReadOK, PlaceOK, OneVersion, ProgressOK
<1> QED BY <1>1, <1>2, StoreStays DEF KInv

\* Changing one task keeps the others, which read what they read before.
LEMMA PutStep ==
    ASSUME KInv, NEW i \in Tasks, NEW t, Put(i, t), TaskOK(t), UNCHANGED <<web, store, proc, used>>
    PROVE  KInv'
<1>1. task \in [1..Len(task) -> ATask] /\ Len(task) \in Nat /\ Tasks = 1..Len(task)
  BY TasksAre DEF KInv, Tasks
<1>2. task' = [task EXCEPT ![i] = t] /\ t \in ATask
  BY DEF Put, TaskOK
<1>3. \A k \in 1..Len(task) : TaskOK(task'[k])
  BY <1>1, <1>2 DEF KInv
<1> QED BY <1>1, <1>2, <1>3, TasksStep
  
\* So does a new one.
LEMMA AppendStep ==
    ASSUME KInv, NEW t, task' = Append(task, t), TaskOK(t), UNCHANGED <<web, store, proc, used>>
    PROVE  KInv'
<1>1. task \in [1..Len(task) -> ATask] /\ Len(task) \in Nat /\ Tasks = 1..Len(task)
  BY TasksAre DEF KInv, Tasks
<1>2. t \in ATask /\ task \in Seq(ATask)
  BY DEF TaskOK, KInv, Types
<1>3. /\ Len(task') = Len(task) + 1 /\ task' \in Seq(ATask)
      /\ \A k \in 1..Len(task) : task'[k] = task[k]
      /\ task'[Len(task) + 1] = t
  BY <1>1, <1>2
<1>4. task' \in [1..Len(task) + 1 -> ATask]
  <2>1. task' \in [1..Len(task') -> ATask] BY <1>3, SequenceIs
  <2> QED BY <1>3, <2>1
<1>5. \A k \in 1..Len(task) + 1 : TaskOK(task'[k])
  BY <1>1, <1>3 DEF KInv
<1> QED BY <1>1, <1>4, <1>5, TasksStep

-----------------------------------------------------------------------------
(* The records that the steps of a task make of it. *)

Statuses == {"sufficient", "insufficient", "assessment_error", "retrieval_error"}

\* A task is well formed, and its process is one of the processes.
LEMMA TheTask ==
    ASSUME KInv, NEW i \in Tasks
    PROVE  TaskOK(task[i]) /\ task[i] \in ATask /\ task[i].proc \in Procs
  BY DEF KInv, TaskOK, ATask

\* The page found is the page there is, and no other process has come in between.
LEMMA LookUpOK ==
    ASSUME KInv, NEW i \in Tasks, NEW u \in Urls, NEW v \in Versions,
           task[i].pc \in {"fetched", "fetch"}
    PROVE  TaskOK(LookUp(i, u, v))
<1>1. task[i] \in ATask /\ ProgressOK(task[i])
  BY TheTask DEF TaskOK
<1>2. pages[u] \in Page /\ v # 0
  BY KnowledgeAssumption DEF KInv, Types
<1>3. NoPage.version = 0
  BY DEF NoPage
<1>4. LookUp(i, u, v) \in ATask
  BY <1>1, <1>2 DEF LookUp, ATask, PCs
<1>5. PlaceOK(LookUp(i, u, v)) /\ ReadOK(LookUp(i, u, v))
  BY <1>1, <1>2, <1>3 DEF LookUp, ATask, PlaceOK, ReadOK
<1>6. OneVersion(LookUp(i, u, v)) /\ ProgressOK(LookUp(i, u, v))
  BY <1>1, <1>2, <1>3 DEF LookUp, ATask, OneVersion, ProgressOK
<1> QED BY <1>4, <1>5, <1>6 DEF TaskOK

\* After a page is ingested or not, nothing is held that was read.
LEMMA AfterOK ==
    ASSUME KInv, NEW i \in Tasks, NEW outcome \in {"saved", "failed"},
           task[i].pc \in {"mark", "embed", "upsert", "fetch"}
    PROVE  TaskOK(After(i, outcome)) /\ After(i, outcome).pc \in {"hits", "done"}
<1>1. task[i] \in ATask /\ ProgressOK(task[i]) /\ PlaceOK(task[i])
  BY TheTask DEF TaskOK
<1>2. CASE task[i].kind = "ingest"
  <2>1. TaskOK(NewTask(task[i].kind, task[i].proc, "done"))
    BY <1>1, NewTaskOK DEF ATask
  <2>2. NewTask(task[i].kind, task[i].proc, "done").pc = "done"
    BY DEF NewTask
  <2> QED BY <1>2, <2>1, <2>2 DEF After, Over
<1>3. CASE task[i].kind # "ingest"
  <2>0. NoPage \in Page
    BY DEF Page
  <2>1. After(i, outcome) \in ATask /\ After(i, outcome).pc = "hits"
    BY <1>1, <1>3, <2>0 DEF After, ATask, PCs, PlaceOK
  <2>2. ProgressOK(After(i, outcome))
    BY <1>1, <1>3 DEF After, ATask, ProgressOK
  <2> QED BY <2>1, <2>2 DEF TaskOK, PlaceOK, ReadOK, OneVersion
<1> QED BY <1>2, <1>3

\* What is returned says of the evidence what is so.
LEMMA ResultOK ==
    ASSUME KInv, NEW i \in Tasks, NEW evidence \in SUBSET Hit, NEW status \in Statuses \cup {"online_error"},
           status \in {"sufficient", "assessment_error"} => evidence # {},
           status = "online_error" => task[i].ingested = {},
           status = "retrieval_error" /\ task[i].round = 1 => task[i].fetched = 0,
           task[i].round = 1 \/ status = "retrieval_error" => evidence = task[i].chosen
    PROVE  TaskOK(Result(i, status, evidence))
<1>1. task[i] \in ATask /\ ProgressOK(task[i])
  BY TheTask DEF TaskOK
<1>2. Result(i, status, evidence) \in ATask /\ Result(i, status, evidence).pc = "result"
  BY <1>1 DEF Result, ATask, PCs, Statuses
<1>3. ProgressOK(Result(i, status, evidence))
  BY <1>1 DEF Result, ATask, ProgressOK
<1> QED BY <1>2, <1>3 DEF TaskOK, PlaceOK, ReadOK, OneVersion

\* A search that ends leads to the web or to a result.
LEMMA SearchEndsOK ==
    ASSUME KInv, NEW i \in Tasks, task[i].pc \in {"query", "vector", "rerank", "assess"},
           NEW evidence \in SUBSET Hit, NEW status \in Statuses,
           status \in {"sufficient", "assessment_error"} => evidence # {},
           evidence = (IF task[i].pc = "assess" THEN task[i].hits ELSE {}),
           status = "retrieval_error" => task[i].pc # "assess"
    PROVE  TaskOK(SearchEnds(i, status, evidence))
<1>1. task[i] \in ATask /\ ProgressOK(task[i])
  BY TheTask DEF TaskOK
<1>2. CASE task[i].round = 1 /\ status = "insufficient"
  <2>1. SearchEnds(i, status, evidence) = [task[i] EXCEPT !.pc = "online", !.hits = {}, !.first = evidence]
    BY <1>2 DEF SearchEnds
  <2>2. SearchEnds(i, status, evidence) \in ATask /\ SearchEnds(i, status, evidence).pc = "online"
    BY <1>1, <2>1 DEF ATask, PCs
  <2>3. evidence = task[i].chosen
    BY <1>1, <1>2 DEF ProgressOK
  <2>4. ProgressOK(SearchEnds(i, status, evidence))
    BY <1>1, <1>2, <2>1, <2>3 DEF ATask, ProgressOK
  <2> QED BY <2>2, <2>4 DEF TaskOK, PlaceOK, ReadOK, OneVersion
<1>3. CASE ~ (task[i].round = 1 /\ status = "insufficient")
  <2> DEFINE shown == IF status = "retrieval_error" THEN task[i].first ELSE evidence
  <2>1. SearchEnds(i, status, evidence) = Result(i, status, shown)
    BY <1>3 DEF SearchEnds
  <2>2. shown \in SUBSET Hit
    BY <1>1 DEF ATask
  <2>3. task[i].round = 1 => task[i].fetched = 0
    BY <1>1 DEF ProgressOK
  <2>4. status \in {"sufficient", "assessment_error"} => shown # {}
    BY DEF Statuses
  <2>5. status # "online_error"
    BY DEF Statuses
  <2>6. task[i].round = 1 \/ status = "retrieval_error" => shown = task[i].chosen
    BY <1>1 DEF ATask, ProgressOK
  <2> HIDE DEF shown
  <2> QED BY <2>1, <2>2, <2>3, <2>4, <2>5, <2>6, ResultOK
<1> QED BY <1>2, <1>3

-----------------------------------------------------------------------------
(* A page is written. *)

\* The tasks of the process that writes are not between a read and its use, and those of
\* others are told: what is not told still holds.
LEMMA ToldStep ==
    ASSUME KInv, NEW i \in Tasks, NEW pc \in {"mark", "upsert"}, Runs(i, pc),
           pages' \in [Urls -> Page], pages'[task[i].url] # NoPage,
           \A w \in Urls \ {task[i].url} : pages'[w] = pages[w],
           task' = Told(task[i].proc, task[i].url, [task EXCEPT ![i] = After(i, "saved")])
    PROVE  task' \in Seq(ATask) /\ \A k \in Tasks' : TaskOK(task[k])'
<1> DEFINE n == Len(task)
           p == task[i].proc
           u == task[i].url
           tasks == [task EXCEPT ![i] = After(i, "saved")]
<1>0. task[i].pc = pc /\ pc \in {"mark", "embed", "upsert", "fetch"}
  BY DEF Runs
<1>1. task \in [1..n -> ATask] /\ n \in Nat /\ Tasks = 1..n
  BY TasksAre DEF KInv, Tasks
<1>2. TaskOK(After(i, "saved")) /\ After(i, "saved").pc \in {"hits", "done"} /\ After(i, "saved") \in ATask
  BY <1>0, AfterOK DEF TaskOK
<1>3. ASSUME NEW k \in 1..n
      PROVE  /\ task'[k] \in ATask
             /\ PlaceOK(task'[k]) /\ OneVersion(task'[k]) /\ ProgressOK(task'[k])
             /\ ReadOK(task[k])'
  <2>1. k \in DOMAIN task /\ k \in DOMAIN tasks /\ task' = Told(p, u, tasks)
    BY <1>1
  <2>2. CASE k = i
    <3>1. tasks[k] = After(i, "saved")
      BY <1>1, <2>2
    <3>2. task'[k] = tasks[k]
      BY <1>2, <2>1, <3>1 DEF Told
    <3> QED BY <1>2, <3>1, <3>2 DEF TaskOK, ReadOK
  <2>3. CASE k # i
    <3>1. tasks[k] = task[k]
      BY <1>1, <2>3
    <3>2. TaskOK(task[k]) /\ task[k] \in ATask
      BY <1>1, TheTask
    <3>3. CASE /\ task[k].proc # p
               /\ \/ task[k].pc \in {"mark", "upsert"} /\ task[k].url = u
                  \/ task[k].pc = "vector"
      <4>1. task'[k] = [task[k] EXCEPT !.meanwhile = "yes"]
        BY <2>1, <3>1, <3>3 DEF Told
      <4>2. task'[k] \in ATask /\ task'[k].meanwhile = "yes" /\ task'[k].pc = task[k].pc /\ task'[k].url = task[k].url
        BY <3>2, <4>1 DEF ATask
      <4>3. task'[k].pc \in {"mark", "upsert", "vector"}
        BY <3>3, <4>2
      <4>4. PlaceOK(task'[k]) /\ OneVersion(task'[k])
        BY <3>2, <4>1 DEF ATask, TaskOK, PlaceOK, OneVersion
      <4>5. ProgressOK(task'[k])
        BY <3>2, <4>1 DEF ATask, TaskOK, ProgressOK
      <4>6. ReadOK(task[k])'
        BY <3>3, <4>2 DEF ReadOK
      <4> QED BY <4>2, <4>4, <4>5, <4>6
    <3>4. CASE ~ (/\ task[k].proc # p
                  /\ \/ task[k].pc \in {"mark", "upsert"} /\ task[k].url = u
                     \/ task[k].pc = "vector")
      <4>1. task'[k] = task[k]
        BY <2>1, <3>1, <3>4 DEF Told
      <4>2. task[k].proc = p => task[k].pc \notin {"mark", "upsert", "vector"}
        BY <1>1, <2>3 DEF Runs, InSync
      <4>3. task[k].pc \in {"mark", "upsert"} => task[k].url \in Urls \ {u}
        BY <3>2, <3>4, <4>2 DEF TaskOK, PlaceOK
      <4>4. task[k].pc # "vector"
        BY <3>4, <4>2
      <4> QED BY <3>2, <4>1, <4>3, <4>4 DEF TaskOK, ReadOK
    <3> QED BY <3>3, <3>4
  <2> QED BY <2>2, <2>3
<1>4. task' = [k \in 1..n |-> task'[k]]
  BY <1>1 DEF Told
<1>5. task' \in [1..n -> ATask]
  BY <1>3, <1>4
<1>6. task' \in Seq(ATask) /\ Tasks' = 1..n
  <2> HIDE DEF n
  <2>1. task' \in Seq(ATask) /\ Len(task') = n
    BY <1>1, <1>5, IsSequence
  <2> QED BY <2>1 DEF Tasks
<1> QED BY <1>3, <1>6 DEF TaskOK, PlaceOK, OneVersion, ProgressOK

\* The metadata of a page that is stored changes.
LEMMA SeenStep ==
    ASSUME KInv, NEW i \in Tasks, NEW pc \in {"mark", "upsert"}, Runs(i, pc),
           pages[task[i].url] # NoPage,
           pages' = [pages EXCEPT ![task[i].url].meta = task[i].version],
           task' = Told(task[i].proc, task[i].url, [task EXCEPT ![i] = After(i, "saved")]),
           UNCHANGED <<web, model, parents, children, index, nextId, proc, used>>
    PROVE  KInv'
<1>1. task[i].url \in Urls /\ task[i].version \in Versions
  BY TheTask DEF TaskOK, PlaceOK, Runs
<1>2. pages \in [Urls -> Page] /\ pages[task[i].url] \in [version : Versions, meta : Versions]
  BY <1>1 DEF KInv, Types, Page
<1>3. /\ pages' \in [Urls -> Page]
      /\ pages'[task[i].url].version = pages[task[i].url].version
      /\ pages'[task[i].url] \in [version : Versions, meta : Versions]
      /\ \A w \in Urls \ {task[i].url} : pages'[w] = pages[w]
  BY <1>1, <1>2 DEF Page
<1>4. NoPage \notin [version : Versions, meta : Versions]
  BY KnowledgeAssumption DEF NoPage
<1>5. task' \in Seq(ATask) /\ \A k \in Tasks' : TaskOK(task[k])'
  BY <1>3, <1>4, ToldStep
<1>6. Types' /\ IndexOK' /\ ModelOK'
  BY <1>3, <1>5 DEF KInv, Types, RowTypes, IndexOK, ModelOK
<1>7. ASSUME NEW w \in Urls PROVE RowsOK(w)'
  <2>1. RowsOK(w) BY DEF KInv
  <2>2. ParentsOf(w)' = ParentsOf(w) /\ ChildrenOf(w)' = ChildrenOf(w)
    BY DEF ParentsOf, ChildrenOf
  <2>3. pages'[w].version = pages[w].version /\ (pages'[w] = NoPage <=> pages[w] = NoPage)
    BY <1>3, <1>4
  <2>4. CASE pages[w] = NoPage
    BY <2>1, <2>2, <2>3, <2>4 DEF RowsOK
  <2>5. CASE pages[w] # NoPage
    <3>1. {children[id].parent : id \in ChildrenOf(w)}' = {children[id].parent : id \in ChildrenOf(w)}
      BY <2>2
    <3>2. {parents[id].block : id \in ParentsOf(w)}' = {parents[id].block : id \in ParentsOf(w)}
      BY <2>2
    <3> QED BY <2>1, <2>2, <2>3, <2>5, <3>1, <3>2 DEF RowsOK
  <2> QED BY <2>4, <2>5
<1> QED BY <1>5, <1>6, <1>7 DEF KInv

-----------------------------------------------------------------------------
(* The rows of a page are replaced. *)

\* The new rows of a page: consecutive ids that were not used, every block, and every chunk with its block.
LEMMA NewRows ==
    ASSUME KInv, NEW u \in Urls, NEW v \in Versions
    PROVE  LET ps == NewParents(u, v)
               cs == NewChildren(u, v)
           IN  /\ DOMAIN ps = (nextId.parent + 1)..(nextId.parent + Cardinality(DOMAIN ps))
               /\ DOMAIN cs = (nextId.child + 1)..(nextId.child + Cardinality(DOMAIN cs))
               /\ Cardinality(DOMAIN ps) \in Nat /\ Cardinality(DOMAIN cs) = Len(Blocks[v])
               /\ \A id \in DOMAIN ps : ps[id] \in [url : {u}, block : Nat, version : {v}]
               /\ \A id \in DOMAIN cs : cs[id] \in [parent : Int, url : {u}, version : {v}]
               /\ {ps[id].block : id \in DOMAIN ps} = Range(Blocks[v])
               /\ {cs[id].parent : id \in DOMAIN cs} = DOMAIN ps
<1> DEFINE np == nextId.parent
           nc == nextId.child
           b  == Blocks[v]
           ps == NewParents(u, v)
           cs == NewChildren(u, v)
<1>1. np \in Nat /\ nc \in Nat
  BY DEF KInv, Types, RowTypes
<1>2. b \in Seq(Nat) /\ Len(b) \in Nat /\ DOMAIN b = 1..Len(b) /\ \A k \in 1..Len(b) : b[k] \in Nat
  BY KnowledgeAssumption
<1>3. PICK n \in 1..Len(b) : Range(b) = 1..n
  BY KnowledgeAssumption
<1>4. n \in Nat
  BY <1>2, <1>3
<1>5. Range(b) = {b[k] : k \in 1..Len(b)}
  BY <1>2 DEF Range
<1> HIDE DEF np, nc, b
<1>6. ps = [id \in {np + k : k \in 1..n} |-> [url |-> u, block |-> id - np, version |-> v]]
  BY <1>3 DEF NewParents, np, b
<1>7. cs = [id \in {nc + k : k \in 1..Len(b)} |-> [parent |-> np + b[id - nc], url |-> u, version |-> v]]
  BY <1>2 DEF NewChildren, np, nc, b
<1> HIDE DEF ps, cs
<1>8. DOMAIN ps = (np + 1)..(np + n)
  <2>1. {np + k : k \in 1..n} = (np + 1)..(np + n)
    <3>1. ASSUME NEW x \in (np + 1)..(np + n) PROVE \E k \in 1..n : x = np + k
      <4>1. x - np \in 1..n /\ x = np + (x - np) BY <1>1, <1>4
      <4> QED BY <4>1
    <3> QED BY <1>1, <1>4, <3>1
  <2> QED BY <1>6, <2>1
<1>9. DOMAIN cs = (nc + 1)..(nc + Len(b))
  <2>1. {nc + k : k \in 1..Len(b)} = (nc + 1)..(nc + Len(b))
    <3>1. ASSUME NEW x \in (nc + 1)..(nc + Len(b)) PROVE \E k \in 1..Len(b) : x = nc + k
      <4>1. x - nc \in 1..Len(b) /\ x = nc + (x - nc) BY <1>1, <1>2
      <4> QED BY <4>1
    <3> QED BY <1>1, <1>2, <3>1
  <2> QED BY <1>7, <2>1
<1>10. Cardinality(DOMAIN ps) = n
  <2>1. Cardinality((np + 1)..(np + n)) = IF np + 1 > np + n THEN 0 ELSE np + n - (np + 1) + 1
    BY <1>1, <1>4, FS_Interval
  <2> QED BY <1>1, <1>3, <1>4, <1>8, <2>1
<1>11. Cardinality(DOMAIN cs) = Len(b)
  <2>1. Cardinality((nc + 1)..(nc + Len(b))) = IF nc + 1 > nc + Len(b) THEN 0 ELSE nc + Len(b) - (nc + 1) + 1
    BY <1>1, <1>2, FS_Interval
  <2> QED BY <1>1, <1>2, <1>9, <2>1
<1>12. \A id \in DOMAIN ps : id - np \in 1..n /\ ps[id] = [url |-> u, block |-> id - np, version |-> v]
  BY <1>1, <1>4, <1>6, <1>8
<1>13. \A id \in DOMAIN cs : /\ id - nc \in 1..Len(b)
                             /\ cs[id] = [parent |-> np + b[id - nc], url |-> u, version |-> v]
  BY <1>1, <1>2, <1>7, <1>9
<1>14. {ps[id].block : id \in DOMAIN ps} = Range(b)
  <2>1. ASSUME NEW k \in 1..n PROVE \E id \in DOMAIN ps : ps[id].block = k
    <3>1. np + k \in DOMAIN ps /\ (np + k) - np = k BY <1>1, <1>4, <1>8
    <3> QED BY <1>12, <3>1
  <2> QED BY <1>3, <1>12, <2>1
<1>15. {cs[id].parent : id \in DOMAIN cs} = DOMAIN ps
  <2>1. ASSUME NEW x \in DOMAIN ps PROVE \E id \in DOMAIN cs : cs[id].parent = x
    <3>1. x - np \in Range(b) BY <1>3, <1>12
    <3>2. PICK k \in 1..Len(b) : b[k] = x - np BY <1>5, <3>1
    <3>3. nc + k \in DOMAIN cs /\ (nc + k) - nc = k BY <1>1, <1>2, <1>9
    <3>4. np + b[k] = x BY <1>1, <1>8, <3>2
    <3> QED BY <1>13, <3>3, <3>4
  <2>2. ASSUME NEW id \in DOMAIN cs PROVE cs[id].parent \in DOMAIN ps
    <3>1. b[id - nc] \in 1..n BY <1>3, <1>5, <1>13
    <3>2. np + b[id - nc] \in (np + 1)..(np + n) BY <1>1, <1>4, <3>1
    <3> QED BY <1>8, <1>13, <3>2
  <2> QED BY <2>1, <2>2
<1>16. \A id \in DOMAIN ps : ps[id] \in [url : {u}, block : Nat, version : {v}]
  BY <1>4, <1>12
<1>17. \A id \in DOMAIN cs : cs[id] \in [parent : Int, url : {u}, version : {v}]
  BY <1>1, <1>2, <1>13
<1> QED BY <1>4, <1>8, <1>9, <1>10, <1>11, <1>14, <1>15, <1>16, <1>17 DEF ps, cs, np, nc, b

\* The rows and the indexes after a page is replaced: those of the others as they were.
LEMMA ReplacedRows ==
    ASSUME KInv, NEW u \in Urls, NEW v \in Versions, NEW m, ReplaceBlocks(u, v, m),
           pages' = [pages EXCEPT ![u] = [version |-> v, meta |-> v]]
    PROVE  /\ RowTypes' /\ IndexOK' /\ \A w \in Urls : RowsOK(w)'
           /\ \A id \in DOMAIN index'.vector :
                 index'.vector[id] = m \/ (id \in DOMAIN index.vector /\ index'.vector[id] = index.vector[id])
<1> DEFINE ps == NewParents(u, v)
           cs == NewChildren(u, v)
<1>1. /\ parents'  = Merged(parents, ParentsOf(u), ps)
      /\ children' = Merged(children, ChildrenOf(u), cs)
      /\ index' = [parentFts |-> (index.parentFts \ ParentsOf(u)) \cup DOMAIN ps,
                   childFts  |-> (index.childFts \ ChildrenOf(u)) \cup DOMAIN cs,
                   vector    |-> Merged(index.vector, ChildrenOf(u), [id \in DOMAIN cs |-> m])]
      /\ nextId' = [parent |-> nextId.parent + Cardinality(DOMAIN ps),
                    child  |-> nextId.child + Cardinality(DOMAIN cs)]
  BY DEF ReplaceBlocks
<1>2. /\ DOMAIN ps = (nextId.parent + 1)..(nextId.parent + Cardinality(DOMAIN ps))
      /\ DOMAIN cs = (nextId.child + 1)..(nextId.child + Cardinality(DOMAIN cs))
      /\ Cardinality(DOMAIN ps) \in Nat /\ Cardinality(DOMAIN cs) = Len(Blocks[v])
      /\ \A id \in DOMAIN ps : ps[id] \in [url : {u}, block : Nat, version : {v}]
      /\ \A id \in DOMAIN cs : cs[id] \in [parent : Int, url : {u}, version : {v}]
      /\ {ps[id].block : id \in DOMAIN ps} = Range(Blocks[v])
      /\ {cs[id].parent : id \in DOMAIN cs} = DOMAIN ps
  BY NewRows
<1>3. Len(Blocks[v]) \in Nat
  BY KnowledgeAssumption
<1> HIDE DEF ps, cs
<1>4. RowTypes /\ IndexOK /\ \A w \in Urls : RowsOK(w)
  BY DEF KInv, Types
<1>5. /\ DOMAIN parents' = (DOMAIN parents \ ParentsOf(u)) \cup DOMAIN ps
      /\ \A id \in DOMAIN ps : parents'[id] = ps[id]
      /\ \A id \in (DOMAIN parents \ ParentsOf(u)) \ DOMAIN ps : parents'[id] = parents[id]
  BY <1>1 DEF Merged
<1>6. /\ DOMAIN children' = (DOMAIN children \ ChildrenOf(u)) \cup DOMAIN cs
      /\ \A id \in DOMAIN cs : children'[id] = cs[id]
      /\ \A id \in (DOMAIN children \ ChildrenOf(u)) \ DOMAIN cs : children'[id] = children[id]
  BY <1>1 DEF Merged
<1>7. DOMAIN parents \cap DOMAIN ps = {} /\ DOMAIN children \cap DOMAIN cs = {}
  BY <1>2, <1>3, <1>4 DEF RowTypes
<1>8. /\ ParentsOf(u)' = DOMAIN ps
      /\ ChildrenOf(u)' = DOMAIN cs
  <2>1. \A id \in DOMAIN ps : ps[id].url = u
    BY <1>2
  <2>2. \A id \in DOMAIN cs : cs[id].url = u
    BY <1>2
  <2>3. \A id \in DOMAIN parents' : parents'[id].url = u <=> id \in DOMAIN ps
    BY <1>5, <2>1 DEF ParentsOf
  <2>4. \A id \in DOMAIN children' : children'[id].url = u <=> id \in DOMAIN cs
    BY <1>6, <2>2 DEF ChildrenOf
  <2>5. ParentsOf(u)' = DOMAIN ps
    BY <1>5, <2>3 DEF ParentsOf
  <2>6. ChildrenOf(u)' = DOMAIN cs
    BY <1>6, <2>4 DEF ChildrenOf
  <2> QED BY <2>5, <2>6
<1>9. ASSUME NEW w \in Urls, w # u
      PROVE  /\ ParentsOf(w)' = ParentsOf(w) /\ ChildrenOf(w)' = ChildrenOf(w)
             /\ \A id \in ParentsOf(w) : parents'[id] = parents[id]
             /\ \A id \in ChildrenOf(w) : children'[id] = children[id]
  <2>1. \A id \in DOMAIN ps : ps[id].url # w
    BY <1>2, <1>9
  <2>2. \A id \in DOMAIN cs : cs[id].url # w
    BY <1>2, <1>9
  <2>3. ParentsOf(w) \cap ParentsOf(u) = {} /\ ChildrenOf(w) \cap ChildrenOf(u) = {}
    BY <1>9 DEF ParentsOf, ChildrenOf
  <2>4. ParentsOf(w) \subseteq (DOMAIN parents \ ParentsOf(u)) \ DOMAIN ps
    BY <1>7, <2>3 DEF ParentsOf
  <2>5. ChildrenOf(w) \subseteq (DOMAIN children \ ChildrenOf(u)) \ DOMAIN cs
    BY <1>7, <2>3 DEF ChildrenOf
  <2>6. ParentsOf(w)' = ParentsOf(w)
    BY <1>5, <2>1, <2>4 DEF ParentsOf
  <2>7. ChildrenOf(w)' = ChildrenOf(w)
    BY <1>6, <2>2, <2>5 DEF ChildrenOf
  <2> QED BY <1>5, <1>6, <2>4, <2>5, <2>6, <2>7
<1>10. IndexOK'
  <2>1. DOMAIN index'.vector = (DOMAIN index.vector \ ChildrenOf(u)) \cup DOMAIN cs
    BY <1>1 DEF Merged
  <2> QED BY <1>1, <1>4, <1>5, <1>6, <2>1 DEF IndexOK
<1>11. RowTypes'
  <2>1. nextId' \in [parent : Nat, child : Nat]
    BY <1>1, <1>2, <1>3, <1>4 DEF RowTypes
  <2>2. DOMAIN parents' \subseteq 1..nextId'.parent /\ DOMAIN children' \subseteq 1..nextId'.child
    BY <1>1, <1>2, <1>3, <1>4, <1>5, <1>6 DEF RowTypes
  <2>3. \A id \in DOMAIN parents' : parents'[id] \in [url : Urls, block : Nat, version : Versions]
    BY <1>2, <1>4, <1>5, <1>7 DEF RowTypes
  <2>4. \A id \in DOMAIN children' : children'[id] \in [parent : Int, url : Urls, version : Versions]
    BY <1>2, <1>4, <1>6, <1>7 DEF RowTypes
  <2>5. parents' = [id \in DOMAIN parents' |-> parents'[id]] /\ children' = [id \in DOMAIN children' |-> children'[id]]
    BY <1>1 DEF Merged
  <2>6. ASSUME NEW id \in DOMAIN children' PROVE children'[id].parent \in DOMAIN parents'
    <3>1. CASE id \in DOMAIN cs
      BY <1>2, <1>5, <1>6, <3>1
    <3>2. CASE id \notin DOMAIN cs
      <4>1. id \in DOMAIN children /\ id \notin ChildrenOf(u) /\ children'[id] = children[id]
        BY <1>6, <3>2
      <4>2. children[id].url \in Urls /\ children[id].url # u /\ children[id].parent \in DOMAIN parents
        BY <1>4, <4>1 DEF RowTypes, ChildrenOf
      <4>3. id \in ChildrenOf(children[id].url)
        BY <4>1 DEF ChildrenOf
      <4>4. children[id].parent \in ParentsOf(children[id].url)
        BY <1>4, <4>2, <4>3 DEF RowsOK
      <4>5. children[id].parent \notin ParentsOf(u)
        BY <4>2, <4>4 DEF ParentsOf
      <4> QED BY <1>5, <4>1, <4>2, <4>5
    <3> QED BY <3>1, <3>2
  <2> QED BY <2>1, <2>2, <2>3, <2>4, <2>5, <2>6 DEF RowTypes
<1>12. pages \in [Urls -> Page]
  BY DEF KInv, Types
<1>13. RowsOK(u)'
  <2>1. pages'[u] = [version |-> v, meta |-> v]
    BY <1>12
  <2>2. pages'[u] # NoPage /\ pages'[u].version = v
    BY <2>1, KnowledgeAssumption DEF NoPage
  <2>3. Cardinality(ChildrenOf(u)') = Len(Blocks[v])
    BY <1>2, <1>8
  <2>4. \A id \in ChildrenOf(u)' : children'[id].version = v
    BY <1>2, <1>6, <1>8
  <2>5. {children[id].parent : id \in ChildrenOf(u)}' = ParentsOf(u)'
    <3>1. {children[id].parent : id \in ChildrenOf(u)}' = {cs[id].parent : id \in DOMAIN cs}
      BY <1>6, <1>8
    <3> QED BY <1>2, <1>8, <3>1
  <2>6. {parents[id].block : id \in ParentsOf(u)}' = Range(Blocks[v])
    BY <1>2, <1>5, <1>8
  <2> QED BY <2>2, <2>3, <2>4, <2>5, <2>6 DEF RowsOK
<1>14. ASSUME NEW w \in Urls, w # u PROVE RowsOK(w)'
  <2>1. pages'[w] = pages[w]
    BY <1>12, <1>14
  <2>2. {children[id].parent : id \in ChildrenOf(w)}' = {children[id].parent : id \in ChildrenOf(w)}
    BY <1>9, <1>14
  <2>3. {parents[id].block : id \in ParentsOf(w)}' = {parents[id].block : id \in ParentsOf(w)}
    BY <1>9, <1>14
  <2>4. ParentsOf(w)' = ParentsOf(w) /\ ChildrenOf(w)' = ChildrenOf(w) /\ RowsOK(w)
    BY <1>4, <1>9, <1>14
  <2>5. \A id \in ChildrenOf(w) : children'[id] = children[id]
    BY <1>9, <1>14
  <2> QED BY <2>1, <2>2, <2>3, <2>4, <2>5 DEF RowsOK
<1>15. \A id \in DOMAIN index'.vector :
          index'.vector[id] = m \/ (id \in DOMAIN index.vector /\ index'.vector[id] = index.vector[id])
  <2> DEFINE new == [id \in DOMAIN cs |-> m]
  <2>1. index'.vector = Merged(index.vector, ChildrenOf(u), new)
    BY <1>1
  <2> HIDE DEF new
  <2>2. \A id \in DOMAIN new : new[id] = m
    BY DEF new
  <2> QED BY <2>1, <2>2 DEF Merged
<1> QED BY <1>10, <1>11, <1>13, <1>14, <1>15

\* Upsert: the page, its rows and its vectors are written together.
LEMMA UpsertStep ==
    ASSUME KInv, NEW i \in Tasks, Upsert(i)
    PROVE  KInv'
<1> DEFINE u == task[i].url
           v == task[i].version
           m == proc[task[i].proc].model
<1>1. Runs(i, "upsert") /\ u \in Urls /\ v \in Versions /\ task[i].proc \in Procs
  BY TheTask DEF TaskOK, PlaceOK, Runs, Upsert
<1>2. /\ pages' = [pages EXCEPT ![u] = [version |-> v, meta |-> v]]
      /\ ReplaceBlocks(u, v, m)
      /\ task' = Told(task[i].proc, u, [task EXCEPT ![i] = After(i, "saved")])
      /\ UNCHANGED <<web, model, proc, used>>
  BY DEF Upsert
<1>3. pages \in [Urls -> Page]
  BY DEF KInv, Types
<1>4. /\ pages' \in [Urls -> Page] /\ pages'[u] # NoPage
      /\ \A w \in Urls \ {u} : pages'[w] = pages[w]
  BY <1>1, <1>2, <1>3, KnowledgeAssumption DEF Page, NoPage
<1>5. task' \in Seq(ATask) /\ \A k \in Tasks' : TaskOK(task[k])'
  BY <1>1, <1>2, <1>4, ToldStep
<1>6. /\ RowTypes' /\ IndexOK' /\ \A w \in Urls : RowsOK(w)'
      /\ \A id \in DOMAIN index'.vector :
            index'.vector[id] = m \/ (id \in DOMAIN index.vector /\ index'.vector[id] = index.vector[id])
  BY <1>1, <1>2, ReplacedRows
<1>7. used.raced = "no" => model # "none" /\ m = model
  BY <1>1 DEF KInv, ModelOK, Runs
<1>8. ModelOK'
  BY <1>2, <1>6, <1>7 DEF KInv, ModelOK
<1>9. Types'
  BY <1>2, <1>4, <1>5, <1>6 DEF KInv, Types
<1> QED BY <1>5, <1>6, <1>8, <1>9 DEF KInv

\* MarkSeen and UpsertUnchanged: the page is stored, whoever wrote it last.
LEMMA SeenSteps ==
    ASSUME KInv, NEW i \in Tasks, MarkSeen(i) \/ UpsertUnchanged(i)
    PROVE  KInv'
<1>1. TaskOK(task[i])
  BY TheTask
<1>2. PICK pc \in {"mark", "upsert"} : Runs(i, pc)
  BY DEF MarkSeen, UpsertUnchanged
<1>3. task[i].pc = pc
  BY <1>2 DEF Runs
<1>4. task[i].found.version = task[i].version /\ task[i].version \in Versions
  BY <1>1, <1>3 DEF UpsertUnchanged, IsUnchanged, MarkSeen, TaskOK, PlaceOK, Runs
<1>5. task[i].found # NoPage
  BY <1>4, KnowledgeAssumption DEF NoPage
<1>6. pages[task[i].url] # NoPage
  BY <1>1, <1>3, <1>5 DEF TaskOK, ReadOK
<1>7. /\ pages' = [pages EXCEPT ![task[i].url].meta = task[i].version]
      /\ task' = Told(task[i].proc, task[i].url, [task EXCEPT ![i] = After(i, "saved")])
      /\ UNCHANGED <<web, model, parents, children, index, nextId, proc, used>>
  BY DEF MarkSeen, UpsertUnchanged
<1> QED BY <1>2, <1>6, <1>7, SeenStep

-----------------------------------------------------------------------------
(* The other steps of an ingestion and of a retrieval. *)

\* The rest of an ingestion.
LEMMA IngestSteps ==
    ASSUME KInv, NEW i \in Tasks, Ingest(i)
    PROVE  KInv'
<1>0. TaskOK(task[i]) /\ task[i] \in ATask /\ PlaceOK(task[i]) /\ ProgressOK(task[i])
  BY TheTask DEF TaskOK
<1>1. CASE IngestBegins(i)
  <2>1. task[i].url \in Urls /\ task[i].version \in Versions
    BY <1>0, <1>1 DEF IngestBegins, Runs, PlaceOK
  <2>2. task[i].pc = "fetched"
    BY <1>1 DEF IngestBegins, Runs
  <2> QED BY <1>1, <2>1, <2>2, LookUpOK, PutStep DEF IngestBegins
<1>2. CASE Embedded(i)
  <2> DEFINE t == [task[i] EXCEPT !.pc = "upsert", !.found = pages[task[i].url]]
  <2>1. task[i].pc = "embed" /\ task[i].url \in Urls /\ task[i].version \in Versions
    BY <1>0, <1>2 DEF Embedded, Runs, PlaceOK
  <2>2. pages[task[i].url] \in Page
    BY <2>1 DEF KInv, Types
  <2>3. t \in ATask
    BY <1>0, <2>2 DEF ATask, PCs
  <2>4. PlaceOK(t) /\ ReadOK(t)
    BY <1>0, <2>1 DEF ATask, PlaceOK, ReadOK
  <2>5. OneVersion(t) /\ ProgressOK(t)
    BY <1>0, <2>1 DEF ATask, OneVersion, ProgressOK
  <2>6. TaskOK(t)
    BY <2>3, <2>4, <2>5 DEF TaskOK
  <2> HIDE DEF t
  <2>7. Put(i, t) /\ UNCHANGED <<web, store, proc, used>>
    BY <1>2 DEF Embedded, t
  <2> QED BY <2>6, <2>7, PutStep
<1>3. CASE EmbeddingFails(i) \/ UpsertFails(i)
  <2>1. task[i].pc \in {"embed", "upsert"}
    BY <1>3 DEF EmbeddingFails, UpsertFails, Runs
  <2>2. Put(i, After(i, "failed")) /\ UNCHANGED <<web, store, proc, used>>
    BY <1>3 DEF EmbeddingFails, UpsertFails
  <2> QED BY <2>1, <2>2, AfterOK, PutStep
<1> QED BY <1>1, <1>2, <1>3, UpsertStep, SeenSteps DEF Ingest

\* What the indexes show is what the pages are.
LEMMA ShownIs ==
    ASSUME KInv, NEW ids, NEW r \in Shown(ids)
    PROVE  r \in Hit /\ pages[r.url].version = r.version
<1>1. PICK id \in DOMAIN children : r = [url |-> children[id].url, version |-> children[id].version]
  BY DEF Shown
<1>2. children[id].url \in Urls /\ children[id].version \in Versions
  BY DEF KInv, Types, RowTypes
<1>3. id \in ChildrenOf(children[id].url) /\ RowsOK(children[id].url)
  BY <1>2 DEF ChildrenOf, KInv
<1>4. children[id].version = pages[children[id].url].version
  BY <1>3 DEF RowsOK
<1> QED BY <1>1, <1>2, <1>4 DEF Hit

\* A search.
LEMMA SearchSteps ==
    ASSUME KInv, NEW i \in Tasks, Search(i)
    PROVE  KInv'
<1>0. /\ TaskOK(task[i]) /\ task[i] \in ATask /\ PlaceOK(task[i]) /\ ReadOK(task[i])
      /\ OneVersion(task[i]) /\ ProgressOK(task[i])
  BY TheTask DEF TaskOK
<1>1. CASE SearchFts(i)
  <2>1. PICK hits \in SUBSET Shown(index.childFts) : Put(i, [task[i] EXCEPT !.pc = "vector", !.hits = hits])
    BY <1>1 DEF SearchFts
  <2> DEFINE t == [task[i] EXCEPT !.pc = "vector", !.hits = hits]
  <2>2. hits \in SUBSET Hit /\ \A r \in hits : pages[r.url].version = r.version
    BY ShownIs
  <2>3. task[i].pc = "query"
    BY <1>1 DEF SearchFts, Runs
  <2>4. t \in ATask
    BY <1>0, <2>2 DEF ATask, PCs
  <2>5. PlaceOK(t) /\ ReadOK(t)
    BY <1>0, <2>2 DEF ATask, PlaceOK, ReadOK
  <2>6. OneVersion(t) /\ ProgressOK(t)
    BY <1>0, <2>3 DEF ATask, OneVersion, ProgressOK
  <2>7. TaskOK(t)
    BY <2>4, <2>5, <2>6 DEF TaskOK
  <2>8. Put(i, t) /\ UNCHANGED <<web, store, proc, used>>
    BY <1>1, <2>1 DEF SearchFts
  <2> HIDE DEF t
  <2> QED BY <2>7, <2>8, PutStep
<1>2. CASE SearchVector(i)
  <2>0. task[i].pc = "vector" /\ UNCHANGED <<web, store, proc, used>>
    BY <1>2 DEF SearchVector, Runs
  <2>1. PICK hits \in SUBSET Shown(DOMAIN index.vector) :
          Put(i, IF task[i].hits \cup hits = {} THEN SearchEnds(i, "insufficient", {})
                 ELSE [task[i] EXCEPT !.pc = "rerank", !.hits = task[i].hits \cup hits])
    BY <1>2 DEF SearchVector
  <2> DEFINE fused == task[i].hits \cup hits
             t == [task[i] EXCEPT !.pc = "rerank", !.hits = fused]
  <2>2. CASE fused = {}
    <3>1. Put(i, SearchEnds(i, "insufficient", {}))
      BY <2>1, <2>2
    <3>2. TaskOK(SearchEnds(i, "insufficient", {}))
      BY <2>0, SearchEndsOK DEF Statuses
    <3> QED BY <2>0, <3>1, <3>2, PutStep
  <2>3. CASE fused # {}
    <3>1. hits \in SUBSET Hit /\ \A r \in hits : pages[r.url].version = r.version
      BY ShownIs
    <3>2. fused \in SUBSET Hit
      BY <1>0, <3>1 DEF ATask
    <3>3. task[i].meanwhile = "no" => \A r \in fused : pages[r.url].version = r.version
      BY <1>0, <2>0, <3>1 DEF ReadOK
    <3> HIDE DEF fused
    <3>4. t \in ATask /\ t.hits = fused /\ t.pc = "rerank" /\ t.meanwhile = task[i].meanwhile
      BY <1>0, <3>2 DEF ATask, PCs
    <3>5. PlaceOK(t) /\ ReadOK(t)
      BY <3>4 DEF PlaceOK, ReadOK
    <3>6. OneVersion(t)
      BY <3>3, <3>4 DEF OneVersion
    <3>7. ProgressOK(t)
      BY <1>0, <2>0, <2>3 DEF ATask, ProgressOK
    <3>8. TaskOK(t)
      BY <3>4, <3>5, <3>6, <3>7 DEF TaskOK
    <3>9. Put(i, t)
      BY <2>1, <2>3 DEF fused
    <3> HIDE DEF t
    <3> QED BY <2>0, <3>8, <3>9, PutStep
  <2> QED BY <2>2, <2>3
<1>3. CASE Rerank(i)
  <2>0. task[i].pc = "rerank" /\ UNCHANGED <<web, store, proc, used>>
    BY <1>3 DEF Rerank, Runs
  <2>1. PICK evidence \in SUBSET task[i].hits :
          Put(i, IF evidence = {} THEN SearchEnds(i, "insufficient", {})
                 ELSE [task[i] EXCEPT !.pc = "assess", !.hits = evidence,
                                      !.chosen = IF task[i].round = 1 THEN evidence ELSE @])
    BY <1>3 DEF Rerank
  <2> DEFINE t == [task[i] EXCEPT !.pc = "assess", !.hits = evidence,
                                  !.chosen = IF task[i].round = 1 THEN evidence ELSE @]
  <2>2. CASE evidence = {}
    <3>1. Put(i, SearchEnds(i, "insufficient", {}))
      BY <2>1, <2>2
    <3>2. TaskOK(SearchEnds(i, "insufficient", {}))
      BY <2>0, SearchEndsOK DEF Statuses
    <3> QED BY <2>0, <3>1, <3>2, PutStep
  <2>3. CASE evidence # {}
    <3>1. t \in ATask /\ t.hits = evidence /\ t.pc = "assess" /\ t.meanwhile = task[i].meanwhile
      BY <1>0 DEF ATask, PCs
    <3>2. PlaceOK(t) /\ ReadOK(t)
      BY <3>1 DEF PlaceOK, ReadOK
    <3>3. OneVersion(t)
      BY <1>0, <2>0, <3>1 DEF OneVersion
    <3>4. ProgressOK(t)
      BY <1>0, <2>0, <2>3 DEF ATask, ProgressOK
    <3>5. TaskOK(t) /\ Put(i, t)
      BY <2>1, <2>3, <3>1, <3>2, <3>3, <3>4 DEF TaskOK
    <3> HIDE DEF t
    <3> QED BY <2>0, <3>5, PutStep
  <2> QED BY <2>2, <2>3
<1>4. CASE SearchFails(i)
  <2>1. task[i].pc \in {"query", "rerank"} /\ UNCHANGED <<web, store, proc, used>>
        /\ Put(i, SearchEnds(i, "retrieval_error", {}))
    BY <1>4 DEF SearchFails, Runs
  <2>2. TaskOK(SearchEnds(i, "retrieval_error", {}))
    BY <2>1, SearchEndsOK DEF Statuses
  <2> QED BY <2>1, <2>2, PutStep
<1>5. CASE Assess(i)
  <2>1. task[i].pc = "assess" /\ UNCHANGED <<web, store, proc, used>>
    BY <1>5 DEF Assess, Runs
  <2>2. PICK status \in {"sufficient", "insufficient", "assessment_error"} :
          Put(i, SearchEnds(i, status, task[i].hits))
    BY <1>5 DEF Assess
  <2>3. task[i].hits \in SUBSET Hit /\ task[i].hits # {}
    BY <1>0, <2>1 DEF ATask, ProgressOK
  <2>4. TaskOK(SearchEnds(i, status, task[i].hits))
    BY <2>1, <2>3, SearchEndsOK DEF Statuses
  <2> QED BY <2>1, <2>2, <2>4, PutStep
<1> QED BY <1>1, <1>2, <1>3, <1>4, <1>5 DEF Search

\* The online supplement.
LEMMA SupplementSteps ==
    ASSUME KInv, NEW i \in Tasks, Supplement(i)
    PROVE  KInv'
<1>0. /\ TaskOK(task[i]) /\ task[i] \in ATask /\ PlaceOK(task[i]) /\ ProgressOK(task[i])
      /\ task[i].first \in SUBSET Hit /\ task[i].fetched \in Nat /\ OnlineMaxUrls \in Nat
  BY TheTask, KnowledgeAssumption DEF TaskOK, ATask
<1>1. CASE OnlineSearch(i)
  <2> DEFINE t == [task[i] EXCEPT !.pc = "hits"]
  <2>1. t \in ATask /\ t.pc = "hits"
    BY <1>0 DEF ATask, PCs
  <2>2. task[i].pc = "online"
    BY <1>1 DEF OnlineSearch, Runs
  <2>3. ProgressOK(t)
    BY <1>0, <2>2 DEF ATask, ProgressOK
  <2>4. TaskOK(t)
    BY <2>1, <2>3 DEF TaskOK, PlaceOK, ReadOK, OneVersion
  <2>5. Put(i, t) /\ UNCHANGED <<web, store, proc, used>>
    BY <1>1 DEF OnlineSearch
  <2> HIDE DEF t
  <2> QED BY <2>4, <2>5, PutStep
<1>2. CASE OnlineSearchFails(i)
  <2>1. task[i].pc = "online" /\ Put(i, Result(i, "online_error", task[i].first))
        /\ UNCHANGED <<web, store, proc, used>>
    BY <1>2 DEF OnlineSearchFails, Runs
  <2>2. task[i].ingested = {}
    BY <1>0, <2>1 DEF ProgressOK
  <2>3. task[i].first = task[i].chosen
    BY <1>0, <2>1 DEF ProgressOK
  <2>4. TaskOK(Result(i, "online_error", task[i].first))
    BY <1>0, <2>2, <2>3, ResultOK
  <2> QED BY <2>1, <2>4, PutStep
<1>3. CASE TakeHit(i)
  <2>0. task[i].fetched < OnlineMaxUrls /\ UNCHANGED <<web, store, proc, used>> /\ task[i].pc = "hits"
    BY <1>3 DEF TakeHit, Runs
  <2>1. PICK u \in NewHits(i) :
          \/ Put(i, [task[i] EXCEPT !.pc = "fetch", !.url = u, !.seen = @ \cup {u}, !.fetched = @ + 1])
          \/ Put(i, [task[i] EXCEPT !.seen = @ \cup {u}, !.errors = "yes"])
    BY <1>3 DEF TakeHit
  <2>2. u \in Urls
    BY DEF NewHits
  <2>3. task[i].fetched + 1 \in 0..OnlineMaxUrls
    BY <1>0, <2>0
  <2>4. CASE Put(i, [task[i] EXCEPT !.pc = "fetch", !.url = u, !.seen = @ \cup {u}, !.fetched = @ + 1])
    <3> DEFINE t == [task[i] EXCEPT !.pc = "fetch", !.url = u, !.seen = @ \cup {u}, !.fetched = @ + 1]
    <3>1. t \in ATask /\ t.pc = "fetch" /\ t.url = u
      BY <1>0, <2>2, <2>3 DEF ATask, PCs
    <3>2. ProgressOK(t)
      BY <1>0, <2>0 DEF ATask, ProgressOK
    <3>3. TaskOK(t)
      BY <2>2, <3>1, <3>2 DEF TaskOK, PlaceOK, ReadOK, OneVersion
    <3> HIDE DEF t
    <3>4. Put(i, t)
      BY <2>4 DEF t
    <3> QED BY <2>0, <3>3, <3>4, PutStep
  <2>5. CASE Put(i, [task[i] EXCEPT !.seen = @ \cup {u}, !.errors = "yes"])
    <3> DEFINE t == [task[i] EXCEPT !.seen = @ \cup {u}, !.errors = "yes"]
    <3>1. t \in ATask /\ t.pc = "hits"
      BY <1>0, <2>0, <2>2 DEF ATask
    <3>2. ProgressOK(t)
      BY <1>0, <2>0 DEF ATask, ProgressOK
    <3>3. TaskOK(t)
      BY <3>1, <3>2 DEF TaskOK, PlaceOK, ReadOK, OneVersion
    <3> HIDE DEF t
    <3>4. Put(i, t)
      BY <2>5 DEF t
    <3> QED BY <2>0, <3>3, <3>4, PutStep
  <2> QED BY <2>1, <2>4, <2>5
<1>4. CASE Fetched(i)
  <2>1. task[i].url \in Urls
    BY <1>0, <1>4 DEF Fetched, Runs, PlaceOK
  <2>2. web[task[i].url] \in Versions
    BY <2>1 DEF KInv, Types
  <2>3. Put(i, LookUp(i, task[i].url, web[task[i].url])) /\ UNCHANGED <<web, store, proc, used>>
    BY <1>4 DEF Fetched
  <2>4. task[i].pc = "fetch"
    BY <1>4 DEF Fetched, Runs
  <2>5. TaskOK(LookUp(i, task[i].url, web[task[i].url]))
    BY <2>1, <2>2, <2>4, LookUpOK
  <2> QED BY <2>3, <2>5, PutStep
<1>5. CASE FetchFails(i)
  <2>1. task[i].pc = "fetch" /\ Put(i, After(i, "failed")) /\ UNCHANGED <<web, store, proc, used>>
    BY <1>5 DEF FetchFails, Runs
  <2> QED BY <2>1, AfterOK, PutStep
<1>6. CASE HitsEnd(i)
  <2>0. task[i].pc = "hits" /\ UNCHANGED <<web, store, proc, used>>
    BY <1>6 DEF HitsEnd, Runs
  <2>1. CASE task[i].ingested # {}
    <3>1. PICK pc \in {"query", "done"} : Put(i, [task[i] EXCEPT !.pc = pc, !.round = 2])
      BY <1>6, <2>1 DEF HitsEnd
    <3> DEFINE t == [task[i] EXCEPT !.pc = pc, !.round = 2]
    <3>2. t \in ATask /\ t.pc \in {"query", "done"}
      BY <1>0 DEF ATask, PCs
    <3>3. ProgressOK(t)
      BY <1>0, <2>0, <2>1 DEF ATask, ProgressOK
    <3>4. TaskOK(t)
      BY <3>2, <3>3 DEF TaskOK, PlaceOK, ReadOK, OneVersion
    <3>5. Put(i, t)
      BY <3>1
    <3> HIDE DEF t
    <3> QED BY <2>0, <3>4, <3>5, PutStep
  <2>2. CASE task[i].ingested = {}
    <3>1. PICK status \in {"online_error", "insufficient"} : Put(i, Result(i, status, task[i].first))
      BY <1>6, <2>2 DEF HitsEnd
    <3>2. task[i].first = task[i].chosen
      BY <1>0, <2>0 DEF ProgressOK
    <3>3. TaskOK(Result(i, status, task[i].first))
      BY <1>0, <2>2, <3>2, ResultOK DEF Statuses
    <3> QED BY <2>0, <3>1, <3>3, PutStep
  <2> QED BY <2>1, <2>2
<1>7. CASE ToolReturns(i)
  <2>1. Put(i, Over(i)) /\ UNCHANGED <<web, store, proc, used>>
    BY <1>7 DEF ToolReturns
  <2>2. TaskOK(Over(i))
    BY <1>0, NewTaskOK DEF Over, ATask
  <2> QED BY <2>1, <2>2, PutStep
<1> QED BY <1>1, <1>2, <1>3, <1>4, <1>5, <1>6, <1>7 DEF Supplement

-----------------------------------------------------------------------------
(* The processes, and the web. *)

\* The store as it is: everything but the processes and their tasks.
LEMMA RowsStay ==
    ASSUME KInv, UNCHANGED <<pages, parents, children, index, nextId>>
    PROVE  RowTypes' /\ IndexOK' /\ \A u \in Urls : RowsOK(u)'
<1>1. RowTypes' /\ IndexOK'
  BY DEF KInv, Types, RowTypes, IndexOK
<1>2. ASSUME NEW u \in Urls PROVE RowsOK(u)'
  <2>1. RowsOK(u) BY DEF KInv
  <2>2. ParentsOf(u)' = ParentsOf(u) /\ ChildrenOf(u)' = ChildrenOf(u)
    BY DEF ParentsOf, ChildrenOf
  <2>3. UNCHANGED <<pages, parents, children>> OBVIOUS
  <2> QED BY <2>1, <2>2, <2>3 DEF RowsOK
<1> QED BY <1>1, <1>2

\* The tasks as they are.
LEMMA TasksStay ==
    ASSUME KInv, UNCHANGED <<pages, task>>
    PROVE  task' \in Seq(ATask) /\ \A i \in Tasks' : TaskOK(task[i])'
<1>1. task' \in Seq(ATask) /\ Tasks' = Tasks
  BY DEF KInv, Types, Tasks
<1>2. ASSUME NEW i \in Tasks PROVE TaskOK(task[i])'
  BY TheTask DEF TaskOK, PlaceOK, ReadOK, OneVersion, ProgressOK
<1> QED BY <1>1, <1>2

\* A process starts: alone, or with the model that the database names.
LEMMA ProcessSteps ==
    ASSUME KInv, NEW p \in Procs, \/ \E m \in Models : Start(p, m)
                                  \/ WriteMetadata(p)
    PROVE  KInv'
<1>0. /\ proc \in [Procs -> [pc : {"down", "check", "up"}, model : Models \cup {"none"}]]
      /\ model \in Models \cup {"none"} /\ "none" \notin Models
      /\ used \in [updates : Nat, starts : Nat, raced : {"no", "yes"}]
  BY KnowledgeAssumption DEF KInv, Types
<1>1. UNCHANGED <<web, pages, parents, children, index, nextId, task>>
  BY DEF Start, WriteMetadata, store
<1>2. IndexOK' /\ RowTypes' /\ (\A u \in Urls : RowsOK(u)') /\ task' \in Seq(ATask)
      /\ \A i \in Tasks' : TaskOK(task[i])'
  BY <1>1, RowsStay, TasksStay
<1>3. ASSUME NEW m \in Models, Start(p, m) PROVE KInv'
  <2>1. proc' = [proc EXCEPT ![p] = [pc |-> "check", model |-> m]] /\ model' = model /\ model \in {"none", m}
        /\ proc[p].pc = "down"
    BY <1>3 DEF Start, store
  <2> DEFINE met == model = "none" /\ \E q \in Procs : proc[q].pc = "check"
  <2>2. used' = [used EXCEPT !.starts = @ + 1, !.raced = IF met THEN "yes" ELSE @]
    BY <1>3 DEF Start
  <2> HIDE DEF met
  <2>3. used' \in [updates : Nat, starts : Nat, raced : {"no", "yes"}]
    <3>1. used.starts + 1 \in Nat
      BY <1>0
    <3>2. (IF met THEN "yes" ELSE used.raced) \in {"no", "yes"}
      BY <1>0
    <3> QED BY <1>0, <2>2, <3>1, <3>2
  <2>4. used'.raced = "no" => used.raced = "no" /\ ~ met
    BY <1>0, <2>2
  <2>5. used'.raced = "no" /\ model = "none" => \A q \in Procs : proc[q].pc # "check"
    BY <2>4 DEF met
  <2>6. Types'
    BY <1>0, <1>1, <1>2, <2>1, <2>3 DEF KInv, Types
  <2>7. ModelOK'
    BY <1>0, <1>1, <2>1, <2>4, <2>5 DEF KInv, ModelOK
  <2> QED BY <1>2, <2>6, <2>7 DEF KInv
<1>4. CASE WriteMetadata(p)
  <2>1. proc' = [proc EXCEPT ![p].pc = "up"] /\ used' = used /\ proc[p].pc = "check"
        /\ model' = IF model = "none" THEN proc[p].model ELSE model
    BY <1>4 DEF WriteMetadata
  <2>2. Types'
    BY <1>0, <1>1, <1>2, <2>1 DEF KInv, Types
  <2>3. ModelOK'
    BY <1>0, <1>1, <2>1 DEF KInv, ModelOK
  <2> QED BY <1>2, <2>2, <2>3 DEF KInv
<1> QED BY <1>3, <1>4

\* A process dies: its tasks are over, and what is stored stays.
LEMMA CrashStep ==
    ASSUME KInv, NEW p \in Procs, Crash(p)
    PROVE  KInv'
<1>0. /\ proc \in [Procs -> [pc : {"down", "check", "up"}, model : Models \cup {"none"}]]
      /\ Len(task) \in Nat /\ Tasks = 1..Len(task)
  BY TasksAre DEF KInv, Types, Tasks
<1>1. /\ UNCHANGED <<web, model, pages, parents, children, index, nextId, used>>
      /\ proc' = [proc EXCEPT ![p] = [pc |-> "down", model |-> "none"]]
  BY DEF Crash, store
<1>2. RowTypes' /\ IndexOK' /\ \A u \in Urls : RowsOK(u)'
  BY <1>1, RowsStay
<1>3. \A i \in Tasks : TaskOK(task'[i])
  <2> TAKE i \in Tasks
  <2>1. TaskOK(task[i]) /\ task[i] \in ATask
    BY TheTask
  <2>2. TaskOK(Over(i))
    BY <2>1, NewTaskOK DEF Over, ATask
  <2>3. task'[i] = Over(i) \/ task'[i] = task[i]
    BY DEF Crash
  <2> QED BY <2>1, <2>2, <2>3
<1>4. task' = [i \in 1..Len(task) |-> task'[i]]
  BY <1>0 DEF Crash
<1>5. task' \in [1..Len(task) -> ATask]
  BY <1>0, <1>3, <1>4 DEF TaskOK
<1>6. task' \in Seq(ATask) /\ Tasks' = 1..Len(task)
  BY <1>0, <1>5, IsSequence DEF Tasks
<1>7. \A i \in Tasks' : TaskOK(task[i])'
  BY <1>0, <1>1, <1>3, <1>6 DEF TaskOK, PlaceOK, ReadOK, OneVersion, ProgressOK
<1>8. Types'
  BY <1>0, <1>1, <1>2, <1>6 DEF KInv, Types
<1>9. ModelOK'
  BY <1>0, <1>1 DEF KInv, ModelOK
<1> QED BY <1>2, <1>7, <1>8, <1>9 DEF KInv

\* A call begins, and the web changes.
LEMMA OtherSteps ==
    ASSUME KInv,
           \/ \E p \in Procs : Retrieve(p)
           \/ \E p \in Procs, u \in Urls : WebFetchReturns(p, u)
           \/ \E u \in Urls, v \in Versions : WebChanges(u, v)
    PROVE  KInv'
<1>1. ASSUME NEW p \in Procs, Retrieve(p) PROVE KInv'
  <2>1. PICK pc \in {"query", "online"} : task' = Append(task, NewTask("retrieve", p, pc))
    BY <1>1 DEF Retrieve
  <2>2. TaskOK(NewTask("retrieve", p, pc))
    BY NewTaskOK
  <2> QED BY <1>1, <2>1, <2>2, AppendStep DEF Retrieve
<1>2. ASSUME NEW p \in Procs, NEW u \in Urls, WebFetchReturns(p, u) PROVE KInv'
  <2> DEFINE t == [NewTask("ingest", p, "fetched") EXCEPT !.url = u, !.version = web[u]]
  <2>1. web[u] \in Versions
    BY DEF KInv, Types
  <2>2. TaskOK(t)
    <3>1. NewTask("ingest", p, "fetched") \in ATask
      BY KnowledgeAssumption DEF NewTask, ATask, PCs, Page, Hit
    <3>2. t \in ATask /\ t.pc = "fetched" /\ t.url = u /\ t.version = web[u] /\ t.round = 1
          /\ t.first = t.chosen
      BY <2>1, <3>1 DEF NewTask, ATask
    <3> HIDE DEF t
    <3> QED BY <2>1, <3>2 DEF TaskOK, PlaceOK, ReadOK, OneVersion, ProgressOK
  <2>3. task' = Append(task, t) /\ UNCHANGED <<web, store, proc, used>>
    BY <1>2 DEF WebFetchReturns
  <2> HIDE DEF t
  <2> QED BY <2>2, <2>3, AppendStep
<1>3. ASSUME NEW u \in Urls, NEW v \in Versions, WebChanges(u, v) PROVE KInv'
  <2>1. UNCHANGED <<model, pages, parents, children, index, nextId, proc, task>> /\ web' = [web EXCEPT ![u] = v]
        /\ used' = [used EXCEPT !.updates = @ + 1]
    BY <1>3 DEF WebChanges, store
  <2>2. IndexOK' /\ RowTypes' /\ (\A w \in Urls : RowsOK(w)') /\ task' \in Seq(ATask)
        /\ \A i \in Tasks' : TaskOK(task[i])'
    BY <2>1, RowsStay, TasksStay
  <2>3. used' \in [updates : Nat, starts : Nat, raced : {"no", "yes"}] /\ used'.raced = used.raced
    BY <2>1 DEF KInv, Types
  <2>4. Types' /\ ModelOK'
    BY <2>1, <2>2, <2>3 DEF KInv, Types, ModelOK
  <2> QED BY <2>2, <2>4 DEF KInv
<1> QED BY <1>1, <1>2, <1>3

-----------------------------------------------------------------------------
(* The theorems. *)

\* The invariant holds at first.
LEMMA Initially == Init => KInv
<1> SUFFICES ASSUME Init PROVE KInv
  OBVIOUS
<1>1. Tasks = {} /\ task \in Seq(ATask)
  BY DEF Init, Tasks
<1>2. RowTypes /\ IndexOK /\ \A u \in Urls : RowsOK(u)
  BY DEF Init, RowTypes, IndexOK, RowsOK, ParentsOf, ChildrenOf
<1>3. Types
  BY <1>1, <1>2, KnowledgeAssumption DEF Init, Types, Page
<1>4. ModelOK
  BY DEF Init, ModelOK
<1> QED BY <1>1, <1>2, <1>3, <1>4 DEF KInv

\* The invariant holds after every step.
LEMMA Inductive == KInv /\ [Next]_vars => KInv'
<1> SUFFICES ASSUME KInv, [Next]_vars PROVE KInv'
  OBVIOUS
<1>1. CASE Next
  <2>1. ASSUME NEW i \in Tasks, Step(i) PROVE KInv'
    BY <2>1, IngestSteps, SearchSteps, SupplementSteps DEF Step
  <2> QED BY <1>1, <2>1, ProcessSteps, CrashStep, OtherSteps DEF Next
<1>2. CASE UNCHANGED vars
  <2>1. UNCHANGED <<web, model, pages, parents, children, index, nextId, proc, task, used>>
    BY <1>2 DEF vars
  <2>2. IndexOK' /\ RowTypes' /\ (\A w \in Urls : RowsOK(w)') /\ task' \in Seq(ATask)
        /\ \A i \in Tasks' : TaskOK(task[i])'
    BY <2>1, RowsStay, TasksStay
  <2>3. Types' /\ ModelOK'
    BY <2>1, <2>2 DEF KInv, Types, ModelOK
  <2> QED BY <2>2, <2>3 DEF KInv
<1> QED BY <1>1, <1>2

\* The invariant holds always: the tables, their indexes, the model of the vectors, and
\* what every task relies on.
THEOREM KnowledgeInvariant == Spec => []KInv
<1> QED BY Initially, Inductive, PTL DEF Spec

\* Whoever ingests a page at the same time, and whichever process dies, the three indexes
\* hold exactly the rows there are, the rows of a page are exactly the blocks of its
\* content, and all vectors come from the model the metadata names (upsert_page_snapshot,
\* initialize).
THEOREM DatabaseCorrect == Spec => []DatabaseIsSound
<1>1. KInv => DatabaseIsSound
  <2> SUFFICES ASSUME KInv PROVE DatabaseIsSound
    OBVIOUS
  <2>1. \A i \in Tasks : task[i].fetched <= OnlineMaxUrls /\ task[i].ingested \subseteq Urls
    BY TheTask, KnowledgeAssumption DEF ATask
  <2>2. \A u \in Urls : pages[u] = NoPage \/ pages[u] \in [version : Versions, meta : Versions]
    BY DEF KInv, Types, Page
  <2>3. \A p \in Procs : proc[p].pc \in {"down", "check", "up"}
    BY DEF KInv, Types
  <2>4. TypeOK
    BY <2>1, <2>2, <2>3 DEF KInv, Types, RowTypes, TypeOK
  <2>5. SnapshotIsConsistent
    BY DEF KInv, IndexOK, RowsOK, SnapshotIsConsistent
  <2>6. VectorsAreComparable
    BY DEF KInv, ModelOK, VectorsAreComparable
  <2> QED BY <2>4, <2>5, <2>6 DEF DatabaseIsSound
<1> QED BY <1>1, KnowledgeInvariant, PTL

\* The evidence of a search shows one content of a page, unless another process wrote
\* between its two halves; and what a retrieval returns says what happened (search_local,
\* retrieve).
THEOREM EvidenceCorrect == Spec => []EvidenceIsSound
<1>1. KInv => EvidenceIsSound
  BY TheTask DEF TaskOK, OneVersion, ProgressOK, EvidenceIsSound, EvidenceIsOneVersion, ResultIsHonest
<1> QED BY <1>1, KnowledgeInvariant, PTL

\* Once its vectors are there, an ingestion stores exactly the page it fetched; it fails
\* only if another process wrote the page after the last select (ingest_page,
\* upsert_page_snapshot).
THEOREM SavedCorrect == Spec => SavedIsStored
<1> DEFINE A == \A i \in Tasks :
                   /\ MarkSeen(i) \/ UpsertUnchanged(i) \/ Upsert(i) \/ UpsertFails(i)
                   /\ task[i].meanwhile = "no"
                   => pages'[task[i].url] = [version |-> task[i].version, meta |-> task[i].version]
<1>1. KInv => A
  <2> SUFFICES ASSUME KInv, NEW i \in Tasks,
                      MarkSeen(i) \/ UpsertUnchanged(i) \/ Upsert(i) \/ UpsertFails(i),
                      task[i].meanwhile = "no"
               PROVE  pages'[task[i].url] = [version |-> task[i].version, meta |-> task[i].version]
    OBVIOUS
  <2>1. task[i].pc \in {"mark", "upsert"}
    BY DEF MarkSeen, UpsertUnchanged, Upsert, UpsertFails, Runs
  <2>2. /\ task[i].url \in Urls /\ task[i].version \in Versions
        /\ task[i].found = pages[task[i].url]
        /\ task[i].pc = "mark" => task[i].found.version = task[i].version
    BY <2>1, TheTask DEF TaskOK, PlaceOK, ReadOK
  <2>3. pages \in [Urls -> Page]
    BY DEF KInv, Types
  <2>4. CASE Upsert(i)
    BY <2>2, <2>3, <2>4 DEF Upsert
  <2>5. CASE MarkSeen(i) \/ UpsertUnchanged(i)
    <3>1. pages' = [pages EXCEPT ![task[i].url].meta = task[i].version]
      BY <2>5 DEF MarkSeen, UpsertUnchanged
    <3>2. pages[task[i].url].version = task[i].version
      BY <2>2, <2>5 DEF MarkSeen, UpsertUnchanged, IsUnchanged, Runs
    <3>3. pages[task[i].url] \in [version : Versions, meta : Versions]
      BY <2>2, <2>3, <3>2, KnowledgeAssumption DEF Page, NoPage
    <3> QED BY <2>2, <2>3, <3>1, <3>2, <3>3
  <2>6. CASE UpsertFails(i)
    BY <2>2, <2>6 DEF UpsertFails
  <2> QED BY <2>4, <2>5, <2>6
<1>2. KInv /\ [Next]_vars => [A]_vars
  BY <1>1
<1> QED BY <1>2, KnowledgeInvariant, PTL DEF Spec, SavedIsStored
=============================================================================
