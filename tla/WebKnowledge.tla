---------------------------- MODULE WebKnowledge ----------------------------
(***************************************************************************)
(* The web knowledge base of nanobot: pages are ingested in the background *)
(* after web_fetch (agent/knowledge.py), stored with their blocks and      *)
(* three indexes (agent/knowledge_db.py), and searched by the retriever,   *)
(* which supplements them once from the web (agent/knowledge_retrieval.py).*)
(*                                                                         *)
(* Every process of Procs has one event loop, so its step lasts from one   *)
(* await to the next; where a synchronous section makes several accesses   *)
(* to the database it is cut, so that another process on the workspace may *)
(* come in between (InSync).                                               *)
(*                                                                         *)
(* A page of the web is known by its normalized final URL; its content is  *)
(* a version.  The hash of a page stands for its version.  What a query    *)
(* matches is arbitrary.  A definition Mut_X is a plausible mistake in the *)
(* definition it precedes.                                                 *)
(***************************************************************************)
EXTENDS Integers, Sequences, FiniteSets, Functions

CONSTANTS
    Procs,          \* the processes that share the workspace
    Urls,           \* the pages of the web
    Versions,       \* the contents a page may have
    Blocks,         \* Blocks[v][k]: the parent block of the k-th child chunk of v
    Models,         \* the embedding models that may be configured
    OnlineMaxUrls,  \* knowledge.online_max_urls
    MaxIngests,     \* bound: background ingestions
    MaxRetrieves,   \* bound: calls of retrieve
    MaxUpdates,     \* bound: changes of the web
    MaxStarts       \* bound: starts of a process

ASSUME KnowledgeAssumption ==
    /\ Versions \subseteq Nat \ {0}
    /\ Blocks \in [Versions -> Seq(Nat)]
    \* The blocks are numbered in their order, and every one of them has a chunk.
    /\ \A v \in Versions : \E n \in 1..Len(Blocks[v]) : Range(Blocks[v]) = 1..n
    /\ "none" \notin Models
    /\ OnlineMaxUrls \in Nat \ {0}
    /\ MaxIngests \in Nat /\ MaxRetrieves \in Nat /\ MaxUpdates \in Nat /\ MaxStarts \in Nat

VARIABLES
    web,        \* the content of every page now
    model,      \* metadata row embedding_model, "none" in a new database
    pages,      \* web_pages, by final_url
    parents,    \* page_parents, by parent_id
    children,   \* parent_children, by child_id
    index,      \* page_parent_fts, parent_child_fts and parent_child_vec
    nextId,     \* the autoincrement counters
    proc,       \* the processes and the model they are configured with
    task,       \* ingestions and retrievals
    used        \* how much of the bounds is used up; ghost: two first starts met

store == <<model, pages, parents, children, index, nextId>>
vars  == <<web, model, pages, parents, children, index, nextId, proc, task, used>>

-----------------------------------------------------------------------------
(* Data. *)

NoPage == [version |-> 0, meta |-> 0]    \* meta: the version that title, is_partial ... are from

Tasks == 1..Len(task)

\* url, version: the page being ingested; found: what the select said; meanwhile (ghost):
\* another process wrote between a read and what was done with it; chosen (ghost): what the
\* first search selected.
NewTask(kind, p, pc) ==
    [kind |-> kind, proc |-> p, pc |-> pc, url |-> "none", version |-> 0, found |-> NoPage,
     meanwhile |-> "no", round |-> 1, seen |-> {}, fetched |-> 0, ingested |-> {},
     errors |-> "no", hits |-> {}, first |-> {}, chosen |-> {}, status |-> "none"]

\* Synchronous sections with more than one access to the database.
\* Mutant: the query is embedded between the two searches, not before them.
Mut_AwaitBetween(i) == task[i].pc \in {"mark", "upsert"}
InSync(i) == task[i].pc \in {"mark", "upsert", "vector"}

\* The event loop of its process runs task i.
Runs(i, pc) ==
    /\ i \in Tasks /\ task[i].pc = pc
    /\ proc[task[i].proc].pc = "up"
    /\ \A k \in Tasks \ {i} : task[k].proc = task[i].proc => ~ InSync(k)

Put(i, t) == task' = [task EXCEPT ![i] = t]

\* The tasks after p wrote page u: those of others that had read it are told.
Told(p, u, tasks) ==
    [k \in DOMAIN tasks |->
        IF /\ tasks[k].proc # p
           /\ \/ tasks[k].pc \in {"mark", "upsert"} /\ tasks[k].url = u
              \/ tasks[k].pc = "vector"
          THEN [tasks[k] EXCEPT !.meanwhile = "yes"] ELSE tasks[k]]

\* Nothing of a task that is over matters any more.
Over(i) == NewTask(task[i].kind, task[i].proc, "done")

-----------------------------------------------------------------------------
(* A process starts: WebKnowledgeDatabase.initialize compares the metadata *)
(* of the database with the configuration and then writes what is missing. *)

\* Mutant: the configured model is not compared.
Mut_AnyModel(p, m) ==
    /\ proc[p].pc = "down" /\ used.starts < MaxStarts
    /\ used' = [used EXCEPT !.starts = @ + 1]
    /\ proc' = [proc EXCEPT ![p] = [pc |-> "check", model |-> m]]
    /\ UNCHANGED <<web, store, task>>
Start(p, m) ==
    /\ proc[p].pc = "down" /\ used.starts < MaxStarts
    /\ used' = [used EXCEPT !.starts = @ + 1,
                            !.raced = IF model = "none" /\ \E q \in Procs : proc[q].pc = "check"
                                      THEN "yes" ELSE @]
    \* Otherwise it raises: "embedding_model mismatch; rebuild the knowledge indexes".
    /\ model \in {"none", m}
    /\ proc' = [proc EXCEPT ![p] = [pc |-> "check", model |-> m]]
    /\ UNCHANGED <<web, store, task>>

\* insert or ignore
WriteMetadata(p) ==
    /\ proc[p].pc = "check"
    /\ model' = IF model = "none" THEN proc[p].model ELSE model
    /\ proc' = [proc EXCEPT ![p].pc = "up"]
    /\ UNCHANGED <<web, pages, parents, children, index, nextId, task, used>>

\* The process ends; a transaction that is open is rolled back.
Crash(p) ==
    /\ proc[p].pc # "down"
    /\ proc' = [proc EXCEPT ![p] = [pc |-> "down", model |-> "none"]]
    /\ task' = [i \in Tasks |-> IF task[i].proc = p /\ task[i].pc # "done" THEN Over(i) ELSE task[i]]
    /\ UNCHANGED <<web, store, used>>

-----------------------------------------------------------------------------
(* The web changes; web_fetch of an agent's turn returns a page, which     *)
(* WebKnowledgeHook.after_iteration hands to a background task.            *)

WebChanges(u, v) ==
    /\ used.updates < MaxUpdates /\ v # web[u]
    /\ used' = [used EXCEPT !.updates = @ + 1]
    /\ web' = [web EXCEPT ![u] = v]
    /\ UNCHANGED <<store, proc, task>>

MayStart(p, kind, bound) ==
    /\ proc[p].pc = "up"
    /\ Cardinality({k \in Tasks : task[k].kind = kind}) < bound
    /\ \A k \in Tasks : task[k].proc = p => ~ InSync(k)

WebFetchReturns(p, u) ==
    /\ MayStart(p, "ingest", MaxIngests)
    /\ task' = Append(task, [NewTask("ingest", p, "fetched") EXCEPT !.url = u, !.version = web[u]])
    /\ UNCHANGED <<web, store, proc, used>>

-----------------------------------------------------------------------------
(* ingest_page.  A background task is over after it; its errors are only   *)
(* logged.  A retrieval goes on to the next hit.                           *)

After(i, outcome) ==
    IF task[i].kind = "ingest" THEN Over(i)
    ELSE [task[i] EXCEPT !.pc = "hits", !.url = "none", !.version = 0, !.found = NoPage,
                         !.meanwhile = "no",
                         !.ingested = IF outcome = "saved" THEN @ \cup {task[i].url} ELSE @,
                         !.errors = IF outcome = "saved" THEN @ ELSE "yes"]

\* The page is looked up: unchanged, or to be chunked and embedded.
LookUp(i, u, v) ==
    [task[i] EXCEPT !.url = u, !.version = v, !.found = pages[u], !.meanwhile = "no",
                    !.pc = IF pages[u].version = v THEN "mark" ELSE "embed"]

IngestBegins(i) ==
    /\ Runs(i, "fetched")
    /\ Put(i, LookUp(i, task[i].url, task[i].version))
    /\ UNCHANGED <<web, store, proc, used>>

\* mark_page_seen: the fetch metadata of the row with this URL
MarkSeen(i) ==
    /\ Runs(i, "mark")
    /\ LET u == task[i].url
       IN  /\ pages' = [pages EXCEPT ![u].meta = task[i].version]
           /\ task' = Told(task[i].proc, u, [task EXCEPT ![i] = After(i, "saved")])
    /\ UNCHANGED <<web, model, parents, children, index, nextId, proc, used>>

\* The vectors arrive, and upsert_page_snapshot selects the page again.
\* Mutant: the row selected before the embedding is used.
Mut_SelectedOnce(i) ==
    /\ Runs(i, "embed")
    /\ Put(i, [task[i] EXCEPT !.pc = "upsert"])
    /\ UNCHANGED <<web, store, proc, used>>
Embedded(i) ==
    /\ Runs(i, "embed")
    /\ Put(i, [task[i] EXCEPT !.pc = "upsert", !.found = pages[task[i].url]])
    /\ UNCHANGED <<web, store, proc, used>>

\* The embedder raises, or returns another number of vectors.
EmbeddingFails(i) ==
    /\ Runs(i, "embed")
    /\ Put(i, After(i, "failed"))
    /\ UNCHANGED <<web, store, proc, used>>

ParentsOf(u)  == {id \in DOMAIN parents  : parents[id].url = u}
ChildrenOf(u) == {id \in DOMAIN children : children[id].url = u}

\* The blocks of version v of page u, numbered from nextId on.
NewParents(u, v) ==
    [id \in {nextId.parent + n : n \in Range(Blocks[v])} |->
        [url |-> u, block |-> id - nextId.parent, version |-> v]]
\* Mutant: the index of the parent is off by one.
Mut_OffByOne(u, v) ==
    [id \in {nextId.child + k : k \in DOMAIN Blocks[v]} |->
        [parent |-> nextId.parent + Blocks[v][id - nextId.child] + 1, url |-> u, version |-> v]]
NewChildren(u, v) ==
    [id \in {nextId.child + k : k \in DOMAIN Blocks[v]} |->
        [parent |-> nextId.parent + Blocks[v][id - nextId.child], url |-> u, version |-> v]]

Merged(old, without, new) ==
    [id \in (DOMAIN old \ without) \cup DOMAIN new |-> IF id \in DOMAIN new THEN new[id] ELSE old[id]]

\* _delete_page_children, and the rows of the new snapshot
\* Mutant: the rows of a replaced snapshot stay in the vector table.
Mut_VectorsKept(u, v, m) ==
    LET ps == NewParents(u, v)
        cs == NewChildren(u, v)
    IN  /\ parents'  = Merged(parents, ParentsOf(u), ps)
        /\ children' = Merged(children, ChildrenOf(u), cs)
        /\ index' = [parentFts |-> (index.parentFts \ ParentsOf(u)) \cup DOMAIN ps,
                     childFts  |-> (index.childFts \ ChildrenOf(u)) \cup DOMAIN cs,
                     vector    |-> Merged(index.vector, {}, [id \in DOMAIN cs |-> m])]
        /\ nextId' = [parent |-> nextId.parent + Cardinality(DOMAIN ps),
                      child  |-> nextId.child + Cardinality(DOMAIN cs)]
ReplaceBlocks(u, v, m) ==
    LET ps == NewParents(u, v)
        cs == NewChildren(u, v)
    IN  /\ parents'  = Merged(parents, ParentsOf(u), ps)
        /\ children' = Merged(children, ChildrenOf(u), cs)
        /\ index' = [parentFts |-> (index.parentFts \ ParentsOf(u)) \cup DOMAIN ps,
                     childFts  |-> (index.childFts \ ChildrenOf(u)) \cup DOMAIN cs,
                     vector    |-> Merged(index.vector, ChildrenOf(u), [id \in DOMAIN cs |-> m])]
        /\ nextId' = [parent |-> nextId.parent + Cardinality(DOMAIN ps),
                      child  |-> nextId.child + Cardinality(DOMAIN cs)]

\* The transaction of upsert_page_snapshot, decided by the row that was selected.
IsUnchanged(i) == task[i].found.version = task[i].version

UpsertUnchanged(i) ==
    /\ Runs(i, "upsert") /\ IsUnchanged(i)
    /\ LET u == task[i].url
       IN  /\ pages' = [pages EXCEPT ![u].meta = task[i].version]
           /\ task' = Told(task[i].proc, u, [task EXCEPT ![i] = After(i, "saved")])
    /\ UNCHANGED <<web, model, parents, children, index, nextId, proc, used>>

Upsert(i) ==
    /\ Runs(i, "upsert") /\ ~ IsUnchanged(i)
    /\ LET u == task[i].url
           v == task[i].version
       IN  /\ task[i].found = NoPage => pages[u] = NoPage
           /\ pages' = [pages EXCEPT ![u] = [version |-> v, meta |-> v]]
           /\ ReplaceBlocks(u, v, proc[task[i].proc].model)
           /\ task' = Told(task[i].proc, u, [task EXCEPT ![i] = After(i, "saved")])
    /\ UNCHANGED <<web, model, proc, used>>

\* Another process inserted the page meanwhile (final_url is unique), or holds the
\* database: the transaction is rolled back.
UpsertFails(i) ==
    /\ Runs(i, "upsert")
    /\ \/ task[i].found = NoPage /\ pages[task[i].url] # NoPage
       \/ task[i].meanwhile = "yes"
    /\ Put(i, After(i, "failed"))
    /\ UNCHANGED <<web, store, proc, used>>

-----------------------------------------------------------------------------
(* search_local                                                            *)

\* What a hit shows: of which page, and which content of it.
Shown(ids) == {[url |-> children[id].url, version |-> children[id].version] : id \in ids \cap DOMAIN children}
HasPages == \E u \in Urls : pages[u] # NoPage

\* The KnowledgeResult that retrieve returns; `first` is its evidence.
Result(i, status, evidence) ==
    [task[i] EXCEPT !.pc = "result", !.status = status, !.first = evidence, !.hits = {}]

\* One search is over: what retrieve does with its status.  A first search that is
\* insufficient leads to the web; a second one that fails leaves the first evidence.
\* Mutant: the first evidence is not put back.
Mut_DropsFirst(i, status, evidence) ==
    IF task[i].round = 1 /\ status = "insufficient"
    THEN [task[i] EXCEPT !.pc = "online", !.hits = {}, !.first = evidence]
    ELSE Result(i, status, evidence)
SearchEnds(i, status, evidence) ==
    IF task[i].round = 1 /\ status = "insufficient"
    THEN [task[i] EXCEPT !.pc = "online", !.hits = {}, !.first = evidence]
    ELSE Result(i, status, IF status = "retrieval_error" THEN task[i].first ELSE evidence)

\* KnowledgeRetriever.retrieve
Retrieve(p) ==
    /\ MayStart(p, "retrieve", MaxRetrieves)
    /\ task' = Append(task, NewTask("retrieve", p, IF HasPages THEN "query" ELSE "online"))
    /\ UNCHANGED <<web, store, proc, used>>

\* The query is embedded; the two searches follow one another.
SearchFts(i) ==
    /\ Runs(i, "query")
    /\ \E hits \in SUBSET Shown(index.childFts) :
          Put(i, [task[i] EXCEPT !.pc = "vector", !.hits = hits])
    /\ UNCHANGED <<web, store, proc, used>>

\* Nothing to rerank is insufficient evidence.
SearchVector(i) ==
    /\ Runs(i, "vector")
    /\ \E hits \in SUBSET Shown(DOMAIN index.vector) :
          LET fused == task[i].hits \cup hits
          IN  Put(i, IF fused = {} THEN SearchEnds(i, "insufficient", {})
                     ELSE [task[i] EXCEPT !.pc = "rerank", !.hits = fused])
    /\ UNCHANGED <<web, store, proc, used>>

\* The pool is scored; select_evidence keeps what is good enough and fits.
Rerank(i) ==
    /\ Runs(i, "rerank")
    /\ \E evidence \in SUBSET task[i].hits :
          Put(i, IF evidence = {} THEN SearchEnds(i, "insufficient", {})
                 ELSE [task[i] EXCEPT !.pc = "assess", !.hits = evidence,
                                      !.chosen = IF task[i].round = 1 THEN evidence ELSE @])
    /\ UNCHANGED <<web, store, proc, used>>

\* The embedder or the reranker raises.
SearchFails(i) ==
    /\ Runs(i, "query") \/ Runs(i, "rerank")
    /\ Put(i, SearchEnds(i, "retrieval_error", {}))
    /\ UNCHANGED <<web, store, proc, used>>

\* The model judges the evidence, in time or not.
Assess(i) ==
    /\ Runs(i, "assess")
    /\ \E status \in {"sufficient", "insufficient", "assessment_error"} :
          Put(i, SearchEnds(i, status, task[i].hits))
    /\ UNCHANGED <<web, store, proc, used>>

-----------------------------------------------------------------------------
(* The online supplement of retrieve.                                      *)

OnlineSearch(i) ==
    /\ Runs(i, "online")
    /\ Put(i, [task[i] EXCEPT !.pc = "hits"])
    /\ UNCHANGED <<web, store, proc, used>>

OnlineSearchFails(i) ==
    /\ Runs(i, "online")
    /\ Put(i, Result(i, "online_error", task[i].first))
    /\ UNCHANGED <<web, store, proc, used>>

\* A hit whose URL was not seen before is fetched, unless it is not safe.
NewHits(i) == Urls \ task[i].seen

TakeHit(i) ==
    /\ Runs(i, "hits") /\ task[i].fetched < OnlineMaxUrls
    /\ \E u \in NewHits(i) :
          \/ Put(i, [task[i] EXCEPT !.pc = "fetch", !.url = u, !.seen = @ \cup {u}, !.fetched = @ + 1])
          \/ Put(i, [task[i] EXCEPT !.seen = @ \cup {u}, !.errors = "yes"])
    /\ UNCHANGED <<web, store, proc, used>>

\* The page is parsed and looked up at once ...
Fetched(i) ==
    /\ Runs(i, "fetch")
    /\ Put(i, LookUp(i, task[i].url, web[task[i].url]))
    /\ UNCHANGED <<web, store, proc, used>>

\* ... or has no usable text.
FetchFails(i) ==
    /\ Runs(i, "fetch")
    /\ Put(i, After(i, "failed"))
    /\ UNCHANGED <<web, store, proc, used>>

\* No hits are left (the search finds any number of them), or enough were fetched.
\* Mutant: one page that failed hides those that were ingested.
Mut_ErrorsFirst(i) ==
    /\ Runs(i, "hits")
    /\ Put(i, IF task[i].ingested # {} /\ task[i].errors = "no"
              THEN [task[i] EXCEPT !.pc = IF HasPages THEN "query" ELSE "done", !.round = 2]
              ELSE Result(i, IF task[i].errors = "yes" THEN "online_error" ELSE "insufficient", task[i].first))
    /\ UNCHANGED <<web, store, proc, used>>
HitsEnd(i) ==
    /\ Runs(i, "hits")
    /\ Put(i, IF task[i].ingested # {}
              THEN [task[i] EXCEPT !.pc = IF HasPages THEN "query" ELSE "done", !.round = 2]
              ELSE Result(i, IF task[i].errors = "yes" THEN "online_error" ELSE "insufficient", task[i].first))
    /\ UNCHANGED <<web, store, proc, used>>

ToolReturns(i) ==
    /\ Runs(i, "result")
    /\ Put(i, Over(i))
    /\ UNCHANGED <<web, store, proc, used>>

-----------------------------------------------------------------------------
Init ==
    /\ web \in [Urls -> Versions]
    /\ model = "none" /\ pages = [u \in Urls |-> NoPage]
    /\ parents = <<>> /\ children = <<>>
    /\ index = [parentFts |-> {}, childFts |-> {}, vector |-> <<>>]
    /\ nextId = [parent |-> 0, child |-> 0]
    /\ proc = [p \in Procs |-> [pc |-> "down", model |-> "none"]]
    /\ task = <<>>
    /\ used = [updates |-> 0, starts |-> 0, raced |-> "no"]

Ingest(i) ==
    \/ IngestBegins(i) \/ MarkSeen(i) \/ Embedded(i) \/ EmbeddingFails(i)
    \/ UpsertUnchanged(i) \/ Upsert(i) \/ UpsertFails(i)

Search(i) == SearchFts(i) \/ SearchVector(i) \/ Rerank(i) \/ SearchFails(i) \/ Assess(i)

Supplement(i) ==
    OnlineSearch(i) \/ OnlineSearchFails(i) \/ TakeHit(i) \/ Fetched(i) \/ FetchFails(i) \/ HitsEnd(i) \/ ToolReturns(i)

Step(i) == Ingest(i) \/ Search(i) \/ Supplement(i)

Next ==
    \/ \E p \in Procs, m \in Models : Start(p, m)
    \/ \E p \in Procs : WriteMetadata(p) \/ Crash(p) \/ Retrieve(p)
    \/ \E u \in Urls, v \in Versions : WebChanges(u, v)
    \/ \E p \in Procs, u \in Urls : WebFetchReturns(p, u)
    \/ \E i \in Tasks : Step(i)

Spec == Init /\ [][Next]_vars

-----------------------------------------------------------------------------
(* Properties. *)

TypeOK ==
    /\ web \in [Urls -> Versions]
    /\ model \in Models \cup {"none"}
    /\ \A u \in Urls : pages[u] = NoPage \/ pages[u] \in [version : Versions, meta : Versions]
    /\ \A id \in DOMAIN parents : id \in 1..nextId.parent /\ parents[id].url \in Urls
    /\ \A id \in DOMAIN children : id \in 1..nextId.child /\ children[id].parent \in DOMAIN parents
    /\ \A p \in Procs : proc[p].pc \in {"down", "check", "up"}
    /\ \A i \in Tasks : task[i].fetched <= OnlineMaxUrls /\ task[i].ingested \subseteq Urls

\* "a consistent page snapshot" (WEB_KNOWLEDGE_DESIGN.md 51): whoever ingests the same page
\* at the same time, and whichever process dies, the three indexes hold exactly the rows
\* there are, and the rows of a page are exactly the blocks of its content.
SnapshotIsConsistent ==
    /\ index.parentFts = DOMAIN parents
    /\ index.childFts = DOMAIN children
    /\ DOMAIN index.vector = DOMAIN children
    /\ \A u \in Urls :
          IF pages[u] = NoPage THEN ParentsOf(u) = {} /\ ChildrenOf(u) = {}
          ELSE LET blocks == Blocks[pages[u].version]
               IN  /\ Cardinality(ChildrenOf(u)) = Len(blocks)
                   /\ \A id \in ChildrenOf(u) : children[id].version = pages[u].version
                   /\ {children[id].parent : id \in ChildrenOf(u)} = ParentsOf(u)
                   /\ {parents[id].block : id \in ParentsOf(u)} = Range(blocks)

\* All vectors come from the model the metadata names, and so does every query: a process
\* with another model does not start (initialize).  The comparison and the insert are
\* two steps, so two first starts at the same time are excepted.
VectorsAreComparable ==
    used.raced = "no" =>
        /\ \A id \in DOMAIN index.vector : index.vector[id] = model
        /\ \A p \in Procs : proc[p].pc = "up" => proc[p].model = model

\* The database is sound: types, the rows of every page, and the origin of its vectors.
DatabaseIsSound == TypeOK /\ SnapshotIsConsistent /\ VectorsAreComparable

\* Once its vectors are there, an ingestion stores exactly the page it fetched, title and
\* flags included, whatever other ingestions of the page did while the embedder was
\* awaited; it may fail only if another process wrote the page after the last select
\* (ingest_page, upsert_page_snapshot).
SavedIsStored ==
    [][\A i \in Tasks :
          /\ MarkSeen(i) \/ UpsertUnchanged(i) \/ Upsert(i) \/ UpsertFails(i)
          /\ task[i].meanwhile = "no"
          => pages'[task[i].url] = [version |-> task[i].version, meta |-> task[i].version]]_vars

\* The two searches see one snapshot: evidence never shows two contents of a page, unless
\* another process wrote between them.
EvidenceIsOneVersion ==
    \A i \in Tasks :
        task[i].pc \in {"rerank", "assess"} /\ task[i].meanwhile = "no" =>
            \A r, s \in task[i].hits : r.url = s.url => r.version = s.version

\* What retrieve returns: "sufficient" only with evidence; an online error only if nothing
\* could be ingested; a second search only after an ingestion; and the evidence the first
\* search selected, no more and no less, if there was no second one or the second one
\* failed (KNOWLEDGE_P5_IMPLEMENTATION.md 45-50).
ResultIsHonest ==
    \A i \in Tasks :
        task[i].pc = "result" =>
        /\ task[i].status \in {"sufficient", "assessment_error"} => task[i].first # {}
        /\ task[i].status = "online_error" => task[i].ingested = {}
        /\ task[i].round = 2 => task[i].ingested # {}
        /\ task[i].status = "retrieval_error" /\ task[i].round = 1 => task[i].fetched = 0
        /\ task[i].round = 1 \/ task[i].status = "retrieval_error" => task[i].first = task[i].chosen

\* What a retrieval shows is what there is, and what it says of it is so (retrieve,
\* search_local).
EvidenceIsSound == EvidenceIsOneVersion /\ ResultIsHonest
=============================================================================
