---------------------------- MODULE SearchRuntime ----------------------------
(***************************************************************************)
(* The search side of the tool server once it serves: the threads of the   *)
(* server process, which share one FAISS client and its text client, and   *)
(* the text worker processes, one thread each with a text client of its    *)
(* own.  Every text client has two caches (LRUCache): documents by         *)
(* identifier, None included, and chunk lists by document.                 *)
(*                                                                         *)
(* Requests are cut into tasks for the two pools as the server does.  A    *)
(* step reads or writes one lock, flag, client or cache; the indexes never *)
(* change, so a query of them is part of the step that uses its result.    *)
(* Which entry a full cache evicts is left open.                           *)
(***************************************************************************)
EXTENDS RrfFusion, FiniteSets

CONSTANTS
  Request,
  Thread,      \* threads of the vector pool, in the server process
  Worker,      \* text worker processes
  Server,      \* the server process
  Doc,         \* documents of the text index
  Name,        \* other identifiers: titles, and ids only FAISS still has
  Title,       \* the title of a document
  TopHit,      \* what a search of the titles for a name finds first
  Chunks,      \* the chunk numbers of a document that a query for it, which
               \* is cut at 1000 hits, brings back, in order
  Matches, Neighbours, TitleHits,   \* rankings the engines answer with
  Links,       \* <<identifier, chunk number>> of links that are opened
  CacheSize,
  MaxFailures, \* bound: times loading the FAISS client fails
  None, Absent, Failed, NotFound

Key == Doc \cup Name
Process == Worker \cup {Server}
Actor == Worker \cup Thread
Page == -1         \* instead of a chunk index: the whole page ...
Body == -2         \* ... and then the document get_document looks up

SearchKinds == {"rrf", "vector", "keywords", "title"}
Kinds == SearchKinds \cup {"open", "random"}

InIndex == UNION {{d} \X ToSet(Chunks[d]) : d \in Doc}

(* Documents of which a query brings back every chunk.                     *)
Whole(d) == \A m \in DOMAIN Chunks[d] : Chunks[d][m] = m - 1

ASSUME SearchAssumption ==
  /\ None \notin Key \cup Actor \cup Kinds \cup Seq(Key \X Nat)
  /\ Absent \notin Key \cup {None} \cup Seq(Nat)
  /\ Server \notin Worker
  /\ Worker \cap Thread = {}
  /\ Doc \cap Name = {}
  /\ Title \in [Doc -> Key]
  /\ TopHit \in [Name -> Doc \cup {None}]
  /\ Chunks \in [Doc -> Seq(Nat) \ {<<>>}]
  /\ CacheSize \in Nat \ {0}
  /\ MaxFailures \in Nat

(* The text engine finds chunks of its documents, FAISS any it was given.  *)
ASSUME RankingsAssumption ==
  /\ Matches \subseteq Seq(Doc \X Nat)
  /\ \A m \in Matches : \A c \in ToSet(m) : Whole(c[1]) => c \in InIndex
  /\ Neighbours \subseteq Seq(Key \X Nat)
  /\ TitleHits \subseteq Seq(Doc)
  /\ Links \subseteq Key \X Int

ServerTasks == {"vec", "vector"}
TextTasks == {"text", "hydrate", "keywords", "title", "open", "random"}
Places == {"idle", "ensure", "lock", "load", "flag", "client", "run",
           "docget", "docput", "chunkget", "chunkput", "sample", "use",
           "finish"}

VARIABLES
  kind, arg,  \* of a request: what it asks for; a link mode, or the link
  result,     \* of a request, None until there is one
  text, vec,  \* of an rrf request: the candidates, None until they are there
  ranked,     \* of an rrf or vector request: the fused ranking
  queue,      \* tasks no thread has taken
  job,        \* what a thread does
  rrfFlag, initLock, client, loads, failures,  \* _RRF_INITTED and its client
  docCache, chunkCache                         \* of each process

reqVars == <<kind, arg, result, text, vec, ranked>>
initVars == <<rrfFlag, initLock, client, loads, failures>>
caches == <<docCache, chunkCache>>
vars == <<reqVars, queue, job, initVars, caches>>

Idle == [req |-> None, task |-> None, at |-> "idle", todo |-> <<>>,
         doc |-> None, chunks |-> <<>>, then |-> "use", out |-> <<>>]

(* lifespan: workers and server have their text clients; the FAISS client  *)
(* is loaded unless lazy_load_faiss.  Requests leave the link mode to the  *)
(* server's.                                                               *)
Init ==
  /\ kind = [r \in Request |-> None]
  /\ \E mode \in {"wikiid", "title"} : arg = [r \in Request |-> mode]
  /\ result = [r \in Request |-> None]
  /\ text = [r \in Request |-> None]
  /\ vec = [r \in Request |-> None]
  /\ ranked = [r \in Request |-> None]
  /\ queue = {}
  /\ job = [t \in Actor |-> Idle]
  /\ rrfFlag \in BOOLEAN
  /\ initLock = None
  /\ client = IF rrfFlag THEN "configured" ELSE "none"
  /\ loads = IF rrfFlag THEN 1 ELSE 0
  /\ failures = 0
  /\ docCache = [p \in Process |-> [k \in Key |-> Absent]]
  /\ chunkCache = [p \in Process |-> [d \in Doc |-> Absent]]

-----------------------------------------------------------------------------
(* Requests and tasks.                                                     *)

(* The /search, /open_url and /random endpoints.                           *)
Submit(r) ==
  /\ kind[r] = None
  /\ \E k \in Kinds :
       /\ kind' = [kind EXCEPT ![r] = k]
       /\ queue' = queue \cup (IF k = "rrf" THEN {<<r, "text">>, <<r, "vec">>}
                                            ELSE {<<r, k>>})
       /\ \E a \in IF k = "open" THEN Links ELSE {arg[r]} :
            arg' = [arg EXCEPT ![r] = a]
  /\ UNCHANGED <<result, text, vec, ranked, job, initVars, caches>>

Take(t) ==
  /\ job[t].at = "idle"
  /\ \E q \in queue :
       /\ q[2] \in (IF t \in Thread THEN ServerTasks ELSE TextTasks)
       /\ queue' = queue \ {q}
       /\ job' = [job EXCEPT ![t] =
                    [Idle EXCEPT !.req = q[1], !.task = q[2],
                                 !.at = IF t \in Thread THEN "ensure" ELSE "run"]]
  /\ UNCHANGED <<reqVars, initVars, caches>>

Goto(t, place) == job' = [job EXCEPT ![t].at = place]

(* An exception ends the task and, unless it has one, is the result.       *)
Raise(t) ==
  LET r == job[t].req
  IN  /\ job' = [job EXCEPT ![t] = Idle]
      /\ result' = [result EXCEPT ![r] = IF @ = None THEN Failed ELSE @]
      /\ UNCHANGED <<kind, arg, text, vec, ranked, queue, caches>>

-----------------------------------------------------------------------------
(* ensure_rrf_inited and get_client.                                       *)

Ensure(t) ==
  /\ job[t].at = "ensure"
  /\ Goto(t, IF rrfFlag THEN "client" ELSE "lock")
  /\ UNCHANGED <<reqVars, queue, initVars, caches>>

(* Mutant of Lock: the flag is set before the client is there.             *)
LockSetsFlag(t) ==
  /\ job[t].at = "lock"
  /\ initLock = None
  /\ Goto(t, IF rrfFlag THEN "client" ELSE "load")
  /\ initLock' = IF rrfFlag THEN None ELSE t
  /\ rrfFlag' = TRUE
  /\ UNCHANGED <<reqVars, queue, client, loads, failures, caches>>

(* Mutant of Lock: the flag is not read again under the lock.              *)
LockUnchecked(t) ==
  /\ job[t].at = "lock"
  /\ initLock = None
  /\ Goto(t, "load")
  /\ initLock' = t
  /\ UNCHANGED <<reqVars, queue, rrfFlag, client, loads, failures, caches>>

Lock(t) ==
  /\ job[t].at = "lock"
  /\ initLock = None
  /\ IF rrfFlag THEN /\ Goto(t, "client")
                     /\ UNCHANGED initLock
                ELSE /\ Goto(t, "load")
                     /\ initLock' = t
  /\ UNCHANGED <<reqVars, queue, rrfFlag, client, loads, failures, caches>>

Load(t) ==
  /\ job[t].at = "load"
  /\ client' = "configured"
  /\ loads' = loads + 1
  /\ Goto(t, "flag")
  /\ UNCHANGED <<reqVars, queue, rrfFlag, initLock, failures, caches>>

(* Mutant of LoadFails: the lock is kept.                                  *)
LoadFailsLocked(t) ==
  /\ job[t].at = "load"
  /\ failures < MaxFailures
  /\ failures' = failures + 1
  /\ Raise(t)
  /\ UNCHANGED <<rrfFlag, initLock, client, loads>>

LoadFails(t) ==
  /\ job[t].at = "load"
  /\ failures < MaxFailures
  /\ failures' = failures + 1
  /\ initLock' = None
  /\ Raise(t)
  /\ UNCHANGED <<rrfFlag, client, loads>>

SetFlag(t) ==
  /\ job[t].at = "flag"
  /\ rrfFlag' = TRUE
  /\ initLock' = None
  /\ Goto(t, "client")
  /\ UNCHANGED <<reqVars, queue, client, loads, failures, caches>>

(* Without a client get_client makes one of the default directories.       *)
GetClient(t) ==
  /\ job[t].at = "client"
  /\ IF client = "none" THEN client' = "default" /\ loads' = loads + 1
                        ELSE UNCHANGED <<client, loads>>
  /\ Goto(t, "run")
  /\ UNCHANGED <<reqVars, queue, rrfFlag, initLock, failures, caches>>

-----------------------------------------------------------------------------
(* What a task does first.                                                 *)

Running(t, task) == job[t].at = "run" /\ job[t].task = task

(* search_text_rrf_candidates                                              *)
TextCandidates(t) ==
  /\ Running(t, "text")
  /\ \E m \in Matches :
       text' = [text EXCEPT ![job[t].req] = KeywordHits(m, Fetch)]
  /\ job' = [job EXCEPT ![t] = Idle]
  /\ UNCHANGED <<kind, arg, result, vec, ranked, queue, initVars, caches>>

(* search_vector_candidates                                                *)
VecCandidates(t) ==
  /\ Running(t, "vec")
  /\ \E n \in Neighbours :
       vec' = [vec EXCEPT ![job[t].req] = FirstOf(n, Fetch)]
  /\ job' = [job EXCEPT ![t] = Idle]
  /\ UNCHANGED <<kind, arg, result, text, ranked, queue, initVars, caches>>

(* The query could not be embedded.                                        *)
EmbedFails(t) ==
  /\ Running(t, "vec") \/ Running(t, "vector")
  /\ Raise(t)
  /\ UNCHANGED initVars

(* On to the next of the ids a task looks up.  When none is left, or       *)
(* RRFSearchClient has enough results, the task is about to finish.        *)
Go(t, out, todo) ==
  LET j == job[t]
      done == todo = <<>> \/ (j.task = "vector" /\ Len(out) >= TopK)
  IN  job' = [job EXCEPT ![t] =
        [j EXCEPT !.todo = todo, !.out = out, !.chunks = <<>>, !.then = "use",
                  !.doc = IF j.task = "title" /\ ~done THEN todo[1][1]
                                                       ELSE None,
                  !.at = IF done THEN "finish"
                         ELSE IF j.task = "title" THEN "chunkget"
                         ELSE "docget"]]

(* hydrate_chunk_infos, of the window                                      *)
Hydrate(t) ==
  /\ Running(t, "hydrate")
  /\ Go(t, <<>>, Window(ranked[job[t].req]))
  /\ UNCHANGED <<reqVars, queue, initVars, caches>>

(* RRFSearchClient.search, method vector                                   *)
VectorSearch(t) ==
  /\ Running(t, "vector")
  /\ \E n \in Neighbours : \E s \in Fused(Ranks(<<>>), Ranks(FirstOf(n, Fetch))) :
       /\ ranked' = [ranked EXCEPT ![job[t].req] = s]
       /\ Go(t, <<>>, s)
  /\ UNCHANGED <<kind, arg, result, text, vec, queue, initVars, caches>>

(* search_markdown, method keywords                                        *)
KeywordSearch(t) ==
  /\ Running(t, "keywords")
  /\ \E m \in Matches : Go(t, <<>>, KeywordHits(m, TopK))
  /\ UNCHANGED <<reqVars, queue, initVars, caches>>

(* search_markdown, only_title                                             *)
TitleSearch(t) ==
  /\ Running(t, "title")
  /\ \E h \in TitleHits :
       Go(t, <<>>, [m \in DOMAIN FirstOf(h, TopK) |-> <<h[m], 0>>])
  /\ UNCHANGED <<reqVars, queue, initVars, caches>>

(* OpenURL; parse_wikipedia_url takes chunk 0 for no chunk.                *)
Open(t) ==
  /\ Running(t, "open")
  /\ LET link == arg[job[t].req]
     IN  Go(t, <<>>, <<<<link[1], IF link[2] > 0 THEN link[2] - 1 ELSE Page>>>>)
  /\ UNCHANGED <<reqVars, queue, initVars, caches>>

(* random_page_or_chunk samples a document and looks at its chunks ...     *)
Random(t) ==
  /\ Running(t, "random")
  /\ \E d \in Doc :
       job' = [job EXCEPT ![t] = [@ EXCEPT !.at = "chunkget", !.doc = d,
                                           !.then = "sample"]]
  /\ UNCHANGED <<reqVars, queue, initVars, caches>>

(* ... and opens one of them, or the page.                                 *)
Sample(t) ==
  /\ job[t].at = "sample"
  /\ \E n \in 0 .. (Len(job[t].chunks) - 1) \cup {Page} :
       Go(t, <<>>, <<<<job[t].doc, n>>>>)
  /\ UNCHANGED <<reqVars, queue, initVars, caches>>

-----------------------------------------------------------------------------
(* Lookups: get_doc_by_id and get_all_chunks_for_doc.                      *)

(* Threads of the server share the caches of one client.                   *)
ProcessOf(t) == IF t \in Worker THEN t ELSE Server

(* A cache after put(k, v): a full one loses an entry.                     *)
Put(cache, k, v) ==
  LET others == {l \in DOMAIN cache \ {k} : cache[l] # Absent}
      put == [cache EXCEPT ![k] = v]
  IN  IF cache[k] # Absent \/ Cardinality(others) < CacheSize THEN {put}
      ELSE {[put EXCEPT ![l] = Absent] : l \in others}

Wanted(t) == job[t].todo[1][1]

(* What the titles index answers.                                          *)
DocOf(k) == IF k \in Doc THEN k ELSE None

(* get_doc_by_id has returned d.  Keyword hits want no more than the title,*)
(* a page is fetched by get_document.                                      *)
Found(t, d) ==
  LET j == job[t]
      last == d = None \/ j.task = "keywords" \/ j.todo[1][2] = Page
  IN  job' = [job EXCEPT ![t] =
        [j EXCEPT !.doc = d, !.then = "use",
                  !.at = IF last THEN "use" ELSE "chunkget"]]

(* Mutant of DocGet: an entry for the document is reserved with None.      *)
DocGetReserves(t) ==
  LET p == ProcessOf(t)
      cached == docCache[p][Wanted(t)]
  IN  /\ job[t].at = "docget"
      /\ IF cached # Absent THEN Found(t, cached) /\ UNCHANGED docCache
         ELSE /\ job' = [job EXCEPT ![t].doc = DocOf(Wanted(t)),
                ![t].at = IF Wanted(t) \in Doc THEN "chunkget" ELSE "docput",
                ![t].then = "docput"]
              /\ \E c \in Put(docCache[p], Wanted(t), None) :
                   docCache' = [docCache EXCEPT ![p] = c]
      /\ UNCHANGED <<reqVars, queue, initVars, chunkCache>>

(* The cache answers, None included; or the titles index knows no such     *)
(* document; or it does, and the text is fetched for its table of contents.*)
DocGet(t) ==
  LET cached == docCache[ProcessOf(t)][Wanted(t)]
  IN  /\ job[t].at = "docget"
      /\ IF cached # Absent THEN Found(t, cached)
         ELSE job' = [job EXCEPT ![t].doc = DocOf(Wanted(t)),
                ![t].at = IF Wanted(t) \in Doc THEN "chunkget" ELSE "docput",
                ![t].then = "docput"]
      /\ UNCHANGED <<reqVars, queue, initVars, caches>>

DocPut(t) ==
  LET p == ProcessOf(t)
      d == job[t].doc
  IN  /\ job[t].at = "docput"
      /\ \E c \in Put(docCache[p], IF d = None THEN Wanted(t) ELSE d, d) :
           docCache' = [docCache EXCEPT ![p] = c]
      /\ Found(t, d)
      /\ UNCHANGED <<reqVars, queue, initVars, chunkCache>>

GotChunks(t, chunks) ==
  job' = [job EXCEPT ![t].chunks = chunks, ![t].at = job[t].then]

ChunkGet(t) ==
  LET cached == chunkCache[ProcessOf(t)][job[t].doc]
  IN  /\ job[t].at = "chunkget"
      /\ IF cached # Absent THEN GotChunks(t, cached) ELSE Goto(t, "chunkput")
      /\ UNCHANGED <<reqVars, queue, initVars, caches>>

ChunkPut(t) ==
  LET p == ProcessOf(t)
      d == job[t].doc
  IN  /\ job[t].at = "chunkput"
      /\ \E c \in Put(chunkCache[p], d, Chunks[d]) :
           chunkCache' = [chunkCache EXCEPT ![p] = c]
      /\ GotChunks(t, Chunks[d])
      /\ UNCHANGED <<reqVars, queue, initVars, docCache>>

-----------------------------------------------------------------------------
(* What the tasks make of a lookup.                                        *)

(* Mutant of Link: chunk numbers from 0.                                   *)
LinkFromZero(r, c) ==
  <<IF arg[r] = "title" THEN Title[c[1]] ELSE c[1], c[2]>>

(* make_wiki_chunk_url, as parsing the link gives identifier and number.   *)
Link(r, c) == <<IF arg[r] = "title" THEN Title[c[1]] ELSE c[1], c[2] + 1>>

(* A line of an answer: the chunk ranked, the link, the chunk shown.       *)
Line(r, c, shown) == [hit |-> c, link |-> Link(r, c), shown |-> shown]

(* hydrate_chunk_infos takes a chunk by its place in the list,             *)
(* RRFSearchClient by its id; the others show what the engine found.       *)
Known(j, c) ==
  CASE j.task = "hydrate" -> j.doc # None /\ c[2] < Len(j.chunks)
    [] j.task = "vector" -> j.doc # None /\ c[2] \in ToSet(j.chunks)
    [] OTHER -> TRUE

Shown(j, c) ==
  CASE j.task = "hydrate" -> <<c[1], j.chunks[c[2] + 1]>>
    [] j.task = "title" -> <<c[1], j.chunks[1]>>
    [] OTHER -> c

UseLine(t) ==
  LET j == job[t]
      c == j.todo[1]
      line == IF Known(j, c) THEN <<Line(j.req, c, Shown(j, c))>> ELSE <<>>
  IN  /\ j.at = "use"
      /\ j.task \notin {"open", "random"}
      /\ Go(t, j.out \o line, Tail(j.todo))
      /\ UNCHANGED <<reqVars, queue, initVars, caches>>

(* The result of the task is that of the request.                          *)
Answer(t, answer) ==
  /\ job' = [job EXCEPT ![t] = Idle]
  /\ result' = [result EXCEPT ![job[t].req] = IF @ = None THEN answer ELSE @]
  /\ UNCHANGED <<kind, arg, text, vec, ranked, queue, initVars, caches>>

(* OpenURL: an identifier that is no document's is taken for a title.      *)
ByTitle(t) ==
  LET c == job[t].todo[1]
  IN  /\ job[t].at = "use"
      /\ job[t].task \in {"open", "random"}
      /\ job[t].doc = None
      /\ TopHit[c[1]] # None
      /\ Go(t, <<>>, <<<<TopHit[c[1]], c[2]>>>>)
      /\ UNCHANGED <<reqVars, queue, initVars, caches>>

(* Without a chunk number: get_document looks the document up again.       *)
WholePage(t) ==
  /\ job[t].at = "use"
  /\ job[t].task \in {"open", "random"}
  /\ job[t].doc # None
  /\ job[t].todo[1][2] = Page
  /\ Go(t, <<>>, <<<<job[t].doc, Body>>>>)
  /\ UNCHANGED <<reqVars, queue, initVars, caches>>

Opened(t) ==
  LET j == job[t]
      n == j.todo[1][2]
  IN  /\ j.at = "use"
      /\ j.task \in {"open", "random"}
      /\ n # Page \/ j.doc = None
      /\ j.doc = None => TopHit[j.todo[1][1]] = None
      /\ Answer(t, IF j.doc = None THEN NotFound
                   ELSE IF n = Body THEN <<j.doc, j.chunks, Page>>
                   ELSE IF n >= Len(j.chunks) THEN NotFound
                   ELSE <<j.doc, j.chunks[n + 1]>>)

(* Of a hydrated window build_rrf_markdown shows the first TopK.           *)
Finish(t) ==
  /\ job[t].at = "finish"
  /\ Answer(t, IF job[t].task = "hydrate" THEN FirstOf(job[t].out, TopK)
                                          ELSE job[t].out)

(* _search_rrf_async, after the gather                                     *)
Fuse(r) ==
  /\ kind[r] = "rrf" /\ result[r] = None /\ ranked[r] = None
  /\ text[r] # None /\ vec[r] # None
  /\ \E s \in Fused(Ranks(text[r]), Ranks(vec[r])) :
       ranked' = [ranked EXCEPT ![r] = s]
  /\ queue' = queue \cup {<<r, "hydrate">>}
  /\ UNCHANGED <<kind, arg, result, text, vec, job, initVars, caches>>

-----------------------------------------------------------------------------
Step(t) ==
  \/ Ensure(t) \/ Lock(t) \/ Load(t) \/ LoadFails(t) \/ SetFlag(t)
  \/ GetClient(t)
  \/ TextCandidates(t) \/ VecCandidates(t) \/ EmbedFails(t)
  \/ Hydrate(t) \/ VectorSearch(t) \/ KeywordSearch(t) \/ TitleSearch(t)
  \/ Open(t) \/ Random(t) \/ Sample(t)
  \/ DocGet(t) \/ DocPut(t) \/ ChunkGet(t) \/ ChunkPut(t)
  \/ UseLine(t) \/ ByTitle(t) \/ WholePage(t) \/ Opened(t) \/ Finish(t)

Next ==
  \/ \E r \in Request : Submit(r) \/ Fuse(r)
  \/ \E t \in Actor : Take(t) \/ Step(t)

Spec == Init /\ [][Next]_vars

(* Threads run, idle ones serve the queue, and the event loop continues a  *)
(* request whose candidates are there; nobody need send a request.         *)
FairSpec ==
  /\ Spec
  /\ WF_vars(\E r \in Request : Fuse(r))
  /\ \A t \in Actor : WF_vars(Take(t) \/ Step(t))

-----------------------------------------------------------------------------
(* Properties                                                              *)

(* What a link leads to by the indexes, without caches or threads.         *)
LeadsTo(k) == IF k \in Doc THEN k ELSE TopHit[k]

Opens(link) ==
  LET d == LeadsTo(link[1])
  IN  IF d = None THEN NotFound
      ELSE IF link[2] <= 0 THEN <<d, Chunks[d], Page>>
      ELSE IF link[2] > Len(Chunks[d]) THEN NotFound
      ELSE <<d, Chunks[d][link[2]]>>

Answered(r, kinds) == kind[r] \in kinds /\ result[r] \notin {None, Failed}

HitsOf(r) == [m \in DOMAIN result[r] |-> result[r][m].hit]

TypeOK ==
  /\ kind \in [Request -> Kinds \cup {None}]
  /\ queue \subseteq Request \X (ServerTasks \cup TextTasks)
  /\ \A t \in Actor : /\ job[t].at \in Places
                      /\ job[t].then \in {"docput", "sample", "use"}
  /\ rrfFlag \in BOOLEAN
  /\ initLock \in Thread \cup {None}
  /\ client \in {"none", "configured", "default"}
  /\ loads \in Nat /\ failures \in 0 .. MaxFailures
  /\ docCache \in [Process -> [Key -> Doc \cup {None, Absent}]]
  /\ chunkCache \in [Process -> [Doc -> Seq(Nat) \cup {Absent}]]

(* An entry of a cache (LRUCache of search_kws.py) is what the index       *)
(* answers for its key, whatever threads fill and evict at the same time.  *)
EntriesTruthful ==
  \A p \in Process :
    /\ \A k \in Key : docCache[p][k] \in {Absent, DocOf(k)}
    /\ \A d \in Doc : chunkCache[p][d] \in {Absent, Chunks[d]}

(* So is what a thread holds between reading one cache and the next.       *)
CachesTruthful ==
  /\ EntriesTruthful
  /\ \A t \in Actor :
       /\ job[t].at \in {"docput", "use"} /\ job[t].todo # <<>>
            /\ job[t].task # "title"
          => job[t].doc = DocOf(Wanted(t))
       /\ job[t].chunks # <<>> => job[t].chunks = Chunks[job[t].doc]

(* No thread searches a client of the default directories, which           *)
(* get_client makes when there is none: one that failed to load, or is     *)
(* still loading, is waited for or tried again (ensure_rrf_inited).        *)
ConfiguredClient ==
  /\ client # "default"
  /\ \A t \in Thread : job[t].at = "run" => client = "configured"

(* The FAISS index, tens of gigabytes of it, is loaded at most once.       *)
LoadedOnce == loads <= 1

(* The caches and the window do not show in an answer: it is what one      *)
(* walk over the fused ranking, or one look at the index, gives.  The      *)
(* server hydrates a window of three times top_k "so occasional lookup     *)
(* misses still fill top_k": up to twice top_k misses lose no result.      *)
AnswersFromIndex ==
  \A r \in Request :
    /\ Answered(r, {"rrf"}) =>
         LET misses == {c \in ToSet(Window(ranked[r])) : c \notin InIndex}
             whole == \A c \in ToSet(ranked[r]) : c[1] \in Doc => Whole(c[1])
         IN  whole /\ Cardinality(misses) <= (Multiplier - 1) * TopK
             => HitsOf(r) = InProcess(ranked[r], InIndex)
    /\ Answered(r, {"vector"}) => HitsOf(r) = InProcess(ranked[r], InIndex)
    /\ Answered(r, {"open"}) => result[r] = Opens(arg[r])

(* A link in an answer opens the chunk the line is about, and the line     *)
(* shows that chunk: for documents whose chunks a query brings back whole, *)
(* and for a title link when the title leads to the document at all.       *)
LinksOpen ==
  \A r \in Request : Answered(r, SearchKinds) =>
    \A m \in DOMAIN result[r] :
      LET line == result[r][m]
          d == line.hit[1]
          leads == arg[r] = "wikiid" \/ LeadsTo(Title[d]) = d
      IN  Whole(d) => /\ line.shown = line.hit
                      /\ leads => Opens(line.link) = line.hit

(* Every request ends, also when loading the client failed in its thread   *)
(* or in the one it waited for.                                            *)
RequestsEnd == \A r \in Request : kind[r] # None ~> result[r] # None
=============================================================================
