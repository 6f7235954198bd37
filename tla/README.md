# A TLA+ model of simple_wiki_search

simple_wiki_search answers questions over an offline Wikipedia dump. A
benchmark runner asks an agent, the agent talks to a language model and to a
tool server, the tool server searches a keyword index in a process pool and a
vector index in a thread pool, and an embedding client with a persistent cache
turns queries into vectors. This directory holds TLA+ modules of the parts of
that system in which order, failure and concurrency matter, the TLC instances
that check them, and TLAPS proofs of what they guarantee for every size of the
system.

Run anything with `tlc -config X.cfg M`, the proofs with `tlapm M.tla`. Source
paths below are relative to `src/`.

Contents: [parts of the system](#parts-of-the-system) ·
[plan](#plan) · [modules](#modules) · [runs](#runs) ·
[where code and documentation disagree](#where-code-and-documentation-disagree) ·
[fairness](#fairness) · [bounds](#bounds) · [proofs](#proofs) ·
[not modelled](#not-modelled)

## Parts of the system

| part | state it keeps | operations | talks to |
|---|---|---|---|
| Benchmark runner `run_qa_agent.py` | result files, temporary files, running averages, futures | scan earlier results, answer an item, write and rename a record, collect a future, abort or count a failure | agent, judge, file system |
| Agent loop `agent/base.py`, `agent/wikipedia_offline.py` | conversation, round, retry counters, results of parallel tool calls | model request with retries, truncation of old tool output, budget reminder, parallel tool calls with retries, submission | LLM client, tool client |
| Model compatibility `agent/model_compat.py`, `serving/model_family.py` | none | legal tool-call names, id rewriting, channel markers | agent loop |
| LLM client factory `agent/llm_client_factory.py` | clients by endpoint, one lock | get or create a client with its retries and timeout | agent loop, router |
| Tool client `mcp_servers/wikipedia_offline_client.py` | default client | HTTP post, classification of failures | tool server |
| Tool server `mcp_servers/wikipedia_offline_server.py` | one semaphore per endpoint group, text process pool, vector thread pool, tasks and done-callbacks | `/search`, `/open_url`, `/random` | search runtime, embedding client |
| Search runtime, keyword search, RRF fusion, wiki URLs `tools/wikipedia_offline/` | lazily made clients and their lock, indices, two LRU caches per text client | candidates, fusion, hydration, opening of links, random pages, rendering | tantivy, FAISS, embedding client |
| Embedding client `tools/wikipedia_offline/search_vector.py` | `_use_online` flag shared by threads, cache | embed with fallback | embedding services, vector cache |
| Vector cache `storage/search_vector_cache.py` | rows by (text, backend) | get, set, delete | SQLite cache |
| SQLite cache `storage/sqlite_cache.py` | file at `db_path`, a connection per thread, `_disabled`, two locks | read, write, delete, retry, quarantine, re-create | file system |
| Judge `evaluation/llm_judge.py` | a cache file per answer | judge with cache | LLM client |
| Router `serving/router_app.py` and its two front ends | list of backends, registry of tmux sessions | proxy with retry, start, readiness, stop | tmux, backends |
| tmux sessions `serving/tmux.py` | sessions by name | start, kill by name or prefix | tmux |

The hard behaviour is in nine places:

* **deadlines against work that cannot be cancelled** (tool server): a request
  times out, its pool job goes on, and the concurrency limit must stay right;
* **rounds of parallel tool calls** whose results, failures and submissions
  arrive in any order (agent loop);
* **a flag switched by one thread and read by others** around slow requests,
  in front of a cache that outlives the process (embedding client);
* **a database file replaced while threads hold connections to it** (SQLite
  cache);
* **kills and re-runs** over one result directory (runner);
* **start threads that outlive their start** while a signal handler, the
  lifespan and the end of the program all clean up (router);
* **retries at every layer**, agent, openai client and router inside one
  another, on clocks that differ by little (model calls);
* **clients and caches shared by the threads of a search**, made lazily, filled
  and evicted between the lookups of one answer (search runtime);
* **judge verdicts in files written in place**, shared by all runs (judge).

What makes each part correct: *tool server*: permits are conserved, every held
permit has someone who releases it, a slot covers the pool work it admitted, no
waiter is overlooked, every request is answered truthfully. *Agent loop*: it
spends at most `max_round` rounds and ends, an accepted submission is final,
infrastructure failures never look like observations, each request is one the
model server accepts, the saved history is not rewritten. *Embedding client*: a
vector is stored under the key of the service that made it, damaged rows are
misses, a call that raises has tried the fallback, calls end. *SQLite cache*: a
file reported corrupt is replaced, one without a report never, the cache comes
back. *Runner*: only whole results appear, averages and
reported failures agree with the disk, re-running fills the directory.
*Router*: however it ends it takes its backends with it, and no others.
*Model calls*: a call is not lost while its own retries can reach a live
backend, and every call ends. *Search*: an answer is what the indexes say,
whatever the caches and other threads do; its links open what they stand for;
the clients are made once, of the configured directories. *Judge*: a score is
the verdict about this very answer, and a verdict once settled is final.
`PROJECT.json` lists each hazard with the line at which it
bites and the properties aimed at it.

## Plan

In order of importance; A to I are done.

| | modules | models | abstract specification |
|---|---|---|---|
| A | ToolSlots | request path of the tool server | |
| B | AgentEpisode | agent loop | Episode |
| C | EmbedFallback | embedding client and vector cache | |
| D | QaRunner | benchmark runner | ResultStore |
| E | SqliteCache | connections and quarantine | |
| F | BackendSessions | start, signals, stop and clean-up of the routers' backends | |
| G | RrfFusion, SearchRuntime | searches and openings from pool task to answer, over clients and caches shared by threads | one walk over the fused ranking, one look at the index (`InProcess`, `Opens`) |
| H | ModelCalls | a model call through agent, openai client and router | |
| I | Judging | judge, its cache files and the scores | |
| J | ToolCall, composing ToolSlots' answers with AgentEpisode's retries | the client's deadline against the server's | |

J is left open: the only question it adds is about two clocks that differ by
seconds, and neither module has time (see [not modelled](#not-modelled)). Every
safety property that a passing run checks is proved as well (see
[proofs](#proofs)); the plan has left what the liveness properties rest on, as
far as it can be said without ENABLED: that each layer's steps use up a bounded
measure.

## Modules

Each `MC…` module instantiates the module after it in the list for TLC; each
`…Proofs` module holds its theorems. Definitions that end in a mutated name
(`DeadlineReleases`, `ScanRedoesUnscored`, …) are plausible bugs of the
definition they stand next to; they are used to make sure that a property
fails when the code does.

### ToolSlots

One HTTP request is one element of `Request`. `pc[r]` is where `_run_limited`
is: `new`, `waiting` in `semaphore.acquire`, `granted` (woken, not resumed),
`running` behind the shield, `replied`. `value`, `ahead`, `Waiting` and
`WakeUpNext` are `asyncio.Semaphore` of Python 3.12, with its FIFO hand-over;
`held` and `callback` are the closure variable and the done-callback of
`_run_limited`; `task` is the coroutine (`_search_rrf_async` for rrf), `job` the
executor jobs; `broken` is a process pool whose worker died.

| action | code |
|---|---|
| `Arrive` | handler up to the first await: take a permit or queue |
| `Resume`, `AcquireTimeout` | `wait_for(semaphore.acquire(), …)` returns or gives up (503 overloaded) |
| `StartJob`, `FinishJob`, `BreakTextPool` | the executors |
| `Advance` | a step of the task: gather, hydrate, end |
| `Deliver` | `await task` returns or raises; release and answer (`RepliesTo`: by type, and for a timeout by what its text says) |
| `DeadlinePasses` | endpoint deadline: register `release_once`, answer 504 |
| `RunCallback` | the done-callback |

Abstractions: a pool takes any of its queued jobs (its FIFO order is not used
by any property); the submission of the first jobs is part of the step that
acquires the permit, since nothing can be interleaved that would notice.
Requests of endpoints that run on the same pools with another limiter
(`/open_url`, `/random`) are included because they compete for the text pool.
What the jobs compute is in SearchRuntime.

### Episode and AgentEpisode

`Episode` is what callers rely on: at most `MaxRound` rounds, of which only
the last may submit, or an exception. `AgentEpisode` is `_run_impl` for an agent of either
kind of model (`mistral`) with `messages` as a sequence of records (role, kind of text, tool calls, whether the
budget reminder is in it). `BeginRound` adds the reminder, `ModelReplies`,
`ModelTransient` and `ModelError` are the outcomes of the request with its
retries, `AttemptEnds(i)` is one attempt in the thread of call *i*,
`HandleResults` and `RaiseFatal` are what follows the join of the threads.
`Request` is `truncate_tool_messages` applied to a copy of the conversation. A
tool output is `short` or `long` (more than `tool_result_max_chars`), an
accepted or rejected submission, a client-side error, or a backend error by
its class (502/503/504, another 5xx, network, or `unlisted`: a failure
`is_fatal_tool_error` does not know, such as `httpx.WriteTimeout`,
`httpx.ProxyError` or a 200 whose body is not JSON). The calls a reply leaves are
given by their positions in order (`InOrder`), not by a recursive operator, so
that the proofs can type them.

### EmbedFallback

`EmbeddingClient.embed` as seen by threads that share one client:
`Begin` (key from the flag), `Lookup`/`Purge` (cache, a row that does not
decode is deleted), `Choose` (the flag is read again), `ServiceReturns`/
`ServiceFails`, `ShortAnswer` (no or too few vectors: `embed` stores nothing and
raises, without a fallback), `NoticeFailure` and `Switch` (the flag is read, and
then set, in two steps, so that several threads may switch and retry), `Store`,
`End`. Without a key the online service is not asked (`Asks`), the call fails.
`Restart` starts a new process on the old cache; `DamageRow` is the
environment. A vector is abstracted to the service that made it.

### SqliteCache

`path` is the file (an inode) at `db_path`, `tabled` whether it has the table,
`blamed`, history, whether a statement on it has reported corruption; `conn[t]`
is the connection in the thread-local storage, which follows the inode and not
the path. `mode` is `_disabled` with its reason, `lock` is `_init_lock`. `Call`,
`GetConn` (the check of `_disabled`), `OpenConn`/`OpenFails`, `Exec` and
`Locked` are any of `read_raw`, `write_raw` and `delete_key` under
`_with_retry`; `QuarantineCheck`, `QuarantineSet`, `Rename`, `Reenable`,
`InitConnect`, `Create`, `CreateReports` and `InitFails` are the steps of
`_disable_and_quarantine` and `_init_db`, which call each other recursively
(`depth`, up to `MaxDepth` for Python's recursion limit). A thread may be
interrupted between any two of them; none holds a common lock.

Whether a file is corrupt is not modelled: `_is_corruption_error` looks at the
message, among others for "disk i/o error" and "not an error", which a sound
file may cause as well, so any statement on any file may report. The message
"database is locked and cannot be accessed", which it lists too, counts as
locked in `_with_retry`; SQLite has no such message. Only the database file is
renamed: its `-wal` and `-shm` stay beside the new one. A database is one file
in the model, and no property reads rows.

### ResultStore and QaRunner

`ResultStore` is the promise to readers of the directory: a run first notes
each valid result, or discards it if it cannot be read; then valid results
appear, whole, and none is replaced or removed. `QaRunner` has the files
(`out`, `tmp`), the phase of `main()` (`mode`), the position of each item
(`st`), the record its worker holds (`rec`) and the averages. `Scan` reads a
file of an earlier run and removes a corrupt one, `ReadFails` meets an
`OSError` and removes the file whatever it holds, `ScanRaises` is an exception
nothing catches: the `UnicodeDecodeError` of a `Garbled` file, or an `OSError`
of `exists()` or `unlink()`. `StartItem`, `Answered`,
`AnswerFails`, `WriteTmp`, `Replace`, `WriteFails` are a worker;
`Collect`/`CollectFailure`/`EndRun` are `main()`; `Crash`, `Damage` and `Repair` (somebody deletes a garbled file) are the
environment. A run has as many workers as `StartRun` picks; with one worker
`main()` uses its sequential path, which an exception leaves. The judge's
average is kept like the F1 average and left out. One runner per directory and
distinct item ids are assumed: the scripts of the repository start runners that
way.

### BackendSessions

`session` is the tmux server: who made the session of a name. `mode[r]` is
where `run_router_server` is, `task` and `stop` are the coroutines of
`start_backend_in_tmux` (with `wait_backend_ready`) and `stop_backend` for each
backend, `started` and `pending` the registry, `killing` and `todo` a
`kill_all()` under way in the main thread.

| action | code |
|---|---|
| `Launch` | `build_backends()`, whole or half-way |
| `StartBackend`, `PauseEnds`, `NewSession`, `SessionStarted` | `start_backend_in_tmux` up to the pause, after it, its thread, its return |
| `StartsEnd`, `BackendReady`, `WaitEnds` | the two `gather()`s of the lifespan |
| `Shutdown`, `StopBackends`, `StopKills`, `Stopped`, `ServeEnds` | the `finally` of the lifespan, `stop_backend` and its thread |
| `Signal`, `KillOne`, `KillByPrefix`, `EndKillAll` | `handle_exit` and `kill_all`, a session at a time; the event loop does not run |
| `Cleanup` | `_cleanup_tmux_on_exit` once `asyncio.run` has joined the threads |
| `Crash` | the process is killed; its tmux threads may still act |

What uvicorn does is modelled from how the code uses it: it calls
`handle_exit` on a signal and lets the loop go on; it raises captured signals
again when it returns, so that SIGTERM ends the process there and only a
router without SIGTERM reaches the end of `run_router_server`; and if a signal
came during start-up it returns without the lifespan's shutdown. A start that
`gather()` abandoned goes on, as do its threads. Each kind of signal comes once,
so that uvicorn's forced exit on a second SIGINT is left out; so is the exit
when its port is taken, which shuts the lifespan down as a failed wait does.
`kill-session` of a session that is there is assumed to succeed: the code logs a
failure and forgets the session. The clean-up that `atexit` repeats finds nothing to do. Names are atoms: that
tmux lets `-t` match a longer name is listed as a hazard only.

### RrfFusion and SearchRuntime

`RrfFusion` has what is computed from lists of hits: the best chunk of each
document (`BestPerDoc`), ranks, scores as exact fractions, the walk of
`RRFSearchClient.search` over a ranking (`InProcess`), the fused rankings
(`Fused` is a set, since equal scores come in the order of a Python set of
strings) and the window that is hydrated. `SearchRuntime` is everything between
the tasks the server hands to its pools and the results: `queue` holds the
tasks, `job[t]` is what a thread does and where it is in it, `rrfFlag`,
`initLock` and `client` are `_RRF_INITTED`, its lock and the client singleton,
`docCache` and `chunkCache` the two `LRUCache`s of the text client of each
process.

| action | code |
|---|---|
| `Submit`, `Take`, `Fuse` | the endpoints, an executor thread taking a task, `_search_rrf_async` after its gather |
| `Ensure`, `Lock`, `Load`, `LoadFails`, `SetFlag` | `ensure_rrf_inited` with double-checked locking |
| `GetClient` | `get_client`, which makes a client of the default directories if there is none |
| `TextCandidates`, `VecCandidates`, `EmbedFails` | `search_text_rrf_candidates`, `search_vector_candidates` |
| `Hydrate`, `VectorSearch`, `KeywordSearch`, `TitleSearch` | `hydrate_chunk_infos` and the methods of `search_markdown` up to the first lookup |
| `DocGet`, `DocPut`, `ChunkGet`, `ChunkPut` | `get_doc_by_id` and `get_all_chunks_for_doc`: look, ask the index, put; other threads may fill and evict in between |
| `UseLine`, `Finish` | what becomes of a looked-up hit, and the answer |
| `Open`, `ByTitle`, `WholePage`, `Opened`, `Random`, `Sample` | `OpenURL`, its title search, `get_document`, `random_page_or_chunk` |

Indexes are constants: rankings the engines may answer with, the title of a
document, what a title search finds, and the chunks a query for a document
brings back (a prefix and gaps are possible, because the query is cut at 1000
hits). They fit together as `RankingsAssumption` says: the vector index may rank
what the text index does not know, as FAISS does after a deletion; a keyword hit
is a chunk of the text index, unless its document is brought back with gaps; a
title query finds documents. Which entry a full cache evicts is left open; the code evicts the least
recently used. A line of an answer is the chunk ranked, the link and the chunk
shown.

### ModelCalls

`turn` is the router's round robin, `handler[c][i]` the router's handler of the
i-th HTTP request of a call, which outlives the client's interest in it, `mode`
how each backend takes a request (answers, answers 500, refuses, does not
accept, does not answer). `Send` is a request arriving at the router;
`Attempt` one attempt of `proxy_to_backend`, including the pause and the next;
`ClientTimeout` the client giving up on a slow backend before the router does;
`Again` the openai client's retry and then the agent's
(`_create_chat_completion_with_retries`). `Stray` is any other request that
takes a turn, `Change` the environment. `steady` and `shared` are history for
`LoneCallerSurvives`. Timeouts are ordered as the code's values order them: the
connect timeout of the router first, the client's next, the router's read
timeout last. A broken backend answers 500 and one that is up never answers
4xx; an answer 502 or 503 of the backend itself would be retried by the agent
like the router's own.

### Judging

One `ResultFile` is an item with its answer. `Evaluate` is `evaluate_item_metrics` up to the
judge's cache (exact match, empty answer, judge disabled, file there or not),
`Read`, `Ask`, `Open`, `Write` are the steps of `_call_judge`; `Open` truncates
the file and `Write` fills it, because `write_text` does it in two system calls
and other workers may read or write the same file in between. `Publish` is the
record, `Lose` a kill or a failing file operation at any step. A reply is
abstracted to the verdict that is found in it. An empty reply would leave an
empty file, which the model knows only as one just truncated; that a reply cut
short may hold a verdict of its own for the fallback pattern is left out. Its names are other than those of
QaRunner, so that one module can prove about both.

## Runs

| run | instance | shows |
|---|---|---|
| `slots` | an rrf, a vector and a keyword search for one search permit, one text worker, deadlines; jobs fail, raise `TimeoutError` or another timeout, or hang, the text pool may break | permits are conserved and each has a releaser; the only pool work without a slot is the sibling of a failed candidate job (`OnlyGatherOrphans`); 503 overloaded means no work, or a timeout-like failure of the work that says so in its own text; 200 means all work (`ReplyTellsWork`); service in order; every request is answered although jobs hang; permits come back when the work ends |
| `slots_orphan` | the same | **violation** of `SlotCoversWork` |
| `episodes` | five rounds of either kind of model, up to three parallel calls with a submission and an illegal call, one retry, all failures, truncation keeping one result | accepted is final, listed backend errors are never observations nor let their round be handled, every request is well formed, the reminder is shown in time and once, history is kept, the loop ends and implements `Episode` |
| `embed_threads` | two threads, one text, failures, short answers, damage, restarts | the online key never holds a local vector, calls end |
| `embed_poison` | the same | **violation** of `CacheTruthful` |
| `cache_threads` | two threads, five files, two attempts, one nested quarantine, any statement may report corruption | a missing table has a thread about to make it, operations end |
| `cache_healthy` | the same | **violation** of `HealthyStays`: a file nothing was reported about is moved away |
| `qa_runs` | three items, one or two workers, any number of runs, crashes, failing reads, damaged and undecodable files | implements `ResultStore`; averages, reported failures and aborts agree with the disk; runs end; re-running fills the directory once faults stop and undecodable files are gone |
| `sessions` | a router of three backends, an old session of its own and one of somebody else, both signals, failed starts, crashes | a router that exits leaves nothing (`CleanExit`); SIGTERM leaves sessions only after a bad start (`OrphansNeedBadStart`); sessions out of its reach stay; a signalled router ends |
| `search` | two requests of any kind, two vector threads, a text worker, caches of one entry, a deleted document FAISS still lists, a document whose chunks have a gap, a title that is another document's id, lazy or eager loading that may fail once | caches and what is read from them are what the index says, the configured client is loaded once, answers are those of one walk over the ranking, links open what they stand for, every request ends |
| `model_calls` | one call, three backends in any condition that may change once, another request in between | the call is not lost while its retries can reach a backend that is up (`LoneCallerSurvives`), and it and all its handlers end |
| `judging` | two items that ask the same question, two predictions, three kinds of reply, kills at every step | only answers that need it are judged, scores are verdicts about this answer, a settled verdict is final, every item gets its record |

Deadlock is not checked where the system may legitimately stop: when all
requests of an instance are answered (ToolSlots, SearchRuntime), when an
episode has ended, when the SQLite cache is disabled for good, when all routers
have ended, when all model calls have returned, when every item has its
record. Each property of a passing run has a mutant of a mapped definition that
breaks it.

## Where code and documentation disagree

1. **`slots_orphan`** (`mcp_servers/wikipedia_offline_server.py:262`). The
   comment at 206–207 keeps a slot "until the underlying task finishes".
   `asyncio.gather` fails with its first failing half and leaves the other
   running; the task is done, the slot is given back, the vector job still
   occupies its pool.
2. **`embed_poison`** (`tools/wikipedia_offline/search_vector.py:305`). The
   cache key is computed before the request, the flag read again after; if
   another thread switches in between, an online vector is stored under the
   local key, permanently.
3. **`cache_healthy`** (`storage/sqlite_cache.py:134`). The quarantine renames
   whatever is at `db_path`. A second thread that met the same corruption, or
   still has a connection to the file moved away, moves the healthy new
   database away too, on which no statement has reported anything. With one thread
   this cannot happen (`SequentialHealthyStays`).

Further observations have no run of their own; paths are of `src/`.

* SIGTERM may leave backends running, although `_RouterUvicornServer` says it
  kills them (`serving/router_app.py:375`): when a start fails, threads of other
  starts may create their sessions after `stop_backend` has passed; and when the
  signal comes before the sessions exist, for instance in the pause after old
  ones were killed, all backends come up and the process ends without another
  clean-up. `OrphansNeedBadStart` shows that these are the only ways.
* With two threads the embedding client may raise without having asked the
  online service: a thread that fails and reads the flag after another has set
  it. `SequentialFallbackTried` proves that one thread does not, with one
  exception: an answer with no or too few vectors is no exception to `embed`,
  which then raises "missing vectors"
  (`tools/wikipedia_offline/search_vector.py:308`) without trying the other
  service.
* One thread does move a healthy database away when a statement on it reports a
  transient "disk I/O error" (`storage/sqlite_cache.py:117`): the rows stay in
  the quarantine file and are computed again.
* `is_fatal_tool_error` (`agent/base.py:65`) is said to be true of
  "infrastructure errors that should not become observations", but lists types
  of httpx one by one. `httpx.WriteTimeout`, `ProxyError`, other transport
  errors and the decoding error of a 200 that is not JSON are not among them
  and are shown to the model as a tool message, with a hint to fix its
  arguments. `BackendErrorsNotObserved` is about the listed ones; in the model
  the others are `unlisted`.
* A timeout of the pool work whose text contains "overloaded"
  (`mcp_servers/wikipedia_offline_server.py:144`), for instance what an
  embedding service says of itself, is answered like an acquire timeout, 503
  overloaded, although pools worked. `ReplyTellsWork` names the case.
* The parallel runner goes on after a `FatalToolError` that the agent describes
  as aborting the run.
* With the endpoint timeout disabled (`mcp_servers/wikipedia_offline_server.py:220`)
  a `TimeoutError` of the work itself takes the `except` clause meant for the
  deadline and leaves the permit taken for ever. `NoForgottenPermit` has
  configured deadlines as its premise.
* A text pool whose worker died is never replaced (same file, 235): every later
  search that needs it fails (`BreakTextPool`).
* `tools/wikipedia_offline/search_kws.py:165` fetches more hits to "ensure
  enough unique docs"; a document with more matching chunks than are fetched
  still leaves fewer documents than asked for. `KeywordHits` models the cut.
* The judge's cache file is written in place: a run killed between opening and
  writing leaves an empty file, which is read as a reply without a verdict from
  then on. `SettledIsFinal` is about verdicts, which such a file does not have.
* `_load_cached_status` is said to "remove corrupt files"
  (`run_qa_agent.py:230`). An `OSError` while reading a valid file (too many
  open files, an I/O error) makes it remove the file, too; the item is answered
  again. A file that is not UTF-8 raises a `UnicodeDecodeError`, which line 233
  does not catch: `main()` ends with it at every re-run, and the file stays until
  somebody deletes it. `ImplementsStore` admits the loss in the scan only, and
  `RerunsFill` has the deletion as its premise.
* Two runners on one directory, or two items with one id, share temporary names.
* `deploy.md:135` says the report's `gpt` column is empty when the judge
  was off; the report script prints 0.00.

## Fairness

* ToolSlots: weak fairness of the event loop and of its timers, per request.
  Nothing is assumed of pool jobs, which may hang: `EveryRequestAnswered` holds
  all the same, and `SlotsComeBack` has the end of the jobs as its premise.
* AgentEpisode: weak fairness of `Next`. Requests to the model and to tools
  end, because both HTTP clients have timeouts, and threads run.
* EmbedFallback: weak fairness of each thread's steps; HTTP timeouts again.
* SqliteCache: strong fairness of each thread's steps: threads run, and a
  thread waiting for `_init_lock` gets it at some time although others keep
  taking it. Which of the possible results a step has is left open.
* BackendSessions: weak fairness of each router's steps: its loop and threads
  run, tmux commands return, waiting for a backend has a time limit. Signals
  and crashes need not come.
* SearchRuntime: weak fairness of the event loop (`Fuse`) and of every pool
  thread, which takes a task when it is idle and goes on with the one it has.
  Nobody need send a request. That the lock of the lazy initialisation is held
  only while the client loads makes weak fairness enough for its waiters.
* ModelCalls: weak fairness of the caller and of each handler in the router;
  all requests have timeouts. Backends need not change.
* Judging: weak fairness of each worker; the judge's requests have a timeout,
  and the runner is started again as long as items have no record. That kills
  stop is the premise of `RecordsCome`.
* QaRunner: weak fairness of `main()` (which includes starting another run, as
  the last log line tells the operator to) and of each worker. Crashes and
  failures are not restrained; `RerunsFill` has "faults stop" and "no undecodable
  file stays" as its premises.

## Bounds

Three searches for one permit are the least in which one waiter is woken while
another queues and the third leaves work behind; the text half of the rrf
search and the keyword search compete for the one text worker.
Five rounds are the fewest in which a reminder is due, and let rounds follow a
rejected submission; three executed calls out of four put illegal ones and
searches around a submission. Two threads suffice for each of the races of the embedding client and of
the SQLite cache (the proofs cover any number); the SQLite instance has a file
more than its threads can refer to, so that a new file is always available.
Three items allow a cached, a failing and a running item at a time; a single
score is enough because averages only add. Retry and depth counters are
constants of the code with smaller values. One router suffices in `sessions`, because another one acts on it only through
sessions of a name, where it is a failed start or an old session; three
backends let one fail, one be created late and one be up. `MaxSignals` is the
number of kinds of signals. `Locked` stops at `MaxRetries`,
`Nested` at `MaxDepth`.

In `search` two requests and two vector threads race for the client, for both
caches of the server and in one rrf search; one entry per cache makes every
second lookup evict. `TopK` = `Multiplier` = 2 gives a window longer than the
answer and a ranking longer than the window. `MaxFailures` = 1 lets a load fail
in one thread while another waits for the lock; it caps the only counter of the
module that grows. In `model_calls` three backends need all three requests of
the openai client to come round; one agent retry starts the rotation anew;
`MaxChanges` and `MaxStrays` = 1 suffice to have a backend fail between two
requests and a turn taken away. Other callers matter to a call only by the
turns they take, so one caller with strays stands for several; the proof covers
any number. In `judging` two workers are the least that share a file, two
predictions the least that must not.

## Proofs

All are checked by TLAPS for every value of the constants that satisfies the
`ASSUME`s of the module (positive limits, finite request and item sets,
distinct markers).

* **ToolSlotsProofs**. `TypeCorrect`; `PermitsConserved`, whose induction needs
  that a handler which does not run holds nothing (`NotHeldBeforeRunning`) and
  counts how each action changes the set of owners, including the hand-over;
  `NoForgottenPermit` (with deadlines configured); `WorkWithoutSlot` and its
  corollary `SlotCoversWorkWithoutRrf`: the comment of `_run_limited` is true
  of every load without rrf searches. `WakeUpsReach`: no permit lies free while
  somebody waits and nobody has been woken. `WaitersAreServedInOrder`: nobody
  gets a permit before somebody who waited longer. `QueuesAreOrdered` says that
  `ahead` is a strict order of those who wait for a semaphore, and
  `SomebodyIsNext` that one of them is first in it, so that the hand-over, which
  goes to the first, always finds somebody. `AnswersTellWork` through
  `AnswerInv`, which ties the task of a request to its jobs while it is served.
* **AgentEpisodeProofs**. `EpisodeRefined`: the loop implements `Episode`. The
  invariant `ControlInv` ties phase, round and stop reason together, which the
  refinement mapping reads; with the types it is `TypeInv` (`TypeCorrect`). What
  each step does to the conversation is one lemma per action (`BeginEffect`,
  `RepliesEffect`, `HandleEffect`), on which the rest stands: `HistoryIsKept`;
  `SubmissionsAreFinal` and `FailuresStayOutside` through `TextInv` (before the
  end no message is an accepted submission or a backend failure);
  `RequestsAreWellFormed` through `FormInv` (while calls are executed their
  message is the last, at all other times every call is answered in place) and
  the fact that truncation changes neither roles nor calls;
  `ReminderReachesModel` through `ReminderInv`, for `KeepRecent >= 1`: with 0 a
  long tool result that the reminder was merged into would lose it.
* **EmbedFallbackProofs**. `TypeCorrect`, `DamagedRowsNotServed`, and
  `OnlineKeyIsTruthful` for any number of threads, through `KeyFollowsSwitch`
  (whoever holds an online key sees the switch made). Under the assumption
  `OneThread`, `SequentialCacheTruthful` and `SequentialFallbackTried`: what
  the documentation says holds without concurrency, short answers apart.
* **SqliteCacheProofs**. `TypeCorrect` (which includes that the table is made
  under the lock); `SwitchedOnAgain`, inductive beside the type, and
  `TableAlwaysComes`, inductive beside both, since a thread that finds the cache
  switched off leaves the table to the one that did it; under `OneThread`,
  `SequentialHealthyStays` through `FollowsPath` (the connection is to the file
  at `db_path`, and only a file a statement has blamed is quarantined).
* **BackendSessionsProofs**, for any routers sharing a machine. `TypeCorrect`;
  `ExitsAreClean` through `ExitInv` (nothing is about to be created when the
  last clean-up begins, and what it has not killed by name it lists by prefix);
  `OthersAreKept` through `KeepInv` (a router kills before it creates, or what
  it registered, or in a clean-up); `OrphansOnlyAfterBadStart` through
  `OrphanInv` and `TerminatedInv`: without a failed start the registry knows
  every session that is there, so that what `stop_backend` skips is gone.
* **QaRunnerProofs**. `FilesInv` says what the position of an item means for
  its two files; from it `NoPartialResult`, `TemporaryFilesGo` and
  `StoreRefined` (refinement of `ResultStore`: a scan or a failed read maps to
  noting or discarding a result, the rename to publishing one). `FailuresAreReported` adds that
  the counters are the sizes of the sets of items in each position.
  `AbortsAreClean` through `AbortInv`: a run with one worker has at most one
  item that is neither pending nor done, and has it in error when it aborts; a
  scan that raises has items it has not looked at, and touched none.
  `AveragesAreOfTheDisk`: `AveragesMatchDisk` adds scores up by a fold over a
  set; `SumIs` shows that the fold is the size of a pile with as many
  things for each item as its score, and `ScoredSum` is inductive beside
  `CountersFollowState`.
  The same module proves about Judging, for any questions, answers and replies:
  `OnlyAnswersAreJudged` (`JudgeTypeOK` says which answers reach the judge);
  `RecordsHoldVerdicts` through `RepliesFollowKeys`: whatever text lies under a
  key, or is in the hands of a worker, was a reply about that key;
  `SettledVerdictsAreFinal`: whoever looks at a settled verdict reads it and
  does not ask.
* **SearchRuntimeProofs**, for any requests, threads, workers, documents, cache
  sizes, and rankings that satisfy `RankingsAssumption`. The inductive invariant
  has two parts. `IInv` says that only the thread with
  `_RRF_INIT_LOCK` loads, that the flag and the client appear in that order
  (`LoadInv`), and that what a thread is about to put into a cache is what the
  index said (`HeldInv`). From it `TypeCorrect`; `CachesHoldTheIndex`, the part
  of `CachesTruthful` about the entries; `OnlyTheConfiguredClient`;
  `TheClientIsLoadedOnce`. `SearchInv` follows requests through their tasks: a
  task is in the queue or with one thread, and a request of one task has no
  answer until that task ends (`TasksInv`); what a thread carries fits where it
  is (`Carries`), its lines are good (`OutInv`), an opening asks for the document
  its link leads to (`OpenWalk`), and the lines are those of the part of the
  ranking walked so far (`Walking`); an answer is where such a walk ended
  (`AnswerInv`). From it
  `ThreadsHoldTheIndex`, `LinksLeadToTheirChunks` and `TheIndexAnswers`. About
  RrfFusion alone are `WindowSuffices`, by counting what a window misses, and
  `FusedIsSorted`, what the recursion of the fusion yields: scores are compared
  as fractions, which is transitive because their denominators are positive.
* **ModelCallsProofs**, for any callers, backends and limits. `TypeCorrect`, so
  no layer passes its retry limit; `LoneCallsSurvive` through `SurvivalInv`: as
  long as nobody else takes a turn, the router's turn is never further from a
  backend that is up than the client has requests left.

The type invariants, `SlotCoversWorkWithoutRrf`, `WakeUpsReach`,
`DamagedRowsNotServed`, `SwitchedOnAgain`, `NoPartialResult` and
`TemporaryFilesGo` are proved for every instance and are not run again on the
small ones.

`FusedIsSorted` and `SumIs` are about recursions over data, for which the
library's induction theorems, taking an operator as parameter, cannot be used.
Both recursions go down by strict inclusion of finite sets, which is well
founded: a function that solves the recursion is given outright, and another
one would differ from it on a smallest set (`WFMin`).

Model-checked only: all liveness, since fairness and ENABLED are out of the
prover's reach: `EveryRequestAnswered`, `SlotsComeBack`, `Terminates`,
`EveryCallEnds`, `OperationsEnd`, `RunEnds`, `RerunsFill`, `SignalEnds`,
`RequestsEnd`, `CallsEnd`, `RecordsCome`. The three disagreements with the
documentation are found by TLC; theorems give conditions under which the
documentation is right (`SlotCoversWorkWithoutRrf`, `SequentialCacheTruthful`,
`SequentialHealthyStays`).

## Not modelled

* *Composition of tool client and tool server.* The client's read timeout and
  the server's endpoint deadline have the same value and start seconds apart.
  Which comes first is a matter of time, which no module has; in each of the two
  modules deadlines and give-ups may come at any moment, so that both orders are
  covered separately.
* *Next and related pages* of a search answer and `/get`: they render more of
  what `open` looks up and pass the same limiter.
* *The client cache of the LLM client factory*: one look and one store under one
  lock.
* *Embedding detection*: a sequence of network probes at start-up.
* *Patches of sglang*: they change a library that is not in the repository.
* *Report script, start scripts, settings, logging, text cleaning*: read files
  and print, loop over datasets, constants.
* *String conversions*: escaping of titles in URLs, markdown, snippets, answer
  normalisation and token overlap, id rewriting; the two sides of a link are
  modelled by what they stand for.
* *Queries the title index rejects*: `parse_query` raises on some identifiers
  with quotes, which the server answers with 400; looking up a document
  (`DocGet`) cannot fail in the model.
* *Index and vector arithmetic* of tantivy and FAISS: rankings are inputs.
* *The name matching of tmux*: names are atoms; that `-t` may match a longer
  name is listed as a hazard.
