# RAG-NVMe in TLA+

A formal model of RAG-NVMe: a local retrieval-augmented-generation system in
Python that collects texts, indexes them in LanceDB tables, compiles those into
an append-only block file on NVMe, and answers questions through a chat window
or an HTTP server. The modules follow the code where it changes state;
`PROJECT.json` ties each definition to its lines.

To check it:

    tlc -workers 2 -config nvme_store.cfg MCNVMeReaders     # any run of section 3
    tlapm NVMeBlockStoreProofs.tla                          # any *Proofs module

## 1. Inventory

`Documentation/`, `tools/`, `drivers/` and `demo_index/` are a Linux
documentation corpus and sample data; the program is `*.py`, `rag_core/` and
`scripts/`. It has no tests.

| component (source) | state | operations | what makes it hard | correct when |
|---|---|---|---|---|
| NVMe block store (`rag_core/nvme_blocks.py`) | the file, three in-memory indexes, a lock per object, a mapping of the file | `__init__`/`_rebuild_index`, `store`, `read` and the searches built on it, `close` | append in two calls (`tell`, `write`) under a lock per process, torn appends, reader threads sharing the mapping | an offset returned by `store` names that block for ever unless another process overtakes the append; a reopen finds the block again; a read returns that block |
| machine core (`rag_core/machine_core.py`) | a read-only store opened on demand | queries by year, term, key | the object serves every thread of the server | one object, no wrong block |
| knowledge compiler (`rag_core/knowledge_compiler.py`, NVMe page of `gui_collector.py`) | progress file, article buffer, stop event, worker thread | start, stop, scan, flush, compile an article, save, clean up | resume after a crash, a stop at any line, errors swallowed, the source table is deleted at the end | nothing is marked done that is not stored; a row of a deleted table was compiled or is one of the losses that are named |
| query cache (`rag_core/query_cache.py`) | LRU dictionary, matrix of vectors, dirty flag | `get`, `put`, `invalidate` | two structures that must agree, expiry inside `get`, entries stamped before the lock | an answer is alive and the best one; a miss is real |
| embedding batcher (`rag_core/batch_inference.py`) | queue, timer, batch threads, futures | `submit`, `submit_batch`, timer callback, batch thread, `stop` | timers cancelled too late, rests left behind, a batch failing half-way | every future gets one outcome, for certain until `stop` |
| live fetch (`rag_core/live_fetch.py`) | queued terms, `_bg_running` | `fetch_and_index`, `enqueue_related`, background worker | the worker ends while a caller enqueues | at most one worker, no term forgotten |
| retrieval and answer flow (`rag_core/retrieval.py`, `assistant.py`) | table handle, search cache | `search`, `answer_text` | three searches through a cache that the first one fills | cached hits belong to their query |
| HTTP servers (`rag_server.py`, `rag_server_async.py`) | admission counter, rate windows, answer cache | `/chat`, `/chat/stream`, `/search`, `/health`, … | dictionaries shared by event loop and eight threads, failures after the response started | places come back, the limits hold, every request ends |
| chat window (`gui_chat.py`) | busy and cancel flags, assistant, callbacks | send, stop, choose a table | stop resets its own flag, late callbacks, loads that overtake each other | the window becomes free; an answer comes from the chosen table |
| collector pipeline (`gui_collector.py`, `rag_core/indexing.py`, `scripts/`) | running flag, callbacks, child processes, memory of what was processed, tables | phases, build, clean-up | a phase that ends the whole, a fresh build after others filled the table, closing, crashes | what is remembered was indexed; buttons tell what runs |
| sources (`gui_collector.py`, `rag_core/bulk_*.py`) | files on disk, progress file | clone, export, fetch pages and articles | a death between a file, its progress and the save of it | what counts as fetched is whole |
| task pool, memory wait (`rag_core/gui_task_pool.py`, `gui_resources.py`) | queue, worker threads | start, submit, wait | a wait without its timeout | the wait ends |
| custom collector (`gui_custom_collector.py`) | documents, table, block store | upload, download, training, compilation, cleanup, export | documents and table are deleted at the end of a chain that can break anywhere | documents are deleted only when they are stored |
| mesh (`rag_core/distributed.py`) | peer table | beacons, expiry, distributed search | lost, repeated and reordered datagrams, silent peers | silent peers are forgotten; a search returns the nearest of what was found |
| updater (`update_client.py`, `update_server.py`, `build_release.sh`) | installed files, backup | check, download, apply, restore | failure and death at any file | one version, or its backup |
| LLM queue, tenants, Bloom index | | | nobody calls them | |

The others (embeddings, metrics, Ollama client, quality filters, statistics,
themes, one-shot scripts, packaging) keep no shared state or are I/O only;
`PROJECT.json` lists them with the reason they stay out.

How the parts touch: sources and pipeline write LanceDB tables; the compiler
reads them, writes the block store through `store()` and deletes them; the
servers and the machine core open the block store read-only; retrieval asks the
query cache, then the table; embeddings go through the batcher; the answer flow
calls retrieval, live fetch, the mesh and the LLM, and the servers and the chat
window call the answer flow. Everything runs in CPython threads, so what holds no
lock may interleave at any statement; only system calls and lock-held regions
are atomic, and what runs on an event loop or in GTK's main loop is atomic
against the other handlers of that loop.

## 2. Modules

    BlockFile (extended by the next three)
    NVMeBlockStore                                       NVMeBlockStoreProofs
    NVMeReaders (extends it)     <- MCNVMeReaders        NVMeBlockStoreProofs
    KnowledgeMigration           <- MCKnowledgeMigration NVMeBlockStoreProofs
    QueryCache                   <- MCQueryCache         CacheAndBatcherProofs
    EmbeddingService (abstract)
    EmbeddingBatcher             <- MCEmbeddingBatcher   CacheAndBatcherProofs
       implements EmbeddingService
    LiveFetch                                            AnswerFlowProofs
    AnswerFlow                   <- MCAnswerFlow         AnswerFlowProofs
       composes QueryCache and LiveFetch
    ChatServer                   <- MCChatServer         ChatServerProofs
    ChatWindow                   <- MCChatWindow         ClientProofs
    Updater                      <- MCUpdater            ClientProofs
    CollectorPipeline            <- MCCollectorPipeline  CollectorPipelineProofs
    SourceCollection             <- MCSourceCollection   NetworkProofs
    CustomCollector              <- MCCustomCollector    CustomCollectorProofs
    Mesh                         <- MCMesh               NetworkProofs

`MC*` modules hold the instances for TLC. A definition whose name has a suffix
(`StoreLock_NoLock`) is a variant of the definition before the underscore with a
plausible mistake in it; the specification does not use it. It is kept to show
which property would notice that mistake: `PROJECT.json` pairs them. `TypeOK` in a
module is its type invariant; it holds in the instances below and, where a proof
needs it, is a theorem. Modules that are proved about together carry names of their own
(`SpecMigration`, `NextSources`, `BatcherTypeOK`, …), so that one module can extend them.

### BlockFile, NVMeBlockStore and NVMeReaders

`BlockFile` is the format: a file is a sequence of segments, a block is always exactly
64 KB, and three segments (header, payload, padding) are what tears and scans
tell apart. `Rebuild` is what a scan lists, `Readable` what `read()` returns, `Tears` the
torn blocks.

*State.* `file` is the file. `index`, `lock` and `opened` are per process, `pc`, `arg` and
`offset` are the thread's place and locals inside `store()`. `NVMeReaders` adds
the store object a server shares among its threads: its index `seen`, the
mapping `map` with the length recorded for it, and where each reader stands in `read()`.

*Actions.* `Open` (constructor with `_rebuild_index`), then `store()` in the
steps another thread or process can come between: `StoreBegin` (the duplicate
check, outside the lock), `StoreLock` (lock, `open("ab")`, `tell`), `StoreWrite`
(the append goes to the end, wherever that is), `StoreFails` (an `OSError`, with
a prefix of the block on disk), `StoreIndex` (index update, unlock, return).
`Exit` is `close()` and the death of a process, which may tear an append. A read
compares the sizes, closes, drops and replaces the mapping in the seven steps of
`_open_mmap` and `_close_mmap`, then reads header and payload through whatever
mapping is there. A mapping that another thread has closed makes it return None.

`overtaken` is history: the appends between whose `tell` and `write` another process has
appended. Their offsets name a foreign block until the next open, and the properties make an
exception of them and of nothing else.

*Abstractions.* Payload bytes, compression, checksums and times are left out; an
append torn inside a segment counts as torn at the boundary before it, one torn inside the
header at the one after it.

### KnowledgeMigration

*State.* The table (row numbers `lo+1 .. hi`; a row has a source, a length and what
it `says`), the file of the store (`BlockFile`) and the keys its object has `listed` since the
worker opened it, the progress file, the stop event,
and the worker thread's position and locals. `store()` is one step here: the worker does not
use the offset, which is all that the steps of `NVMeBlockStore` are about.

*Actions.* One per place the worker can be interrupted: start (open, load, save,
scanner), a batch of the scanner loop or of the fallback loop, the end of the
loop, the flush source by source and `store()` call by call, the save after a
flush, the meta block, the final status, the report, the clean-up. Next to it
the user's clicks, the collector that indexes another row, another process that appends to
the file, and a crash. Every exception the code handles or lets through is an alternative of
its action, enabled by `Faults` and at most `MaxFaults` in number; a `store()` that raises,
and a death in it, leave a torn block, behind which the next open finds nothing.

`calls` holds the `store()` calls that `compile_article_to_blocks` has still to make, each
with the place of its match in the text; `Foremost` is the next one. `owed` is history: the
keys of the facts and events in the text each source was last marked done with. `unread`,
`short` and `others` are history too: rows whose batch could not be read, sources a flush
found too short, keys that other processes stored.

*Abstractions.* What a pattern finds in a row is a match: its pattern, its key, whether
the filters let it pass and how its description begins; `ExtractFacts` and
`ExtractEvents` do the rest as the code does (the order of patterns and places, limits, the
first one of those with equal beginnings). The
50 characters an article must have are `MIN_LENGTH` units of row length; an article
of more than `MaxBlockRows` rows stands for one beyond the payload limit, which
`store()` cuts, or refuses if it is too big even then. A `--fresh` index build that
replaces the table under the scan is `ScannerRaises`.

### QueryCache

*State.* `l1` is the dictionary, `before` its order as a relation on keys,
`entries` the rows of the matrix, `dirty` its flag, `pending` an entry that a
`put()` has stamped but not stored.

*Actions.* `GetHit`, `GetMiss`, `Invalidate` hold the lock throughout. `PutStamp`
and `PutStore` are the two halves of `put()`: the entry takes its time stamp
before the lock, so puts can arrive late and in another order. `Tick` is the
clock. Every caller passes a vector to `get()`, so its branch without one is not
modelled. Nobody calls `invalidate()`; it is part of the interface and modelled.

### EmbeddingBatcher and EmbeddingService

`EmbeddingService` is the promise: a future gets an outcome once, and for certain
unless the batcher is stopped. `EmbeddingBatcher` is the code: a queue, a
`threading.Timer` (waiting, fired, cancelled), `late` callbacks of timers that
had fired when they were cancelled, and one thread per batch. The adaptive
length of the window is left out (a timer may fire at any time), and so are
statistics and the timeout of a caller that waits in `embed_sync`, which changes
no state of the batcher. Nobody calls `submit_batch()` and `stop()`; they are
part of the interface and modelled.

### LiveFetch and AnswerFlow

`LiveFetch` is the background queue: `queue`, `running` (`_bg_running`), the
worker threads at the head of their loop (`loops`) or fetching a term, and the
place of each caller between queueing, deciding and `Thread.start()`, which are
separate steps because the lock is not held between them. `Thread.start()` is
assumed to succeed; if it raised, `_bg_running` would stay set.

`AnswerFlow` is `answer_text`: three rounds of `search()` (first, after a live fetch,
for the context), each through an instance of `QueryCache`, the judgement of the
hits, the live fetch with its outcomes (articles, nothing, exception), and
the queue of `LiveFetch`. What a live fetch finds follows `_wiki_search`: the
words of the question as a title, then their suggestions, in the German and then the
English Wikipedia, as constants `Pages` and `Suggested`. `table` is the set
of articles in the table. The table library does not promise when a handle sees what another one
added: `foreign` holds those articles, and a lookup sees any part of them. With
a mesh node (`Meshed`; the servers always have one, the chat window never) every
hit looks poor, and the hits make the context without a third search.

### ChatServer

*State.* `server` says which of the two programs runs. For each request: where its
handler stands, the question it has read, the job it waits for and what came back; then
`_active_requests`, the queue and threads of the pool, the chat cache, the rate lists
and the clock. `accepted` and `answer` are history; a rate list is the set of those indices
of `accepted` that `_check_rate` has not dropped.

*Actions.* On the event loop a stretch between two awaits is an action (`Admit`,
`ReadChat`, `ResumeStream`, `Finally`, …); `ChatHit`, `ChatMiss`, `ChatAnswers`,
`ChatFails` are `_sync_chat` in a thread. A handler can raise wherever sending or
receiving may. `rag_server.py` serves one request after the other: its actions
(`SyncServe`, `SyncRefused`, `SyncChat`) do what its handler does at once.
A question is known by what `_is_safe_query` asks of it, and by the questions the cache takes
for similar to it (`Alike`, a cosine of 0.94 or more): `CacheFinds` is the entry of the question
itself or else one of a similar question.

### ChatWindow

*State.* `queue` is GTK's queue of callbacks; `busy` and `_cancel_requested`;
the `assistant` the window has; for each question and each load of a table where
its thread stands. A click is an action; `StopBegin` and `StopEnd` are two, since
the worker threads can look at the flag between the two assignments of `_on_stop`.

*Abstractions.* An assistant is the table it opened. `Connect` follows
`KnowledgeRetriever._connect`: the preferred table, else the next of the list, else a
table that could not be opened and was created anew, empty (`NoData`).

### CollectorPipeline

*State.* The window (`running`, `paused`, `success` for `pipeline_success`, the
sensitive buttons, and `idle`, the callbacks given to `GLib.idle_add` in their order),
the `memory` of processed dumps and sites and the state file `saved` that the next
start reads, what lies on disk of each source (`file`; `fetched` for folders that
keep a collector from collecting again), the sources whose rows are in `it_prime`
(`table`), and of each pipeline thread its place, what its loop has still to visit and
the source it works on. `dropped`, `built` and `starts` are history.

*Actions.* The GTK thread: the build, pause and resume clicks, a key stroke in the
API key's field (it saves the state), the callbacks `_set_busy_ui` and `_finish_work`,
`on_window_delete` before and after its `join`. A pipeline thread: the loops of
phases 1-2 and 4-6 (`CollectDocs`; SourceCollection has their inside),
`_process_one_se_site` from the skip to the memory, `download_dumps` from the list of
pending dumps to `_finish_work`, the two scripts of phase 8, the build with `--fresh`
document by document. A child process is one step with its possible ends: it succeeds,
fails, or is terminated. `Crash` and `Restart` end the process anywhere, with a torn
state file or without. A click can start a second thread while the first still runs,
because `_finish_work` of phase 7 enables the button; the model lets it.

*Abstractions.* A source is one piece: a folder of documents, a site, a dump; a
batch of the index build is one of them, and a batch in which a file has no row of
its own may still delete it. What a failing child leaves in the table of a source is
not counted as indexed.

### SourceCollection

*State.* `memory` and `saved`: the progress data of `CollectorState` and its file. On
disk: folders of documents and books (with the marker that makes the code skip them),
manual pages, articles and pages of answers, absent, begun, whole, or mixed when two
threads wrote one at a time. The flag and the callbacks that set it. Of every pipeline thread: its
place, what it has in hand, and its tasks in the pool. History: whether a thread that runs has
met another one (`overlap`), the articles and pages that are `excused` and `skipped`.

*Actions.* A thread's steps between two system calls: write, count, save; the links of an
article come by a request of their own, which may raise, and join the queue one by one
(`AddLink`), so a save or a death finds any part of them there. A page without items is
counted when there are more (`EmptyPage`), a failed write leaves a torn file (`PageFails`,
`ArticleFails`). `Collect` is a click while the flag is down: after phase 7's `_finish_work`, or
after the end of another thread, that may be while one still runs, and both
share memory, files and pool. `SaveFromWindow` is the save of the GTK thread at any
moment, `Die` the death of the process at any moment with or without a torn file, `Start` the
next start. A pool worker takes a task when the flag is up, waits for memory
(`MemoryWaited`) and begins it even if the flag has fallen meanwhile, when the task does
not look.

### CustomCollector

*State.* The folder of documents, the table, tables saved elsewhere, the store; the
buttons and the callbacks that free them; the worker threads. The seven ways in which
the code loses a document without any error are named in the module ("Loss 1" to
"Loss 7") and gathered in `excused`, so the property is about every other way.

### Mesh

*State.* `peers` as one node sees it, the clock, the next round of the cleanup,
and the search under way: the peers to ask, the one that is being asked, the hits.
The others are not modelled as processes: any beacon a monitor's readings allow (`Beacons`)
comes in at any time. `Idle` is the monitor's rule, with the processes of games
and of heavy work. A hit is a distance and the key by which hits are compared, the source and
the first 120 characters. What a node's retriever returns is any of a set of lists of hits,
in any order and of any length (`Finds`), because it ranks by distance and source together,
filters, and answers from its cache; a node without an index has no lists. `RequestTimeout`
stands for all the time a request may take: the 15 seconds of the code hold for the
connection and for each read.

### Updater

*State.* The installed items, the backup, each a version, absent or torn; the ZIP
and checksum on the publisher's side; where the client is. An action per item
saved, removed or copied; any of them can raise (`SaveFails`, `ExtractFails`,
`ReplaceFails`, with the restoration `Restored` and its own failures) or be the last one (`Die`).

## 3. Runs

Twelve runs, all of which TLC finishes without an error.

| run | instance | shows |
|---|---|---|
| `nvme_store` | two writing processes, one with two threads, two readers, two keys, four segments, tears of 0-1 segments, restarts anywhere; while a reader is at work one thread of one process writes | `IndexPointsAtHeader`: offsets name blocks, but for overtaken appends; `AckedSurvivesRestart`: every acknowledged block is in the file, and a reopen finds it if it is before the first tear; `LoneReadsSucceed`: whatever mapping races have left behind, a read alone finds its block; `ReadsAreTheirBlocks`: no race makes a read return another block |
| `migration` | three rows of two articles with a fact and an event, batches of two, every kind of fault and two of them in a run, torn blocks, one append of another process, two starts | `OneBlockPerKey`: before the first tear nothing is stored twice; `DoneIsInStore`; `DeletedRowsAccounted`: the rows of a deleted table are stored, or lost in a way that is named; `WorkerEnds` |
| `query_cache` | three queries, two entries, a clock of 0-2, two putting threads | `CleanMatrix`: matrix and dictionary agree; `AnswersAreBest`; `MissesAreReal` |
| `batcher` | five requests, two lists, batches of two | `TimerWhenQueued`; `ServiceSpec`: it implements `EmbeddingService` with its liveness |
| `answer_flow` | two threads, two similar questions, two terms, two Wikipedias, no mesh, a clock of 0-1 | `OneWorker`, `QueueAttended`, `CachedForItsQuery` |
| `collector` | two threads, one site, one dump to download, one of the user's, late documents, all faults, two starts | `ProcessedWasIngested`, `LocalDumpsKept`, `OneCompilationPerBuild`, `ButtonTellsRunning` |
| `chat_server` | three requests, one address, two places, two threads, two accepted per window of two seconds, six questions, three of them safe, of which the second is similar to both others | `PlacesGivenBack`, `RateKept`, `AnswersTellTheirOrigin`: an answer was computed for the client's question or one similar to it, and one that says it is not cached for its own request; `EveryRequestEnds` |
| `chat_window` | three questions, two loads, one stop, two tables, one token | `WorkersCounted`: a stop is worth one worker too many, no more; `TextInItsTurn`; `AnsweredFromItsTable`; `BecomesFree` |
| `updater` | three items, three releases | `OneVersion`, `NothingLost` |
| `mesh` | two peers, seven kinds of machine, four keys, up to two lists of hits each, clock of 0-5, time-outs of 2 and 1 | `NearestOfTheSent`, `AskedWereHeard`, `GoneAreForgotten`, `SearchReturns` |
| `sources` | two threads, two clicks, two starts, one cloned source, one folder of books and one pool worker, one manual page, two topics that link to each other, two pages of answers | `PagesBelowProgress`, `DoneHaveArticles`: both but for what was empty, could not be had or written, or was opened while two pipelines ran; `CollectionEnds` |
| `custom` | three documents, two with one name, one in a folder, two threads, two starts | `NothingElseLost`, `OneWorkerAtATime`, `BecomesFree` |

*Bounds.* `MaxSegments = 4` lets an append start after a whole block or a
tear, so a reader meets whole, torn and shifted blocks and a file that grows while it
maps it; two readers are what it takes for a closed mapping. The constraint
`WritersThenReaders` lets the two processes do anything before a server opens the file; a
read sees of the writers only that the file has grown, which one thread can do. `MaxStarts = 2` gives a run,
its interruption and a resumption; a third start adds no situation the second does not
have, because what a start reads (tables, store, state file) is whatever the first left.
The three rows of `migration` make a batch border split an article, whose
rest is too short for an article of its own, and the last row is indexed while the scan runs;
the articles share a fact, and one says an event twice. Two faults are what it takes for a
block torn in one run and a death or a lost progress file in the next; another process
stores the key of an article before, between or after them. `MaxEntries = 2` of three queries forces evictions, `TTL = 1` with `MaxTime = 2`
lets an entry expire before it is stored. Five requests with a list of three leave a
rest behind after a flush, with room for a late callback. Two callers and two terms, one
of which a question shares, are what it takes for a race on `_bg_running` and for a term
that is queued again while it is fetched; `TTL = 0` lets an entry expire between
two searches of one answer. In `collector` two threads are the two clicks that
give two pipelines at once, and one source of each kind meets every branch; phases 1-2
need no document, because their loop is that of phases 4-6, which differ only in that an
exception ends the thread. In `chat_server` the third request meets two places, two
threads and a rate of two all taken; a question that is one character too long, one with
one special character too many, and two at the borders go through the check; the first
request asks the first question, the second that or the next, the third any of them
(`AskedInOrder`), so an answer could drift over two similarities. Three
questions of `chat_window` let a stopped worker, its successor and the next overlap. Three
releases give an update from a mixture left by another, with a newer one published in between. In
`mesh` the clock passes two rounds of the cleanup and a search that waits for
two peers; their lists share keys, with other distances, and none is sorted. Two topics
that link to each other fill and overflow a queue of one and come back when they are done or
in hand. Two clicks let a second pipeline begin in the last phase of the first, overtake it,
and be overtaken by a third place of the progress, in the memory or in the file.

*Deadlock* is not checked where the environment may do nothing more
(`migration`, `batcher`, `chat_server`, `chat_window`, `updater`, `mesh`, `sources`,
`custom`: no starts, requests, clicks or releases left). In the others it is.

*Fairness.* Clicks, requests of clients, beacons, faults and deaths are never fair. What is:

- `KnowledgeMigration`: the worker thread. It waits for disk calls only.
- `EmbeddingBatcher`: a waiting timer fires, its callback gets the lock, a batch thread
  runs to its end. The model call in a batch is assumed to return or raise.
- `ChatServer`: each handler on the loop, each job in a thread, the start of queued jobs.
  It assumes that jobs return or raise and that clients send the body they announced, or
  close; a job whose model never answers holds its thread for ever in the code too.
- `ChatWindow`: GTK's main loop, loads and workers. The model is assumed to answer or fail.
- `Mesh`: the thread that searches; that a request ends after its time-out is
  part of `Tick`, which cannot pass it.
- `SourceCollection`: the pipeline threads and the tasks of the pool, whose children end.
  A page that fails for ever is repeated for ever by the code (section 4); the run
  assumes that a request is answered in the end.
- `CustomCollector`: worker threads, the export, GTK's callbacks.

That a pipeline thread of `CollectorPipeline` ends is not checked: a paused one
ends only when somebody resumes it. Its loops are those of `SourceCollection`.

## 4. Where code and promise differ

Met while modelling. The properties of section 3 are stated so that these
do not contradict them (a named loss, a stop that was paid for); nothing is hidden by them.

*Block store and compiler.*

- Both collectors open `NVME_KNOWLEDGE_PATH` for writing under different PID files, and
  the lock in `store()` is per object: with two processes the file can grow between
  `f.tell()` and `f.write()` (`nvme_blocks.py:315`), and the indexed offset names another
  process's block until the next open (`overtaken`).
- A torn append shifts every later block off the 64 KB grid (`nvme_blocks.py:316`, `144`): the
  next open lists none of them, so a migration stores them again, and a torn block whose
  header is on the grid passes for a stored one for ever (`TornListed`).
- `flush_buffer` marks an article done at its first flush (`knowledge_compiler.py:344`):
  rows after a batch border are dropped, then the table is deleted. Rows indexed during
  the scan are deleted as well.
- A crash between an article and its facts is repaired by the next migration only from the rows
  of its own first flush; if its batches are cut elsewhere, facts and events of other rows are lost
  while the article counts as a duplicate. Events are told apart by their first
  40 characters, so of equal sentences about two years one remains.
- The fallback loop reads the first batch over and over, or nothing at all when it resumes
  (`knowledge_compiler.py:419-459`), and the table is deleted all the same: the last disjunct
  of `Accounted`. So are rows whose batch could not be read, and articles too short in a flush.
- In the fallback loop a stop calls the logger like a function and ends the worker with an
  exception (`knowledge_compiler.py:421`).

*Answers.*

- The search after a live fetch is answered from the cache entry the first search has just
  made, until it expires after five minutes; the status line says "Suche aktualisiert"
  (`assistant.py:133`).
- `_micro_index` adds articles without a look at the table, although its docstring
  lists a "Duplikat-Check gegen bestehenden Index"; with a mesh node every question
  fetches, because `distributed_search` names the distance differently. One page found under two
  titles is stored twice.
- The repair round of `answer_text` streams too: the rejected answer and the second one both
  reach the user, the second alone is returned.
- A reader that cannot open a table drops it and creates it empty (`retrieval.py:60-81`).
- A question whose vector is within 0.94 of another one's gets that one's answer, for ten minutes
  (`query_cache.py:106`, `rag_server_async.py:330`); `/chat/stream` does not even say that it is
  a cached one.
- `/chat/stream` sends one event, when the answer is complete.
- `main()` of the asynchronous server gives uvicorn the module's name, so the module that
  serves is a second copy of the one that was preloaded.

*Chat window.* `_on_stop` raises the flag and lowers it in the same callback
(`gui_chat.py:376`), so a worker rarely sees it and goes on next to the next one. The combo
shows the first table in the alphabet, while the first load uses the one of the settings.

*Pipeline and sources.*

- `download_dumps`, as phase 7, ends with `_finish_work`: when GTK runs that before the
  thread looks at the flag, phase 8 is skipped (`gui_collector.py:1131`).
- `_process_one_se_site` ignores the exit code of the ingest (`gui_collector.py:1158`), and a
  Stack Exchange archive that cannot be extracted is deleted (`1316`); `--fresh` drops the
  rows that earlier phases ingested and whose files are gone.
- `on_window_delete` calls `_task_pool.stop()`, which does not exist; `wait()` ignores its
  time-out, and `rsync` is started after the wait for memory even if the flag has fallen.
- That early `_finish_work` frees the button while phase 8 runs. A second pipeline opens
  with "w" the page it finds in the progress, and the first one may be counting it; their
  progress, their files and the flag are mixed, and a `pop(0)` may meet a queue the other has
  emptied (`gui_collector.py:1817`), which ends the thread. `overlap` marks these cases.
- An answer without items but with `has_more` is counted without a file (`1926`), and a topic
  whose file could not be written is done all the same (`1852`).
- Stop in the middle of a manual section leaves it marked as done; a half-made sparse clone
  is taken for a whole one; the topic in hand is lost when the window saves meanwhile;
  a torn state file resets all progress; a changed data directory keeps it; a network
  error repeats a page for ever.

*Custom collector.* The tooltip (`gui_custom_collector.py:152`) promises that what was
trained is safe before documents are deleted; the seven losses in the module say when it is not:
two documents with one name, one that arrives while a training runs, a file without usable
text, an exception counted and passed over, an export without what was not trained.

*Mesh.* `distributed_search` sorts what the nodes send by distance alone, while each of them
ranked it by distance and source (`quality.py:152`): one index with the documents of all would
return others, and in another order. A process named `Xwayland` is in the list of names that mean a game, but names are
compared in lower case (`distributed.py:226`, `39`), so it never counts.

*Updater.* An exception before the backup is complete restores what there is of it and prints
"✅ Backup wiederhergestellt" (`update_client.py:157`); the run after a death in the middle
deletes the only good backup first; the server takes the newest ZIP in the order of letters;
`rag_server_async.py` is neither shipped nor backed up. `OneVersion` and `NothingLost` say
what remains true: `died` and `spoiled` mark these cases.

## 5. Proofs

The proofs hold for all values of the constants that satisfy the `ASSUME` of each
module (sets of keys, threads, queries, nodes and documents of any size, any limits). TLC
checked the same invariants, and the strengthenings, before they were proved. Every safety
invariant that a run checks is a theorem. What follows is why each invariant holds, and what
has to be added to it before its proof goes through.

### NVMeBlockStoreProofs

*The store*, for any number of writing processes. The inductive invariant is
`TypeOK`, `LockInv` (a thread between `tell` and the index update holds its
process's lock), `OffsetInv` (such a thread's `offset` is the end of the file
before its write, and its own whole block after it, unless it is `overtaken`),
`IndexPointsAtHeader` and `AckedWhole` (what was acknowledged has a whole block, which is
stronger than readable and survives appends). `AckedSurvives` needs a second invariant, `Aligned`: up
to the first torn block every header is on a block boundary, which is what the scan of a
reopen visits.

*The readers*, for any number of writing processes. `RInv`: the shared index points at
headers (`Points` is stable, because the file only grows); a length of the file that was
taken when the index existed `Serves` it, and every open mapping and every length a thread
works with is one (`MapServes`). So whatever mapping another thread has put there, a read
finds its own block through it, or none. `LoneIsServed` adds that a reader nobody overlaps
has an open mapping when it reads: a mapping is `Closed` only while the thread that closed
it has not yet forgotten it. `ReadersOnlyRead` is the refinement of the store by the store
with its readers.

*The migration*. `MigrationInv` joins three parts. `StoreInv` is about the file: what the worker
has `listed` is `Taken` (stored, or a torn block of it is listed), and a whole block without a
tear before it is on the grid (`Aligned`), so that the worker's open has listed it, and the
only one of its key; an append, whole or torn, keeps that because it goes behind everything
else. `DoneInv`: while an article is compiled, every key of it is listed or among the calls to
come (`Compiling`), and for the sources of progress file and memory what their text owed is
`Taken` (`Done`, twice, because a
save that fails leaves the older file). That a refused duplicate counts as stored is what
repairs a crash. `ScanInv` is about the rows: whatever the loop has `Covered` is in the buffer,
done, short or unread (`Got`), a flush has finished with each row of the buffer or still has
its source to visit (`Flushed`), and the last flush begins when the loop is at its end or a
stop is pending, which no click can take back while the worker lives.

### CacheAndBatcherProofs

*The cache*: the invariant joins types, the limit, `CleanMatrix`, a
ranking (`Ranks`: the order is a strict total order on the keys, so that there is
one first key to evict) and the agreement of the order with last use. That
answers are alive and best follows from `CleanMatrix`; a miss is real
because a finite set of living entries has a best one (`BestExists`).

*The batcher*: types, the length of the queue below the batch size
between calls, and `TimerWhenQueued`, which is inductive. `BatcherImplementsService` needs
`Held`: a request stands once in the queue or in one batch, and its future is open;
without it a batch thread could resolve a future twice. Every step of the batcher is then
one of `EmbeddingService` or changes no future. (The fair half of the refinement is TLC's.)

### AnswerFlowProofs

The invariant `WorkerPlace` says that `_bg_running` is true
exactly when there is one worker, and where it is (to be started, at the head of its
loop, fetching). The answer flow implements `LiveFetch`
(`FlowImplementsFetch`, a refinement by inclusion of the variables), so its two
theorems hold of it, with and without a mesh; and `CachedForItsQuery`, from an invariant
that follows the hits from the lookup through the stamped entry into the cache.

### ChatServerProofs

The counter of places is the cardinality of the requests in service, so each step needs what
happens to that set. `JobsAwaited`: who has a job, queued or running, waits for it, and none is
queued twice. `Origins` follows an answer from the computation into the dictionary, to other
requests and to the client: it was computed for the same question or one similar to it
(`Serves`) by a request that has been read, and is `flagged` as soon as it came from the cache. For the rate,
`DroppedAreOld`: whatever `_check_rate` has dropped is a window old already, so counting what
is kept counts every accepted request of the window.

### ClientProofs

*The chat window*: the thread of a question lives until the one `Done` it leaves has been
called (`DonesQueued`); unfinished questions are at most one for a busy window and one for each
Stop (`StopsCounted`); without a Stop there is one thread alive and its `Done` is queued
behind its texts (`OneAtATime`); a question sent at a calm time keeps loads away
(`StaysCalm`).

*The updater*: between two calls the installation is whole unless `died` or `spoiled`
(`WholeBetween`); the backup is made from a whole one (`BackupGrows`) and stays whole while
items are replaced or put back (`BackupWhole`), and both loops leave one version behind them
(`Replaced`, `PutBack`).

### CollectorPipelineProofs and CustomCollectorProofs

*The collector's pipeline*: the inductive invariant joins the types, the place of each
thread's work item (a thread past the ingest of a dump holds one that has been
indexed), the memory, the saved memory, and `LocalDumpsKept`. `IndexedGrows` carries it: a
fresh build moves rows from the table to the dropped ones, so "indexed once" is stable.
`ButtonsAgree` and `OneCompilation` are inductive by themselves.

*The custom collector*: `OneWorker` strengthens the property with the agreement of
buttons, pending callbacks and places; on it rests `NothingElseIsLost`, whose invariant
follows the folder through the chain: what the child has listed and not yet indexed is
in `rest`, what the compiler is given is in the table, and the cleanup begins when every
document is in the store, saved elsewhere, or excused. The attempt to prove it removed an
eighth excuse that could never occur.

### NetworkProofs

*The mesh*: `GoneNodesAreForgotten` from an invariant that ties the age of an entry to
the next round of the cleanup; `AskedPeersWereHeard` from one that bounds the length of a
search by the number of peers asked. `SearchReturnsNearest` rests on `MergedIsNearest`:
sorting is by a strict order, so the place of a position, one more than the number before
it, tells it from the others, and every place is taken, because an injection between finite
sets of one size is a surjection. Every key has a position where it comes first (the first
place among its own); what is cut off has a higher place than all that is returned.

*The collection*, for any number of pipelines at a time. `CollectionInv` adds to the two
properties what each thread has in hand: at each place of the walk (`TopicInHand`) an
article in hand is not done yet if there is one thread, and past the links it is whole or excused; the
page in hand (`PageInHand`, `FileInHand`) is that of the progress if there is one thread.
`Alone` says that a thread that has met no other is the only one. Progress can go
backwards when a slow thread counts its page after a faster one has counted more. What
makes the theorem true nevertheless is `Gap`: every page between two threads that are
apart, or between a thread, the memory and the file, has been opened while they overlapped. So a
lone thread that opens the page of the progress opens none that the file counts, unless it is
named.

### Only model-checked

What is out of the prover's reach: liveness (`WorkerEnds`, `EveryRequestEnds`, `BecomesFree`
of both windows, `SearchReturns`, `CollectionEnds`) and the fair half of the refinement of
`EmbeddingService`. Induction over data is out of reach as well, except where a least
counterexample can be named as a set (`Least`, `BestExists`, `LatestIsThere`): what a fold over
row lengths or a scan over blocks computes is bounded by the runs.

## 6. Plan

What is left, in this order:

1. `PrimeIndex`: the index build with its incremental mode, the user's projects and the
   deletion of sources, composed with `CollectorPipeline`.
2. The PID locks of both collectors, and `CustomCollector` and `KnowledgeMigration` as two
   processes on one `NVMeBlockStore`.
3. Proofs: the tasks of the pool against the flag.
4. The text files a live fetch leaves and the build that may index them.

## 7. Not modelled

- Without callers: `OllamaBatcher`, the limits of `tenants.py`, `bloom_index.py`,
  `remote_search` and `remote_embed`, the ingestion queue and `on_dump_clicked`
  of the collector, `collect_loop`, `collect_stackexchange_dumps`,
  `reconstruct_articles_from_batch`, `_EVENT_PATTERNS`, `_web_extract`. Deleted blocks: the
  flag exists, no code sets it.
- External: Ollama, Wikipedia, Stack Exchange, git, rsync, model inference, LanceDB beyond
  what its callers rely on.
- Ranking, prompts, attachments and modes of the chat window, compression and checksums,
  formats on disk, progress display, statistics and metrics.
- The PID locks; `--max-articles`; maintenance scripts; packaging beyond what the updater ships.
