------------------------- MODULE KnowledgeMigration -------------------------
(***************************************************************************)
(* rag_core/knowledge_compiler.py driven by the NVMe page of               *)
(* gui_collector.py: a worker thread scans a LanceDB table, groups its     *)
(* rows into articles, stores every article with its facts and events as   *)
(* blocks, keeps a progress file for resuming, and at the end deletes the  *)
(* table. The user starts and stops it, the process may die anywhere, the  *)
(* collector may go on indexing.                                           *)
(*                                                                         *)
(* The blocks go to the file BlockFile describes: every worker opens it    *)
(* anew and takes the keys its scan finds for stored, a store() that raises *)
(* or a death in it may leave a torn block, and other processes may append *)
(* to the file. store() is one step: the worker makes no use of the        *)
(* offset, which is all that NVMeBlockStore's steps of it are about.       *)
(***************************************************************************)
EXTENDS BlockFile, SequencesExt

CONSTANTS
    Sources,         \* the articles rows belong to
    DerivedKeys,     \* keys of fact and event blocks
    Rows,            \* every row the collector indexes, in order; row i has number i.
                     \* says: what the patterns for facts and events match in it
    InitialRows,     \* how many of them are in the table at first
    BatchSize,       \* batch_size
    MaxFacts,        \* facts taken from a text, 20
    MaxEvents,       \* events taken from a text, 30
    MaxBlockRows,    \* an article of more rows exceeds MAX_BLOCK_PAYLOAD
    Faults,          \* what can go wrong in an instance, among FaultKinds
    MaxStarts,       \* bound: how often the user starts the worker
    MaxFaults,       \* bound: how many of the faults
    OthersKeys,      \* keys that other processes store
    MaxOthers,       \* bound: how many appends of theirs
    Meta, NoSource

MIN_LENGTH == 2      \* stands for the 50 characters an article must have

FaultKinds == {"crash", "store", "batch", "save", "scanner"}

\* A match: the number of its pattern among those of its kind, whether its lengths, its
\* year and the look for a life span let it pass, and the first 40 characters of its
\* description.
Matches == [kind : {"fact", "event"}, pattern : Nat, key : DerivedKeys, passes : BOOLEAN,
            start : DerivedKeys]

ASSUME MigrationAssumption ==
    /\ Rows \in Seq([src : Sources, len : Nat, says : Seq(Matches)])
    /\ InitialRows \in 0 .. Len(Rows)
    /\ BatchSize \in Nat \ {0}
    /\ MaxFacts \in Nat /\ MaxEvents \in Nat
    /\ MaxBlockRows \in Nat
    /\ Faults \subseteq FaultKinds
    /\ MaxStarts \in Nat
    /\ MaxFaults \in Nat
    /\ Keys = Sources \cup DerivedKeys \cup {Meta}
    /\ OthersKeys \subseteq Keys
    /\ MaxOthers \in Nat
    /\ Meta \notin Sources \cup DerivedKeys
    /\ NoSource \notin Sources
    /\ Sources \cap DerivedKeys = {}

VARIABLES
    table,     \* the rows of the LanceDB table: numbers lo+1 .. hi
    store,     \* the segments of the NVMe store's file
    listed,    \* the keys in by_hash of the worker's NVMeBlockStore object
    saved,     \* the progress file
    stop,      \* _nvme_stop_event
    stage,     \* where the worker thread stands
    data,      \* state.data of the running migration
    scan,      \* what it scans: rows lo+1 .. hi, the snapshot of its start, of which the
               \* loop has come from `from' to `pos'
    scanner,   \* use_scanner
    buffer,    \* article_buffer: the numbers of the rows read for it, in order
    last,      \* the flush under way is the final one
    todo,      \* sources the flush under way has still to visit
    calls,     \* store() calls compile_article_to_blocks has still to make
    starts,    \* how often the worker was started
    faults,    \* how many faults there were
    failed,    \* history: sources one of whose store() calls raised or was too big
    owed,      \* history: keys of the facts and events in the text each source was last
               \* marked as done with
    others,    \* history: the keys other processes appended, in order
    unread,    \* history: rows of this worker's snapshot that its queries failed to deliver
    short      \* history: sources a flush of this worker skipped as too short

workerVars == <<data, scan, scanner, buffer, last, todo, calls, listed, unread, short>>
histories == <<failed, owed, others>>
bounds == <<starts, faults>>
migrationVars == <<table, store, saved, stop, stage, bounds, histories, workerVars>>

Fresh == [status |-> "idle", processed |-> {}, chunks |-> 0]
NoScan == [lo |-> 0, hi |-> 0, from |-> 0, pos |-> 0]

\* A fault of kind k; the step is otherwise without one.
Fault(k) == k \in Faults /\ faults < MaxFaults /\ faults' = faults + 1
NoFault == UNCHANGED faults

\* store() finds key k in by_hash.
Present(k) == k \in listed

\* Places in a sequence of row numbers: of the rows that are not blank (`text and
\* text.strip()`), of those of source s.
Filled(rows) == { n \in DOMAIN rows : Rows[rows[n]].len > 0 }
OfSource(s, rows) == { n \in Filled(rows) : Rows[rows[n]].src = s }

\* The text joined from these places has the length an article needs.
LongEnough(rows, places) ==
    MapThenSumSet(LAMBDA n : Rows[rows[n]].len, places) >= MIN_LENGTH

\* The matches in it, by number of the pattern, place and position there. The code
\* tries one pattern after the other, each on the whole text.
MatchAt(rows, p) == Rows[rows[p[2]]].says[p[3]]
Found(rows, places) ==
    UNION { { <<Rows[rows[n]].says[m].pattern, n, m>> : m \in DOMAIN Rows[rows[n]].says } :
            n \in places }
Earlier(p, q) ==
    \/ p[1] < q[1]
    \/ p[1] = q[1] /\ p[2] < q[2]
    \/ p[1] = q[1] /\ p[2] = q[2] /\ p[3] < q[3]

\* The matches of kind k that pass, and the n first among some of them.
Passing(k, rows, places) ==
    { p \in Found(rows, places) : MatchAt(rows, p).kind = k /\ MatchAt(rows, p).passes }
First(n, found) == { p \in found : Cardinality({ q \in found : Earlier(q, p) }) < n }

CallsFor(k, rows, found) == { [kind |-> k, key |-> MatchAt(rows, p).key, at |-> p] : p \in found }

ExtractFacts(rows, places) ==
    CallsFor("fact", rows, First(MaxFacts, Passing("fact", rows, places)))

\* Of events that start alike only the first is taken, whatever their years.
ExtractEvents(rows, places) ==
    LET events == Passing("event", rows, places)
    IN  CallsFor("event", rows, First(MaxEvents,
            { p \in events : \A q \in events :
                Earlier(q, p) => MatchAt(rows, q).start # MatchAt(rows, p).start }))

\* The store() calls for the article of s, and for the facts and events of its text.
Article(s) == [kind |-> "article", key |-> s, at |-> << >>]
Derived(s, rows) ==
    ExtractFacts(rows, OfSource(s, rows)) \cup ExtractEvents(rows, OfSource(s, rows))

\* The order in which they are made.
Before(c, d) ==
    \/ c.kind = "article" /\ d.kind # "article"
    \/ c.kind = "fact" /\ d.kind = "event"
    \/ c.kind = d.kind /\ Earlier(c.at, d.at)
Foremost(c) == c \in calls /\ \A d \in calls \ {c} : Before(c, d)

Numbers(from, to) == [i \in 1 .. to - from |-> from + i]

\* The keys of a dict filled in this order.
SourcesIn(rows) ==
    LET first(i) == i \in Filled(rows) /\
                    \A j \in Filled(rows) : j < i => Rows[rows[j]].src # Rows[rows[i]].src
    IN  [i \in 1 .. Len(rows) |-> IF first(i) THEN Rows[rows[i]].src ELSE NoSource]

-----------------------------------------------------------------------------

\* The worker thread ends, and its locals with it.
WorkerGone ==
    /\ stage' = "none"
    /\ data' = Fresh
    /\ scan' = NoScan
    /\ scanner' = TRUE
    /\ buffer' = << >>
    /\ last' = FALSE
    /\ todo' = << >>
    /\ calls' = {}
    /\ listed' = {}
    /\ unread' = {}
    /\ short' = {}

InitMigration ==
    /\ table = [lo |-> 0, hi |-> InitialRows]
    /\ store = << >>
    /\ saved = Fresh
    /\ stop = FALSE
    /\ stage = "none"
    /\ data = Fresh
    /\ scan = NoScan
    /\ scanner = TRUE
    /\ buffer = << >>
    /\ last = FALSE
    /\ todo = << >>
    /\ calls = {}
    /\ listed = {}
    /\ unread = {}
    /\ short = {}
    /\ starts = 0
    /\ faults = 0
    /\ failed = {}
    /\ owed = [s \in Sources |-> {}]
    /\ others = << >>

\* The collector adds a row to the table (a build may run next to the worker).
IndexRow ==
    /\ table.hi < Len(Rows)
    /\ table' = [table EXCEPT !.hi = @ + 1]
    /\ UNCHANGED <<store, saved, stop, stage, bounds, histories, workerVars>>

CompileClicked_ClearsFirst ==
    /\ starts < MaxStarts
    /\ stop' = FALSE
    /\ stage' = IF stage = "none" THEN "starting" ELSE stage
    /\ starts' = starts + 1
    /\ UNCHANGED <<table, store, saved, faults, histories, workerVars>>

\* on_nvme_compile_clicked: refused while the worker is alive.
CompileClicked ==
    /\ stage = "none"
    /\ starts < MaxStarts
    /\ stop' = FALSE
    /\ stage' = "starting"
    /\ starts' = starts + 1
    /\ UNCHANGED <<table, store, saved, faults, histories, workerVars>>

\* on_nvme_stop_clicked: the button is sensitive while the worker runs (a click
\* just after its end is undone by the next start).
StopClicked ==
    /\ stage # "none"
    /\ ~ stop
    /\ stop' = TRUE
    /\ UNCHANGED <<table, store, saved, stage, bounds, histories, workerVars>>

\* MigrationState.save: "w" truncates first, an OSError is only logged. A file
\* cut short is not JSON, and _load then starts from the defaults.
SaveOutcome(d) ==
    \/ saved' = d /\ NoFault
    \/ Fault("save") /\ saved' \in {saved, Fresh}

\* Open store and table, load the progress file, set status running, save and
\* open the scanner. A missing table is an error return.
StartMigration ==
    /\ stage = "starting"
    /\ IF table.lo = table.hi
       THEN WorkerGone /\ UNCHANGED <<saved, faults>>
       ELSE /\ data' = [saved EXCEPT !.status = "running"]
            /\ \/ SaveOutcome(data') /\ scanner' = TRUE
               \/ saved' = data' /\ Fault("scanner") /\ scanner' = FALSE
            /\ LET from == IF scanner' THEN table.lo ELSE table.lo + saved.chunks
               IN  scan' = [lo |-> table.lo, hi |-> table.hi, from |-> from, pos |-> from]
            /\ listed' = {e.key : e \in Rebuild(store)}
            /\ stage' = "scan"
            /\ UNCHANGED <<buffer, last, todo, calls, unread, short>>
    /\ UNCHANGED <<table, store, stop, starts, histories>>

\* A batch has been counted in and buffered: flush when the buffer is full.
AfterBatch(rows, n) ==
    /\ buffer' = buffer \o rows
    /\ data' = [data EXCEPT !.chunks = @ + n]
    /\ IF Cardinality(Filled(buffer')) >= BatchSize
       THEN stage' = "flush" /\ todo' = SourcesIn(buffer')
       ELSE UNCHANGED <<stage, todo>>

\* One round of the scanner loop. Batches end at fragment borders, so they may
\* be shorter than batch_size; an unreadable one is counted as an error and skipped.
ReadBatch ==
    /\ stage = "scan" /\ scanner /\ ~ stop
    /\ scan.pos < scan.hi
    /\ \E n \in 1 .. BatchSize :
        /\ scan.pos + n <= scan.hi
        /\ scan' = [scan EXCEPT !.pos = @ + n]
        /\ \/ AfterBatch(Numbers(scan.pos, scan.pos + n), n) /\ UNCHANGED <<unread, faults>>
           \/ /\ Fault("batch")
              /\ unread' = unread \cup (scan.pos + 1 .. scan.pos + n)
              /\ UNCHANGED <<buffer, data, stage, todo>>
    /\ UNCHANGED <<table, store, saved, stop, starts, histories,
                   scanner, last, calls, listed, short>>

\* How many rows the fallback query returns.
FirstBatch == IF scan.hi - scan.lo < BatchSize THEN scan.hi - scan.lo ELSE BatchSize

ReadFirstBatch_NoAdvance ==
    LET n == FirstBatch
    IN  /\ stage = "scan" /\ ~ scanner /\ ~ stop
        /\ scan.pos < scan.hi
        /\ AfterBatch(Numbers(scan.lo, scan.lo + n), 0)
        /\ UNCHANGED scan
        /\ UNCHANGED <<table, store, saved, stop, bounds, histories,
                       scanner, last, calls, listed, unread, short>>

\* One round of the fallback loop: search().limit(batch_size) has no offset and
\* reads the first rows of the table again.
ReadFirstBatch ==
    LET n == FirstBatch
    IN  /\ stage = "scan" /\ ~ scanner /\ ~ stop
        /\ scan.pos < scan.hi
        /\ AfterBatch(Numbers(scan.lo, scan.lo + n), n)
        /\ scan' = [scan EXCEPT !.pos = @ + BatchSize]
        /\ UNCHANGED <<table, store, saved, stop, bounds, histories,
                       scanner, last, calls, listed, unread, short>>

\* The loop ends: nothing left, stop seen by the scanner loop, or a fallback
\* query that failed. The final flush follows.
ScanEnds ==
    /\ stage = "scan"
    /\ \/ scan.pos >= scan.hi /\ UNCHANGED <<unread, faults>>
       \/ scanner /\ stop /\ UNCHANGED <<unread, faults>>
       \/ /\ ~ scanner /\ ~ stop /\ scan.pos < scan.hi /\ Fault("batch")
          /\ unread' = IF scan.pos = scan.from THEN scan.lo + 1 .. scan.hi ELSE unread
    /\ last' = TRUE
    /\ todo' = SourcesIn(buffer)
    /\ stage' = "flush"
    /\ UNCHANGED <<table, store, saved, stop, starts, histories,
                   data, scan, scanner, buffer, calls, listed, short>>

\* The fallback loop calls log(...), a Logger, when it sees stop: the TypeError
\* ends the worker with its state unsaved.
FallbackStopRaises ==
    /\ stage = "scan" /\ ~ scanner /\ stop
    /\ scan.pos < scan.hi
    /\ WorkerGone
    /\ UNCHANGED <<table, store, saved, stop, bounds, histories>>

\* scanner.to_batches() raises, for example because an index build replaced the
\* table under it: the exception ends the worker the same way.
ScannerRaises ==
    /\ Fault("scanner")
    /\ stage = "scan" /\ scanner
    /\ scan.pos < scan.hi
    /\ WorkerGone
    /\ UNCHANGED <<table, store, saved, stop, starts, histories>>

\* flush_buffer takes its next source: skipped when it is done or too short.
FlushSource ==
    /\ stage = "flush"
    /\ todo # << >>
    /\ LET s == Head(todo)
           skipped == s = NoSource \/ s \in data.processed
           tooShort == ~ skipped /\ ~ LongEnough(buffer, OfSource(s, buffer))
       IN  /\ short' = IF tooShort THEN short \cup {s} ELSE short
           /\ IF skipped \/ tooShort
              THEN todo' = Tail(todo) /\ UNCHANGED <<stage, calls>>
              ELSE /\ calls' = {Article(s)} \cup Derived(s, buffer)
                   /\ stage' = "compile"
                   /\ UNCHANGED todo
    /\ UNCHANGED <<table, store, saved, stop, bounds, histories,
                   data, scan, scanner, buffer, last, listed, unread>>

\* The block of a call is not too big: an article's holds the rows of its source.
Fits(c) == c.kind = "article" => Cardinality(OfSource(Head(todo), buffer)) <= MaxBlockRows

\* The calls left when c raised: an article gives up on everything, facts and events
\* each on the rest of their own loop.
AfterRaise(c) == IF c.kind = "article" THEN {} ELSE { d \in calls : d.kind # c.kind }

\* c stores its block.
Stores(c) ==
    /\ store' = store \o Block(c.key)
    /\ listed' = listed \cup {c.key}
    /\ calls' = calls \ {c}
    /\ UNCHANGED <<failed, faults>>

\* c is refused: the block is too big.
Misses(c) ==
    /\ calls' = calls \ {c}
    /\ failed' = failed \cup {Head(todo)}
    /\ UNCHANGED <<store, listed, faults>>

\* What an append of k that is not completed leaves on the file: by_hash is not updated.
Tear(k) == \E n \in TornSizes : store' = store \o SubSeq(Block(k), 1, n)

\* c raises, and what is left of the calls.
Raises(c) ==
    /\ Fault("store")
    /\ Tear(c.key)
    /\ calls' = AfterRaise(c)
    /\ failed' = failed \cup {Head(todo)}
    /\ UNCHANGED listed

StoreCall_StopsAtDuplicate ==
    /\ stage = "compile"
    /\ \E c \in calls : Foremost(c) /\
        \/ /\ Present(c.key)
           /\ calls' = IF c.kind = "article" THEN {} ELSE calls \ {c}
           /\ UNCHANGED <<store, listed, failed, faults>>
        \/ ~ Present(c.key) /\ Stores(c)
    /\ UNCHANGED <<table, saved, stop, stage, starts, owed, others,
                   data, scan, scanner, buffer, last, todo, unread, short>>

StoreCall_NoDedup ==
    /\ stage = "compile"
    /\ \E c \in calls : Foremost(c) /\ Stores(c)
    /\ UNCHANGED <<table, saved, stop, stage, starts, owed, others,
                   data, scan, scanner, buffer, last, todo, unread, short>>

\* One store() call of compile_article_to_blocks. A duplicate returns -1, which the
\* caller does not look at. An article too big for a block is cut and stored, or
\* refused with -1 if it is too big even then.
StoreCall ==
    /\ stage = "compile"
    /\ \E c \in calls :
        /\ Foremost(c)
        /\ \/ Present(c.key) /\ calls' = calls \ {c} /\ UNCHANGED <<store, listed, failed, faults>>
           \/ ~ Present(c.key) /\ Stores(c)
           \/ ~ Present(c.key) /\ ~ Fits(c) /\ Misses(c)
           \/ ~ Present(c.key) /\ Raises(c)
    /\ UNCHANGED <<table, saved, stop, stage, starts, owed, others,
                   data, scan, scanner, buffer, last, todo, unread, short>>

\* compile_article_to_blocks swallowed whatever failed: mark_source_done.
SourceDone ==
    /\ stage = "compile"
    /\ calls = {}
    /\ data' = [data EXCEPT !.processed = @ \cup {Head(todo)}]
    /\ todo' = Tail(todo)
    /\ owed' = [owed EXCEPT ![Head(todo)] = { c.key : c \in Derived(Head(todo), buffer) }]
    /\ stage' = "flush"
    /\ UNCHANGED <<table, store, saved, stop, bounds, failed, others,
                   scan, scanner, buffer, last, calls, listed, unread, short>>

\* End of flush_buffer: article_buffer.clear().
FlushEnds ==
    /\ stage = "flush"
    /\ todo = << >>
    /\ buffer' = << >>
    /\ stage' = IF last THEN "meta" ELSE "save"
    /\ UNCHANGED <<table, store, saved, stop, bounds, histories,
                   data, scan, scanner, last, todo, calls, listed, unread, short>>

\* state.save() after a flush inside the loop.
SaveProgress ==
    /\ stage = "save"
    /\ SaveOutcome(data)
    /\ stage' = "scan"
    /\ UNCHANGED <<table, store, stop, starts, histories, workerVars>>

\* The __meta__ block; an exception is logged, a second one is a duplicate.
StoreMeta ==
    /\ stage = "meta"
    /\ \/ Present(Meta) /\ UNCHANGED <<store, listed, faults>>
       \/ ~ Present(Meta) /\ store' = store \o Block(Meta) /\ listed' = listed \cup {Meta} /\ NoFault
       \/ ~ Present(Meta) /\ Fault("store") /\ Tear(Meta) /\ UNCHANGED listed
    /\ stage' = "final"
    /\ UNCHANGED <<table, saved, stop, starts, histories,
                   data, scan, scanner, buffer, last, todo, calls, unread, short>>

\* final_status, save, return.
FinishMigration ==
    /\ stage = "final"
    /\ data' = [data EXCEPT !.status = IF stop THEN "paused" ELSE "completed"]
    /\ SaveOutcome(data')
    /\ stage' = "report"
    /\ UNCHANGED <<table, store, stop, starts, histories,
                   scan, scanner, buffer, last, todo, calls, listed, unread, short>>

\* _nvme_compile_worker after the migration: a stop event ends it, and so does an
\* inactive chk_cleanup; otherwise the table is deleted.
ReportResult ==
    /\ stage = "report"
    /\ \/ ~ stop /\ stage' = "cleanup" /\ UNCHANGED workerVars
       \/ WorkerGone
    /\ UNCHANGED <<table, store, saved, stop, bounds, histories>>

\* cleanup_intermediate_data: rmtree of the table.
CleanupTable ==
    /\ stage = "cleanup"
    /\ table' = [table EXCEPT !.lo = table.hi]
    /\ WorkerGone
    /\ UNCHANGED <<store, saved, stop, bounds, histories>>

\* Another process that has the file open appends a block or what is left of it.
OthersStore ==
    /\ Len(others) < MaxOthers
    /\ \E k \in OthersKeys :
        /\ \/ store' = store \o Block(k) /\ NoFault
           \/ Fault("store") /\ Tear(k)
        /\ others' = Append(others, k)
    /\ UNCHANGED <<table, saved, stop, stage, starts, failed, owed, workerVars>>

\* The process dies and is started again. A save or an append that was due may be cut
\* short.
Crash ==
    /\ Fault("crash")
    /\ stage # "none"
    /\ WorkerGone
    /\ stop' = FALSE
    /\ \/ UNCHANGED saved
       \/ stage \in {"starting", "save", "final"} /\ saved' = Fresh
    /\ \/ UNCHANGED store
       \/ stage = "compile" /\ \E c \in calls : Foremost(c) /\ ~ Present(c.key) /\ Tear(c.key)
       \/ stage = "meta" /\ ~ Present(Meta) /\ Tear(Meta)
    /\ UNCHANGED <<table, starts, histories>>

Worker ==
    \/ StartMigration \/ ReadBatch \/ ReadFirstBatch \/ ScanEnds
    \/ FallbackStopRaises \/ ScannerRaises
    \/ FlushSource \/ StoreCall \/ SourceDone \/ FlushEnds \/ SaveProgress
    \/ StoreMeta \/ FinishMigration \/ ReportResult \/ CleanupTable

NextMigration ==
    IndexRow \/ CompileClicked \/ StopClicked \/ OthersStore \/ Crash \/ Worker

SpecMigration == InitMigration /\ [][NextMigration]_migrationVars

\* The worker is a thread that never blocks: it keeps taking steps while alive.
FairSpec == SpecMigration /\ WF_migrationVars(Worker)

-----------------------------------------------------------------------------
(* Properties *)

RowNumbers == 1 .. Len(Rows)
Data == [status : {"idle", "running", "paused", "completed"},
         processed : SUBSET Sources, chunks : Nat]
Call == [kind : {"article", "fact", "event"}, key : Keys, at : Seq(Nat)]

\* Types of the variables.
MigrationTypes ==
    /\ table \in [lo : 0 .. Len(Rows), hi : 0 .. Len(Rows)]
    /\ store \in Seq(Segment)
    /\ saved \in Data
    /\ stop \in BOOLEAN
    /\ stage \in {"none", "starting", "scan", "flush", "compile", "save",
                  "meta", "final", "report", "cleanup"}
    /\ data \in Data
    /\ scan \in [lo : 0 .. Len(Rows), hi : 0 .. Len(Rows), from : Nat, pos : Nat]
    /\ scanner \in BOOLEAN
    /\ buffer \in Seq(RowNumbers)
    /\ last \in BOOLEAN
    /\ todo \in Seq(Sources \cup {NoSource})
    /\ calls \subseteq Call
    /\ listed \subseteq Keys
    /\ unread \subseteq RowNumbers
    /\ short \subseteq Sources
    /\ starts \in Nat
    /\ faults \in Nat
    /\ failed \subseteq Sources
    /\ owed \in [Sources -> SUBSET DerivedKeys]
    /\ others \in Seq(OthersKeys)

\* Nothing torn comes before offset o.
NoTearBefore(o) == \A x \in Tears(store) : o < x

\* No key that a block without a tear before it holds is stored again, however often the
\* migration is stopped, dies, loses its progress file and scans the same table once
\* more. (Behind a tear an open finds nothing and the blocks are stored anew; what other
\* processes append after the worker's open it does not see.)
OneBlockPerKey ==
    \A k \in Keys \ ToSet(others), i \in 0 .. Len(store) :
        WholeAt(store, i, k) /\ NoTearBefore(i) =>
            \A j \in i + 1 .. Len(store) : ~ WholeAt(store, j, k)

\* The header of a torn block of k is where an open looks: from then on store() takes k
\* for stored.
TornListed(k) ==
    \E e \in Rebuild(store) : e.key = k /\ ~ WholeAt(store, e.off, k)

\* A whole block of k is in the file, and is found by the next open unless a torn block
\* comes before it.
Stored(k) ==
    \E o \in 0 .. Len(store) :
        /\ WholeAt(store, o, k)
        /\ NoTearBefore(o) => [off |-> o, key |-> k] \in Rebuild(store)

\* A source the progress file lists as done has its article in the store, and with it
\* all facts and events of the text it was marked as done with, unless a store() call for
\* it was refused or raised, or a torn block passes for one of them: a crash in the
\* middle of an article is repaired by the next migration, which finds the article there
\* and stores the rest, or finds it lost behind a tear and stores it again.
DoneIsInStore ==
    \A s \in saved.processed \ failed : \A k \in {s} \cup owed[s] : Stored(k) \/ TornListed(k)

\* What becomes of row i of a table that is deleted after a migration.
Accounted(i) ==
    \/ Rows[i].len = 0                                   \* it is blank,
    \/ Rows[i].src \in data.processed                    \* its source is done,
    \/ Rows[i].src \in short                             \* or had too short a text in a flush,
    \/ i \in unread                                      \* its batch could not be read,
    \/ i > scan.hi                                       \* it came after the worker's start,
    \/ /\ ~ scanner                                      \* or the fallback loop never read it:
       /\ i > scan.lo + BatchSize \/ scan.from >= scan.hi \* it reads the first batch over and
                                                         \* over, or nothing when it resumes

\* No row of a table is deleted without having been compiled, for any reason but these: a
\* stop, whenever it comes, a click on start while the stopped worker is still running, a
\* flush in between, a progress file of an earlier run never lose one, and the fallback
\* loop compiles at least the first batch.
DeletedRowsAccounted ==
    stage = "cleanup" => \A i \in table.lo + 1 .. table.hi : Accounted(i)

\* A started worker ends, whatever fails and whenever it is stopped.
WorkerEnds == (stage # "none") ~> (stage = "none")

=============================================================================
