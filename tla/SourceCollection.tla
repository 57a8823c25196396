--------------------------- MODULE SourceCollection ---------------------------
(***************************************************************************)
(* What the collector's pipeline threads fetch before they index: phases   *)
(* 1, 2, 4, 5 and 6 of run_quality_pipeline (gui_collector.py). Of phases  *)
(* 3, 7 and 8 and of the window, which are CollectorPipeline's, there is   *)
(* what decides how many threads run: phase 7 ends with _finish_work, which*)
(* clears the flag while its thread goes on, and so does the end of that   *)
(* thread, in the middle of the next one.                                  *)
(*                                                                         *)
(* A thread keeps its progress in CollectorState.data and saves it after   *)
(* every step; the GTK thread saves the same data on every key stroke in   *)
(* the API key's field and when the window closes. The program dies        *)
(* anywhere and is started again from what the file then holds.            *)
(*                                                                         *)
(* Folders are those of whichever data_dir was set when a file was written *)
(* (changing it keeps the progress), until the cleanup after a compilation *)
(* empties them. Pausing is left to CollectorPipeline.                     *)
(***************************************************************************)
EXTENDS Naturals, Sequences, FiniteSets, SequencesExt

CONSTANTS
    Threads,         \* pipeline threads at one time
    DocFolders,      \* folders fetched by one child process each, in phases 1 and 2,
    DocKinds,        \* in one of these ways
    Books,           \* those of phase 6, fetched by the task pool
    BookKind,        \* and how: rsync or ia
    ManPages,        \* the pages of the one manual section
    Topics,          \* Wikipedia articles
    WikiTopics,      \* the seeds, in order
    Links,           \* the links of an article that pass the keywords
    Blocked,         \* titles that match a block pattern
    WIKI_MAX_QUEUE,
    WIKI_MAX_DONE,
    SO_MAX_PAGES,    \* of the one tag
    MAX_BG_TASKS,    \* workers of the task pool
    NoTopic,
    MaxStarts,       \* bounds: how often the program is started,
    MaxClicks        \* and a build

Kinds == {"sync", "clone", "sparse", "tree"}

ASSUME SourcesAssumption ==
    /\ DocFolders \cap Books = {} /\ DocKinds \subseteq Kinds
    /\ BookKind \in [Books -> {"sync", "tree"}] /\ NoTopic \notin Topics
    /\ IsFiniteSet(Books)
    /\ WikiTopics \in Seq(Topics)
    /\ Links \in [Topics -> Seq(Topics \ Blocked)]
    /\ {WIKI_MAX_QUEUE, WIKI_MAX_DONE, SO_MAX_PAGES, MAX_BG_TASKS, MaxStarts, MaxClicks}
           \subseteq Nat \ {0}

VARIABLES
    window,    \* "open", "closing" (from on_window_delete on), "closed"
    running,   \* the flag
    idle,      \* callbacks given to GLib.idle_add, in order
    memory,    \* CollectorState.data
    saved,     \* collector_state.json: Torn, or the set of the data it holds
    pc,        \* where a pipeline thread is
    rest,      \* what its loop has still to visit
    item,      \* the topic or page of answers in hand
    pool,      \* the state of each task a thread gives to the pool
    kind,      \* how a folder is fetched
    folder,    \* what is found there: "none", "some"thing, or the "marker" of a work tree
    manual,    \* pages of the manual that have a file
    article,   \* each article: "none", "part", "whole" or "mixed" (two wrote it at a time),
    answers,   \* and each page of answers
    overlap,   \* history: a thread that runs has met another one,
    excused,   \* articles that cannot be had, or that such a thread has opened,
    skipped,   \* pages of answers that are empty, or that such a thread has opened
    starts,    \* how often the program was started
    clicks     \* and a build

gui   == <<window, running, idle>>
data  == <<memory, saved>>
files == <<folder, manual, article, answers>>
history == <<overlap, excused, skipped, starts, clicks>>
sourcesVars == <<gui, data, pc, rest, item, pool, kind, files, history>>

Torn == {}

\* CollectorState.__init__ without a file.
Defaults == [queue |-> WikiTopics, done |-> {}, page |-> 1, man |-> FALSE]

\* load(): a file that is no JSON is passed over.
Loaded(s) ==
    LET d == IF s = Torn THEN Defaults ELSE CHOOSE x \in s : TRUE
    IN  [d EXCEPT !.queue = IF @ = << >> THEN WikiTopics ELSE @]

InitSources ==
    /\ window = "open" /\ running = FALSE /\ idle = <<>>
    /\ memory = Defaults /\ saved = Torn
    /\ pc = [t \in Threads |-> "off"]
    /\ rest = [t \in Threads |-> {}] /\ item = [t \in Threads |-> NoTopic]
    /\ pool = [t \in Threads |-> [b \in Books |-> "done"]]
    /\ \E how \in [DocFolders -> DocKinds] :
            kind = [d \in DocFolders \cup Books |-> IF d \in DocFolders THEN how[d] ELSE BookKind[d]]
    /\ folder = [d \in DocFolders \cup Books |-> "none"]
    /\ manual = {}
    /\ article = [t \in Topics |-> "none"]
    /\ answers = [n \in 1 .. SO_MAX_PAGES |-> "none"]
    /\ overlap = FALSE /\ excused = {} /\ skipped = {} /\ starts = 1 /\ clicks = 0

Goto(t, place) == pc' = [pc EXCEPT ![t] = place]
Visit(t, what) == rest' = [rest EXCEPT ![t] = what]
Take(t, what)  == item' = [item EXCEPT ![t] = what]

\* The next phase, unless the flag has fallen: then the thread ends with _finish_work.
Phase(t, place) ==
    IF running THEN Goto(t, place) /\ UNCHANGED idle
               ELSE Goto(t, "off") /\ idle' = Append(idle, "finish")

\* The threads that run.
Alive == { t \in Threads : pc[t] # "off" }

\* What open(.., "w") makes of a file: another thread may be writing it.
Opened(t, place, what) ==
    IF \E u \in Threads \ {t} : pc[u] = place /\ item[u] = what THEN "mixed" ELSE "part"
Closed(how) == IF how = "part" THEN "whole" ELSE how

-----------------------------------------------------------------------------
(* Saving *)

\* save() truncates the file and dumps the data into it. As only Start reads it, that
\* it may be torn is left to Die. (What another thread changes meanwhile may be in it or
\* not; no property relates two fields of it.)
Save == saved' = {memory}

\* What comes after a save of the thread.
Saved(t) ==
    \/ pc[t] = "man_save"    /\ Phase(t, "wiki")
    \/ pc[t] = "wiki_save"   /\ Goto(t, "wiki") /\ UNCHANGED idle
    \/ pc[t] = "refill_save" /\ Phase(t, "so")
    \/ pc[t] = "so_save"     /\ Goto(t, "so_page") /\ UNCHANGED idle

SaveProgress(t) ==
    /\ Saved(t)
    /\ Save
    /\ UNCHANGED <<window, running, memory, rest, item, pool, kind, files, history>>

\* on_key_changed, in the middle of whatever the threads do; on_window_delete once it
\* has waited five seconds for one thread.
SaveFromWindow ==
    /\ window \in {"open", "closing"}
    /\ Save
    /\ UNCHANGED <<gui, memory, pc, rest, item, pool, kind, files, history>>

\* An exception outside any try ends the thread without _finish_work: a save that fails
\* (not that of the manual, which goes on), or a queue that another thread has emptied
\* between the loop's test and pop(0).
Raises(t) ==
    /\ \/ pc[t] \in {"wiki_save", "refill_save", "so_save"}
       \/ pc[t] = "wiki" /\ running /\ overlap /\ memory.queue = <<>>
    /\ Goto(t, "off") /\ Take(t, NoTopic)
    /\ UNCHANGED <<gui, data, rest, pool, kind, files, history>>

-----------------------------------------------------------------------------
(* The program *)

\* on_build_clicked: while the flag is down the button can be clicked. (Threads are
\* alike: one that is not in use stands for the new one.)
Collect(t) ==
    /\ window = "open" /\ ~ running /\ clicks < MaxClicks
    /\ pc[t] = "off" /\ t = CHOOSE u \in Threads : pc[u] = "off"
    /\ running' = TRUE /\ idle' = Append(idle, "busy")
    /\ Goto(t, "docs") /\ Visit(t, DocFolders) /\ Take(t, NoTopic)
    /\ overlap' = (Alive # {})
    /\ clicks' = clicks + 1
    /\ UNCHANGED <<window, data, pool, kind, files, excused, skipped, starts>>

\* GTK's main loop runs _set_busy_ui(True) and _finish_work.
Callback ==
    /\ window = "open" /\ idle # <<>>
    /\ idle' = Tail(idle)
    /\ running' = (Head(idle) = "busy")
    /\ UNCHANGED <<window, data, pc, rest, item, pool, kind, files, history>>

\* on_window_delete clears the flag and joins the thread for five seconds. No callback
\* that is still to come matters any more.
Close ==
    /\ window = "open"
    /\ window' = "closing" /\ running' = FALSE
    /\ UNCHANGED <<idle, data, pc, rest, item, pool, kind, files, history>>

\* The end of Gtk.main and of the daemon threads with it, or the death of the process. A
\* save it cuts short leaves a torn file, and so do two threads that were saving at
\* once: their texts lie over each other.
Die ==
    /\ window = "closing" \/ Alive # {}
    /\ window' = "closed" /\ running' = FALSE /\ idle' = <<>>
    /\ pc' = [t \in Threads |-> "off"]
    /\ memory' = Defaults
    /\ rest' = [t \in Threads |-> {}] /\ item' = [t \in Threads |-> NoTopic]
    /\ pool' = [t \in Threads |-> [b \in Books |-> "done"]]
    /\ saved' \in {saved, Torn}
    /\ overlap' = FALSE
    /\ UNCHANGED <<kind, files, excused, skipped, starts, clicks>>

Start ==
    /\ window = "closed" /\ starts < MaxStarts
    /\ starts' = starts + 1
    /\ window' = "open" /\ running' = FALSE
    /\ memory' = Loaded(saved)
    /\ UNCHANGED <<idle, saved, pc, rest, item, pool, kind, files, overlap, excused, skipped, clicks>>

-----------------------------------------------------------------------------
(* Folders: documentation and books *)

\* rsync runs every time. A clone is known by a file of its work tree; the other
\* folders count as fetched with the first file in them.
Present(d) ==
    CASE kind[d] = "sync" -> FALSE
      [] kind[d] = "tree" -> folder[d] # "none"
      [] OTHER -> folder[d] = "marker"

\* What a child may leave. git removes what a failing clone has made and refuses a
\* folder that is not empty; the work tree of a sparse clone comes with a second command,
\* not begun if the flag has fallen. The exit codes of tar and ia are not looked at.
Left(d) ==
    CASE kind[d] = "sync" -> {folder[d]}
      [] kind[d] = "tree" -> {folder[d], "some"}
      [] folder[d] # "none" -> {folder[d]}
      [] kind[d] = "clone" -> {"none", "marker"}
      [] kind[d] = "sparse" -> {"none", "some", "marker"}

Fill(d, what) == folder' = [folder EXCEPT ![d] = what]

SkipDoc(t, d) ==
    /\ pc[t] = "docs" /\ running /\ d \in rest[t] /\ Present(d)
    /\ Visit(t, rest[t] \ {d})
    /\ UNCHANGED <<gui, data, pc, item, pool, kind, files, history>>

\* A child is run. (_run_git_clone takes a folder that is not empty for the clone it is
\* to make, complete or not.)
FetchDoc(t, d) ==
    /\ pc[t] = "docs" /\ running /\ d \in rest[t] /\ ~ Present(d)
    /\ Visit(t, rest[t] \ {d})
    /\ \E what \in Left(d) : Fill(d, what)
    /\ UNCHANGED <<gui, data, pc, item, pool, kind, manual, article, answers, history>>

DocsEnd(t) ==
    /\ pc[t] = "docs" /\ (rest[t] = {} \/ ~ running)
    /\ Phase(t, "man") /\ Visit(t, {})
    /\ UNCHANGED <<window, running, data, item, pool, kind, files, history>>

\* A worker of the task pool takes a task, if the flag is still up. It waits for free
\* memory then, two minutes at most.
PoolTask(t, b) ==
    /\ pool[t][b] = "queued"
    /\ Cardinality({ x \in Threads \X Books : pool[x[1]][x[2]] \in {"memory", "running"} }) < MAX_BG_TASKS
    /\ pool' = [pool EXCEPT ![t][b] = IF running THEN "memory" ELSE "done"]
    /\ UNCHANGED <<gui, data, pc, rest, item, kind, files, history>>

\* Enough memory or not, the task begins; rsync is called without a second look at the flag.
MemoryWaited(t, b) ==
    /\ pool[t][b] = "memory"
    /\ pool' = [pool EXCEPT ![t][b] =
                    IF (kind[b] = "sync" \/ running) /\ ~ Present(b) THEN "running" ELSE "done"]
    /\ UNCHANGED <<gui, data, pc, rest, item, kind, files, history>>

\* A child is terminated when a line of it finds the flag down; the rest stays.
PoolTaskEnds_Hangs(t, b) ==
    /\ pool[t][b] = "running" /\ running
    /\ pool' = [pool EXCEPT ![t][b] = "done"]
    /\ \E what \in Left(b) : Fill(b, what)
    /\ UNCHANGED <<gui, data, pc, rest, item, kind, manual, article, answers, history>>

PoolTaskEnds(t, b) ==
    /\ pool[t][b] = "running"
    /\ pool' = [pool EXCEPT ![t][b] = "done"]
    /\ \E what \in Left(b) : Fill(b, what)
    /\ UNCHANGED <<gui, data, pc, rest, item, kind, manual, article, answers, history>>

SubmitBooks(t) ==
    /\ pc[t] = "books"
    /\ pool' = [pool EXCEPT ![t] = [b \in Books |-> "queued"]] /\ Goto(t, "join")
    /\ UNCHANGED <<gui, data, rest, item, kind, files, history>>

\* _task_pool.wait() waits for the tasks of all threads.
Joined(t) ==
    /\ pc[t] = "join" /\ \A u \in Threads, b \in Books : pool[u][b] = "done"
    /\ Phase(t, "dumps")
    /\ UNCHANGED <<window, running, data, rest, item, pool, kind, files, history>>

\* Phase 7 ends with _finish_work. Phase 8 does too, run or skipped because the flag is
\* down by then.
DumpsEnd(t) ==
    /\ pc[t] = "dumps"
    /\ Goto(t, "dumped") /\ idle' = Append(idle, "finish")
    /\ UNCHANGED <<window, running, data, rest, item, pool, kind, files, history>>

IndexEnds(t) ==
    /\ pc[t] = "dumped"
    /\ Goto(t, "off") /\ idle' = Append(idle, "finish")
    /\ UNCHANGED <<window, running, data, rest, item, pool, kind, files, history>>

-----------------------------------------------------------------------------
(* collect_manpages *)

\* The section is listed, unless it is done. (man -k raises: the next section.)
ListPages(t) ==
    /\ pc[t] = "man"
    /\ IF running /\ ~ memory.man
         THEN Goto(t, "pages") /\ Visit(t, ManPages) /\ UNCHANGED idle
         ELSE Phase(t, "wiki") /\ UNCHANGED rest
    /\ UNCHANGED <<window, running, data, item, pool, kind, files, history>>

ListingFails(t) ==
    /\ pc[t] = "man" /\ running /\ ~ memory.man
    /\ Phase(t, "wiki")
    /\ UNCHANGED <<window, running, data, rest, item, pool, kind, files, history>>

\* man writes into the page's file and ends, or runs into its timeout. A page that has a
\* file, whatever is in it, is passed over.
ExportPage(t, p) ==
    /\ pc[t] = "pages" /\ running /\ p \in rest[t]
    /\ Visit(t, rest[t] \ {p})
    /\ manual' = manual \cup {p}
    /\ UNCHANGED <<gui, data, pc, item, pool, kind, folder, article, answers, history>>

\* All its pages are visited, or the flag has fallen: done either way.
SectionDone(t) ==
    /\ pc[t] = "pages" /\ (rest[t] = {} \/ ~ running)
    /\ memory' = [memory EXCEPT !.man = TRUE]
    /\ Goto(t, "man_save") /\ Visit(t, {})
    /\ UNCHANGED <<gui, saved, item, pool, kind, files, history>>

-----------------------------------------------------------------------------
(* collect_wikipedia *)

Queue == memory.queue

\* The loop goes on.
Collecting(t) ==
    pc[t] = "wiki" /\ running /\ Queue # << >> /\ Cardinality(memory.done) < WIKI_MAX_DONE

\* Its first statement cuts a queue that an earlier version has left too long.
Cut(q) == SubSeq(q, 1, IF Len(q) > WIKI_MAX_QUEUE THEN WIKI_MAX_QUEUE ELSE Len(q))

\* A topic that is done is dropped; a blocked one becomes done, which is not saved yet.
PassOver(t) ==
    /\ Collecting(t) /\ Head(Queue) \in memory.done \cup Blocked
    /\ memory' = [memory EXCEPT !.queue = Tail(Cut(@)), !.done = @ \cup ({Head(Queue)} \cap Blocked)]
    /\ UNCHANGED <<gui, saved, pc, rest, item, pool, kind, files, history>>

TakeTopic_Again(t) ==
    /\ Collecting(t) /\ Head(Queue) \notin Blocked
    /\ memory' = [memory EXCEPT !.queue = Tail(Cut(@))]
    /\ Take(t, Head(Queue)) /\ Goto(t, "topic")
    /\ UNCHANGED <<gui, saved, rest, pool, kind, files, history>>

TakeTopic(t) ==
    /\ Collecting(t) /\ Head(Queue) \notin memory.done \cup Blocked
    /\ memory' = [memory EXCEPT !.queue = Tail(Cut(@))]
    /\ Take(t, Head(Queue)) /\ Goto(t, "topic")
    /\ UNCHANGED <<gui, saved, rest, pool, kind, files, history>>

\* There is no such page, it is too short, or the request raises.
NoArticle(t) ==
    /\ pc[t] = "topic"
    /\ excused' = excused \cup {item[t]}
    /\ Goto(t, "links") /\ Visit(t, {})
    /\ UNCHANGED <<gui, data, item, pool, kind, files, overlap, skipped, starts, clicks>>

WriteArticle(t) ==
    /\ pc[t] = "topic"
    /\ article' = [article EXCEPT ![item[t]] = Opened(t, "article", item[t])]
    /\ Goto(t, "article")
    /\ excused' = excused \cup IF overlap THEN {item[t]} ELSE {}
    /\ UNCHANGED <<gui, data, rest, item, pool, kind, folder, manual, answers, overlap, skipped, starts, clicks>>

\* The file is closed. Another request brings the links, or raises.
ArticleWritten(t) ==
    /\ pc[t] = "article"
    /\ article' = [article EXCEPT ![item[t]] = Closed(@)]
    /\ Goto(t, "links") /\ \E links \in {DOMAIN Links[item[t]], {}} : Visit(t, links)
    /\ UNCHANGED <<gui, data, item, pool, kind, folder, manual, answers, history>>

\* The write raises: what is there stays, and the topic will be done.
ArticleFails(t) ==
    /\ pc[t] = "article"
    /\ excused' = excused \cup {item[t]}
    /\ Goto(t, "links") /\ Visit(t, {})
    /\ UNCHANGED <<gui, data, item, pool, kind, files, overlap, skipped, starts, clicks>>

\* The next link title joins the queue if it is new and there is room.
AddLink(t) ==
    /\ pc[t] = "links"
    /\ \E n \in rest[t] :
        /\ \A m \in rest[t] : n <= m
        /\ Visit(t, rest[t] \ {n})
        /\ LET title == Links[item[t]][n]
           IN  IF title \in memory.done \cup ToSet(Queue) \/ Len(Queue) >= WIKI_MAX_QUEUE
                 THEN UNCHANGED memory
                 ELSE memory' = [memory EXCEPT !.queue = Append(@, title)]
    /\ UNCHANGED <<gui, saved, pc, item, pool, kind, files, history>>

\* Whatever became of it
TopicDone(t) ==
    /\ pc[t] = "links" /\ rest[t] = {}
    /\ memory' = [memory EXCEPT !.done = @ \cup {item[t]}]
    /\ Take(t, NoTopic) /\ Goto(t, "wiki_save")
    /\ UNCHANGED <<gui, saved, rest, pool, kind, files, history>>

\* An empty queue is filled with the seeds for the next run.
WikiEnds(t) ==
    /\ pc[t] = "wiki" /\ ~ Collecting(t)
    /\ IF Queue = << >> /\ running
         THEN memory' = [memory EXCEPT !.queue = WikiTopics] /\ Goto(t, "refill_save") /\ UNCHANGED idle
         ELSE Phase(t, "so") /\ UNCHANGED memory
    /\ UNCHANGED <<window, running, saved, rest, item, pool, kind, files, history>>

-----------------------------------------------------------------------------
(* collect_stackoverflow *)

\* page_num is the thread's own; so_progress follows it once the page is on disk.
BeginTag(t) ==
    /\ pc[t] = "so"
    /\ Take(t, memory.page) /\ Goto(t, "so_page")
    /\ UNCHANGED <<gui, data, rest, pool, kind, files, history>>

\* The loop over the pages is left.
LeaveTag(t) == Phase(t, "books") /\ Take(t, NoTopic)

\* Every page is there, or the flag has fallen.
TagEnds(t) ==
    /\ pc[t] = "so_page" /\ (~ running \/ item[t] > SO_MAX_PAGES)
    /\ LeaveTag(t)
    /\ UNCHANGED <<window, running, data, rest, pool, kind, files, history>>

Asking(t) == pc[t] = "so_page" /\ running /\ item[t] <= SO_MAX_PAGES

\* The API refuses, answers with an error, or has neither items nor more of them: the tag
\* is left, its progress stays. (When the network fails, or what comes is no JSON, the loop
\* asks again, for ever.)
NoPage(t) ==
    /\ Asking(t)
    /\ LeaveTag(t)
    /\ UNCHANGED <<window, running, data, rest, pool, kind, files, history>>

\* so_progress[tag] = page_num + 1
Count(t) ==
    /\ memory' = [memory EXCEPT !.page = item[t] + 1]
    /\ Take(t, item[t] + 1) /\ Goto(t, "so_save") /\ UNCHANGED idle

\* No items, but there are more: the page is counted without a file.
EmptyPage(t) ==
    /\ Asking(t)
    /\ Count(t)
    /\ skipped' = skipped \cup {item[t]}
    /\ UNCHANGED <<window, running, saved, rest, pool, kind, files, overlap, excused, starts, clicks>>

WritePage_CountsFirst(t) ==
    /\ Asking(t)
    /\ answers' = [answers EXCEPT ![item[t]] = Opened(t, "so_file", item[t])]
    /\ Count(t)
    /\ skipped' = skipped \cup IF overlap THEN {item[t]} ELSE {}
    /\ UNCHANGED <<window, running, saved, rest, pool, kind, folder, manual, article, overlap, excused, starts, clicks>>

WritePage(t) ==
    /\ Asking(t)
    /\ answers' = [answers EXCEPT ![item[t]] = Opened(t, "so_file", item[t])]
    /\ Goto(t, "so_file")
    /\ skipped' = skipped \cup IF overlap THEN {item[t]} ELSE {}
    /\ UNCHANGED <<gui, data, rest, item, pool, kind, folder, manual, article, overlap, excused, starts, clicks>>

\* The file is closed. The last page there is (has_more) is asked for again next time.
PageWritten(t) ==
    /\ pc[t] = "so_file"
    /\ answers' = [answers EXCEPT ![item[t]] = Closed(@)]
    /\ \/ Count(t)
       \/ LeaveTag(t) /\ UNCHANGED memory
    /\ UNCHANGED <<window, running, saved, rest, pool, kind, folder, manual, article, history>>

\* The write raises: the tag is left, its progress stays.
PageFails(t) ==
    /\ pc[t] = "so_file"
    /\ LeaveTag(t)
    /\ UNCHANGED <<window, running, data, rest, pool, kind, files, history>>

-----------------------------------------------------------------------------

Folders(t) ==
    \/ \E d \in DocFolders : SkipDoc(t, d) \/ FetchDoc(t, d)
    \/ DocsEnd(t) \/ SubmitBooks(t) \/ Joined(t) \/ DumpsEnd(t) \/ IndexEnds(t)
Manual(t) ==
    \/ ListPages(t) \/ ListingFails(t) \/ (\E p \in ManPages : ExportPage(t, p))
    \/ SectionDone(t)
Walk(t) ==
    \/ PassOver(t) \/ TakeTopic(t) \/ NoArticle(t) \/ WriteArticle(t) \/ ArticleWritten(t)
    \/ ArticleFails(t) \/ AddLink(t) \/ TopicDone(t) \/ WikiEnds(t)
Pages(t) ==
    \/ BeginTag(t) \/ TagEnds(t) \/ NoPage(t) \/ EmptyPage(t) \/ WritePage(t) \/ PageWritten(t)
    \/ PageFails(t)

Thread(t) == SaveProgress(t) \/ Raises(t) \/ Folders(t) \/ Manual(t) \/ Walk(t) \/ Pages(t)

Task(t, b) == PoolTask(t, b) \/ MemoryWaited(t, b) \/ PoolTaskEnds(t, b)

NextSources ==
    \/ \E t \in Threads : Collect(t) \/ Thread(t)
    \/ \E t \in Threads, b \in Books : Task(t, b)
    \/ SaveFromWindow
    \/ Callback \/ Close \/ Die \/ Start

\* The threads run and what they wait for comes: a child ends, a request is answered in
\* the end (collect_stackoverflow repeats it for ever while the network fails).
Fairness ==
    /\ \A t \in Threads : WF_sourcesVars(Thread(t))
    /\ WF_sourcesVars(\E t \in Threads, b \in Books : Task(t, b))

SpecSources == InitSources /\ [][NextSources]_sourcesVars /\ Fairness

-----------------------------------------------------------------------------
(* Properties *)

Data == [queue : Seq(Topics), done : SUBSET Topics, page : Nat, man : BOOLEAN]
Parts == {"none", "part", "mixed", "whole"}
Places == {"off", "docs", "man", "pages", "man_save", "wiki",
           "topic", "article", "links", "wiki_save", "refill_save", "so", "so_page", "so_file",
           "so_save", "books", "join", "dumps", "dumped"}

\* Types of what the walk and the pages need; rest holds what the phase iterates over.
SourcesTypes ==
    /\ window \in {"open", "closing", "closed"} /\ running \in BOOLEAN
    /\ idle \in Seq({"busy", "finish"})
    /\ memory \in Data /\ saved \subseteq Data
    /\ pc \in [Threads -> Places]
    /\ rest \in [Threads -> SUBSET (DocFolders \cup ManPages \cup Nat)]
    /\ item \in [Threads -> Topics \cup Nat \cup {NoTopic}]
    /\ pool \in [Threads -> [Books -> {"queued", "memory", "running", "done"}]]
    /\ kind \in [DocFolders \cup Books -> Kinds]
    /\ folder \in [DocFolders \cup Books -> {"none", "some", "marker"}]
    /\ manual \subseteq ManPages
    /\ article \in [Topics -> Parts]
    /\ answers \in [1 .. SO_MAX_PAGES -> Parts]
    /\ overlap \in BOOLEAN /\ excused \subseteq Topics /\ skipped \subseteq 1 .. SO_MAX_PAGES
    /\ starts \in 1 .. MaxStarts /\ clicks \in 0 .. MaxClicks

\* The data in memory and in the file.
Datas == {memory} \cup saved

\* Every page of answers below so_progress is whole on disk, wherever the program was
\* closed or died and whatever file it was started from again: unless it had no items, or
\* was opened by one of two pipelines that ran at a time.
PagesBelowProgress ==
    \A d \in Datas :
        \A n \in 1 .. SO_MAX_PAGES : n < d.page => answers[n] = "whole" \/ n \in skipped

\* An article remembered as done is whole on disk, unless it is blocked, could not be had
\* or written, or was opened by one of two pipelines that ran at a time: a file truncated
\* by a second fetch of one pipeline is not one of those.
DoneHaveArticles ==
    \A d \in Datas :
        \A t \in d.done : article[t] = "whole" \/ t \in Blocked \cup excused

\* A collection comes to its end: the walk through the links is bounded, and no task
\* of the pool keeps the thread waiting.
CollectionEnds == Alive # {} ~> Alive = {}
===============================================================================
