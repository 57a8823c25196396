---------------------------- MODULE CustomCollector ----------------------------
(***************************************************************************)
(* The window for a user's own documents (gui_custom_collector.py): they   *)
(* are copied or downloaded into custom_docs, a child process indexes them *)
(* into a table (build_prime_index.py), the worker thread compiles the     *)
(* table into the block store, and the cleanup deletes documents and table *)
(* because "everything is safe in the store". Exporting moves the table    *)
(* away instead.                                                           *)
(*                                                                         *)
(* A document is one content under one file name. The compilation is that  *)
(* of KnowledgeMigration, a source at a time and never stopped.            *)
(***************************************************************************)
EXTENDS Naturals, FiniteSets

CONSTANTS
    Docs,        \* the documents a user may hand over, each once
    Name,        \* the file name of each: the source its rows and blocks carry
    Imported,    \* those that come in one folder; the others come one by one
    Threads,     \* worker threads
    MaxStarts    \* bound: how often the program is started

ASSUME CustomAssumption == Imported \subseteq Docs /\ MaxStarts \in Nat \ {0}

VARIABLES
    open,        \* the window is open
    busy,        \* its buttons are insensitive
    importing,   \* what _upload_folder_worker has still to copy
    pc,          \* where each worker thread is
    rest,        \* names the child, then rows the compiler, has still to do
    free,        \* calls of set_busy(False) given to GLib.idle_add
    exporting,   \* where _save_db is
    folder,      \* custom_docs
    table,       \* rows of the table
    exported,    \* rows of the tables it was saved to
    store,       \* articles in the block store
    got,         \* history: documents that were in custom_docs
    excused,     \* history: lost in one of the ways described below
    starts       \* how often the program was started

window  == <<open, busy, importing, free, exporting>>
kept    == <<folder, table, exported, store>>
history == <<got, excused, starts>>
vars    == <<window, pc, rest, kept, history>>

Names(docs) == {Name[d] : d \in docs}

\* A worker that trains has not yet cleaned up.
Training == \E t \in Threads : pc[t] \in {"open", "index", "compile", "store", "clean_docs"}

Goto(t, place) == pc' = [pc EXCEPT ![t] = place]

\* GLib.idle_add(self.set_busy, False), at the end of both workers
EndWorker(t) == Goto(t, "off") /\ free' = free + 1

Init ==
    /\ open = TRUE /\ busy = FALSE /\ importing = {} /\ free = 0 /\ exporting = "no"
    /\ pc = [t \in Threads |-> "off"] /\ rest = {}
    /\ folder = {} /\ table = {} /\ exported = {} /\ store = {}
    /\ got = {} /\ excused = {} /\ starts = 1

-----------------------------------------------------------------------------
(* Documents come in *)

\* A file of that name is overwritten. Loss 1: what was in it. Loss 2: a document that
\* comes while a training runs may miss its listing, not its cleanup.
PutFile(d) ==
    LET same == {e \in folder : Name[e] = Name[d]} IN
    /\ folder' = (folder \ same) \cup {d}
    /\ got' = got \cup {d}
    /\ excused' = excused \cup same \cup (IF Training THEN {d} ELSE {})

\* on_upload_clicked
Upload(d) ==
    /\ open /\ ~ busy /\ exporting = "no"
    /\ d \in Docs \ (Imported \cup got)
    /\ PutFile(d)
    /\ UNCHANGED <<window, pc, rest, table, exported, store, starts>>

\* on_upload_folder_clicked starts a thread; nothing is insensitive while it runs.
UploadFolder ==
    /\ open /\ ~ busy /\ exporting = "no"
    /\ importing = {} /\ Imported \ got # {}
    /\ importing' = Imported \ got
    /\ UNCHANGED <<open, busy, free, exporting, pc, rest, kept, history>>

CopyFile(d) ==
    /\ d \in importing
    /\ importing' = importing \ {d}
    /\ PutFile(d)
    /\ UNCHANGED <<open, busy, free, exporting, pc, rest, table, exported, store, starts>>

\* on_download_clicked, a page that becomes a document or fails
Download(t) ==
    /\ open /\ ~ busy /\ exporting = "no" /\ pc[t] = "off"
    /\ busy' = TRUE /\ Goto(t, "download")
    /\ UNCHANGED <<open, importing, free, exporting, rest, kept, history>>

DownloadEnds(t) ==
    /\ pc[t] = "download"
    /\ EndWorker(t)
    /\ \/ \E d \in Docs \ (Imported \cup got) : PutFile(d)
       \/ UNCHANGED <<folder, got, excused>>
    /\ UNCHANGED <<open, busy, importing, exporting, rest, table, exported, store, starts>>

-----------------------------------------------------------------------------
(* Training: the child process *)

Train(t) ==
    /\ open /\ ~ busy /\ exporting = "no" /\ pc[t] = "off"
    /\ busy' = TRUE /\ Goto(t, "open")
    /\ UNCHANGED <<open, importing, free, exporting, rest, kept, history>>

\* open_prime_table, dropping the old rows when fresh, and the files whose source has
\* no rows. Loss 3: a new document under the name of one that has.
OpenTable(t) ==
    /\ pc[t] = "open"
    /\ \E fresh \in BOOLEAN :
         LET rows == IF fresh THEN {} ELSE table IN
         /\ table' = rows
         /\ rest' = Names(folder) \ Names(rows)
         /\ excused' = excused \cup {d \in folder \ rows : Name[d] \in Names(rows)}
    /\ Goto(t, "index")
    /\ UNCHANGED <<window, folder, exported, store, got, starts>>

\* One file. Loss 4: it has no usable text, or its embedding fails; the build goes on.
IndexFile(t) ==
    /\ pc[t] = "index"
    /\ \E n \in rest :
         LET found == {d \in folder : Name[d] = n} IN
         /\ rest' = rest \ {n}
         /\ \/ table' = table \cup found /\ UNCHANGED excused
            \/ excused' = excused \cup found /\ UNCHANGED table
    /\ UNCHANGED <<window, pc, folder, exported, store, got, starts>>

BuildFails_Compiles(t) ==
    /\ pc[t] = "index"
    /\ Goto(t, "compile") /\ rest' = {}
    /\ UNCHANGED <<window, kept, history>>

\* The child fails: no compilation, no cleanup. (It may when its table is moved away.)
BuildFails(t) ==
    /\ pc[t] = "index"
    /\ EndWorker(t) /\ rest' = {}
    /\ UNCHANGED <<open, busy, importing, exporting, kept, history>>

BuildEnds_FreesEarly(t) ==
    /\ pc[t] = "index" /\ rest = {}
    /\ Goto(t, "compile") /\ free' = free + 1
    /\ UNCHANGED <<open, busy, importing, exporting, rest, kept, history>>

\* Exit code 0. The box for the compilation is ticked, or not.
BuildEnds(t) ==
    /\ pc[t] = "index" /\ rest = {}
    /\ \/ Goto(t, "compile") /\ UNCHANGED free
       \/ EndWorker(t)
    /\ UNCHANGED <<open, busy, importing, exporting, rest, kept, history>>

-----------------------------------------------------------------------------
(* Training: _nvme_compile_sync and the cleanup *)

\* The scanner reads the table as it is now.
OpenScanner(t) ==
    /\ pc[t] = "compile"
    /\ Goto(t, "store") /\ rest' = table
    /\ UNCHANGED <<window, kept, history>>

\* One source. Loss 5: another content of it is in the store, or was compiled before:
\* is_source_done and store() both go by the name. Loss 6: an exception is counted and
\* passed over.
CompileSource(t) ==
    /\ pc[t] = "store"
    /\ \E d \in rest :
         /\ rest' = rest \ {d}
         /\ \/ Name[d] \notin Names(store) /\ store' = store \cup {d} /\ UNCHANGED excused
            \/ excused' = excused \cup ({d} \ store) /\ UNCHANGED store
    /\ UNCHANGED <<window, pc, folder, table, exported, got, starts>>

CompileFails_NotFreed(t) ==
    /\ pc[t] \in {"compile", "store"}
    /\ Goto(t, "off") /\ rest' = {}
    /\ UNCHANGED <<window, kept, history>>

\* The store cannot be opened, the table not found or read: reported, no cleanup.
CompileFails(t) ==
    /\ pc[t] \in {"compile", "store"}
    /\ EndWorker(t) /\ rest' = {}
    /\ UNCHANGED <<open, busy, importing, exporting, kept, history>>

\* The result has no "error". The box for the cleanup is ticked, or not.
CompileEnds(t) ==
    /\ pc[t] = "store" /\ rest = {}
    /\ \/ Goto(t, "clean_docs") /\ UNCHANGED free
       \/ EndWorker(t)
    /\ UNCHANGED <<open, busy, importing, exporting, rest, kept, history>>

\* Every file of custom_docs, or those before one that cannot be deleted.
CleanDocs(t) ==
    /\ pc[t] = "clean_docs"
    /\ \E gone \in SUBSET folder : folder' = folder \ gone
    /\ Goto(t, "clean_table")
    /\ UNCHANGED <<window, rest, table, exported, store, history>>

CleanTable(t) ==
    /\ pc[t] = "clean_table"
    /\ table' \in {{}, table}
    /\ EndWorker(t)
    /\ UNCHANGED <<open, busy, importing, exporting, rest, folder, exported, store, history>>

\* set_busy(False) in the GTK thread
SetFree ==
    /\ free > 0 /\ exporting = "no"
    /\ free' = free - 1 /\ busy' = FALSE
    /\ UNCHANGED <<open, importing, exporting, pc, rest, kept, history>>

-----------------------------------------------------------------------------
(* _save_db, whose button stays sensitive; it keeps the GTK thread *)

CopyTable ==
    /\ open /\ exporting = "no" /\ table # {}
    /\ exporting' = "copied" /\ exported' = exported \cup table
    /\ UNCHANGED <<open, busy, importing, free, pc, rest, folder, table, store, history>>

\* Loss 7: documents that are not in the copy, not yet trained or since it was made.
DeleteDocs ==
    /\ exporting = "copied"
    /\ exporting' = "deleted" /\ folder' = {}
    /\ excused' = excused \cup (folder \ exported)
    /\ UNCHANGED <<open, busy, importing, free, pc, rest, table, exported, store, got, starts>>

\* With the rows that a training has added since the copy.
RemoveTable ==
    /\ exporting = "deleted"
    /\ exporting' = "no" /\ table' = {}
    /\ UNCHANGED <<open, busy, importing, free, pc, rest, folder, exported, store, history>>

\* on_window_delete kills the child and ends Gtk.main, and with it the threads; or the
\* program dies. (An orphaned child ends at its next line of output.)
Die ==
    /\ open
    /\ open' = FALSE /\ busy' = FALSE /\ importing' = {} /\ free' = 0 /\ exporting' = "no"
    /\ pc' = [t \in Threads |-> "off"] /\ rest' = {}
    /\ UNCHANGED <<kept, history>>

Start ==
    /\ ~ open /\ starts < MaxStarts
    /\ open' = TRUE /\ starts' = starts + 1
    /\ UNCHANGED <<busy, importing, free, exporting, pc, rest, kept, got, excused>>

-----------------------------------------------------------------------------

Work(t) ==
    \/ DownloadEnds(t)
    \/ OpenTable(t) \/ IndexFile(t) \/ BuildFails(t) \/ BuildEnds(t)
    \/ OpenScanner(t) \/ CompileSource(t) \/ CompileFails(t) \/ CompileEnds(t)
    \/ CleanDocs(t) \/ CleanTable(t)

Export == CopyTable \/ DeleteDocs \/ RemoveTable

Next ==
    \/ \E d \in Docs : Upload(d) \/ CopyFile(d)
    \/ UploadFolder
    \/ \E t \in Threads : Download(t) \/ Train(t) \/ Work(t)
    \/ SetFree \/ Export \/ Die \/ Start

\* Worker threads run, their child and their requests end, and the GTK thread finishes
\* what it does and gets to its callbacks.
Fairness ==
    /\ \A t \in Threads : WF_vars(Work(t))
    /\ WF_vars(DeleteDocs \/ RemoveTable)
    /\ WF_vars(SetFree)

Spec == Init /\ [][Next]_vars /\ Fairness

-----------------------------------------------------------------------------
(* Properties *)

\* A document handed over is in the folder, a saved table or the store, unless it was
\* lost in one of the seven ways above: no failed build, failed compilation, incomplete
\* cleanup, export or end of the program at any point costs another.
NothingElseLost == got \subseteq folder \cup exported \cup store \cup excused

\* One worker at a time: while one is at work, or its end is not yet shown, no click
\* starts a second child or a second writer of the store.
OneWorkerAtATime ==
    /\ Cardinality({t \in Threads : pc[t] # "off"}) + free <= 1
    /\ (\E t \in Threads : pc[t] # "off") => busy

\* The buttons come back, whichever way the work ends.
BecomesFree == [](busy => <>(~ busy))
===============================================================================
