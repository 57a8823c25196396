--------------------------- MODULE CollectorPipeline ---------------------------
(***************************************************************************)
(* The collector window (gui_collector.py): the pipeline threads a click   *)
(* on "build" starts, the callbacks they leave for the GTK thread, the     *)
(* flag both share, the child processes that index what was collected, and *)
(* the memory of what has been processed (collector_state.json).           *)
(*                                                                         *)
(* A source is a folder of documents, a Stack Exchange site or a Wikipedia *)
(* dump.  Documents are indexed by the last phase only; sites and dumps by *)
(* a child process each, after which their files are deleted.              *)
(***************************************************************************)
EXTENDS Naturals, Sequences, FiniteSets

CONSTANTS
  Threads,     \* the threads that clicks may start, in all processes
  EarlyDocs,   \* the documents of phases 1 and 2
  LateDocs,    \* the documents of phases 4 to 6
  Sites,       \* the Stack Exchange sites of phase 3
  Remote,      \* dumps with a download address
  Local,       \* dumps a user put into the folder
  Faults,      \* BOOLEAN: downloads, child processes and saves may fail
  NoSource,    \* not a source
  MaxStarts    \* how often the program is started

Docs    == EarlyDocs \cup LateDocs
Dumps   == Remote \cup Local
Sources == Docs \cup Sites \cup Dumps

ASSUME SourcesAssumption ==
  /\ Docs \cap Sites = {} /\ Docs \cap Dumps = {} /\ Sites \cap Dumps = {}
  /\ Remote \cap Local = {} /\ NoSource \notin Sources

ASSUME BoundsAssumption == Faults \in BOOLEAN /\ MaxStarts \in Nat \ {0}

VARIABLES
  running,   \* self.running
  paused,    \* self.paused
  success,   \* self.pipeline_success
  buttons,   \* the sensitive ones of "build", "pause" and "resume"
  idle,      \* the callbacks given to GLib.idle_add, in order
  closing,   \* on_window_delete has cleared the flag and joins the thread
  memory,    \* processed_dumps and processed_se
  saved,     \* collector_state.json: {} if missing or no JSON, {m} if it holds m
  fetched,   \* documents whose folder exists: not collected again
  file,      \* what lies on disk of a source
  table,     \* sources whose rows are in it_prime
  pc,        \* where a pipeline thread is
  todo,      \* what its loop has still to visit
  item,      \* the source it works on, or NoSource
  dropped,   \* sources whose rows a fresh build has thrown away
  built,     \* an index build has succeeded and no compilation followed yet
  starts     \* how often the program was started

window  == <<running, paused, success, buttons, idle, closing>>
disk    == <<saved, fetched, file, table>>
history == <<dropped, built, starts>>
vars    == <<window, memory, disk, pc, todo, item, history>>

Torn == {}

Ended  == {"off", "stopped", "indexed", "failed", "died"}
Places == Ended \cup {"docs", "sites", "site_got", "site_ingest", "site_clean",
                      "site_mark", "apis", "dumps_begin", "dumps", "dump_got",
                      "dump_ingest", "dump_check", "dump_mark", "dump_unlink",
                      "dumped", "prime", "prime_check", "build_start", "build"}


(* The flag's test and check_pause() let the loop go on.  (A pause ended by *)
(* the falling flag lets one more round begin, which looks at the flag      *)
(* itself and leaves: as if the pause had come a moment later.)             *)
Going == running /\ ~paused

Goto(t, place) == pc' = [pc EXCEPT ![t] = place]
Visited(t, s)  == todo' = [todo EXCEPT ![t] = @ \ {s}]
Begin(t, s)    == item' = [item EXCEPT ![t] = s] /\ UNCHANGED todo
Leave(t)       == Visited(t, item[t]) /\ item' = [item EXCEPT ![t] = NoSource]

(* GLib.idle_add(self._finish_work), nearly always the last thing the      *)
(* thread does.                                                            *)
Finish(t, place) == Goto(t, place) /\ idle' = Append(idle, "finish")

-----------------------------------------------------------------------------

Init ==
  /\ running = FALSE /\ paused = FALSE /\ success = FALSE /\ buttons = {"build"}
  /\ idle = <<>> /\ closing = FALSE
  /\ memory = {} /\ saved = Torn /\ fetched = {} /\ table = {}
  /\ file = [s \in Sources |-> IF s \in Local THEN "full" ELSE "none"]
  /\ pc = [t \in Threads |-> "off"]
  /\ todo = [t \in Threads |-> {}]
  /\ item = [t \in Threads |-> NoSource]
  /\ dropped = {} /\ built = FALSE /\ starts = 1

(* CollectorState.save().  The file is truncated and then written, and two *)
(* savers can write into each other's text: as only the next start reads   *)
(* it, that it is torn then is left to Restart.                            *)
Save(data) == saved' = {data}

(* Its open() or write() raises in a pipeline thread, where nobody catches *)
(* it: the thread ends without _finish_work.                               *)
SaveRaises(t) == Faults /\ Goto(t, "died") /\ UNCHANGED saved

(* CollectorState.load(): a file it cannot parse counts as an empty one.   *)
Loaded(data) == UNION data

(***************************************************************************)
(* The GTK thread.                                                         *)
(***************************************************************************)

NewThread == CHOOSE t \in Threads : pc[t] = "off"

(* on_build_clicked, by the button or by on_one_click_clicked.             *)
OnBuildClicked(t) ==
  /\ ~closing /\ "build" \in buttons /\ ~running
  /\ pc[t] = "off" /\ t = NewThread
  /\ running' = TRUE /\ paused' = FALSE /\ success' = FALSE
  /\ buttons' = (buttons \cup {"pause"}) \ {"resume"}
  /\ idle' = Append(idle, "busy")
  /\ Goto(t, "docs")
  /\ todo' = [todo EXCEPT ![t] = EarlyDocs]
  /\ UNCHANGED <<closing, memory, disk, item, history>>

(* _set_busy_ui leaves the flag to the click.                              *)
SetBusyUI_NoFlag ==
  /\ ~closing /\ idle # <<>> /\ Head(idle) = "busy"
  /\ idle' = Tail(idle)
  /\ buttons' = buttons \ {"build"}
  /\ UNCHANGED <<running, paused, success, closing, memory, disk, pc, todo, item, history>>

(* _set_busy_ui(True)                                                      *)
SetBusyUI ==
  /\ ~closing /\ idle # <<>> /\ Head(idle) = "busy"
  /\ idle' = Tail(idle)
  /\ buttons' = buttons \ {"build"} /\ running' = TRUE
  /\ UNCHANGED <<paused, success, closing, memory, disk, pc, todo, item, history>>

(* pipeline_success is not reset.                                          *)
FinishWork_KeepsSuccess ==
  /\ ~closing /\ idle # <<>> /\ Head(idle) = "finish"
  /\ idle' = Tail(idle)
  /\ buttons' = {"build"} /\ running' = FALSE
  /\ \/ success /\ built' = FALSE
     \/ UNCHANGED built
  /\ UNCHANGED <<paused, success, closing, memory, disk, pc, todo, item, dropped, starts>>

(* _finish_work: it ends the work and starts the NVMe compilation of an    *)
(* index that was built, if the box "compile afterwards" is ticked (by the *)
(* user, or by on_one_click_clicked).                                      *)
FinishWork ==
  /\ ~closing /\ idle # <<>> /\ Head(idle) = "finish"
  /\ idle' = Tail(idle)
  /\ buttons' = {"build"} /\ running' = FALSE
  /\ \/ success /\ success' = FALSE /\ built' = FALSE
     \/ UNCHANGED <<success, built>>
  /\ UNCHANGED <<paused, closing, memory, disk, pc, todo, item, dropped, starts>>

(* on_pause_clicked                                                        *)
OnPauseClicked ==
  /\ ~closing /\ "pause" \in buttons
  /\ paused' = TRUE
  /\ buttons' = (buttons \cup {"resume"}) \ {"pause"}
  /\ UNCHANGED <<running, success, idle, closing, memory, disk, pc, todo, item, history>>

(* on_resume_clicked                                                       *)
OnResumeClicked ==
  /\ ~closing /\ "resume" \in buttons
  /\ paused' = FALSE
  /\ buttons' = (buttons \cup {"pause"}) \ {"resume"}
  /\ UNCHANGED <<running, success, idle, closing, memory, disk, pc, todo, item, history>>

(* on_key_changed: every key stroke in the API key's field saves the state.*)
OnKeyChanged ==
  /\ ~closing
  /\ Save(memory)
  /\ UNCHANGED <<window, memory, fetched, file, table, pc, todo, item, history>>

(* on_window_delete up to thread.join(timeout=5): the GTK thread runs no   *)
(* more callbacks, the children are terminated.                            *)
OnWindowDelete ==
  /\ ~closing /\ starts < MaxStarts
  /\ closing' = TRUE /\ running' = FALSE /\ paused' = FALSE
  /\ UNCHANGED <<success, buttons, idle, memory, disk, pc, todo, item, history>>

(* The process is gone and the next one reads what the last one left.      *)
Restart(left) ==
  /\ starts < MaxStarts /\ starts' = starts + 1
  /\ saved' = left /\ memory' = Loaded(left)
  /\ running' = FALSE /\ paused' = FALSE /\ success' = FALSE
  /\ buttons' = {"build"}
  /\ idle' = <<>> /\ closing' = FALSE
  /\ pc' = [t \in Threads |-> IF pc[t] = "off" THEN "off" ELSE "died"] /\ todo' = [t \in Threads |-> {}]
  /\ item' = [t \in Threads |-> NoSource]
  /\ built' = FALSE
  /\ UNCHANGED <<fetched, file, table, dropped>>

(* on_window_delete after the join: the last save; its errors are caught.  *)
WindowGone == closing /\ \E left \in {{memory}} \cup (IF Faults THEN {saved, Torn} ELSE {}) : Restart(left)

(* A crash; it, or a save before it, may leave a torn file.                *)
Crash == Faults /\ \E left \in {saved, Torn} : Restart(left)

(***************************************************************************)
(* The pipeline thread: run_quality_pipeline.                              *)
(***************************************************************************)

InLoop(t) == pc[t] \in {"docs", "sites", "apis", "dumps"}

(* The loops of all phases leave when the flag has fallen.                 *)
LoopStops(t) ==
  /\ InLoop(t) /\ todo[t] # {} /\ ~running
  /\ todo' = [todo EXCEPT ![t] = {}]
  /\ UNCHANGED <<window, memory, disk, pc, item, history>>

(* Phases 1, 2 and 4 to 6: a folder that exists is not collected again; a  *)
(* download that breaks may leave the folder, without its documents.       *)
(* Some collectors save their progress; phases 1 and 2 catch every error.  *)
CollectDocs(t, d) ==
  /\ pc[t] \in {"docs", "apis"} /\ d \in todo[t] /\ Going
  /\ \/ d \in fetched /\ UNCHANGED <<fetched, file>>
     \/ d \notin fetched /\ fetched' = fetched \cup {d} /\ file' = [file EXCEPT ![d] = "full"]
     \/ d \notin fetched /\ Faults /\ fetched' \in {fetched, fetched \cup {d}} /\ UNCHANGED file
  /\ \/ (UNCHANGED saved \/ Save(memory)) /\ UNCHANGED pc
     \/ pc[t] = "apis" /\ SaveRaises(t)
  /\ Visited(t, d)
  /\ UNCHANGED <<window, memory, table, item, history>>

(* What the next phase visits.                                             *)
NextPhase == [docs |-> "sites", sites |-> "apis", apis |-> "dumps_begin"]
ToVisit   == [docs |-> Sites,   sites |-> LateDocs, apis |-> {}]

(* After a phase the flag is read again.                                   *)
PhaseEnds(t) ==
  /\ pc[t] \in {"docs", "sites", "apis"} /\ todo[t] = {}
  /\ IF running
       THEN /\ Goto(t, NextPhase[pc[t]])
            /\ todo' = [todo EXCEPT ![t] = ToVisit[pc[t]]]
            /\ UNCHANGED idle
       ELSE Finish(t, "stopped") /\ UNCHANGED todo
  /\ UNCHANGED <<running, paused, success, buttons, closing, memory, disk, item, history>>

-----------------------------------------------------------------------------
(* Phase 3: _process_one_se_site.                                          *)

SkipSite(t, s) ==
  /\ pc[t] = "sites" /\ s \in todo[t] /\ Going /\ s \in memory
  /\ Visited(t, s)
  /\ UNCHANGED <<window, memory, disk, pc, item, history>>

(* _download_one_stackexchange.  A folder with Posts.xml is taken as it is, *)
(* an archive found on disk is unpacked; a fresh download returns True     *)
(* without having been unpacked.                                           *)
DownloadSite(t, s) ==
  /\ pc[t] = "sites" /\ s \in todo[t] /\ Going /\ s \notin memory
  /\ \/ file[s] = "full" /\ UNCHANGED file
     \/ file[s] = "packed" /\ file' = [file EXCEPT ![s] = "full"]
     \/ file[s] \in {"none", "part"} /\ file' = [file EXCEPT ![s] = "packed"]
  /\ Goto(t, "site_got") /\ Begin(t, s)
  /\ UNCHANGED <<window, memory, saved, fetched, table, history>>

(* The network fails or the flag falls: parts are removed, a piece that    *)
(* wget has begun stays.  An archive that cannot be unpacked is removed,   *)
(* unless there is no 7z at all.                                           *)
DownloadSiteFails(t, s) ==
  /\ pc[t] = "sites" /\ s \in todo[t] /\ Going /\ s \notin memory
  /\ \/ file[s] \in {"none", "part"}
        /\ \E left \in {"none", "part"} : file' = [file EXCEPT ![s] = left]
     \/ Faults /\ file[s] = "packed"
        /\ \E left \in {"none", "packed"} : file' = [file EXCEPT ![s] = left]
  /\ Visited(t, s)
  /\ UNCHANGED <<window, memory, saved, fetched, table, pc, item, history>>

StartSiteIngest(t) ==
  /\ pc[t] = "site_got"
  /\ IF running
       THEN Goto(t, "site_ingest") /\ UNCHANGED <<todo, item>>
       ELSE Goto(t, "sites") /\ Leave(t)
  /\ UNCHANGED <<window, memory, disk, history>>

(* The sites ingest_stackexchange.py finds a Posts.xml of.                 *)
OnDisk == {s \in Sites : file[s] = "full"}

(* It adds the questions of one site after the other.  It may fail or be   *)
(* terminated at any of them, and what cannot be embedded is left out      *)
(* without a word.                                                         *)
ChildIndexes(sites) ==
  \E done \in (IF Faults \/ closing THEN SUBSET sites ELSE {sites}) : table' = table \cup done

(* ingest_stackexchange.py <site>; its exit code is not looked at.         *)
IngestSite(t) ==
  /\ pc[t] = "site_ingest"
  /\ ChildIndexes({item[t]} \cap OnDisk)
  /\ Goto(t, "site_clean")
  /\ UNCHANGED <<window, memory, saved, fetched, file, todo, item, history>>

(* Archive and folder are removed; errors are caught.                      *)
CleanSite(t) ==
  /\ pc[t] = "site_clean"
  /\ \/ file' = [file EXCEPT ![item[t]] = "none"]
     \/ Faults /\ UNCHANGED file
  /\ Goto(t, "site_mark")
  /\ UNCHANGED <<window, memory, saved, fetched, table, todo, item, history>>

MarkSite(t) ==
  /\ pc[t] = "site_mark"
  /\ memory' = memory \cup {item[t]}
  /\ \/ /\ IF item[t] \in memory THEN UNCHANGED saved ELSE Save(memory')
        /\ Goto(t, "sites") /\ Leave(t)
     \/ item[t] \notin memory /\ SaveRaises(t) /\ UNCHANGED <<todo, item>>
  /\ UNCHANGED <<window, fetched, file, table, history>>

-----------------------------------------------------------------------------
(* Phase 7: download_dumps.                                                *)

(* The dumps of the catalogue and those found in the folder, without the   *)
(* processed ones.                                                         *)
Pending == (Remote \cup {d \in Local : file[d] # "none"}) \ memory

DumpsBegin(t) ==
  /\ pc[t] = "dumps_begin"
  /\ todo' = [todo EXCEPT ![t] = Pending]
  /\ IF Pending = {} THEN Finish(t, "dumped") ELSE Goto(t, "dumps") /\ UNCHANGED idle
  /\ UNCHANGED <<running, paused, success, buttons, closing, memory, disk, item, history>>

(* The file is there, or wget fetches it.  A big enough piece of a broken  *)
(* download counts as the file.  `continue' and the break after wget leave *)
(* the dump behind.                                                        *)
FetchDump(t, d) ==
  /\ pc[t] = "dumps" /\ d \in todo[t] /\ Going
  /\ d \in Local => todo[t] \cap Remote = {}
  /\ \/ /\ file[d] # "none" /\ UNCHANGED file
        /\ Goto(t, "dump_got") /\ Begin(t, d)
     \/ /\ d \in Remote /\ file[d] # "full"
        /\ file' = [file EXCEPT ![d] = "full"]
        /\ Goto(t, "dump_got") /\ Begin(t, d)
     \/ /\ d \in Remote /\ file[d] # "full"
        /\ \E left \in {file[d], "part"} : file' = [file EXCEPT ![d] = left]
        /\ Visited(t, d) /\ UNCHANGED <<pc, item>>
     \/ /\ d \in Local /\ file[d] = "none" /\ UNCHANGED file
        /\ Visited(t, d) /\ UNCHANGED <<pc, item>>
  /\ UNCHANGED <<window, memory, saved, fetched, table, history>>

(* `if not self.running: break' before the ingest (place "dump_got") and   *)
(* after it ("dump_check").                                                *)
CheckRunning(t) ==
  /\ pc[t] \in {"dump_got", "dump_check"}
  /\ IF running
       THEN /\ Goto(t, IF pc[t] = "dump_got" THEN "dump_ingest" ELSE "dump_mark")
            /\ UNCHANGED <<todo, item>>
       ELSE Goto(t, "dumps") /\ todo' = [todo EXCEPT ![t] = {}] /\ item' = [item EXCEPT ![t] = NoSource]
  /\ UNCHANGED <<window, memory, disk, history>>

(* The child's exit code is not looked at.                                 *)
IngestDump_AnyExitCode(t) ==
  /\ pc[t] = "dump_ingest"
  /\ \/ /\ file[item[t]] = "full"
        /\ table' = table \cup {item[t]}
        /\ file' \in {[file EXCEPT ![item[t]] = "none"]} \cup (IF Faults THEN {file} ELSE {})
     \/ /\ Faults \/ ~running \/ file[item[t]] # "full"
        /\ UNCHANGED <<table, file>>
  /\ Goto(t, "dump_check")
  /\ UNCHANGED <<window, memory, saved, fetched, todo, item, history>>

(* The child deletes its file on every way out.                            *)
IngestDump_AlwaysDeletes(t) ==
  /\ pc[t] = "dump_ingest"
  /\ \/ /\ file[item[t]] = "full"
        /\ table' = table \cup {item[t]}
        /\ Goto(t, "dump_check") /\ UNCHANGED <<todo, item>>
     \/ /\ Faults \/ ~running \/ file[item[t]] # "full"
        /\ Goto(t, "dumps") /\ Leave(t)
        /\ UNCHANGED table
  /\ file' = [file EXCEPT ![item[t]] = "none"]
  /\ UNCHANGED <<window, memory, saved, fetched, history>>

(* ingest_single.py: a complete file is indexed and then deleted by the    *)
(* child itself.  It fails on a truncated file, when it is terminated      *)
(* because the flag fell, and at any time; then the dump is left behind.   *)
IngestDump(t) ==
  /\ pc[t] = "dump_ingest"
  /\ \/ /\ file[item[t]] = "full"
        /\ table' = table \cup {item[t]}
        /\ file' \in {[file EXCEPT ![item[t]] = "none"]} \cup (IF Faults THEN {file} ELSE {})
        /\ Goto(t, "dump_check") /\ UNCHANGED <<todo, item>>
     \/ /\ Faults \/ ~running \/ file[item[t]] # "full"
        /\ Goto(t, "dumps") /\ Leave(t)
        /\ UNCHANGED <<table, file>>
  /\ UNCHANGED <<window, memory, saved, fetched, history>>

MarkDump(t) ==
  /\ pc[t] = "dump_mark"
  /\ memory' = memory \cup {item[t]}
  /\ \/ Save(memory') /\ Goto(t, "dump_unlink")
     \/ SaveRaises(t)
  /\ UNCHANGED <<window, fetched, file, table, todo, item, history>>

UnlinkDump(t) ==
  /\ pc[t] = "dump_unlink"
  /\ \/ file' = [file EXCEPT ![item[t]] = "none"]
     \/ Faults /\ UNCHANGED file
  /\ Goto(t, "dumps") /\ Leave(t)
  /\ UNCHANGED <<window, memory, saved, fetched, table, history>>

(* After its loop download_dumps schedules _finish_work, called by the     *)
(* pipeline or not.                                                        *)
DumpsEnd(t) ==
  /\ pc[t] = "dumps" /\ todo[t] = {}
  /\ Finish(t, "dumped")
  /\ UNCHANGED <<running, paused, success, buttons, closing, memory, disk, todo, item, history>>

AfterDumps(t) ==
  /\ pc[t] = "dumped"
  /\ IF running THEN Goto(t, "prime") /\ UNCHANGED idle ELSE Finish(t, "stopped")
  /\ UNCHANGED <<running, paused, success, buttons, closing, memory, disk, todo, item, history>>

-----------------------------------------------------------------------------
(* Phase 8: run_prime_indexing(fresh=True).                                *)

(* ingest_stackexchange.py without an argument: every site still on disk.  *)
IngestAllSites(t) ==
  /\ pc[t] = "prime"
  /\ ChildIndexes(OnDisk)
  /\ Goto(t, "prime_check")
  /\ UNCHANGED <<window, memory, saved, fetched, file, todo, item, history>>

BeforeBuild(t) ==
  /\ pc[t] = "prime_check"
  /\ IF running THEN Goto(t, "build_start") /\ UNCHANGED idle ELSE Finish(t, "stopped")
  /\ UNCHANGED <<running, paused, success, buttons, closing, memory, disk, todo, item, history>>

(* iter_indexable_files: no text files are among the files of sites and    *)
(* dumps.                                                                  *)
Indexable == {d \in Docs : file[d] = "full"}

(* build_prime_index.py --fresh: open_prime_table drops the table; the     *)
(* files to index are listed.                                              *)
FreshTable(t) ==
  /\ pc[t] = "build_start"
  /\ table' = {} /\ dropped' = dropped \cup table
  /\ todo' = [todo EXCEPT ![t] = Indexable]
  /\ Goto(t, "build")
  /\ UNCHANGED <<window, memory, saved, fetched, file, item, built, starts>>

(* A batch of files: its rows are added, then each file is deleted, also   *)
(* those not worth a row; if none is, the files stay.                      *)
IndexDocs(t, d) ==
  /\ pc[t] = "build" /\ d \in todo[t]
  /\ \/ /\ table' = table \cup {d}
        /\ file' \in {[file EXCEPT ![d] = "none"]} \cup (IF Faults THEN {file} ELSE {})
     \/ UNCHANGED table /\ file' \in {file, [file EXCEPT ![d] = "none"]}
  /\ Visited(t, d)
  /\ UNCHANGED <<window, memory, saved, fetched, pc, item, history>>

BuildSucceeds(t) ==
  /\ pc[t] = "build" /\ todo[t] = {}
  /\ success' = TRUE /\ built' = TRUE
  /\ Finish(t, "indexed")
  /\ UNCHANGED <<running, paused, buttons, closing, memory, disk, todo, item, dropped, starts>>

(* The child is terminated at its next line once the flag has fallen, or   *)
(* it fails.                                                               *)
BuildFails(t) ==
  /\ pc[t] \in {"build_start", "build"} /\ (Faults \/ ~running)
  /\ Finish(t, "failed")
  /\ UNCHANGED <<running, paused, success, buttons, closing, memory, disk, todo, item, history>>

-----------------------------------------------------------------------------

Phase12(t) == \/ \E d \in Docs : CollectDocs(t, d)
              \/ LoopStops(t) \/ PhaseEnds(t)

Phase3(t) == \/ \E s \in Sites : SkipSite(t, s) \/ DownloadSite(t, s) \/ DownloadSiteFails(t, s)
             \/ StartSiteIngest(t) \/ IngestSite(t) \/ CleanSite(t) \/ MarkSite(t)

Phase7(t) == \/ DumpsBegin(t)
             \/ \E d \in Dumps : FetchDump(t, d)
             \/ CheckRunning(t) \/ IngestDump(t) \/ MarkDump(t) \/ UnlinkDump(t)
             \/ DumpsEnd(t) \/ AfterDumps(t)

Phase8(t) == \/ IngestAllSites(t) \/ BeforeBuild(t) \/ FreshTable(t)
             \/ \E d \in Docs : IndexDocs(t, d)
             \/ BuildSucceeds(t) \/ BuildFails(t)

Pipeline(t) == Phase12(t) \/ Phase3(t) \/ Phase7(t) \/ Phase8(t)

GtkThread == \/ SetBusyUI \/ FinishWork \/ WindowGone
             \/ OnPauseClicked \/ OnResumeClicked \/ OnKeyChanged \/ OnWindowDelete
             \/ \E t \in Threads : OnBuildClicked(t)

Next == GtkThread \/ Crash \/ \E t \in Threads : Pipeline(t)

Spec == Init /\ [][Next]_vars

-----------------------------------------------------------------------------
(* Properties.                                                             *)

TypeOK ==
  /\ running \in BOOLEAN /\ paused \in BOOLEAN /\ success \in BOOLEAN
  /\ buttons \subseteq {"build", "pause", "resume"}
  /\ idle \in Seq({"busy", "finish"}) /\ closing \in BOOLEAN
  /\ memory \subseteq Sites \cup Dumps
  /\ saved \in {Torn} \cup {{m} : m \in SUBSET (Sites \cup Dumps)}
  /\ fetched \subseteq Docs /\ table \subseteq Sources
  /\ file \in [Sources -> {"none", "part", "packed", "full"}]
  /\ pc \in [Threads -> Places]
  /\ todo \in [Threads -> SUBSET Sources] /\ item \in [Threads -> Sources \cup {NoSource}]
  /\ dropped \subseteq Sources /\ built \in BOOLEAN /\ starts \in 1 .. MaxStarts

(* Indexed to its end once.                                                *)
Indexed == table \cup dropped

(* A dump that is remembered as processed, in memory or in the file the    *)
(* next start loads, has been indexed to its end once: download_dumps      *)
(* appends and saves only after the child's exit code 0, whatever other    *)
(* threads, stops, crashes and restarts come between.                      *)
ProcessedWasIngested == (memory \cup Loaded(saved)) \cap Dumps \subseteq Indexed

(* A dump the user put into the folder cannot be downloaded again: its     *)
(* file is kept until it has been indexed to its end.                      *)
LocalDumpsKept == \A d \in Local : file[d] = "full" \/ d \in Indexed

(* pipeline_success stands for an index that has been built and not been   *)
(* compiled yet: _finish_work, which runs more than once for a pipeline,   *)
(* starts one compilation for a build and none without one.                *)
OneCompilationPerBuild == success => built

(* When the GTK loop has run every callback, the build buttons are         *)
(* sensitive exactly when nothing is marked as running: the callbacks of   *)
(* clicks and of threads that end, in any order, agree.                    *)
ButtonTellsRunning == idle = <<>> /\ ~closing => ("build" \in buttons <=> ~running)

=============================================================================
