------------------------ MODULE CollectorPipelineProofs ------------------------
(* Proofs about CollectorPipeline.                                         *)
EXTENDS CollectorPipeline, SequenceTheorems, TLAPS

(* What a thread works on, by its place.  A dump past its ingest has been  *)
(* indexed: its name may be saved and its file removed.                    *)
SitePlaces  == {"site_got", "site_ingest", "site_clean", "site_mark"}
DumpPlaces  == {"dump_got", "dump_ingest", "dump_check", "dump_mark", "dump_unlink"}
AfterIngest == {"dump_check", "dump_mark", "dump_unlink"}

WorkItems == \A t \in Threads :
  /\ pc[t] \in SitePlaces  => item[t] \in Sites
  /\ pc[t] \in DumpPlaces  => item[t] \in Dumps
  /\ pc[t] \in AfterIngest => item[t] \in Indexed

SavedDumps == \A m \in saved : m \cap Dumps \subseteq Indexed

(* The inductive invariant.                                                *)
Inv == /\ TypeOK /\ WorkItems
       /\ memory \cap Dumps \subseteq Indexed /\ SavedDumps
       /\ LocalDumpsKept

(* Rows are moved from the table to the dropped ones, never lost to both.  *)
LEMMA IndexedGrows ==
  ASSUME TypeOK, Next
  PROVE  Indexed \subseteq Indexed'
PROOF
<1>1. CASE GtkThread
  BY <1>1 DEF GtkThread, SetBusyUI, FinishWork, WindowGone, Restart, OnPauseClicked,
     OnResumeClicked, OnKeyChanged, OnWindowDelete, OnBuildClicked, disk, history, Indexed
<1>2. CASE Crash
  BY <1>2 DEF Crash, Restart, Indexed
<1>3. ASSUME NEW t \in Threads, Pipeline(t) PROVE Indexed \subseteq Indexed'
  <2>1. CASE Phase12(t)
    BY <2>1 DEF Phase12, CollectDocs, LoopStops, PhaseEnds, disk, history, Indexed
  <2>2. CASE Phase3(t)
    BY <2>2 DEF Phase3, SkipSite, DownloadSite, DownloadSiteFails, StartSiteIngest, IngestSite,
         ChildIndexes, OnDisk, CleanSite,
       MarkSite, disk, history, Indexed
  <2>3. CASE Phase7(t)
    BY <2>3 DEF Phase7, DumpsBegin, FetchDump, CheckRunning, IngestDump, MarkDump,
       UnlinkDump, DumpsEnd, AfterDumps, disk, history, Indexed
  <2>4. CASE Phase8(t)
    BY <2>4 DEF Phase8, IngestAllSites, ChildIndexes, OnDisk, Indexable, BeforeBuild, FreshTable, IndexDocs, BuildSucceeds,
       BuildFails, disk, history, Indexed
  <2> QED BY <1>3, <2>1, <2>2, <2>3, <2>4 DEF Pipeline
<1> QED BY <1>1, <1>2, <1>3 DEF Next

(* Scheduling a callback keeps the queue a queue of callbacks.             *)
LEMMA CallbackQueue ==
  ASSUME NEW q \in Seq({"busy", "finish"}), NEW c \in {"busy", "finish"}
  PROVE  /\ Append(q, c) \in Seq({"busy", "finish"}) /\ Append(q, c) # <<>>
         /\ q # <<>> => Tail(q) \in Seq({"busy", "finish"})
PROOF BY AppendProperties, HeadTailProperties


(* The helpers of the threads' steps, each with the types of its operands. *)
LEMMA GotoType ==
  ASSUME pc \in [Threads -> Places], NEW t \in Threads, NEW place \in Places, Goto(t, place)
  PROVE  pc' \in [Threads -> Places]
PROOF BY DEF Goto

LEMMA LoopTypes ==
  ASSUME todo \in [Threads -> SUBSET Sources], item \in [Threads -> Sources \cup {NoSource}],
         NEW t \in Threads, NEW s \in Sources
  PROVE  /\ Visited(t, s) => todo' \in [Threads -> SUBSET Sources]
         /\ Begin(t, s) => /\ todo' \in [Threads -> SUBSET Sources]
                           /\ item' \in [Threads -> Sources \cup {NoSource}]
         /\ Leave(t) => /\ todo' \in [Threads -> SUBSET Sources]
                        /\ item' \in [Threads -> Sources \cup {NoSource}]
PROOF
<1>1. Visited(t, s) => todo' \in [Threads -> SUBSET Sources]  BY DEF Visited
<1>2. Begin(t, s) => /\ todo' \in [Threads -> SUBSET Sources]
                     /\ item' \in [Threads -> Sources \cup {NoSource}]  BY DEF Begin
<1>3. Leave(t) => /\ todo' \in [Threads -> SUBSET Sources]
                  /\ item' \in [Threads -> Sources \cup {NoSource}]  BY DEF Leave, Visited
<1> QED BY <1>1, <1>2, <1>3

LEMMA ItemTypes ==
  ASSUME WorkItems, NEW t \in Threads
  PROVE  /\ pc[t] \in {"site_got", "site_ingest", "site_clean", "site_mark"} => item[t] \in Sites
         /\ pc[t] \in {"dump_got", "dump_ingest", "dump_check", "dump_mark", "dump_unlink"}
              => item[t] \in Dumps
PROOF BY DEF WorkItems, SitePlaces, DumpPlaces

LEMMA FileTypes ==
  ASSUME file \in [Sources -> {"none", "part", "packed", "full"}],
         NEW s \in Sources, NEW left \in {"none", "part", "packed", "full"}
  PROVE  /\ [file EXCEPT ![s] = left] \in [Sources -> {"none", "part", "packed", "full"}]
         /\ file[s] \in {"none", "part", "packed", "full"}
PROOF OBVIOUS

(* A restart, whatever it finds of the saved state.                        *)
LEMMA RestartTypes ==
  ASSUME TypeOK, NEW left \in {Torn} \cup {{m} : m \in SUBSET (Sites \cup Dumps)}, Restart(left)
  PROVE  TypeOK'
PROOF
<1>1. Loaded(left) \subseteq Sites \cup Dumps  BY DEF Loaded, Torn
<1>2. starts' \in 1 .. MaxStarts  BY BoundsAssumption DEF TypeOK, Restart
<1>3. pc' \in [Threads -> Places]  BY DEF TypeOK, Restart, Places, Ended
<1>4. /\ todo' \in [Threads -> SUBSET Sources]
      /\ item' \in [Threads -> Sources \cup {NoSource}]  BY DEF Restart
<1>5. idle' \in Seq({"busy", "finish"})  BY DEF Restart
<1> QED BY <1>1, <1>2, <1>3, <1>4, <1>5 DEF TypeOK, Restart

(* Types survive every step.                                               *)
LEMMA TypeStep ==
  ASSUME Inv, Next
  PROVE  TypeOK'
PROOF
<1> USE DEF TypeOK, window, disk, history, Docs, Dumps, Sources, Torn
<1>1. ASSUME NEW t \in Threads, Phase12(t) PROVE TypeOK'
  <2>1. ASSUME NEW d \in Docs, CollectDocs(t, d) PROVE TypeOK'
    BY <2>1, GotoType, LoopTypes DEF Inv, CollectDocs, SaveRaises, Save, Places, Ended
  <2>2. CASE LoopStops(t)
    BY <2>2 DEF Inv, LoopStops, Places, Ended
  <2>3. CASE PhaseEnds(t)
    <3>1. NextPhase[pc[t]] \in Places /\ ToVisit[pc[t]] \subseteq Sources
      BY <2>3 DEF PhaseEnds, NextPhase, ToVisit, Places, Ended
    <3>2. CASE running
      <4>1. pc' \in [Threads -> Places]
        BY <2>3, <3>1, <3>2, GotoType DEF Inv, PhaseEnds
      <4>2. todo' \in [Threads -> SUBSET Sources]
        BY <2>3, <3>1, <3>2 DEF Inv, PhaseEnds
      <4> QED BY <2>3, <3>2, <4>1, <4>2 DEF Inv, PhaseEnds
    <3>3. CASE ~running
      <4>1. pc' \in [Threads -> Places]
        BY <2>3, <3>3, GotoType DEF Inv, PhaseEnds, Finish, Places, Ended
      <4>2. idle' \in Seq({"busy", "finish"})
        BY <2>3, <3>3, CallbackQueue DEF Inv, PhaseEnds, Finish
      <4> QED BY <2>3, <3>3, <4>1, <4>2 DEF Inv, PhaseEnds
    <3> QED BY <3>2, <3>3
  <2> QED BY <1>1, <2>1, <2>2, <2>3 DEF Phase12
<1>2. ASSUME NEW t \in Threads, Phase3(t) PROVE TypeOK'
  <2>1. ASSUME NEW s \in Sites, SkipSite(t, s) PROVE TypeOK'
    BY <2>1, LoopTypes DEF Inv, SkipSite, Places, Ended
  <2>2. ASSUME NEW s \in Sites, DownloadSite(t, s) PROVE TypeOK'
    <3>1. file' \in [Sources -> {"none", "part", "packed", "full"}]
      BY <2>2, FileTypes DEF Inv, DownloadSite
    <3> QED BY <2>2, <3>1, GotoType, LoopTypes DEF Inv, DownloadSite, Places, Ended
  <2>7. ASSUME NEW s \in Sites, DownloadSiteFails(t, s) PROVE TypeOK'
    <3>1. file' \in [Sources -> {"none", "part", "packed", "full"}]
      BY <2>7, FileTypes DEF Inv, DownloadSiteFails
    <3> QED BY <2>7, <3>1, LoopTypes DEF Inv, DownloadSiteFails
  <2>3. CASE StartSiteIngest(t)
    BY <2>3, GotoType, LoopTypes, ItemTypes DEF Inv, StartSiteIngest, Places, Ended
  <2>4. CASE IngestSite(t)
    BY <2>4, GotoType, ItemTypes DEF Inv, IngestSite, ChildIndexes, OnDisk, TypeOK, Sources, Places, Ended
  <2>5. CASE CleanSite(t)
    <3>1. item[t] \in Sources  BY <2>5, ItemTypes DEF Inv, CleanSite
    <3>2. file' \in [Sources -> {"none", "part", "packed", "full"}]
      BY <2>5, <3>1, FileTypes DEF Inv, CleanSite
    <3> QED BY <2>5, <3>2, GotoType DEF Inv, CleanSite, Places, Ended
  <2>6. CASE MarkSite(t)
    BY <2>6, GotoType, LoopTypes, ItemTypes DEF Inv, MarkSite, SaveRaises, Save, Places, Ended
  <2> QED BY <1>2, <2>1, <2>2, <2>3, <2>4, <2>5, <2>6, <2>7 DEF Phase3
<1>3. ASSUME NEW t \in Threads, Phase7(t) PROVE TypeOK'
  <2>1. CASE DumpsBegin(t)
    BY <2>1, CallbackQueue, GotoType, LoopTypes DEF Inv, DumpsBegin, Finish, Pending, Places, Ended
  <2>2. ASSUME NEW d \in Dumps, FetchDump(t, d) PROVE TypeOK'
    <3>1. file' \in [Sources -> {"none", "part", "packed", "full"}]
      BY <2>2, FileTypes DEF Inv, FetchDump
    <3>2. pc' \in [Threads -> Places]
      BY <2>2, GotoType DEF Inv, FetchDump, Places, Ended
    <3>3. /\ todo' \in [Threads -> SUBSET Sources]
          /\ item' \in [Threads -> Sources \cup {NoSource}]
      BY <2>2, LoopTypes DEF Inv, FetchDump
    <3> QED BY <2>2, <3>1, <3>2, <3>3 DEF Inv, FetchDump
  <2>3. CASE CheckRunning(t)
    BY <2>3, GotoType DEF Inv, CheckRunning, Places, Ended
  <2>4. CASE IngestDump(t)
    <3>1. item[t] \in Sources  BY <2>4, ItemTypes DEF Inv, IngestDump
    <3>2. file' \in [Sources -> {"none", "part", "packed", "full"}]
      BY <2>4, <3>1, FileTypes DEF Inv, IngestDump
    <3>3. pc' \in [Threads -> Places]
      BY <2>4, GotoType DEF Inv, IngestDump, Places, Ended
    <3>4. /\ todo' \in [Threads -> SUBSET Sources]
          /\ item' \in [Threads -> Sources \cup {NoSource}]
      BY <2>4, <3>1, LoopTypes DEF Inv, IngestDump
    <3>5. table' \subseteq Sources  BY <2>4, <3>1 DEF Inv, IngestDump
    <3> QED BY <2>4, <3>2, <3>3, <3>4, <3>5 DEF Inv, IngestDump
  <2>5. CASE MarkDump(t)
    BY <2>5, GotoType, ItemTypes DEF Inv, MarkDump, SaveRaises, Save, Places, Ended
  <2>6. CASE UnlinkDump(t)
    <3>1. item[t] \in Sources  BY <2>6, ItemTypes DEF Inv, UnlinkDump
    <3>2. file' \in [Sources -> {"none", "part", "packed", "full"}]
      BY <2>6, <3>1, FileTypes DEF Inv, UnlinkDump
    <3> QED BY <2>6, <3>1, <3>2, GotoType, LoopTypes DEF Inv, UnlinkDump, Places, Ended
  <2>7. CASE DumpsEnd(t)
    BY <2>7, CallbackQueue, GotoType DEF Inv, DumpsEnd, Finish, Places, Ended
  <2>8. CASE AfterDumps(t)
    BY <2>8, CallbackQueue, GotoType DEF Inv, AfterDumps, Finish, Places, Ended
  <2> QED BY <1>3, <2>1, <2>2, <2>3, <2>4, <2>5, <2>6, <2>7, <2>8 DEF Phase7
<1>4. ASSUME NEW t \in Threads, Phase8(t) PROVE TypeOK'
  <2>1. CASE IngestAllSites(t)
    BY <2>1, GotoType DEF Inv, IngestAllSites, ChildIndexes, OnDisk, TypeOK, Sources, Places, Ended
  <2>2. CASE BeforeBuild(t)
    BY <2>2, CallbackQueue, GotoType DEF Inv, BeforeBuild, Finish, Places, Ended
  <2>3. CASE FreshTable(t)
    BY <2>3, GotoType DEF Inv, FreshTable, Indexable, Places, Ended
  <2>4. ASSUME NEW d \in Docs, IndexDocs(t, d) PROVE TypeOK'
    <3>1. file' \in [Sources -> {"none", "part", "packed", "full"}]
      BY <2>4, FileTypes DEF Inv, IndexDocs
    <3> QED BY <2>4, <3>1, LoopTypes DEF Inv, IndexDocs
  <2>5. CASE BuildSucceeds(t)
    BY <2>5, CallbackQueue, GotoType DEF Inv, BuildSucceeds, Finish, Places, Ended
  <2>6. CASE BuildFails(t)
    BY <2>6, CallbackQueue, GotoType DEF Inv, BuildFails, Finish, Places, Ended
  <2> QED BY <1>4, <2>1, <2>2, <2>3, <2>4, <2>5, <2>6 DEF Phase8
<1>5. CASE GtkThread
  <2>1. CASE SetBusyUI
    BY <2>1, CallbackQueue DEF Inv, SetBusyUI
  <2>2. CASE FinishWork
    BY <2>2, CallbackQueue DEF Inv, FinishWork
  <2>3. CASE WindowGone
    BY <2>3, RestartTypes DEF Inv, WindowGone
  <2>4. CASE OnPauseClicked
    BY <2>4 DEF Inv, OnPauseClicked
  <2>5. CASE OnResumeClicked
    BY <2>5 DEF Inv, OnResumeClicked
  <2>6. CASE OnKeyChanged
    BY <2>6 DEF Inv, OnKeyChanged, Save
  <2>7. CASE OnWindowDelete
    BY <2>7 DEF Inv, OnWindowDelete
  <2>8. ASSUME NEW t \in Threads, OnBuildClicked(t) PROVE TypeOK'
    BY <2>8, CallbackQueue, GotoType DEF Inv, OnBuildClicked, Places, Ended
  <2> QED BY <1>5, <2>1, <2>2, <2>3, <2>4, <2>5, <2>6, <2>7, <2>8 DEF GtkThread
<1>6. CASE Crash
  BY <1>6, RestartTypes DEF Inv, Crash
<1> QED BY <1>1, <1>2, <1>3, <1>4, <1>5, <1>6 DEF Next, Pipeline

(* Of the state a step reaches, what was indexed before is still indexed.  *)
LEMMA WorkItemsStep ==
  ASSUME Inv, Next
  PROVE  WorkItems'
PROOF
<1> DEFINE Holds(u) == /\ pc[u] \in SitePlaces  => item[u] \in Sites
                       /\ pc[u] \in DumpPlaces  => item[u] \in Dumps
                       /\ pc[u] \in AfterIngest => item[u] \in Indexed
<1>g. Indexed \subseteq Indexed'  BY IndexedGrows DEF Inv
<1>o. \A u \in Threads : Holds(u)  BY DEF Inv, WorkItems
<1>t. /\ pc \in [Threads -> Places] /\ item \in [Threads -> Sources \cup {NoSource}]
  BY DEF Inv, TypeOK
<1>k. ASSUME NEW u \in Threads, pc'[u] = pc[u], item'[u] = item[u] PROVE Holds(u)'
  BY <1>k, <1>o, <1>g
<1>e. ASSUME NEW u \in Threads, pc'[u] \notin SitePlaces \cup DumpPlaces PROVE Holds(u)'
  BY <1>e DEF DumpPlaces, AfterIngest
<1>1. ASSUME NEW t \in Threads, Pipeline(t) PROVE WorkItems'
  <2>1. \A u \in Threads \ {t} : pc'[u] = pc[u] /\ item'[u] = item[u]
    <3>1. CASE Phase12(t)
      BY <1>t, <3>1 DEF Phase12, CollectDocs, LoopStops, PhaseEnds, SaveRaises, Goto, Finish
    <3>2. CASE Phase3(t)
      BY <1>t, <3>2 DEF Phase3, SkipSite, DownloadSite, DownloadSiteFails, StartSiteIngest, IngestSite,
         CleanSite,
         MarkSite, SaveRaises, Goto, Begin, Leave
    <3>3. CASE Phase7(t)
      BY <1>t, <3>3 DEF Phase7, DumpsBegin, FetchDump, CheckRunning, IngestDump, MarkDump,
         UnlinkDump, DumpsEnd, AfterDumps, SaveRaises, Goto, Begin, Leave, Finish
    <3>4. CASE Phase8(t)
      BY <1>t, <3>4 DEF Phase8, IngestAllSites, BeforeBuild, FreshTable, IndexDocs,
         BuildSucceeds, BuildFails, Goto, Finish
    <3> QED BY <1>1, <3>1, <3>2, <3>3, <3>4 DEF Pipeline
  <2>2. Holds(t)'
    <3>1. CASE Phase12(t)
      BY <1>t, <1>o, <1>k, <1>e, <3>1 DEF Phase12, CollectDocs, LoopStops, PhaseEnds, SaveRaises,
         Goto, Finish, NextPhase, SitePlaces, DumpPlaces
    <3>2. CASE Phase3(t)
      <4>1. ASSUME NEW s \in Sites,
                   SkipSite(t, s) \/ DownloadSite(t, s) \/ DownloadSiteFails(t, s)
            PROVE  Holds(t)'
        BY <1>t, <1>k, <4>1 DEF SkipSite, DownloadSite, DownloadSiteFails, Goto, Begin, SitePlaces, DumpPlaces,
           AfterIngest
      <4>2. CASE StartSiteIngest(t) \/ IngestSite(t) \/ CleanSite(t) \/ MarkSite(t)
        BY <1>t, <1>o, <4>2 DEF StartSiteIngest, IngestSite, CleanSite, MarkSite, SaveRaises,
           Goto, Leave, SitePlaces, DumpPlaces, AfterIngest
      <4> QED BY <3>2, <4>1, <4>2 DEF Phase3
    <3>3. CASE Phase7(t)
      <4>1. ASSUME NEW d \in Dumps, FetchDump(t, d) PROVE Holds(t)'
        BY <1>t, <1>k, <4>1 DEF FetchDump, Goto, Begin, SitePlaces, DumpPlaces, AfterIngest
      <4>2. CASE CheckRunning(t)
        BY <1>t, <1>o, <1>g, <4>2 DEF CheckRunning, Goto, SitePlaces, DumpPlaces, AfterIngest
      <4>3. CASE IngestDump(t)
        BY <1>t, <1>o, <4>3 DEF IngestDump, Goto, Leave, SitePlaces, DumpPlaces, AfterIngest,
           Indexed
      <4>4. CASE MarkDump(t)
        BY <1>t, <1>o, <1>g, <4>4 DEF MarkDump, SaveRaises, Goto, SitePlaces, DumpPlaces,
           AfterIngest
      <4>5. CASE UnlinkDump(t) \/ DumpsBegin(t) \/ DumpsEnd(t) \/ AfterDumps(t)
        BY <1>t, <1>e, <4>5 DEF UnlinkDump, DumpsBegin, DumpsEnd, AfterDumps, Goto, Finish,
           SitePlaces, DumpPlaces
      <4> QED BY <3>3, <4>1, <4>2, <4>3, <4>4, <4>5 DEF Phase7
    <3>4. CASE Phase8(t)
      BY <1>t, <1>k, <1>e, <3>4 DEF Phase8, IngestAllSites, BeforeBuild, FreshTable, IndexDocs,
         BuildSucceeds, BuildFails, Goto, Finish, SitePlaces, DumpPlaces
    <3> QED BY <1>1, <3>1, <3>2, <3>3, <3>4 DEF Pipeline
  <2>3. \A u \in Threads : Holds(u)'  BY <1>k, <2>1, <2>2
  <2> QED BY <2>3 DEF WorkItems
<1>2. CASE GtkThread /\ ~WindowGone
  <2>1. \A u \in Threads : \/ pc'[u] = pc[u] /\ item'[u] = item[u]
                           \/ pc'[u] \notin SitePlaces \cup DumpPlaces
    BY <1>t, <1>2 DEF GtkThread, SetBusyUI, FinishWork, OnPauseClicked, OnResumeClicked,
       OnKeyChanged, OnWindowDelete, OnBuildClicked, Goto, SitePlaces, DumpPlaces
  <2>2. \A u \in Threads : Holds(u)'  BY <1>k, <1>e, <2>1
  <2> QED BY <2>2 DEF WorkItems
<1>3. CASE WindowGone \/ Crash
  <2>1. \A u \in Threads : pc'[u] \notin SitePlaces \cup DumpPlaces
    BY <1>3 DEF WindowGone, Crash, Restart, SitePlaces, DumpPlaces
  <2>2. \A u \in Threads : Holds(u)'  BY <1>e, <2>1
  <2> QED BY <2>2 DEF WorkItems
<1> QED BY <1>1, <1>2, <1>3 DEF Next, GtkThread

(* What is remembered and what is saved grows only by a site or by a dump  *)
(* whose ingest has ended.                                                 *)
LEMMA MemoryStep ==
  ASSUME Inv, Next
  PROVE  memory' \cap Dumps \subseteq Indexed' /\ SavedDumps'
PROOF
<1>g. Indexed \subseteq Indexed'  BY IndexedGrows DEF Inv
<1>m. memory \cap Dumps \subseteq Indexed' /\ \A m \in saved : m \cap Dumps \subseteq Indexed'
  BY <1>g DEF Inv, SavedDumps
<1>k. ASSUME memory' = memory, saved' = saved \/ saved' = {memory}
      PROVE  memory' \cap Dumps \subseteq Indexed' /\ SavedDumps'
  BY <1>k, <1>m DEF SavedDumps
<1>1. ASSUME NEW left, left \in {{memory}, saved, Torn}, Restart(left)
      PROVE  memory' \cap Dumps \subseteq Indexed' /\ SavedDumps'
  <2>1. \A m \in left : m \cap Dumps \subseteq Indexed'  BY <1>1, <1>m DEF Torn
  <2> QED BY <1>1, <2>1 DEF Restart, Loaded, SavedDumps
<1>2. CASE WindowGone \/ Crash
  BY <1>1, <1>2 DEF WindowGone, Crash
<1>3. CASE GtkThread /\ ~WindowGone
  BY <1>3, <1>k DEF GtkThread, SetBusyUI, FinishWork, OnPauseClicked, OnResumeClicked,
     OnKeyChanged, OnWindowDelete, OnBuildClicked, Save, disk
<1>4. ASSUME NEW t \in Threads, MarkSite(t)
      PROVE  memory' \cap Dumps \subseteq Indexed' /\ SavedDumps'
  <2>1. item[t] \notin Dumps
    BY <1>4, SourcesAssumption DEF Inv, WorkItems, MarkSite, SitePlaces
  <2> QED BY <1>4, <1>m, <2>1 DEF MarkSite, Save, SaveRaises, SavedDumps
<1>5. ASSUME NEW t \in Threads, MarkDump(t)
      PROVE  memory' \cap Dumps \subseteq Indexed' /\ SavedDumps'
  <2>1. item[t] \in Indexed'
    BY <1>5, <1>g DEF Inv, WorkItems, MarkDump, AfterIngest
  <2> QED BY <1>5, <1>m, <2>1 DEF MarkDump, Save, SaveRaises, SavedDumps
<1>6. ASSUME NEW t \in Threads, Pipeline(t), ~MarkSite(t), ~MarkDump(t)
      PROVE  memory' \cap Dumps \subseteq Indexed' /\ SavedDumps'
  <2>1. CASE Phase12(t)
    BY <2>1, <1>k DEF Phase12, CollectDocs, LoopStops, PhaseEnds, Save, SaveRaises, disk
  <2>2. CASE Phase3(t)
    BY <1>6, <2>2, <1>k DEF Phase3, SkipSite, DownloadSite, DownloadSiteFails, StartSiteIngest, IngestSite,
       CleanSite, disk
  <2>3. CASE Phase7(t)
    BY <1>6, <2>3, <1>k DEF Phase7, DumpsBegin, FetchDump, CheckRunning, IngestDump,
       UnlinkDump, DumpsEnd, AfterDumps, disk
  <2>4. CASE Phase8(t)
    BY <2>4, <1>k DEF Phase8, IngestAllSites, BeforeBuild, FreshTable, IndexDocs,
       BuildSucceeds, BuildFails, disk
  <2> QED BY <1>6, <2>1, <2>2, <2>3, <2>4 DEF Pipeline
<1> QED BY <1>2, <1>3, <1>4, <1>5, <1>6 DEF Next

(* A dump of the user loses its file only to its own ingest, or to the     *)
(* clean-up after it.                                                      *)
LEMMA LocalDumpsStep ==
  ASSUME Inv, Next
  PROVE  LocalDumpsKept'
PROOF
<1>g. Indexed \subseteq Indexed'  BY IndexedGrows DEF Inv
<1>f. file \in [Sources -> {"none", "part", "packed", "full"}]  BY DEF Inv, TypeOK
<1>d. \A d \in Local : /\ d \in Sources /\ d \notin Docs /\ d \notin Sites /\ d \notin Remote
                       /\ (file[d] = "full" \/ d \in Indexed)
  BY SourcesAssumption DEF Inv, LocalDumpsKept, Sources, Dumps
<1>k. ASSUME \A d \in Local : file'[d] = file[d] \/ d \in Indexed' PROVE LocalDumpsKept'
  BY <1>k, <1>d, <1>g DEF LocalDumpsKept
<1>1. CASE file' = file
  BY <1>1, <1>k
<1>2. ASSUME NEW t \in Threads, NEW d \in Docs, CollectDocs(t, d) \/ IndexDocs(t, d)
      PROVE  LocalDumpsKept'
  BY <1>2, <1>f, <1>d, <1>k DEF CollectDocs, IndexDocs
<1>3. ASSUME NEW t \in Threads, NEW s \in Sites, DownloadSite(t, s) \/ DownloadSiteFails(t, s)
      PROVE  LocalDumpsKept'
  BY <1>3, <1>f, <1>d, <1>k DEF DownloadSite, DownloadSiteFails
<1>4. ASSUME NEW t \in Threads, CleanSite(t) PROVE LocalDumpsKept'
  <2>1. item[t] \in Sites  BY <1>4 DEF Inv, WorkItems, CleanSite, SitePlaces
  <2> QED BY <1>4, <2>1, <1>f, <1>d, <1>k DEF CleanSite
<1>5. ASSUME NEW t \in Threads, NEW d \in Dumps, FetchDump(t, d) PROVE LocalDumpsKept'
  BY <1>5, <1>f, <1>d, <1>k DEF FetchDump
<1>6. ASSUME NEW t \in Threads, IngestDump(t) PROVE LocalDumpsKept'
  BY <1>6, <1>f, <1>d, <1>k DEF IngestDump, Indexed
<1>7. ASSUME NEW t \in Threads, UnlinkDump(t) PROVE LocalDumpsKept'
  <2>1. item[t] \in Indexed'  BY <1>7, <1>g DEF Inv, WorkItems, UnlinkDump, AfterIngest
  <2> QED BY <1>7, <2>1, <1>f, <1>d, <1>k DEF UnlinkDump
<1>8. ASSUME NEW t \in Threads, Pipeline(t) PROVE LocalDumpsKept'
  <2>1. CASE Phase12(t)
    BY <2>1, <1>1, <1>2 DEF Phase12, LoopStops, PhaseEnds, disk
  <2>2. CASE Phase3(t)
    BY <2>2, <1>1, <1>3, <1>4 DEF Phase3, SkipSite, StartSiteIngest, IngestSite, MarkSite, disk
  <2>3. CASE Phase7(t)
    BY <2>3, <1>1, <1>5, <1>6, <1>7 DEF Phase7, DumpsBegin, CheckRunning, MarkDump, DumpsEnd,
       AfterDumps, disk
  <2>4. CASE Phase8(t)
    BY <2>4, <1>1, <1>2 DEF Phase8, IngestAllSites, BeforeBuild, FreshTable, BuildSucceeds,
       BuildFails, disk
  <2> QED BY <1>8, <2>1, <2>2, <2>3, <2>4 DEF Pipeline
<1>9. CASE GtkThread \/ Crash
  BY <1>9, <1>1 DEF GtkThread, SetBusyUI, FinishWork, WindowGone, Crash, Restart,
     OnPauseClicked, OnResumeClicked, OnKeyChanged, OnWindowDelete, OnBuildClicked, disk
<1> QED BY <1>8, <1>9 DEF Next

LEMMA InvInit == Init => Inv
PROOF
<1> SUFFICES ASSUME Init PROVE Inv  OBVIOUS
<1>1. TypeOK
  <2>1. starts \in 1 .. MaxStarts  BY BoundsAssumption DEF Init
  <2>2. pc \in [Threads -> Places]  BY DEF Init, Places, Ended
  <2>3. idle \in Seq({"busy", "finish"})  BY DEF Init
  <2>4. /\ running \in BOOLEAN /\ paused \in BOOLEAN /\ success \in BOOLEAN
        /\ closing \in BOOLEAN /\ built \in BOOLEAN
        /\ buttons \subseteq {"build", "pause", "resume"}
    BY DEF Init
  <2>5. /\ memory \subseteq Sites \cup Dumps /\ fetched \subseteq Docs /\ table \subseteq Sources
        /\ dropped \subseteq Sources
        /\ saved \in {Torn} \cup {{m} : m \in SUBSET (Sites \cup Dumps)}
    BY DEF Init
  <2>6. file \in [Sources -> {"none", "part", "packed", "full"}]  BY DEF Init
  <2>7. todo \in [Threads -> SUBSET Sources] /\ item \in [Threads -> Sources \cup {NoSource}]
    BY DEF Init
  <2> QED BY <2>1, <2>2, <2>3, <2>4, <2>5, <2>6, <2>7 DEF TypeOK
<1>2. WorkItems  BY DEF Init, WorkItems, SitePlaces, DumpPlaces, AfterIngest
<1>3. memory \cap Dumps \subseteq Indexed /\ SavedDumps  BY DEF Init, SavedDumps, Torn
<1>4. LocalDumpsKept  BY DEF Init, LocalDumpsKept, Sources, Dumps
<1> QED BY <1>1, <1>2, <1>3, <1>4 DEF Inv

LEMMA InvStep == Inv /\ [Next]_vars => Inv'
PROOF
<1>1. ASSUME Inv, Next PROVE Inv'
  BY <1>1, TypeStep, WorkItemsStep, MemoryStep, LocalDumpsStep DEF Inv
<1>2. ASSUME Inv, UNCHANGED vars PROVE Inv'
  BY <1>2 DEF Inv, TypeOK, WorkItems, SavedDumps, LocalDumpsKept, Indexed, vars, window, disk,
     history
<1> QED BY <1>1, <1>2

LEMMA InvAlways == Spec => []Inv
PROOF BY InvInit, InvStep, PTL DEF Spec

(* Every field keeps its type: gui_collector.py's flags, its widgets, the  *)
(* queue of GLib callbacks and the saved memory, whatever the faults.      *)
THEOREM CollectorTypes == Spec => []TypeOK
PROOF
<1>1. Inv => TypeOK  BY DEF Inv
<1> QED BY <1>1, InvAlways, PTL

(* A dump that download_dumps remembers as processed, in memory or in      *)
(* collector_state.json, has been indexed to its end once, for any number  *)
(* of threads, clicks, crashes, torn files and restarts.                   *)
THEOREM ProcessedDumpsWereIndexed == Spec => []ProcessedWasIngested
PROOF
<1>1. Inv => ProcessedWasIngested  BY DEF Inv, SavedDumps, ProcessedWasIngested, Loaded
<1> QED BY <1>1, InvAlways, PTL

(* The file of a dump the user put into the folder is removed, by the      *)
(* child or by download_dumps, only after it has been indexed.             *)
THEOREM UsersDumpsAreKept == Spec => []LocalDumpsKept
PROOF
<1>1. Inv => LocalDumpsKept  BY DEF Inv
<1> QED BY <1>1, InvAlways, PTL

(* A pipeline thread touches neither widget nor flag: it only schedules.   *)
LEMMA ThreadsOnlySchedule ==
  ASSUME TypeOK, NEW t \in Threads, Pipeline(t)
  PROVE  /\ running' = running /\ buttons' = buttons /\ closing' = closing
         /\ idle' = idle \/ idle' # <<>>
         /\ BuildSucceeds(t) \/ (success' = success /\ built' = built)
PROOF
<1>1. idle \in Seq({"busy", "finish"})  BY DEF TypeOK
<1>2. Append(idle, "finish") # <<>>  BY <1>1, CallbackQueue
<1>3. CASE Phase12(t)
  BY <1>2, <1>3 DEF Phase12, CollectDocs, LoopStops, PhaseEnds, Finish, window, history
<1>4. CASE Phase3(t)
  BY <1>4 DEF Phase3, SkipSite, DownloadSite, DownloadSiteFails, StartSiteIngest, IngestSite,
         CleanSite,
     MarkSite, window, history
<1>5. CASE Phase7(t)
  BY <1>2, <1>5 DEF Phase7, DumpsBegin, FetchDump, CheckRunning, IngestDump, MarkDump,
     UnlinkDump, DumpsEnd, AfterDumps, Finish, window, history
<1>6. CASE Phase8(t)
  BY <1>2, <1>6 DEF Phase8, IngestAllSites, BeforeBuild, FreshTable, IndexDocs, BuildSucceeds,
     BuildFails, Finish, window, history
<1> QED BY <1>3, <1>4, <1>5, <1>6 DEF Pipeline

(* The buttons and the flag agree whenever GTK's queue is empty, although  *)
(* clicks set the flag at once and threads end at any time.                *)
THEOREM ButtonsAgree == Spec => []ButtonTellsRunning
PROOF
<1>1. Init => ButtonTellsRunning  BY DEF Init, ButtonTellsRunning
<1>2. TypeOK /\ ButtonTellsRunning /\ [Next]_vars => ButtonTellsRunning'
  <2> SUFFICES ASSUME TypeOK, ButtonTellsRunning, [Next]_vars PROVE ButtonTellsRunning'
    OBVIOUS
  <2>1. CASE UNCHANGED vars
    BY <2>1 DEF ButtonTellsRunning, vars, window
  <2>2. CASE SetBusyUI \/ FinishWork
    BY <2>2 DEF ButtonTellsRunning, SetBusyUI, FinishWork
  <2>3. CASE WindowGone \/ Crash
    BY <2>3 DEF ButtonTellsRunning, WindowGone, Crash, Restart
  <2>4. CASE OnPauseClicked \/ OnResumeClicked \/ OnKeyChanged \/ OnWindowDelete
    BY <2>4 DEF ButtonTellsRunning, OnPauseClicked, OnResumeClicked, OnKeyChanged,
       OnWindowDelete, window
  <2>5. ASSUME NEW t \in Threads, OnBuildClicked(t) PROVE ButtonTellsRunning'
    <3>1. idle' # <<>>  BY <2>5, CallbackQueue DEF TypeOK, OnBuildClicked
    <3> QED BY <3>1 DEF ButtonTellsRunning
  <2>6. ASSUME NEW t \in Threads, Pipeline(t) PROVE ButtonTellsRunning'
    BY <2>6, ThreadsOnlySchedule DEF ButtonTellsRunning
  <2> QED BY <2>1, <2>2, <2>3, <2>4, <2>5, <2>6 DEF Next, GtkThread
<1> QED BY <1>1, <1>2, CollectorTypes, PTL DEF Spec

(* _finish_work, however often it runs for a pipeline, compiles an index   *)
(* only if a build has succeeded since the last compilation.               *)
THEOREM OneCompilation == Spec => []OneCompilationPerBuild
PROOF
<1>1. Init => OneCompilationPerBuild  BY DEF Init, OneCompilationPerBuild
<1>2. TypeOK /\ OneCompilationPerBuild /\ [Next]_vars => OneCompilationPerBuild'
  <2> SUFFICES ASSUME TypeOK, OneCompilationPerBuild, [Next]_vars PROVE OneCompilationPerBuild'
    OBVIOUS
  <2>1. CASE UNCHANGED vars
    BY <2>1 DEF OneCompilationPerBuild, vars, window, history
  <2>2. CASE GtkThread \/ Crash
    BY <2>2 DEF OneCompilationPerBuild, GtkThread, SetBusyUI, FinishWork, WindowGone, Crash,
       Restart, OnPauseClicked, OnResumeClicked, OnKeyChanged, OnWindowDelete,
       OnBuildClicked, window, history
  <2>3. ASSUME NEW t \in Threads, Pipeline(t) PROVE OneCompilationPerBuild'
    BY <2>3, ThreadsOnlySchedule DEF OneCompilationPerBuild, BuildSucceeds
  <2> QED BY <2>1, <2>2, <2>3 DEF Next
<1> QED BY <1>1, <1>2, CollectorTypes, PTL DEF Spec

================================================================================
