------------------------- MODULE CustomCollectorProofs -------------------------
(***************************************************************************)
(* Proofs about CustomCollector: one worker at a time, and no document     *)
(* lost in a way the specification does not name.                          *)
(***************************************************************************)
EXTENDS CustomCollector, FiniteSetTheorems, TLAPS

-----------------------------------------------------------------------------
(* One worker *)

TrainPlaces == {"open", "index", "compile", "store", "clean_docs"}
Places == TrainPlaces \cup {"off", "download", "clean_table"}

Working(t) == pc[t] # "off"

\* Types of what the workers use.
TypeOK ==
    /\ open \in BOOLEAN /\ busy \in BOOLEAN
    /\ pc \in [Threads -> Places]
    /\ free \in Nat
    /\ exporting \in {"no", "copied", "deleted"}
    /\ folder \subseteq Docs /\ table \subseteq Docs /\ importing \subseteq Docs

\* The buttons are insensitive while a worker is at work and until its end is shown.
Exclusive ==
    /\ \A t, u \in Threads : Working(t) /\ Working(u) => t = u
    /\ free = 0 \/ (free = 1 /\ \A t \in Threads : ~ Working(t))
    /\ (free > 0 \/ \E t \in Threads : Working(t)) => busy

WorkerInv == TypeOK /\ Exclusive

\* No worker and nothing to be shown: the buttons may be sensitive or not.
LEMMA NobodyWorks ==
  ASSUME TypeOK, free = 0, \A t \in Threads : pc[t] = "off"
  PROVE  WorkerInv
BY DEF WorkerInv, Exclusive, Working

LEMMA WorkerInit == Init => WorkerInv
<1> SUFFICES ASSUME Init PROVE WorkerInv
  OBVIOUS
<1>1. pc \in [Threads -> Places] /\ \A t \in Threads : pc[t] = "off"
  BY DEF Init, Places
<1>2. TypeOK /\ free = 0
  BY <1>1 DEF Init, TypeOK
<1> QED
  BY <1>1, <1>2, NobodyWorks

\* A click with sensitive buttons starts a worker.
LEMMA WorkerStarts ==
  ASSUME WorkerInv, NEW t \in Threads, Download(t) \/ Train(t)
  PROVE  WorkerInv'
<1>1. free = 0 /\ \A u \in Threads : pc[u] = "off"
  BY DEF Download, Train, WorkerInv, TypeOK, Exclusive, Working
<1>2. PICK p \in {"download", "open"} : pc' = [pc EXCEPT ![t] = p]
  BY DEF Download, Train, Goto
<1>3. busy' = TRUE /\ UNCHANGED <<open, importing, free, exporting, folder, table>>
  BY DEF Download, Train, kept
<1>4. pc' \in [Threads -> Places] /\ \A u \in Threads : pc'[u] # "off" => u = t
  BY <1>1, <1>2 DEF WorkerInv, TypeOK, Places, TrainPlaces
<1> QED
  BY <1>1, <1>3, <1>4 DEF WorkerInv, TypeOK, Exclusive, Working

\* A worker goes on or ends; what it does to the documents stays among them.
LEMMA WorkerGoesOn ==
  ASSUME WorkerInv, NEW t \in Threads, Working(t), NEW p \in Places \ {"off"},
         pc' = pc \/ pc' = [pc EXCEPT ![t] = p],
         folder' \subseteq Docs, table' \subseteq Docs,
         UNCHANGED <<open, busy, importing, free, exporting>>
  PROVE  WorkerInv'
<1>1. pc' \in [Threads -> Places] /\ \A u \in Threads : pc'[u] # "off" <=> pc[u] # "off"
  BY DEF WorkerInv, TypeOK, Working
<1>2. free = 0 /\ busy
  BY DEF WorkerInv, Exclusive, Working
<1> QED
  BY <1>1, <1>2 DEF WorkerInv, TypeOK, Exclusive, Working

LEMMA WorkerStops ==
  ASSUME WorkerInv, NEW t \in Threads, Working(t), EndWorker(t),
         folder' \subseteq Docs, table' \subseteq Docs,
         UNCHANGED <<open, busy, importing, exporting>>
  PROVE  WorkerInv'
<1>1. free = 0 /\ busy /\ \A u \in Threads : u # t => pc[u] = "off"
  BY DEF WorkerInv, Exclusive, Working
<1>2. pc' = [pc EXCEPT ![t] = "off"] /\ free' = 1
  BY <1>1 DEF EndWorker, Goto
<1>3. pc' \in [Threads -> Places] /\ \A u \in Threads : pc'[u] = "off"
  BY <1>1, <1>2 DEF WorkerInv, TypeOK, Places
<1> QED
  BY <1>1, <1>2, <1>3 DEF WorkerInv, TypeOK, Exclusive, Working

\* Putting a document into the folder leaves documents there.
LEMMA PutFileTypes ==
  ASSUME TypeOK, NEW d \in Docs, PutFile(d)
  PROVE  folder' \subseteq Docs
BY DEF TypeOK, PutFile

LEMMA WorkerWorks ==
  ASSUME WorkerInv, NEW t \in Threads, Work(t)
  PROVE  WorkerInv'
<1>1. CASE DownloadEnds(t)
  <2>1. folder' \subseteq Docs
    BY <1>1, PutFileTypes DEF DownloadEnds, WorkerInv, TypeOK
  <2> QED
    BY <1>1, <2>1, WorkerStops DEF DownloadEnds, Working, WorkerInv, TypeOK
<1>2. CASE OpenTable(t)
  <2>1. pc' = [pc EXCEPT ![t] = "index"] /\ table' \subseteq Docs /\ folder' \subseteq Docs
    BY <1>2 DEF OpenTable, Goto, WorkerInv, TypeOK
  <2> QED
    BY <1>2, <2>1, WorkerGoesOn DEF OpenTable, Working, window, Places, TrainPlaces
<1>3. CASE IndexFile(t)
  <2>1. pc' = pc /\ table' \subseteq Docs /\ folder' \subseteq Docs
    BY <1>3 DEF IndexFile, WorkerInv, TypeOK
  <2> QED
    BY <1>3, <2>1, WorkerGoesOn DEF IndexFile, Working, window, Places
<1>4. CASE BuildFails(t) \/ CompileFails(t)
  BY <1>4, WorkerStops DEF BuildFails, CompileFails, Working, kept, WorkerInv, TypeOK
<1>5. CASE BuildEnds(t) \/ CompileEnds(t)
  <2>1. Working(t) /\ UNCHANGED <<open, busy, importing, exporting, folder, table>>
    BY <1>5 DEF BuildEnds, CompileEnds, Working, kept
  <2>2. CASE EndWorker(t)
    BY <2>1, <2>2, WorkerStops DEF WorkerInv, TypeOK
  <2>3. CASE ~ EndWorker(t)
    <3>1. PICK p \in {"compile", "clean_docs"} : pc' = [pc EXCEPT ![t] = p] /\ free' = free
      BY <1>5, <2>3 DEF BuildEnds, CompileEnds, Goto
    <3> QED
      BY <2>1, <3>1, WorkerGoesOn DEF WorkerInv, TypeOK, Places, TrainPlaces
  <2> QED
    BY <2>2, <2>3
<1>6. CASE OpenScanner(t)
  BY <1>6, WorkerGoesOn DEF OpenScanner, Goto, Working, window, kept, Places, TrainPlaces, WorkerInv, TypeOK
<1>7. CASE CompileSource(t)
  BY <1>7, WorkerGoesOn DEF CompileSource, Working, window, Places, WorkerInv, TypeOK
<1>8. CASE CleanDocs(t)
  BY <1>8, WorkerGoesOn DEF CleanDocs, Goto, Working, window, Places, WorkerInv, TypeOK
<1>9. CASE CleanTable(t)
  BY <1>9, WorkerStops DEF CleanTable, Working, WorkerInv, TypeOK
<1> QED
  BY <1>1, <1>2, <1>3, <1>4, <1>5, <1>6, <1>7, <1>8, <1>9 DEF Work

\* Nothing the user, the window or the end of the program does starts a second worker.
LEMMA WorkerNext == WorkerInv /\ [Next]_vars => WorkerInv'
<1> SUFFICES ASSUME WorkerInv, [Next]_vars PROVE WorkerInv'
  OBVIOUS
<1>1. ASSUME NEW d \in Docs, Upload(d) \/ CopyFile(d) PROVE WorkerInv'
  <2>1. folder' \subseteq Docs /\ importing' \subseteq Docs
    BY <1>1, PutFileTypes DEF Upload, CopyFile, window, WorkerInv, TypeOK
  <2> QED
    BY <1>1, <2>1 DEF Upload, CopyFile, window, WorkerInv, TypeOK, Exclusive, Working
<1>2. CASE UploadFolder
  BY <1>2, CustomAssumption DEF UploadFolder, kept, WorkerInv, TypeOK, Exclusive, Working
<1>3. ASSUME NEW t \in Threads, Download(t) \/ Train(t) \/ Work(t) PROVE WorkerInv'
  BY <1>3, WorkerStarts, WorkerWorks
<1>4. CASE SetFree
  <2>1. free = 1 /\ \A t \in Threads : pc[t] = "off"
    BY <1>4 DEF SetFree, WorkerInv, TypeOK, Exclusive, Working
  <2>2. free' = 0 /\ busy' = FALSE /\ UNCHANGED <<open, importing, exporting, pc, kept>>
    BY <1>4, <2>1 DEF SetFree
  <2>3. TypeOK'
    BY <2>2 DEF kept, WorkerInv, TypeOK
  <2>4. Exclusive'
    BY <2>1, <2>2 DEF Exclusive, Working
  <2> QED
    BY <2>3, <2>4 DEF WorkerInv
<1>5. CASE Export
  BY <1>5 DEF Export, CopyTable, DeleteDocs, RemoveTable, WorkerInv, TypeOK, Exclusive, Working
<1>6. CASE Die
  <2>1. pc' \in [Threads -> Places] /\ \A t \in Threads : pc'[t] = "off"
    BY <1>6 DEF Die, Places
  <2>2. free' = 0 /\ TypeOK'
    BY <1>6, <2>1 DEF Die, kept, WorkerInv, TypeOK
  <2>3. Exclusive'
    BY <2>1, <2>2 DEF Exclusive, Working
  <2> QED
    BY <2>2, <2>3 DEF WorkerInv
<1>7. CASE Start
  BY <1>7 DEF Start, kept, WorkerInv, TypeOK, Exclusive, Working
<1>8. CASE UNCHANGED vars
  BY <1>8 DEF vars, window, kept, WorkerInv, TypeOK, Exclusive, Working
<1> QED
  BY <1>1, <1>2, <1>3, <1>4, <1>5, <1>6, <1>7, <1>8 DEF Next

LEMMA WorkerInvariant == Spec => []WorkerInv
BY WorkerInit, WorkerNext, PTL DEF Spec

\* One worker is at work, or the end of one is to be shown, and the buttons are
\* insensitive meanwhile (set_busy): no click starts a second child process or a second
\* writer of the store, however many threads there might be.
THEOREM OneWorker == Spec => []OneWorkerAtATime
<1>1. ASSUME WorkerInv PROVE OneWorkerAtATime
  <2> DEFINE W == {t \in Threads : pc[t] # "off"}
  <2>1. CASE W = {}
    <3>1. Cardinality(W) = 0  BY <2>1, FS_EmptySet
    <3>2. free \in {0, 1}     BY <1>1 DEF WorkerInv, Exclusive
    <3> QED
      BY <1>1, <2>1, <3>1, <3>2 DEF OneWorkerAtATime
  <2>2. CASE W # {}
    <3>1. PICK t \in Threads : W = {t}
      BY <1>1, <2>2 DEF WorkerInv, Exclusive, Working
    <3>2. Cardinality(W) = 1  BY <3>1, FS_Singleton
    <3>3. free = 0 /\ busy
      BY <1>1, <3>1 DEF WorkerInv, Exclusive, Working
    <3> QED
      BY <3>2, <3>3 DEF OneWorkerAtATime
  <2> QED
    BY <2>1, <2>2
<1> QED
  BY <1>1, WorkerInvariant, PTL

-----------------------------------------------------------------------------
(* Nothing else is lost *)

Accounted == store \cup excused
Safe      == exported \cup Accounted

\* What the worker that trains has made of the folder so far.
Progress(t) ==
    /\ pc[t] = "index" => \A d \in folder : Name[d] \in rest \/ d \in table \cup excused
    /\ pc[t] = "compile" => folder \subseteq table \cup excused
    /\ pc[t] = "store" => folder \subseteq rest \cup Accounted
    /\ pc[t] = "clean_docs" => folder \subseteq Accounted
    /\ (pc[t] \in TrainPlaces /\ exporting = "deleted") => folder \subseteq excused

\* Whatever is in the table is elsewhere too, or given up.
DocInv ==
    /\ got \subseteq folder \cup Safe
    /\ table \subseteq folder \cup Safe
    /\ \A t \in Threads : Progress(t)

LEMMA DocInit == Init => DocInv
BY DEF Init, DocInv, Safe, Accounted, Progress, TrainPlaces

\* A worker that is off makes no promise.
LEMMA OffIsFine ==
  ASSUME NEW t \in Threads, pc'[t] = "off"
  PROVE  Progress(t)'
BY DEF Progress, TrainPlaces

\* A step of one worker: the others are off.
LEMMA OneWorkerMatters ==
  ASSUME WorkerInv, NEW t \in Threads, Working(t), NEW p,
         pc' = pc \/ pc' = [pc EXCEPT ![t] = p],
         Progress(t)'
  PROVE  \A u \in Threads : Progress(u)'
<1> SUFFICES ASSUME NEW u \in Threads, u # t PROVE Progress(u)'
  OBVIOUS
<1>1. pc[u] = "off"
  BY DEF WorkerInv, Exclusive, Working
<1>2. pc'[u] = "off"
  BY <1>1 DEF WorkerInv, TypeOK
<1> QED
  BY <1>2, OffIsFine

\* A document that comes in takes nothing away, and is given up when it comes while a
\* worker trains.
LEMMA PutFileKeeps ==
  ASSUME DocInv, NEW d \in Docs, PutFile(d), UNCHANGED <<table, exported, store>>
  PROVE  /\ got' \subseteq folder' \cup Safe'
         /\ table' \subseteq folder' \cup Safe'
BY DEF DocInv, PutFile, Safe, Accounted

LEMMA PutFileProgress ==
  ASSUME DocInv, NEW d \in Docs, PutFile(d), NEW t \in Threads,
         UNCHANGED <<pc, rest, table, store, exporting>>
  PROVE  Progress(t)'
<1>1. CASE pc[t] \notin TrainPlaces
  BY <1>1 DEF Progress, TrainPlaces
<1>2. CASE pc[t] \in TrainPlaces
  <2>1. Training
    BY <1>2 DEF Training, TrainPlaces
  <2>2. folder' \subseteq folder \cup {d} /\ d \in excused' /\ excused \subseteq excused'
    BY <2>1 DEF PutFile
  <2>3. Progress(t)
    BY DEF DocInv
  <2> QED
    BY <2>2, <2>3 DEF Progress, Accounted
<1> QED
  BY <1>1, <1>2

LEMMA DocWork ==
  ASSUME WorkerInv, DocInv, NEW t \in Threads, Work(t)
  PROVE  DocInv'
<1> USE DEF DocInv
<1>0. Progress(t)
  OBVIOUS
<1>1. CASE DownloadEnds(t)
  <2>1. /\ got' \subseteq folder' \cup Safe'
        /\ table' \subseteq folder' \cup Safe'
    BY <1>1, PutFileKeeps DEF DownloadEnds, Safe, Accounted
  <2>2. Working(t) /\ pc' = [pc EXCEPT ![t] = "off"]
    BY <1>1 DEF DownloadEnds, EndWorker, Goto, Working
  <2>3. Progress(t)'
    BY <2>2, OffIsFine DEF WorkerInv, TypeOK
  <2> QED
    BY <2>1, <2>2, <2>3, OneWorkerMatters
<1>2. CASE OpenTable(t)
  <2>1. pc[t] = "open" /\ pc' = [pc EXCEPT ![t] = "index"] /\ UNCHANGED <<exporting, folder, exported, store, got>>
    BY <1>2 DEF OpenTable, Goto, window
  <2>2. PICK rows \in {{}, table} :
          /\ table' = rows
          /\ rest' = Names(folder) \ Names(rows)
          /\ excused' = excused \cup {d \in folder \ rows : Name[d] \in Names(rows)}
    BY <1>2 DEF OpenTable
  <2>3. \A d \in folder : Name[d] \in Names(folder)
    BY DEF Names
  <2>4. /\ got' \subseteq folder' \cup Safe'
        /\ table' \subseteq folder' \cup Safe'
    BY <2>1, <2>2 DEF Safe, Accounted
  <2>5. \A d \in folder' : Name[d] \in rest' \/ d \in table' \cup excused'
    BY <2>1, <2>2, <2>3
  <2>6. pc'[t] = "index"
    BY <2>1 DEF WorkerInv, TypeOK
  <2>7. exporting' = "deleted" => folder' \subseteq excused'
    BY <1>0, <2>1, <2>2 DEF Progress, TrainPlaces
  <2>8. Progress(t)'
    BY <2>5, <2>6, <2>7 DEF Progress
  <2> QED
    BY <2>1, <2>4, <2>8, OneWorkerMatters DEF Working
<1>3. CASE IndexFile(t)
  <2>1. pc[t] = "index" /\ UNCHANGED <<exporting, pc, folder, exported, store, got>>
    BY <1>3 DEF IndexFile, window
  <2>2. PICK n \in rest :
          LET found == {d \in folder : Name[d] = n} IN
          /\ rest' = rest \ {n}
          /\ \/ table' = table \cup found /\ excused' = excused
             \/ excused' = excused \cup found /\ table' = table
    BY <1>3 DEF IndexFile
  <2>3. /\ got' \subseteq folder' \cup Safe'
        /\ table' \subseteq folder' \cup Safe'
    BY <2>1, <2>2 DEF Safe, Accounted
  <2>4. \A d \in folder' : Name[d] \in rest' \/ d \in table' \cup excused'
    BY <1>0, <2>1, <2>2 DEF Progress
  <2>5. exporting' = "deleted" => folder' \subseteq excused'
    BY <1>0, <2>1, <2>2 DEF Progress, TrainPlaces
  <2>6. Progress(t)'
    BY <2>1, <2>4, <2>5 DEF Progress
  <2> QED
    BY <2>1, <2>3, <2>6, OneWorkerMatters DEF Working
<1>4. CASE BuildFails(t) \/ CompileFails(t)
  <2>1. Working(t) /\ pc' = [pc EXCEPT ![t] = "off"] /\ UNCHANGED <<kept, history>>
    BY <1>4 DEF BuildFails, CompileFails, EndWorker, Goto, Working
  <2>2. Progress(t)'
    BY <2>1, OffIsFine DEF WorkerInv, TypeOK
  <2> QED
    BY <2>1, <2>2, OneWorkerMatters DEF kept, history, Safe, Accounted
<1>5. CASE BuildEnds(t) \/ CompileEnds(t)
  <2>1. Working(t) /\ UNCHANGED <<kept, history, exporting>> /\ rest = {}
    BY <1>5 DEF BuildEnds, CompileEnds, Working
  <2>2. PICK p \in {"off", "compile", "clean_docs"} :
          /\ pc' = [pc EXCEPT ![t] = p]
          /\ p = "compile" => pc[t] = "index"
          /\ p = "clean_docs" => pc[t] = "store"
    BY <1>5 DEF BuildEnds, CompileEnds, EndWorker, Goto
  <2>3. pc'[t] = p
    BY <2>2 DEF WorkerInv, TypeOK
  <2>4. Progress(t)'
    BY <1>0, <2>1, <2>2, <2>3 DEF Progress, TrainPlaces, Accounted, kept, history
  <2> QED
    BY <2>1, <2>2, <2>4, OneWorkerMatters DEF kept, history, Safe, Accounted
<1>6. CASE OpenScanner(t)
  <2>1. /\ pc[t] = "compile" /\ pc' = [pc EXCEPT ![t] = "store"] /\ rest' = table
        /\ UNCHANGED <<exporting, kept, history>>
    BY <1>6 DEF OpenScanner, Goto, window
  <2>2. pc'[t] = "store"
    BY <2>1 DEF WorkerInv, TypeOK
  <2>3. Progress(t)'
    BY <1>0, <2>1, <2>2 DEF Progress, TrainPlaces, Accounted, kept, history
  <2> QED
    BY <2>1, <2>3, OneWorkerMatters DEF kept, history, Safe, Accounted, Working
<1>7. CASE CompileSource(t)
  <2>1. pc[t] = "store" /\ UNCHANGED <<pc, exporting, folder, table, exported, got>>
    BY <1>7 DEF CompileSource, window
  <2>2. PICK d \in rest :
          /\ rest' = rest \ {d} /\ d \in Accounted'
          /\ store \subseteq store' /\ excused \subseteq excused'
    BY <1>7 DEF CompileSource, Accounted
  <2>3. Progress(t)'
    BY <1>0, <2>1, <2>2 DEF Progress, TrainPlaces, Accounted
  <2>4. Safe \subseteq Safe'
    BY <2>1, <2>2 DEF Safe, Accounted
  <2> QED
    BY <2>1, <2>3, <2>4, OneWorkerMatters DEF Working
<1>8. CASE CleanDocs(t)
  <2>1. /\ pc[t] = "clean_docs" /\ pc' = [pc EXCEPT ![t] = "clean_table"]
        /\ UNCHANGED <<table, exported, store, history>>
    BY <1>8 DEF CleanDocs, Goto
  <2>2. pc'[t] = "clean_table"
    BY <2>1 DEF WorkerInv, TypeOK
  <2>3. Progress(t)'
    BY <2>2 DEF Progress, TrainPlaces
  <2>4. folder \subseteq Safe' /\ Safe' = Safe
    BY <1>0, <2>1 DEF Progress, Safe, Accounted, history
  <2> QED
    BY <2>1, <2>3, <2>4, OneWorkerMatters DEF Working, history
<1>9. CASE CleanTable(t)
  <2>1. /\ pc[t] = "clean_table" /\ pc' = [pc EXCEPT ![t] = "off"]
        /\ table' \subseteq table /\ UNCHANGED <<folder, exported, store, history>>
    BY <1>9 DEF CleanTable, EndWorker, Goto
  <2>2. Progress(t)'
    BY <2>1, OffIsFine DEF WorkerInv, TypeOK
  <2> QED
    BY <2>1, <2>2, OneWorkerMatters DEF Working, history, Safe, Accounted
<1> QED
  BY <1>1, <1>2, <1>3, <1>4, <1>5, <1>6, <1>7, <1>8, <1>9 DEF Work

LEMMA DocNext == WorkerInv /\ DocInv /\ [Next]_vars => DocInv'
<1> SUFFICES ASSUME WorkerInv, DocInv, [Next]_vars PROVE DocInv'
  OBVIOUS
<1> USE DEF DocInv
<1>1. ASSUME NEW d \in Docs, Upload(d) \/ CopyFile(d) PROVE DocInv'
  <2>1. PutFile(d) /\ UNCHANGED <<pc, rest, table, exported, store, exporting>>
    BY <1>1 DEF Upload, CopyFile, window
  <2> QED
    BY <2>1, PutFileKeeps, PutFileProgress
<1>2. CASE UploadFolder \/ SetFree \/ Start
  BY <1>2 DEF UploadFolder, SetFree, Start, kept, history, Safe, Accounted, Progress
<1>3. ASSUME NEW t \in Threads, Download(t) \/ Train(t) PROVE DocInv'
  <2>1. PICK p \in {"download", "open"} : pc' = [pc EXCEPT ![t] = p]
    BY <1>3 DEF Download, Train, Goto
  <2>2. exporting' = "no" /\ UNCHANGED <<kept, history>> /\ \A u \in Threads : pc[u] = "off"
    BY <1>3 DEF Download, Train, WorkerInv, Exclusive, Working
  <2>3. \A u \in Threads : pc'[u] \in {"off", "download", "open"}
    BY <2>1, <2>2 DEF WorkerInv, TypeOK
  <2>4. \A u \in Threads : Progress(u)'
    BY <2>2, <2>3 DEF Progress
  <2> QED
    BY <2>2, <2>4 DEF kept, history, Safe, Accounted
<1>4. ASSUME NEW t \in Threads, Work(t) PROVE DocInv'
  BY <1>4, DocWork
<1>5. CASE CopyTable
  BY <1>5 DEF CopyTable, history, Safe, Accounted, Progress
<1>6. CASE DeleteDocs
  BY <1>6 DEF DeleteDocs, Safe, Accounted, Progress
<1>7. CASE RemoveTable
  <2>1. \A t \in Threads : Progress(t)'
    BY <1>7 DEF RemoveTable, history, Progress, TrainPlaces, Accounted
  <2> QED
    BY <1>7, <2>1 DEF RemoveTable, history, Safe, Accounted
<1>8. CASE Die
  <2>1. \A t \in Threads : pc'[t] = "off"
    BY <1>8 DEF Die
  <2> QED
    BY <1>8, <2>1, OffIsFine DEF Die, kept, history, Safe, Accounted
<1>9. CASE UNCHANGED vars
  BY <1>9 DEF vars, window, kept, history, Safe, Accounted, Progress
<1> QED
  BY <1>1, <1>2, <1>3, <1>4, <1>5, <1>6, <1>7, <1>8, <1>9 DEF Next, Export

\* A document handed over is in the folder, a saved table or the store, or lost in one of
\* the ways CustomCollector names, whatever fails, is cleaned up, exported or killed.
THEOREM NothingElseIsLost == Spec => []NothingElseLost
<1>1. DocInv => NothingElseLost
  BY DEF DocInv, NothingElseLost, Safe, Accounted
<1> QED
  BY <1>1, DocInit, DocNext, WorkerInvariant, PTL DEF Spec

===============================================================================
