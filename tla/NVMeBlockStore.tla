--------------------------- MODULE NVMeBlockStore ---------------------------
(***************************************************************************)
(* The append-only block file of rag_core/nvme_blocks.py: threads of       *)
(* several processes store blocks through NVMeBlockStore objects, a failed *)
(* or interrupted append may leave a torn block, and every open rebuilds   *)
(* the in-memory index by scanning the file in BLOCK_ALIGN steps.          *)
(*                                                                         *)
(* _lock belongs to one object. Nothing keeps two processes from opening   *)
(* one path for writing (both collectors open NVME_KNOWLEDGE_PATH, each    *)
(* under a PID file of its own), and then the offset store() returns may   *)
(* name a block of the other: the history `overtaken' holds these offsets. *)
(***************************************************************************)
EXTENDS BlockFile

CONSTANTS
    Procs,        \* processes holding one NVMeBlockStore object each
    ReadOnly,     \* the ones opened with readonly=True
    Threads,      \* threads that call store()
    Proc,         \* the process of each thread
    MaxSegments,  \* bound: no append starts on a file this long
    NoThread      \* a free lock

ASSUME StoreAssumption ==
    /\ ReadOnly \subseteq Procs
    /\ Proc \in [Threads -> Procs \ ReadOnly]
    /\ MaxSegments \in Nat
    /\ NoThread \notin Threads

VARIABLES
    file,     \* the segments on disk
    opened,   \* processes whose store object exists
    index,    \* by_hash, by_type and by_year of each object: the offsets they list, with the key
    lock,     \* _lock of each object
    pc,       \* where each thread stands inside store()
    arg,      \* the key it stores
    offset,   \* its local `offset`, from f.tell()
    acked,    \* history: what store() returned an offset for
    overtaken \* history: the offset and key of appends before which another process appended

vars == <<file, opened, index, lock, pc, arg, offset, acked, overtaken>>

-----------------------------------------------------------------------------

AnyKey == CHOOSE k \in Keys : TRUE

\* What thread t is about to list and return.
Entered(t) == [off |-> offset[t], key |-> arg[t]]

\* A thread of process p appends s. Threads of other processes that have called tell()
\* and not yet write() are overtaken.
Grow(p, s) ==
    /\ file' = file \o s
    /\ overtaken' =
         IF s = << >> THEN overtaken
         ELSE overtaken \cup
                {Entered(u) : u \in {v \in Threads : pc[v] = "appending" /\ Proc[v] # p}}

\* store() is left: its locals are gone.
Leave(t) ==
    /\ pc' = [pc EXCEPT ![t] = "idle"]
    /\ arg' = [arg EXCEPT ![t] = AnyKey]
    /\ offset' = [offset EXCEPT ![t] = 0]

Init ==
    /\ file = << >>
    /\ opened = {}
    /\ index = [p \in Procs |-> {}]
    /\ lock = [p \in Procs |-> NoThread]
    /\ pc = [t \in Threads |-> "idle"]
    /\ arg = [t \in Threads |-> AnyKey]
    /\ offset = [t \in Threads |-> 0]
    /\ acked = {}
    /\ overtaken = {}

\* NVMeBlockStore(path): touch the file, rebuild the index. A read-only object
\* on a missing file keeps an empty index, which is Rebuild of an empty file.
Open(p) ==
    /\ p \notin opened
    /\ opened' = opened \cup {p}
    /\ index' = [index EXCEPT ![p] = Rebuild(file)]
    /\ UNCHANGED <<file, lock, pc, arg, offset, acked, overtaken>>

\* store() up to the lock: the dedup check reads the index without it. A key
\* that is present, or a payload too big even when cut, returns -1 and changes
\* nothing; a read-only store raises (no thread is one of a read-only process).
StoreBegin(t, k) ==
    /\ Proc[t] \in opened
    /\ pc[t] = "idle"
    /\ \A e \in index[Proc[t]] : e.key # k
    /\ pc' = [pc EXCEPT ![t] = "encoded"]
    /\ arg' = [arg EXCEPT ![t] = k]
    /\ UNCHANGED <<file, opened, index, lock, offset, acked, overtaken>>

StoreLock_NoLock(t) ==
    /\ pc[t] = "encoded"
    /\ Len(file) < MaxSegments
    /\ lock' = [lock EXCEPT ![Proc[t]] = t]
    /\ offset' = [offset EXCEPT ![t] = Len(file)]
    /\ pc' = [pc EXCEPT ![t] = "appending"]
    /\ UNCHANGED <<file, opened, index, arg, acked, overtaken>>

\* with self._lock: open(path, "ab"), offset = f.tell().
StoreLock(t) ==
    /\ pc[t] = "encoded"
    /\ lock[Proc[t]] = NoThread
    /\ Len(file) < MaxSegments
    /\ lock' = [lock EXCEPT ![Proc[t]] = t]
    /\ offset' = [offset EXCEPT ![t] = Len(file)]
    /\ pc' = [pc EXCEPT ![t] = "appending"]
    /\ UNCHANGED <<file, opened, index, arg, acked, overtaken>>

\* f.write(block): O_APPEND puts it at the end, wherever that is by now.
StoreWrite(t) ==
    /\ pc[t] = "appending"
    /\ Grow(Proc[t], Block(arg[t]))
    /\ pc' = [pc EXCEPT ![t] = "written"]
    /\ UNCHANGED <<opened, index, lock, arg, offset, acked>>

\* The write raises OSError (disk full): a prefix may be on disk, the lock is
\* left, the index is untouched and the caller gets the exception.
StoreFails(t) ==
    /\ pc[t] = "appending"
    /\ \E n \in TornSizes : Grow(Proc[t], SubSeq(Block(arg[t]), 1, n))
    /\ lock' = [lock EXCEPT ![Proc[t]] = NoThread]
    /\ Leave(t)
    /\ UNCHANGED <<opened, index, acked>>

\* Index update, _close_mmap, end of the with block, return offset.
StoreIndex(t) ==
    LET p == Proc[t] IN
    /\ pc[t] = "written"
    /\ index' = [index EXCEPT ![p] = @ \cup {Entered(t)}]
    /\ acked' = acked \cup {Entered(t)}
    /\ lock' = [lock EXCEPT ![p] = NoThread]
    /\ Leave(t)
    /\ UNCHANGED <<file, opened, overtaken>>

\* close(), or the death of the process: threads, lock and index are gone, and
\* an append that was under way may leave a prefix.
Exit(p) ==
    /\ p \in opened
    /\ opened' = opened \ {p}
    /\ index' = [index EXCEPT ![p] = {}]
    /\ lock' = [lock EXCEPT ![p] = NoThread]
    /\ pc' = [t \in Threads |-> IF Proc[t] = p THEN "idle" ELSE pc[t]]
    /\ arg' = [t \in Threads |-> IF Proc[t] = p THEN AnyKey ELSE arg[t]]
    /\ offset' = [t \in Threads |-> IF Proc[t] = p THEN 0 ELSE offset[t]]
    /\ \/ UNCHANGED <<file, overtaken>>
       \/ \E t \in Threads, n \in TornSizes :
            /\ Proc[t] = p /\ pc[t] = "appending"
            /\ Grow(p, SubSeq(Block(arg[t]), 1, n))
    /\ UNCHANGED acked

Next ==
    \/ \E p \in Procs : Open(p) \/ Exit(p)
    \/ \E t \in Threads, k \in Keys : StoreBegin(t, k)
    \/ \E t \in Threads :
        StoreLock(t) \/ StoreWrite(t) \/ StoreFails(t) \/ StoreIndex(t)

Spec == Init /\ [][Next]_vars

-----------------------------------------------------------------------------
(* Properties *)

\* Types of the variables.
TypeOK ==
    /\ file \in Seq(Segment)
    /\ opened \subseteq Procs
    /\ index \in [Procs -> SUBSET Entry]
    /\ lock \in [Procs -> Threads \cup {NoThread}]
    /\ pc \in [Threads -> {"idle", "encoded", "appending", "written"}]
    /\ arg \in [Threads -> Keys]
    /\ offset \in [Threads -> Nat]
    /\ acked \subseteq Entry
    /\ overtaken \subseteq Entry

\* Every offset an index lists, the writers' own and those rebuilt from the file, is
\* the header of a block of that key, unless another process appended between the
\* f.tell() and the f.write() of that store(): _lock keeps the threads of one process
\* apart, whatever they tear and wherever other processes append otherwise.
IndexPointsAtHeader ==
    \A p \in Procs : \A e \in index[p] \ overtaken :
        HeaderAt(file, e.off) /\ file[e.off + 1].key = e.key

\* What store() acknowledged stays readable at the offset it returned, whatever
\* is torn, appended or restarted afterwards (unless it was overtaken).
AckedStaysReadable ==
    \A e \in acked \ overtaken : Readable(file, e.off, e.key)

\* Of every acknowledged store() the file has a whole block (where store() said, unless
\* it was overtaken), which every later open lists if no torn block precedes it: a
\* restart also mends the offsets of overtaken appends.
AckedSurvivesRestart ==
    \A e \in acked : \E o \in 0 .. Len(file) :
        /\ WholeAt(file, o, e.key)
        /\ e \notin overtaken => o = e.off
        /\ (\A x \in Tears(file) : o < x) => [off |-> o, key |-> e.key] \in Rebuild(file)
=============================================================================
