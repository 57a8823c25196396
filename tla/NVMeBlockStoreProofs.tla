------------------------ MODULE NVMeBlockStoreProofs ------------------------
(***************************************************************************)
(* What the block file guarantees for any number of keys, writing          *)
(* processes, threads and torn appends, and what the threads of a server   *)
(* read from it. At the end the migration that fills it, for any rows,     *)
(* faults and starts.                                                      *)
(***************************************************************************)
EXTENDS NVMeReaders, KnowledgeMigration, SequenceTheorems, FiniteSetTheorems,
        NaturalsInduction, WellFoundedInduction, TLAPS

\* The lock names the thread between open("ab") and the end of the with block.
LockInv ==
    /\ \A p \in Procs : lock[p] # NoThread =>
          Proc[lock[p]] = p /\ pc[lock[p]] \in {"appending", "written"}
    /\ \A t \in Threads : pc[t] \in {"appending", "written"} => lock[Proc[t]] = t

\* Between tell() and write() nobody appends who does not overtake the thread; after it
\* the block is in the file, where tell() said unless it was overtaken.
Placed(e) ==
    /\ e \notin overtaken => WholeAt(file, e.off, e.key)
    /\ \E o \in Nat : WholeAt(file, o, e.key)

OffsetInv ==
    \A t \in Threads :
        /\ pc[t] = "appending" => Entered(t) \in overtaken \/ offset[t] = Len(file)
        /\ pc[t] = "written" => Placed(Entered(t))

AckedWhole == \A e \in acked : Placed(e)

IInv ==
    /\ TypeOK
    /\ LockInv
    /\ OffsetInv
    /\ IndexPointsAtHeader
    /\ AckedWhole

-----------------------------------------------------------------------------
(* The file under an append *)

\* A block is three segments: header, payload, padding.
LEMMA BlockType ==
    ASSUME NEW k \in Keys
    PROVE  /\ Block(k) \in Seq(Segment)
           /\ Len(Block(k)) = BLOCK_ALIGN
           /\ Block(k)[1] = Seg("header", k)
           /\ Block(k)[2] = Seg("payload", k)
           /\ Block(k)[3] = Seg("padding", k)
BY DEF Block, Segment, Seg, BLOCK_ALIGN

\* What a torn append leaves is a sequence of segments.
LEMMA PrefixType ==
    ASSUME NEW k \in Keys, NEW n \in TornSizes
    PROVE  SubSeq(Block(k), 1, n) \in Seq(Segment)
<1>1. n \in 0 .. 2
  BY BlockAssumption DEF BLOCK_ALIGN
<1>2. \A i \in 1 .. n : Block(k)[i] \in Segment
  BY <1>1 DEF Block, Segment, Seg
<1> QED
  BY <1>1, <1>2, SubSeqProperties

\* An append leaves what is already there where it is.
LEMMA AppendKeeps ==
    ASSUME NEW f \in Seq(Segment), NEW s \in Seq(Segment)
    PROVE  /\ f \o s \in Seq(Segment)
           /\ Len(f \o s) >= Len(f)
           /\ \A i \in 1 .. Len(f) : (f \o s)[i] = f[i]
<1>1. Len(f) \in Nat /\ Len(s) \in Nat
  BY LenProperties
<1> QED
  BY <1>1, ConcatProperties

\* A whole block stays whole when something is appended.
LEMMA WholeKept ==
    ASSUME NEW f \in Seq(Segment), NEW s \in Seq(Segment),
           NEW o \in Nat, NEW k \in Keys, WholeAt(f, o, k)
    PROVE  WholeAt(f \o s, o, k)
<1>1. Len(f) \in Nat /\ Len(f \o s) \in Nat
  BY LenProperties, AppendKeeps
<1> QED
  BY <1>1, AppendKeeps DEF WholeAt, BLOCK_ALIGN

\* A header stays where it is when something is appended.
LEMMA HeaderKept ==
    ASSUME NEW f \in Seq(Segment), NEW s \in Seq(Segment),
           NEW o \in Nat, HeaderAt(f, o)
    PROVE  HeaderAt(f \o s, o) /\ (f \o s)[o + 1] = f[o + 1]
<1>1. Len(f) \in Nat /\ Len(f \o s) \in Nat
  BY LenProperties, AppendKeeps
<1> QED
  BY <1>1, AppendKeeps DEF HeaderAt, HEADER_SIZE

\* f.write(block) puts a whole block at the old end of the file.
LEMMA WholeAppended ==
    ASSUME NEW f \in Seq(Segment), NEW k \in Keys
    PROVE  WholeAt(f \o Block(k), Len(f), k)
<1>1. Len(f) \in Nat
  BY LenProperties
<1>2. Len(f \o Block(k)) = Len(f) + BLOCK_ALIGN
  BY BlockType, ConcatProperties
<1>3. ASSUME NEW i \in 1 .. BLOCK_ALIGN
      PROVE  (f \o Block(k))[Len(f) + i] = Block(k)[i]
  <2>1. Len(f) + i \in 1 .. Len(f) + BLOCK_ALIGN /\ ~ (Len(f) + i <= Len(f))
    BY <1>1 DEF BLOCK_ALIGN
  <2>2. (f \o Block(k))[Len(f) + i] = Block(k)[(Len(f) + i) - Len(f)]
    BY <2>1, BlockType, ConcatProperties
  <2>3. (Len(f) + i) - Len(f) = i
    BY <1>1 DEF BLOCK_ALIGN
  <2> QED
    BY <2>2, <2>3
<1> QED
  BY <1>2, <1>3, <1>1 DEF WholeAt, BLOCK_ALIGN

\* A whole block has its header, and read() finds it.
LEMMA WholeHasHeader ==
    ASSUME NEW f \in Seq(Segment), NEW o \in Nat, NEW k \in Keys, WholeAt(f, o, k)
    PROVE  HeaderAt(f, o) /\ f[o + 1].key = k /\ Readable(f, o, k)
<1>1. Len(f) \in Nat
  BY LenProperties
<1>2. f[o + 1] = Seg("header", k) /\ f[o + 2] = Seg("payload", k)
  BY BlockType DEF WholeAt, BLOCK_ALIGN
<1> QED
  BY <1>1, <1>2 DEF WholeAt, HeaderAt, Readable, Seg, HEADER_SIZE, BLOCK_ALIGN

\* _rebuild_index lists headers only.
LEMMA RebuildPoints ==
    ASSUME NEW f \in Seq(Segment), NEW e \in Rebuild(f)
    PROVE  e \in Entry /\ HeaderAt(f, e.off) /\ f[e.off + 1].key = e.key
<1>1. PICK o \in 0 .. Len(f) : HeaderAt(f, o) /\ e = [off |-> o, key |-> f[o + 1].key]
  BY DEF Rebuild
<1>2. Len(f) \in Nat /\ o \in Nat
  BY LenProperties
<1>3. f[o + 1] \in Segment
  BY <1>1, <1>2, ElementOfSeq DEF HeaderAt, HEADER_SIZE
<1> QED
  BY <1>1, <1>2, <1>3 DEF Entry, Segment

-----------------------------------------------------------------------------
(* The inductive invariant *)

\* What an entry is.
LEMMA EnteredType ==
    ASSUME TypeOK, NEW t \in Threads
    PROVE  Entered(t) \in Entry /\ Entered(t).off = offset[t] /\ Entered(t).key = arg[t]
BY DEF TypeOK, Entered, Entry

\* A process that appends has a thread of its own overtaken by nobody new, and every
\* thread of another process between its tell() and write().
LEMMA GrowType ==
    ASSUME TypeOK, NEW p \in Procs, NEW s \in Seq(Segment), Grow(p, s)
    PROVE  /\ file' = file \o s /\ file' \in Seq(Segment)
           /\ overtaken \subseteq overtaken' /\ overtaken' \subseteq Entry
           /\ s # << >> => \A u \in Threads : pc[u] = "appending" /\ Proc[u] # p
                                                => Entered(u) \in overtaken'
<1>1. file' = file \o s /\ file' \in Seq(Segment)
  BY AppendKeeps DEF TypeOK, Grow
<1>2. overtaken \subseteq Entry
  BY DEF TypeOK
<1>3. \A u \in Threads : Entered(u) \in Entry
  BY EnteredType
<1> QED
  BY <1>1, <1>2, <1>3 DEF Grow

\* What was put in its place stays there when something is appended.
LEMMA PlacedKept ==
    ASSUME TypeOK, NEW p \in Procs, NEW s \in Seq(Segment), Grow(p, s),
           NEW e \in Entry, Placed(e)
    PROVE  Placed(e)'
<1>1. file' = file \o s /\ overtaken \subseteq overtaken' /\ file \in Seq(Segment)
  BY GrowType DEF TypeOK
<1>2. e.off \in Nat /\ e.key \in Keys
  BY DEF Entry
<1>3. e \notin overtaken' => WholeAt(file', e.off, e.key)
  BY <1>1, <1>2, WholeKept DEF Placed
<1>4. \E o \in Nat : WholeAt(file', o, e.key)
  BY <1>1, <1>2, WholeKept DEF Placed
<1> QED
  BY <1>3, <1>4 DEF Placed

\* A step that only appends s to the file keeps what the invariant says of
\* indexed and acknowledged blocks.
LEMMA AppendPreserves ==
    ASSUME TypeOK, IndexPointsAtHeader, AckedWhole,
           NEW w \in Procs, NEW s \in Seq(Segment), Grow(w, s),
           UNCHANGED acked,
           \A p \in Procs : index'[p] \subseteq index[p]
    PROVE  IndexPointsAtHeader' /\ AckedWhole'
<1>1. file' = file \o s /\ overtaken \subseteq overtaken'
  BY GrowType
<1>2. ASSUME NEW p \in Procs, NEW e \in index'[p] \ overtaken'
      PROVE  HeaderAt(file', e.off) /\ file'[e.off + 1].key = e.key
  <2>1. e \in index[p] \ overtaken /\ e.off \in Nat
    BY <1>1, <1>2 DEF TypeOK, Entry
  <2>2. HeaderAt(file, e.off) /\ file[e.off + 1].key = e.key
    BY <2>1 DEF IndexPointsAtHeader
  <2> QED
    BY <1>1, <2>1, <2>2, HeaderKept DEF TypeOK
<1>3. ASSUME NEW e \in acked
      PROVE  Placed(e)'
  BY PlacedKept DEF TypeOK, AckedWhole
<1> QED
  BY <1>2, <1>3 DEF IndexPointsAtHeader, AckedWhole

\* There is a key.
LEMMA AnyKeyType == AnyKey \in Keys
  BY BlockAssumption DEF AnyKey

\* The invariant holds of an empty file.
LEMMA InitIInv == Init => IInv
<1> SUFFICES ASSUME Init PROVE IInv
  OBVIOUS
<1>1. file \in Seq(Segment)
  BY DEF Init
<1>2. TypeOK
  BY <1>1, AnyKeyType DEF Init, TypeOK
<1> QED
  BY <1>2, StoreAssumption
     DEF Init, IInv, LockInv, OffsetInv, IndexPointsAtHeader, AckedWhole

\* Opening a store preserves the invariant.
LEMMA OpenIInv == ASSUME IInv, NEW p \in Procs, Open(p) PROVE IInv'
<1> USE DEF IInv
<1>1. TypeOK'
  <2>1. Rebuild(file) \subseteq Entry
    BY RebuildPoints DEF TypeOK
  <2> QED
    BY <2>1 DEF Open, TypeOK
<1>2. LockInv' /\ OffsetInv' /\ AckedWhole'
  BY DEF Open, LockInv, OffsetInv, AckedWhole, Placed, Entered
<1>3. IndexPointsAtHeader'
  <2>1. ASSUME NEW q \in Procs, NEW e \in index'[q] \ overtaken
        PROVE  HeaderAt(file, e.off) /\ file[e.off + 1].key = e.key
    <3>1. CASE q = p
      BY <3>1, RebuildPoints DEF Open, TypeOK
    <3>2. CASE q # p
      BY <3>2 DEF Open, TypeOK, IndexPointsAtHeader
    <3> QED
      BY <3>1, <3>2
  <2> QED
    BY <2>1 DEF Open, IndexPointsAtHeader
<1> QED
  BY <1>1, <1>2, <1>3

\* store() up to the lock preserves the invariant.
LEMMA BeginIInv ==
    ASSUME IInv, NEW t \in Threads, NEW k \in Keys, StoreBegin(t, k) PROVE IInv'
<1>1. TypeOK'
  BY DEF IInv, TypeOK, StoreBegin
<1>2. LockInv'
  BY StoreAssumption DEF IInv, TypeOK, LockInv, StoreBegin
<1>3. OffsetInv'
  <2>1. ASSUME NEW u \in Threads, pc'[u] \in {"appending", "written"}
        PROVE  pc'[u] = pc[u] /\ Entered(u)' = Entered(u) /\ offset'[u] = offset[u]
    BY <2>1 DEF IInv, TypeOK, StoreBegin, Entered
  <2> QED
    BY <2>1 DEF IInv, OffsetInv, StoreBegin, Placed
<1>4. IndexPointsAtHeader' /\ AckedWhole'
  BY DEF IInv, IndexPointsAtHeader, AckedWhole, StoreBegin, Placed
<1> QED
  BY <1>1, <1>2, <1>3, <1>4 DEF IInv

\* Taking the lock and f.tell() preserve the invariant.
LEMMA LockIInv == ASSUME IInv, NEW t \in Threads, StoreLock(t) PROVE IInv'
<1>1. TypeOK'
  BY LenProperties, StoreAssumption DEF IInv, TypeOK, StoreLock
<1>2. LockInv'
  <2>1. Proc[t] \in Procs /\ lock'[Proc[t]] = t /\ pc'[t] = "appending"
    BY StoreAssumption DEF IInv, TypeOK, StoreLock
  <2>2. ASSUME NEW p \in Procs, lock'[p] # NoThread
        PROVE  Proc[lock'[p]] = p /\ pc'[lock'[p]] \in {"appending", "written"}
    <3>1. CASE p = Proc[t]
      BY <2>1, <3>1
    <3>2. CASE p # Proc[t]
      BY <2>2, <3>2 DEF IInv, TypeOK, LockInv, StoreLock
    <3> QED
      BY <3>1, <3>2
  <2>3. ASSUME NEW u \in Threads, pc'[u] \in {"appending", "written"}
        PROVE  lock'[Proc[u]] = u
    <3>1. CASE u = t
      BY <2>1, <3>1
    <3>2. CASE u # t
      BY <2>3, <3>2, StoreAssumption DEF IInv, TypeOK, LockInv, StoreLock
    <3> QED
      BY <3>1, <3>2
  <2> QED
    BY <2>2, <2>3 DEF LockInv
<1>3. OffsetInv'
  <2>1. ASSUME NEW u \in Threads, u # t
        PROVE  pc'[u] = pc[u] /\ Entered(u)' = Entered(u) /\ offset'[u] = offset[u]
    BY <2>1 DEF IInv, TypeOK, StoreLock, Entered
  <2>2. pc'[t] = "appending" /\ offset'[t] = Len(file)
    BY DEF IInv, TypeOK, StoreLock
  <2> QED
    BY <2>1, <2>2 DEF IInv, OffsetInv, StoreLock, Placed
<1>4. IndexPointsAtHeader' /\ AckedWhole'
  BY DEF IInv, IndexPointsAtHeader, AckedWhole, StoreLock, Placed
<1> QED
  BY <1>1, <1>2, <1>3, <1>4 DEF IInv

\* f.write preserves the invariant.
LEMMA WriteIInv == ASSUME IInv, NEW t \in Threads, StoreWrite(t) PROVE IInv'
<1>0. arg[t] \in Keys /\ Block(arg[t]) \in Seq(Segment) /\ Proc[t] \in Procs /\ TypeOK
  BY BlockType, StoreAssumption DEF IInv, TypeOK
<1>a. Grow(Proc[t], Block(arg[t])) /\ Block(arg[t]) # << >>
  BY DEF StoreWrite, Block
<1>b. /\ file' = file \o Block(arg[t]) /\ file' \in Seq(Segment)
      /\ overtaken \subseteq overtaken' /\ overtaken' \subseteq Entry
      /\ \A u \in Threads : pc[u] = "appending" /\ Proc[u] # Proc[t] => Entered(u) \in overtaken'
  BY <1>0, <1>a, GrowType
<1>1. IndexPointsAtHeader' /\ AckedWhole'
  BY <1>0, <1>a, AppendPreserves DEF IInv, StoreWrite
<1>2. TypeOK'
  BY <1>b DEF IInv, TypeOK, StoreWrite
<1>3. LockInv'
  BY StoreAssumption DEF IInv, TypeOK, LockInv, StoreWrite
<1>4. OffsetInv'
  <2>0. \A u \in Threads : Entered(u)' = Entered(u)
    BY DEF Entered, StoreWrite
  <2>1. ASSUME NEW u \in Threads, pc'[u] = "appending"
        PROVE  Entered(u) \in overtaken'
    <3>1. u # t /\ pc[u] = "appending" /\ pc[t] = "appending"
      BY <2>1 DEF IInv, TypeOK, StoreWrite
    <3>2. lock[Proc[u]] = u /\ lock[Proc[t]] = t
      BY <3>1 DEF IInv, LockInv
    <3> QED
      BY <3>1, <3>2, <1>b
  <2>2. ASSUME NEW u \in Threads, pc'[u] = "written"
        PROVE  Placed(Entered(u))'
    <3>1. CASE u = t
      <4>1. Entered(t) \in overtaken \/ offset[t] = Len(file)
        BY DEF IInv, OffsetInv, StoreWrite
      <4>2. WholeAt(file', Len(file), arg[t]) /\ Len(file) \in Nat
        BY <1>0, <1>b, WholeAppended, LenProperties DEF TypeOK
      <4>3. Entered(t).off = offset[t] /\ Entered(t).key = arg[t]
        BY <1>0, EnteredType
      <4>4. Placed(Entered(t))'
        BY <4>1, <4>2, <4>3, <1>b, <2>0 DEF Placed
      <4> QED
        BY <3>1, <4>4
    <3>2. CASE u # t
      <4>1. Placed(Entered(u)) /\ Entered(u) \in Entry
        BY <2>2, <3>2, <1>0, EnteredType DEF IInv, TypeOK, OffsetInv, StoreWrite
      <4>2. \A e \in Entry : Placed(e) => Placed(e)'
        BY <1>0, <1>a, PlacedKept
      <4> QED
        BY <4>1, <4>2, <2>0 DEF Placed
    <3> QED
      BY <3>1, <3>2
  <2> QED
    BY <2>0, <2>1, <2>2 DEF OffsetInv
<1> QED
  BY <1>1, <1>2, <1>3, <1>4 DEF IInv

\* Threads that wrote before process p appends s, torn or not, keep their block, and
\* no thread that p does not overtake is between tell() and write().
LEMMA TornOffset ==
    ASSUME IInv, NEW t \in Threads, pc[t] = "appending",
           NEW s \in Seq(Segment), Grow(Proc[t], s),
           \A u \in Threads :
               \/ pc'[u] = "idle"
               \/ /\ u # t /\ pc'[u] = pc[u] /\ offset'[u] = offset[u] /\ arg'[u] = arg[u]
    PROVE  OffsetInv'
<1>0. TypeOK /\ Proc[t] \in Procs
  BY StoreAssumption DEF IInv
<1>b. /\ file' = file \o s
      /\ overtaken \subseteq overtaken'
      /\ s # << >> => \A u \in Threads : pc[u] = "appending" /\ Proc[u] # Proc[t]
                                            => Entered(u) \in overtaken'
  BY <1>0, GrowType
<1>1. ASSUME NEW u \in Threads, pc'[u] = "appending"
      PROVE  Entered(u)' \in overtaken' \/ offset'[u] = Len(file')
  <2>1. u # t /\ pc[u] = "appending" /\ offset'[u] = offset[u] /\ Entered(u)' = Entered(u)
    BY <1>1 DEF Entered
  <2>2. Proc[u] # Proc[t]
    BY <2>1 DEF IInv, LockInv
  <2>3. CASE s = << >>
    BY <2>1, <2>3, <1>b, ConcatEmptySeq DEF IInv, TypeOK, OffsetInv
  <2>4. CASE s # << >>
    BY <2>1, <2>2, <2>4, <1>b
  <2> QED
    BY <2>3, <2>4
<1>2. ASSUME NEW u \in Threads, pc'[u] = "written"
      PROVE  Placed(Entered(u))'
  <2>1. pc[u] = "written" /\ Entered(u)' = Entered(u)
    BY <1>2 DEF Entered
  <2>2. Placed(Entered(u)) /\ Entered(u) \in Entry
    BY <2>1, <1>0, EnteredType DEF IInv, OffsetInv
  <2>3. \A e \in Entry : Placed(e) => Placed(e)'
    BY <1>0, PlacedKept
  <2> QED
    BY <2>1, <2>2, <2>3 DEF Placed
<1> QED
  BY <1>1, <1>2 DEF OffsetInv

\* A write that raises preserves the invariant.
LEMMA FailsIInv == ASSUME IInv, NEW t \in Threads, StoreFails(t) PROVE IInv'
<1>0. PICK n \in TornSizes : Grow(Proc[t], SubSeq(Block(arg[t]), 1, n))
  BY DEF StoreFails
<1>1. arg[t] \in Keys /\ SubSeq(Block(arg[t]), 1, n) \in Seq(Segment) /\ TypeOK /\ Proc[t] \in Procs
  BY PrefixType, StoreAssumption DEF IInv, TypeOK
<1>a. file' \in Seq(Segment) /\ overtaken' \subseteq Entry
  BY <1>0, <1>1, GrowType
<1>2. IndexPointsAtHeader' /\ AckedWhole'
  BY <1>0, <1>1, AppendPreserves DEF IInv, StoreFails
<1>3. TypeOK'
  BY <1>a, AnyKeyType, StoreAssumption DEF IInv, TypeOK, StoreFails, Leave
<1>4. LockInv'
  BY StoreAssumption DEF IInv, TypeOK, LockInv, StoreFails, Leave
<1>5. OffsetInv'
  <2>1. \A u \in Threads :
            \/ pc'[u] = "idle"
            \/ /\ u # t /\ pc'[u] = pc[u] /\ offset'[u] = offset[u] /\ arg'[u] = arg[u]
    BY DEF IInv, TypeOK, StoreFails, Leave
  <2> QED
    BY <2>1, <1>0, <1>1, TornOffset DEF StoreFails
<1> QED
  BY <1>2, <1>3, <1>4, <1>5 DEF IInv

\* The index update and the return of store() preserve the invariant.
LEMMA IndexIInv == ASSUME IInv, NEW t \in Threads, StoreIndex(t) PROVE IInv'
<1> DEFINE e == Entered(t)
<1>0. e \in Entry /\ Placed(e) /\ e.off \in Nat /\ e.key \in Keys
  BY EnteredType DEF IInv, OffsetInv, StoreIndex, Entry
<1>1. TypeOK'
  BY <1>0, AnyKeyType, StoreAssumption DEF IInv, TypeOK, StoreIndex, Leave
<1>2. LockInv'
  BY StoreAssumption DEF IInv, TypeOK, LockInv, StoreIndex, Leave
<1>3. OffsetInv'
  <2>1. ASSUME NEW u \in Threads, pc'[u] \in {"appending", "written"}
        PROVE  pc'[u] = pc[u] /\ Entered(u)' = Entered(u) /\ offset'[u] = offset[u]
    BY <2>1 DEF IInv, TypeOK, StoreIndex, Leave, Entered
  <2> QED
    BY <2>1 DEF IInv, OffsetInv, StoreIndex, Placed
<1> HIDE DEF e
<1>4. AckedWhole'
  <2>1. acked' = acked \cup {e} /\ UNCHANGED <<file, overtaken>>
    BY DEF StoreIndex, e
  <2> QED
    BY <2>1, <1>0 DEF IInv, AckedWhole, Placed
<1>5. IndexPointsAtHeader'
  <2>1. e \notin overtaken => HeaderAt(file, e.off) /\ file[e.off + 1].key = e.key
    BY <1>0, WholeHasHeader DEF IInv, TypeOK, Placed
  <2>2. ASSUME NEW p \in Procs, NEW d \in index'[p]
        PROVE  d = e \/ d \in index[p]
    BY <2>2, StoreAssumption DEF IInv, TypeOK, StoreIndex, e
  <2>3. UNCHANGED <<file, overtaken>>
    BY DEF StoreIndex
  <2> QED
    BY <2>1, <2>2, <2>3 DEF IInv, IndexPointsAtHeader
<1> QED
  BY <1>1, <1>2, <1>3, <1>4, <1>5 DEF IInv

\* The end of a process preserves the invariant.
LEMMA ExitIInv == ASSUME IInv, NEW p \in Procs, Exit(p) PROVE IInv'
<1>1. \A q \in Procs : index'[q] \subseteq index[q]
  BY DEF IInv, TypeOK, Exit
<1>2. \A u \in Threads :
          IF Proc[u] = p THEN pc'[u] = "idle"
          ELSE pc'[u] = pc[u] /\ offset'[u] = offset[u] /\ arg'[u] = arg[u]
  BY DEF Exit
<1>3. LockInv'
  BY <1>2, StoreAssumption DEF IInv, TypeOK, LockInv, Exit
<1>4. (file' \in Seq(Segment) /\ overtaken' \subseteq Entry) => TypeOK'
  BY <1>1, <1>2, AnyKeyType, StoreAssumption DEF IInv, TypeOK, Exit
<1>5. CASE UNCHANGED <<file, overtaken>>
  <2>1. OffsetInv'
    BY <1>2, <1>5 DEF IInv, TypeOK, OffsetInv, Exit, Placed, Entered
  <2>2. IndexPointsAtHeader' /\ AckedWhole'
    BY <1>1, <1>5 DEF IInv, IndexPointsAtHeader, AckedWhole, Exit, Placed
  <2> QED
    BY <2>1, <2>2, <1>3, <1>4, <1>5 DEF IInv, TypeOK
<1>6. CASE ~ UNCHANGED <<file, overtaken>>
  <2>1. PICK t \in Threads, n \in TornSizes :
            /\ Proc[t] = p /\ pc[t] = "appending"
            /\ Grow(p, SubSeq(Block(arg[t]), 1, n))
    BY <1>6 DEF Exit
  <2>2. SubSeq(Block(arg[t]), 1, n) \in Seq(Segment) /\ TypeOK
    BY PrefixType DEF IInv, TypeOK
  <2>a. file' \in Seq(Segment) /\ overtaken' \subseteq Entry
    BY <2>1, <2>2, GrowType
  <2>3. IndexPointsAtHeader' /\ AckedWhole'
    BY <1>1, <2>1, <2>2, AppendPreserves DEF IInv, Exit
  <2>4. OffsetInv'
    <3>1. \A u \in Threads :
              \/ pc'[u] = "idle"
              \/ /\ u # t /\ pc'[u] = pc[u] /\ offset'[u] = offset[u] /\ arg'[u] = arg[u]
      BY <1>2, <2>1
    <3> QED
      BY <3>1, <2>1, <2>2, TornOffset
  <2> QED
    BY <2>a, <2>3, <2>4, <1>3, <1>4 DEF IInv
<1> QED
  BY <1>5, <1>6

\* Every step preserves the invariant, whoever writes.
LEMMA NextIInv == IInv /\ [Next]_vars => IInv'
<1> SUFFICES ASSUME IInv, [Next]_vars PROVE IInv'
  OBVIOUS
<1>1. ASSUME NEW p \in Procs, Open(p) PROVE IInv'
  BY <1>1, OpenIInv
<1>2. ASSUME NEW p \in Procs, Exit(p) PROVE IInv'
  BY <1>2, ExitIInv
<1>3. ASSUME NEW t \in Threads, NEW k \in Keys, StoreBegin(t, k) PROVE IInv'
  BY <1>3, BeginIInv
<1>4. ASSUME NEW t \in Threads, StoreLock(t) PROVE IInv'
  BY <1>4, LockIInv
<1>5. ASSUME NEW t \in Threads, StoreWrite(t) PROVE IInv'
  BY <1>5, WriteIInv
<1>6. ASSUME NEW t \in Threads, StoreFails(t) PROVE IInv'
  BY <1>6, FailsIInv
<1>7. ASSUME NEW t \in Threads, StoreIndex(t) PROVE IInv'
  BY <1>7, IndexIInv
<1>8. CASE UNCHANGED vars
  BY <1>8 DEF IInv, vars, TypeOK, LockInv, OffsetInv, IndexPointsAtHeader, AckedWhole, Placed, Entered
<1> QED
  BY <1>1, <1>2, <1>3, <1>4, <1>5, <1>6, <1>7, <1>8 DEF Next

-----------------------------------------------------------------------------
(* The theorems *)

\* The variables keep their types: store(), _rebuild_index, failed appends and
\* restarts included.
THEOREM StoreTypes == Spec => []TypeOK
<1>1. IInv => TypeOK
  BY DEF IInv
<1> QED
  BY <1>1, InitIInv, NextIInv, PTL DEF Spec

\* Every offset any index lists (a writer's, or one a reader rebuilt earlier) is the
\* header of a block of that key, whatever was torn, unless another process appended
\* between its f.tell() and f.write(): nvme_blocks.py takes both under one lock, which
\* holds the threads of its own process apart.
THEOREM IndexSound == Spec => []IndexPointsAtHeader
<1>1. IInv => IndexPointsAtHeader
  BY DEF IInv
<1> QED
  BY <1>1, InitIInv, NextIInv, PTL DEF Spec

\* What store() returned an offset for can be read at that offset for ever, unless it
\* was overtaken.
THEOREM AckedReadable == Spec => []AckedStaysReadable
<1>1. IInv => AckedStaysReadable
  BY WholeHasHeader DEF IInv, AckedWhole, AckedStaysReadable, TypeOK, Entry, Placed
<1> QED
  BY <1>1, InitIInv, NextIInv, PTL DEF Spec

-----------------------------------------------------------------------------
(* Alignment: where a rebuild finds what was acknowledged *)

\* Until the first tear every header sits on a BLOCK_ALIGN boundary, and a file
\* without tears ends on one.
Aligned(f) ==
    /\ Tears(f) = {} => Len(f) % BLOCK_ALIGN = 0
    /\ \A o \in Nat :
          (HeaderAt(f, o) /\ \A t \in Tears(f) : o < t) => o % BLOCK_ALIGN = 0

\* What a write of block k can leave behind the old end of the file.
LEMMA Headers ==
    ASSUME NEW f \in Seq(Segment), NEW k \in Keys, NEW s \in Seq(Segment),
           Len(s) \in 1 .. BLOCK_ALIGN, \A i \in 1 .. Len(s) : s[i] = Block(k)[i]
    PROVE  /\ HeaderAt(f \o s, Len(f))
           /\ \A o \in Nat : HeaderAt(f \o s, o) => o = Len(f) \/ HeaderAt(f, o)
           /\ Tears(f) \subseteq Tears(f \o s)
           /\ \A t \in Tears(f) : t < Len(f)
<1>0. Len(f) \in Nat /\ Len(s) \in Nat /\ Len(f \o s) = Len(f) + Len(s)
  BY LenProperties, ConcatProperties
<1>1. \A i \in 1 .. Len(s) : (f \o s)[Len(f) + i] = s[i]
  <2> TAKE i \in 1 .. Len(s)
  <2>1. Len(f) + i \in 1 .. Len(f) + Len(s) /\ ~ (Len(f) + i <= Len(f))
    BY <1>0
  <2>2. (f \o s)[Len(f) + i] = s[(Len(f) + i) - Len(f)]
    BY <2>1, ConcatProperties
  <2>3. (Len(f) + i) - Len(f) = i
    BY <1>0
  <2> QED
    BY <2>2, <2>3
<1>2. s[1].part = "header" /\ (f \o s)[Len(f) + 1].part = "header"
  <2>1. 1 \in 1 .. Len(s)
    BY <1>0
  <2>2. s[1] = Seg("header", k)
    BY <2>1, BlockType
  <2>3. (f \o s)[Len(f) + 1] = s[1]
    BY <2>1, <1>1
  <2> QED
    BY <2>2, <2>3 DEF Seg
<1>3. HeaderAt(f \o s, Len(f))
  BY <1>0, <1>2 DEF HeaderAt, HEADER_SIZE
<1>4. ASSUME NEW o \in Nat, HeaderAt(f \o s, o), o # Len(f)
      PROVE  HeaderAt(f, o)
  <2>1. CASE o + 1 <= Len(f)
    BY <1>0, <1>4, <2>1, AppendKeeps DEF HeaderAt, HEADER_SIZE
  <2>2. CASE ~ (o + 1 <= Len(f))
    <3>1. o + 1 - Len(f) \in 2 .. Len(s)
      BY <1>0, <1>4, <2>2 DEF HeaderAt, HEADER_SIZE
    <3>2. (f \o s)[o + 1] = s[o + 1 - Len(f)]
      <4>1. Len(f) + (o + 1 - Len(f)) = o + 1
        BY <1>0
      <4> QED
        BY <3>1, <4>1, <1>1
    <3>3. o + 1 - Len(f) \in {2, 3}
      BY <3>1, <1>0 DEF BLOCK_ALIGN
    <3>4. s[o + 1 - Len(f)].part # "header"
      <4>1. s[o + 1 - Len(f)] = Block(k)[o + 1 - Len(f)]
        BY <3>1, <1>0
      <4>2. Block(k)[2].part # "header" /\ Block(k)[3].part # "header"
        BY DEF Block, Seg
      <4> QED
        BY <3>3, <4>1, <4>2
    <3> QED
      BY <3>2, <3>4, <1>4 DEF HeaderAt, HEADER_SIZE
  <2> QED
    BY <2>1, <2>2
<1>5. \A t \in Tears(f) : t \in Nat /\ t < Len(f) /\ HeaderAt(f, t)
  BY <1>0 DEF Tears, HeaderAt, HEADER_SIZE
<1>6. ASSUME NEW t \in Tears(f)
      PROVE  t \in Tears(f \o s)
  <2>1. t \in Nat /\ t < Len(f) /\ HeaderAt(f, t) /\ ~ WholeAt(f, t, f[t + 1].key)
    BY <1>5 DEF Tears
  <2>2. f[t + 1].key \in Keys
    <3>1. t + 1 \in 1 .. Len(f)
      BY <2>1, <1>0
    <3>2. f[t + 1] \in Segment
      BY <3>1, ElementOfSeq
    <3> QED
      BY <3>2 DEF Segment
  <2>3. HeaderAt(f \o s, t) /\ (f \o s)[t + 1] = f[t + 1]
    BY <2>1, HeaderKept
  <2>4. ASSUME WholeAt(f \o s, t, f[t + 1].key)
        PROVE  FALSE
    <3>1. CASE t + BLOCK_ALIGN <= Len(f)
      <4>1. \A i \in 1 .. BLOCK_ALIGN : (f \o s)[t + i] = f[t + i]
        BY <2>1, <3>1, <1>0, AppendKeeps DEF BLOCK_ALIGN
      <4> QED
        BY <2>1, <2>4, <3>1, <4>1 DEF WholeAt
    <3>2. CASE ~ (t + BLOCK_ALIGN <= Len(f))
      <4>1. Len(f) + 1 - t \in {2, 3}
        BY <2>1, <3>2, <1>0 DEF BLOCK_ALIGN
      <4>2. t + (Len(f) + 1 - t) = Len(f) + 1
        BY <2>1, <1>0
      <4>3. (f \o s)[Len(f) + 1] = Block(f[t + 1].key)[Len(f) + 1 - t]
        BY <2>4, <4>1, <4>2 DEF WholeAt, BLOCK_ALIGN
      <4>4. /\ Block(f[t + 1].key)[2].part # "header"
            /\ Block(f[t + 1].key)[3].part # "header"
        BY DEF Block, Seg
      <4> QED
        BY <4>1, <4>3, <4>4, <1>2
    <3> QED
      BY <3>1, <3>2
  <2> QED
    BY <2>1, <2>3, <2>4, <1>0 DEF Tears
<1> QED
  BY <1>3, <1>4, <1>5, <1>6

\* Alignment before the first torn block survives a whole append.
LEMMA AlignedWhole ==
    ASSUME NEW f \in Seq(Segment), NEW k \in Keys, Aligned(f)
    PROVE  Aligned(f \o Block(k))
<1> DEFINE g == f \o Block(k)
<1>0. Len(f) \in Nat /\ Len(g) = Len(f) + BLOCK_ALIGN
  BY LenProperties, BlockType, ConcatProperties
<1>1. /\ HeaderAt(g, Len(f))
      /\ \A o \in Nat : HeaderAt(g, o) => o = Len(f) \/ HeaderAt(f, o)
      /\ Tears(f) \subseteq Tears(g)
      /\ \A t \in Tears(f) : t < Len(f)
  BY BlockType, Headers DEF BLOCK_ALIGN
<1>2. Tears(g) = {} => Len(g) % BLOCK_ALIGN = 0
  <2> HAVE Tears(g) = {}
  <2>1. Len(f) % BLOCK_ALIGN = 0
    BY <1>1 DEF Aligned
  <2> QED
    BY <2>1, <1>0 DEF BLOCK_ALIGN
<1>3. ASSUME NEW o \in Nat, HeaderAt(g, o), \A t \in Tears(g) : o < t
      PROVE  o % BLOCK_ALIGN = 0
  <2>1. CASE o = Len(f)
    <3>1. Tears(f) = {}
      <4>1. ASSUME NEW t \in Tears(f) PROVE FALSE
        <5>1. t < Len(f) /\ o < t /\ t \in Nat
          BY <1>1, <1>3 DEF Tears
        <5> QED
          BY <5>1, <2>1, <1>0
      <4> QED
        BY <4>1
    <3> QED
      BY <2>1, <3>1 DEF Aligned
  <2>2. CASE HeaderAt(f, o)
    BY <2>2, <1>1, <1>3 DEF Aligned
  <2> QED
    BY <2>1, <2>2, <1>1, <1>3
<1> QED
  BY <1>2, <1>3 DEF Aligned

\* Alignment before the first torn block survives a torn append.
LEMMA AlignedTorn ==
    ASSUME NEW f \in Seq(Segment), NEW k \in Keys, NEW n \in TornSizes, Aligned(f)
    PROVE  Aligned(f \o SubSeq(Block(k), 1, n))
<1> DEFINE s == SubSeq(Block(k), 1, n)
           g == f \o s
<1>0. n \in 0 .. 2 /\ s \in Seq(Segment) /\ Len(f) \in Nat
  BY BlockAssumption, PrefixType, LenProperties DEF BLOCK_ALIGN
<1>1. CASE n = 0
  <2>1. s = << >>
    BY <1>1, SubSeqEmpty
  <2>2. g = f
    BY <2>1, ConcatEmptySeq
  <2> QED
    BY <2>2
<1>2. CASE n # 0
  <2>1. Len(s) = n /\ \A i \in 1 .. Len(s) : s[i] = Block(k)[i]
    <3>1. \A i \in 1 .. n : Block(k)[i] \in Segment
      BY <1>0 DEF Block, Segment, Seg
    <3> QED
      BY <3>1, <1>0, <1>2, SubSeqProperties
  <2>2. /\ HeaderAt(g, Len(f))
        /\ \A o \in Nat : HeaderAt(g, o) => o = Len(f) \/ HeaderAt(f, o)
        /\ Tears(f) \subseteq Tears(g)
    <3>1. Len(s) \in 1 .. BLOCK_ALIGN
      BY <2>1, <1>0, <1>2 DEF BLOCK_ALIGN
    <3> HIDE DEF s
    <3> QED
      BY <2>1, <3>1, <1>0, Headers
  <2>3. Len(f) \in Tears(g)
    <3>1. Len(g) = Len(f) + n
      BY <2>1, <1>0, ConcatProperties
    <3> QED
      BY <3>1, <2>2, <1>0 DEF Tears, WholeAt, BLOCK_ALIGN
  <2>4. ASSUME NEW o \in Nat, HeaderAt(g, o), \A t \in Tears(g) : o < t
        PROVE  o % BLOCK_ALIGN = 0
    <3>1. HeaderAt(f, o)
      BY <2>2, <2>3, <2>4, <1>0
    <3> QED
      BY <3>1, <2>2, <2>4 DEF Aligned
  <2> QED
    BY <2>3, <2>4 DEF Aligned
<1> QED
  BY <1>1, <1>2

\* Every step keeps the blocks before the first torn one aligned.
LEMMA NextAligned == TypeOK /\ Aligned(file) /\ [Next]_vars => Aligned(file)'
<1> SUFFICES ASSUME TypeOK, Aligned(file), [Next]_vars PROVE Aligned(file')
  OBVIOUS
<1>1. CASE UNCHANGED file
  BY <1>1
<1>2. ASSUME NEW t \in Threads, file' = file \o Block(arg[t])
      PROVE  Aligned(file')
  BY <1>2, AlignedWhole DEF TypeOK
<1>3. ASSUME NEW t \in Threads, NEW n \in TornSizes,
             file' = file \o SubSeq(Block(arg[t]), 1, n)
      PROVE  Aligned(file')
  BY <1>3, AlignedTorn DEF TypeOK
<1> QED
  BY <1>1, <1>2, <1>3
     DEF Next, vars, Open, Exit, StoreBegin, StoreLock, StoreWrite, StoreFails, StoreIndex, Grow

\* A whole block that no torn block precedes is listed by _rebuild_index.
LEMMA WholeIsListed ==
    ASSUME NEW f \in Seq(Segment), Aligned(f), NEW o \in Nat, NEW k \in Keys, WholeAt(f, o, k)
    PROVE  /\ o \in 0 .. Len(f)
           /\ (\A x \in Tears(f) : o < x) => [off |-> o, key |-> k] \in Rebuild(f)
<1>1. HeaderAt(f, o) /\ f[o + 1].key = k
  BY WholeHasHeader
<1>2. o \in 0 .. Len(f)
  BY <1>1, LenProperties DEF HeaderAt, HEADER_SIZE
<1>3. (\A x \in Tears(f) : o < x) => o % BLOCK_ALIGN = 0
  BY <1>1 DEF Aligned
<1> QED
  BY <1>1, <1>2, <1>3 DEF Rebuild

\* Of what store() acknowledged the file has a whole block, which every later
\* _rebuild_index lists if no torn block precedes it: the loss of a torn append reaches
\* forward only, and a reopen finds what another process had overtaken.
THEOREM AckedSurvives == Spec => []AckedSurvivesRestart
<1>1. Init => Aligned(file)
  BY DEF Init, Aligned, HeaderAt, HEADER_SIZE, BLOCK_ALIGN
<1>2. IInv => TypeOK
  BY DEF IInv
<1>3. IInv /\ Aligned(file) => AckedSurvivesRestart
  <2> SUFFICES ASSUME IInv, Aligned(file), NEW e \in acked
               PROVE  \E o \in 0 .. Len(file) :
                        /\ WholeAt(file, o, e.key)
                        /\ e \notin overtaken => o = e.off
                        /\ (\A x \in Tears(file) : o < x)
                             => [off |-> o, key |-> e.key] \in Rebuild(file)
    BY DEF AckedSurvivesRestart
  <2>1. e.off \in Nat /\ e.key \in Keys /\ Placed(e) /\ file \in Seq(Segment)
    BY DEF IInv, TypeOK, AckedWhole, Entry
  <2>2. PICK o \in Nat : WholeAt(file, o, e.key) /\ (e \notin overtaken => o = e.off)
    BY <2>1 DEF Placed
  <2> QED
    BY <2>1, <2>2, WholeIsListed
<1> QED
  BY <1>1, <1>2, <1>3, InitIInv, NextIInv, NextAligned, PTL DEF Spec

-----------------------------------------------------------------------------
(* The readers *)

\* The file has a header of key e.key where e says.
Points(e) == HeaderAt(file, e.off) /\ file[e.off + 1].key = e.key

\* A file as long as m at some moment had every block the shared index lists and
\* read() could ever return.
Serves(m) ==
    \A e \in seen :
        /\ e.off + 1 <= m
        /\ Readable(file, e.off, e.key) => e.off + 2 <= m

ReadTypes ==
    /\ seen \subseteq Entry
    /\ map \in Int /\ map >= NoMap /\ map <= Len(file)
    /\ mapSize \in Nat
    /\ rpc \in [Readers -> Outside \cup {"compare", "close", "none", "zero", "mmap",
                                        "assign", "length", "header", "payload"}]
    /\ want \in [Readers -> Entry]
    /\ size \in [Readers -> Nat]
    /\ fresh \in [Readers -> Nat]
    /\ lone \in [Readers -> BOOLEAN]
    /\ \A r \in Readers : fresh[r] <= Len(file)

\* The index points at headers, readers read what it lists, and there is no mapping
\* before there is an index.
IndexUsed ==
    /\ \A e \in seen : Points(e)
    /\ \A r \in Readers : rpc[r] \notin Outside => want[r] \in seen
    /\ seen = {} => map = NoMap

\* A mapping is closed only while the thread that closed it has still to forget it,
\* and every open one, and every length a thread works with, serves the index.
MapServes ==
    /\ map = Closed => \E r \in Readers : rpc[r] = "none"
    /\ map > 0 => Serves(map)
    /\ \A r \in Readers :
        /\ rpc[r] \in {"compare", "close", "none", "zero", "mmap", "assign", "length"}
            => Serves(size[r])
        /\ rpc[r] = "assign" => fresh[r] > 0 /\ Serves(fresh[r])

\* Nobody else is inside while a reader is alone, which finds an open mapping or
\* makes one.
LoneIsServed ==
    \A r \in Readers : lone[r] =>
        /\ rpc[r] \notin Outside
        /\ \A q \in Readers \ {r} : rpc[q] \in Outside
        /\ rpc[r] \in {"length", "header", "payload"} => map > 0
        /\ rpc[r] \in {"header", "payload"} => Serves(mapSize)

RInv == TypeOK /\ ReadTypes /\ IndexUsed /\ MapServes /\ LoneIsServed

\* A torn append leaves no block, or one that begins with its header.
LEMMA PrefixBegins ==
    ASSUME NEW k \in Keys, NEW n \in TornSizes, Len(SubSeq(Block(k), 1, n)) > 0
    PROVE  SubSeq(Block(k), 1, n)[1] = Seg("header", k)
<1>1. n \in 0 .. 2
  BY BlockAssumption DEF BLOCK_ALIGN
<1>2. CASE n = 0
  BY <1>2
<1>3. CASE n = 1
  BY <1>3 DEF Block
<1>4. CASE n = 2
  BY <1>4 DEF Block
<1> QED
  BY <1>1, <1>2, <1>3, <1>4

\* The file only grows, by blocks or what is left of them: the first new segment is a
\* header.
Grown ==
    /\ Len(file) \in Nat /\ Len(file') \in Nat /\ Len(file) <= Len(file')
    /\ \A i \in 1 .. Len(file) : file'[i] = file[i]
    /\ Len(file) < Len(file') => file'[Len(file) + 1].part = "header"

LEMMA HeaderPart == \A k : Seg("header", k).part = "header"
BY DEF Seg

LEMMA AppendGrows ==
    ASSUME TypeOK, NEW s \in Seq(Segment), file' = file \o s,
           Len(s) > 0 => s[1].part = "header"
    PROVE  Grown
<1>1. /\ Len(file) \in Nat /\ Len(s) \in Nat
      /\ Len(file') = Len(file) + Len(s)
      /\ \A i \in 1 .. Len(file) : file'[i] = file[i]
  BY AppendKeeps, LenProperties, ConcatProperties DEF TypeOK
<1>2. ASSUME Len(s) > 0
      PROVE  file'[Len(file) + 1] = s[1]
  BY <1>1, <1>2, ConcatProperties DEF TypeOK
<1> QED
  BY <1>1, <1>2 DEF Grown

LEMMA NextGrows == TypeOK /\ [Next]_vars => Grown
<1> SUFFICES ASSUME TypeOK, [Next]_vars PROVE Grown
  OBVIOUS
<1>1. CASE UNCHANGED file
  BY <1>1, LenProperties DEF Grown, TypeOK
<1>2. ASSUME NEW t \in Threads, file' = file \o Block(arg[t])
      PROVE  Grown
  <2>1. arg[t] \in Keys
    BY DEF TypeOK
  <2>2. Block(arg[t])[1].part = "header"
    BY <2>1, BlockType, HeaderPart
  <2> QED
    BY <1>2, <2>1, <2>2, BlockType, AppendGrows
<1>3. ASSUME NEW t \in Threads, NEW n \in TornSizes,
             file' = file \o SubSeq(Block(arg[t]), 1, n)
      PROVE  Grown
  <2> DEFINE s == SubSeq(Block(arg[t]), 1, n)
  <2>1. arg[t] \in Keys
    BY DEF TypeOK
  <2>2. Len(s) > 0 => s[1].part = "header"
    BY <2>1, PrefixBegins, HeaderPart
  <2>3. s \in Seq(Segment)
    BY <2>1, PrefixType
  <2> HIDE DEF s
  <2> QED
    BY <1>3, <2>2, <2>3, AppendGrows DEF s
<1> QED
  BY <1>1, <1>2, <1>3
     DEF Next, vars, Open, Exit, StoreBegin, StoreLock, StoreWrite, StoreFails, StoreIndex, Grow

\* A header stays, and a block that has its header becomes readable at no later time
\* than it was written: an append never completes a torn one.
LEMMA NothingCompleted ==
    ASSUME Grown, NEW o \in Nat, NEW k \in Keys, HeaderAt(file, o)
    PROVE  /\ HeaderAt(file', o) /\ file'[o + 1] = file[o + 1]
           /\ Readable(file', o, k) => Readable(file, o, k)
<1>1. o + 1 \in 1 .. Len(file) /\ Len(file) \in Nat
  BY DEF HeaderAt, HEADER_SIZE, Grown
<1>2. HeaderAt(file', o) /\ file'[o + 1] = file[o + 1]
  BY <1>1 DEF Grown, HeaderAt, HEADER_SIZE
<1>3. ASSUME Readable(file', o, k) PROVE Readable(file, o, k)
  <2>1. o + 2 <= Len(file') /\ file'[o + 2] = Seg("payload", k) /\ file'[o + 2].part = "payload"
    BY <1>3 DEF Readable, HEADER_SIZE, Seg
  <2>2. CASE o + 2 <= Len(file)
    <3>1. o + 2 \in 1 .. Len(file)
      BY <1>1, <2>2
    <3> QED
      BY <1>2, <1>3, <2>2, <3>1 DEF Readable, HEADER_SIZE, Grown
  <2>3. CASE o + 2 = Len(file) + 1
    BY <2>1, <2>3 DEF Grown
  <2> QED
    BY <1>1, <2>2, <2>3 DEF Grown
<1> QED
  BY <1>2, <1>3

\* A file as long as it is now serves the index.
LEMMA FileServes ==
    ASSUME TypeOK, ReadTypes, IndexUsed
    PROVE  Serves(Len(file))
<1> SUFFICES ASSUME NEW e \in seen
             PROVE  /\ e.off + 1 <= Len(file)
                    /\ Readable(file, e.off, e.key) => e.off + 2 <= Len(file)
  BY DEF Serves
<1>1. e.off \in Nat /\ Len(file) \in Nat /\ HeaderAt(file, e.off)
  BY LenProperties DEF IndexUsed, Points, TypeOK, ReadTypes, Entry
<1> QED
  BY <1>1 DEF HeaderAt, HEADER_SIZE, Readable

\* A step of the writers moves no reader, and nothing the readers rely on.
LEMMA WritersKeepRInv ==
    ASSUME RInv, TypeOK', [Next]_vars, UNCHANGED readVars
    PROVE  RInv'
<1>1. TypeOK' /\ Grown
  BY NextGrows DEF RInv
<1>2. ReadTypes'
  <2>1. Len(file) <= Len(file') /\ Len(file) \in Nat /\ Len(file') \in Nat
    BY <1>1 DEF Grown
  <2> QED
    BY <2>1 DEF RInv, ReadTypes, readVars, Outside, NoMap
<1>3. ASSUME NEW e \in seen
      PROVE  /\ HeaderAt(file', e.off) /\ file'[e.off + 1].key = e.key
             /\ Readable(file', e.off, e.key) => Readable(file, e.off, e.key)
  <2>1. e.off \in Nat /\ e.key \in Keys /\ HeaderAt(file, e.off) /\ file[e.off + 1].key = e.key
    BY DEF RInv, ReadTypes, IndexUsed, Points, Entry
  <2> QED
    BY <1>1, <2>1, NothingCompleted
<1>4. IndexUsed'
  BY <1>3 DEF RInv, IndexUsed, Points, readVars
<1>5. \A m : Serves(m) => Serves(m)'
  BY <1>3 DEF Serves, readVars
<1>6. MapServes'
  <2>1. UNCHANGED <<seen, map, rpc, size, fresh>>
    BY DEF readVars
  <2>2. map > 0 => Serves(map)'
    BY <1>5, <2>1 DEF RInv, MapServes, Serves
  <2>3. ASSUME NEW r \in Readers
        PROVE  /\ rpc[r] \in {"compare", "close", "none", "zero", "mmap", "assign", "length"}
                    => Serves(size[r])'
               /\ rpc[r] = "assign" => fresh[r] > 0 /\ Serves(fresh[r])'
    BY <1>5, <2>1 DEF RInv, MapServes, Serves
  <2> QED
    BY <2>1, <2>2, <2>3 DEF RInv, MapServes
<1>7. LoneIsServed'
  <2>1. UNCHANGED <<seen, map, mapSize, rpc, lone>>
    BY DEF readVars
  <2>2. ASSUME NEW r \in Readers, lone[r], rpc[r] \in {"header", "payload"}
        PROVE  Serves(mapSize)'
    BY <1>5, <2>1, <2>2 DEF RInv, LoneIsServed, Serves
  <2> QED
    BY <2>1, <2>2 DEF RInv, LoneIsServed
<1> QED
  BY <1>1, <1>2, <1>4, <1>6, <1>7 DEF RInv

\* The object is created with the index of its moment, before anything is mapped.
LEMMA CreateKeepsRInv ==
    ASSUME RInv, Create
    PROVE  RInv'
<1>1. /\ TypeOK /\ ReadTypes /\ IndexUsed /\ MapServes /\ LoneIsServed
      /\ file \in Seq(Segment)
      /\ seen = {} /\ seen' = Rebuild(file)
      /\ UNCHANGED <<file, map, mapSize, rpc, want, size, fresh, lone>>
  BY DEF RInv, TypeOK, Create, vars
<1>2. map = NoMap /\ \A r \in Readers : rpc[r] \in Outside
  BY <1>1 DEF IndexUsed
<1>3. \A e \in seen' : e \in Entry /\ HeaderAt(file, e.off) /\ file[e.off + 1].key = e.key
  BY <1>1, RebuildPoints
<1>4. TypeOK'
  BY <1>1 DEF Create, vars, TypeOK
<1>5. ReadTypes'
  BY <1>1, <1>3 DEF ReadTypes
<1>6. IndexUsed'
  BY <1>1, <1>2, <1>3 DEF IndexUsed, Points
<1>7. MapServes'
  BY <1>1, <1>2 DEF MapServes, NoMap, Closed, Outside
<1>8. LoneIsServed'
  BY <1>1, <1>2 DEF LoneIsServed
<1> QED
  BY <1>4, <1>5, <1>6, <1>7, <1>8 DEF RInv

\* A reader enters, with an entry of the index and the length of the file.
LEMMA QueryKeepsRInv ==
    ASSUME RInv, NEW r \in Readers, NEW e, Query(r, e)
    PROVE  RInv'
<1>1. /\ TypeOK /\ ReadTypes /\ IndexUsed /\ MapServes /\ LoneIsServed
      /\ e \in seen /\ rpc[r] \in Outside
      /\ UNCHANGED <<vars, file, seen, map, mapSize, fresh>>
      /\ rpc' = [rpc EXCEPT ![r] = "compare"]
      /\ want' = [want EXCEPT ![r] = e]
      /\ size' = [size EXCEPT ![r] = Len(file)]
      /\ lone' = [q \in Readers |-> IF q = r THEN \A p \in Readers \ {r} : rpc[p] \in Outside
                                             ELSE FALSE]
  BY DEF RInv, Query, Lists, Goto, vars
<1>2. Len(file) \in Nat /\ Serves(Len(file))
  BY <1>1, FileServes, LenProperties DEF TypeOK
<1>3. TypeOK'
  BY <1>1 DEF vars, TypeOK
<1>4. ReadTypes'
  <2>1. lone' \in [Readers -> BOOLEAN]
    BY <1>1
  <2> QED
    BY <1>1, <1>2, <2>1 DEF ReadTypes
<1>5. IndexUsed'
  BY <1>1 DEF IndexUsed, Points, ReadTypes, Outside
<1>6. MapServes'
  <2>1. \A q \in Readers : rpc[q] = "none" => rpc'[q] = "none"
    BY <1>1 DEF ReadTypes, Outside
  <2>2. \A q \in Readers : q # r => rpc'[q] = rpc[q] /\ size'[q] = size[q]
    BY <1>1 DEF ReadTypes
  <2>3. rpc'[r] = "compare" /\ size'[r] = Len(file)
    BY <1>1 DEF ReadTypes
  <2> QED
    BY <1>1, <1>2, <2>1, <2>2, <2>3 DEF MapServes, Serves
<1>7. LoneIsServed'
  <2>1. \A q \in Readers : lone'[q] => q = r
    BY <1>1
  <2>2. \A q \in Readers \ {r} : rpc'[q] = rpc[q]
    BY <1>1 DEF ReadTypes
  <2>3. rpc'[r] = "compare" /\ (lone'[r] => \A p \in Readers \ {r} : rpc[p] \in Outside)
    BY <1>1 DEF ReadTypes
  <2> QED
    BY <2>1, <2>2, <2>3 DEF LoneIsServed, Outside
<1> QED
  BY <1>3, <1>4, <1>5, <1>6, <1>7 DEF RInv

\* A step of reader r inside read(): it moves with its locals, and leaves perhaps another
\* mapping, which must be one that serves, or closed with r on its way to forget it.
Moves(r) ==
    /\ UNCHANGED <<vars, seen>>
    /\ \A q \in Readers \ {r} :
        /\ rpc'[q] = rpc[q] /\ want'[q] = want[q] /\ size'[q] = size[q]
        /\ fresh'[q] = fresh[q] /\ lone'[q] = lone[q]
    /\ ReadTypes'
    /\ rpc'[r] \notin Outside => want'[r] = want[r] /\ rpc[r] \notin Outside
    /\ seen = {} => map' = map
    /\ map' > 0 => Serves(map')
    /\ map' = Closed => rpc'[r] = "none" \/ (map = Closed /\ rpc[r] # "none")
    /\ rpc'[r] \in {"compare", "close", "none", "zero", "mmap", "assign", "length"}
        => Serves(size'[r])
    /\ rpc'[r] = "assign" => fresh'[r] > 0 /\ Serves(fresh'[r])
    /\ lone'[r] => lone[r] /\ rpc'[r] \notin Outside
    /\ lone'[r] /\ rpc'[r] \in {"length", "header", "payload"} => map' > 0
    /\ lone'[r] /\ rpc'[r] \in {"header", "payload"} => Serves(mapSize')

LEMMA MoveKeepsRInv ==
    ASSUME RInv, NEW r \in Readers, rpc[r] \notin Outside, Moves(r)
    PROVE  RInv'
<1>1. /\ TypeOK /\ ReadTypes /\ IndexUsed /\ MapServes /\ LoneIsServed
      /\ UNCHANGED <<file, seen, vars>>
  BY DEF RInv, vars, Moves
<1>2. \A q \in Readers : q # r => /\ rpc'[q] = rpc[q] /\ want'[q] = want[q]
                                  /\ size'[q] = size[q] /\ fresh'[q] = fresh[q]
                                  /\ lone'[q] = lone[q]
  BY DEF Moves
<1>3. TypeOK'
  BY <1>1 DEF vars, TypeOK
<1>4. ReadTypes'
  BY DEF Moves
<1>5. IndexUsed'
  <2>1. want[r] \in seen
    BY <1>1 DEF IndexUsed
  <2> QED
    BY <1>1, <1>2, <2>1 DEF IndexUsed, Points, Moves
<1>6. MapServes'
  <2>1. map' = Closed => \E q \in Readers : rpc'[q] = "none"
    BY <1>1, <1>2 DEF MapServes, Moves
  <2>2. \A m : Serves(m) => Serves(m)'
    BY <1>1 DEF Serves
  <2>3. \A q \in Readers :
        /\ rpc'[q] \in {"compare", "close", "none", "zero", "mmap", "assign", "length"}
            => Serves(size'[q])
        /\ rpc'[q] = "assign" => fresh'[q] > 0 /\ Serves(fresh'[q])
    BY <1>1, <1>2 DEF MapServes, Moves
  <2> QED
    BY <1>1, <2>1, <2>3 DEF MapServes, Serves, Moves
<1>7. LoneIsServed'
  <2>1. \A q \in Readers : lone'[q] => q = r /\ lone[r]
    BY <1>1, <1>2 DEF LoneIsServed, Moves
  <2>2. lone'[r] => \A q \in Readers \ {r} : rpc'[q] \in Outside
    BY <1>1, <1>2, <2>1 DEF LoneIsServed
  <2>3. lone'[r] /\ rpc'[r] \in {"header", "payload"} => Serves(mapSize)'
    BY <1>1 DEF Serves, Moves
  <2> QED
    BY <1>2, <2>1, <2>2, <2>3 DEF LoneIsServed, Moves
<1> QED
  BY <1>3, <1>4, <1>5, <1>6, <1>7 DEF RInv

\* Leaving read() is such a step.
LEMMA ReturnKeepsRInv ==
    ASSUME RInv, NEW r \in Readers, rpc[r] \notin Outside \cup {"none"},
           NEW outcome \in Outside, Return(r, outcome),
           UNCHANGED <<vars, seen, map, mapSize>>
    PROVE  RInv'
<1>1. /\ ReadTypes /\ MapServes /\ Len(file) \in Nat
  BY LenProperties DEF RInv, TypeOK
<1>2. Nowhere \in Entry
  BY BlockAssumption DEF Nowhere, Entry
<1>3. outcome \notin {"compare", "close", "none", "zero", "mmap", "assign", "length",
                     "header", "payload"}
  BY DEF Outside
<1>4. /\ rpc' = [rpc EXCEPT ![r] = outcome]
      /\ want' = [want EXCEPT ![r] = Nowhere]
      /\ size' = [size EXCEPT ![r] = 0]
      /\ fresh' = [fresh EXCEPT ![r] = 0]
      /\ lone' = [lone EXCEPT ![r] = FALSE]
      /\ UNCHANGED <<vars, seen, file, map, mapSize>>
  BY DEF Return, Goto, vars
<1>5. ReadTypes'
  BY <1>1, <1>2, <1>4 DEF ReadTypes
<1>6. Moves(r)
  BY <1>1, <1>3, <1>4, <1>5 DEF Moves, ReadTypes, MapServes
<1> QED
  BY <1>6, MoveKeepsRInv

\* Every step of a reader keeps the invariant.
LEMMA ReadKeepsRInv ==
    ASSUME RInv, NEW r \in Readers, Read(r)
    PROVE  RInv'
<1>0. /\ ReadTypes /\ MapServes /\ LoneIsServed /\ Len(file) \in Nat
      /\ UNCHANGED <<vars, seen>>
      /\ rpc[r] \notin Outside
      /\ file' = file
  <2>1. ReadTypes /\ MapServes /\ LoneIsServed /\ Len(file) \in Nat
    BY LenProperties DEF RInv, TypeOK
  <2>2. UNCHANGED <<vars, seen>>
    BY DEF Read, Compare, CloseMap, DropMap, ZeroSize, MapFile, AssignMap, AssignSize,
           ReadHeader, ReadPayload
  <2>3. rpc[r] \notin Outside
    BY DEF Read, Compare, CloseMap, DropMap, ZeroSize, MapFile, AssignMap, AssignSize,
           ReadHeader, ReadPayload, Outside
  <2> QED
    BY <2>1, <2>2, <2>3 DEF vars
<1>1. /\ map \in Int /\ map >= NoMap /\ map <= Len(file) /\ mapSize \in Nat
      /\ map > 0 => Serves(map)
      /\ lone[r] => \A q \in Readers : rpc[q] = "none" => q = r
      /\ rpc[r] \in {"compare", "close", "none", "zero", "mmap", "assign", "length"}
            => Serves(size[r])
      /\ lone[r] /\ map = Closed => rpc[r] = "none"
      /\ seen # {}
  BY <1>0 DEF ReadTypes, MapServes, LoneIsServed, Outside, RInv, IndexUsed
<1> USE DEF Outside, NoMap, Closed
<1>2. CASE Compare(r)
  <2>1. CASE map = Closed
    BY <1>0, <1>2, <2>1, ReturnKeepsRInv DEF Compare
  <2>2. CASE map # Closed
    <3> DEFINE l == IF map # NoMap /\ mapSize = size[r] THEN "header" ELSE "close"
    <3>1. /\ rpc' = [rpc EXCEPT ![r] = l] /\ rpc[r] = "compare"
          /\ UNCHANGED <<map, mapSize, want, size, fresh, lone>>
      BY <1>2, <2>2 DEF Compare, Goto
    <3>2. CASE map # NoMap /\ mapSize = size[r]
      <4>1. l = "header" /\ map > 0 /\ Serves(mapSize)
        BY <1>1, <2>2, <3>1, <3>2
      <4> HIDE DEF l
      <4> QED
        <5>1. ReadTypes'
          BY <1>0, <1>1, <2>2, <3>1, <4>1 DEF ReadTypes
        <5>2. Moves(r)
          BY <1>0, <1>1, <2>2, <3>1, <4>1, <5>1 DEF Moves, ReadTypes
        <5> QED
          BY <1>0, <5>2, MoveKeepsRInv
    <3>3. CASE ~(map # NoMap /\ mapSize = size[r])
      <4>1. l = "close"
        BY <3>3
      <4> HIDE DEF l
      <4> QED
        <5>1. ReadTypes'
          BY <1>0, <1>1, <2>2, <3>1, <4>1 DEF ReadTypes
        <5>2. Moves(r)
          BY <1>0, <1>1, <2>2, <3>1, <4>1, <5>1 DEF Moves, ReadTypes
        <5> QED
          BY <1>0, <5>2, MoveKeepsRInv
    <3> QED
      BY <3>2, <3>3
  <2> QED
    BY <2>1, <2>2
<1>3. CASE CloseMap(r)
  <2>1. CASE map = Closed
    BY <1>0, <1>3, <2>1, ReturnKeepsRInv DEF CloseMap
  <2>2. CASE map = NoMap
    <3>1. /\ rpc' = [rpc EXCEPT ![r] = "zero"] /\ rpc[r] = "close"
          /\ UNCHANGED <<map, mapSize, want, size, fresh, lone>>
      BY <1>3, <2>2 DEF CloseMap, Goto
    <3> QED
      <4>1. ReadTypes'
        BY <1>0, <1>1, <2>2, <3>1 DEF ReadTypes
      <4>2. Moves(r)
        BY <1>0, <1>1, <2>2, <3>1, <4>1 DEF Moves, ReadTypes
      <4> QED
        BY <1>0, <4>2, MoveKeepsRInv
  <2>3. CASE map \notin {Closed, NoMap}
    <3>1. /\ rpc' = [rpc EXCEPT ![r] = "none"] /\ rpc[r] = "close" /\ map' = 0
          /\ UNCHANGED <<mapSize, want, size, fresh, lone>>
      BY <1>3, <2>3 DEF CloseMap, Goto
    <3> QED
      <4>1. ReadTypes'
        BY <1>0, <1>1, <3>1 DEF ReadTypes
      <4>2. Moves(r)
        BY <1>0, <1>1, <3>1, <4>1 DEF Moves, ReadTypes
      <4> QED
        BY <1>0, <4>2, MoveKeepsRInv
  <2> QED
    BY <2>1, <2>2, <2>3
<1>4. CASE DropMap(r)
  <2>1. /\ rpc' = [rpc EXCEPT ![r] = "zero"] /\ rpc[r] = "none" /\ map' = -1
        /\ UNCHANGED <<mapSize, want, size, fresh, lone>>
    BY <1>4 DEF DropMap, Goto
  <2> QED
    <3>1. ReadTypes'
      BY <1>0, <1>1, <2>1 DEF ReadTypes
    <3>2. Moves(r)
      BY <1>0, <1>1, <2>1, <3>1 DEF Moves, ReadTypes
    <3> QED
      BY <1>0, <3>2, MoveKeepsRInv
<1>5. CASE ZeroSize(r)
  <2>1. /\ rpc' = [rpc EXCEPT ![r] = "mmap"] /\ rpc[r] = "zero" /\ mapSize' = 0
        /\ UNCHANGED <<map, want, size, fresh, lone>>
    BY <1>5 DEF ZeroSize, Goto
  <2> QED
    <3>1. ReadTypes'
      BY <1>0, <1>1, <2>1 DEF ReadTypes
    <3>2. Moves(r)
      BY <1>0, <1>1, <2>1, <3>1 DEF Moves, ReadTypes
    <3> QED
      BY <1>0, <3>2, MoveKeepsRInv
<1>6. CASE MapFile(r)
  <2>1. /\ rpc' = [rpc EXCEPT ![r] = "assign"] /\ rpc[r] = "mmap"
        /\ fresh' = [fresh EXCEPT ![r] = Len(file)]
        /\ UNCHANGED <<map, mapSize, want, size, lone>>
    BY <1>6 DEF MapFile, Goto
  <2>2. Serves(Len(file)) /\ Len(file) > 0
    <3>1. Serves(Len(file))
      BY FileServes DEF RInv
    <3>2. want[r] \in seen
      BY <1>0 DEF RInv, IndexUsed
    <3>3. want[r].off \in Nat
      BY <1>0 DEF ReadTypes, Entry
    <3> QED
      BY <1>0, <3>1, <3>2, <3>3 DEF Serves
  <2> QED
    <3>1. ReadTypes'
      BY <1>0, <1>1, <2>1, <2>2 DEF ReadTypes
    <3>2. Moves(r)
      BY <1>0, <1>1, <2>1, <2>2, <3>1 DEF Moves, ReadTypes
    <3> QED
      BY <1>0, <3>2, MoveKeepsRInv
<1>7. CASE AssignMap(r)
  <2>1. /\ rpc' = [rpc EXCEPT ![r] = "length"] /\ rpc[r] = "assign" /\ map' = fresh[r]
        /\ fresh' = [fresh EXCEPT ![r] = 0]
        /\ UNCHANGED <<mapSize, want, size, lone>>
    BY <1>7 DEF AssignMap, Goto
  <2>2. fresh[r] > 0 /\ Serves(fresh[r])
    BY <1>0, <2>1 DEF MapServes
  <2> QED
    <3>1. ReadTypes'
      BY <1>0, <1>1, <2>1, <2>2 DEF ReadTypes
    <3>2. Moves(r)
      BY <1>0, <1>1, <2>1, <2>2, <3>1 DEF Moves, ReadTypes
    <3> QED
      BY <1>0, <3>2, MoveKeepsRInv
<1>8. CASE AssignSize(r)
  <2>1. /\ rpc' = [rpc EXCEPT ![r] = "header"] /\ rpc[r] = "length" /\ mapSize' = size[r]
        /\ size' = [size EXCEPT ![r] = 0]
        /\ UNCHANGED <<map, want, fresh, lone>>
    BY <1>8 DEF AssignSize, Goto
  <2>2. lone[r] => map > 0
    BY <1>0, <2>1 DEF LoneIsServed
  <2> QED
    <3>1. ReadTypes'
      BY <1>0, <1>1, <2>1, <2>2 DEF ReadTypes
    <3>2. Moves(r)
      BY <1>0, <1>1, <2>1, <2>2, <3>1 DEF Moves, ReadTypes
    <3> QED
      BY <1>0, <3>2, MoveKeepsRInv
<1>9. CASE ReadHeader(r)
  <2>0. rpc[r] = "header"
    BY <1>9 DEF ReadHeader
  <2>1. CASE Return(r, "lost")
    BY <1>0, <1>9, <2>0, <2>1, ReturnKeepsRInv DEF ReadHeader
  <2>2. CASE ~Return(r, "lost")
    <3>1. /\ rpc' = [rpc EXCEPT ![r] = "payload"]
          /\ size' = [size EXCEPT ![r] = 0]
          /\ UNCHANGED <<map, mapSize, want, fresh, lone>>
      BY <1>9, <2>2 DEF ReadHeader, Goto
    <3>2. lone[r] => map > 0 /\ Serves(mapSize)
      BY <1>0, <2>0 DEF LoneIsServed
    <3> QED
      <4>1. ReadTypes'
        BY <1>0, <1>1, <2>0, <3>1, <3>2 DEF ReadTypes
      <4>2. Moves(r)
        BY <1>0, <1>1, <2>0, <3>1, <3>2, <4>1 DEF Moves, ReadTypes
      <4> QED
        BY <1>0, <4>2, MoveKeepsRInv
  <2> QED
    BY <2>1, <2>2
<1>10. CASE ReadPayload(r)
  <2>1. PICK outcome \in Outside : Return(r, outcome)
    BY <1>10 DEF ReadPayload
  <2> QED
    BY <1>0, <1>10, <2>1, ReturnKeepsRInv DEF ReadPayload
<1> QED
  BY <1>2, <1>3, <1>4, <1>5, <1>6, <1>7, <1>8, <1>9, <1>10 DEF Read

LEMMA ReadInitRInv == ReadInit => RInv
<1> SUFFICES ASSUME ReadInit PROVE RInv
  OBVIOUS
<1>1. TypeOK
  BY InitIInv DEF ReadInit, IInv
<1>2. Nowhere \in Entry
  BY BlockAssumption DEF Nowhere, Entry
<1>3. Len(file) = 0
  BY DEF ReadInit, Init
<1>4. ReadTypes
  BY <1>2, <1>3 DEF ReadInit, ReadTypes, NoMap, Outside
<1>5. IndexUsed /\ MapServes /\ LoneIsServed
  BY DEF ReadInit, IndexUsed, MapServes, LoneIsServed, NoMap, Closed, Outside
<1> QED
  BY <1>1, <1>4, <1>5 DEF RInv

LEMMA ReadNextRInv == RInv /\ TypeOK' /\ [ReadNext]_allVars => RInv'
<1> SUFFICES ASSUME RInv, TypeOK', [ReadNext]_allVars PROVE RInv'
  OBVIOUS
<1>1. CASE Next /\ UNCHANGED readVars
  BY <1>1, WritersKeepRInv
<1>2. CASE UNCHANGED allVars
  BY <1>2, WritersKeepRInv DEF allVars
<1> QED
  BY <1>1, <1>2, CreateKeepsRInv, QueryKeepsRInv, ReadKeepsRInv DEF ReadNext

\* Readers change nothing of the store.
THEOREM ReadersOnlyRead == ReadSpec => Spec
<1>1. ReadInit => Init
  BY DEF ReadInit
<1>2. [ReadNext]_allVars => [Next]_vars
  BY DEF ReadNext, allVars, Create, Query, Read, Compare, CloseMap, DropMap, ZeroSize, MapFile,
         AssignMap, AssignSize, ReadHeader, ReadPayload
<1> QED
  BY <1>1, <1>2, PTL DEF ReadSpec, Spec

\* In whatever order threads share and replace the mapping, and whatever is appended or
\* torn meanwhile, by any number of processes: the invariant of the readers.
THEOREM ReadInvariance == ReadSpec => []RInv
BY ReadInitRInv, ReadNextRInv, ReadersOnlyRead, StoreTypes, PTL DEF ReadSpec

\* A reader leaves read() by a step of its own.
LEMMA ReturnsItself ==
    ASSUME RInv, ReadNext, NEW r \in Readers, NEW outcome \in Outside, Returns(r, outcome)
    PROVE  Read(r)
<1>1. rpc[r] \notin Outside /\ rpc'[r] = outcome /\ rpc'[r] # rpc[r]
      /\ rpc = [q \in Readers |-> rpc[q]]
  BY DEF Returns, Outside, RInv, ReadTypes
<1>2. ~(Next /\ UNCHANGED readVars) /\ ~Create
  BY <1>1 DEF readVars, Create
<1>3. ASSUME NEW q \in Readers, NEW e, Query(q, e) PROVE FALSE
  BY <1>1, <1>3 DEF Query, Goto
<1>4. ASSUME NEW q \in Readers, Read(q), q # r PROVE FALSE
  BY <1>1, <1>4 DEF Read, Compare, CloseMap, DropMap, ZeroSize, MapFile, AssignMap, AssignSize,
                    ReadHeader, ReadPayload, Return, Goto
<1> QED
  BY <1>2, <1>3, <1>4 DEF ReadNext

\* Only ReadPayload says "found".
LEMMA FoundIsRead ==
    ASSUME RInv, NEW r \in Readers, Returns(r, "found"), ReadNext
    PROVE  ReadPayload(r)
<1>1. rpc[r] \notin Outside /\ rpc'[r] = "found" /\ rpc = [q \in Readers |-> rpc[q]]
  BY DEF Returns, RInv, ReadTypes
<1>2. Read(r)
  BY ReturnsItself DEF Outside
<1> QED
  BY <1>1, <1>2 DEF Read, Compare, CloseMap, DropMap, ZeroSize, MapFile, AssignMap, AssignSize,
                    ReadHeader, ReadPayload, Return, Goto

\* read() gives out no other block than the one the index names, whichever mapping its
\* header and its payload came from.
THEOREM ReadsTheirBlocks == ReadSpec => ReadsAreTheirBlocks
<1>1. RInv /\ [ReadNext]_allVars =>
        [\A r \in Readers : Returns(r, "found")
            => Readable(file, want[r].off, want[r].key)]_allVars
  <2> SUFFICES ASSUME RInv, ReadNext, NEW r \in Readers, Returns(r, "found")
               PROVE  Readable(file, want[r].off, want[r].key)
    OBVIOUS
  <2> DEFINE o == want[r].off
             k == want[r].key
  <2>1. rpc[r] \notin Outside /\ ReadPayload(r)
    BY FoundIsRead DEF Returns
  <2>2. /\ HeaderAt(file, o) /\ file[o + 1].key = k
        /\ o \in Nat /\ k \in Keys /\ Len(file) \in Nat /\ file \in Seq(Segment)
        /\ map \in Int /\ map <= Len(file) /\ rpc = [q \in Readers |-> rpc[q]]
    BY <2>1, LenProperties DEF RInv, TypeOK, ReadTypes, IndexUsed, Points, Entry, Outside
  <2>3. Mapped(o + 2) /\ file[o + 2] = Seg("payload", file[o + 1].key)
    <3>1. rpc'[r] = "found" /\ o + HEADER_SIZE + 1 = o + 2 /\ o + 2 - 1 = o + 1
      BY <2>2 DEF Returns, HEADER_SIZE
    <3> QED
      BY <2>1, <2>2, <3>1 DEF ReadPayload, Return, Goto
  <2>4. o + 2 <= Len(file)
    BY <2>2, <2>3 DEF Mapped
  <2>5. file[o + 1] = Seg("header", k)
    <3>1. file[o + 1] \in Segment /\ file[o + 1].part = "header"
      BY <2>2, <2>4 DEF HeaderAt, HEADER_SIZE
    <3> QED
      BY <2>2, <3>1 DEF Segment, Seg
  <2> QED
    BY <2>2, <2>3, <2>4, <2>5 DEF Readable, HEADER_SIZE
<1> QED
  BY <1>1, ReadInvariance, PTL DEF ReadSpec, ReadsAreTheirBlocks

\* A read no other overlaps fails only on a torn block: what racing readers and the
\* writer have left of the shared mapping serves it, or is replaced.
THEOREM LoneReadsFind == ReadSpec => LoneReadsSucceed
<1>1. RInv /\ [ReadNext]_allVars =>
        [\A r \in Readers : Returns(r, "lost") /\ lone[r]
            => ~ Readable(file, want[r].off, want[r].key)]_allVars
  <2> SUFFICES ASSUME RInv, ReadNext, NEW r \in Readers, Returns(r, "lost"), lone[r],
                      Readable(file, want[r].off, want[r].key)
               PROVE  FALSE
    OBVIOUS
  <2> DEFINE o == want[r].off
             k == want[r].key
  <2>1. rpc[r] \notin Outside /\ rpc'[r] = "lost" /\ Read(r)
    BY ReturnsItself DEF Returns, Outside
  <2>2. /\ want[r] \in seen
        /\ file[o + 1].part = "header" /\ file[o + 1].key = k
        /\ file[o + 2] = Seg("payload", k)
        /\ o \in Nat /\ map \in Int /\ mapSize \in Nat
        /\ rpc = [q \in Readers |-> rpc[q]]
    BY <2>1 DEF RInv, ReadTypes, IndexUsed, Points, Entry, HeaderAt, Readable, HEADER_SIZE
  <2>3. \A m : Serves(m) => o + 1 <= m /\ o + 2 <= m
    BY <2>2 DEF Serves
  <2>4. rpc[r] \in {"header", "payload"} => Mapped(o + 1) /\ Mapped(o + 2)
    <3>1. rpc[r] \in {"header", "payload"} => Serves(map) /\ Serves(mapSize)
      BY DEF RInv, LoneIsServed, MapServes
    <3> QED
      BY <2>3, <3>1 DEF Mapped
  <2>5. map = Closed => rpc[r] = "none"
    BY DEF RInv, MapServes, LoneIsServed, Outside
  <2>6. ~Compare(r) /\ ~CloseMap(r)
    BY <2>1, <2>2, <2>5 DEF Compare, CloseMap, Goto, NoMap, Closed
  <2>7. ~ReadHeader(r)
    BY <2>1, <2>2, <2>4 DEF ReadHeader, Goto, HEADER_SIZE
  <2>8. ~ReadPayload(r)
    <3>1. o + HEADER_SIZE + 1 = o + 2 /\ o + 2 - 1 = o + 1
      BY <2>2 DEF HEADER_SIZE
    <3> QED
      BY <2>1, <2>2, <2>4, <3>1 DEF ReadPayload, Return, Goto
  <2> QED
    BY <2>1, <2>2, <2>6, <2>7, <2>8
    DEF Read, DropMap, ZeroSize, MapFile, AssignMap, AssignSize, Goto
<1> QED
  BY <1>1, ReadInvariance, PTL DEF ReadSpec, LoneReadsSucceed

-----------------------------------------------------------------------------
(* The migration into the store. *)

\* What an append of k adds: the block, or a prefix of it.
BeginsBlock(s, k) ==
    /\ s \in Seq(Segment)
    /\ Len(s) \in 0 .. BLOCK_ALIGN
    /\ \A i \in 1 .. Len(s) : s[i] = Block(k)[i]

\* An append adds at most one whole block, its own, at the old end of the file.
LEMMA NewWhole ==
    ASSUME NEW f \in Seq(Segment), NEW k \in Keys, NEW s, BeginsBlock(s, k), s # << >>,
           NEW o \in Nat, NEW j \in Keys, WholeAt(f \o s, o, j), ~ WholeAt(f, o, j)
    PROVE  o = Len(f) /\ j = k /\ s = Block(k)
<1>0. /\ Len(f) \in Nat /\ Len(s) \in 1 .. BLOCK_ALIGN /\ Len(f \o s) = Len(f) + Len(s)
      /\ s \in Seq(Segment) /\ \A i \in 1 .. Len(s) : s[i] = Block(k)[i]
  BY LenProperties, ConcatProperties, EmptySeq DEF BeginsBlock, BLOCK_ALIGN
<1>1. s[1].part = "header" /\ s[1] = Seg("header", k)
  <2>1. 1 \in 1 .. Len(s)
    BY <1>0
  <2>2. s[1] = Seg("header", k)
    BY <1>0, <2>1, BlockType
  <2> QED
    BY <2>2 DEF Seg
<1>2. (f \o s)[Len(f) + 1] = s[1]
  BY <1>0, ConcatProperties
<1>3. HeaderAt(f \o s, o) /\ (f \o s)[o + 1] = Seg("header", j)
  <2>1. f \o s \in Seq(Segment)
    BY <1>0, AppendKeeps
  <2>2. HeaderAt(f \o s, o)
    BY <2>1, WholeHasHeader
  <2>3. (f \o s)[o + 1] = Seg("header", j)
    BY BlockType DEF WholeAt, BLOCK_ALIGN
  <2> QED
    BY <2>2, <2>3
<1>4. o = Len(f)
  <2> SUFFICES ASSUME o # Len(f) PROVE FALSE
    OBVIOUS
  <2>1. HeaderAt(f, o)
    BY <1>0, <1>3, Headers
  <2>2. o + 1 <= Len(f)
    BY <2>1 DEF HeaderAt, HEADER_SIZE
  <2>3. CASE o + BLOCK_ALIGN <= Len(f)
    <3>1. \A i \in 1 .. BLOCK_ALIGN : (f \o s)[o + i] = f[o + i]
      BY <2>3, <1>0, AppendKeeps DEF BLOCK_ALIGN
    <3> QED
      BY <2>3, <3>1 DEF WholeAt
  <2>4. CASE ~ (o + BLOCK_ALIGN <= Len(f))
    <3>1. Len(f) + 1 - o \in {2, 3}
      BY <2>2, <2>4, <1>0 DEF BLOCK_ALIGN
    <3>2. o + (Len(f) + 1 - o) = Len(f) + 1
      BY <1>0
    <3>3. (f \o s)[Len(f) + 1] = Block(j)[Len(f) + 1 - o]
      BY <3>1, <3>2 DEF WholeAt, BLOCK_ALIGN
    <3>4. Block(j)[2].part # "header" /\ Block(j)[3].part # "header"
      BY DEF Block, Seg
    <3> QED
      BY <3>1, <3>3, <3>4, <1>1, <1>2
  <2> QED
    BY <2>3, <2>4
<1>5. j = k
  BY <1>1, <1>2, <1>3, <1>4 DEF Seg
<1>6. Len(s) = BLOCK_ALIGN
  BY <1>0, <1>4 DEF WholeAt, BLOCK_ALIGN
<1>7. s = Block(k)
  BY <1>0, <1>6, BlockType, SeqEqual
<1> QED
  BY <1>4, <1>5, <1>7

\* A torn block that an open lists is listed for good.
LEMMA TornListedKept ==
    ASSUME store \in Seq(Segment), NEW k \in Keys, NEW s, BeginsBlock(s, k), s # << >>,
           store' = store \o s, NEW j, TornListed(j)
    PROVE  TornListed(j)'
<1>0. Len(s) \in 1 .. BLOCK_ALIGN /\ s \in Seq(Segment)
      /\ \A i \in 1 .. Len(s) : s[i] = Block(k)[i]
  BY LenProperties, EmptySeq DEF BeginsBlock, BLOCK_ALIGN
<1>1. PICK e \in Rebuild(store) : e.key = j /\ ~ WholeAt(store, e.off, j)
  BY DEF TornListed
<1>2. PICK o \in 0 .. Len(store) : /\ o % BLOCK_ALIGN = 0 /\ HeaderAt(store, o)
                                   /\ e = [off |-> o, key |-> store[o + 1].key]
  BY DEF Rebuild
<1>3. o \in Tears(store) /\ o \in Nat
  BY <1>1, <1>2, LenProperties DEF Tears
<1>4. o \in Tears(store \o s)
  BY <1>0, <1>3, Headers
<1>5. HeaderAt(store \o s, o) /\ (store \o s)[o + 1] = store[o + 1]
  BY <1>0, <1>2, <1>3, HeaderKept
<1>6. e \in Rebuild(store \o s) /\ ~ WholeAt(store \o s, e.off, j)
  BY <1>1, <1>2, <1>4, <1>5 DEF Rebuild, Tears
<1> QED
  BY <1>1, <1>6 DEF TornListed

\* A whole block of key k is in the file.
InStore(k) == \E o \in Nat : WholeAt(store, o, k)

\* What an append does to the file.
LEMMA Appended ==
    ASSUME store \in Seq(Segment), Aligned(store), NEW k \in Keys,
           store' = store \o Block(k) \/ Tear(k)
    PROVE  /\ store' \in Seq(Segment)
           /\ Aligned(store')
           /\ \A j \in Keys, o \in Nat : WholeAt(store, o, j) => WholeAt(store', o, j)
           /\ \A j \in Keys, o \in Nat : WholeAt(store', o, j) =>
                 WholeAt(store, o, j) \/ (o = Len(store) /\ j = k /\ store' = store \o Block(k))
           /\ Tears(store) \subseteq Tears(store')
           /\ \A j : TornListed(j) => TornListed(j)'
<1>1. CASE store' = store
  BY <1>1, Zenon DEF TornListed
<1>2. ASSUME NEW s, BeginsBlock(s, k), s # << >>, store' = store \o s, Aligned(store \o s)
      PROVE  /\ store' \in Seq(Segment)
             /\ Aligned(store')
             /\ \A j \in Keys, o \in Nat : WholeAt(store, o, j) => WholeAt(store', o, j)
             /\ \A j \in Keys, o \in Nat : WholeAt(store', o, j) =>
                 WholeAt(store, o, j) \/ (o = Len(store) /\ j = k /\ store' = store \o Block(k))
             /\ Tears(store) \subseteq Tears(store')
             /\ \A j : TornListed(j) => TornListed(j)'
  <2>0. /\ Len(s) \in 1 .. BLOCK_ALIGN /\ s \in Seq(Segment)
        /\ \A i \in 1 .. Len(s) : s[i] = Block(k)[i]
    BY <1>2, LenProperties, EmptySeq DEF BeginsBlock, BLOCK_ALIGN
  <2>1. store' \in Seq(Segment)
    BY <1>2, <2>0, AppendKeeps
  <2>2. \A j \in Keys, o \in Nat : WholeAt(store, o, j) => WholeAt(store', o, j)
    BY <1>2, <2>0, WholeKept
  <2>3. \A j \in Keys, o \in Nat : WholeAt(store', o, j) =>
            WholeAt(store, o, j) \/ (o = Len(store) /\ j = k /\ store' = store \o Block(k))
    BY <1>2, NewWhole, Zenon
  <2>4. Tears(store) \subseteq Tears(store')
    BY <1>2, <2>0, Headers
  <2>5. \A j : TornListed(j) => TornListed(j)'
    BY <1>2, TornListedKept, Zenon
  <2> QED
    BY <1>2, <2>1, <2>2, <2>3, <2>4, <2>5, Zenon
<1>3. CASE store' = store \o Block(k)
  <2>1. BeginsBlock(Block(k), k) /\ Block(k) # << >>
    BY BlockType, EmptySeq DEF BeginsBlock, BLOCK_ALIGN
  <2>2. Aligned(store \o Block(k))
    BY AlignedWhole
  <2> QED
    BY <1>2, <1>3, <2>1, <2>2, Zenon
<1>4. CASE Tear(k)
  <2>1. PICK n \in TornSizes : store' = store \o SubSeq(Block(k), 1, n)
    BY <1>4 DEF Tear
  <2> DEFINE s == SubSeq(Block(k), 1, n)
  <2>2. n \in 0 .. 2 /\ s \in Seq(Segment) /\ Aligned(store \o s)
    BY BlockAssumption, PrefixType, AlignedTorn DEF BLOCK_ALIGN
  <2>3. CASE n = 0
    BY <2>1, <2>2, <2>3, <1>1, SubSeqEmpty, ConcatEmptySeq
  <2>4. CASE n # 0
    <3>1. Len(s) = n /\ \A i \in 1 .. Len(s) : s[i] = Block(k)[i]
      <4>1. \A i \in 1 .. n : Block(k)[i] \in Segment
        BY <2>2 DEF Block, Segment, Seg
      <4> QED
        BY <4>1, <2>2, <2>4, SubSeqProperties
    <3> HIDE DEF s
    <3>2. BeginsBlock(s, k) /\ s # << >>
      BY <2>2, <2>4, <3>1, EmptySeq DEF BeginsBlock, BLOCK_ALIGN
    <3> QED
      BY <1>2, <2>1, <2>2, <3>2, Zenon DEF s
  <2> QED
    BY <2>3, <2>4
<1> QED
  BY <1>3, <1>4

\* The parts of MigrationTypes, and what the row numbers and the source under way need.
RecordTypes ==
    /\ table \in [lo : 0 .. Len(Rows), hi : 0 .. Len(Rows)]
    /\ table.lo <= table.hi
    /\ saved \in Data /\ data \in Data
    /\ scan \in [lo : 0 .. Len(Rows), hi : 0 .. Len(Rows), from : Nat, pos : Nat]
    /\ scan.lo <= scan.hi
    /\ stage \in {"none", "starting", "scan", "flush", "compile", "save",
                  "meta", "final", "report", "cleanup"}
    /\ stop \in BOOLEAN /\ scanner \in BOOLEAN /\ last \in BOOLEAN
    /\ starts \in Nat /\ faults \in Nat

FileTypes ==
    /\ store \in Seq(Segment)
    /\ listed \subseteq Keys
    /\ others \in Seq(OthersKeys)

BufferTypes ==
    /\ buffer \in Seq(RowNumbers)
    /\ todo \in Seq(Sources \cup {NoSource})
    /\ calls \subseteq Call
    /\ unread \subseteq RowNumbers
    /\ short \subseteq Sources
    /\ failed \subseteq Sources
    /\ owed \in [Sources -> SUBSET DerivedKeys]
    /\ stage = "compile" => todo # << >> /\ Head(todo) \in Sources

TypesInv == RecordTypes /\ FileTypes /\ BufferTypes

LEMMA RowsCount == Len(Rows) \in Nat /\ BatchSize \in Nat \ {0}
BY MigrationAssumption, LenProperties

LEMMA RowType ==
    ASSUME NEW i \in RowNumbers
    PROVE  Rows[i].src \in Sources /\ Rows[i].len \in Nat /\ Rows[i].says \in Seq(Matches)
<1>1. Rows \in Seq([src : Sources, len : Nat, says : Seq(Matches)])
  BY MigrationAssumption
<1>2. Rows[i] \in [src : Sources, len : Nat, says : Seq(Matches)]
  BY <1>1, ElementOfSeq DEF RowNumbers
<1> QED
  BY <1>2

LEMMA NumbersType ==
    ASSUME NEW a \in Nat, NEW b \in Nat, a <= b, b <= Len(Rows)
    PROVE  /\ Numbers(a, b) \in Seq(RowNumbers)
           /\ \A i \in a + 1 .. b : \E n \in DOMAIN Numbers(a, b) : Numbers(a, b)[n] = i
<1>0. Len(Rows) \in Nat
  BY MigrationAssumption, LenProperties
<1>1. b - a \in Nat /\ \A i \in 1 .. b - a : a + i \in RowNumbers
  BY <1>0 DEF RowNumbers
<1>2. Numbers(a, b) \in Seq(RowNumbers)
  BY <1>1, IsASeq DEF Numbers
<1>3. ASSUME NEW i \in a + 1 .. b
      PROVE  i - a \in DOMAIN Numbers(a, b) /\ Numbers(a, b)[i - a] = i
  BY <1>3 DEF Numbers
<1> QED
  BY <1>2, <1>3

LEMMA SourcesType ==
    ASSUME NEW rows \in Seq(RowNumbers)
    PROVE  SourcesIn(rows) \in Seq(Sources \cup {NoSource})
<1>1. \A i \in 1 .. Len(rows) : Rows[rows[i]].src \in Sources
  BY RowType, ElementOfSeq
<1>2. Len(rows) \in Nat
  BY LenProperties
<1> DEFINE first(i) == i \in Filled(rows) /\
              \A j \in Filled(rows) : j < i => Rows[rows[j]].src # Rows[rows[i]].src
           at(i) == IF first(i) THEN Rows[rows[i]].src ELSE NoSource
<1>3. \A i \in 1 .. Len(rows) : at(i) \in Sources \cup {NoSource}
  BY <1>1
<1>4. SourcesIn(rows) = [i \in 1 .. Len(rows) |-> at(i)]
  BY DEF SourcesIn
<1> HIDE DEF at
<1> QED
  BY <1>2, <1>3, <1>4, IsASeq

\* What is compiled is a set of calls, facts and events with the keys of their matches.
LEMMA DerivedType ==
    ASSUME buffer \in Seq(RowNumbers), NEW s
    PROVE  Derived(s, buffer) \subseteq Call /\ \A c \in Derived(s, buffer) : c.key \in DerivedKeys
<1>1. ASSUME NEW p \in Found(buffer, OfSource(s, buffer)), NEW k \in {"fact", "event"}
      PROVE  [kind |-> k, key |-> MatchAt(buffer, p).key, at |-> p] \in Call /\ MatchAt(buffer, p).key \in DerivedKeys
  <2>1. PICK n \in OfSource(s, buffer) : \E m \in DOMAIN Rows[buffer[n]].says :
            p = <<Rows[buffer[n]].says[m].pattern, n, m>>
    BY DEF Found
  <2>2. PICK m \in DOMAIN Rows[buffer[n]].says : p = <<Rows[buffer[n]].says[m].pattern, n, m>>
    BY <2>1
  <2>3. n \in 1 .. Len(buffer) /\ n \in Nat
    BY LenProperties DEF OfSource, Filled
  <2>4. Rows[buffer[n]].says \in Seq(Matches)
    BY <2>3, RowType, ElementOfSeq
  <2>5. m \in Nat /\ Rows[buffer[n]].says[m] \in Matches
    BY <2>2, <2>4, LenProperties, ElementOfSeq
  <2>6. p[2] = n /\ p[3] = m
    BY <2>2
  <2>7. MatchAt(buffer, p) \in Matches
    BY <2>5, <2>6 DEF MatchAt
  <2>8. MatchAt(buffer, p).key \in DerivedKeys /\ Rows[buffer[n]].says[m].pattern \in Nat
    BY <2>5, <2>7 DEF Matches
  <2>9. p \in Seq(Nat)
    BY <2>2, <2>3, <2>5, <2>8
  <2>10. MatchAt(buffer, p).key \in Keys
    BY <2>8, MigrationAssumption
  <2> QED
    BY <2>8, <2>9, <2>10 DEF Call
<1>2. /\ Passing("fact", buffer, OfSource(s, buffer)) \subseteq Found(buffer, OfSource(s, buffer))
      /\ Passing("event", buffer, OfSource(s, buffer)) \subseteq Found(buffer, OfSource(s, buffer))
  BY DEF Passing
<1>3. ASSUME NEW c \in Derived(s, buffer)
      PROVE  c \in Call /\ c.key \in DerivedKeys
  <2>1. PICK k \in {"fact", "event"}, p \in Found(buffer, OfSource(s, buffer)) :
            c = [kind |-> k, key |-> MatchAt(buffer, p).key, at |-> p]
    BY <1>2, Zenon DEF Derived, ExtractFacts, ExtractEvents, CallsFor, First
  <2> QED
    BY <1>1, <2>1
<1> QED
  BY <1>3

LEMMA ArticleType ==
    ASSUME NEW s \in Sources
    PROVE  Article(s) \in Call /\ Article(s).key = s
BY MigrationAssumption DEF Article, Call

LEMMA FreshType == Fresh \in Data /\ Fresh.processed = {}
BY DEF Fresh, Data

LEMMA NoScanType ==
    /\ NoScan \in [lo : 0 .. Len(Rows), hi : 0 .. Len(Rows), from : Nat, pos : Nat]
    /\ NoScan.lo <= NoScan.hi
<1>1. Len(Rows) \in Nat
  BY MigrationAssumption, LenProperties
<1> QED
  BY <1>1 DEF NoScan

LEMMA InitTypes == InitMigration => TypesInv
<1> SUFFICES ASSUME InitMigration PROVE TypesInv
  OBVIOUS
<1>1. Len(Rows) \in Nat /\ InitialRows \in 0 .. Len(Rows)
  BY MigrationAssumption, LenProperties
<1>2. RecordTypes
  <2>1. table \in [lo : 0 .. Len(Rows), hi : 0 .. Len(Rows)] /\ table.lo <= table.hi
    BY <1>1 DEF InitMigration
  <2>2. scan \in [lo : 0 .. Len(Rows), hi : 0 .. Len(Rows), from : Nat, pos : Nat]
        /\ scan.lo <= scan.hi
    BY <1>1, NoScanType DEF InitMigration
  <2>3. saved \in Data /\ data \in Data
    BY FreshType DEF InitMigration
  <2> QED
    BY <2>1, <2>2, <2>3 DEF InitMigration, RecordTypes
<1>3. FileTypes
  BY DEF InitMigration, FileTypes
<1>4. BufferTypes
  BY DEF InitMigration, BufferTypes
<1> QED
  BY <1>2, <1>3, <1>4 DEF TypesInv

\* The end of the worker, in whatever way it comes.
LEMMA GoneTypes ==
    ASSUME TypesInv, WorkerGone, stop' \in BOOLEAN, starts' = starts,
           faults' \in {faults, faults + 1}, saved' \in {saved, Fresh},
           UNCHANGED table \/ table' = [table EXCEPT !.lo = table.hi],
           store' \in Seq(Segment), UNCHANGED <<histories>>
    PROVE  TypesInv'
<1>1. RecordTypes'
  <2>1. /\ table' \in [lo : 0 .. Len(Rows), hi : 0 .. Len(Rows)] /\ table'.lo <= table'.hi
    BY DEF TypesInv, RecordTypes
  <2>2. scan' \in [lo : 0 .. Len(Rows), hi : 0 .. Len(Rows), from : Nat, pos : Nat]
        /\ scan'.lo <= scan'.hi
    BY NoScanType DEF WorkerGone
  <2>3. saved' \in Data /\ data' \in Data
    BY FreshType DEF WorkerGone, TypesInv, RecordTypes
  <2>4. /\ stage' = "none" /\ scanner' = TRUE /\ last' = FALSE
        /\ starts' \in Nat /\ faults' \in Nat /\ stop' \in BOOLEAN
    BY DEF TypesInv, RecordTypes, WorkerGone
  <2> QED
    BY <2>1, <2>2, <2>3, <2>4 DEF RecordTypes
<1>2. FileTypes'
  BY DEF TypesInv, FileTypes, WorkerGone, histories
<1>3. BufferTypes'
  BY DEF TypesInv, BufferTypes, WorkerGone, histories
<1> QED
  BY <1>1, <1>2, <1>3 DEF TypesInv

LEMMA ClickTypes ==
    ASSUME TypesInv, IndexRow \/ CompileClicked \/ StopClicked
    PROVE  TypesInv'
<1>1. CASE IndexRow
  <2>1. table' \in [lo : 0 .. Len(Rows), hi : 0 .. Len(Rows)] /\ table'.lo <= table'.hi
    <3>1. Len(Rows) \in Nat
      BY MigrationAssumption, LenProperties
    <3> QED
      BY <1>1, <3>1 DEF IndexRow, TypesInv, RecordTypes
  <2> QED
    BY <1>1, <2>1 DEF IndexRow, TypesInv, RecordTypes, FileTypes, BufferTypes, workerVars, bounds, histories
<1>2. CASE CompileClicked
  <2>1. /\ stage' = "starting" /\ stop' = FALSE /\ starts' = starts + 1
        /\ UNCHANGED <<table, store, saved, faults, histories, workerVars>>
    BY <1>2 DEF CompileClicked
  <2>2. RecordTypes'
    <3>0. starts \in Nat /\ faults \in Nat
      BY Zenon DEF TypesInv, RecordTypes
    <3>1. starts' \in Nat /\ faults' \in Nat /\ stop' \in BOOLEAN
      <4>1. starts + 1 \in Nat
        BY <3>0
      <4> QED
        BY <2>1, <3>0, <4>1, Zenon
    <3>2. UNCHANGED <<data, scan, scanner, last>>
      BY <2>1 DEF workerVars
    <3> QED
      BY <2>1, <3>1, <3>2, Zenon DEF TypesInv, RecordTypes
  <2>3. FileTypes' /\ BufferTypes'
    BY <2>1 DEF TypesInv, FileTypes, BufferTypes, workerVars, histories
  <2> QED
    BY <2>2, <2>3 DEF TypesInv
<1>3. CASE StopClicked
  BY <1>3 DEF StopClicked, TypesInv, RecordTypes, FileTypes, BufferTypes, workerVars, bounds, histories
<1> QED
  BY <1>1, <1>2, <1>3

LEMMA ListedType ==
    ASSUME store \in Seq(Segment)
    PROVE  {e.key : e \in Rebuild(store)} \subseteq Keys
BY RebuildPoints DEF Entry

LEMMA StartTypes == ASSUME TypesInv, StartMigration PROVE TypesInv'
<1>1. CASE table.lo = table.hi
  BY <1>1, GoneTypes DEF StartMigration, TypesInv, RecordTypes, FileTypes
<1>2. CASE table.lo # table.hi
  <2>1. data' = [saved EXCEPT !.status = "running"] /\ saved' \in {data', saved, Fresh}
    BY <1>2, SMT DEF StartMigration, SaveOutcome
  <2>2. /\ scan' = [lo |-> table.lo, hi |-> table.hi,
                    from |-> IF scanner' THEN table.lo ELSE table.lo + saved.chunks,
                    pos |-> IF scanner' THEN table.lo ELSE table.lo + saved.chunks]
        /\ scanner' \in BOOLEAN /\ stage' = "scan" /\ faults' \in {faults, faults + 1}
        /\ UNCHANGED <<table, stop, starts, last>>
    BY <1>2 DEF StartMigration, SaveOutcome, Fault, NoFault
  <2>3. data' \in Data /\ saved' \in Data
    BY <2>1, FreshType DEF TypesInv, RecordTypes, Data
  <2>4. saved.chunks \in Nat
    BY DEF TypesInv, RecordTypes, Data
  <2>5. scan' \in [lo : 0 .. Len(Rows), hi : 0 .. Len(Rows), from : Nat, pos : Nat]
        /\ scan'.lo <= scan'.hi
    BY <2>2, <2>4 DEF TypesInv, RecordTypes
  <2>6. RecordTypes'
    BY <2>2, <2>3, <2>5 DEF TypesInv, RecordTypes
  <2>7. FileTypes'
    BY <1>2, ListedType, Zenon DEF StartMigration, TypesInv, FileTypes, histories
  <2>8. BufferTypes'
    BY <1>2, <2>2 DEF StartMigration, TypesInv, BufferTypes, histories
  <2> QED
    BY <2>6, <2>7, <2>8 DEF TypesInv
<1> QED
  BY <1>1, <1>2

LEMMA DataUpdates ==
    ASSUME NEW d \in Data
    PROVE  /\ \A n \in Nat :
                /\ [d EXCEPT !.chunks = @ + n] \in Data
                /\ [d EXCEPT !.chunks = @ + n].processed = d.processed
           /\ \A st \in {"idle", "running", "paused", "completed"} :
                /\ [d EXCEPT !.status = st] \in Data
                /\ [d EXCEPT !.status = st].processed = d.processed
           /\ \A s \in Sources :
                /\ [d EXCEPT !.processed = @ \cup {s}] \in Data
                /\ [d EXCEPT !.processed = @ \cup {s}].processed = d.processed \cup {s}
BY DEF Data

\* What reading a batch does to the buffer and to the place of the loop.
LEMMA BatchTypes ==
    ASSUME TypesInv, NEW rows \in Seq(RowNumbers), NEW n \in Nat, AfterBatch(rows, n), stage = "scan"
    PROVE  /\ buffer' \in Seq(RowNumbers) /\ buffer' = buffer \o rows
           /\ todo' \in Seq(Sources \cup {NoSource})
           /\ data' \in Data /\ data'.processed = data.processed
           /\ (stage' = "scan" /\ todo' = todo) \/ (stage' = "flush" /\ todo' = SourcesIn(buffer'))
<1>1. buffer' \in Seq(RowNumbers) /\ buffer' = buffer \o rows
  BY ConcatProperties DEF AfterBatch, TypesInv, BufferTypes
<1>2. SourcesIn(buffer') \in Seq(Sources \cup {NoSource})
  BY <1>1, SourcesType
<1>3. data' \in Data /\ data'.processed = data.processed
  <2>1. data' = [data EXCEPT !.chunks = @ + n]
    BY Zenon DEF AfterBatch
  <2> QED
    BY <2>1, DataUpdates DEF TypesInv, RecordTypes
<1>4. (stage' = "scan" /\ todo' = todo) \/ (stage' = "flush" /\ todo' = SourcesIn(buffer'))
  <2>1. CASE Cardinality(Filled(buffer')) >= BatchSize
    BY <2>1, Zenon DEF AfterBatch
  <2>2. CASE ~ (Cardinality(Filled(buffer')) >= BatchSize)
    BY <2>2, Zenon DEF AfterBatch
  <2> QED
    BY <2>1, <2>2
<1> QED
  BY <1>1, <1>2, <1>3, <1>4 DEF TypesInv, BufferTypes

LEMMA BatchStage ==
    ASSUME NEW rows, NEW n, AfterBatch(rows, n), stage = "scan"
    PROVE  stage' \in {"scan", "flush"}
<1>1. CASE Cardinality(Filled(buffer')) >= BatchSize
  BY <1>1, Zenon DEF AfterBatch
<1>2. CASE ~ (Cardinality(Filled(buffer')) >= BatchSize)
  BY <1>2, Zenon DEF AfterBatch
<1> QED
  BY <1>1, <1>2

LEMMA FirstBatchType ==
    ASSUME TypesInv
    PROVE  FirstBatch \in Nat /\ scan.lo + FirstBatch \in Nat /\ scan.lo + FirstBatch <= scan.hi
           /\ scan.hi <= Len(Rows) /\ scan.lo \in Nat /\ scan.hi \in Nat /\ Len(Rows) \in Nat
           /\ scan.pos \in Nat
           /\ \A i \in scan.lo + 1 .. scan.hi : i <= scan.lo + BatchSize => i <= scan.lo + FirstBatch
<1>1. Len(Rows) \in Nat /\ BatchSize \in Nat \ {0}
  BY MigrationAssumption, LenProperties
<1> QED
  BY <1>1 DEF FirstBatch, TypesInv, RecordTypes

LEMMA ReadTypesKept == ASSUME TypesInv, ReadBatch \/ ReadFirstBatch PROVE TypesInv'
<1>0. FirstBatch \in Nat /\ scan.lo + FirstBatch \in Nat /\ scan.lo + FirstBatch <= scan.hi
      /\ scan.hi <= Len(Rows) /\ scan.lo \in Nat /\ scan.hi \in Nat /\ Len(Rows) \in Nat
      /\ scan.pos \in Nat
  BY FirstBatchType
<1>1. UNCHANGED <<table, store, saved, stop, starts, histories, scanner, last, calls, listed, short>>
      /\ stage = "scan" /\ faults' \in {faults, faults + 1}
  BY DEF ReadBatch, ReadFirstBatch, bounds, Fault
<1>2. \E m \in Nat : scan' = [scan EXCEPT !.pos = m]
  <2>0. BatchSize \in Nat
    BY MigrationAssumption
  <2>1. CASE ReadBatch
    <3>1. PICK n \in 1 .. BatchSize : scan' = [scan EXCEPT !.pos = @ + n]
      BY <2>1, Zenon DEF ReadBatch
    <3>2. scan.pos + n \in Nat
      BY <1>0, <2>0, <3>1
    <3> QED
      BY <3>1, <3>2
  <2>2. CASE ReadFirstBatch
    <3>1. scan' = [scan EXCEPT !.pos = @ + BatchSize]
      BY <2>2, Zenon DEF ReadFirstBatch
    <3>2. scan.pos + BatchSize \in Nat
      BY <1>0, <2>0
    <3> QED
      BY <3>1, <3>2
  <2> QED
    BY <2>1, <2>2
<1>3. /\ buffer' \in Seq(RowNumbers)
      /\ todo' \in Seq(Sources \cup {NoSource})
      /\ data' \in Data /\ stage' \in {"scan", "flush"} /\ unread' \subseteq RowNumbers
  <2>1. CASE ReadFirstBatch
    <3>1. Numbers(scan.lo, scan.lo + FirstBatch) \in Seq(RowNumbers)
      BY <1>0, NumbersType
    <3>2. AfterBatch(Numbers(scan.lo, scan.lo + FirstBatch), FirstBatch) /\ UNCHANGED unread
      BY <2>1, Zenon DEF ReadFirstBatch
    <3> QED
      BY <1>0, <1>1, <3>1, <3>2, BatchTypes DEF TypesInv, BufferTypes
  <2>2. CASE ReadBatch
    <3>1. PICK n \in 1 .. BatchSize :
            /\ scan.pos + n <= scan.hi
            /\ \/ AfterBatch(Numbers(scan.pos, scan.pos + n), n) /\ UNCHANGED unread
               \/ /\ unread' = unread \cup (scan.pos + 1 .. scan.pos + n)
                  /\ UNCHANGED <<buffer, data, stage, todo>>
      BY <2>2, Zenon DEF ReadBatch
    <3>2. n \in Nat /\ scan.pos + n \in Nat /\ scan.pos + n <= Len(Rows) /\ scan.pos <= scan.pos + n
      <4>1. BatchSize \in Nat
        BY MigrationAssumption
      <4> QED
        BY <1>0, <3>1, <4>1
    <3>3. CASE AfterBatch(Numbers(scan.pos, scan.pos + n), n) /\ UNCHANGED unread
      <4>1. Numbers(scan.pos, scan.pos + n) \in Seq(RowNumbers)
        BY <1>0, <3>2, NumbersType
      <4> QED
        BY <1>1, <3>2, <3>3, <4>1, BatchTypes DEF TypesInv, BufferTypes
    <3>4. CASE /\ unread' = unread \cup (scan.pos + 1 .. scan.pos + n)
               /\ UNCHANGED <<buffer, data, stage, todo>>
      <4>1. scan.pos + 1 .. scan.pos + n \subseteq RowNumbers
        BY <1>0, <3>2 DEF RowNumbers
      <4> QED
        BY <1>1, <3>4, <4>1 DEF TypesInv, BufferTypes, RecordTypes
    <3> QED
      BY <3>1, <3>3, <3>4
  <2> QED
    BY <2>1, <2>2
<1>4. scan' \in [lo : 0 .. Len(Rows), hi : 0 .. Len(Rows), from : Nat, pos : Nat]
      /\ scan'.lo <= scan'.hi
  BY <1>2 DEF TypesInv, RecordTypes
<1>5. RecordTypes'
  BY <1>1, <1>3, <1>4 DEF TypesInv, RecordTypes
<1>6. FileTypes' /\ BufferTypes'
  BY <1>1, <1>3 DEF TypesInv, FileTypes, BufferTypes, histories
<1> QED
  BY <1>5, <1>6 DEF TypesInv

LEMMA ScanEndTypes ==
    ASSUME TypesInv, ScanEnds \/ FallbackStopRaises \/ ScannerRaises
    PROVE  TypesInv'
<1>1. CASE ScanEnds
  <2>1. /\ last' = TRUE /\ todo' = SourcesIn(buffer) /\ stage' = "flush"
        /\ UNCHANGED <<table, store, saved, stop, starts, histories,
                       data, scan, scanner, buffer, calls, listed, short>>
        /\ faults' \in {faults, faults + 1}
        /\ unread' = unread \/ unread' = scan.lo + 1 .. scan.hi
    BY <1>1 DEF ScanEnds, Fault
  <2>2. todo' \in Seq(Sources \cup {NoSource})
    BY <2>1, SourcesType DEF TypesInv, BufferTypes
  <2>3. unread' \subseteq RowNumbers
    <3>1. scan.lo + 1 .. scan.hi \subseteq RowNumbers
      BY FirstBatchType DEF RowNumbers
    <3> QED
      BY <2>1, <3>1 DEF TypesInv, BufferTypes
  <2>4. RecordTypes'
    <3>1. faults' \in Nat
      BY <2>1 DEF TypesInv, RecordTypes
    <3> QED
      BY <2>1, <3>1, Zenon DEF TypesInv, RecordTypes
  <2>5. FileTypes' /\ BufferTypes'
    BY <2>1, <2>2, <2>3 DEF TypesInv, FileTypes, BufferTypes, histories
  <2> QED
    BY <2>4, <2>5 DEF TypesInv
<1>2. CASE FallbackStopRaises
  BY <1>2, GoneTypes DEF FallbackStopRaises, TypesInv, RecordTypes, FileTypes, bounds
<1>3. CASE ScannerRaises
  BY <1>3, GoneTypes DEF ScannerRaises, TypesInv, RecordTypes, FileTypes, Fault
<1> QED
  BY <1>1, <1>2, <1>3

\* The next source of a flush, and what is left of them.
LEMMA NextSource ==
    ASSUME TypesInv, todo # << >>
    PROVE  /\ Head(todo) \in Sources \cup {NoSource}
           /\ Tail(todo) \in Seq(Sources \cup {NoSource})
           /\ \A s : (\E n \in DOMAIN todo : todo[n] = s) =>
                s = Head(todo) \/ \E n \in DOMAIN Tail(todo) : Tail(todo)[n] = s
<1>0. todo \in Seq(Sources \cup {NoSource}) /\ Len(todo) \in Nat
  BY LenProperties DEF TypesInv, BufferTypes
<1>1. /\ Head(todo) \in Sources \cup {NoSource} /\ Head(todo) = todo[1]
      /\ Tail(todo) \in Seq(Sources \cup {NoSource})
      /\ Len(Tail(todo)) = Len(todo) - 1
      /\ \A i \in 1 .. Len(Tail(todo)) : Tail(todo)[i] = todo[i + 1]
  BY <1>0, HeadTailProperties
<1>2. ASSUME NEW n \in DOMAIN todo
      PROVE  todo[n] = Head(todo) \/ \E m \in DOMAIN Tail(todo) : Tail(todo)[m] = todo[n]
  <2>0. n \in 1 .. Len(todo) /\ DOMAIN Tail(todo) = 1 .. Len(Tail(todo))
    BY <1>0, <1>1, LenProperties
  <2>1. CASE n = 1
    BY <1>1, <2>1
  <2>2. CASE n # 1
    <3>1. n - 1 \in 1 .. Len(Tail(todo)) /\ (n - 1) + 1 = n
      BY <1>0, <1>1, <2>0, <2>2
    <3>2. Tail(todo)[n - 1] = todo[n]
      BY <1>1, <3>1
    <3> QED
      BY <2>0, <3>1, <3>2
  <2> QED
    BY <2>1, <2>2
<1> QED
  BY <1>1, <1>2

\* The steps of a flush that neither store nor mark.
LEMMA FlushTypes ==
    ASSUME TypesInv, FlushSource \/ FlushEnds
    PROVE  TypesInv'
<1>1. CASE FlushSource
  <2> DEFINE s == Head(todo)
             taken == \/ todo' = Tail(todo) /\ UNCHANGED <<stage, calls>>
                      \/ /\ s # NoSource /\ calls' = {Article(s)} \cup Derived(s, buffer)
                         /\ stage' = "compile" /\ UNCHANGED todo
  <2>1. /\ stage = "flush" /\ todo # << >>
        /\ UNCHANGED <<table, store, saved, stop, bounds, histories,
                       data, scan, scanner, buffer, last, listed, unread>>
    BY <1>1, Zenon DEF FlushSource
  <2>2. taken
    BY <1>1, Zenon DEF FlushSource
  <2>3. short' = short \/ (s # NoSource /\ short' = short \cup {s})
    BY <1>1, Zenon DEF FlushSource
  <2>4. s \in Sources \cup {NoSource} /\ Tail(todo) \in Seq(Sources \cup {NoSource})
    BY <2>1, NextSource
  <2> HIDE DEF s
  <2>5. short' \subseteq Sources
    BY <2>3, <2>4 DEF TypesInv, BufferTypes
  <2>6. RecordTypes'
    <3>1. stage' \in {"flush", "compile"}
      BY <2>1, <2>2
    <3> QED
      BY <2>1, <3>1, Zenon DEF TypesInv, RecordTypes, bounds
  <2>7. BufferTypes'
    <3>1. CASE todo' = Tail(todo) /\ UNCHANGED <<stage, calls>>
      BY <2>1, <2>4, <2>5, <3>1 DEF TypesInv, BufferTypes, histories
    <3>2. CASE s # NoSource /\ calls' = {Article(s)} \cup Derived(s, buffer)
               /\ stage' = "compile" /\ UNCHANGED todo
      <4>1. s \in Sources
        BY <2>4, <3>2
      <4>2. calls' \subseteq Call
        BY <3>2, <4>1, ArticleType, DerivedType DEF TypesInv, BufferTypes
      <4>3. Head(todo') \in Sources /\ todo' # << >>
        BY <2>1, <3>2, <4>1 DEF s
      <4> QED
        BY <2>1, <2>5, <3>2, <4>2, <4>3 DEF TypesInv, BufferTypes, histories
    <3> QED
      BY <2>2, <3>1, <3>2
  <2> QED
    BY <2>1, <2>6, <2>7, Zenon DEF TypesInv, FileTypes, histories
<1>2. CASE FlushEnds
  <2>1. /\ stage' \in {"meta", "save"} /\ buffer' = << >>
        /\ UNCHANGED <<table, store, saved, stop, bounds, histories,
                       data, scan, scanner, last, todo, calls, listed, unread, short>>
    BY <1>2 DEF FlushEnds
  <2>2. RecordTypes'
    BY <2>1, Zenon DEF TypesInv, RecordTypes, bounds
  <2> QED
    BY <2>1, <2>2 DEF TypesInv, FileTypes, BufferTypes, histories
<1> QED
  BY <1>1, <1>2

\* The steps after a flush: saving, the end of the migration, what the worker makes of it.
LEMMA EndTypes ==
    ASSUME TypesInv, SaveProgress \/ FinishMigration \/ ReportResult \/ CleanupTable
    PROVE  TypesInv'
<1>1. CASE SaveProgress \/ FinishMigration
  <2>1. /\ saved' \in {data', saved, Fresh} /\ stage' \in {"scan", "report"}
        /\ faults' \in {faults, faults + 1}
    BY <1>1 DEF SaveProgress, FinishMigration, SaveOutcome, Fault, NoFault, workerVars
  <2>2. data' \in Data
    <3>1. data' = data \/ \E st \in {"idle", "running", "paused", "completed"} :
                              data' = [data EXCEPT !.status = st]
      BY <1>1, Zenon DEF SaveProgress, FinishMigration, workerVars
    <3> QED
      BY <3>1, DataUpdates DEF TypesInv, RecordTypes
  <2>3. saved' \in Data
    BY <2>1, <2>2, FreshType DEF TypesInv, RecordTypes
  <2>4. UNCHANGED <<table, store, stop, starts, histories,
                    scan, scanner, buffer, last, todo, calls, listed, unread, short>>
    BY <1>1, Zenon DEF SaveProgress, FinishMigration, workerVars
  <2>5. RecordTypes'
    <3>1. faults' \in Nat
      BY <2>1 DEF TypesInv, RecordTypes
    <3> QED
      BY <2>1, <2>2, <2>3, <2>4, <3>1 DEF TypesInv, RecordTypes
  <2> QED
    BY <2>1, <2>4, <2>5 DEF TypesInv, FileTypes, BufferTypes, histories
<1>2. CASE ReportResult
  <2>1. CASE WorkerGone
    BY <1>2, <2>1, GoneTypes DEF ReportResult, TypesInv, RecordTypes, FileTypes, bounds
  <2>2. CASE stage' = "cleanup" /\ UNCHANGED workerVars
    BY <1>2, <2>2, Zenon DEF ReportResult, TypesInv, RecordTypes, FileTypes, BufferTypes, workerVars,
                      bounds, histories
  <2> QED
    BY <1>2, <2>1, <2>2, Zenon DEF ReportResult
<1>3. CASE CleanupTable
  BY <1>3, GoneTypes DEF CleanupTable, TypesInv, RecordTypes, FileTypes, bounds
<1> QED
  BY <1>1, <1>2, <1>3

\* The steps that append to the file: what they append begins a block, and what is left
\* of the calls.
CallStep(c) ==
    /\ c \in calls /\ stage = "compile" /\ stage' = "compile"
    /\ calls' \subseteq calls
    /\ \/ UNCHANGED <<store, listed, failed>> /\ Present(c.key) /\ calls' = calls \ {c}
       \/ /\ ~ Present(c.key) /\ store' = store \o Block(c.key) /\ listed' = listed \cup {c.key}
          /\ UNCHANGED failed /\ calls' = calls \ {c}
       \/ UNCHANGED <<store, listed>> /\ failed' = failed \cup {Head(todo)}
       \/ Tear(c.key) /\ UNCHANGED listed /\ failed' = failed \cup {Head(todo)}
    /\ faults' \in {faults, faults + 1}
    /\ UNCHANGED <<table, saved, stop, starts, owed, others,
                   data, scan, scanner, buffer, last, todo, unread, short>>

LEMMA StoreCallSteps == ASSUME StoreCall PROVE \E c \in calls : CallStep(c)
<1>1. PICK c \in calls :
        \/ Present(c.key) /\ calls' = calls \ {c} /\ UNCHANGED <<store, listed, failed, faults>>
        \/ ~ Present(c.key) /\ Stores(c)
        \/ ~ Present(c.key) /\ ~ Fits(c) /\ Misses(c)
        \/ ~ Present(c.key) /\ Raises(c)
  BY Zenon DEF StoreCall
<1>2. /\ stage = "compile" /\ stage' = "compile"
      /\ UNCHANGED <<table, saved, stop, starts, owed, others,
                     data, scan, scanner, buffer, last, todo, unread, short>>
  BY Zenon DEF StoreCall
<1>3. CASE Present(c.key) /\ calls' = calls \ {c} /\ UNCHANGED <<store, listed, failed, faults>>
  BY <1>2, <1>3 DEF CallStep
<1>4. CASE ~ Present(c.key) /\ Stores(c)
  BY <1>2, <1>4 DEF CallStep, Stores
<1>5. CASE Misses(c)
  BY <1>2, <1>5 DEF CallStep, Misses
<1>6. CASE Raises(c)
  <2>1. AfterRaise(c) \subseteq calls
    BY DEF AfterRaise
  <2> QED
    BY <1>2, <1>6, <2>1 DEF CallStep, Raises, Fault
<1> QED
  BY <1>1, <1>3, <1>4, <1>5, <1>6

LEMMA CallTypes == ASSUME TypesInv, Aligned(store), NEW c, CallStep(c) PROVE TypesInv'
<1>1. c.key \in Keys /\ Head(todo) \in Sources
  BY DEF CallStep, TypesInv, BufferTypes, Call
<1>2. store' \in Seq(Segment)
  BY <1>1, Appended DEF CallStep, TypesInv, FileTypes
<1>3. RecordTypes'
  BY DEF TypesInv, RecordTypes, CallStep
<1>4. FileTypes'
  BY <1>1, <1>2 DEF TypesInv, FileTypes, CallStep
<1>5. BufferTypes'
  BY <1>1 DEF TypesInv, BufferTypes, CallStep
<1> QED
  BY <1>3, <1>4, <1>5 DEF TypesInv

LEMMA DoneTypes == ASSUME TypesInv, SourceDone PROVE TypesInv'
<1> DEFINE h == Head(todo)
           keys == { c.key : c \in Derived(h, buffer) }
<1>1. /\ stage = "compile" /\ stage' = "flush"
      /\ data' = [data EXCEPT !.processed = @ \cup {h}]
      /\ todo' = Tail(todo)
      /\ owed' = [owed EXCEPT ![h] = keys]
      /\ UNCHANGED <<table, store, saved, stop, bounds, failed, others,
                     scan, scanner, buffer, last, calls, listed, unread, short>>
  BY Zenon DEF SourceDone
<1>2. h \in Sources /\ Tail(todo) \in Seq(Sources \cup {NoSource})
  BY <1>1, NextSource DEF TypesInv, BufferTypes
<1>3. keys \subseteq DerivedKeys
  BY DerivedType DEF TypesInv, BufferTypes
<1> HIDE DEF h, keys
<1>4. data' \in Data
  BY <1>1, <1>2, DataUpdates DEF TypesInv, RecordTypes
<1>5. owed' \in [Sources -> SUBSET DerivedKeys]
  BY <1>1, <1>2, <1>3 DEF TypesInv, BufferTypes
<1>6. RecordTypes'
  BY <1>1, <1>4 DEF TypesInv, RecordTypes, bounds
<1>7. FileTypes' /\ BufferTypes'
  BY <1>1, <1>2, <1>5 DEF TypesInv, FileTypes, BufferTypes
<1> QED
  BY <1>6, <1>7 DEF TypesInv

\* A key an open or this worker found stored: a whole block of it is in the file, or a
\* torn one that passes for it.
Taken(k) == InStore(k) \/ TornListed(k)

Active == stage \notin {"none", "starting"}

\* The keys the worker takes for stored are, and it knows of every block it can read but
\* those other processes appended.
StoreInv ==
    /\ Aligned(store)
    /\ OneBlockPerKey
    /\ \A k \in listed : Taken(k)
    /\ Active => \A k \in Keys \ ToSet(others), o \in Nat :
                    WholeAt(store, o, k) /\ NoTearBefore(o) => k \in listed

\* What the article under way is made of is in the store or among the calls to come.
Compiling ==
    stage = "compile" /\ Head(todo) \notin failed =>
        \A c \in {Article(Head(todo))} \cup Derived(Head(todo), buffer) : Present(c.key) \/ c \in calls

\* The articles of these sources are in the store with what their text yields.
Done(sources) == \A s \in sources \ failed : \A k \in {s} \cup owed[s] : Taken(k)

DoneInv == Compiling /\ Done(data.processed) /\ Done(saved.processed)

\* What is left of an append is no whole block.
LEMMA TearIsNoBlock ==
    ASSUME store \in Seq(Segment), NEW k \in Keys, Tear(k)
    PROVE  store' # store \o Block(k)
<1> SUFFICES ASSUME store' = store \o Block(k) PROVE FALSE
  OBVIOUS
<1>1. PICK n \in TornSizes : store' = store \o SubSeq(Block(k), 1, n)
  BY DEF Tear
<1>2. n \in 0 .. 2 /\ Len(store) \in Nat
  BY BlockAssumption, LenProperties DEF BLOCK_ALIGN
<1>3. Len(store') = Len(store) + BLOCK_ALIGN
  BY BlockType, ConcatProperties
<1>4. Len(SubSeq(Block(k), 1, n)) = n /\ SubSeq(Block(k), 1, n) \in Seq(Segment)
  BY <1>2, PrefixType, BlockType, SubSeqProperties DEF BLOCK_ALIGN
<1>5. Len(store') = Len(store) + n
  BY <1>1, <1>4, ConcatProperties
<1> QED
  BY <1>2, <1>3, <1>5 DEF BLOCK_ALIGN

\* An append, by the worker of a key it misses or by another process, or the rest of one.
LEMMA AppendKeepsStore ==
    ASSUME TypesInv, StoreInv, NEW k \in Keys, store' = store \o Block(k) \/ Tear(k),
           ToSet(others) \subseteq ToSet(others'),
           store' = store \o Block(k) => k \in ToSet(others') \/ (Active /\ k \notin listed),
           \/ listed' = listed
           \/ listed' = listed \cup {k} /\ store' = store \o Block(k)
           \/ listed' = {} /\ ~ Active',
           Active' => Active /\ (k \in listed' \/ Tear(k) \/ k \in ToSet(others'))
    PROVE  StoreInv' /\ \A j \in Keys : Taken(j) => Taken(j)'
<1>0. store \in Seq(Segment) /\ Len(store) \in Nat
  BY LenProperties DEF TypesInv, FileTypes
<1>1. /\ store' \in Seq(Segment)
      /\ Aligned(store')
      /\ \A j \in Keys, o \in Nat : WholeAt(store, o, j) => WholeAt(store', o, j)
      /\ \A j \in Keys, o \in Nat : WholeAt(store', o, j) =>
            WholeAt(store, o, j) \/ (o = Len(store) /\ j = k /\ store' = store \o Block(k))
      /\ Tears(store) \subseteq Tears(store')
      /\ \A j : TornListed(j) => TornListed(j)'
  BY <1>0, Appended DEF StoreInv
<1>2. \A o \in Nat : NoTearBefore(o)' => NoTearBefore(o)
  BY <1>1, Zenon DEF NoTearBefore
<1>3. \A j \in Keys : Taken(j) => Taken(j)'
  BY <1>1, Zenon DEF Taken, InStore
<1>4. OneBlockPerKey'
  <2> SUFFICES ASSUME NEW j \in Keys \ ToSet(others'), NEW i \in 0 .. Len(store'),
                      WholeAt(store', i, j), NoTearBefore(i)',
                      NEW m \in i + 1 .. Len(store'), WholeAt(store', m, j)
               PROVE  FALSE
    BY DEF OneBlockPerKey
  <2>0. i \in Nat /\ m \in Nat /\ i < m /\ j \in Keys \ ToSet(others) /\ NoTearBefore(i)
    <3>1. Len(store') \in Nat
      BY <1>1, LenProperties
    <3> QED
      BY <1>2, <3>1
  <2>1. ASSUME NEW o \in Nat, WholeAt(store, o, j) PROVE o < Len(store)
    BY <1>0, <2>1 DEF WholeAt, BLOCK_ALIGN
  <2>2. WholeAt(store, i, j)
    <3>1. WholeAt(store, i, j) \/ i = Len(store)
      BY <1>1, <2>0
    <3>2. WholeAt(store, m, j) \/ m = Len(store)
      BY <1>1, <2>0
    <3> QED
      BY <1>0, <2>0, <2>1, <3>1, <3>2
  <2>3. ~ WholeAt(store, m, j)
    <3> SUFFICES ASSUME WholeAt(store, m, j) PROVE FALSE
      OBVIOUS
    <3>1. i \in 0 .. Len(store) /\ m \in i + 1 .. Len(store)
      BY <1>0, <2>0, <2>1, <2>2
    <3> QED
      BY <2>0, <2>2, <3>1 DEF StoreInv, OneBlockPerKey
  <2>4. j = k /\ store' = store \o Block(k)
    BY <1>1, <2>0, <2>3
  <2>5. Active /\ k \notin listed
    BY <2>4
  <2>6. k \in listed
    BY <2>0, <2>2, <2>4, <2>5, Zenon DEF StoreInv
  <2> QED
    BY <2>5, <2>6
<1>5. ASSUME NEW j \in listed' PROVE Taken(j)'
  <2>1. CASE j \in listed
    BY <1>3, <2>1, Zenon DEF StoreInv, TypesInv, FileTypes
  <2>2. CASE j = k /\ store' = store \o Block(k)
    <3>1. WholeAt(store', Len(store), k)
      BY <1>0, <2>2, WholeAppended
    <3> QED
      BY <1>0, <2>2, <3>1, Zenon DEF Taken, InStore
  <2> QED
    BY <2>1, <2>2
<1>6. ASSUME Active', NEW j \in Keys \ ToSet(others'), NEW o \in Nat,
             WholeAt(store', o, j), NoTearBefore(o)'
      PROVE  j \in listed'
  <2>1. CASE WholeAt(store, o, j)
    <3>1. j \in listed
      BY <1>2, <1>6, <2>1, Zenon DEF StoreInv
    <3> QED
      BY <1>6, <3>1
  <2>2. CASE ~ WholeAt(store, o, j)
    <3>1. j = k /\ store' = store \o Block(k) /\ o = Len(store)
      BY <1>1, <1>6, <2>2
    <3>2. ~ Tear(k)
      BY <1>0, <3>1, TearIsNoBlock
    <3> QED
      BY <1>6, <3>1, <3>2
  <2> QED
    BY <2>1, <2>2
<1>7. Aligned(store)'
  BY <1>1
<1> QED
  BY <1>3, <1>4, <1>5, <1>6, <1>7, Zenon DEF StoreInv

\* A step that leaves the file alone.
LEMMA QuietKeepsStore ==
    ASSUME StoreInv, UNCHANGED <<store, others>>,
           \/ listed' = listed /\ (Active' => Active)
           \/ listed' = {} /\ ~ Active'
    PROVE  StoreInv' /\ \A j : Taken(j) => Taken(j)'
<1>1. \A j : Taken(j) => Taken(j)'
  BY Zenon DEF Taken, InStore, TornListed
<1>2. OneBlockPerKey' /\ Aligned(store)'
  BY Zenon DEF StoreInv, OneBlockPerKey, NoTearBefore
<1>3. \A o : NoTearBefore(o)' => NoTearBefore(o)
  BY Zenon DEF NoTearBefore
<1>4. \A j \in listed' : Taken(j)'
  BY <1>1 DEF StoreInv
<1>5. ASSUME Active', NEW k \in Keys \ ToSet(others'), NEW o \in Nat,
             WholeAt(store', o, k), NoTearBefore(o)'
      PROVE  k \in listed'
  BY <1>3, <1>5, Zenon DEF StoreInv
<1> QED
  BY <1>1, <1>2, <1>4, <1>5, Zenon DEF StoreInv

\* An open of the file finds every block that no torn one precedes.
LEMMA OpenKeepsStore ==
    ASSUME TypesInv, StoreInv, UNCHANGED <<store, others>>,
           listed' = {e.key : e \in Rebuild(store)}
    PROVE  StoreInv' /\ \A j : Taken(j) => Taken(j)'
<1>0. store \in Seq(Segment) /\ Len(store) \in Nat /\ Aligned(store)
  BY LenProperties DEF TypesInv, FileTypes, StoreInv
<1>1. \A j : Taken(j) => Taken(j)'
  BY Zenon DEF Taken, InStore, TornListed
<1>2. OneBlockPerKey' /\ Aligned(store)'
  BY Zenon DEF StoreInv, OneBlockPerKey, NoTearBefore
<1>3. ASSUME NEW j \in listed' PROVE Taken(j)
  <2>1. PICK e \in Rebuild(store) : e.key = j
    BY <1>3
  <2>2. e.off \in Nat
    BY <1>0, RebuildPoints DEF Entry
  <2> QED
    BY <2>1, <2>2, Zenon DEF Taken, InStore, TornListed
<1>4. ASSUME NEW k \in Keys \ ToSet(others'), NEW o \in Nat,
             WholeAt(store', o, k), NoTearBefore(o)'
      PROVE  k \in listed'
  <2>1. WholeAt(store, o, k) /\ \A x \in Tears(store) : o < x
    BY <1>4 DEF NoTearBefore
  <2>2. [off |-> o, key |-> k] \in Rebuild(store)
    BY <1>0, <2>1, WholeIsListed
  <2> QED
    BY <2>2
<1> QED
  BY <1>1, <1>2, <1>3, <1>4, Zenon DEF StoreInv

\* What is marked as done stays done while what is in the file only grows.
LEMMA DoneKept ==
    ASSUME NEW s, Done(s), \A j \in Keys : Taken(j) => Taken(j)',
           failed \subseteq failed', owed' = owed, s \subseteq Sources,
           owed \in [Sources -> SUBSET DerivedKeys]
    PROVE  Done(s)'
<1> SUFFICES ASSUME NEW x \in s \ failed', NEW k \in {x} \cup owed[x]
             PROVE  Taken(k)'
  BY Zenon DEF Done
<1>1. Taken(k)
  BY Zenon DEF Done
<1>2. k \in Keys
  BY MigrationAssumption
<1> QED
  BY <1>1, <1>2

StoredInv == TypesInv /\ StoreInv /\ DoneInv

\* Done(s) after the step, s being what is done then.
DoneThen(s) == \A x \in s \ failed' : \A k \in {x} \cup owed'[x] : Taken(k)'

\* What is done after a step that neither fails nor marks.
DoneFrom(s) == s \in {data.processed, saved.processed, {}}

LEMMA DoneSetsKept ==
    ASSUME TypesInv, DoneInv, \A j \in Keys : Taken(j) => Taken(j)',
           failed \subseteq failed', owed' = owed,
           NEW s, DoneFrom(s)
    PROVE  DoneThen(s)
<1>1. data.processed \subseteq Sources /\ saved.processed \subseteq Sources
      /\ owed \in [Sources -> SUBSET DerivedKeys]
  BY DEF TypesInv, RecordTypes, BufferTypes, Data
<1>2. Done({})
  BY Zenon DEF Done
<1>3. Done(s) /\ s \subseteq Sources
  BY <1>1, <1>2 DEF DoneInv, DoneFrom
<1> QED
  BY <1>1, <1>3, DoneKept, Zenon DEF DoneThen, Done

\* A step that leaves the file and what was found in it alone.
LEMMA QuietStep ==
    ASSUME StoredInv, TypesInv', UNCHANGED <<store, others, failed, owed>>,
           \/ listed' = listed /\ (Active' => Active)
           \/ listed' = {} /\ ~ Active'
           \/ listed' = {e.key : e \in Rebuild(store)},
           DoneFrom(data'.processed), DoneFrom(saved'.processed),
           Compiling'
    PROVE  StoredInv'
<1>1. StoreInv' /\ \A j \in Keys : Taken(j) => Taken(j)'
  BY QuietKeepsStore, OpenKeepsStore, Zenon DEF StoredInv
<1>2. DoneThen(data'.processed) /\ DoneThen(saved'.processed)
  BY <1>1, DoneSetsKept DEF StoredInv
<1>3. Done(data.processed)' /\ Done(saved.processed)'
  BY <1>2, Zenon DEF Done, DoneThen
<1> QED
  BY <1>1, <1>3 DEF StoredInv, DoneInv

\* The end of the worker.
LEMMA GoneStored ==
    ASSUME StoredInv, TypesInv', WorkerGone, UNCHANGED <<store, histories>>, saved' \in {saved, Fresh}
    PROVE  StoredInv'
<1>1. Compiling' /\ ~ Active' /\ listed' = {}
  BY DEF WorkerGone, Compiling, Active
<1>2. DoneFrom(data'.processed) /\ DoneFrom(saved'.processed)
  BY FreshType DEF WorkerGone, DoneFrom
<1> QED
  BY <1>1, <1>2, QuietStep DEF histories

LEMMA ClicksStored ==
    ASSUME StoredInv, TypesInv', IndexRow \/ CompileClicked \/ StopClicked
    PROVE  StoredInv'
<1>1. /\ UNCHANGED <<store, saved, histories, workerVars>> /\ (Active' => Active)
      /\ stage' = "compile" => stage = "compile"
  BY DEF IndexRow, CompileClicked, StopClicked, Active
<1>2. DoneFrom(data'.processed) /\ DoneFrom(saved'.processed)
  BY <1>1 DEF workerVars, DoneFrom
<1>3. Compiling'
  <2>1. UNCHANGED <<todo, buffer, calls, failed, listed>>
    BY <1>1 DEF workerVars, histories
  <2> QED
    BY <1>1, <2>1, Zenon DEF StoredInv, DoneInv, Compiling, Present
<1> QED
  BY <1>1, <1>2, <1>3, QuietStep, Zenon DEF histories, workerVars

LEMMA StartStored ==
    ASSUME StoredInv, TypesInv', StartMigration
    PROVE  StoredInv'
<1>1. CASE table.lo = table.hi
  BY <1>1, GoneStored DEF StartMigration
<1>2. CASE table.lo # table.hi
  <2>1. /\ data' = [saved EXCEPT !.status = "running"] /\ saved' \in {data', saved, Fresh}
        /\ listed' = {e.key : e \in Rebuild(store)} /\ stage' = "scan"
        /\ UNCHANGED <<store, histories>>
    BY <1>2 DEF StartMigration, SaveOutcome
  <2>2. data'.processed = saved.processed
    BY <2>1, DataUpdates DEF StoredInv, TypesInv, RecordTypes
  <2>3. DoneFrom(data'.processed) /\ DoneFrom(saved'.processed)
    BY <2>1, <2>2, FreshType DEF DoneFrom
  <2>4. Compiling'
    BY <2>1 DEF Compiling
  <2> QED
    BY <2>1, <2>3, <2>4, QuietStep, Zenon DEF histories
<1> QED
  BY <1>1, <1>2

\* Reading rows, and a flush that neither stores nor marks.
LEMMA ScanStored ==
    ASSUME StoredInv, TypesInv', ReadBatch \/ ReadFirstBatch \/ ScanEnds \/ FlushSource \/ FlushEnds
    PROVE  StoredInv'
<1>1. /\ UNCHANGED <<store, saved, listed, histories>> /\ Active /\ Active'
      /\ stage \in {"scan", "flush"}
  <2>1. CASE ReadBatch
    BY <2>1, BatchStage DEF ReadBatch, Active
  <2>2. CASE ReadFirstBatch
    BY <2>2, BatchStage DEF ReadFirstBatch, Active
  <2>3. CASE ScanEnds
    BY <2>3 DEF ScanEnds, Active
  <2>4. CASE FlushSource
    BY <2>4 DEF FlushSource, Active
  <2>5. CASE FlushEnds
    BY <2>5 DEF FlushEnds, Active
  <2> QED
    BY <2>1, <2>2, <2>3, <2>4, <2>5
<1>2. data' = data \/ \E n : data' = [data EXCEPT !.chunks = n]
  BY Zenon DEF ReadBatch, ReadFirstBatch, ScanEnds, FlushSource, FlushEnds, AfterBatch
<1>3. DoneFrom(data'.processed) /\ DoneFrom(saved'.processed)
  <2>1. data'.processed = data.processed
    BY <1>2 DEF StoredInv, TypesInv, RecordTypes, Data
  <2> QED
    BY <1>1, <2>1 DEF DoneFrom
<1>4. Compiling'
  <2>1. CASE stage' = "compile"
    <3>1. FlushSource
      BY <2>1, BatchStage DEF ReadBatch, ReadFirstBatch, ScanEnds, FlushEnds
    <3>2. /\ calls' = {Article(Head(todo))} \cup Derived(Head(todo), buffer)
          /\ UNCHANGED <<todo, buffer, scan, data>>
      BY <1>1, <2>1, <3>1, Zenon DEF FlushSource
    <3> QED
      BY <3>2, Zenon DEF Compiling
  <2>2. CASE stage' # "compile"
    BY <2>2, Zenon DEF Compiling
  <2> QED
    BY <2>1, <2>2
<1> QED
  BY <1>1, <1>3, <1>4, QuietStep, Zenon DEF histories

LEMMA EndStored ==
    ASSUME StoredInv, TypesInv',
           \/ SaveProgress \/ FinishMigration \/ ReportResult \/ CleanupTable
           \/ FallbackStopRaises \/ ScannerRaises
    PROVE  StoredInv'
<1>1. CASE SaveProgress \/ FinishMigration
  <2>1. /\ saved' \in {data', saved, Fresh} /\ stage' \in {"scan", "report"} /\ Active
        /\ UNCHANGED <<store, listed, histories>>
    BY <1>1 DEF SaveProgress, FinishMigration, SaveOutcome, workerVars, Active
  <2>2. data'.processed = data.processed
    <3>1. data' = data \/ \E st \in {"paused", "completed"} : data' = [data EXCEPT !.status = st]
      BY <1>1, Zenon DEF SaveProgress, FinishMigration, workerVars
    <3> QED
      BY <3>1, DataUpdates DEF StoredInv, TypesInv, RecordTypes
  <2>3. DoneFrom(data'.processed) /\ DoneFrom(saved'.processed)
    BY <2>1, <2>2, FreshType DEF DoneFrom
  <2>4. Compiling'
    BY <2>1 DEF Compiling
  <2> QED
    BY <2>1, <2>3, <2>4, QuietStep, Zenon DEF histories
<1>2. CASE ReportResult
  <2>1. CASE WorkerGone
    BY <1>2, <2>1, GoneStored DEF ReportResult
  <2>2. CASE stage' = "cleanup" /\ UNCHANGED workerVars
    <3>1. Compiling' /\ Active
      BY <1>2, <2>2 DEF Compiling, Active, ReportResult
    <3>2. DoneFrom(data'.processed) /\ DoneFrom(saved'.processed)
      BY <1>2, <2>2 DEF DoneFrom, ReportResult, workerVars
    <3> QED
      BY <1>2, <2>2, <3>1, <3>2, QuietStep, Zenon DEF ReportResult, histories, workerVars
  <2> QED
    BY <1>2, <2>1, <2>2, Zenon DEF ReportResult
<1>3. CASE CleanupTable
  BY <1>3, GoneStored DEF CleanupTable
<1>4. CASE FallbackStopRaises
  BY <1>4, GoneStored DEF FallbackStopRaises
<1>5. CASE ScannerRaises
  BY <1>5, GoneStored DEF ScannerRaises
<1> QED
  BY <1>1, <1>2, <1>3, <1>4, <1>5

\* One store() call: a duplicate, a block, a refusal or an exception.
LEMMA CallStored ==
    ASSUME StoredInv, TypesInv', NEW c, CallStep(c)
    PROVE  StoredInv'
<1>1. c.key \in Keys /\ Active /\ Active' /\ ToSet(others) = ToSet(others')
  BY DEF CallStep, StoredInv, TypesInv, BufferTypes, Call, Active
<1>2. /\ UNCHANGED <<owed, data, saved, todo, buffer>> /\ failed \subseteq failed'
      /\ stage = "compile" /\ c \in calls
  BY DEF CallStep
<1>3. DoneFrom(data'.processed) /\ DoneFrom(saved'.processed)
  BY <1>2 DEF DoneFrom
<1>4. StoreInv' /\ (\A j \in Keys : Taken(j) => Taken(j)')
  <2>1. CASE UNCHANGED <<store, listed>>
    BY <1>1, <2>1, QuietKeepsStore, Zenon DEF StoredInv, CallStep
  <2>2. CASE Tear(c.key) /\ UNCHANGED listed
    <3>1. store' = store \o Block(c.key) => c.key \in ToSet(others') \/ (Active /\ c.key \notin listed)
      BY <1>1, <2>2, TearIsNoBlock DEF StoredInv, TypesInv, FileTypes
    <3> QED
      BY <1>1, <2>2, <3>1, AppendKeepsStore, Zenon DEF StoredInv
  <2>3. CASE ~ Present(c.key) /\ store' = store \o Block(c.key) /\ listed' = listed \cup {c.key}
    <3>1. c.key \in listed' /\ c.key \notin listed
      BY <2>3 DEF Present
    <3> QED
      BY <1>1, <2>3, <3>1, AppendKeepsStore, Zenon DEF StoredInv
  <2> QED
    BY <2>1, <2>2, <2>3, Zenon DEF CallStep
<1>5. Compiling'
  <2>1. CASE failed' = failed \cup {Head(todo)}
    BY <1>2, <2>1 DEF Compiling
  <2>2. CASE listed \subseteq listed' /\ c.key \in listed' /\ calls' = calls \ {c} /\ UNCHANGED failed
    BY <1>2, <2>2 DEF StoredInv, DoneInv, Compiling, Present
  <2>3. \/ failed' = failed \cup {Head(todo)}
        \/ listed \subseteq listed' /\ c.key \in listed' /\ calls' = calls \ {c} /\ UNCHANGED failed
    <3>1. CASE UNCHANGED <<store, listed, failed>> /\ Present(c.key) /\ calls' = calls \ {c}
      BY <3>1 DEF Present
    <3>2. CASE listed' = listed \cup {c.key} /\ UNCHANGED failed /\ calls' = calls \ {c}
      BY <3>2
    <3> QED
      BY <3>1, <3>2, Zenon DEF CallStep
  <2> QED
    BY <2>1, <2>2, <2>3
<1>6. DoneThen(data'.processed) /\ DoneThen(saved'.processed)
  BY <1>2, <1>3, <1>4, DoneSetsKept DEF StoredInv
<1>7. Done(data.processed)' /\ Done(saved.processed)'
  BY <1>6, Zenon DEF Done, DoneThen
<1> QED
  BY <1>4, <1>5, <1>7 DEF StoredInv, DoneInv

\* An append while no call is under way, or of another process: what is marked stays so.
LEMMA AppendStored ==
    ASSUME StoredInv, TypesInv', StoreInv', \A j \in Keys : Taken(j) => Taken(j)',
           UNCHANGED <<owed, failed>>, DoneFrom(data'.processed), DoneFrom(saved'.processed),
           Compiling'
    PROVE  StoredInv'
<1>1. DoneThen(data'.processed) /\ DoneThen(saved'.processed)
  BY DoneSetsKept DEF StoredInv
<1>2. Done(data.processed)' /\ Done(saved.processed)'
  BY <1>1, Zenon DEF Done, DoneThen
<1> QED
  BY <1>2 DEF StoredInv, DoneInv

LEMMA MetaStored ==
    ASSUME StoredInv, StoreMeta
    PROVE  StoredInv'
<1>0. Meta \in Keys
  BY MigrationAssumption
<1>1. /\ stage = "meta" /\ stage' = "final" /\ Active /\ Active'
      /\ UNCHANGED <<table, saved, stop, starts, histories,
                     data, scan, scanner, buffer, last, todo, calls, unread, short>>
      /\ faults' \in {faults, faults + 1}
      /\ ToSet(others) = ToSet(others')
      /\ \/ UNCHANGED <<store, listed>>
         \/ ~ Present(Meta) /\ store' = store \o Block(Meta) /\ listed' = listed \cup {Meta}
         \/ Tear(Meta) /\ UNCHANGED listed
  BY DEF StoreMeta, Active, Fault, NoFault, histories
<1>2. StoreInv' /\ (\A j \in Keys : Taken(j) => Taken(j)') /\ store' \in Seq(Segment)
  <2>1. CASE UNCHANGED <<store, listed>>
    BY <1>1, <2>1, QuietKeepsStore, Zenon DEF StoredInv, TypesInv, FileTypes, histories
  <2>2. CASE Tear(Meta) /\ UNCHANGED listed
    <3>1. store' = store \o Block(Meta) => Meta \in ToSet(others') \/ (Active /\ Meta \notin listed)
      BY <1>0, <2>2, TearIsNoBlock DEF StoredInv, TypesInv, FileTypes
    <3> QED
      BY <1>0, <1>1, <2>2, <3>1, AppendKeepsStore, Appended, Zenon
         DEF StoredInv, StoreInv, TypesInv, FileTypes
  <2>3. CASE ~ Present(Meta) /\ store' = store \o Block(Meta) /\ listed' = listed \cup {Meta}
    <3>1. Meta \in listed' /\ Meta \notin listed
      BY <2>3 DEF Present
    <3> QED
      BY <1>0, <1>1, <2>3, <3>1, AppendKeepsStore, Appended, Zenon
         DEF StoredInv, StoreInv, TypesInv, FileTypes
  <2> QED
    BY <1>1, <2>1, <2>2, <2>3
<1>3. TypesInv'
  <2>1. RecordTypes'
    <3>1. faults' \in Nat
      BY <1>1 DEF StoredInv, TypesInv, RecordTypes
    <3> QED
      BY <1>1, <3>1, Zenon DEF StoredInv, TypesInv, RecordTypes
  <2>2. FileTypes'
    BY <1>0, <1>1, <1>2 DEF StoredInv, TypesInv, FileTypes, histories
  <2>3. BufferTypes'
    BY <1>1, Zenon DEF StoredInv, TypesInv, BufferTypes, histories
  <2> QED
    BY <2>1, <2>2, <2>3 DEF TypesInv
<1>4. Compiling' /\ DoneFrom(data'.processed) /\ DoneFrom(saved'.processed)
  BY <1>1 DEF Compiling, DoneFrom
<1> QED
  BY <1>1, <1>2, <1>3, <1>4, AppendStored, Zenon DEF histories

LEMMA OthersStored ==
    ASSUME StoredInv, OthersStore
    PROVE  StoredInv'
<1>1. PICK k \in OthersKeys :
        /\ store' = store \o Block(k) \/ Tear(k)
        /\ others' = Append(others, k)
  BY Zenon DEF OthersStore
<1>2. /\ UNCHANGED <<table, saved, stop, stage, starts, failed, owed, workerVars>>
      /\ faults' \in {faults, faults + 1}
  BY DEF OthersStore, Fault, NoFault
<1>3. k \in Keys
  BY MigrationAssumption
<1>4. others' \in Seq(OthersKeys) /\ ToSet(others) \subseteq ToSet(others') /\ k \in ToSet(others')
  <2>1. others \in Seq(OthersKeys) /\ Len(others) \in Nat
    BY LenProperties DEF StoredInv, TypesInv, FileTypes
  <2>2. /\ others' \in Seq(OthersKeys) /\ Len(others') = Len(others) + 1
        /\ \A i \in 1 .. Len(others) : others'[i] = others[i]
        /\ others'[Len(others) + 1] = k
    BY <1>1, <2>1, AppendProperties
  <2>3. DOMAIN others = 1 .. Len(others) /\ DOMAIN others' = 1 .. Len(others) + 1
    BY <2>1, <2>2, LenProperties
  <2> QED
    BY <2>1, <2>2, <2>3 DEF ToSet
<1>5. store' \in Seq(Segment)
  BY <1>1, <1>3, Appended DEF StoredInv, StoreInv, TypesInv, FileTypes
<1>6. TypesInv'
  <2>1. RecordTypes'
    <3>1. faults' \in Nat
      BY <1>2 DEF StoredInv, TypesInv, RecordTypes
    <3> QED
      BY <1>2, <3>1, Zenon DEF StoredInv, TypesInv, RecordTypes, workerVars
  <2>2. FileTypes' /\ BufferTypes'
    BY <1>2, <1>4, <1>5, Zenon DEF StoredInv, TypesInv, FileTypes, BufferTypes, workerVars
  <2> QED
    BY <2>1, <2>2 DEF TypesInv
<1>7. StoreInv' /\ (\A j \in Keys : Taken(j) => Taken(j)')
  <2>1. listed' = listed /\ (Active' => Active)
    BY <1>2 DEF workerVars, Active
  <2> QED
    BY <1>1, <1>3, <1>4, <2>1, AppendKeepsStore, Zenon DEF StoredInv
<1>8. Compiling' /\ DoneFrom(data'.processed) /\ DoneFrom(saved'.processed)
  BY <1>2 DEF StoredInv, DoneInv, Compiling, Present, DoneFrom, workerVars
<1> QED
  BY <1>2, <1>6, <1>7, <1>8, AppendStored, Zenon

LEMMA CrashStored ==
    ASSUME StoredInv, Crash
    PROVE  StoredInv'
<1>1. /\ WorkerGone /\ stop' = FALSE /\ saved' \in {saved, Fresh} /\ faults' = faults + 1
      /\ UNCHANGED <<table, starts, histories>>
      /\ \/ UNCHANGED store
         \/ \E c \in calls : ~ Present(c.key) /\ Tear(c.key)
         \/ ~ Present(Meta) /\ Tear(Meta)
  BY DEF Crash, Fault
<1>2. UNCHANGED store \/ \E k \in Keys : Tear(k)
  <2>1. Meta \in Keys
    BY MigrationAssumption
  <2>2. \A c \in calls : c.key \in Keys
    BY DEF StoredInv, TypesInv, BufferTypes, Call
  <2> QED
    BY <1>1, <2>1, <2>2
<1>3. listed' = {} /\ ~ Active' /\ ToSet(others) = ToSet(others') /\ others' = others
  BY <1>1 DEF WorkerGone, Active, histories
<1>4. StoreInv' /\ (\A j \in Keys : Taken(j) => Taken(j)') /\ store' \in Seq(Segment)
  <2>1. CASE UNCHANGED store
    BY <1>3, <2>1, QuietKeepsStore, Zenon DEF StoredInv, TypesInv, FileTypes
  <2>2. ASSUME NEW k \in Keys, Tear(k)
        PROVE  StoreInv' /\ (\A j \in Keys : Taken(j) => Taken(j)') /\ store' \in Seq(Segment)
    <3>1. store' # store \o Block(k)
      BY <2>2, TearIsNoBlock DEF StoredInv, TypesInv, FileTypes
    <3> QED
      BY <1>3, <2>2, <3>1, AppendKeepsStore, Appended, Zenon
         DEF StoredInv, StoreInv, TypesInv, FileTypes
  <2> QED
    BY <1>2, <2>1, <2>2
<1>5. TypesInv'
  BY <1>1, <1>4, GoneTypes DEF StoredInv
<1>6. Compiling' /\ DoneFrom(data'.processed) /\ DoneFrom(saved'.processed)
  BY <1>1, FreshType DEF WorkerGone, Compiling, DoneFrom
<1> QED
  BY <1>1, <1>4, <1>5, <1>6, AppendStored, Zenon DEF histories

\* No call is left: the source is marked, and what it owes is in the store.
LEMMA DoneStored == ASSUME StoredInv, TypesInv', SourceDone PROVE StoredInv'
<1> DEFINE h == Head(todo)
           keys == { c.key : c \in Derived(h, buffer) }
<1>1. /\ stage = "compile" /\ calls = {} /\ stage' = "flush"
      /\ data' = [data EXCEPT !.processed = @ \cup {h}]
      /\ owed' = [owed EXCEPT ![h] = keys]
      /\ UNCHANGED <<store, listed, others, saved, failed>>
  BY Zenon DEF SourceDone
<1>2. h \in Sources
  BY <1>1 DEF StoredInv, TypesInv, BufferTypes
<1>3. h \notin failed => \A k \in {h} \cup keys : Taken(k)
  <2>1. h \notin failed =>
            \A c \in {Article(h)} \cup Derived(h, buffer) : Present(c.key)
    BY <1>1, Zenon DEF StoredInv, DoneInv, Compiling
  <2>2. Article(h).key = h
    BY <1>2, ArticleType
  <2> QED
    BY <2>1, <2>2, Zenon DEF Present, StoredInv, StoreInv
<1> HIDE DEF h, keys
<1>4. StoreInv' /\ \A j : Taken(j) => Taken(j)'
  <2>1. Active /\ Active'
    BY <1>1 DEF Active
  <2> QED
    BY <1>1, <2>1, QuietKeepsStore DEF StoredInv
<1>5. data'.processed = data.processed \cup {h}
  BY <1>1, <1>2, DataUpdates DEF StoredInv, TypesInv, RecordTypes
<1>6. \A s \in Sources : owed'[s] = IF s = h THEN keys ELSE owed[s]
  BY <1>1 DEF StoredInv, TypesInv, BufferTypes
<1>7. data.processed \subseteq Sources /\ saved.processed \subseteq Sources
  BY DEF StoredInv, TypesInv, RecordTypes, Data
<1>8. ASSUME NEW x \in Sources \ failed, x = h \/ x \in data.processed \/ x \in saved.processed,
             NEW k \in {x} \cup owed'[x]
      PROVE  Taken(k)'
  <2>1. CASE x = h
    <3>1. k \in {h} \cup keys
      BY <1>6, <1>8, <2>1
    <3> QED
      BY <1>3, <1>4, <1>8, <2>1, <3>1
  <2>2. CASE x # h
    <3>1. k \in {x} \cup owed[x]
      BY <1>6, <1>8, <2>2
    <3>2. Taken(k)
      BY <1>8, <2>2, <3>1, Zenon DEF StoredInv, DoneInv, Done
    <3> QED
      BY <1>4, <3>2
  <2> QED
    BY <2>1, <2>2
<1>9. Done(data.processed)' /\ Done(saved.processed)'
  BY <1>1, <1>2, <1>5, <1>7, <1>8, Zenon DEF Done
<1>10. Compiling'
  BY <1>1 DEF Compiling
<1> QED
  BY <1>4, <1>9, <1>10 DEF StoredInv, DoneInv

LEMMA InitStored == InitMigration => StoredInv
<1> SUFFICES ASSUME InitMigration PROVE StoredInv
  OBVIOUS
<1>1. TypesInv
  BY InitTypes
<1>2. store = << >> /\ listed = {} /\ stage = "none" /\ data = Fresh /\ saved = Fresh
  BY DEF InitMigration
<1>3. Len(store) = 0
  BY <1>2
<1>4. Aligned(store)
  BY <1>3 DEF Aligned, HeaderAt, HEADER_SIZE, BLOCK_ALIGN
<1>5. OneBlockPerKey
  BY <1>3 DEF OneBlockPerKey, WholeAt, BLOCK_ALIGN
<1>6. StoreInv
  BY <1>2, <1>4, <1>5 DEF StoreInv, Active
<1>7. DoneInv
  BY <1>2, FreshType DEF DoneInv, Compiling, Done
<1> QED
  BY <1>1, <1>6, <1>7 DEF StoredInv

LEMMA NextStored == StoredInv /\ [NextMigration]_migrationVars => StoredInv'
<1> SUFFICES ASSUME StoredInv, [NextMigration]_migrationVars
             PROVE  StoredInv'
  OBVIOUS
<1>0. TypesInv /\ Aligned(store)
  BY DEF StoredInv, StoreInv
<1>1. CASE IndexRow \/ CompileClicked \/ StopClicked
  BY <1>0, <1>1, ClickTypes, ClicksStored
<1>2. CASE StartMigration
  BY <1>0, <1>2, StartTypes, StartStored
<1>3. CASE ReadBatch \/ ReadFirstBatch \/ ScanEnds \/ FlushSource \/ FlushEnds
  BY <1>0, <1>3, ReadTypesKept, ScanEndTypes, FlushTypes, ScanStored
<1>4. CASE SaveProgress \/ FinishMigration \/ ReportResult \/ CleanupTable
           \/ FallbackStopRaises \/ ScannerRaises
  BY <1>0, <1>4, EndTypes, ScanEndTypes, EndStored
<1>5. CASE StoreCall
  BY <1>0, <1>5, StoreCallSteps, CallTypes, CallStored
<1>6. CASE SourceDone
  BY <1>0, <1>6, DoneTypes, DoneStored
<1>7. CASE StoreMeta \/ OthersStore \/ Crash
  BY <1>7, MetaStored, OthersStored, CrashStored
<1>8. CASE UNCHANGED migrationVars
  <2>1. TypesInv'
    BY <1>0, <1>8, Zenon DEF migrationVars, workerVars, bounds, histories, TypesInv, RecordTypes,
                             FileTypes, BufferTypes
  <2>2. Compiling'
    BY <1>8, Zenon DEF migrationVars, workerVars, histories, StoredInv, DoneInv, Compiling, Present
  <2>3. DoneFrom(data'.processed) /\ DoneFrom(saved'.processed) /\ (Active' => Active)
    BY <1>8 DEF migrationVars, workerVars, DoneFrom, Active
  <2> QED
    BY <1>8, <2>1, <2>2, <2>3, QuietStep, Zenon DEF migrationVars, workerVars, histories
<1> QED
  BY <1>1, <1>2, <1>3, <1>4, <1>5, <1>6, <1>7, <1>8, Zenon DEF NextMigration, Worker

-----------------------------------------------------------------------------
(* What becomes of the rows *)

\* Row i is blank, unreadable, waiting in the buffer, or its source is finished with.
Got(i) ==
    \/ Rows[i].len = 0
    \/ Rows[i].src \in data.processed \cup short
    \/ i \in unread
    \/ \E n \in DOMAIN buffer : buffer[n] = i

\* The loop has come past row i, or past the first batch in the fallback.
Covered(i) ==
    \/ scanner /\ i <= scan.pos
    \/ ~ scanner /\ i <= scan.lo + BatchSize /\ scan.pos # scan.from

\* The fallback loop does not read row i.
NotRead(i) == ~ scanner /\ (i > scan.lo + BatchSize \/ scan.from >= scan.hi)

Complete == \A i \in scan.lo + 1 .. scan.hi : Got(i) \/ NotRead(i)

\* The flush under way has finished with the source at place n, or has it before it.
Flushed(n) ==
    \/ Rows[buffer[n]].len = 0
    \/ Rows[buffer[n]].src \in data.processed \cup short
    \/ \E m \in DOMAIN todo : todo[m] = Rows[buffer[n]].src

ScanInv ==
    /\ ~ Active => ~ last
    /\ Active =>
        /\ scan.lo = table.lo /\ scan.hi <= table.hi
        /\ scanner => scan.pos <= scan.hi
        /\ ~ scanner => scan.from <= scan.pos
        /\ \A i \in scan.lo + 1 .. scan.hi : Covered(i) => Got(i)
        /\ stage \in {"scan", "save"} => ~ last
        /\ stage \in {"flush", "compile"} => \A n \in DOMAIN buffer : Flushed(n)
        /\ stage \in {"meta", "final", "report", "cleanup"} => last /\ buffer = << >>
        /\ last => stop \/ Complete
        /\ stage = "cleanup" => Complete

AccountInv == TypesInv /\ ScanInv

\* Every source of the buffer is among those a flush visits.
LEMMA AllSources ==
    ASSUME NEW rows \in Seq(RowNumbers), NEW n \in Filled(rows)
    PROVE  \E m \in DOMAIN SourcesIn(rows) : SourcesIn(rows)[m] = Rows[rows[n]].src
<1> DEFINE s == Rows[rows[n]].src
           of == { j \in Filled(rows) : Rows[rows[j]].src = s }
<1>1. Filled(rows) \subseteq 1 .. Len(rows) /\ Len(rows) \in Nat /\ of \subseteq Nat /\ n \in of
  BY LenProperties DEF Filled
<1>2. PICK m \in of : \A j \in of : ~ (j < m)
  <2>1. PICK m \in of : \A j \in of : <<j, m>> \notin OpToRel(<, Nat)
    BY <1>1, NatLessThanWellFounded, WFMin
  <2> QED
    BY <1>1, <2>1 DEF OpToRel
<1>3. \A j \in Filled(rows) : j < m => Rows[rows[j]].src # Rows[rows[m]].src
  BY <1>2
<1>4. m \in 1 .. Len(rows) /\ m \in Filled(rows) /\ Rows[rows[m]].src = s
  BY <1>1, <1>2
<1>5. SourcesIn(rows)[m] = s
  BY <1>3, <1>4, Zenon DEF SourcesIn
<1>6. m \in DOMAIN SourcesIn(rows)
  BY <1>4, Zenon DEF SourcesIn
<1> QED
  BY <1>5, <1>6

\* Steps that read no row and flush none.
Idle ==
    /\ UNCHANGED <<scan, scanner, last, short, unread, buffer, todo>>
    /\ data'.processed = data.processed
    /\ table'.lo = table.lo /\ table.hi <= table'.hi
    /\ stop => stop'

LEMMA IdleKeepsScan ==
    ASSUME AccountInv, TypesInv', Idle,
           \/ stage' = stage
           \/ stage = "save" /\ stage' = "scan"
           \/ stage = "meta" /\ stage' = "final"
           \/ stage = "final" /\ stage' = "report"
           \/ stage = "report" /\ stage' = "cleanup" /\ ~ stop
    PROVE  AccountInv'
<1>1. /\ \A i : Got(i)' <=> Got(i)
      /\ \A i : Covered(i)' <=> Covered(i)
      /\ \A i : NotRead(i)' <=> NotRead(i)
      /\ \A n : Flushed(n)' <=> Flushed(n)
  BY Zenon DEF Idle, Got, Covered, NotRead, Flushed
<1>2. Complete' <=> Complete
  BY <1>1, Zenon DEF Complete, Idle
<1>3. Active' <=> Active
  BY DEF Active
<1>4. CASE ~ Active
  BY <1>3, <1>4, Zenon DEF AccountInv, ScanInv, Idle
<1>5. CASE Active
  <2>1. scan'.lo = table'.lo /\ scan'.hi <= table'.hi
    <3>1. scan.hi \in Nat /\ table.hi \in Nat /\ table'.hi \in Nat
      BY RowsCount DEF AccountInv, TypesInv, RecordTypes
    <3> QED
      BY <1>5, <3>1 DEF AccountInv, ScanInv, Idle
  <2>2. /\ scanner' => scan'.pos <= scan'.hi
        /\ ~ scanner' => scan'.from <= scan'.pos
    BY <1>5, Zenon DEF AccountInv, ScanInv, Idle
  <2>3. \A i \in scan'.lo + 1 .. scan'.hi : Covered(i)' => Got(i)'
    BY <1>1, <1>5, Zenon DEF AccountInv, ScanInv, Idle
  <2>4. stage' \in {"scan", "save"} => ~ last'
    <3>1. stage' \in {"scan", "save"} => stage \in {"scan", "save"}
      OBVIOUS
    <3> QED
      BY <1>5, <3>1, Zenon DEF AccountInv, ScanInv, Idle
  <2>5. stage' \in {"flush", "compile"} => \A n \in DOMAIN buffer' : Flushed(n)'
    <3>1. stage' \in {"flush", "compile"} => stage \in {"flush", "compile"}
      OBVIOUS
    <3> QED
      BY <1>1, <1>5, <3>1, Zenon DEF AccountInv, ScanInv, Idle
  <2>6. stage' \in {"meta", "final", "report", "cleanup"} => last' /\ buffer' = << >>
    <3>1. stage' \in {"meta", "final", "report", "cleanup"} =>
              stage \in {"meta", "final", "report", "cleanup"}
      OBVIOUS
    <3> QED
      BY <1>5, <3>1, Zenon DEF AccountInv, ScanInv, Idle
  <2>7. last' => stop' \/ Complete'
    BY <1>2, <1>5, Zenon DEF AccountInv, ScanInv, Idle
  <2>8. stage' = "cleanup" => Complete'
    <3>1. stage' = "cleanup" => stage = "cleanup" \/ (stage = "report" /\ ~ stop)
      OBVIOUS
    <3>2. stage = "report" => last
      BY <1>5 DEF AccountInv, ScanInv
    <3> QED
      BY <1>2, <1>5, <3>1, <3>2, Zenon DEF AccountInv, ScanInv
  <2> QED
    BY <1>3, <1>5, <2>1, <2>2, <2>3, <2>4, <2>5, <2>6, <2>7, <2>8, Zenon DEF AccountInv, ScanInv
<1> QED
  BY <1>4, <1>5

LEMMA IdleSteps ==
    ASSUME AccountInv, TypesInv',
           \/ IndexRow \/ StopClicked \/ OthersStore \/ StoreCall \/ SaveProgress
           \/ StoreMeta \/ FinishMigration \/ UNCHANGED migrationVars
    PROVE  AccountInv'
<1>0. table.hi \in Nat
  BY RowsCount DEF AccountInv, TypesInv, RecordTypes
<1>1. CASE IndexRow
  <2>1. table'.lo = table.lo /\ table.hi <= table'.hi
    BY <1>0, <1>1 DEF IndexRow, AccountInv, TypesInv, RecordTypes
  <2> QED
    BY <1>1, <2>1, IdleKeepsScan DEF IndexRow, Idle, workerVars
<1>2. CASE StopClicked
  BY <1>0, <1>2, IdleKeepsScan DEF StopClicked, Idle, workerVars
<1>3. CASE OthersStore
  BY <1>0, <1>3, IdleKeepsScan DEF OthersStore, Idle, workerVars
<1>4. CASE StoreCall
  <2>1. PICK c : CallStep(c)
    BY <1>4, StoreCallSteps
  <2> QED
    BY <1>0, <2>1, IdleKeepsScan DEF CallStep, Idle
<1>5. CASE SaveProgress
  BY <1>0, <1>5, IdleKeepsScan DEF SaveProgress, Idle, workerVars
<1>6. CASE StoreMeta
  BY <1>0, <1>6, IdleKeepsScan DEF StoreMeta, Idle
<1>7. CASE FinishMigration
  <2>1. data'.processed = data.processed
    <3>1. \E st \in {"paused", "completed"} : data' = [data EXCEPT !.status = st]
      BY <1>7, Zenon DEF FinishMigration
    <3> QED
      BY <3>1, DataUpdates DEF AccountInv, TypesInv, RecordTypes
  <2> QED
    BY <1>0, <1>7, <2>1, IdleKeepsScan DEF FinishMigration, Idle
<1>8. CASE UNCHANGED migrationVars
  BY <1>0, <1>8, IdleKeepsScan DEF migrationVars, workerVars, Idle
<1> QED
  BY <1>1, <1>2, <1>3, <1>4, <1>5, <1>6, <1>7, <1>8

\* A worker that has not begun, or is gone, owes nothing.
LEMMA GoneScan ==
    ASSUME AccountInv, TypesInv',
           \/ WorkerGone
           \/ CompileClicked
    PROVE  AccountInv'
<1>1. ~ Active' /\ ~ last'
  BY DEF AccountInv, ScanInv, CompileClicked, WorkerGone, Active, workerVars
<1> QED
  BY <1>1 DEF AccountInv, ScanInv

LEMMA StartScan ==
    ASSUME AccountInv, TypesInv', StartMigration
    PROVE  AccountInv'
<1>1. CASE table.lo = table.hi
  BY <1>1, GoneScan DEF StartMigration
<1>2. CASE table.lo # table.hi
  <2>1. /\ scan' = [lo |-> table.lo, hi |-> table.hi,
                    from |-> IF scanner' THEN table.lo ELSE table.lo + saved.chunks,
                    pos |-> IF scanner' THEN table.lo ELSE table.lo + saved.chunks]
        /\ scanner' \in BOOLEAN /\ stage = "starting" /\ stage' = "scan"
        /\ UNCHANGED <<table, last>>
    BY <1>2 DEF StartMigration
  <2>2. ~ last'
    BY <2>1 DEF AccountInv, ScanInv, Active
  <2>3. /\ scan'.lo = table.lo /\ scan'.hi = table.hi /\ scan'.pos = scan'.from
        /\ scanner' => scan'.pos = table.lo
        /\ table.lo \in Nat /\ table.hi \in Nat /\ table.lo <= table.hi /\ scan'.pos \in Nat
    BY <2>1, RowsCount DEF AccountInv, TypesInv, RecordTypes, Data
  <2>4. \A i \in scan'.lo + 1 .. scan'.hi : ~ Covered(i)'
    BY <2>3 DEF Covered
  <2>5. ScanInv'
    BY <2>1, <2>2, <2>3, <2>4 DEF ScanInv, Active
  <2> QED
    BY <2>5 DEF AccountInv
<1> QED
  BY <1>1, <1>2

\* Rows more in the buffer: those in it stay, those read are in it.
LEMMA BufferGrows ==
    ASSUME buffer \in Seq(RowNumbers), NEW rows \in Seq(RowNumbers), buffer' = buffer \o rows
    PROVE  /\ \A i : (\E n \in DOMAIN buffer : buffer[n] = i) =>
                     \E n \in DOMAIN buffer' : buffer'[n] = i
           /\ \A i : (\E n \in DOMAIN rows : rows[n] = i) =>
                     \E n \in DOMAIN buffer' : buffer'[n] = i
<1>0. /\ buffer' \in Seq(RowNumbers) /\ Len(buffer) \in Nat /\ Len(rows) \in Nat
      /\ Len(buffer') = Len(buffer) + Len(rows)
      /\ \A i \in 1 .. Len(buffer) : buffer'[i] = buffer[i]
  BY ConcatProperties, LenProperties
<1>1. /\ DOMAIN buffer = 1 .. Len(buffer) /\ DOMAIN rows = 1 .. Len(rows)
      /\ DOMAIN buffer' = 1 .. Len(buffer) + Len(rows)
  BY <1>0, LenProperties
<1>2. ASSUME NEW n \in DOMAIN buffer PROVE n \in DOMAIN buffer' /\ buffer'[n] = buffer[n]
  BY <1>0, <1>1, <1>2
<1>3. ASSUME NEW n \in DOMAIN rows
      PROVE  Len(buffer) + n \in DOMAIN buffer' /\ buffer'[Len(buffer) + n] = rows[n]
  <2>1. Len(buffer) + n \in 1 .. Len(buffer) + Len(rows) /\ ~ (Len(buffer) + n <= Len(buffer))
    BY <1>0, <1>1, <1>3
  <2>2. buffer'[Len(buffer) + n] = rows[(Len(buffer) + n) - Len(buffer)]
    BY <2>1, ConcatProperties
  <2>3. (Len(buffer) + n) - Len(buffer) = n
    BY <1>0, <1>1, <1>3
  <2> QED
    BY <1>1, <2>1, <2>2, <2>3
<1> QED
  BY <1>2, <1>3

\* A flush that begins visits every source of the buffer.
LEMMA FlushBegins ==
    ASSUME NEW rows \in Seq(RowNumbers), NEW n \in DOMAIN rows
    PROVE  \/ Rows[rows[n]].len = 0
           \/ \E m \in DOMAIN SourcesIn(rows) : SourcesIn(rows)[m] = Rows[rows[n]].src
<1>1. rows[n] \in RowNumbers
  BY ElementOfSeq, LenProperties
<1>2. Rows[rows[n]].len # 0 => n \in Filled(rows)
  BY <1>1, RowType DEF Filled
<1> QED
  BY <1>2, AllSources

\* What a round of either loop does: rows go to the buffer or are unreadable, and its
\* place moves on.
Round(rows, lost) ==
    /\ rows \in Seq(RowNumbers)
    /\ buffer' = buffer \o rows
    /\ unread' = unread \cup lost
    /\ data'.processed = data.processed /\ short' = short
    /\ \/ stage' = "scan"
       \/ stage' = "flush" /\ todo' = SourcesIn(buffer')
    /\ stage = "scan"
    /\ UNCHANGED <<table, stop, scanner, last>>
    /\ scan'.lo = scan.lo /\ scan'.hi = scan.hi /\ scan'.from = scan.from
    /\ scanner => scan'.pos <= scan.hi
    /\ ~ scanner => scan.from <= scan'.pos
    /\ \A i \in scan.lo + 1 .. scan.hi : Covered(i)' =>
          Covered(i) \/ i \in lost \/ \E n \in DOMAIN rows : rows[n] = i

LEMMA RoundKeeps ==
    ASSUME AccountInv, TypesInv', NEW rows, NEW lost, Round(rows, lost)
    PROVE  AccountInv'
<1>0. Active /\ Active' /\ buffer \in Seq(RowNumbers) /\ buffer' \in Seq(RowNumbers) /\ ~ last'
  BY DEF Round, Active, AccountInv, ScanInv, TypesInv, BufferTypes
<1>1. \A i : Got(i) => Got(i)'
  BY <1>0, BufferGrows, Zenon DEF Round, Got
<1>a. /\ rows \in Seq(RowNumbers) /\ buffer' = buffer \o rows /\ unread' = unread \cup lost
  BY Zenon DEF Round
<1>2. \A i : i \in lost \/ (\E n \in DOMAIN rows : rows[n] = i) => Got(i)'
  <2> SUFFICES ASSUME NEW i, i \in lost \/ \E n \in DOMAIN rows : rows[n] = i
               PROVE  Got(i)'
    OBVIOUS
  <2>1. CASE i \in lost
    BY <1>a, <2>1 DEF Got
  <2>2. CASE \E n \in DOMAIN rows : rows[n] = i
    <3>1. \E n \in DOMAIN buffer' : buffer'[n] = i
      BY <1>0, <1>a, <2>2, BufferGrows
    <3> QED
      BY <3>1, Zenon DEF Got
  <2> QED
    BY <2>1, <2>2
<1>3. \A i \in scan'.lo + 1 .. scan'.hi : Covered(i)' => Got(i)'
  <2> SUFFICES ASSUME NEW i \in scan.lo + 1 .. scan.hi, Covered(i)'
               PROVE  Got(i)'
    BY DEF Round
  <2>1. Covered(i) \/ i \in lost \/ \E n \in DOMAIN rows : rows[n] = i
    BY Zenon DEF Round
  <2>2. Covered(i) => Got(i)
    BY <1>0 DEF AccountInv, ScanInv
  <2> QED
    BY <1>1, <1>2, <2>1, <2>2
<1>4. stage' = "flush" => \A n \in DOMAIN buffer' : Flushed(n)'
  <2> SUFFICES ASSUME stage' = "flush", NEW n \in DOMAIN buffer'
               PROVE  Flushed(n)'
    OBVIOUS
  <2>1. todo' = SourcesIn(buffer')
    BY DEF Round
  <2>2. \/ Rows[buffer'[n]].len = 0
        \/ \E m \in DOMAIN SourcesIn(buffer') : SourcesIn(buffer')[m] = Rows[buffer'[n]].src
    BY <1>0, FlushBegins
  <2> QED
    BY <2>1, <2>2, Zenon DEF Flushed
<1>5. scan'.lo = table'.lo /\ scan'.hi <= table'.hi
  BY <1>0 DEF Round, AccountInv, ScanInv
<1>6. /\ scanner' => scan'.pos <= scan'.hi
      /\ ~ scanner' => scan'.from <= scan'.pos
  BY <1>0 DEF Round
<1>7. stage' \in {"scan", "flush"}
  BY DEF Round
<1>8. ScanInv'
  BY <1>0, <1>3, <1>4, <1>5, <1>6, <1>7 DEF ScanInv
<1> QED
  BY <1>8 DEF AccountInv

LEMMA ReadScan ==
    ASSUME AccountInv, TypesInv', ReadBatch \/ ReadFirstBatch
    PROVE  AccountInv'
<1>0. /\ FirstBatch \in Nat /\ scan.lo + FirstBatch \in Nat /\ scan.lo + FirstBatch <= scan.hi
      /\ scan.hi <= Len(Rows) /\ scan.lo \in Nat /\ scan.hi \in Nat /\ Len(Rows) \in Nat
      /\ scan.pos \in Nat /\ BatchSize \in Nat \ {0} /\ TypesInv /\ scan.from \in Nat
      /\ \A i \in scan.lo + 1 .. scan.hi : i <= scan.lo + BatchSize => i <= scan.lo + FirstBatch
  BY FirstBatchType, RowsCount DEF AccountInv, TypesInv, RecordTypes
<1>1. CASE ReadFirstBatch
  <2> DEFINE rows == Numbers(scan.lo, scan.lo + FirstBatch)
  <2>1. /\ AfterBatch(rows, FirstBatch) /\ stage = "scan" /\ ~ scanner
        /\ scan' = [scan EXCEPT !.pos = @ + BatchSize]
        /\ UNCHANGED <<table, stop, scanner, last, unread, short>>
    BY <1>1, Zenon DEF ReadFirstBatch
  <2>2. /\ rows \in Seq(RowNumbers)
        /\ \A i \in scan.lo + 1 .. scan.lo + FirstBatch : \E n \in DOMAIN rows : rows[n] = i
    BY <1>0, NumbersType
  <2> HIDE DEF rows
  <2>3. /\ buffer' = buffer \o rows /\ data'.processed = data.processed
        /\ stage' = "scan" \/ (stage' = "flush" /\ todo' = SourcesIn(buffer'))
    BY <1>0, <2>1, <2>2, BatchTypes
  <2>4. scan'.lo = scan.lo /\ scan'.hi = scan.hi /\ scan'.from = scan.from
        /\ scan'.pos = scan.pos + BatchSize
    BY <2>1 DEF AccountInv, TypesInv, RecordTypes
  <2>5. scan.from <= scan'.pos
    <3>1. scan.from <= scan.pos
      BY <2>1 DEF AccountInv, ScanInv, Active
    <3> QED
      BY <1>0, <2>4, <3>1
  <2>6. \A i \in scan.lo + 1 .. scan.hi : Covered(i)' => \E n \in DOMAIN rows : rows[n] = i
    <3> SUFFICES ASSUME NEW i \in scan.lo + 1 .. scan.hi, Covered(i)'
                 PROVE  \E n \in DOMAIN rows : rows[n] = i
      OBVIOUS
    <3>1. i <= scan.lo + BatchSize
      BY <2>1, <2>4 DEF Covered
    <3>2. i \in scan.lo + 1 .. scan.lo + FirstBatch
      BY <1>0, <3>1
    <3> QED
      BY <2>2, <3>2
  <2>7. Round(rows, {})
    BY <2>1, <2>2, <2>3, <2>4, <2>5, <2>6 DEF Round
  <2> QED
    BY <2>7, RoundKeeps
<1>2. CASE ReadBatch
  <2>1. PICK n \in 1 .. BatchSize :
          /\ scan.pos + n <= scan.hi
          /\ scan' = [scan EXCEPT !.pos = @ + n]
          /\ \/ AfterBatch(Numbers(scan.pos, scan.pos + n), n) /\ UNCHANGED unread
             \/ /\ unread' = unread \cup (scan.pos + 1 .. scan.pos + n)
                /\ UNCHANGED <<buffer, data, stage, todo>>
    BY <1>2, Zenon DEF ReadBatch
  <2>2. /\ stage = "scan" /\ scanner
        /\ UNCHANGED <<table, stop, scanner, last, short>>
    BY <1>2, Zenon DEF ReadBatch
  <2>3. n \in Nat /\ scan.pos + n \in Nat /\ scan.pos + n <= Len(Rows) /\ scan.pos <= scan.pos + n
    BY <1>0, <2>1
  <2>4. scan'.lo = scan.lo /\ scan'.hi = scan.hi /\ scan'.from = scan.from
        /\ scan'.pos = scan.pos + n /\ scan'.pos <= scan.hi
    BY <2>1 DEF AccountInv, TypesInv, RecordTypes
  <2>5. \A i \in scan.lo + 1 .. scan.hi :
            Covered(i)' => Covered(i) \/ i \in scan.pos + 1 .. scan.pos + n
    BY <1>0, <2>2, <2>3, <2>4 DEF Covered
  <2>6. CASE AfterBatch(Numbers(scan.pos, scan.pos + n), n) /\ UNCHANGED unread
    <3> DEFINE rows == Numbers(scan.pos, scan.pos + n)
    <3>1. /\ rows \in Seq(RowNumbers)
          /\ \A i \in scan.pos + 1 .. scan.pos + n : \E m \in DOMAIN rows : rows[m] = i
      BY <1>0, <2>3, NumbersType
    <3>2. AfterBatch(rows, n)
      BY <2>6
    <3> HIDE DEF rows
    <3>3. /\ buffer' = buffer \o rows /\ data'.processed = data.processed
          /\ stage' = "scan" \/ (stage' = "flush" /\ todo' = SourcesIn(buffer'))
      BY <1>0, <2>2, <2>3, <3>1, <3>2, BatchTypes
    <3>4. \A i \in scan.lo + 1 .. scan.hi :
              Covered(i)' => Covered(i) \/ \E m \in DOMAIN rows : rows[m] = i
      BY <2>5, <3>1, Zenon
    <3>5. Round(rows, {})
      BY <2>2, <2>4, <2>6, <3>1, <3>3, <3>4 DEF Round
    <3> QED
      BY <3>5, RoundKeeps
  <2>7. CASE /\ unread' = unread \cup (scan.pos + 1 .. scan.pos + n)
             /\ UNCHANGED <<buffer, data, stage, todo>>
    <3>1. << >> \in Seq(RowNumbers) /\ buffer \o << >> = buffer
      BY ConcatEmptySeq, EmptySeq DEF AccountInv, TypesInv, BufferTypes
    <3>2. Round(<< >>, scan.pos + 1 .. scan.pos + n)
      BY <2>2, <2>4, <2>5, <2>7, <3>1 DEF Round
    <3> QED
      BY <3>2, RoundKeeps
  <2> QED
    BY <2>1, <2>6, <2>7
<1> QED
  BY <1>1, <1>2

\* When the loop ends without a stop nothing is left but what the fallback does not read.
LEMMA ScanEndsScan ==
    ASSUME AccountInv, TypesInv', ScanEnds
    PROVE  AccountInv'
<1>0. /\ scan.lo \in Nat /\ scan.hi \in Nat /\ scan.pos \in Nat /\ scan.from \in Nat
      /\ BatchSize \in Nat \ {0} /\ buffer \in Seq(RowNumbers) /\ Active
      /\ scanner \in BOOLEAN
  BY FirstBatchType, RowsCount DEF AccountInv, TypesInv, RecordTypes, BufferTypes, ScanEnds, Active
<1>1. /\ stage = "scan" /\ last' = TRUE /\ todo' = SourcesIn(buffer) /\ stage' = "flush"
      /\ UNCHANGED <<table, stop, data, scan, scanner, buffer, short>>
  BY DEF ScanEnds
<1>2. \/ scan.pos >= scan.hi /\ unread' = unread
      \/ stop /\ unread' = unread
      \/ ~ scanner /\ unread' = IF scan.pos = scan.from THEN scan.lo + 1 .. scan.hi ELSE unread
  BY DEF ScanEnds
<1>3. \A i \in scan.lo + 1 .. scan.hi : Got(i) => Got(i)'
  <2>1. unread \subseteq unread' \/ \A i \in scan.lo + 1 .. scan.hi : i \in unread'
    BY <1>2
  <2> QED
    BY <1>1, <2>1, Zenon DEF Got
<1>4. \A i : Covered(i)' <=> Covered(i)
  BY <1>1, Zenon DEF Covered
<1>5. \A i \in scan.lo + 1 .. scan.hi : Covered(i) => Got(i)'
  BY <1>0, <1>3, Zenon DEF AccountInv, ScanInv
<1>6. stop' \/ Complete'
  <2>1. CASE stop
    BY <1>1, <2>1
  <2>2. ASSUME scan.pos >= scan.hi \/ (~ scanner /\ scan.pos # scan.from),
               NEW i \in scan.lo + 1 .. scan.hi
        PROVE  Covered(i) \/ NotRead(i)
    BY <1>0, <2>2 DEF Covered, NotRead
  <2>3. CASE scan.pos >= scan.hi \/ (~ scanner /\ scan.pos # scan.from)
    <3>1. \A i \in scan.lo + 1 .. scan.hi : Got(i)' \/ NotRead(i)
      BY <1>5, <2>2, <2>3
    <3> QED
      BY <1>1, <3>1, Zenon DEF Complete, NotRead
  <2>4. CASE \A i \in scan.lo + 1 .. scan.hi : i \in unread'
    BY <1>1, <2>4, Zenon DEF Complete, Got
  <2>5. \/ stop
        \/ scan.pos >= scan.hi \/ (~ scanner /\ scan.pos # scan.from)
        \/ \A i \in scan.lo + 1 .. scan.hi : i \in unread'
    BY <1>2
  <2> QED
    BY <2>1, <2>3, <2>4, <2>5
<1>7. \A n \in DOMAIN buffer' : Flushed(n)'
  BY <1>0, <1>1, FlushBegins, Zenon DEF Flushed
<1>8. /\ scan'.lo = table'.lo /\ scan'.hi <= table'.hi
      /\ scanner' => scan'.pos <= scan'.hi
      /\ ~ scanner' => scan'.from <= scan'.pos
  BY <1>0, <1>1 DEF AccountInv, ScanInv
<1>9. \A i \in scan'.lo + 1 .. scan'.hi : Covered(i)' => Got(i)'
  BY <1>1, <1>4, <1>5
<1>10. ScanInv'
  BY <1>1, <1>6, <1>7, <1>8, <1>9 DEF ScanInv, Active
<1> QED
  BY <1>10 DEF AccountInv

\* A flush finishes with its next source: it was done, is too short, or is done now.
Visited ==
    /\ stage' = "flush" /\ stage \in {"flush", "compile"} /\ todo # << >> /\ todo' = Tail(todo)
    /\ UNCHANGED <<table, stop, scan, scanner, last, unread, buffer>>
    /\ data.processed \subseteq data'.processed /\ short \subseteq short'
    /\ Head(todo) \in data'.processed \cup short' \cup {NoSource}

LEMMA VisitKeeps ==
    ASSUME AccountInv, TypesInv', Visited
    PROVE  AccountInv'
<1>0. Active /\ Active' /\ buffer \in Seq(RowNumbers)
  BY DEF Visited, Active, AccountInv, TypesInv, BufferTypes
<1>1. \A i : Got(i) => Got(i)'
  BY Zenon DEF Visited, Got
<1>2. /\ \A i : Covered(i)' <=> Covered(i)
      /\ \A i : NotRead(i)' <=> NotRead(i)
  BY Zenon DEF Visited, Covered, NotRead
<1>3. ASSUME NEW n \in DOMAIN buffer
      PROVE  Flushed(n)'
  <2>1. Rows[buffer[n]].src # NoSource
    <3>1. buffer[n] \in RowNumbers
      BY <1>0, ElementOfSeq, LenProperties
    <3> QED
      BY <3>1, RowType, MigrationAssumption
  <2>2. Flushed(n)
    BY <1>0, <1>3 DEF Visited, AccountInv, ScanInv
  <2>3. CASE \E m \in DOMAIN todo : todo[m] = Rows[buffer[n]].src
    <3>1. \/ Rows[buffer[n]].src = Head(todo)
          \/ \E m \in DOMAIN Tail(todo) : Tail(todo)[m] = Rows[buffer[n]].src
      BY <2>3, NextSource, Zenon DEF Visited, AccountInv
    <3> QED
      BY <2>1, <3>1 DEF Visited, Flushed
  <2>4. CASE ~ \E m \in DOMAIN todo : todo[m] = Rows[buffer[n]].src
    BY <2>2, <2>4 DEF Visited, Flushed
  <2> QED
    BY <2>3, <2>4
<1>4. Complete => Complete'
  BY <1>1, <1>2, Zenon DEF Complete, Visited
<1>5. /\ scan'.lo = table'.lo /\ scan'.hi <= table'.hi
      /\ scanner' => scan'.pos <= scan'.hi
      /\ ~ scanner' => scan'.from <= scan'.pos
      /\ last' => stop' \/ Complete'
  BY <1>0, <1>4 DEF AccountInv, ScanInv, Visited
<1>6. \A i \in scan'.lo + 1 .. scan'.hi : Covered(i)' => Got(i)'
  BY <1>0, <1>1, <1>2, Zenon DEF AccountInv, ScanInv, Visited
<1>7. \A n \in DOMAIN buffer' : Flushed(n)'
  BY <1>3 DEF Visited
<1>8. ScanInv'
  BY <1>0, <1>5, <1>6, <1>7 DEF ScanInv, Visited
<1> QED
  BY <1>8 DEF AccountInv

LEMMA FlushScan ==
    ASSUME AccountInv, TypesInv', FlushSource \/ SourceDone \/ FlushEnds
    PROVE  AccountInv'
<1>1. CASE FlushSource
  <2>1. stage = "flush" /\ todo # << >>
        /\ UNCHANGED <<table, stop, data, scan, scanner, last, unread, buffer>>
    BY <1>1, Zenon DEF FlushSource
  <2>2. CASE Head(todo) = NoSource \/ Head(todo) \in data.processed
    <3>1. todo' = Tail(todo) /\ UNCHANGED <<stage, short>>
      BY <1>1, <2>2, Zenon DEF FlushSource
    <3> QED
      BY <2>1, <2>2, <3>1, VisitKeeps DEF Visited
  <2>3. CASE Head(todo) # NoSource /\ Head(todo) \notin data.processed
    <3>1. CASE LongEnough(buffer, OfSource(Head(todo), buffer))
      <4>1. stage' = "compile" /\ UNCHANGED <<short, todo>>
        BY <1>1, <2>3, <3>1, Zenon DEF FlushSource
      <4>2. /\ \A i : Got(i)' <=> Got(i)
            /\ \A i : Covered(i)' <=> Covered(i)
            /\ \A i : NotRead(i)' <=> NotRead(i)
            /\ \A n : Flushed(n)' <=> Flushed(n)
        BY <2>1, <4>1, Zenon DEF Got, Covered, NotRead, Flushed
      <4>3. Complete' <=> Complete
        BY <2>1, <4>2, Zenon DEF Complete
      <4>4. Active /\ Active'
        BY <2>1, <4>1 DEF Active
      <4>5. \A i \in scan'.lo + 1 .. scan'.hi : Covered(i)' => Got(i)'
        BY <2>1, <4>2, <4>4, Zenon DEF AccountInv, ScanInv
      <4>6. \A n \in DOMAIN buffer' : Flushed(n)'
        BY <2>1, <4>2, <4>4 DEF AccountInv, ScanInv
      <4>7. ScanInv'
        BY <2>1, <4>1, <4>3, <4>4, <4>5, <4>6 DEF AccountInv, ScanInv
      <4> QED
        BY <4>7 DEF AccountInv
    <3>2. CASE ~ LongEnough(buffer, OfSource(Head(todo), buffer))
      <4>1. todo' = Tail(todo) /\ UNCHANGED stage /\ short' = short \cup {Head(todo)}
        BY <1>1, <2>3, <3>2, Zenon DEF FlushSource
      <4> QED
        BY <2>1, <4>1, VisitKeeps DEF Visited
    <3> QED
      BY <3>1, <3>2
  <2> QED
    BY <2>2, <2>3
<1>2. CASE SourceDone
  <2>1. /\ stage = "compile" /\ stage' = "flush" /\ todo' = Tail(todo)
        /\ data' = [data EXCEPT !.processed = @ \cup {Head(todo)}]
        /\ UNCHANGED <<table, stop, scan, scanner, last, unread, buffer, short>>
    BY <1>2, Zenon DEF SourceDone
  <2>2. todo # << >> /\ Head(todo) \in Sources
    BY <2>1 DEF AccountInv, TypesInv, BufferTypes
  <2>3. data'.processed = data.processed \cup {Head(todo)}
    BY <2>1, <2>2, DataUpdates DEF AccountInv, TypesInv, RecordTypes
  <2> QED
    BY <2>1, <2>2, <2>3, VisitKeeps DEF Visited
<1>3. CASE FlushEnds
  <2>1. /\ stage = "flush" /\ todo = << >> /\ buffer' = << >>
        /\ stage' = IF last THEN "meta" ELSE "save"
        /\ UNCHANGED <<table, stop, data, scan, scanner, last, unread, short>>
    BY <1>3 DEF FlushEnds
  <2>2. Active /\ Active' /\ last \in BOOLEAN
    BY <2>1 DEF Active, AccountInv, TypesInv, RecordTypes
  <2>3. ASSUME NEW i, Got(i)
        PROVE  Got(i)'
    <3>1. CASE \E n \in DOMAIN buffer : buffer[n] = i
      <4>1. PICK n \in DOMAIN buffer : buffer[n] = i
        BY <3>1
      <4>2. Flushed(n)
        BY <2>1, <2>2 DEF AccountInv, ScanInv
      <4>3. ~ \E m \in DOMAIN todo : todo[m] = Rows[buffer[n]].src
        BY <2>1
      <4> QED
        BY <2>1, <4>1, <4>2, <4>3, Zenon DEF Flushed, Got
    <3>2. CASE ~ \E n \in DOMAIN buffer : buffer[n] = i
      BY <2>1, <2>3, <3>2, Zenon DEF Got
    <3> QED
      BY <3>1, <3>2
  <2>4. /\ \A i : Covered(i)' <=> Covered(i)
        /\ \A i : NotRead(i)' <=> NotRead(i)
    BY <2>1, Zenon DEF Covered, NotRead
  <2>5. Complete => Complete'
    BY <2>1, <2>3, <2>4, Zenon DEF Complete
  <2>6. \A i \in scan'.lo + 1 .. scan'.hi : Covered(i)' => Got(i)'
    BY <2>1, <2>2, <2>3, <2>4, Zenon DEF AccountInv, ScanInv
  <2>7. ScanInv'
    BY <2>1, <2>2, <2>5, <2>6 DEF AccountInv, ScanInv
  <2> QED
    BY <2>7 DEF AccountInv
<1> QED
  BY <1>1, <1>2, <1>3

LEMMA InitAccount == InitMigration => AccountInv
<1> SUFFICES ASSUME InitMigration PROVE AccountInv
  OBVIOUS
<1>1. ~ Active /\ ~ last
  BY DEF InitMigration, Active
<1> QED
  BY <1>1, InitTypes DEF AccountInv, ScanInv

LEMMA NextAccount ==
    AccountInv /\ TypesInv' /\ [NextMigration]_migrationVars => AccountInv'
<1> SUFFICES ASSUME AccountInv, TypesInv', [NextMigration]_migrationVars
             PROVE  AccountInv'
  OBVIOUS
<1>1. CASE FallbackStopRaises \/ ScannerRaises \/ CleanupTable \/ Crash
  BY <1>1, GoneScan DEF FallbackStopRaises, ScannerRaises, CleanupTable, Crash
<1>2. CASE ReportResult
  <2>1. CASE WorkerGone
    BY <2>1, GoneScan
  <2>2. CASE ~ stop /\ stage' = "cleanup" /\ UNCHANGED workerVars
    <3>1. table.hi \in Nat
      BY RowsCount DEF AccountInv, TypesInv, RecordTypes
    <3> QED
      BY <1>2, <2>2, <3>1, IdleKeepsScan DEF ReportResult, Idle, workerVars
  <2> QED
    BY <1>2, <2>1, <2>2, Zenon DEF ReportResult
<1>3. CASE CompileClicked
  BY <1>3, GoneScan
<1>4. CASE \/ IndexRow \/ StopClicked \/ OthersStore \/ StoreCall \/ SaveProgress
           \/ StoreMeta \/ FinishMigration \/ UNCHANGED migrationVars
  BY <1>4, IdleSteps
<1>5. CASE StartMigration
  BY <1>5, StartScan
<1>6. CASE ReadBatch \/ ReadFirstBatch
  BY <1>6, ReadScan
<1>7. CASE ScanEnds
  BY <1>7, ScanEndsScan
<1>8. CASE FlushSource \/ SourceDone \/ FlushEnds
  BY <1>8, FlushScan
<1> QED
  BY <1>1, <1>2, <1>3, <1>4, <1>5, <1>6, <1>7, <1>8, Zenon DEF NextMigration, Worker

\* Together: the types, what the file and the marks say of each other, and what became
\* of the rows.
MigrationInv == StoredInv /\ AccountInv

\* The invariant holds however often the migration is stopped, dies, tears a block, loses
\* its progress and starts again, while other processes append to its file.
THEOREM MigrationInvariance == SpecMigration => []MigrationInv
<1>1. InitMigration => MigrationInv
  BY InitStored, InitAccount DEF MigrationInv
<1>2. MigrationInv /\ [NextMigration]_migrationVars => MigrationInv'
  BY NextStored, NextAccount DEF MigrationInv, StoredInv
<1> QED
  BY <1>1, <1>2, PTL DEF SpecMigration

\* The variables of the migration keep their types.
THEOREM MigrationTyped == SpecMigration => []MigrationTypes
<1>1. MigrationInv => MigrationTypes
  BY DEF MigrationInv, StoredInv, TypesInv, RecordTypes, FileTypes, BufferTypes, MigrationTypes
<1> QED
  BY <1>1, MigrationInvariance, PTL

\* No key an open can find is stored once more.
THEOREM NoKeyTwice == SpecMigration => []OneBlockPerKey
<1>1. MigrationInv => OneBlockPerKey
  BY DEF MigrationInv, StoredInv, StoreInv
<1> QED
  BY <1>1, MigrationInvariance, PTL

\* What the progress file lists is in the store, with the facts and events of its text,
\* where the next open finds it unless a torn block comes first.
THEOREM ListedIsStored == SpecMigration => []DoneIsInStore
<1>1. ASSUME MigrationInv, NEW k \in Keys, Taken(k)
      PROVE  Stored(k) \/ TornListed(k)
  <2>0. store \in Seq(Segment) /\ Aligned(store)
    BY <1>1 DEF MigrationInv, StoredInv, StoreInv, TypesInv, FileTypes
  <2>1. CASE InStore(k)
    <3>1. PICK o \in Nat : WholeAt(store, o, k)
      BY <2>1 DEF InStore
    <3>2. /\ o \in 0 .. Len(store)
          /\ (\A x \in Tears(store) : o < x) => [off |-> o, key |-> k] \in Rebuild(store)
      BY <2>0, <3>1, WholeIsListed
    <3> QED
      BY <3>1, <3>2, Zenon DEF Stored, NoTearBefore
  <2> QED
    BY <1>1, <2>1 DEF Taken
<1>2. MigrationInv => DoneIsInStore
  <2> SUFFICES ASSUME MigrationInv, NEW s \in saved.processed \ failed,
                      NEW k \in {s} \cup owed[s]
               PROVE  Stored(k) \/ TornListed(k)
    BY Zenon DEF DoneIsInStore
  <2>1. Taken(k)
    BY Zenon DEF MigrationInv, StoredInv, DoneInv, Done
  <2>2. k \in Keys
    <3>1. /\ saved.processed \subseteq Sources
          /\ owed \in [Sources -> SUBSET DerivedKeys]
      BY DEF MigrationInv, StoredInv, TypesInv, RecordTypes, BufferTypes, Data
    <3> QED
      BY <3>1, MigrationAssumption
  <2> QED
    BY <1>1, <2>1, <2>2
<1> QED
  BY <1>2, MigrationInvariance, PTL

\* A row of a deleted table was compiled, or is one of those the property names.
THEOREM DeletedIsAccounted == SpecMigration => []DeletedRowsAccounted
<1>1. MigrationInv => DeletedRowsAccounted
  <2> SUFFICES ASSUME MigrationInv, stage = "cleanup", NEW i \in table.lo + 1 .. table.hi
               PROVE  Accounted(i)
    BY Zenon DEF DeletedRowsAccounted
  <2>1. /\ scan.lo = table.lo /\ buffer = << >> /\ Complete
        /\ scan.hi \in Nat /\ table.lo \in Nat /\ table.hi \in Nat
    BY RowsCount DEF MigrationInv, AccountInv, ScanInv, Active, TypesInv, RecordTypes
  <2>2. CASE i > scan.hi
    BY <2>2 DEF Accounted
  <2>3. CASE ~ (i > scan.hi)
    <3>1. i \in scan.lo + 1 .. scan.hi
      BY <2>1, <2>3
    <3>2. Got(i) \/ NotRead(i)
      BY <2>1, <3>1 DEF Complete
    <3> QED
      BY <2>1, <3>2 DEF Got, NotRead, Accounted
  <2> QED
    BY <2>2, <2>3
<1> QED
  BY <1>1, MigrationInvariance, PTL

=============================================================================
