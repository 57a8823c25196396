----------------------------- MODULE NVMeReaders -----------------------------
(***************************************************************************)
(* The machine core (rag_core/machine_core.py) reads the block file while  *)
(* NVMeBlockStore writes it: the threads of a server share one read-only   *)
(* store object and in it one mapping of the file, which read() replaces   *)
(* whenever the file has grown. No lock guards them.                       *)
(*                                                                         *)
(* A step is what read() does up to the next access to an attribute the    *)
(* threads share or to the file; the interpreter may switch threads there. *)
(* The object's index is that of the moment it was created: appends do not *)
(* reach it. That two threads may create the object, of which the last one *)
(* stays, is left out: main() asks for it before there are threads.        *)
(***************************************************************************)
EXTENDS NVMeBlockStore, Integers

CONSTANT Readers  \* threads of the server

VARIABLES
    seen,     \* the index of the shared object; empty until there is one
    map,      \* its _mmap: NoMap, Closed, or how much of the file it maps
    mapSize,  \* its _mmap_size
    rpc,      \* where each reader stands
    want,     \* the offset and key it reads
    size,     \* its local `size`, from stat()
    fresh,    \* the length of the mapping it has just made
    lone      \* history: no other reader has been in read() since it entered

readVars == <<seen, map, mapSize, rpc, want, size, fresh, lone>>
allVars == <<vars, readVars>>

NoMap  == -1
Closed == 0

\* Not in read(): nothing read yet counts as "lost".
Outside == {"found", "lost"}

Nowhere == [off |-> 0, key |-> CHOOSE k \in Keys : TRUE]

-----------------------------------------------------------------------------

ReadInit ==
    /\ Init
    /\ seen = {}
    /\ map = NoMap
    /\ mapSize = 0
    /\ rpc = [r \in Readers |-> "lost"]
    /\ want = [r \in Readers |-> Nowhere]
    /\ size = [r \in Readers |-> 0]
    /\ fresh = [r \in Readers |-> 0]
    /\ lone = [r \in Readers |-> FALSE]

Goto(r, place) == rpc' = [rpc EXCEPT ![r] = place]

\* read() returns a block ("found") or None ("lost"); it catches every exception.
Return(r, outcome) ==
    /\ Goto(r, outcome)
    /\ want' = [want EXCEPT ![r] = Nowhere]
    /\ size' = [size EXCEPT ![r] = 0]
    /\ fresh' = [fresh EXCEPT ![r] = 0]
    /\ lone' = [lone EXCEPT ![r] = FALSE]

\* get_machine_core: an object whose scan finds no block is thrown away, and the next
\* request creates another.
Create ==
    /\ seen = {}
    /\ seen' = Rebuild(file)
    /\ UNCHANGED <<vars, map, mapSize, rpc, want, size, fresh, lone>>

\* What a query goes through: read_by_key the list of one key; read_by_type,
\* read_by_year and search_text lists that may hold any block the object's index holds.
Lists == {{e \in seen : e.key = k} : k \in Keys} \cup {seen}

Query_NewestIndex(r, e) ==
    /\ rpc[r] \in Outside
    /\ seen # {} /\ e \in Rebuild(file)
    /\ want' = [want EXCEPT ![r] = e]
    /\ size' = [size EXCEPT ![r] = Len(file)]
    /\ Goto(r, "compare")
    /\ lone' = [q \in Readers |-> IF q = r THEN \A p \in Readers \ {r} : rpc[p] \in Outside
                                           ELSE FALSE]
    /\ UNCHANGED <<vars, seen, map, mapSize, fresh>>

\* process() and its queries by year, term and key call read() for one listed offset
\* after the other. Its first step is size = path.stat().st_size. (A listed block
\* means that the file is not empty.)
Query(r, e) ==
    /\ rpc[r] \in Outside
    /\ \E listed \in Lists : e \in listed
    /\ want' = [want EXCEPT ![r] = e]
    /\ size' = [size EXCEPT ![r] = Len(file)]
    /\ Goto(r, "compare")
    /\ lone' = [q \in Readers |-> IF q = r THEN \A p \in Readers \ {r} : rpc[p] \in Outside
                                           ELSE FALSE]
    /\ UNCHANGED <<vars, seen, map, mapSize, fresh>>

-----------------------------------------------------------------------------
(* _open_mmap *)

\* A mapping of that size is kept. The truth value of a closed one raises.
Compare(r) ==
    /\ rpc[r] = "compare"
    /\ IF map = Closed
         THEN Return(r, "lost")
         ELSE /\ Goto(r, IF map # NoMap /\ mapSize = size[r] THEN "header" ELSE "close")
              /\ UNCHANGED <<want, size, fresh, lone>>
    /\ UNCHANGED <<vars, seen, map, mapSize>>

\* _close_mmap: `if self._mmap: self._mmap.close()'
CloseMap(r) ==
    /\ rpc[r] = "close"
    /\ \/ map = Closed /\ Return(r, "lost") /\ UNCHANGED map
       \/ map = NoMap /\ Goto(r, "zero") /\ UNCHANGED <<map, want, size, fresh, lone>>
       \/ /\ map \notin {Closed, NoMap}
          /\ map' = Closed
          /\ Goto(r, "none")
          /\ UNCHANGED <<want, size, fresh, lone>>
    /\ UNCHANGED <<vars, seen, mapSize>>

\* self._mmap = None
DropMap(r) ==
    /\ rpc[r] = "none"
    /\ map' = NoMap
    /\ Goto(r, "zero")
    /\ UNCHANGED <<vars, seen, mapSize, want, size, fresh, lone>>

\* self._mmap_size = 0
ZeroSize(r) ==
    /\ rpc[r] = "zero"
    /\ mapSize' = 0
    /\ Goto(r, "mmap")
    /\ UNCHANGED <<vars, seen, map, want, size, fresh, lone>>

\* mmap.mmap(fd, 0) maps the file as long as it is now.
MapFile(r) ==
    /\ rpc[r] = "mmap"
    /\ fresh' = [fresh EXCEPT ![r] = Len(file)]
    /\ Goto(r, "assign")
    /\ UNCHANGED <<vars, seen, map, mapSize, want, size, lone>>

\* self._mmap = the mapping, over whatever another thread has put there
AssignMap(r) ==
    /\ rpc[r] = "assign"
    /\ map' = fresh[r]
    /\ fresh' = [fresh EXCEPT ![r] = 0]
    /\ Goto(r, "length")
    /\ UNCHANGED <<vars, seen, mapSize, want, size, lone>>

\* self._mmap_size = size
AssignSize(r) ==
    /\ rpc[r] = "length"
    /\ mapSize' = size[r]
    /\ size' = [size EXCEPT ![r] = 0]
    /\ Goto(r, "header")
    /\ UNCHANGED <<vars, seen, map, want, fresh, lone>>

-----------------------------------------------------------------------------
(* read() *)

\* Segment n can be read: _mmap_size says so, the mapping is open and that long.
Mapped(n) == n <= mapSize /\ n <= map

\* raw_hdr = self._mmap[offset : offset + HEADER_SIZE], and its magic
ReadHeader(r) ==
    /\ rpc[r] = "header"
    /\ LET n == want[r].off + HEADER_SIZE IN
         IF Mapped(n) /\ file[n].part = "header"
           THEN /\ Goto(r, "payload")
                /\ size' = [size EXCEPT ![r] = 0]
                /\ UNCHANGED <<want, fresh, lone>>
           ELSE Return(r, "lost")
    /\ UNCHANGED <<vars, seen, map, mapSize>>

ReadPayload_Unchecked(r) ==
    /\ rpc[r] = "payload"
    /\ LET n == want[r].off + HEADER_SIZE + 1 IN
         Return(r, IF Mapped(n) THEN "found" ELSE "lost")
    /\ UNCHANGED <<vars, seen, map, mapSize>>

\* compressed = self._mmap[payload_start : payload_end], which zstd checks: too short
\* a slice and anything but the payload of the header's block raise.
ReadPayload(r) ==
    /\ rpc[r] = "payload"
    /\ LET n == want[r].off + HEADER_SIZE + 1 IN
         Return(r, IF Mapped(n) /\ file[n] = Seg("payload", file[n - 1].key)
                     THEN "found" ELSE "lost")
    /\ UNCHANGED <<vars, seen, map, mapSize>>

-----------------------------------------------------------------------------

Read(r) ==
    \/ Compare(r) \/ CloseMap(r) \/ DropMap(r) \/ ZeroSize(r)
    \/ MapFile(r) \/ AssignMap(r) \/ AssignSize(r) \/ ReadHeader(r) \/ ReadPayload(r)

ReadNext ==
    \/ Next /\ UNCHANGED readVars
    \/ Create
    \/ \E r \in Readers : Read(r) \/ \E e \in Rebuild(file) : Query(r, e)

ReadSpec == ReadInit /\ [][ReadNext]_allVars

-----------------------------------------------------------------------------
(* Properties *)

\* Reader r leaves read() with this outcome.
Returns(r, outcome) == rpc[r] \notin Outside /\ rpc'[r] = outcome

\* A read that no other overlaps finds the block, unless it is torn: whatever mapping
\* and size racing readers and the writer have left in the object, closed in between
\* or shorter than _mmap_size says, it serves every block of the object's index or is
\* replaced. (A block appended later may stay out of reach; the index hides it.)
LoneReadsSucceed ==
    [][\A r \in Readers : Returns(r, "lost") /\ lone[r]
                            => ~ Readable(file, want[r].off, want[r].key)]_allVars

\* What read() returns is the block of the key the index lists there, through
\* whichever mapping header and payload were read.
ReadsAreTheirBlocks ==
    [][\A r \in Readers : Returns(r, "found")
                            => Readable(file, want[r].off, want[r].key)]_allVars
=============================================================================
