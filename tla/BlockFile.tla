----------------------------- MODULE BlockFile ------------------------------
(***************************************************************************)
(* The format of the append-only file of rag_core/nvme_blocks.py, and what *)
(* _rebuild_index and read() make of its bytes.                            *)
(*                                                                         *)
(* A block is always exactly BLOCK_ALIGN bytes (store() refuses a payload  *)
(* above MAX_BLOCK_PAYLOAD and pads the rest), so the file is a sequence   *)
(* of segments and a block is three of them: header, payload, padding.     *)
(* An append torn inside a segment is counted with the boundary before it, *)
(* inside the header with the one after it: either way the magic stays and *)
(* later blocks are off the grid.                                          *)
(***************************************************************************)
EXTENDS Naturals, Sequences, FiniteSets

CONSTANTS
    Keys,         \* the keys handed to store()
    TornSizes     \* how many segments of a failing append can reach the file

BLOCK_ALIGN == 3
HEADER_SIZE == 1

ASSUME BlockAssumption ==
    /\ Keys # {}
    /\ TornSizes \subseteq 0 .. BLOCK_ALIGN - 1
    /\ 0 \in TornSizes

Segment == [part : {"header", "payload", "padding"}, key : Keys]
Entry   == [off : Nat, key : Keys]

-----------------------------------------------------------------------------
(* What the bytes of the file mean *)

Seg(p, k) == [part |-> p, key |-> k]

\* _make_header, the payload and the padding to BLOCK_ALIGN.
Block(k) == <<Seg("header", k), Seg("payload", k), Seg("padding", k)>>

\* A header starts at byte offset o.
HeaderAt(f, o) == o + HEADER_SIZE <= Len(f) /\ f[o + 1].part = "header"

Rebuild_SkipsLast(f) ==
    { [off |-> o, key |-> f[o + 1].key] :
        o \in { n \in 0 .. Len(f) : n % BLOCK_ALIGN = 0 /\ n + BLOCK_ALIGN < Len(f) /\ HeaderAt(f, n) } }

\* _rebuild_index: look for a header at every multiple of BLOCK_ALIGN. A block
\* is never longer, so a hit and a bad magic both advance by BLOCK_ALIGN. The
\* payload is not looked at: a torn block with its header is listed.
Rebuild(f) ==
    { [off |-> o, key |-> f[o + 1].key] :
        o \in { n \in 0 .. Len(f) : n % BLOCK_ALIGN = 0 /\ HeaderAt(f, n) } }

\* read(): the bytes behind an offset are the block of key k. Anything else is
\* None: no magic, an end beyond the file, or a payload zstd cannot decompress.
Readable(f, o, k) ==
    /\ o + HEADER_SIZE + 1 <= Len(f)
    /\ f[o + 1] = Seg("header", k)
    /\ f[o + 2] = Seg("payload", k)

\* A whole block of key k, padding included.
WholeAt(f, o, k) ==
    /\ o + BLOCK_ALIGN <= Len(f)
    /\ \A i \in 1 .. BLOCK_ALIGN : f[o + i] = Block(k)[i]

\* Offsets of headers that are not followed by the rest of their block.
Tears(f) ==
    { o \in 0 .. Len(f) : HeaderAt(f, o) /\ ~ WholeAt(f, o, f[o + 1].key) }

=============================================================================
