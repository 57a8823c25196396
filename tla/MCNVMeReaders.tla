---------------------------- MODULE MCNVMeReaders ----------------------------
(* Instances of NVMeReaders for TLC. *)
EXTENDS NVMeReaders, TLC

CONSTANTS k1, k2, w1, w2, t1, t2, t3, r1, r2

\* Two writing processes, the first with two threads.
TwoWriters == [t \in {t1, t2, t3} |-> IF t = t3 THEN w2 ELSE w1]

\* The threads of the first writer are interchangeable, and those of the server.
Symmetry == Permutations({t1, t2}) \cup Permutations({r1, r2})

\* A bound: as long as no server reads, every writer does what it likes; once one does,
\* one thread of one process stores at a time. (A read sees of the writers no more than
\* that the file has grown.)
WritersThenReaders ==
    \/ seen = {}
    \/ /\ w2 \notin opened /\ overtaken = {}
       /\ Cardinality({t \in Threads : pc[t] # "idle"}) <= 1
=============================================================================
