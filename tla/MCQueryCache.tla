---------------------------- MODULE MCQueryCache ----------------------------
(* Instances of QueryCache for TLC. *)
EXTENDS QueryCache, TLC

CONSTANTS qa, qb, qc, r1, t1, t2

\* qa and qb are similar, and qb a little to qc; only the first passes as similar
\* enough, and qc is closer to qb than to qa.
Closeness ==
    [p \in Queries |-> [q \in Queries |->
        IF p = q THEN 9
        ELSE IF {p, q} = {qa, qb} THEN 6
        ELSE IF {p, q} = {qb, qc} THEN 5 ELSE 1]]

\* Threads are interchangeable, queries are not.
Symmetry == Permutations({t1, t2})
=============================================================================
