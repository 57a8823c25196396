---------------------------- MODULE MCChatServer ----------------------------
(* Instances of ChatServer for TLC. *)
EXTENDS ChatServer, TLC

CONSTANTS r1, r2, r3, qa, qb, qc, long, odd, spelt

\* Three questions to answer, one of 2001 characters, one of special characters, one
\* that spells a blocked word with hyphens.
Texts ==
    [q \in {qa, qb, qc, long, odd, spelt} |->
        [length |-> IF q = long THEN 2001 ELSE IF q = qa THEN 20 ELSE 100,
         special |-> IF q = odd THEN 36 ELSE IF q = qb THEN 35 ELSE 10,
         blocked |-> IF q = spelt THEN {"normalized", "compact"} ELSE {}]]

\* The second is similar to the first and to the third, these two are not.
Similar ==
    [q \in {qa, qb, qc, long, odd, spelt} |->
        IF q = qb THEN {qa, qc} ELSE IF q \in {qa, qc} THEN {qb} ELSE {}]

\* What each request may ask: a question that was asked before or the next one.
AskedInOrder ==
    [r \in {r1, r2, r3} |->
        IF r = r1 THEN {qa, long} ELSE IF r = r2 THEN {qa, qb, odd} ELSE {qa, qb, qc, spelt}]
=============================================================================
