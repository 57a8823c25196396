---------------------------- MODULE MCAnswerFlow ----------------------------
(* Instances of AnswerFlow for TLC. *)
EXTENDS AnswerFlow, TLC

CONSTANTS c1, c2, qa, qb, da, db, t, u

\* Similar questions about different articles. The term t leads to the article of qa
\* in English only; that of qb is suggested for its terms.
About == [q \in {qa, qb} |-> IF q = qa THEN {da} ELSE {db}]
TermsIn == [q \in {qa, qb} |-> IF q = qa THEN <<t>> ELSE <<t, u>>]
Lists == {<<t>>, <<t, u>>}
English == <<t>> :> da
German == <<u, t>> :> db
BothWikis == [l \in {"de", "en"} |-> IF l = "de" THEN German ELSE English]
Suggestions == [l \in {"de", "en"} |-> <<t, u>> :> (IF l = "de" THEN <<<<u, t>>>> ELSE << >>)]

Close == [p \in {qa, qb} |-> [q \in {qa, qb} |-> IF p = q THEN 9 ELSE 6]]

\* Callers are interchangeable.
Symmetry == Permutations({c1, c2})
=============================================================================
