------------------------ MODULE MCKnowledgeMigration ------------------------
(* Instances of KnowledgeMigration for TLC. *)
EXTENDS KnowledgeMigration

CONSTANTS sA, sB, fact, event

Fact == [kind |-> "fact", pattern |-> 1, key |-> fact, passes |-> TRUE, start |-> fact]
Event == [kind |-> "event", pattern |-> 2, key |-> event, passes |-> TRUE, start |-> event]
Lifespan == [Event EXCEPT !.passes = FALSE]

\* Two rows of sA around one of sB, so that a batch border splits sA; the last row
\* is indexed later, also while a migration runs. The two articles yield the same
\* fact, and sA says the event twice.
MixedRows ==
    <<[src |-> sA, len |-> 2, says |-> <<Lifespan, Fact>>],
      [src |-> sB, len |-> 2, says |-> <<Fact, Fact>>],
      [src |-> sA, len |-> 1, says |-> <<[Event EXCEPT !.pattern = 1], Event>>]>>
=============================================================================
