------------------------- MODULE MCEmbeddingBatcher -------------------------
(* Instances of EmbeddingBatcher for TLC. *)
EXTENDS EmbeddingBatcher

CONSTANTS a, b, c, d, e

\* One list that overfills a batch of two, one that does not.
TwoLists == {<<c, d, e>>, <<e>>}
=============================================================================
