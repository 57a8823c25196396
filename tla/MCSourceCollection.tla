-------------------------- MODULE MCSourceCollection --------------------------
(* An instance of SourceCollection for TLC. *)
EXTENDS SourceCollection

CONSTANTS a, b, gutenberg

How == [d \in {gutenberg} |-> "sync"]

\* a is the seed; a and b link to each other.
Seeds    == <<a>>
AllLinks == [t \in {a, b} |-> IF t = a THEN <<b>> ELSE <<a>>]
===============================================================================
