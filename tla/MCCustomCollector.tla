-------------------------- MODULE MCCustomCollector --------------------------
(* An instance of CustomCollector for TLC. *)
EXTENDS CustomCollector

CONSTANTS old, new, other, readme, note

\* Two documents under one name, one of them in a folder, and a third.
Names3 == [d \in {old, new, other} |-> IF d = other THEN note ELSE readme]
===============================================================================
