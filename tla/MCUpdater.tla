----------------------------- MODULE MCUpdater -----------------------------
(* Instances of Updater for TLC. *)
EXTENDS Updater, TLC

CONSTANTS core, gui, version
Symmetric == Permutations({core, gui})
=============================================================================
