---------------------------- MODULE MCChatWindow ----------------------------
(* Instances of ChatWindow for TLC. *)
EXTENDS ChatWindow, TLC

CONSTANTS ta, tb

\* ta is the table of the settings, tb one the user may choose.
JustA == <<ta>>
=============================================================================
