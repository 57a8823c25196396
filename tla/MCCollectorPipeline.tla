-------------------------- MODULE MCCollectorPipeline --------------------------
(* Instances of CollectorPipeline for TLC.                                 *)
EXTENDS CollectorPipeline
================================================================================
