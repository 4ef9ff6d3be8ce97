------------------------------ MODULE MCPipeline ------------------------------
(* Instances of WritePipeline for TLC: two users of one phone take turns. *)
EXTENDS WritePipeline
===============================================================================
