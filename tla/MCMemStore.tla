------------------------------ MODULE MCMemStore ------------------------------
(* The in-memory store with small sets, for TLC.                           *)
EXTENDS MemStore
==============================================================================
