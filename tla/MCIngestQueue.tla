---------------------------- MODULE MCIngestQueue ----------------------------
(* The import queue with small sets, for TLC.                              *)
EXTENDS IngestQueue
==============================================================================
