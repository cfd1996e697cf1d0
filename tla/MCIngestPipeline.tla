--------------------------- MODULE MCIngestPipeline ---------------------------
(* Link A with small sets, for TLC.                                        *)
EXTENDS IngestPipeline, TLC

(* Owner ids only tell workers apart; the runs check no liveness.          *)
Interchangeable == Permutations(Owners)
==============================================================================
