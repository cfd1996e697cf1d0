--------------------------- MODULE MCIncidentStore ---------------------------
(* The incident store with small sets, for TLC.                            *)
EXTENDS IncidentStore
==============================================================================
