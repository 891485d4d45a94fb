--------------------------- MODULE MCIngestionRun ---------------------------
(* Small instances of IngestionRun for TLC. *)
EXTENDS IngestionRun
=============================================================================
