-------------------------- MODULE MCTaskCheckpoint --------------------------
(* Small instances of TaskCheckpoint for TLC. *)
EXTENDS TaskCheckpoint
=============================================================================
