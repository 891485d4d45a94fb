--------------------------- MODULE MCFactVersions ---------------------------
(* Small instances of FactVersions for TLC. *)
EXTENDS FactVersions
=============================================================================
