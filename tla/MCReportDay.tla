---------------------------- MODULE MCReportDay ----------------------------
(* Small instances of ReportDay for TLC. *)
EXTENDS ReportDay
=============================================================================
