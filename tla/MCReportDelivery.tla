-------------------------- MODULE MCReportDelivery --------------------------
(* Small instances of ReportDelivery for TLC. *)
EXTENDS ReportDelivery
=============================================================================
