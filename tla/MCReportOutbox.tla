-------------------------- MODULE MCReportOutbox --------------------------
(* TLC instances of ReportOutbox. *)
EXTENDS ReportOutbox
CONSTANTS r1, r2, r3
===========================================================================
