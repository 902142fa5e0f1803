---------------------------- MODULE MCReportSync ----------------------------
(***************************************************************************)
(* Small instances of ReportSync for TLC.                                  *)
(***************************************************************************)
EXTENDS ReportSync

CONSTANTS v1, v2

MCVaults == {v1, v2}
=============================================================================
