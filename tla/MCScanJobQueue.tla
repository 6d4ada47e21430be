--------------------------- MODULE MCScanJobQueue ---------------------------
(* ScanJobQueue for TLC.                                                   *)
EXTENDS ScanJobQueue, TLC
=============================================================================
