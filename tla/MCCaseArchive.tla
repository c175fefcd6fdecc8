--------------------------- MODULE MCCaseArchive ---------------------------
(* Instances of CaseArchive for TLC. *)
EXTENDS CaseArchive

CONSTANTS c1, a1, a2
=============================================================================
