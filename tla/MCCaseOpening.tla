--------------------------- MODULE MCCaseOpening ---------------------------
(* Instances of CaseOpening for TLC. *)
EXTENDS CaseOpening

CONSTANTS s1, s2, p1, p2
============================================================================
