---------------------------- MODULE MCCourtTask ----------------------------
(* Instances of CourtTask for TLC. *)
EXTENDS CourtTask
=============================================================================
