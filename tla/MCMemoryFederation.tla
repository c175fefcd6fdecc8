------------------------- MODULE MCMemoryFederation -------------------------
(* Instances of MemoryFederation for TLC. *)
EXTENDS MemoryFederation

CONSTANTS m1, m2, p1, p2, t1, t2
=============================================================================
