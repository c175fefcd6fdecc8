--------------------------- MODULE MCDomainLedger ---------------------------
(* Instances of DomainLedger for TLC. *)
EXTENDS DomainLedger

CONSTANTS k1, k2, t1, t2, p1, p2

TwoAndOne == {<<k1, t1>>, <<k1, t2>>, <<k2, t1>>}

Symmetry == Permutations(Writers)
=============================================================================
