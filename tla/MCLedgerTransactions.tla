----------------------- MODULE MCLedgerTransactions -----------------------
(* Instances of LedgerTransactions for TLC. *)
EXTENDS LedgerTransactions, TLC

CONSTANTS c1, v1, o1, b1, b2

Symmetry == Permutations({b1, b2})
============================================================================
