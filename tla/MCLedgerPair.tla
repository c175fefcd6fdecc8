--------------------------- MODULE MCLedgerPair ---------------------------
(* Instances of LedgerPair for TLC. *)
EXTENDS LedgerPair, TLC

CONSTANTS p1, p2, r1, m1, m2, edit

\* A hand-edited document: one change no command made.
MCForeignDoc == <<edit>>

MCSymmetry == Permutations({p1, p2}) \cup Permutations({m1, m2})
============================================================================
