-------------------------- MODULE MCLedgerCompaction --------------------------
(* LedgerCompaction for TLC. *)
EXTENDS LedgerCompaction, TLC

Symmetry == Permutations(Responses) \cup Permutations(Previews)
=============================================================================
