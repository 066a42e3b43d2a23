---------------------------- MODULE MCFrameLedger ----------------------------
(***************************************************************************)
(* FrameLedger for TLC: what is interchangeable.                           *)
(***************************************************************************)
EXTENDS FrameLedger, TLC

Symmetry == Permutations(Writers) \cup Permutations(Responses) \cup Permutations(Bodies)
=============================================================================
