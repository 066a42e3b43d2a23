-------------------------- MODULE MCResponseStreams --------------------------
(***************************************************************************)
(* ResponseStreams for TLC, on the waves of MCBranchWaves.                 *)
(***************************************************************************)
EXTENDS ResponseStreams, MCBranchWaves
=============================================================================
