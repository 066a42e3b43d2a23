-------------------------- MODULE MCPreviewPackages --------------------------
(***************************************************************************)
(* PreviewPackages for TLC: a table for two packages or four units of      *)
(* bytes, and three packages of which the last is large.                   *)
(***************************************************************************)
EXTENDS PreviewPackages

CONSTANTS p1, p2, p3

OneLarge == [p \in Packages |-> IF p = p3 THEN 4 ELSE 1]
=============================================================================
