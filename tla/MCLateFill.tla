----------------------------- MODULE MCLateFill -----------------------------
(***************************************************************************)
(* LateFill for TLC: two branches that the first answer owes, independent  *)
(* or the second needing the first, or one branch of the first answer and  *)
(* one that only a successor frame reopens.                                *)
(***************************************************************************)
EXTENDS LateFill, TLC

CONSTANTS b1, b2

TwoBranches == {b1, b2}
OnlyFirst == {b1}
OnlySecond == {b2}
Nothing == {}

SecondNeedsFirst == [b \in {b1, b2} |-> IF b = b2 THEN {b1} ELSE {}]
Independent == [b \in {b1, b2} |-> {}]

Symmetry == Permutations(Workers) \cup Permutations(Controls) \cup Permutations(Retries)
=============================================================================
