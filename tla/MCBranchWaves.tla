---------------------------- MODULE MCBranchWaves ----------------------------
(***************************************************************************)
(* BranchWaves for TLC: a wave of three image branches that share two      *)
(* instances and a wave of one local repair branch.                        *)
(***************************************************************************)
EXTENDS BranchWaves

CONSTANTS b1, b2, b3, b4, i1, i2

RepairLast == [b \in Branches |-> IF b = b4 THEN 2 ELSE 1]
Numbered == [b \in Branches |-> CASE b = b1 -> 1 [] b = b2 -> 2 [] b = b3 -> 3 [] b = b4 -> 4]
OnlyRepair == {b4}
BothInstances == [b \in Branches |-> IF b = b4 THEN {} ELSE {i1, i2}]
TwoGroups == [b \in Branches |-> IF b = b4 THEN "chat" ELSE "image"]
NoneBarred == [b \in Branches |-> {}]
Nothing == {}
=============================================================================
