---------------------------- MODULE MCBranches ----------------------------
EXTENDS Branches
CONSTANTS main, side
BranchSet == {main, side}
OnlyMain == {{main}}
FirstMain == <<main>>
HeirsOf == [b \in BranchSet |-> IF b = main THEN {main, side} ELSE {side}]
Reservations == 1 .. 3
Ops == {1}
OneBranch == {main}
NoHeirs == [b \in OneBranch |-> {b}]
Readmission == 1 .. 2
===========================================================================
