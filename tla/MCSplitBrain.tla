---------------------------- MODULE MCSplitBrain ----------------------------
(* Small instances of SplitBrain.tla.                                        *)
EXTENDS SplitBrain, TLC

CONSTANTS n1, n2, n3, r1, r2

ThreeNodes == {n1, n2, n3}
ThreeMembers == <<n1, n2, n3>>
OneRequest == {r1}
TwoRequests == {r1, r2}

\* n3 only votes: two leaders at a time are what a split brain needs.
FirstTwo == {n1, n2}

\* One of the contenders by itself, or no partition.
CutOffOne == {{}, {n1}, {n2}}
CutOffSecond == {{}, {n2}}
Nobody == {}

SameRequests == Permutations(TwoRequests)
=============================================================================
