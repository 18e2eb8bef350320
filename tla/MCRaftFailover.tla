---------------------------- MODULE MCRaftFailover ----------------------------
(* Small instances of RaftFailover.tla.                                      *)
EXTENDS RaftFailover

CONSTANTS n1, n2, n3, c1

ThreeNodes == {n1, n2, n3}
TwoContenders == {n1, n2}
Cuts == {{}, {n1}, {n2}}
OneCaller == {c1}
===============================================================================
