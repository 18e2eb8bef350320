---------------------------- MODULE MCInstallation ----------------------------
(* Two processes for Installation.tla.                                         *)
EXTENDS Installation, TLC

CONSTANTS p1, p2, v1, v2

MCProcs == {p1, p2}
MCVersions == {v1, v2}
MCPlaces == <<"env", "cache">>

Symmetry == Permutations(MCProcs) \cup Permutations(MCVersions)
===============================================================================
