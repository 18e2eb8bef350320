-------------------------------- MODULE MCNode --------------------------------
(* A node of one server process and two management commands, for Node.tla.   *)
EXTENDS Node, TLC

CONSTANTS server, migrate, shell

MCWorkers == {server, migrate, shell}
MCServers == {server}
MCFrameworks == {"django", "fastapi"}

\* The two commands do the same.
Symmetry == Permutations({migrate, shell})
===============================================================================
