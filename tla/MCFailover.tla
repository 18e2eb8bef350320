------------------------------ MODULE MCFailover ------------------------------
(* Small instances of Failover.tla.                                          *)
EXTENDS Failover

CONSTANTS c1, c2

OneCaller == {c1}
TwoCallers == {c1, c2}

AllPorts == {"raft", "static", "in_memory"}
RaftPort == {"raft"}
===============================================================================
