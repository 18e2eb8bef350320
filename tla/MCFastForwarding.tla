--------------------------- MODULE MCFastForwarding ---------------------------
(* Two nodes that name each other, or themselves, for FastForwarding.tla.    *)
EXTENDS FastForwarding

CONSTANTS n1, n2, c1, c2

MCNodes == {n1, n2}
MCClients == {c1, c2}

\* Each names the other, or both name n2 and n1 has the cache.
MCClusters ==
  { [primary_url |-> [n \in MCNodes |-> CHOOSE m \in MCNodes : m # n], cached |-> {}],
    [primary_url |-> [n \in MCNodes |-> n2], cached |-> {n1}] }
===============================================================================
