SPECIFICATION Spec
CONSTANTS
  n1 = n1
  n2 = n2
  c1 = c1
  c2 = c2
  Nodes <- MCNodes
  Clients <- MCClients
  Clusters <- MCClusters
  Chunks = 2
  MaxHops = 1
  TTL = 2
  MaxTime = 2
INVARIANT
  WholeBodiesExecuted
CHECK_DEADLOCK FALSE
