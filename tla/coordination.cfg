SPECIFICATION Spec
CONSTANTS
  n1 = n1
  n2 = n2
  n3 = n3
  c1 = c1
  Nodes <- ThreeNodes
  Islands <- Cuts
  Contenders <- TwoContenders
  Unstable <- TwoContenders
  me = n1
  Callers <- OneCaller
INVARIANT
  StateFollowsRole
PROPERTIES
  ImplementsFailover
  FollowsRole
