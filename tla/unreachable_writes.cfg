SPECIFICATION Spec
CONSTANTS
  n1 = n1
  n2 = n2
  n3 = n3
  r1 = r1
  r2 = r2
  Nodes <- ThreeNodes
  Members <- ThreeMembers
  Islands <- CutOffSecond
  Contenders <- FirstTwo
  Unstable <- Nobody
  Entries <- FirstTwo
  Requests <- TwoRequests
  MiddlewareDetects = FALSE
  CursorDetects = TRUE
PROPERTIES UnreachableIsHarmless
SYMMETRY SameRequests
