SPECIFICATION Spec
CONSTANTS
  n1 = n1
  n2 = n2
  n3 = n3
  r1 = r1
  r2 = r2
  Nodes <- ThreeNodes
  Members <- ThreeMembers
  Islands <- CutOffOne
  Contenders <- FirstTwo
  Unstable <- ThreeNodes
  Entries <- ThreeNodes
  Requests <- OneRequest
  MiddlewareDetects = TRUE
  CursorDetects = TRUE
INVARIANTS
  TypeOK
  FlagFollowsRole
  NoWriteInSteadySplitBrain
  DetectionPrecedesWrite
PROPERTIES
  AlarmIsFounded
  ListenerHearsChanges
  EveryRequestEnds
