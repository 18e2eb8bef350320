SPECIFICATION Spec
CONSTANTS
  c1 = c1
  c2 = c2
  Callers <- TwoCallers
  Serialised = TRUE
  Ports <- AllPorts
INVARIANTS
  TypeOK
  EventsTellState
  PrimaryIsVisible
PROPERTIES
  EventsAlternate
  FollowsElection
