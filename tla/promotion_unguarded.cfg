SPECIFICATION Spec
CONSTANTS
  c1 = c1
  c2 = c2
  Callers <- OneCaller
  Serialised = TRUE
  Ports <- RaftPort
PROPERTY PromotionGuarded
