SPECIFICATION Spec
CONSTANTS
  t1 = t1
  t2 = t2
  Threads <- TwoThreads
  Threshold = 2
  ResetTimeout = 1
  Disabled = FALSE
  MaxRetries = 1
  PortResults <- AllPortResults
  Resolutions <- AllResolutions
  MaxRequests = 3
  MaxClock = 3
INVARIANTS
  TypeOK
  CountsConsecutiveFailures
  AnswersAreTrue
  FailuresAllRecorded
PROPERTIES
  ImplementsContract
  EveryRequestAnswered
