SPECIFICATION Spec
CONSTANTS
  p1 = p1
  p2 = p2
  v1 = v1
  v2 = v2
  Procs <- MCProcs
  Versions <- MCVersions
  Places <- MCPlaces
  BINARY = BINARY
  Touches = 1
SYMMETRY Symmetry
INVARIANTS
  TypeOK
  ResolvedIsFirst
  VerdictIsTrue
  TornHasCause
