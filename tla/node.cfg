SPECIFICATION Spec
SYMMETRY Symmetry
CONSTANTS
  server = server
  migrate = migrate
  shell = shell
  Workers <- MCWorkers
  Servers <- MCServers
  Configs <- AllConfigs
  Frameworks <- MCFrameworks
INVARIANTS
  TypeOK
  MarkerHasOwner
  MarkerKeptUntilExit
  AnswersAreTrue
  StaticRolesAgree
