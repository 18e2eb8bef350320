SPECIFICATION Spec
CONSTANTS
  n1 = n1
  n2 = n2
  n3 = n3
  Nodes <- MCNodes
  Framework <- MCFramework
  AllSettings <- MCAllSettings
INVARIANTS
  TypeOK
  QuorumsIntersect
  RunsAsConfigured
  MajorityIsQuorum
