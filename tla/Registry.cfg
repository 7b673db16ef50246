SPECIFICATION Spec
CONSTANTS
  n1 = n1
  n2 = n2
  n3 = n3
  n4 = n4
  a1 = a1
  MaxHops = 2
  Name = {n1, n2}
  Addr = {a1}
  Target = {t1, t2}
  NoTarget = NoTarget
  MaxRevision = 3
  LegacyName = n1
  LegacyAddr = {a1}
  Ports = {p1, PortClash}
  PortClash = PortClash
  Lag = 1
  Inbound = {i1}
  Watched <- MCPaths
INVARIANTS
  TypeOK
  ConfirmedRevisionsExist
  OneActiveEdge
  FollowersMatchActiveEdge
PROPERTIES
  KeepsPromise
  TargetsFollowProbedPaths
