SPECIFICATION DepartSpec
CONSTANTS
  n1 = n1
  n2 = n2
  n3 = n3
  n4 = n4
  a1 = a1
  MaxHops = 3
  Name = {n1, n2, n3}
  Addr = {a1}
  Target = {}
  NoTarget = NoTarget
  MaxRevision = 5
  LegacyName = n1
  LegacyAddr = {}
  Ports = {p1}
  PortClash = PortClash
  Lag = 0
  Inbound = {}
  Watched = {}
  NoDoc = NoDoc
  NoReply = NoReply
  Failing = {1}
  Lossy = {2}
  Forgetful = {}
INVARIANTS
  RelayLeavesDeparting
  AcksAreHonest
PROPERTIES
  DocumentsMoveForward
  DepartureLeavesNobody
CHECK_DEADLOCK FALSE
