SPECIFICATION SettledSpec
CONSTANTS
  n1 = n1
  n2 = n2
  n3 = n3
  n4 = n4
  a1 = a1
  MaxHops = 4
  Name = {n1, n2, n3, n4}
  Addr = {a1}
  Target = {}
  NoTarget = NoTarget
  MaxRevision = 5
  LegacyName = n1
  LegacyAddr = {}
  Ports = {p1}
  PortClash = PortClash
  Lag = 0
  Inbound = {}
  Watched = {}
ACTION_CONSTRAINT HeardInDepartures
INVARIANTS
  OnePath
  NextHopsAreLive
  NextHopsLeadInward
  NextHopKnowsCaller
PROPERTIES
  NewSecretMovesRevision
  DocumentsChangeWithRevision
  DepartureEnds
