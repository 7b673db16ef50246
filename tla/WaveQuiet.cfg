SPECIFICATION QuietSpec
CONSTANTS
  n1 = n1
  n2 = n2
  n3 = n3
  n4 = n4
  a1 = a1
  MaxHops = 2
  Name = {n1, n2}
  Addr = {a1}
  Target = {}
  NoTarget = NoTarget
  MaxRevision = 5
  LegacyName = n1
  LegacyAddr = {}
  Ports = {p1, p2}
  PortClash = PortClash
  Lag = 0
  Inbound = {}
  Watched = {}
  NoDoc = NoDoc
  NoReply = NoReply
  Failing = {1, 2}
  Lossy = {1, 2}
  Forgetful = {1}
PROPERTIES
  WaveArrives
CHECK_DEADLOCK FALSE
