SPECIFICATION EnterSpec
CONSTANTS
  n1 = n1
  n2 = n2
  n3 = n3
  n4 = n4
  a1 = a1
  MaxHops = 3
  Name = {n1, n2, n3}
  Addr = {a1}
  Target = {}
  NoTarget = NoTarget
  MaxRevision = 4
  LegacyName = n1
  LegacyAddr = {}
  Ports = {p1}
  PortClash = PortClash
  Lag = 0
  Inbound = {}
  Watched = {}
  NoDoc = NoDoc
  NoReply = NoReply
  Failing = {}
  Lossy = {2}
  Forgetful = {1}
ACTION_CONSTRAINT PollsForNews
INVARIANTS
  WaveTypeOK
  DocumentsLookOutward
  ReplacedSecretsAreRefused
CHECK_DEADLOCK FALSE
