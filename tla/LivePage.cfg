CONSTANTS
  p1 = p1
  s1 = s1
  s2 = s2
  Page = {p1}
  Slot = {s1, s2}
  MaxAttempts = 1
  MaxPollers = 2
  SendQueue = 1
  ControlQueue = 1
  MaxPanics = 2
  MaxGen = 2
  MaxFaults = 1

SPECIFICATION FairSpec

INVARIANTS
  TypeOK
  SocketOrTimer

PROPERTIES
  ZombiesGo
  PagesComeBack
  PollingCovers

CHECK_DEADLOCK FALSE
