SPECIFICATION Spec
CONSTANTS
  i1 = i1
  i2 = i2
  Inbound = {i1}
  OnPublic = {i1}
  Wanted <- WantedAll
  FirstMode = "shared"
  Fails = {}
  CrashAt = {}
  Overlap = FALSE
  Patient = FALSE
  MaxPause = 1
  MaxApplies = 2
  MaxEdits = 0
  MaxFaults = 0
PROPERTIES
  RollbackOpens
