SPECIFICATION FairSpec
CONSTANTS
  i1 = i1
  i2 = i2
  Inbound = {i1, i2}
  OnPublic = {i1}
  Wanted <- WantedAll
  FirstMode = "shared"
  Fails = {"stage", "xray", "activate", "firewall", "rules", "crash"}
  CrashAt = {"idle", "reconcile", "putBack", "nginx", "compare"}
  Overlap = FALSE
  Patient = TRUE
  MaxPause = 2
  MaxApplies = 2
  MaxEdits = 1
  MaxFaults = 1
PROPERTIES
  ClosedOnTrial
  Converges
