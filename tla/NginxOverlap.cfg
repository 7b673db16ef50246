SPECIFICATION Spec
CONSTANTS
  i1 = i1
  i2 = i2
  Inbound = {i1}
  OnPublic = {i1}
  Wanted <- WantedAll
  FirstMode = "shared"
  Fails = {"stage", "xray", "activate", "firewall", "rules", "nginx", "crash"}
  CrashAt = {"idle", "lock", "save", "fallback", "deadline", "firewall", "open", "expired", "disarm", "forgive", "openUp", "reconcile", "putBack", "nginx", "compare"}
  Overlap = TRUE
  Patient = FALSE
  MaxPause = 1
  MaxApplies = 2
  MaxEdits = 1
  MaxFaults = 1
INVARIANTS
  TypeOK
  MovedRemembersHome
  LiveIsOnDisk
