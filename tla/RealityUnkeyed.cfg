CONSTANTS
  k1 = k1
  r1 = r1
  c1 = c1
  Key = {k1}
  NoKey = NoKey
  Row = {r1}
  NoRow = NoRow
  Protocol = {"vless"}
  Network = {"tcp"}
  ForceTls = {"same"}
  Call = {c1}
SPECIFICATION Spec
INVARIANT SavedRealityHasKey
