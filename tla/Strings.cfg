SPECIFICATION StringSpec
CONSTANTS
  k1 = k1
  k2 = k2
  k3 = k3
  k4 = k4
  Keys = {k1, k2}
  Values <- Entries
  NoKey = NoKey
  NoVal = NoVal
  Hash <- DistinctHash
  MinCap = 4
  Caps = {4, 8}
  Texts = {"a", "1"}
  ParseInt <- Parse
  IntMin <- Int64Min
  IntMax = 1
  Second = 2
  Age = 3
  NoExpiry = NoExpiry
  SweepInterval = 1
  SweepSamples = 3
  Seconds <- Timeouts
  Indices = {}
  MaxArgs = 2
  MaxLen = 0
INVARIANTS TypeOK
PROPERTIES ServesStore
