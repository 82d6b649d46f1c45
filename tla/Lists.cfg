SPECIFICATION ListSpec
CONSTANTS
  k1 = k1
  k2 = k2
  k3 = k3
  k4 = k4
  Keys = {k1, k2}
  Values <- Entries
  NoKey = NoKey
  NoVal = NoVal
  Hash <- DistinctHash
  MinCap = 4
  Caps = {4, 8}
  Texts = {"a", "1"}
  ParseInt <- Parse
  IntMin <- Int64Min
  IntMax = 2
  Second = 1
  Age = 3
  NoExpiry = NoExpiry
  SweepInterval = 1
  SweepSamples = 1
  Seconds = {1}
  Indices <- Positions
  MaxArgs = 2
  MaxLen = 3
INVARIANTS ListsAreNotEmpty
PROPERTIES ServesStore ExpiredIsSwept
