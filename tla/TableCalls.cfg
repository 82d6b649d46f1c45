SPECIFICATION HSpec
CONSTANTS
  k1 = k1
  k2 = k2
  k3 = k3
  k4 = k4
  Keys = {k1, k2, k3}
  Values = {v1, v2, v3}
  NoKey = NoKey
  NoVal = NoVal
  Hash <- CollidingHash
  MinCap = 4
  Caps = {4, 8}
INVARIANTS TypeOK Accounting RoomToProbe Ownership
PROPERTIES EveryStepIsProgress CallReturns CallsAreWhole
