SPECIFICATION Spec
CONSTANTS
  k1 = k1
  k2 = k2
  KeyOrder <- TwoKeys
  Vals <- SomeVals
  NoVal = NoVal
  NoFile = NoFile
  Failing = {}
  CrashPoints = {"rename"}
  SignalPoints = {}
PROPERTIES ImplementsDurable
