SPECIFICATION Spec
CONSTANTS
  k1 = k1
  k2 = k2
  KeyOrder <- TwoKeys
  Vals <- SomeVals
  NoVal = NoVal
  NoFile = NoFile
  Failing = {"open", "write", "rename"}
  CrashPoints = {"idle", "rehash", "write", "remove", "rename"}
  SignalPoints = {"idle"}
INVARIANTS PersistTypeOK DumpIsWhole
PROPERTIES SavedMeansOnDisk DurableButForGap
