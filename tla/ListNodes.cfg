SPECIFICATION ListSpec
CONSTANTS
  Nodes = {n1, n2, n3}
  Null = Null
  Values = {a, b}
  Indices <- Positions
SYMMETRY Addresses
INVARIANTS Intact WalkFindsOldOrNew
PROPERTIES ImplementsDeque
