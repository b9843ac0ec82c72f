CONSTANTS
  Names = {"x", "y"}
  W = 4
  Bits = {0, 5, 13}
SPECIFICATION Spec
INVARIANT TypeOK
PROPERTIES ImplementsIntSet LoopEnumeratesMembers
