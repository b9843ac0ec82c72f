CONSTANTS
  Labels = {"a", "b"}
  ByteMod = 4
  OverflowChecks = TRUE
  MaxReduces = 3
SPECIFICATION Spec
INVARIANT TypeOK
PROPERTY ImplementsTermStack
CHECK_DEADLOCK FALSE
