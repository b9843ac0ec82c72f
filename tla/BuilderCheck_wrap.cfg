CONSTANTS
  Labels = {"a", "b"}
  ByteMod = 4
  OverflowChecks = FALSE
  MaxReduces = 3
SPECIFICATION Spec
PROPERTY ImplementsTermStack
CHECK_DEADLOCK FALSE
