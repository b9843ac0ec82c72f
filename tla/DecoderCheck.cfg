CONSTANTS
  Width = 12
  NPrepared = 21
  Chars = {"A", "B", "T", "U", "Y", "Z", "?", "x"}
  MaxChars = 5
SPECIFICATION Spec
INVARIANTS
  TypeOK
  DecodesReference
  StepNumberFitsWord
CHECK_DEADLOCK FALSE
