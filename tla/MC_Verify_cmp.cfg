CONSTANTS
  Frames <- MCFrames
  CurLabel = "th"
  Variables = {"ph", "ps"}
  Encoding = "space"
  Formats = {"compressed"}
  ProofTokens = {}
  RosterLabels = {"ax-mp", "ax-dv"}
  StepChars = {"A", "B", "C", "D", "E", "F", "U", "Z", "?"}
  MaxTokens = 7
  MaxStepIndex = 20
SPECIFICATION Spec
INVARIANTS
  TypeOK
  StackBufferTiling
  VarsTrackExpr
PROPERTIES
  AbsSpec
CHECK_DEADLOCK FALSE
