CONSTANTS
  Frames <- MCFrames
  CurLabel = "th"
  Variables = {"ph", "ps"}
  Encoding = "space"
  Formats = {"uncompressed"}
  ProofTokens <- MCProofTokens
  RosterLabels = {}
  StepChars = {}
  MaxTokens = 6
  MaxStepIndex = 0
SPECIFICATION Spec
INVARIANTS
  TypeOK
  StackBufferTiling
  VarsTrackExpr
PROPERTIES
  AbsSpec
CHECK_DEADLOCK FALSE
