CONSTANTS
  Frames <- MCFrames
  CurLabel = "th"
  Variables = {"ph", "ps"}
  Encoding = "sentinel"
  Formats = {"uncompressed"}
  ProofTokens <- MCProofTokens
  RosterLabels = {}
  StepChars = {}
  MaxTokens = 5
  MaxStepIndex = 0
SPECIFICATION Spec
INVARIANT
  WrongExprEndOnlyIfWrong
CHECK_DEADLOCK FALSE
