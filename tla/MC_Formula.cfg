CONSTANTS
  PoolTerms <- WellFormed
  WorkVars <- MCWorkVars
  MaxCalls = 3
SPECIFICATION Spec
INVARIANTS TypeOK EqIsStructural
PROPERTIES UnifyCorrect SubstituteCorrect CompleteCorrect
CHECK_DEADLOCK FALSE
