CONSTANTS
  PoolTerms <- IllFormed
  WorkVars <- MCWorkVars
  MaxCalls = 2
SPECIFICATION Spec
PROPERTY UnifyCorrect
CHECK_DEADLOCK FALSE
