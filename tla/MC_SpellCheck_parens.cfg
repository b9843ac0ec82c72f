CONSTANTS
  Databases <- MCDatabases
  DicText <- MCDicText
  JCommands <- MCJCommands
SPECIFICATION Spec
INVARIANT ReportsBeforeParentheticals
CHECK_DEADLOCK FALSE
