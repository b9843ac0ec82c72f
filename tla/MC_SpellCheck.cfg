CONSTANTS
  Databases <- MCDatabases
  DicText <- MCDicText
  JCommands <- MCJCommands
SPECIFICATION Spec
INVARIANTS
  TypeOK
  ReportsSound
  ReportsComplete
  DictHasPersonalWords
CHECK_DEADLOCK FALSE
