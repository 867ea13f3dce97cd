SPECIFICATION ToolsSpec
CONSTANTS
  Files <- MCFiles
  Tables <- MCTables
  Points <- MCPoints
  Needles = {3, 5, 6}
  JunkValues = {1, 5}
  InitialCapacity = 2
  MaxQueries = 2
CHECK_DEADLOCK FALSE
INVARIANTS
  FormatIsDefinition
  AnswerIsRight
  RecordsAreLines
PROPERTIES
  EveryFileAnswered
  QueriesEnd
