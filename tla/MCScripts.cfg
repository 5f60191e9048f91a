SPECIFICATION Spec
CONSTANTS
  access = access
  history = history
  bot = bot
  Files <- MCFiles
  MayShutdown = TRUE
  MaxEngines = 3
CHECK_DEADLOCK FALSE
INVARIANTS
  TypeOK
  LoadedInOrder
  TimersExact
  CalmIsSafe
PROPERTIES
  ReloadCompletes
