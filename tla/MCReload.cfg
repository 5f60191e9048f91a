SPECIFICATION Spec
CONSTANTS
  access = access
  history = history
  bot = bot
  Files <- MCFiles
  MayShutdown = FALSE
  MaxEngines = 3
CHECK_DEADLOCK FALSE
INVARIANTS
  ReloadIsSafe
