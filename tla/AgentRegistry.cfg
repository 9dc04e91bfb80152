SPECIFICATION Spec
CONSTANTS
  None = None
  UserValues = {u1}
  MaxKeys = 2
  MaxCats = 2
  MaxRest = 2
  AgentsUsed = {"claude", "codex", "gemini", "pi"}
  MaxCalls = 4
  MaxUpsets = 1
CHECK_DEADLOCK FALSE
INVARIANTS UsersFilesKept ConnectedMeansCurrent
PROPERTIES  FailedConnectUndone
