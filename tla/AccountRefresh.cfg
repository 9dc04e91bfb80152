SPECIFICATION FairSpec
CONSTANTS
  t1 = t1
  t2 = t2
  server = server
  cli = cli
  None = None
  Tasks = {t1, t2}
  Procs = {server, cli}
  ProcOf <- EachProc
  Kinds = {"codex", "gemini", "siwc", "other"}
  MaxIssued = 2
  Mishaps <- EachMishap
  UserMay <- EachUser
INVARIANTS TokensSafe
PROPERTIES StoreMovesForward RefreshReturns
