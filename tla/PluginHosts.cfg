SPECIFICATION Spec
CONSTANTS
  Callers = {c1, c2}
  Keys = {a, b}
  Operations = {"list", "models", "load", "signin", "apikey", "signout", "signoutall", "usage", "fetch", "invalidate"}
  MaxHosts = 2
  MaxCommands = 2
  Mishaps = {"die", "cancel", "slow", "refuse", "stall", "corrupt"}
  None = None
SYMMETRY Symmetric
CHECK_DEADLOCK FALSE
INVARIANTS OwnReply  ProcessesAgree 
