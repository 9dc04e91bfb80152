SPECIFICATION Spec
CONSTANTS
  MaxTurns = 3
  Clients = {"claude", "chat", "responses", "gemini"}
  Pictures = {TRUE, FALSE}
INVARIANT NoForeignSeal
