SPECIFICATION Spec
CONSTANTS
  ann = ann
  bob = bob
  h1 = h1
  People = {ann, bob}
  HomeList <- OneHome
  Exports <- MCExports
  Stored0 <- AtStart
  MaxCommands = 3
  Writers = {w1, w2}
  MaxGen = 4
  Mishaps = {"cancel", "disk", "slow", "switch", "logout"}
  MsThreshold = 100
  NoName = NoName
  None = None
CHECK_DEADLOCK FALSE
INVARIANTS AdoptionHolds
PROPERTIES NewerStays WriteBackReturns
