SPECIFICATION FairSpec
CONSTANTS
  c1 = c1
  c2 = c2
  c3 = c3
  Contenders = {c1, c2, c3}
  NoFile = NoFile
  MaxStale = 2
  CrashesAllowed = TRUE
  OutliveAllowed = TRUE
  IoMayFail = TRUE
  RemoveMayFail = TRUE
INVARIANTS FileStandsForHolder
PROPERTIES LeaseSpec AcquireReturns
