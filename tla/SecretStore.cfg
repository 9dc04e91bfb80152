SPECIFICATION Spec
CONSTANTS
  s1 = s1
  s2 = s2
  s3 = s3
  p1 = p1
  p2 = p2
  a1 = a1
  a2 = a2
  v1 = v1
  Stores = {s1, s2, s3}
  Procs = {p1, p2}
  ProcOf <- ServerAndCli
  Openings <- OneOrTwo
  Accounts = {a1, a2}
  Creds = {v1}
  None = None
  Missing = Missing
  Truncated = Truncated
  Garbled = Garbled
  MaxFaults = 1
  MaxDamage = 2
SYMMETRY Symmetry
CHECK_DEADLOCK FALSE
INVARIANTS FilesSuffice
PROPERTIES MainNeverTorn AtomicSpec
