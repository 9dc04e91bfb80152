SPECIFICATION Spec
CONSTANTS
  a1 = a1
  a2 = a2
  a3 = a3
  pool = pool
  key = key
  plug = plug
  ghost = ghost
  NoAccount = NoAccount
  NoName = NoName
  Requests = {r1, r2}
  r1 = r1
  r2 = r2
  Providers <- AllProviders
  Accounts = {a1, a2, a3}
  Configured = {pool, key, plug}
  Plugins = {plug}
  Listed <- PairListed
  Saved <- PairOrder
  Routes <- BothRoutes
  Statuses = {401, 403}
  MaxSignIns = 1
SYMMETRY Symmetry
CHECK_DEADLOCK FALSE
INVARIANTS PlanIsTheUsers SeatsUsedRightly
PROPERTIES RequestsMoveOn
