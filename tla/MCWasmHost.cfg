SPECIFICATION FairHostSpec
CONSTANTS
  CallTasks = {c1}
  Pins = {n1}
  CallArgs <- MCCallArgs
  Imports <- MCImports
  Tiers <- MCTiers
  Budget = 2
  ReservedBudget = 2
  MaxLive = 2
  MaxPerPrincipal = 1
INVARIANTS
  PoolAccounts
  ReuseIsClean
  TaintIsReported
PROPERTIES
  EveryCallEnds
