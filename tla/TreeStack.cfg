SPECIFICATION TreeFairSpec
CONSTANTS
  Tasks = {a, b}
  Threads = {t1}
  Outside = Outside
  Null = Null
  MaxWakers = 3
  MaxRoot = 3
  MaxWork = 3
INVARIANTS TreeTypeOK RootWaitsForScopes ScopeAnswered ScopesNest
PROPERTIES RunnerDropClears RunFinishes
CHECK_DEADLOCK FALSE
