SPECIFICATION FairSpec
CONSTANTS
  Futs = {f1}
  Root = root
  Ctxs = {c1, c2}
  Dangling = dangling
  MaxLen = 5
  MaxWork = 5
  Usage = "panic"
INVARIANTS TypeOK LenCountsAllocations ResultCellAlive RunningHasTask NewTaskNotLost AsleepNeverReady ResultWritten
PROPERTIES LeakOnlyWithRunner ImplementsCallStack RunFinishes
CHECK_DEADLOCK FALSE
