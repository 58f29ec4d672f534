SPECIFICATION SchedSpec
CONSTANTS
  Tasks = {a, b}
  Threads = {t1, t2}
  Outside = Outside
  Null = Null
  MaxWakers = 1
SYMMETRY Symmetry
INVARIANTS SchedTypeOK CountCoversOwners CountExact ListSound FutureDroppedOnce HolderAlive QueuedIsMarked NoFutureLeft
CHECK_DEADLOCK FALSE
