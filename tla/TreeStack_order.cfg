SPECIFICATION TreeSpec
CONSTANTS
  Tasks = {a, b}
  Threads = {t1}
  Outside = Outside
  Null = Null
  MaxWakers = 3
  MaxRoot = 3
  MaxWork = 1
PROPERTY RefusedOnlyOutOfOrder
CHECK_DEADLOCK FALSE
