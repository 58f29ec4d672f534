SPECIFICATION SchedSpec
CONSTANTS
  Tasks = {a, b}
  Threads = {t1, t2}
  Outside = Outside
  Null = Null
  MaxWakers = 1
SYMMETRY Symmetry
INVARIANT CountConsistent
CHECK_DEADLOCK FALSE
