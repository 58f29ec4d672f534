SPECIFICATION Spec
CONSTANTS
  Futs = {f1, f2}
  Root = root
  Ctxs = {c1, c2}
  Dangling = dangling
  MaxLen = 4
  MaxWork = 4
  Usage = "any"
SYMMETRY Symmetry
INVARIANTS ResultCellAlive
CHECK_DEADLOCK FALSE
