SPECIFICATION Spec
CONSTANTS
  Futs = {f1}
  Root = root
  Ctxs = {c1, c2}
  Dangling = dangling
  MaxLen = 4
  MaxWork = 4
  Usage = "await"
INVARIANT YieldEndsStep
