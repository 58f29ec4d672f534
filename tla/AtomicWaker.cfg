SPECIFICATION WakerFairSpec
CONSTANTS
  Regs = {r1}
  Wakers = {w1, w2, w3}
  Handles = {h1, h2}
  NoWaker = NoWaker
INVARIANTS WakerTypeOK CellExclusive RegisterAsserts NoLostWake
PROPERTY WorkIsFound
