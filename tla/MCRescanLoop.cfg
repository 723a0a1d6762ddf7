\* The scan and the updates may panic.
SPECIFICATION FairLoopSpec
CONSTANTS
  Paths = {p1, p2}
  Handlers = {h1, h2}
  HasRoot = TRUE
  MayPanic = TRUE
INVARIANTS LoopTypeOK NoLostWakeup AppliesToBuiltEngine
PROPERTIES EnqueuedIsApplied
