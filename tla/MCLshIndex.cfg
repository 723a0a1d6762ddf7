SPECIFICATION LshSpec
CONSTANTS
  Paths = {p1, p2}
  Granules = {g}
  Bands = 2
  Rows = 2
  Slots = {0, 1}
  Sketches <- MCSketches
  MaxEntries = 4
INVARIANTS IndexConsistent QueriesExact
PROPERTIES ImplementsLiveEntries RemovedStayQueryable
