\* Two files, every content, both files stale.
SPECIFICATION EngineSpec
CONSTANTS
  Paths = {p1, p2}
  Whole = Whole
  Granules <- MCGranules
  Bands = 3
  Rows = 1
  Slots = {0, 1, 2}
  Sketches <- MCSketches
  MaxEntries = 0
  Excluded = {}
  Contents = {"absent", "a", "bc", "c", "da"}
  Absent = "absent"
  Items <- MCItems
  MinNum = 1
  MinDen = 2
  Classify <- MCClassify
  EpsDen = 6
  MaxStale = 2
INVARIANTS EngineConsistent MatchesFullScan
PROPERTIES ImplementsAlgebra DiffExact
