\* Three files, contents of no to two items; one file excluded.
SPECIFICATION FindingsSpec
CONSTANTS
  Paths = {p1, p2, p3}
  Excluded = {p3}
  Contents = {"absent", "rs", "t", "u"}
  Absent = "absent"
  Items <- MCItems
  ShareBand <- MCShareBand
  SketchClose <- MCSketchClose
  Verdict <- MCVerdict
  Rejected = {}
INVARIANT UpdateIsRescan
