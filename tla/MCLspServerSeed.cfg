\* A save during the first scan, incremental updates.
SPECIFICATION FairLspSpec
CONSTANTS
  Paths = {p1, p2}
  Handlers = {editor}
  HasRoot = TRUE
  Modes = {TRUE}
  MayPanic = FALSE
  Contents = {c1, c2}
  Absent = absent
  Unread = unread
  Openers = {}
  Openable = {p1}
  MaxEdits = 1
  EditsDuringInit = TRUE
CHECK_DEADLOCK FALSE
INVARIANTS IndexCurrent
