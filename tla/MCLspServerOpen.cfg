\* didOpen beside a publishing round.
SPECIFICATION FairLspSpec
CONSTANTS
  Paths = {p1, p2}
  Handlers = {editor}
  HasRoot = TRUE
  Modes = {TRUE}
  MayPanic = FALSE
  Contents = {c1, c2}
  Absent = absent
  Unread = unread
  Openers = {open}
  Openable = {p1}
  MaxEdits = 1
  EditsDuringInit = FALSE
CHECK_DEADLOCK FALSE
INVARIANTS NoStaleDiagnostics
