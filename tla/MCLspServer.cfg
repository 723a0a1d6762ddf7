\* Both modes, edits and restored contents from the first scan on, didOpen.
SPECIFICATION FairLspSpec
CONSTANTS
  Paths = {p1, p2}
  Handlers = {editor}
  HasRoot = TRUE
  Modes = {TRUE, FALSE}
  MayPanic = FALSE
  Contents = {c1}
  Absent = absent
  Unread = unread
  Openers = {open}
  Openable = {p1}
  MaxEdits = 2
  EditsDuringInit = TRUE
CHECK_DEADLOCK FALSE
INVARIANTS LspConsistent IndexKeepsUp SkipIsRight CacheCurrent
PROPERTIES EditorCatchesUp IndexCatchesUp
