\* The workspace lies below a directory with an excluded name.
SPECIFICATION FileWatcherSpec
CONSTANTS
  root = root
  src = src
  target = target
  rootFile = rootFile
  srcFile = srcFile
  targetFile = targetFile
  Paths = {root, src, target, rootFile, srcFile, targetFile}
  Dirs = {root, src, target}
  Root = root
  Parent <- MCParent
  Chain <- MCChain
  ExcludedByName = {target}
  IgnoredByRule = {}
  RootUnderExcludedName = TRUE
  Handlers = {pump}
  Pump = pump
  HasRoot = TRUE
  Incremental = TRUE
  MayPanic = FALSE
  MaxChanges = 2
INVARIANTS WalkedIsTracked
CHECK_DEADLOCK FALSE
