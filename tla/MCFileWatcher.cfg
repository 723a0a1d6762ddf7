\* A source directory, an excluded one and an ignored file; two changes by
\* other programs.
SPECIFICATION FairFileWatcherSpec
CONSTANTS
  root = root
  src = src
  target = target
  rootFile = rootFile
  srcFile = srcFile
  targetFile = targetFile
  Paths = {root, src, target, rootFile, srcFile, targetFile}
  Dirs = {root, src, target}
  Root = root
  Parent <- MCParent
  Chain <- MCChain
  ExcludedByName = {target}
  IgnoredByRule = {rootFile}
  RootUnderExcludedName = FALSE
  Handlers = {pump}
  Pump = pump
  HasRoot = TRUE
  Incremental = TRUE
  MayPanic = TRUE
  MaxChanges = 2
INVARIANTS WatcherTypeOK ReportedIsTracked
PROPERTIES ReportedIsRead WatcherSettles ImplementsLoop
CHECK_DEADLOCK FALSE
