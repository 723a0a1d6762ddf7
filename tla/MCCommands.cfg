CONSTANTS
  Paths = {"a", "b", "t"}
  Granules = {}
  Bands = 2
  Rows = 1
  Slots = {}
  Sketches = {}
  MaxEntries = 0
  Components <- MCComponents
  Whole = Whole
  TestNames = {"tests"}
  GenericNames = {"new"}
  TinyBelow = 4
  Absent = "absent"
  Contents = {"one", "two", "mid"}
  Excluded = {}
  LangOf <- MCLangOf
  SlicedLangs = {"Python"}
  AnyLang = AnyLang
  Functions <- MCFunctions
  Hashes <- MCHashes
  Identifiers <- MCIdentifiers
  SketchOf <- MCSketchOf
  MaxEdits = 1
  MaxCommands = 2
  Unset = Unset
  IllTyped = IllTyped
  Dropped = Dropped
  NoRoot = NoRoot
  NoFile = NoFile
  Torn = Torn
  Upper <- MCUpper
  Lower <- MCLower
  Digits = {"1"}
  Separators = {"_", "-"}
  LowerOf <- MCLowerOf
  Wide = {"E'", "e'"}
  LangKeys = {"Python", "Markdown"}
  LangByExtension <- MCLangByExtension
  NoHint = NoHint
  GuessLang <- MCGuessLang
  BruteEntries = 2
  BruteFps = 2
  WordLists <- MCWordLists
  Disks <- MCDisks
  ScanOpts <- MCScanOpts
  IndexOpts <- MCIndexOpts
  SearchOpts <- MCSearchOpts
  QueriesIn <- MCQueriesIn
  Queries <- MCQueries
  Givens <- MCGivens
  Params <- MCParams
SPECIFICATION CommandsSpec
INVARIANTS
  CommandsConsistent
  BackendsAgree
  TagsOfProject
  ReportConsistent
  RoundConsistent
  SearchFinds
  SplitsAtBoundaries
PROPERTY
  OnlyTiesMove
CHECK_DEADLOCK FALSE
