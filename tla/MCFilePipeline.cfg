CONSTANTS
  Newline = "NL"
  Backslash = "BS"
  SpaceBytes = {" "}
  WordBytes = {"a", "r", "1"}
  DigitBytes = {"1"}
  HighBytes = {"u"}
  LineComments <- MCLineComments
  BlockComments <- MCBlockComments
  Nested = TRUE
  Quotes <- MCQuotes
  Blind = "Mild"
  Prose <- MCProse
  Texts <- MCTexts
  Extensions <- MCExtensions
  NoLang = NoLang
  OnlyLangs = {NoLang, "md"}
  MaxSliced = 6
  K = 2
  Window = 2
  Modulus = 8
  TokenHash <- MCTokenHash
  KGramHash <- MCKGramHash
  Slots = {"h", "g"}
  MixA <- MCMixA
  MixB <- MCMixB
SPECIFICATION PipelineSpec
INVARIANTS
  LexerConsistent
  LexesAsWritten
  LinesAccounted
  LiterateCounts
  FingerprintsExact
  CommonRunFound
  SketchExact
PROPERTY
  PipelineEnds
CHECK_DEADLOCK FALSE
