SPECIFICATION CompSpec
CONSTANTS
  Sources <- MCSources
  Trees <- MCTrees
  Letters <- MCLetters
  Digits <- MCDigits
  DigitValue <- MCDigitValue
  Spelling <- MCSpelling
  BITYPES <- MCBitypes
  BeyondTable <- MCWild
  MAX_TOKENS = 60
  MAX_LIT_CHARS = 6
  MAX_NODE_STATS = 10
  MAX_SCOPE_STATS = 10
  MAX_FUN_ARGS = 10
  JWRITE_STACK_DEPTH = 11
  MAX_AST_JSON_FILESIZE = 210
  MAX_STACK_VARS = 2
  MAX_SCOPES = 1
  ExpWrap = 2
  Values = 64
  Byte = 8
  StackSlots = 12
INVARIANTS
  HandedOnWell
  ExitsAsWritten
  RunsAsCompiled
  ParsedRight
  AstWholeOrCut
  WriterFits
PROPERTIES
  DriverAllows
