SPECIFICATION FairSpec
CONSTANTS
  Sources <- AllTexts
  Letters <- MCLetters
  Digits <- MCDigits
  SPECIAL_SYMBOLS <- MCSpecials
  OPERATORS <- MCOps
  KEYWORDS <- MCKeywords
  BITYPES <- MCBitypes
  MAX_TOKENS = 4
  MAX_LIT_CHARS = 4
INVARIANTS
  TypeOK
  TokensFit
  SpansInOrder
  PositionsRight
  TokensAsDocumented
  RejectsOnlyAtLimits
PROPERTIES
  Terminates
