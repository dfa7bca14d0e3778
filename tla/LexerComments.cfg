SPECIFICATION Spec
CONSTANTS
  Sources <- AdjacentTexts
  Letters <- MCLetters
  Digits <- MCDigits
  SPECIAL_SYMBOLS <- MCSpecials
  OPERATORS <- MCOps
  KEYWORDS <- MCKeywords
  BITYPES <- MCBitypes
  MAX_TOKENS = 10
  MAX_LIT_CHARS = 10
INVARIANTS
  CommentsIgnored
