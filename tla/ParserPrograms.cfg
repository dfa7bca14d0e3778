SPECIFICATION FairSpec
CONSTANTS
  Sources <- Programs
  BeyondTable <- MCZero
  MAX_NODE_STATS = 2
  MAX_SCOPE_STATS = 1
  MAX_FUN_ARGS = 1
INVARIANTS
  TypeOK
  StmtProgress
  StackDepth
  RejectionIsReported
  CrashOnlyIfUnterminated
  AcceptedIffDerivable
  TreesWellFormed
PROPERTIES
  Terminates
