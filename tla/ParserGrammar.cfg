SPECIFICATION Spec
CONSTANTS
  Sources <- DocSources
  BeyondTable <- MCZero
  MAX_NODE_STATS = 10
  MAX_SCOPE_STATS = 10
  MAX_FUN_ARGS = 10
INVARIANTS
  GrammarDecides
