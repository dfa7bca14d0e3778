SPECIFICATION MachSpec
CONSTANTS
  Nodes <- ScopeNodes
  Trees <- ScopeTrees
  MAX_STACK_VARS = 3
  MAX_SCOPES = 1
  ExpWrap = 256
  Word = 64
  Byte = 8
  StackSlots = 12
INVARIANTS
  ScopesAssemble
