SPECIFICATION MachSpec
CONSTANTS
  Nodes <- MCNodes
  Trees <- MCTrees
  MAX_STACK_VARS = 3
  MAX_SCOPES = 1
  ExpWrap = 2
  Word = 64
  Byte = 8
  StackSlots = 12
INVARIANTS
  TypeOK
  NamesUnique
  ScopesNest
  ExitsRight
  StackMirrored
  CleanTexts
PROPERTIES
  CleanEnds
