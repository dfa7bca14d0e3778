SPECIFICATION MachSpec
CONSTANTS
  Nodes <- PowerNodes
  Trees <- PowerTrees
  MAX_STACK_VARS = 3
  MAX_SCOPES = 1
  ExpWrap = 256
  Word = 1024
  Byte = 256
  StackSlots = 12
INVARIANTS
  PowersAreRight
