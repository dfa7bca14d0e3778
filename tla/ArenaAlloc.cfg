SPECIFICATION Spec
CONSTANTS
  InitBytes = 4
  Requests <- MCRequests
  MsgLens <- MCMsgLens
  AssertLen = 3
  MAX_ERRORS = 2
  MaxAllocs = 5
  MaxRaised = 3
INVARIANTS
  TypeOK
  Disjoint
  InBlock
  FailureDepth
  ErrorsShown
  CrashOnlyPastLimits
