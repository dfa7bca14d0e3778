SPECIFICATION Spec
CONSTANTS
  InitBytes = 4
  Requests <- MCRequests
  MsgLens <- MCMsgLens
  AssertLen = 3
  MAX_ERRORS = 9
  MaxAllocs = 4
  MaxRaised = 2
INVARIANTS
  PointersStayValid
