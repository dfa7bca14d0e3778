SPECIFICATION Spec
CONSTANTS
  t1 = t1
  t2 = t2
  Absent = Absent
  Torn = Torn
  Procs = {p1, p2}
  Texts <- MCTexts
  CommandLines <- MCCommandLines
  Faults <- MCFaults
  MaxRuns = 3
INVARIANTS
  OwnProgram
  ProgramAccepted
  NeverSilent
PROPERTIES
  KeepsPromise
  Ends
