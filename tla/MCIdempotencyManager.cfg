SPECIFICATION Spec
CONSTANTS
  r1 = r1
  r2 = r2
  r3 = r3
  r4 = r4
  Requests <- MCRequests
  LockTimeout = 2
  MaxTime = 3
  None = None
SYMMETRY Symmetry
INVARIANTS
  TypeOK
  ExecutionsPerTakeover
  AnswersAgree
PROPERTIES
  CompletedIsFinal
CHECK_DEADLOCK FALSE
