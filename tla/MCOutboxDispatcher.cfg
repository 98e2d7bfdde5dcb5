SPECIFICATION FairSpec
CONSTANTS
  m1 = m1
  m2 = m2
  w1 = w1
  w2 = w2
  Messages <- MCMessages
  Workers <- MCWorkers
  BatchSize = 2
  MaxRetries = 2
  MaxFaults = 1
  NoTx = NoTx
INVARIANTS
  TypeOK
  DispatchedWasAccepted
  GivenUpAfterRetries
PROPERTIES
  EventuallySettled
CHECK_DEADLOCK FALSE
