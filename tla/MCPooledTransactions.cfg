SPECIFICATION FairSpec
CONSTANTS
  s1 = s1
  s2 = s2
  k1 = k1
  k2 = k2
  NoOne = NoOne
  Sessions <- MCSessions
  Clients <- MCClients
  MaxWrites = 1
  MinConnections = 0
  MaxConnections = 2
INVARIANTS
  LeaseMatchesWork
  AtomicUnlessStruck
PROPERTIES
  PoolDiscipline
  EveryTransactionEnds
CHECK_DEADLOCK FALSE
