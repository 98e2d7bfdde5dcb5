SPECIFICATION FairSpec
CONSTANTS
  c1 = c1
  c2 = c2
  c3 = c3
  c4 = c4
  p1 = p1
  p2 = p2
  Callers <- MCCallers
  Pings <- MCPings
  MinConnections = 1
  MaxConnections = 2
  HeartbeatMs = 1
INVARIANTS
  TypeOK
  LeaseAccounting
  WaitOnlyWhenFull
  QueueIsPending
PROPERTIES
  ClosedPoolDrains
  KeepsPromise
  EveryWaiterIsServed
  HeartbeatRecovers
