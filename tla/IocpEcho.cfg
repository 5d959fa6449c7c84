CONSTANTS
  w1 = w1
  w2 = w2
  w3 = w3
  NULL = NULL
  Conns = {"c1"}
  Listener = "L"
  ThreadSets = {{w1}, {w1, w2}, {w1, w2, w3}}
  gOverlappedCount = 2
  MaxUnits <- MCUnits
  Protocols = {"tcp", "udp"}
  Faults <- MCFaults
SPECIFICATION FairSpec
INVARIANTS OrdersContiguous FreedOnce
PROPERTY ImplementsEcho EverythingSettled
CHECK_DEADLOCK FALSE
