CONSTANTS
  c1 = c1
  l1 = l1
  l2 = l2
  NULL = NULL
  Conns = {c1}
  Listeners = {l1, l2}
  Protocols = {"tcp", "udp"}
  gBufferSize = 3
  MaxBytes = 5
  MaxPending = 3
  Faults = {"reset", "thread", "accept"}
SPECIFICATION FairSpec
INVARIANTS SemaphoreBalance FreedLast
PROPERTIES ImplementsEcho EveryoneServed
CHECK_DEADLOCK FALSE
