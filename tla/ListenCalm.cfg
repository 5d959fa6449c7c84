CONSTANTS
  w1 = w1
  w2 = w2
  b1 = b1
  b2 = b2
  b3 = b3
  b4 = b4
  b5 = b5
  NULL = NULL
  Main = Main
  Workers = {w1}
  Buffers = {b1,b2,b3,b4,b5}
  gInitialAccepts = 2
  gMaxAccepts = 9
  Burst = 1
  Faults = {"port"}
  MaxClients = 3
  MaxSweeps = 1
SPECIFICATION FairSpec
INVARIANTS TypeOK AcceptsKept CountBalance
PROPERTY BacklogServed
CHECK_DEADLOCK FALSE
