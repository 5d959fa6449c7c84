CONSTANTS
  w1 = w1
  b1 = b1
  b2 = b2
  b3 = b3
  b4 = b4
  b5 = b5
  NULL = NULL
  Main = Main
  Workers = {w1}
  Buffers = {b1,b2,b3,b4,b5}
  gInitialAccepts = 1
  gMaxAccepts = 1
  Burst = 2
  Faults = {}
  MaxClients = 4
  MaxSweeps = 0
SPECIFICATION FairSpec
PROPERTY BacklogServed
CHECK_DEADLOCK FALSE
