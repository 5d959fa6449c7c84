CONSTANTS
  w1 = w1
  w2 = w2
  b1 = b1
  b2 = b2
  b3 = b3
  b4 = b4
  NULL = NULL
  Main = Main
  Workers = {w1,w2}
  Buffers = {b1,b2,b3,b4}
  gInitialAccepts = 2
  gMaxAccepts = 3
  Burst = 1
  Faults = {"error","post","memory","port"}
  MaxClients = 2
  MaxSweeps = 0
SPECIFICATION Spec
SYMMETRY Symm
INVARIANTS CountBalance AcceptLimit ListsApart
CHECK_DEADLOCK FALSE
