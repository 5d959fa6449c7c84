CONSTANTS
  w1 = w1
  w2 = w2
  b1 = b1
  b2 = b2
  s1 = s1
  s2 = s2
  NULL = NULL
  Workers = {w1,w2}
  Buffers = {b1,b2}
  SockObjs = {s1,s2}
  MaxSends = 1
  MaxConns = 3
  Faults = {"close"}
SPECIFICATION Spec
INVARIANT FreedOnce
CHECK_DEADLOCK FALSE
