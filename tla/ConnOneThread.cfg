CONSTANTS
  w1 = w1
  b1 = b1
  b2 = b2
  s1 = s1
  s2 = s2
  s3 = s3
  b3 = b3
  NULL = NULL
  Workers = {w1}
  Buffers = {b1,b2,b3}
  SockObjs = {s1,s2,s3}
  MaxSends = 2
  MaxConns = 4
  Faults = {"close", "error"}
SPECIFICATION FairSpec
INVARIANTS CountersExact FreedOnce OneBufferPerSocket
PROPERTY EverySendPosted
CHECK_DEADLOCK FALSE
