CONSTANTS
  a1 = a1
  a2 = a2
  m1 = m1
  NULL = NULL
  Apps = {a1, a2}
  Workers = {m1}
  Handles = {1, 2}
  Contexts = {1, 2}
  Ops = {1}
  MaxCalls = 5
  Modes = {"iocp", "apc"}
  Faults = {"memory", "handle", "load", "window", "sync", "close", "upcall"}
SPECIFICATION FairSpec
INVARIANTS CountsExact ClosingIsLocked
PROPERTY CompletionsReported
CHECK_DEADLOCK FALSE
