SPECIFICATION Spec
CONSTANTS
  Classes = {c1, c2}
  Names = {n1, n2}
  Queries = {"*", n1}
  Lookups = {l1, l2}
  MAX_SERVICE_CLASSES = 1
  MAX_SERVICES = 2
  MAX_QUERIES = 2
  MaxIds = 3
  Faults = {"small", "info"}
SYMMETRY Symm
INVARIANTS TypeOK NamesUnique NoRepeat ReturnedButForRemovals
CHECK_DEADLOCK FALSE
