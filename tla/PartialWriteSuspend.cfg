SPECIFICATION Spec
CONSTANTS
  Clients = {c1, c2}
  MaxQueue = 1
  MaxOperations = 4
INVARIANT NoWriteInProgress
CHECK_DEADLOCK FALSE
