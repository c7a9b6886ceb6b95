SPECIFICATION Spec
CONSTANTS
  Clients = {c1, c2, c3}
  MaxQueue = 1
  MaxOperations = 4
INVARIANTS
  TypeOK
  LocksAreCounted
  ClientsAreInformed
  StalledByItsPacket
  ListensWhileOpen
PROPERTY ImplementsPortLocking
CHECK_DEADLOCK FALSE
