SPECIFICATION FairSpec
CONSTANTS
  Clients = {c1, c2, c3}
  Handlers = {h1, h2}
  Names = {n1, n2}
  Sessions = {"PAYLOAD", "RAW"}
  None = None
INVARIANTS
  TypeOK
  NobodyIsPassedOver
  SubscribersAreCounted
  PortsFollowClients
CHECK_DEADLOCK FALSE
PROPERTIES
  CallsReturn
  ShutdownReleasesAll
