SPECIFICATION FairSpec
CONSTANTS
  NoPayload = NoPayload
  SeqModulus = 2
  ProbesPerBaudRate = 1
  MaxQueue = 1
  MaxPackets = 3
  DevicePackets = 1
  MaxLine = 2
  MaxRestarts = 0
  BusyDevice = FALSE
  SlowTimers = TRUE
INVARIANT TypeOK
PROPERTIES
  DeliveredOnce
  AcceptedIsDelivered

