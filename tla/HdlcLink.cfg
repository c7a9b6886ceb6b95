SPECIFICATION Spec
CONSTANTS
  NoPayload = NoPayload
  SeqModulus = 2
  ProbesPerBaudRate = 1
  MaxQueue = 1
  MaxPackets = 2
  DevicePackets = 3
  MaxLine = 1
  MaxRestarts = 1
  BusyDevice = TRUE
  SlowTimers = FALSE
PROPERTIES
  ImplementsReliableStream
  ImplementsDeviceStream
CONSTRAINT DeviceSendsUndisturbed
CHECK_DEADLOCK FALSE
