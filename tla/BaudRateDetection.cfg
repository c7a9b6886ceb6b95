SPECIFICATION DetectionSpec
CONSTANT ProbesPerBaudRate = 4
INVARIANTS
  DetectionTypeOK
  ReprobingHeardNothing
PROPERTIES
  HeardDeviceIsKept
  GivenUpAfterReprobing
  DeviceIsFound
  SilentDeviceIsHunted
