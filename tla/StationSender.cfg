SPECIFICATION Spec
CONSTANTS
  Payload = {p}
  NoPayload = NoPayload
  SeqModulus = 3
  ProbesPerBaudRate = 1
  ReceivedFrames <- SenderFrames
  MaxQueue = 1
  MaxLate = 1
INVARIANTS
  TypeOK
  WaitsForQueuedPacket
  StoppedPeerIsNotWaitedFor
  OneFrameAtATime
  AwaitedWriteEnds
  AliveOnlyWhileStarted
  SupervisionNeverStops
  NoOpportunityMissed
  StoppedPeerIsPolled
CHECK_DEADLOCK FALSE
