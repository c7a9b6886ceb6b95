SPECIFICATION Spec
CONSTANTS
  Payload = {p}
  NoPayload = NoPayload
  SeqModulus = 2
  ProbesPerBaudRate = 1
  ReceivedFrames <- FramesWithoutRNR
  MaxQueue = 1
  MaxLate = 1
INVARIANTS
  RetransmissionIsPending
  AcknowledgementIsSent
CHECK_DEADLOCK FALSE
