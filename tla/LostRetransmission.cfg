SPECIFICATION Spec
CONSTANTS
  Payload = {p}
  NoPayload = NoPayload
  SeqModulus = 3
  ProbesPerBaudRate = 1
  ReceivedFrames <- SenderFrames
  MaxQueue = 1
  MaxLate = 1
INVARIANT RetransmissionIsPending
CHECK_DEADLOCK FALSE
