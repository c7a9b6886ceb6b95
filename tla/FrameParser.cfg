SPECIFICATION Spec
CONSTANTS
  Sent <- MCSent
  Junk <- MCJunk
  max_length = 8
  Changed <- MCChanged
INVARIANTS
  TypeOK
  OnlySentFrames
  Resynchronises
CHECK_DEADLOCK FALSE
