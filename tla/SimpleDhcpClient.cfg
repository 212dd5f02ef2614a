CONSTANTS
  Macs <- MCMacs
  Frames <- MCFrames
  QueueLimit = 2
  Data <- MCData
SPECIFICATION Spec
INVARIANTS
  TypeOK
  FrameWellFormed
  ChecksumVerifies
PROPERTY
  AnswerEndsTheWait
CHECK_DEADLOCK FALSE
