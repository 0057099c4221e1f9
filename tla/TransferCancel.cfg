\* The receiver cancels while the sender is past its last look at info.state.
SPECIFICATION Spec
CONSTANTS
  t1 = t1
  t2 = t2
  a = a
  b = b
  Transfers <- OneTransfer
  Block <- Blocks
  File <- TwoChunkFile
  NotSaved = NotSaved
  Workers = 1
  HighWater = 1
  Cancels <- ReceiverCancels
  Closers <- NobodyCloses
  MaxLost = 0
PROPERTIES
  CancelledIsNotSaved
CHECK_DEADLOCK FALSE
