\* Two decryptions at a time, and nothing else goes wrong.
SPECIFICATION Spec
CONSTANTS
  t1 = t1
  t2 = t2
  a = a
  b = b
  Transfers <- OneTransfer
  Block <- Blocks
  File <- TwoChunkFile
  NotSaved = NotSaved
  Workers = 2
  HighWater = 1
  Cancels <- NoCancel
  Closers <- NobodyCloses
  MaxLost = 0
INVARIANTS
  NoFalseMismatch
CHECK_DEADLOCK FALSE
