\* Two decryptions at a time, two files (one empty), the sender may cancel the first and the receiver the second, both sides may close.
SPECIFICATION Spec
CONSTANTS
  t1 = t1
  t2 = t2
  a = a
  b = b
  Transfers <- TwoTransfers
  Block <- Blocks
  File <- TwoChunksAndEmpty
  NotSaved = NotSaved
  Workers = 2
  HighWater = 1
  Cancels <- CancelEach
  Closers <- BothClose
  MaxLost = 0
INVARIANTS
  TypeOK
  ConsentFirst
  SavedMeansSent
  ChunkConservation
PROPERTIES
  DeliverySpec
CHECK_DEADLOCK FALSE
