\* One decryption at a time, a buffer of one frame, both users may cancel, both sides may close, one loss each; fair event loops.
SPECIFICATION FairSpec
CONSTANTS
  t1 = t1
  t2 = t2
  a = a
  b = b
  Transfers <- OneTransfer
  Block <- Blocks
  File <- TwoChunkFile
  NotSaved = NotSaved
  Workers = 1
  HighWater = 0
  Cancels <- BothCancel
  Closers <- BothClose
  MaxLost = 1
INVARIANTS
  NoFalseMismatch
PROPERTIES
  ReceiversCancelStops
  CancelAheadOfCompleteWins
  StreamEnds
  AcceptedIsSaved
CHECK_DEADLOCK FALSE
