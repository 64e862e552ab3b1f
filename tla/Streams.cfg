CONSTANTS
  Duration = 4
  PacketChunk <- Skewed
  LastChunk = 3
  Metadata <- AtTheStart
  SmallMedia = {TRUE, FALSE}
  ReadyWindow = 1
  LowWatermark = 1
  HighWatermark = 1
  TrimGranularity = 1
  ByteRetainBehind = 1
  MaxPendingOffsets = 1
  FetchAttempts = 2
  Targets = {0, 3}
  MaxCalls = 2
SPECIFICATION FairSpec
INVARIANT TypeOK MemoryIsBounded
PROPERTY StreamsReport PlayingGoesOn CanceledThreadsEnd
CHECK_DEADLOCK FALSE
