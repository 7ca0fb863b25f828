\* The segment machinery, with refused packets, failures, flushes and resets.
SPECIFICATION Spec
CONSTANTS
  low = low
  high = high
  Formats <- BothFormats
  NoFormat = NoFormat
  Rate <- BothRates
  FrameCounts <- OneOrTwo
  SegmentMillis = 500
  BufferLimit = 6
  MaxPackets = 6
  MaxResets = 1
INVARIANTS FramesConsistent OneFormat NothingStale
PROPERTY ImplementsLossyFifo
CHECK_DEADLOCK FALSE
