\* A slow inference, and packets that keep arriving.
SPECIFICATION Spec
CONSTANTS
  low = low
  high = high
  Formats <- BothFormats
  NoFormat = NoFormat
  Rate <- BothRates
  FrameCounts <- OneOrTwo
  SegmentMillis = 500
  BufferLimit = 4
  MaxPackets = 6
  MaxResets = 1
INVARIANT InputBounded
CHECK_DEADLOCK FALSE
