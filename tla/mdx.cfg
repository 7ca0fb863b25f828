\* The processor with everything that can happen to it, up to the shutdown.
SPECIFICATION Spec
CONSTANTS
  tiny = tiny
  wide = wide
  Formats <- BothFormats
  NoFormat = NoFormat
  Rate <- BothRates
  FrameCounts <- OneOrTwo
  SegmentMillis = 250
  OverlapPercent = 25
  MaxSegments = 3
  MaxPackets = 7
  MaxResets = 1
INVARIANTS InputBounded HeldBounded OneFormat NothingStale PacketsAccounted
PROPERTY ImplementsLossyFifo
CHECK_DEADLOCK FALSE
