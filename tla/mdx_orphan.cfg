\* A reset while an inference runs in its thread.
SPECIFICATION Spec
CONSTANTS
  tiny = tiny
  wide = wide
  Formats <- BothFormats
  NoFormat = NoFormat
  Rate <- BothRates
  FrameCounts <- OneOrTwo
  SegmentMillis = 250
  OverlapPercent = 25
  MaxSegments = 3
  MaxPackets = 3
  MaxResets = 1
INVARIANT CancelledStops
CHECK_DEADLOCK FALSE
