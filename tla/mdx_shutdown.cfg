\* A shutdown that comes while a change of format resets the processor.
SPECIFICATION Spec
CONSTANTS
  tiny = tiny
  wide = wide
  Formats <- BothFormats
  NoFormat = NoFormat
  Rate <- BothRates
  FrameCounts <- OneOrTwo
  SegmentMillis = 250
  OverlapPercent = 25
  MaxSegments = 3
  MaxPackets = 3
  MaxResets = 1
PROPERTY StopEnds
CHECK_DEADLOCK FALSE
