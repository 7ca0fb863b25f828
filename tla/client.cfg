\* Both directions of the client, the death of its threads, and its shutdown.
SPECIFICATION Spec
CONSTANTS
  Rate = 1000
  Channels = 2
  PacketMicros = 2000
  PlaybackMs = 3
  PrebufferMs = 2
  ChannelBound = 2
  CaptureSizes <- UpToThreeFrames
  OutputSizes <- OutputRequests
  FrameCounts <- ServerFrames
  MaxCaptured = 14
  MaxDatagrams = 3
INVARIANTS PlaybackBounded FramesWhole NoReplay ErrorReported
PROPERTIES ImplementsLossyFifo PlaybackBegins ShutdownEnds
CHECK_DEADLOCK FALSE
