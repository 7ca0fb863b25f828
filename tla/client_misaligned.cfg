\* A playback limit that is no whole number of frames: 500 Hz stereo and 5 ms
\* are 5 samples, as 22,050 Hz stereo and the default of 250 ms are 11,025.
SPECIFICATION Spec
CONSTANTS
  Rate = 500
  Channels = 2
  PacketMicros = 2000
  PlaybackMs = 5
  PrebufferMs = 2
  ChannelBound = 1
  CaptureSizes <- UpToThreeFrames
  OutputSizes <- OutputRequests
  FrameCounts <- ServerFrames
  MaxCaptured = 2
  MaxDatagrams = 3
INVARIANT FramesWhole
CHECK_DEADLOCK FALSE
