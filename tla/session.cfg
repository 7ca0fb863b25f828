\* From capture to playback over a network that loses, repeats and reorders.
SPECIFICATION Spec
CONSTANTS
  Rigs <- TheRigs
  Headers <- TheHeaders
  Strays <- TheStrays
  SequenceSpace = 3
  MaxPacketSize = 65535
  MaxUdpPayload = 65507
  MaxSent = 4
  MaxStrays = 1
  MaxInFlight = 2
INVARIANTS CodecsAgree DiscontinuitiesReported OneFormat
PROPERTY InCaptureOrder
CHECK_DEADLOCK FALSE
