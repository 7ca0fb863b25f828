\* A processor is also selected by PUT /processor/{name}.
SPECIFICATION Spec
CONSTANTS
  Handlers = {h1, h2}
  Names <- ControlNames
  Kind <- ControlKind
  Live <- ControlLive
  Levels <- ControlLevels
  Startup <- ControlStartup
  Selectable <- ControlNames
  QueueSize = 1
  SegmentPackets = 1
  MaxPackets = 0
  MaxOversized = 0
  MaxRequests = 2
INVARIANT ActiveLevelMatchesSettings
CHECK_DEADLOCK FALSE
