\* The media path: queue, worker, segmented processor, one control request.
SPECIFICATION Spec
CONSTANTS
  Handlers = {h1}
  Names <- PathNames
  Kind <- PathKind
  Live <- NoLive
  Levels <- OneLevel
  Startup <- PathStartup
  Selectable <- PathNames
  QueueSize = 2
  SegmentPackets = 2
  MaxPackets = 4
  MaxOversized = 1
  MaxRequests = 1
INVARIANTS TypeOK PacketsAccounted OutputsAccounted QueueBounded SenderNotOlder
PROPERTY ImplementsLossyFifo
CHECK_DEADLOCK FALSE
