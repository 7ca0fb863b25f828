\* The control path: two requests in flight, live changes, packets, a shutdown.
SPECIFICATION Spec
CONSTANTS
  Handlers = {h1, h2}
  Names <- ControlNames
  Kind <- ControlKind
  Live <- ControlLive
  Levels <- ControlLevels
  Startup <- ControlStartup
  Selectable <- ControlNames
  QueueSize = 1
  SegmentPackets = 1
  MaxPackets = 2
  MaxOversized = 0
  MaxRequests = 2
INVARIANTS LockDiscipline NobodyStuck OneServing
PROPERTIES ImplementsControlPlane InstallsStarted FailureChangesNothing FlushedBeforeStopped RequestsEnd QueueDrains StopEnds
CHECK_DEADLOCK FALSE
