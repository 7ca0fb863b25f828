\* Live changes, updates, restores and selections of processors that compete.
SPECIFICATION Spec
CONSTANTS
  Handlers = {h1, h2}
  Environments <- TheEnvironments
  Payloads <- ThePayloads
  Requested <- Selected
  CudaDevices <- TheCudaDevices
  HasGpu = FALSE
  MaxRequests = 3
INVARIANTS ActiveUsesSettings EveryProcessorConstructs AskedIsReported
CHECK_DEADLOCK FALSE
