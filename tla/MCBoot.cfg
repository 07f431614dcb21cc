CONSTANTS
  kPage = 2
  Pages = 6
  Kernels <- TwoKernels
  BufferSize = 4
  MaxKey = 5
  Buses = {0, 1, 2}
  Slots = {0, 1, 2}
  Functions = {0, 1}
  kMaxDevices = 5
  Spaces <- AllSpaces
  PoolBases = {1048576, 1052544}
  Scratchpads = {0, 2, 31}
  DeviceSizes = {100, 2790}
  MaxBlocks = 7
  AcpiTables <- Firmwares
  PmPeriods <- Periods
  kWait = 5
  PollTicks = 2
  EndMissed = FALSE
SPECIFICATION Spec
INVARIANTS KernelIsLoaded AllDevicesFound WaitIsLongEnough BlocksAreSound FindsInitialised
PROPERTIES StartsInOrder BootEnds
CHECK_DEADLOCK FALSE
