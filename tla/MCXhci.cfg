CONSTANTS
  kPorts = 2
  kDeviceSize = 2
  kCommandRing = 4
  kEventRing = 2
  kSetupStages = 2
  kWaiters = 2
  Descriptors <- Devices
  Unreliable = {1, 2}
  MaxFaults = 1
SPECIFICATION FairSpec
INVARIANTS OneAtATime TransfersExpected NoLostInterrupt
PROPERTIES RingsAreQueues AllConfigured
CHECK_DEADLOCK FALSE
