CONSTANTS
  kMaxLevel = 2
  kDefaultLevel = 1
  MaxTasks = 4
  MaxMsgs = 1
  Message = {m1}
  ExitCode = {0}
  WakeLevels <- AllLevels
  ForeignSleep = TRUE
SPECIFICATION Spec
INVARIANTS RunQueuesAgree
PROPERTIES ImplementsScheduler
