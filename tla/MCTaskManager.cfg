CONSTANTS
  kMaxLevel = 3
  kDefaultLevel = 1
  MaxTasks = 5
  MaxMsgs = 1
  Message = {m1}
  ExitCode = {0}
  WakeLevels <- NoLevels
  ForeignSleep = FALSE
SPECIFICATION FairSpec
INVARIANTS FinishesReachWaiters NoLostMessage
PROPERTIES Served
