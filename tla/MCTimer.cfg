CONSTANTS
  kTimerFreq = 100
  kTaskTimerPeriod = 2
  kTimer05Sec = 3
  App = {app1, app2}
  Modes = {"relative", "absolute"}
  Milliseconds = {0, 20}
  MaxTick = 6
  MaxCreated = 2
SPECIFICATION TimerSpec
INVARIANTS RingsRight PeriodsKept
PROPERTIES ImplementsAlarmClock
CHECK_DEADLOCK FALSE
