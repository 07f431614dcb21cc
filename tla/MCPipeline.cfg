CONSTANTS
  kPipeData = 2
  kPageSize = 1
  MaxStages = 3
  Lines <- CommandLines
  Output <- Outputs
  Newline = "nl"
  MaxKeys = 2
SPECIFICATION FairSpec
INVARIANTS PipeReaderAlive
PROPERTIES ImplementsShell 
CHECK_DEADLOCK FALSE
