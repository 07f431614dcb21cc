CONSTANTS
  Task = {t1, t2}
  elf = elf
  text = text
  App <- Files
  Elf <- Programs
  kFrames = 14
  kEntries = 3
  kUserBegin = 1
  kStackPages = 1
  Zero = "zero"
  Args = "args"
  Stale = "stale"
  Written = "written"
  Image <- TwoPages
  File <- OneFile
  MaxRuns = 2
  Touched = {4, 5}
  SharedBuffers = FALSE
  LongArguments = TRUE
SPECIFICATION Spec
SYMMETRY TaskSymmetry
INVARIANTS ImageIntact  HaltsOnlyWhenFull
PROPERTIES ImplementsPrivateMemory
CHECK_DEADLOCK FALSE
