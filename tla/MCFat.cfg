CONSTANTS
  Task = {t1, t2}
  Last = 7
  bytes_per_cluster = 2
  kSlots = 2
  kBase = 2
  kExt = 1
  Upper <- Letters
  Volume <- Six
  root_cluster = 2
  Path <- Paths
  Data <- Texts
  Lengths = {3}
  Misuse = {}
  MaxOpens = 2
  MaxSize = 6
SPECIFICATION Spec
INVARIANTS  OverrunOnlyWhenFull
PROPERTIES ImplementsFiles
CHECK_DEADLOCK FALSE
SYMMETRY Symmetry
