CONSTANTS
  kFrameCount = 6
  kBitsPerMapLine = 4
  kHeapFrames = 1
  Task = {main, t2}
  Main = main
  Requests = {1}
  MemoryMaps <- OneMap
  Preemptible = TRUE
SPECIFICATION Spec
INVARIANTS SingleUse
