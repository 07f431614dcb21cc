CONSTANTS
  kFrameCount = 8
  kBitsPerMapLine = 4
  kHeapFrames = 1
  Task = {main, t2}
  Main = main
  Requests = {1, 2, 3}
  MemoryMaps <- AllMaps
  Preemptible = FALSE
SPECIFICATION FairSpec
INVARIANTS FramesExact
PROPERTIES ImplementsAllocator
