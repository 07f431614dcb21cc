CONSTANTS
  ScreenSize <- Screen
  KernelWindows <- KernelAt
  ConsoleSize <- Line
  WindowSize <- Square
  MouseSize <- Cursor
  MouseClear <- Clear
  CloseButton <- Button
  TitleBar <- Title
  TextArea <- Text
  Tasks = {t1}
  TerminalPos <- Left
  OpenAt <- Corners
  Displacements <- Steps
  Garbage <- Junk
  MaxLayerID = 5
  MaxRequests = 1
  ClosedUnderDrag = FALSE
SPECIFICATION Spec
INVARIANTS    AltAVisitsAll
 
