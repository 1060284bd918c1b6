SPECIFICATION Spec
CONSTANTS
  MaxPid = 2
  NFrames = 19
  PTLen = 6
  KernelPages = 2
  HeapMax = 3
  Breaks = {7, 10}
  Programs <- Executables
CHECK_DEADLOCK FALSE
INVARIANTS
  TypeOK
  SingleOwner
  OwnedUsed
  KernelLayout
  BelowBreakMapped
  LayoutMatches
PROPERTIES
  KernelStackStable
  FramesAccountedFor
