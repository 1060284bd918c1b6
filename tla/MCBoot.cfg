SPECIFICATION BootSpec
CONSTANTS
  MaxPid = 1
  NFrames = 14
  PTLen = 9
  KernelPages = 2
  HeapMax = 6
  Breaks = {}
  Programs = {}
INVARIANTS
  HeapKept
  StartsMemory
CHECK_DEADLOCK FALSE
