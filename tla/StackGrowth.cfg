SPECIFICATION Spec
CONSTANTS
  MaxPid = 1
  NFrames = 16
  PTLen = 6
  KernelPages = 1
  HeapMax = 1
  Breaks = {7, 9}
  Programs <- Executables
CHECK_DEADLOCK FALSE
PROPERTIES
  StackGrows
