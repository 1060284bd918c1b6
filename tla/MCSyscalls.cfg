SPECIFICATION Spec
CONSTANTS
  PAGESIZE = 8192
  MAX_PT_LEN = 128
  Values <- ProgramValues
  Strings <- Arguments
  Pids = {1, 2}
  Images = {4, 125, 126}
  MaxArgs = 2
CHECK_DEADLOCK FALSE
INVARIANTS
  StackWellFormed
  CallsAnswered
