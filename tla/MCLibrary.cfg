CONSTANTS
  Bits <- MCBits
  Room = 20
  PrintJobs <- MCPrintJobs
  ScanJobs <- MCScanJobs
  Memories <- MCMemories
  Chars = {0, 1, 2}
SPECIFICATION Spec
INVARIANTS PrintedIsRendered ReadsBack ScanContract CopiesExact SearchesFind TokensComplete ClassesAgree
CHECK_DEADLOCK FALSE
