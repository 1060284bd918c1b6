SPECIFICATION Spec
CONSTANTS
  PAGESIZE = 4
  Limit = 9
  End = 6
  Header = 3
  Lens = {0, 1, 2, 5, 8}
  Increments <- ProgramIncrements
  Addrs <- ProgramAddrs
INVARIANTS
  BreakAgrees
  HeapMapped
