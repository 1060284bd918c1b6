SPECIFICATION Spec
CONSTANTS
  MaxPid = 3
  MaxCalls = 2
  MaxExecs = 2
INVARIANTS
  TypeOK
  SavedIsLive
PROPERTIES
  NeverRepeats
  ForkReturnsTwice
