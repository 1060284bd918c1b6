SPECIFICATION Spec
CONSTANTS
  MaxPid = 2
  MaxCalls = 2
  MaxExecs = 2
PROPERTIES
  ExecReturnsError
