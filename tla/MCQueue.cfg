SPECIFICATION Spec
CONSTANTS
  Queues = {q1, q2, q3}
  Elements = {e1, e2}
  Node = {n1, n2, n3, n4}
  NULL = NULL
SYMMETRY Symmetry
CHECK_DEADLOCK FALSE
INVARIANTS
  TypeOK
  NoFreedAccess
  NodesAccountedFor
PROPERTY
  ImplementsFifo
