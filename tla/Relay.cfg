SPECIFICATION Spec
CONSTANTS
  MaxData = 2
  BufSize = 2
  Window = 1
INVARIANTS
  TypeOK
  Conserved
  CleanClose
PROPERTIES
  ImplementsPipe
  HalfCloseDelivered
CHECK_DEADLOCK FALSE
