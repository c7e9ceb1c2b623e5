SPECIFICATION Spec
CONSTANTS
  Hellos <- MCHellos
  PeekMax = 64
INVARIANTS
  TypeOK
  WholeNameOrUnknown
CHECK_DEADLOCK FALSE
