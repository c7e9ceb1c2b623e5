SPECIFICATION Spec
CONSTANTS
  CommandLines <- MCCommandLines
  Clients = {c1, c2, c3}
INVARIANTS
  TypeOK
  ServesAsAsked
PROPERTY
  ClientsAccepted
CHECK_DEADLOCK FALSE
