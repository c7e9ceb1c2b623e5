SPECIFICATION Spec
CONSTANTS
  MinPort = 1
  MaxPort = 4
  PortInputs <- MCPortInputs
INVARIANTS
  TypeOK
  Partition
PROPERTY
  IsPortPool
