SPECIFICATION Spec
CONSTANTS
  MinPort = 1
  MaxPort = 2
  PortInputs <- MCPortInputs
  Foreign = {2}
  MaxTunnels = 3
  MaxConns = 1
INVARIANTS
  TypeOK
  TablesAgree
  AbortedAreUnlisted
  BindLosesOnlyToTheClosed
PROPERTIES
  PoolUntilShutdown
  ClosedListenersEnd
