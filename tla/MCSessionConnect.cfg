SPECIFICATION Spec
CONSTANTS
  AppStates <- CredsStates
  Clients <- ConnectClients
  MaxTargetData = 1
INVARIANT
  ConnectServed
CHECK_DEADLOCK FALSE
