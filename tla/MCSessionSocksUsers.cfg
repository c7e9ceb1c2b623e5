SPECIFICATION Spec
CONSTANTS
  AppStates <- CredsStates
  Clients <- UserClients
  MaxTargetData = 1
INVARIANT
  SocksUsersServed
CHECK_DEADLOCK FALSE
