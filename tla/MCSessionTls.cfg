SPECIFICATION Spec
CONSTANTS
  AppStates <- OpenStates
  Clients <- TlsConnectClients
  MaxTargetData = 1
INVARIANT
  TlsServed
CHECK_DEADLOCK FALSE
