SPECIFICATION Spec
CONSTANTS
  AppStates <- AllStates
  Clients <- AllClients
  MaxTargetData = 1
INVARIANTS
  TypeOK
  AuthGate
  RightTarget
  TunnelTransparent
  OpenProxyServes
  HandshakeConsumed
  TunnelInOrder
PROPERTIES
  HandshakeEnds
  OpenClientsAnswered
CHECK_DEADLOCK FALSE
