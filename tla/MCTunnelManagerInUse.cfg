SPECIFICATION Spec
CONSTANTS
  MinPort = 1
  MaxPort = 2
  PortInputs <- MCPortInputs
  Foreign = {}
  MaxTunnels = 3
  MaxConns = 1
INVARIANT
  PortInUseMeansTunnel
