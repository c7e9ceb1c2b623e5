-------------------------- MODULE MCTunnelManager ---------------------------
(***************************************************************************)
(* Two ports, callers that also name a port outside the range, and enough  *)
(* tunnels for a port to be opened, closed, opened and closed again.       *)
(***************************************************************************)
EXTENDS TunnelManager

MCPortInputs == MinPort..(MaxPort + 1)
=============================================================================
