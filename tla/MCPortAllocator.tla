-------------------------- MODULE MCPortAllocator ---------------------------
(***************************************************************************)
(* A range of four ports, with callers that also name the port numbers     *)
(* just outside it.                                                        *)
(***************************************************************************)
EXTENDS PortAllocator

MCPortInputs == (MinPort - 1)..(MaxPort + 1)
=============================================================================
