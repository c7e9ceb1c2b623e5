------------------------------ MODULE PortPool ------------------------------
(***************************************************************************)
(* What a port allocator promises its callers, without the order in which  *)
(* it hands ports out: a set of leased ports, and the reply to the latest  *)
(* call.  A port is never leased twice, a free port is never refused, and  *)
(* NoPortsAvailable is said only when every port is leased.                *)
(***************************************************************************)
EXTENDS Integers

CONSTANTS Ports,      \* the ports of the pool
          PortInputs  \* the port numbers a caller may name

VARIABLES leased, reply

vars == <<leased, reply>>

Ok(p)     == [tag |-> "Ok", port |-> p]
Err(e, p) == [tag |-> e, port |-> p]
NoPort    == -1       \* the port field of a reply that is not about a port

Init == leased = {} /\ reply = Ok(NoPort)

LeaseNamed(p) ==
  \/ p \in Ports \ leased /\ leased' = leased \cup {p} /\ reply' = Ok(p)
  \/ p \notin Ports /\ reply' = Err("PortOutOfRange", p) /\ UNCHANGED leased
  \/ p \in leased /\ reply' = Err("PortUnavailable", p) /\ UNCHANGED leased

LeaseAny ==
  \/ \E p \in Ports \ leased : leased' = leased \cup {p} /\ reply' = Ok(p)
  \/ Ports \subseteq leased /\ reply' = Err("NoPortsAvailable", NoPort) /\ UNCHANGED leased

Release(p) ==
  \/ p \in leased /\ leased' = leased \ {p} /\ reply' = Ok(p)
  \/ p \notin leased /\ reply' = Err("PortNotAllocated", p) /\ UNCHANGED leased

Next == LeaseAny \/ \E p \in PortInputs : LeaseNamed(p) \/ Release(p)

Spec == Init /\ [][Next]_vars
=============================================================================
