--------------------------- MODULE PortAllocator ----------------------------
(***************************************************************************)
(* src/tunnel/port_allocator.rs: the pool of ports that reverse tunnels    *)
(* listen on.  min_port and max_port never change after new(), so they are *)
(* constants; the HashSet is a set and the VecDeque is a sequence whose    *)
(* head is the deque's front.                                              *)
(*                                                                         *)
(* Each operation is a relation between the state, its arguments and its   *)
(* Result, so that a caller (the tunnel manager) can conjoin it with what  *)
(* it does with that Result.                                               *)
(***************************************************************************)
EXTENDS Integers, Sequences, SequencesExt

CONSTANTS MinPort,    \* min_port
          MaxPort,    \* max_port
          PortInputs  \* the u16 values callers pass in, in or out of range

U16Max == 2^16 - 1

\* The assertions of PortAllocator::new.
ASSUME PortRangeAssumption ==
  /\ MinPort \in Nat /\ MinPort > 0
  /\ MaxPort \in Nat /\ MinPort <= MaxPort /\ MaxPort <= U16Max
  /\ PortInputs \subseteq Nat /\ \A p \in PortInputs : p <= U16Max

VARIABLES allocated_ports, available_ports, next_port,
          result                         \* what the latest call returned

allocVars == <<allocated_ports, available_ports, next_port>>
vars == <<allocated_ports, available_ports, next_port, result>>

Ports == MinPort..MaxPort

Pool == INSTANCE PortPool WITH leased <- allocated_ports, reply <- result

Ok(p)     == [tag |-> "Ok", port |-> p]
Err(e, p) == [tag |-> e, port |-> p]
NoPort    == -1       \* None, and the port field of a Result without a port

Results ==
  [tag : {"Ok", "PortOutOfRange", "PortUnavailable", "NoPortsAvailable",
          "PortNotAllocated"},
   port : Ports \cup PortInputs \cup {NoPort}]

-----------------------------------------------------------------------------
is_in_range(port)  == port >= MinPort /\ port <= MaxPort
is_allocated(port) == port \in allocated_ports

\* Mutant: retain drops nothing.
RetainAll(deque, port) == deque

\* available_ports.retain(|&p| p != port).  The deque never holds a port twice
\* (Partition), so there is at most one occurrence to drop.
Retain(deque, port) ==
  IF \E i \in 1..Len(deque) : deque[i] = port
  THEN RemoveAt(deque, CHOOSE i \in 1..Len(deque) : deque[i] = port)
  ELSE deque

Allocate(port) == allocated_ports' = allocated_ports \cup {port}

allocate_specific(port, r) ==
  \/ /\ ~is_in_range(port)
     /\ r = Err("PortOutOfRange", port)
     /\ UNCHANGED allocVars
  \/ /\ is_in_range(port)
     /\ is_allocated(port)
     /\ r = Err("PortUnavailable", port)
     /\ UNCHANGED allocVars
  \/ /\ is_in_range(port)
     /\ ~is_allocated(port)
     /\ r = Ok(port)
     /\ Allocate(port)
     /\ available_ports' = Retain(available_ports, port)
     /\ UNCHANGED next_port

\* next_port after port; and a mutant that does not wrap.
NextUnwrapped(port) == port + 1
NextPort(port) == IF port = MaxPort THEN MinPort ELSE port + 1

allocate_next(r) ==
  \/ /\ available_ports # <<>>
     /\ r = Ok(Head(available_ports))
     /\ Allocate(Head(available_ports))
     /\ available_ports' = Tail(available_ports)
     /\ next_port' = NextPort(Head(available_ports))
  \/ /\ available_ports = <<>>
     /\ r = Err("NoPortsAvailable", NoPort)
     /\ UNCHANGED allocVars

allocate_port(preferred, r) ==
  IF preferred # NoPort THEN allocate_specific(preferred, r) ELSE allocate_next(r)

\* Where a released port goes back into the deque.
Reinsert(port) ==
  IF port < next_port THEN <<port>> \o available_ports
                      ELSE Append(available_ports, port)

\* Mutant: a release of a free port is not an error.
release_unchecked(port, r) ==
  /\ r = Ok(port)
  /\ allocated_ports' = allocated_ports \ {port}
  /\ available_ports' = IF is_allocated(port) THEN Reinsert(port) ELSE available_ports
  /\ UNCHANGED next_port

release_port(port, r) ==
  \/ /\ ~is_allocated(port)
     /\ r = Err("PortNotAllocated", port)
     /\ UNCHANGED allocVars
  \/ /\ is_allocated(port)
     /\ r = Ok(port)
     /\ allocated_ports' = allocated_ports \ {port}
     /\ available_ports' = Reinsert(port)
     /\ UNCHANGED next_port
-----------------------------------------------------------------------------
\* PortAllocator::new
AllocInit ==
  /\ allocated_ports = {}
  /\ available_ports = [i \in 1..(MaxPort - MinPort + 1) |-> MinPort + i - 1]
  /\ next_port = MinPort

Init == AllocInit /\ result = Ok(NoPort)

Next ==
  \/ \E preferred \in PortInputs \cup {NoPort} : allocate_port(preferred, result')
  \/ \E port \in PortInputs : release_port(port, result')

Spec == Init /\ [][Next]_vars
-----------------------------------------------------------------------------
\* Every variable keeps its type.
TypeOK ==
  /\ allocated_ports \subseteq Ports
  /\ available_ports \in Seq(Ports)
  /\ next_port \in Ports
  /\ result \in Results

\* Over any sequence of calls every port of the range is in exactly one of the
\* HashSet and the VecDeque, and in the VecDeque at most once: no port is lost by
\* allocate_specific/release_port, and allocate_next never hands out a port in use.
Partition ==
  /\ \A p \in Ports : p \in allocated_ports \/ \E i \in 1..Len(available_ports) : available_ports[i] = p
  /\ \A i \in 1..Len(available_ports) : available_ports[i] \notin allocated_ports
  /\ \A i, j \in 1..Len(available_ports) :
        available_ports[i] = available_ports[j] => i = j

\* The allocator is a port pool: whatever order it keeps its deque in, each reply
\* is the one the set of leased ports calls for.
IsPortPool == Pool!Spec
=============================================================================
