--------------------------- MODULE TunnelManager ----------------------------
(***************************************************************************)
(* src/tunnel/manager.rs: reverse tunnels, composed with the allocator of  *)
(* their ports.                                                            *)
(*                                                                         *)
(* The manager's methods take &mut self and await nothing, so a call is    *)
(* one step.  What runs beside it are the tasks: a listener per tunnel,    *)
(* and the connections it accepts, which nobody keeps a handle of.  abort  *)
(* is a request: a task that is being polled goes on to its next await,    *)
(* and only when the runtime drops it is its socket closed.                *)
(***************************************************************************)
EXTENDS Integers, Sequences

CONSTANTS MinPort, MaxPort,   \* of the port allocator
          PortInputs,         \* the port numbers callers name
          Foreign,            \* ports of the range that other processes listen on
          MaxTunnels,         \* bound on the tunnels created
          MaxConns            \* bound on the connections accepted

VARIABLES
  allocated_ports, available_ports, next_port,   \* the PortAllocator
  active_tunnels,   \* by port: the listed tunnel, or None
  tasks,            \* by port: the handles kept, <<>> for no entry
  result,           \* what the latest call returned
  created,          \* the tunnels created so far are 1..created
  listen_port, listener, aborted,   \* by tunnel: its listener task
  conn_of, conn,    \* by connection: the tunnel it came in by, its task
  shut              \* history: shutdown has been called

A == INSTANCE PortAllocator

port_allocator == <<allocated_ports, available_ports, next_port>>
calls == <<port_allocator, active_tunnels, tasks, result, created, listen_port, shut>>
conns == <<conn_of, conn>>
vars  == <<calls, listener, aborted, conns>>

Ports   == MinPort..MaxPort
Tunnels == 1..MaxTunnels
Conns   == 1..MaxConns
None    == 0
NoPort  == A!NoPort

ASSUME TunnelAssumption ==
  /\ MinPort \in Nat /\ MinPort > 0
  /\ MaxPort \in Nat /\ MinPort <= MaxPort /\ MaxPort <= A!U16Max
  /\ PortInputs \subseteq 0..A!U16Max
  /\ Foreign \subseteq Ports
  /\ MaxTunnels \in Nat /\ MaxConns \in Nat

Ok(p)     == [tag |-> "Ok", port |-> p]
Err(e, p) == [tag |-> e, port |-> p]

\* impl From<PortAllocError> for TunnelError
FromPortAllocError(r) ==
  [r EXCEPT !.tag = CASE r.tag = "PortUnavailable"  -> "PortInUse"
                      [] r.tag = "PortNotAllocated" -> "AllocationError"
                      [] OTHER                      -> r.tag]
-----------------------------------------------------------------------------
HasTunnel(port) == port \in Ports /\ active_tunnels[port] # None

\* Spawn a listener for port and keep its handle and its tunnel.
StartTunnel(id, port) ==
  /\ created' = id
  /\ listen_port' = [listen_port EXCEPT ![id] = port]
  /\ listener' = [listener EXCEPT ![id] = "spawned"]
  /\ tasks' = [tasks EXCEPT ![port] = Append(@, id)]
  /\ active_tunnels' = [active_tunnels EXCEPT ![port] = id]

create_reverse_tunnel(preferred_port) ==
  /\ created < MaxTunnels
  /\ \E r \in A!Results :
       /\ A!allocate_port(preferred_port, r)
       /\ IF r.tag = "Ok"
          THEN StartTunnel(created + 1, r.port) /\ result' = r
          ELSE /\ result' = FromPortAllocError(r)
               /\ UNCHANGED <<created, listen_port, listener, tasks, active_tunnels>>
  /\ UNCHANGED <<aborted, conns, shut>>

\* Mutants: the handles are dropped, which detaches their tasks; every listener is
\* aborted.
DetachTasks(port) ==
  tasks' = [tasks EXCEPT ![port] = <<>>] /\ UNCHANGED aborted
AbortAllTasks(port) ==
  /\ aborted' = 1..created
  /\ tasks' = [tasks EXCEPT ![port] = <<>>]

AbortTasks(port) ==
  /\ aborted' = aborted \cup {tasks[port][i] : i \in 1..Len(tasks[port])}
  /\ tasks' = [tasks EXCEPT ![port] = <<>>]

\* The tunnel is unlisted and its port free before its listener is aborted, and a
\* release that failed would leave the listener running.
close_tunnel(port) ==
  /\ \/ /\ ~HasTunnel(port)
        /\ result' = Err("TunnelNotFound", port)
        /\ UNCHANGED <<port_allocator, active_tunnels, tasks, aborted>>
     \/ /\ HasTunnel(port)
        /\ active_tunnels' = [active_tunnels EXCEPT ![port] = None]
        /\ \E r \in A!Results :
             /\ A!release_port(port, r)
             /\ IF r.tag = "Ok"
                THEN AbortTasks(port) /\ result' = Ok(port)
                ELSE /\ result' = Err("PortReleaseError", port)
                     /\ UNCHANGED <<tasks, aborted>>
  /\ UNCHANGED <<created, listen_port, listener, conns, shut>>

\* Mutant: the tunnels stay listed.
shutdown_keeps_tunnels ==
  /\ aborted' = aborted \cup UNION {{tasks[p][i] : i \in 1..Len(tasks[p])} : p \in Ports}
  /\ tasks' = [p \in Ports |-> <<>>]
  /\ result' = Ok(NoPort) /\ shut' = TRUE
  /\ UNCHANGED <<port_allocator, active_tunnels, created, listen_port, listener, conns>>

shutdown ==
  /\ aborted' = aborted \cup UNION {{tasks[p][i] : i \in 1..Len(tasks[p])} : p \in Ports}
  /\ tasks' = [p \in Ports |-> <<>>]
  /\ active_tunnels' = [p \in Ports |-> None]
  /\ result' = Ok(NoPort) /\ shut' = TRUE
  /\ UNCHANGED <<port_allocator, created, listen_port, listener, conns>>
-----------------------------------------------------------------------------
\* tunnel_listener_task.  Two sockets cannot listen on one port.
PortHeld(port) ==
  port \in Foreign \/ \E id \in Tunnels : listener[id] = "listening" /\ listen_port[id] = port

bind(id) ==
  /\ listener[id] = "spawned"
  /\ listener' = [listener EXCEPT ![id] = IF PortHeld(listen_port[id]) THEN "returned"
                                                                       ELSE "listening"]
  /\ UNCHANGED <<calls, aborted, conns>>

\* A failed accept is logged and tried again.
accept(id) ==
  /\ listener[id] = "listening"
  /\ \E c \in Conns : /\ conn[c] = "none" /\ \A d \in 1..(c - 1) : conn[d] # "none"
                      /\ conn' = [conn EXCEPT ![c] = "connecting"]
                      /\ conn_of' = [conn_of EXCEPT ![c] = id]
  /\ UNCHANGED <<calls, listener, aborted>>

\* The runtime drops an aborted task, and with it the task's socket.
cancel(id) ==
  /\ id \in aborted /\ listener[id] \in {"spawned", "listening"}
  /\ listener' = [listener EXCEPT ![id] = "gone"]
  /\ UNCHANGED <<calls, aborted, conns>>

\* handle_tunnel_connection: a dial without a timeout, then two copies (see Relay).
handle_tunnel_connection(c) ==
  /\ \/ conn[c] = "connecting" /\ \E st \in {"relaying", "ended"} : conn' = [conn EXCEPT ![c] = st]
     \/ conn[c] = "relaying" /\ conn' = [conn EXCEPT ![c] = "ended"]
  /\ UNCHANGED <<calls, listener, aborted, conn_of>>
-----------------------------------------------------------------------------
\* TunnelManager::new
Init ==
  /\ A!AllocInit
  /\ active_tunnels = [p \in Ports |-> None] /\ tasks = [p \in Ports |-> <<>>]
  /\ result = Ok(NoPort) /\ created = 0
  /\ listen_port = [id \in Tunnels |-> NoPort]
  /\ listener = [id \in Tunnels |-> "none"] /\ aborted = {}
  /\ conn_of = [c \in Conns |-> None] /\ conn = [c \in Conns |-> "none"]
  /\ shut = FALSE

Next ==
  \/ \E p \in PortInputs \cup {NoPort} : create_reverse_tunnel(p)
  \/ \E p \in PortInputs : close_tunnel(p)
  \/ shutdown
  \/ \E id \in Tunnels : bind(id) \/ accept(id) \/ cancel(id)
  \/ \E c \in Conns : handle_tunnel_connection(c)

\* The runtime polls a spawned task and drops an aborted one.
Fairness == \A id \in Tunnels : WF_vars(bind(id)) /\ WF_vars(cancel(id))

Spec == Init /\ [][Next]_vars /\ Fairness
-----------------------------------------------------------------------------
ListenerStates == {"none", "spawned", "listening", "returned", "gone"}
Errors == {"PortOutOfRange", "PortInUse", "NoPortsAvailable", "AllocationError",
           "TunnelNotFound", "PortReleaseError"}

\* Every variable keeps its type.
TypeOK ==
  /\ active_tunnels \in [Ports -> 0..created] /\ tasks \in [Ports -> Seq(1..created)]
  /\ allocated_ports \subseteq Ports /\ available_ports \in Seq(Ports) /\ next_port \in Ports
  /\ result \in [tag : {"Ok"} \cup Errors, port : Ports \cup PortInputs \cup {NoPort}]
  /\ created \in 0..MaxTunnels /\ aborted \subseteq 1..created
  /\ listen_port \in [Tunnels -> Ports \cup {NoPort}]
  /\ listener \in [Tunnels -> ListenerStates]
  /\ conn_of \in [Conns -> 0..created]
  /\ conn \in [Conns -> {"none", "connecting", "relaying", "ended"}]
  /\ shut \in BOOLEAN

Listed(id) == \E p \in Ports : active_tunnels[p] = id

\* The three tables agree: a port has a handle exactly when it has a tunnel, it is
\* the handle of that tunnel's listener, and the allocator counts the port as taken.
\* So close_tunnel cannot fail between its steps, also after a shutdown.
TablesAgree ==
  /\ \A p \in Ports :
       /\ tasks[p] = IF active_tunnels[p] = None THEN <<>> ELSE <<active_tunnels[p]>>
       /\ active_tunnels[p] # None =>
            p \in allocated_ports /\ listen_port[active_tunnels[p]] = p
  /\ result.tag # "PortReleaseError"

\* close_tunnel ("Abort tasks associated with this port only") and shutdown stop the
\* listeners of the tunnels they unlist and no others: no listener is left running
\* without a tunnel, and no tunnel loses its listener to another's close.
AbortedAreUnlisted == \A id \in 1..created : id \in aborted <=> ~Listed(id)

\* A listed tunnel whose port no other process has is without a listener only where an
\* earlier tunnel, since aborted, was given the same port: two listed tunnels never
\* compete for a port, whatever order the allocator hands ports out in.
BindLosesOnlyToTheClosed ==
  \A p \in Ports \ Foreign :
    active_tunnels[p] # None /\ listener[active_tunnels[p]] = "returned" =>
      \E old \in aborted : old < active_tunnels[p] /\ listen_port[old] = p

\* Until it is shut down the manager is a port pool to its callers: whatever the
\* tasks do, each reply is the one that the set of open tunnels calls for.
PoolReply ==
  [result EXCEPT !.tag = CASE result.tag = "PortInUse"      -> "PortUnavailable"
                           [] result.tag = "TunnelNotFound" -> "PortNotAllocated"
                           [] OTHER                         -> result.tag]
Pool == INSTANCE PortPool WITH leased <- {p \in Ports : active_tunnels[p] # None},
                               reply <- PoolReply
PoolUntilShutdown == Pool!Init /\ [][shut' \/ Pool!Next]_(Pool!vars)

\* The listener of a closed or shut-down tunnel gives up its port, although nobody
\* awaits its handle.
ClosedListenersEnd ==
  \A id \in Tunnels :
    (id <= created /\ ~Listed(id)) ~> listener[id] \in {"returned", "gone"}
-----------------------------------------------------------------------------
\* What the repository's messages say.

\* tunnel/error.rs:20 "Port {0} is already in use by another tunnel": it is said only
\* of the port of a tunnel.
PortInUseMeansTunnel ==
  result.tag = "PortInUse" => active_tunnels[result.port] # None
=============================================================================
