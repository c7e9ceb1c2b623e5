------------------------ MODULE TunnelManagerProofs -------------------------
(***************************************************************************)
(* The tunnel manager's invariants, for every port range and any number of *)
(* tunnels and connections.  What the allocator does in a call is taken    *)
(* from the lemmas of PortAllocatorProofs, instantiated as P.              *)
(*                                                                         *)
(* TablesAgree needs the allocator's partition (a port that is handed out  *)
(* is not the port of a listed tunnel) and, to say that a tunnel's listener*)
(* lost its port only to a closed tunnel, the order of the tunnels that    *)
(* have had a port: the listed one is the latest.                          *)
(***************************************************************************)
EXTENDS TunnelManager, SequenceTheorems, TLAPS

P == INSTANCE PortAllocatorProofs

\* A tunnel has a port and a listener from its creation on.
ListenersInv ==
  \A id \in Tunnels :
    /\ id <= created => listen_port[id] \in Ports
    /\ listener[id] # "none" => id <= created

\* Of the tunnels that have had a port, the listed one came last.
NewestListed ==
  \A id \in Tunnels :
    id <= created /\ active_tunnels[listen_port[id]] # None =>
      id <= active_tunnels[listen_port[id]]

\* Until a shutdown the allocator's set is the set of listed ports.
LeasedAreListed == shut \/ allocated_ports = {p \in Ports : active_tunnels[p] # None}

\* The inductive invariant.
IInv ==
  /\ TypeOK
  /\ P!Parted(allocated_ports, available_ports)
  /\ TablesAgree
  /\ AbortedAreUnlisted
  /\ ListenersInv
  /\ NewestListed
  /\ BindLosesOnlyToTheClosed
  /\ LeasedAreListed
-----------------------------------------------------------------------------
\* The allocator's lemmas hold of this allocator.
LEMMA RangeHolds == P!PortRangeAssumption
<1>1. PortInputs \subseteq 0..A!U16Max
  BY TunnelAssumption
<1>2. \A p \in PortInputs : p \in Nat /\ p <= A!U16Max
  BY <1>1
<1>3. A!U16Max = P!U16Max
  BY DEF A!U16Max, P!U16Max
<1> QED
  BY <1>2, <1>3, TunnelAssumption DEF P!PortRangeAssumption

\* The two instances of the allocator mean the same by their names ...
LEMMA SameNames ==
  /\ P!Ports = Ports /\ P!NoPort = NoPort /\ P!Results = A!Results
  /\ \A p : P!Ok(p) = Ok(p)
  /\ \A e, p : P!Err(e, p) = Err(e, p)
<1>1. P!Ports = Ports /\ A!Ports = Ports
  BY DEF P!Ports, A!Ports, Ports
<1>2. P!NoPort = NoPort /\ A!NoPort = NoPort
  BY DEF P!NoPort, NoPort, A!NoPort
<1>3. P!Results = A!Results
  BY <1>1, <1>2, Zenon DEF P!Results, A!Results
<1>4. (\A p : P!Ok(p) = Ok(p)) /\ \A e, p : P!Err(e, p) = Err(e, p)
  BY DEF P!Ok, Ok, P!Err, Err
<1> QED
  BY <1>1, <1>2, <1>3, <1>4

\* ... and by allocate_port ...
LEMMA SameAllocate ==
  ASSUME NEW p, NEW r, A!allocate_port(p, r)
  PROVE  P!allocate_port(p, r)
<1>1. A!allocate_specific(p, r) => P!allocate_specific(p, r)
  <2>1. A!Retain(available_ports, p) = P!Retain(available_ports, p)
    BY Zenon DEF A!Retain, P!Retain, A!RemoveAt, P!RemoveAt
  <2> QED
    BY <2>1
    DEF A!allocate_specific, P!allocate_specific, A!is_in_range, P!is_in_range, A!is_allocated,
        P!is_allocated, A!Ok, P!Ok, A!Err, P!Err, A!Allocate, P!Allocate, A!allocVars, P!allocVars
<1>2. A!allocate_next(r) => P!allocate_next(r)
  BY DEF A!allocate_next, P!allocate_next, A!Ok, P!Ok, A!Err, P!Err, A!Allocate, P!Allocate,
         A!NextPort, P!NextPort, A!NoPort, P!NoPort, A!allocVars, P!allocVars
<1> QED
  BY <1>1, <1>2 DEF A!allocate_port, P!allocate_port, A!NoPort, P!NoPort

\* ... and by release_port.
LEMMA SameRelease ==
  ASSUME NEW p, NEW r, A!release_port(p, r)
  PROVE  P!release_port(p, r)
  BY DEF A!release_port, P!release_port, A!is_allocated, P!is_allocated, A!Ok, P!Ok,
         A!Err, P!Err, A!Reinsert, P!Reinsert, A!allocVars, P!allocVars

\* What a call of allocate_port does to the tables of the allocator, and the Result
\* that goes with it.
LEMMA Allocates ==
  ASSUME IInv, NEW p \in PortInputs \cup {NoPort}, NEW r, A!allocate_port(p, r)
  PROVE  /\ P!Parted(allocated_ports', available_ports') /\ next_port' \in Ports
         /\ \/ /\ r.port \in Ports \ allocated_ports /\ r = Ok(r.port)
               /\ p # NoPort => r.port = p
               /\ allocated_ports' = allocated_ports \cup {r.port}
            \/ /\ p # NoPort /\ p \notin Ports
               /\ r = Err("PortOutOfRange", p) /\ allocated_ports' = allocated_ports
            \/ /\ p # NoPort /\ p \in allocated_ports
               /\ r = Err("PortUnavailable", p) /\ allocated_ports' = allocated_ports
            \/ /\ p = NoPort /\ Ports \subseteq allocated_ports
               /\ r = Err("NoPortsAvailable", NoPort) /\ allocated_ports' = allocated_ports
<1>1. P!Parted(allocated_ports, available_ports) /\ next_port \in P!Ports
  BY SameNames DEF IInv, TypeOK
<1>2. P!allocate_port(p, r) /\ p \in PortInputs \cup {P!NoPort}
  BY SameNames, SameAllocate
<1>3. /\ P!Parted(allocated_ports', available_ports') /\ next_port' \in P!Ports
      /\ \/ /\ r.port \in P!Ports \ allocated_ports /\ r = P!Ok(r.port)
            /\ p # P!NoPort => r.port = p
            /\ allocated_ports' = allocated_ports \cup {r.port}
         \/ /\ p # P!NoPort /\ p \notin P!Ports
            /\ r = P!Err("PortOutOfRange", p) /\ allocated_ports' = allocated_ports
         \/ /\ p # P!NoPort /\ p \in allocated_ports
            /\ r = P!Err("PortUnavailable", p) /\ allocated_ports' = allocated_ports
         \/ /\ p = P!NoPort /\ P!Ports \subseteq allocated_ports
            /\ r = P!Err("NoPortsAvailable", P!NoPort) /\ allocated_ports' = allocated_ports
  BY <1>1, <1>2, RangeHolds, P!AllocateStep
<1> QED
  BY <1>3, SameNames

\* The same for release_port.
LEMMA Releases ==
  ASSUME IInv, NEW p \in PortInputs, NEW r, A!release_port(p, r)
  PROVE  /\ P!Parted(allocated_ports', available_ports') /\ next_port' \in Ports
         /\ \/ /\ p \in allocated_ports /\ r = Ok(p)
               /\ allocated_ports' = allocated_ports \ {p}
            \/ /\ p \notin allocated_ports /\ r = Err("PortNotAllocated", p)
               /\ allocated_ports' = allocated_ports
<1>1. P!Parted(allocated_ports, available_ports) /\ next_port \in P!Ports
  BY SameNames DEF IInv, TypeOK
<1>2. P!release_port(p, r)
  BY SameRelease
<1>3. /\ P!Parted(allocated_ports', available_ports') /\ next_port' \in P!Ports
      /\ \/ /\ p \in allocated_ports /\ r = P!Ok(p)
            /\ allocated_ports' = allocated_ports \ {p}
         \/ /\ p \notin allocated_ports /\ r = P!Err("PortNotAllocated", p)
            /\ allocated_ports' = allocated_ports
  BY <1>1, <1>2, RangeHolds, P!ReleaseStep
<1> QED
  BY <1>3, SameNames

\* A partition of the range has its types.
LEMMA PartedTypes ==
  ASSUME NEW set, NEW deque, P!Parted(set, deque)
  PROVE  set \subseteq Ports /\ deque \in Seq(Ports)
  BY SameNames DEF P!Parted
-----------------------------------------------------------------------------
\* TunnelManager::new
LEMMA InitIInv == Init => IInv
<1> SUFFICES ASSUME Init PROVE IInv
  OBVIOUS
<1>1. P!AllocInit
  BY DEF Init, A!AllocInit, P!AllocInit
<1>2. P!Parted(allocated_ports, available_ports) /\ next_port \in Ports
  BY <1>1, RangeHolds, P!InitParted, SameNames
<1>3. allocated_ports \subseteq Ports /\ available_ports \in Seq(Ports) /\ allocated_ports = {}
  BY <1>2, PartedTypes DEF Init, A!AllocInit
<1>4. result \in [tag : {"Ok"} \cup Errors, port : Ports \cup PortInputs \cup {NoPort}]
  BY DEF Init, Ok
<1>5. TypeOK
  <2>1. active_tunnels \in [Ports -> 0..created] /\ tasks \in [Ports -> Seq(1..created)]
    BY EmptySeq DEF Init, None
  <2>2. /\ created \in 0..MaxTunnels /\ aborted \subseteq 1..created
        /\ conn_of \in [Conns -> 0..created]
    BY TunnelAssumption DEF Init, None
  <2>3. /\ listen_port \in [Tunnels -> Ports \cup {NoPort}] /\ shut \in BOOLEAN
        /\ listener \in [Tunnels -> ListenerStates]
        /\ conn \in [Conns -> {"none", "connecting", "relaying", "ended"}]
    BY DEF Init, ListenerStates
  <2> QED
    BY <1>2, <1>3, <1>4, <2>1, <2>2, <2>3 DEF TypeOK
<1>6. TablesAgree
  BY DEF Init, TablesAgree, Ok, None
<1>7. AbortedAreUnlisted /\ ListenersInv /\ NewestListed /\ BindLosesOnlyToTheClosed
  BY TunnelAssumption
  DEF Init, AbortedAreUnlisted, ListenersInv, NewestListed, BindLosesOnlyToTheClosed, None, Tunnels
<1>8. LeasedAreListed
  BY <1>3 DEF Init, LeasedAreListed, None
<1> QED
  BY <1>2, <1>5, <1>6, <1>7, <1>8 DEF IInv

\* The list of handles of a port holds at most one.
LEMMA OneElementSeq ==
  ASSUME NEW S, NEW x \in S
  PROVE  <<x>> \in Seq(S)
  OBVIOUS

\* create_reverse_tunnel, when the allocator has handed out a port: the port was that
\* of no listed tunnel.
LEMMA CreateIInv ==
  ASSUME IInv, created < MaxTunnels, NEW q \in Ports \ allocated_ports,
         P!Parted(allocated_ports', available_ports'), next_port' \in Ports,
         allocated_ports' = allocated_ports \cup {q}, result' = Ok(q),
         StartTunnel(created + 1, q), UNCHANGED <<aborted, conns, shut>>
  PROVE  IInv' /\ active_tunnels[q] = None
<1> DEFINE c == created + 1
<1>1. TypeOK /\ TablesAgree /\ created \in Nat /\ MaxTunnels \in Nat
  BY TunnelAssumption DEF IInv, TypeOK
<1>2. c \in Tunnels /\ c \in Nat /\ c # None /\ c \notin 0..created /\ c \in 1..c
  BY <1>1 DEF Tunnels, None
<1>3. active_tunnels[q] = None /\ tasks[q] = <<>>
  BY <1>1 DEF TablesAgree
<1>4. /\ created' = c
      /\ listen_port' = [listen_port EXCEPT ![c] = q]
      /\ listener' = [listener EXCEPT ![c] = "spawned"]
      /\ tasks' = [tasks EXCEPT ![q] = Append(@, c)]
      /\ active_tunnels' = [active_tunnels EXCEPT ![q] = c]
  BY DEF StartTunnel
<1>5. \A i \in 0..created : i \in 0..c /\ i # c /\ (i # 0 => i \in 1..c)
  BY <1>1
<1> HIDE DEF c
<1>6. /\ active_tunnels' \in [Ports -> 0..c]
      /\ \A p \in Ports : active_tunnels'[p] = IF p = q THEN c ELSE active_tunnels[p]
  BY <1>1, <1>2, <1>4, <1>5 DEF TypeOK
<1>7. \A p \in Ports : tasks'[p] = IF p = q THEN <<c>> ELSE tasks[p]
  BY <1>1, <1>3, <1>4 DEF TypeOK
<1>8. \A id \in Tunnels : /\ listen_port'[id] = IF id = c THEN q ELSE listen_port[id]
                          /\ listener'[id] = IF id = c THEN "spawned" ELSE listener[id]
  BY <1>1, <1>4 DEF TypeOK
<1>9. /\ listen_port' \in [Tunnels -> Ports \cup {NoPort}]
      /\ listener' \in [Tunnels -> ListenerStates]
  BY <1>1, <1>2, <1>4 DEF TypeOK, ListenerStates
<1>10. \A p \in Ports : active_tunnels[p] # None => active_tunnels[p] # c /\ active_tunnels[p] \in Tunnels
  BY <1>1, <1>2 DEF TypeOK, Tunnels, None
<1>11. TablesAgree'
  <2>1. \A p \in Ports : tasks'[p] = IF active_tunnels'[p] = None THEN <<>> ELSE <<active_tunnels'[p]>>
    BY <1>1, <1>2, <1>6, <1>7 DEF TablesAgree
  <2>2. \A p \in Ports : active_tunnels'[p] # None =>
          p \in allocated_ports' /\ listen_port'[active_tunnels'[p]] = p
    <3> SUFFICES ASSUME NEW p \in Ports, active_tunnels'[p] # None
                 PROVE  p \in allocated_ports' /\ listen_port'[active_tunnels'[p]] = p
      OBVIOUS
    <3>1. CASE p = q
      BY <1>2, <1>6, <1>8, <3>1
    <3>2. CASE p # q
      <4>1. active_tunnels'[p] = active_tunnels[p]
        BY <1>6, <3>2
      <4>2. p \in allocated_ports /\ listen_port[active_tunnels[p]] = p
        BY <1>1, <4>1 DEF TablesAgree
      <4> QED BY <1>8, <1>10, <4>1, <4>2
    <3> QED BY <3>1, <3>2
  <2>3. result'.tag # "PortReleaseError"
    BY DEF Ok
  <2> QED BY <2>1, <2>2, <2>3 DEF TablesAgree
<1>12. tasks' \in [Ports -> Seq(1..c)]
  <2>1. \A p \in Ports : tasks'[p] \in Seq(1..c)
    <3> SUFFICES ASSUME NEW p \in Ports PROVE tasks'[p] \in Seq(1..c)
      OBVIOUS
    <3>1. CASE active_tunnels'[p] = None
      BY <1>11, <3>1, EmptySeq DEF TablesAgree
    <3>2. CASE active_tunnels'[p] # None
      <4>1. active_tunnels'[p] \in 1..c
        BY <1>2, <1>6, <3>2 DEF None
      <4>2. tasks'[p] = <<active_tunnels'[p]>>
        BY <1>11, <3>2 DEF TablesAgree
      <4>3. \A a \in 1..c : <<a>> \in Seq(1..c)
        BY OneElementSeq
      <4> QED BY <4>1, <4>2, <4>3
    <3> QED BY <3>1, <3>2
  <2> QED BY <1>1, <1>4, <2>1 DEF TypeOK
<1>13. TypeOK'
  <2>1. allocated_ports' \subseteq Ports /\ available_ports' \in Seq(Ports)
    BY PartedTypes
  <2>2. result' \in [tag : {"Ok"} \cup Errors, port : Ports \cup PortInputs \cup {NoPort}]
    BY DEF Ok
  <2>3. c \in 0..MaxTunnels /\ aborted \subseteq 1..c
    BY <1>1, <1>2, <1>5 DEF TypeOK, Tunnels
  <2>4. conn_of \in [Conns -> 0..c]
    BY <1>1, <1>5 DEF TypeOK
  <2> QED
    BY <1>1, <1>4, <1>6, <1>9, <1>12, <2>1, <2>2, <2>3, <2>4 DEF TypeOK, conns
<1>14. AbortedAreUnlisted'
  <2> SUFFICES ASSUME NEW id \in 1..c
               PROVE  id \in aborted <=> ~(\E p \in Ports : active_tunnels'[p] = id)
    BY <1>4 DEF AbortedAreUnlisted, Listed
  <2>1. CASE id = c
    <3>1. id \notin aborted
      BY <1>1, <1>2, <2>1 DEF TypeOK
    <3> QED BY <1>6, <2>1, <3>1
  <2>2. CASE id # c
    <3>1. id \in 1..created /\ id # None
      BY <1>1, <2>2 DEF c, None
    <3>2. (\E p \in Ports : active_tunnels'[p] = id) <=> (\E p \in Ports : active_tunnels[p] = id)
      BY <1>3, <1>6, <2>2, <3>1
    <3> QED BY <3>1, <3>2 DEF IInv, AbortedAreUnlisted, Listed
  <2> QED BY <2>1, <2>2
<1>15. ListenersInv'
  <2> SUFFICES ASSUME NEW id \in Tunnels
               PROVE  /\ id <= c => listen_port'[id] \in Ports
                      /\ listener'[id] # "none" => id <= c
    BY <1>4 DEF ListenersInv
  <2>1. id \in Nat /\ (id # c /\ id <= c => id <= created) /\ (id <= created => id <= c)
    BY <1>1 DEF c, Tunnels
  <2> QED BY <1>2, <1>8, <2>1 DEF IInv, ListenersInv
<1>16. NewestListed'
  <2> SUFFICES ASSUME NEW id \in Tunnels, id <= c, active_tunnels'[listen_port'[id]] # None
               PROVE  id <= active_tunnels'[listen_port'[id]]
    BY <1>4 DEF NewestListed
  <2>1. id \in Nat /\ (id # c => id <= created)
    BY <1>1 DEF c, Tunnels
  <2>2. listen_port'[id] \in Ports
    BY <1>15, <1>4 DEF ListenersInv
  <2>3. CASE listen_port'[id] = q
    BY <1>2, <1>6, <2>3
  <2>4. CASE listen_port'[id] # q
    <3>1. id # c /\ listen_port'[id] = listen_port[id] /\ id <= created
      BY <1>8, <2>1, <2>4
    <3> QED BY <1>6, <2>2, <2>4, <3>1 DEF IInv, NewestListed
  <2> QED BY <2>3, <2>4
<1>17. BindLosesOnlyToTheClosed'
  <2> SUFFICES ASSUME NEW p \in Ports \ Foreign, active_tunnels'[p] # None,
                      listener'[active_tunnels'[p]] = "returned"
               PROVE  \E old \in aborted : old < active_tunnels'[p] /\ listen_port'[old] = p
    BY DEF BindLosesOnlyToTheClosed
  <2>1. p # q /\ active_tunnels'[p] = active_tunnels[p] /\ active_tunnels[p] # c
    BY <1>2, <1>6, <1>8, <1>10
  <2>2. listener[active_tunnels[p]] = "returned"
    BY <1>8, <1>10, <2>1
  <2>3. PICK old \in aborted : old < active_tunnels[p] /\ listen_port[old] = p
    BY <2>1, <2>2 DEF IInv, BindLosesOnlyToTheClosed
  <2>4. old \in Tunnels /\ old # c
    BY <1>1, <1>2 DEF TypeOK, Tunnels
  <2> QED BY <1>8, <2>1, <2>3, <2>4
<1>18. LeasedAreListed'
  <2>1. CASE shut
    BY <2>1 DEF LeasedAreListed
  <2>2. CASE ~shut
    <3>1. allocated_ports = {p \in Ports : active_tunnels[p] # None}
      BY <2>2 DEF IInv, LeasedAreListed
    <3>2. allocated_ports' = {p \in Ports : active_tunnels'[p] # None}
      BY <1>2, <1>6, <3>1
    <3> QED BY <3>2 DEF LeasedAreListed
  <2> QED BY <2>1, <2>2
<1> QED
  BY <1>3, <1>11, <1>13, <1>14, <1>15, <1>16, <1>17, <1>18 DEF IInv

\* Replies: the ones the type allows, and never the one for a failed release.
Replies == [tag : {"Ok"} \cup (Errors \ {"PortReleaseError"}), port : Ports \cup PortInputs \cup {NoPort}]

\* close_tunnel and shutdown: the tunnels of a set of ports are unlisted and their
\* listeners, no others, are aborted.
LEMMA UnlistIInv ==
  ASSUME IInv, NEW U \in SUBSET Ports,
         P!Parted(allocated_ports', available_ports'), next_port' \in Ports,
         active_tunnels' = [p \in Ports |-> IF p \in U THEN None ELSE active_tunnels[p]],
         tasks' = [p \in Ports |-> IF p \in U THEN <<>> ELSE tasks[p]],
         aborted' = aborted \cup {active_tunnels[p] : p \in {q \in U : active_tunnels[q] # None}},
         allocated_ports \ U \subseteq allocated_ports',
         \/ shut' = TRUE
         \/ shut' = shut /\ allocated_ports' = allocated_ports \ U,
         result' \in Replies, UNCHANGED <<created, listen_port, listener, conns>>
  PROVE  IInv'
<1>1. TypeOK /\ TablesAgree /\ AbortedAreUnlisted /\ created \in Nat
  BY TunnelAssumption DEF IInv, TypeOK
<1>2. \A p \in Ports : active_tunnels'[p] = IF p \in U THEN None ELSE active_tunnels[p]
  OBVIOUS
<1>3. \A p \in Ports : active_tunnels[p] # None =>
        active_tunnels[p] \in 1..created /\ listen_port[active_tunnels[p]] = p
  BY <1>1 DEF TypeOK, TablesAgree, None
<1>4. \A p, q \in Ports : active_tunnels[p] # None /\ active_tunnels[p] = active_tunnels[q] => p = q
  BY <1>3
<1>5. TablesAgree'
  <2>1. \A p \in Ports : tasks'[p] = IF active_tunnels'[p] = None THEN <<>> ELSE <<active_tunnels'[p]>>
    BY <1>1 DEF TablesAgree
  <2>2. \A p \in Ports : active_tunnels'[p] # None =>
          p \in allocated_ports' /\ listen_port'[active_tunnels'[p]] = p
    BY <1>1, <1>2 DEF TablesAgree
  <2>3. result'.tag # "PortReleaseError"
    BY DEF Replies
  <2> QED BY <2>1, <2>2, <2>3 DEF TablesAgree
<1>6. TypeOK'
  <2>1. allocated_ports' \subseteq Ports /\ available_ports' \in Seq(Ports)
    BY PartedTypes
  <2>2. result' \in [tag : {"Ok"} \cup Errors, port : Ports \cup PortInputs \cup {NoPort}]
    BY DEF Replies
  <2>3. active_tunnels' \in [Ports -> 0..created]
    BY <1>1 DEF TypeOK, None
  <2>4. tasks' \in [Ports -> Seq(1..created)]
    BY <1>1, EmptySeq DEF TypeOK
  <2>5. aborted' \subseteq 1..created
    <3>1. aborted \subseteq 1..created
      BY <1>1 DEF TypeOK
    <3>2. \A p \in {q \in U : active_tunnels[q] # None} : active_tunnels[p] \in 1..created
      BY <1>3
    <3> QED BY <3>1, <3>2
  <2>6. shut' \in BOOLEAN
    BY <1>1 DEF TypeOK
  <2> QED
    BY <1>1, <2>1, <2>2, <2>3, <2>4, <2>5, <2>6 DEF TypeOK, conns
<1>7. AbortedAreUnlisted'
  <2> SUFFICES ASSUME NEW id \in 1..created
               PROVE  id \in aborted' <=> ~(\E p \in Ports : active_tunnels'[p] = id)
    BY DEF AbortedAreUnlisted, Listed
  <2>1. id # None
    BY <1>1 DEF None
  <2>2. id \in aborted <=> ~(\E p \in Ports : active_tunnels[p] = id)
    BY <1>1 DEF AbortedAreUnlisted, Listed
  <2>3. CASE id \in aborted
    BY <1>2, <2>1, <2>2, <2>3
  <2>4. CASE id \notin aborted
    <3>1. PICK p \in Ports : active_tunnels[p] = id
      BY <2>2, <2>4
    <3>2. CASE p \in U
      <4>1. id \in aborted'
        BY <2>1, <3>1, <3>2
      <4>2. \A q \in Ports : active_tunnels'[q] # id
        BY <1>2, <1>4, <2>1, <3>1, <3>2
      <4> QED BY <4>1, <4>2
    <3>3. CASE p \notin U
      <4>1. active_tunnels'[p] = id
        BY <1>2, <3>1, <3>3
      <4>2. id \notin aborted'
        BY <1>4, <2>1, <2>4, <3>1, <3>3
      <4> QED BY <4>1, <4>2
    <3> QED BY <3>2, <3>3
  <2> QED BY <2>3, <2>4
<1>8. ListenersInv'
  BY DEF IInv, ListenersInv
<1>9. NewestListed'
  BY <1>2 DEF IInv, NewestListed, ListenersInv
<1>10. BindLosesOnlyToTheClosed'
  <2> SUFFICES ASSUME NEW p \in Ports \ Foreign, active_tunnels'[p] # None,
                      listener[active_tunnels'[p]] = "returned"
               PROVE  \E old \in aborted' : old < active_tunnels'[p] /\ listen_port[old] = p
    BY DEF BindLosesOnlyToTheClosed
  <2>1. active_tunnels'[p] = active_tunnels[p]
    BY <1>2
  <2>2. PICK old \in aborted : old < active_tunnels[p] /\ listen_port[old] = p
    BY <2>1 DEF IInv, BindLosesOnlyToTheClosed
  <2> QED BY <2>1, <2>2
<1>11. LeasedAreListed'
  <2>1. CASE shut'
    BY <2>1 DEF LeasedAreListed
  <2>2. CASE ~shut'
    <3>1. ~shut /\ allocated_ports' = allocated_ports \ U
      BY <2>2
    <3>2. allocated_ports = {p \in Ports : active_tunnels[p] # None}
      BY <3>1 DEF IInv, LeasedAreListed
    <3>3. allocated_ports' = {p \in Ports : active_tunnels'[p] # None}
      BY <1>2, <3>1, <3>2
    <3> QED BY <3>3 DEF LeasedAreListed
  <2> QED BY <2>1, <2>2
<1> QED
  BY <1>5, <1>6, <1>7, <1>8, <1>9, <1>10, <1>11 DEF IInv

\* A call that fails changes no table.
LEMMA RefuseIInv ==
  ASSUME IInv, P!Parted(allocated_ports', available_ports'), next_port' \in Ports,
         result' \in Replies,
         UNCHANGED <<allocated_ports, active_tunnels, tasks, created, listen_port, listener,
                     aborted, conns, shut>>
  PROVE  IInv'
<1>1. TypeOK'
  <2>1. available_ports' \in Seq(Ports)
    BY PartedTypes
  <2>2. result' \in [tag : {"Ok"} \cup Errors, port : Ports \cup PortInputs \cup {NoPort}]
    BY DEF Replies
  <2> QED BY <2>1, <2>2 DEF IInv, TypeOK, conns
<1>2. TablesAgree'
  BY DEF IInv, TablesAgree, Replies
<1>3. /\ AbortedAreUnlisted' /\ ListenersInv' /\ NewestListed' /\ BindLosesOnlyToTheClosed'
      /\ LeasedAreListed'
  BY DEF IInv, AbortedAreUnlisted, Listed, ListenersInv, NewestListed, BindLosesOnlyToTheClosed,
         LeasedAreListed
<1> QED
  BY <1>1, <1>2, <1>3 DEF IInv

\* A step of a task changes no table of the manager.
LEMMA TaskIInv ==
  ASSUME IInv, UNCHANGED <<calls, aborted>>,
         listener' \in [Tunnels -> ListenerStates], conn_of' \in [Conns -> 0..created],
         conn' \in [Conns -> {"none", "connecting", "relaying", "ended"}],
         ListenersInv', BindLosesOnlyToTheClosed'
  PROVE  IInv'
<1>1. UNCHANGED <<allocated_ports, available_ports, next_port, active_tunnels, tasks, result,
                  created, listen_port, shut, aborted>>
  BY DEF calls, port_allocator
<1>2. TypeOK' /\ TablesAgree'
  BY <1>1 DEF IInv, TypeOK, TablesAgree
<1>3. AbortedAreUnlisted' /\ NewestListed' /\ LeasedAreListed'
  BY <1>1 DEF IInv, AbortedAreUnlisted, Listed, NewestListed, LeasedAreListed
<1> QED
  BY <1>1, <1>2, <1>3 DEF IInv
-----------------------------------------------------------------------------
\* How the errors of the allocator, the manager and the pool correspond.
LEMMA ManagerErrors ==
  ASSUME NEW p
  PROVE  /\ FromPortAllocError(Err("PortOutOfRange", p)) = Err("PortOutOfRange", p)
         /\ FromPortAllocError(Err("PortUnavailable", p)) = Err("PortInUse", p)
         /\ FromPortAllocError(Err("NoPortsAvailable", p)) = Err("NoPortsAvailable", p)
  BY DEF FromPortAllocError, Err

\* The reply of the pool for each result of the manager.
LEMMA PoolErrors ==
  ASSUME NEW p
  PROVE  /\ result' = Ok(p) => PoolReply' = Pool!Ok(p)
         /\ result' = Err("PortOutOfRange", p) => PoolReply' = Pool!Err("PortOutOfRange", p)
         /\ result' = Err("PortInUse", p) => PoolReply' = Pool!Err("PortUnavailable", p)
         /\ result' = Err("NoPortsAvailable", p) => PoolReply' = Pool!Err("NoPortsAvailable", p)
         /\ result' = Err("TunnelNotFound", p) => PoolReply' = Pool!Err("PortNotAllocated", p)
  BY DEF PoolReply, Ok, Err, Pool!Ok, Pool!Err

\* The set that the pool calls leased.
Leased == {p \in Ports : active_tunnels[p] # None}

\* The steps of the pool, in the manager's terms.
LEMMA PoolSteps ==
  ASSUME NEW p
  PROVE  /\ p \in PortInputs /\ p \in Ports \ Leased /\ Leased' = Leased \cup {p} /\ result' = Ok(p)
              => Pool!Next
         /\ p \in PortInputs /\ p \notin Ports /\ Leased' = Leased /\ result' = Err("PortOutOfRange", p)
              => Pool!Next
         /\ p \in PortInputs /\ p \in Leased /\ Leased' = Leased /\ result' = Err("PortInUse", p)
              => Pool!Next
         /\ p \in Ports \ Leased /\ Leased' = Leased \cup {p} /\ result' = Ok(p) => Pool!Next
         /\ Ports \subseteq Leased /\ Leased' = Leased /\ result' = Err("NoPortsAvailable", NoPort)
              => Pool!Next
         /\ p \in PortInputs /\ p \in Leased /\ Leased' = Leased \ {p} /\ result' = Ok(p) => Pool!Next
         /\ p \in PortInputs /\ p \notin Leased /\ Leased' = Leased /\ result' = Err("TunnelNotFound", p)
              => Pool!Next
<1>1. /\ result' = Ok(p) => PoolReply' = Pool!Ok(p)
      /\ result' = Err("PortOutOfRange", p) => PoolReply' = Pool!Err("PortOutOfRange", p)
      /\ result' = Err("PortInUse", p) => PoolReply' = Pool!Err("PortUnavailable", p)
      /\ result' = Err("TunnelNotFound", p) => PoolReply' = Pool!Err("PortNotAllocated", p)
  BY PoolErrors
<1>2. result' = Err("NoPortsAvailable", NoPort) => PoolReply' = Pool!Err("NoPortsAvailable", Pool!NoPort)
  BY PoolErrors DEF NoPort, A!NoPort, Pool!NoPort
<1> QED
  BY <1>1, <1>2, Zenon DEF Pool!Next, Pool!LeaseNamed, Pool!LeaseAny, Pool!Release, Leased
-----------------------------------------------------------------------------
\* create_reverse_tunnel
LEMMA CreateStep ==
  ASSUME IInv, NEW p \in PortInputs \cup {NoPort}, create_reverse_tunnel(p)
  PROVE  IInv' /\ (shut' \/ Pool!Next)
<1>1. PICK r \in A!Results :
        /\ A!allocate_port(p, r)
        /\ IF r.tag = "Ok"
           THEN StartTunnel(created + 1, r.port) /\ result' = r
           ELSE /\ result' = FromPortAllocError(r)
                /\ UNCHANGED <<created, listen_port, listener, tasks, active_tunnels>>
  BY DEF create_reverse_tunnel
<1>2. created < MaxTunnels /\ UNCHANGED <<aborted, conns, shut>>
  BY DEF create_reverse_tunnel
<1>3. P!Parted(allocated_ports', available_ports') /\ next_port' \in Ports
  BY <1>1, Allocates
<1>4. shut \/ allocated_ports = Leased
  BY DEF IInv, LeasedAreListed, Leased
<1>5. CASE /\ r.port \in Ports \ allocated_ports /\ r = Ok(r.port)
           /\ p # NoPort => r.port = p
           /\ allocated_ports' = allocated_ports \cup {r.port}
  <2>1. r.tag = "Ok"
    BY <1>5 DEF Ok
  <2>2. StartTunnel(created + 1, r.port) /\ result' = Ok(r.port)
    BY <1>1, <1>5, <2>1
  <2>3. IInv' /\ active_tunnels[r.port] = None
    BY <1>2, <1>3, <1>5, <2>2, CreateIInv
  <2>4. shut' \/ allocated_ports' = Leased'
    BY <2>3 DEF IInv, LeasedAreListed, Leased
  <2>5. shut' \/ Pool!Next
    BY <1>2, <1>4, <1>5, <2>2, <2>4, PoolSteps
  <2> QED BY <2>3, <2>5
<1>6. ASSUME NEW e, e # "Ok", r = Err(e, p), allocated_ports' = allocated_ports
      PROVE  /\ result' = FromPortAllocError(Err(e, p)) /\ Leased' = Leased
             /\ result' \in Replies => IInv'
  <2>1. r.tag # "Ok"
    BY <1>6 DEF Err
  <2>2. /\ UNCHANGED <<created, listen_port, listener, tasks, active_tunnels>>
        /\ result' = FromPortAllocError(r)
    BY <1>1, <2>1
  <2>3. result' \in Replies => IInv'
    BY <1>2, <1>3, <1>6, <2>2, RefuseIInv
  <2>4. Leased' = Leased
    BY <2>2 DEF Leased
  <2> QED BY <1>6, <2>2, <2>3, <2>4
<1>7. CASE p # NoPort /\ p \notin Ports /\ r = Err("PortOutOfRange", p) /\ allocated_ports' = allocated_ports
  <2>1. result' = Err("PortOutOfRange", p)
    BY <1>6, <1>7, ManagerErrors
  <2>2. result' \in Replies
    BY <2>1 DEF Replies, Err, Errors
  <2> QED BY <1>6, <1>7, <2>1, <2>2, PoolSteps
<1>8. CASE p # NoPort /\ p \in allocated_ports /\ r = Err("PortUnavailable", p)
           /\ allocated_ports' = allocated_ports
  <2>1. result' = Err("PortInUse", p)
    BY <1>6, <1>8, ManagerErrors
  <2>2. result' \in Replies
    BY <2>1 DEF Replies, Err, Errors
  <2>3. shut' \/ Pool!Next
    BY <1>2, <1>4, <1>6, <1>8, <2>1, PoolSteps
  <2> QED BY <1>6, <1>8, <2>2, <2>3
<1>9. CASE p = NoPort /\ Ports \subseteq allocated_ports /\ r = Err("NoPortsAvailable", NoPort)
           /\ allocated_ports' = allocated_ports
  <2>1. result' = Err("NoPortsAvailable", NoPort)
    BY <1>6, <1>9, ManagerErrors
  <2>2. result' \in Replies
    BY <2>1 DEF Replies, Err, Errors
  <2>3. shut' \/ Pool!Next
    BY <1>2, <1>4, <1>6, <1>9, <2>1, PoolSteps
  <2> QED BY <1>6, <1>9, <2>2, <2>3
<1> QED
  BY <1>1, <1>5, <1>7, <1>8, <1>9, Allocates

\* close_tunnel: the release cannot fail, and the one handle of the port is that of
\* its tunnel's listener.
LEMMA CloseStep ==
  ASSUME IInv, NEW p \in PortInputs, close_tunnel(p)
  PROVE  IInv' /\ (shut' \/ Pool!Next)
<1>1. TypeOK /\ TablesAgree /\ (shut \/ allocated_ports = Leased)
  BY DEF IInv, LeasedAreListed, Leased
<1>2. UNCHANGED <<created, listen_port, listener, conns, shut>>
  BY DEF close_tunnel
<1>3. CASE ~HasTunnel(p)
  <2>1. /\ result' = Err("TunnelNotFound", p)
        /\ UNCHANGED <<port_allocator, active_tunnels, tasks, aborted>>
    BY <1>3 DEF close_tunnel
  <2>2. result' \in Replies
    BY <2>1 DEF Replies, Err, Errors
  <2>3. P!Parted(allocated_ports', available_ports') /\ next_port' \in Ports
        /\ allocated_ports' = allocated_ports
    BY <2>1 DEF IInv, TypeOK, port_allocator
  <2>4. IInv'
    BY <1>2, <2>1, <2>2, <2>3, RefuseIInv
  <2>5. p \notin Leased /\ Leased' = Leased
    BY <1>3, <2>1 DEF HasTunnel, Leased
  <2> QED BY <2>1, <2>4, <2>5, PoolSteps
<1>4. CASE HasTunnel(p)
  <2>1. /\ p \in Ports /\ active_tunnels[p] # None /\ p \in allocated_ports
        /\ tasks[p] = <<active_tunnels[p]>>
    BY <1>1, <1>4 DEF HasTunnel, TablesAgree
  <2>2. active_tunnels' = [active_tunnels EXCEPT ![p] = None]
    BY <1>4 DEF close_tunnel
  <2>3. PICK r \in A!Results :
          /\ A!release_port(p, r)
          /\ IF r.tag = "Ok"
             THEN AbortTasks(p) /\ result' = Ok(p)
             ELSE /\ result' = Err("PortReleaseError", p)
                  /\ UNCHANGED <<tasks, aborted>>
    BY <1>4 DEF close_tunnel
  <2>4. /\ P!Parted(allocated_ports', available_ports') /\ next_port' \in Ports
        /\ r = Ok(p) /\ allocated_ports' = allocated_ports \ {p}
    BY <2>1, <2>3, Releases
  <2>5. AbortTasks(p) /\ result' = Ok(p)
    BY <2>3, <2>4 DEF Ok
  <2>6. {tasks[p][i] : i \in 1..Len(tasks[p])} = {active_tunnels[p]}
    BY <2>1
  <2>7. aborted' = aborted \cup {active_tunnels[q] : q \in {q \in {p} : active_tunnels[q] # None}}
    BY <2>1, <2>5, <2>6 DEF AbortTasks
  <2>8. /\ active_tunnels' = [q \in Ports |-> IF q \in {p} THEN None ELSE active_tunnels[q]]
        /\ tasks' = [q \in Ports |-> IF q \in {p} THEN <<>> ELSE tasks[q]]
    BY <1>1, <2>1, <2>2, <2>5 DEF TypeOK, AbortTasks
  <2>9. result' \in Replies
    BY <2>5 DEF Replies, Ok
  <2>10. IInv'
    BY <1>2, <2>1, <2>4, <2>7, <2>8, <2>9, UnlistIInv
  <2>11. p \in Leased /\ Leased' = Leased \ {p}
    BY <2>1, <2>8 DEF Leased
  <2> QED BY <2>5, <2>10, <2>11, PoolSteps
<1> QED
  BY <1>3, <1>4

\* shutdown aborts every handle and clears the tables; it leaves the allocator alone.
LEMMA ShutdownStep ==
  ASSUME IInv, shutdown
  PROVE  IInv' /\ shut'
<1>1. TypeOK /\ TablesAgree
  BY DEF IInv
<1> DEFINE handles(p) == {tasks[p][i] : i \in 1..Len(tasks[p])}
<1>2. \A p \in Ports : handles(p) = IF active_tunnels[p] = None THEN {} ELSE {active_tunnels[p]}
  <2> SUFFICES ASSUME NEW p \in Ports
               PROVE  handles(p) = IF active_tunnels[p] = None THEN {} ELSE {active_tunnels[p]}
    OBVIOUS
  <2>1. CASE active_tunnels[p] = None
    <3>1. tasks[p] = <<>>
      BY <1>1, <2>1 DEF TablesAgree
    <3> QED BY <2>1, <3>1
  <2>2. CASE active_tunnels[p] # None
    <3>1. tasks[p] = <<active_tunnels[p]>>
      BY <1>1, <2>2 DEF TablesAgree
    <3> QED BY <2>2, <3>1
  <2> QED BY <2>1, <2>2
<1>3. aborted' = aborted \cup UNION {handles(p) : p \in Ports}
  BY DEF shutdown
<1> HIDE DEF handles
<1>4. UNION {handles(p) : p \in Ports} = {active_tunnels[p] : p \in {q \in Ports : active_tunnels[q] # None}}
  BY <1>2
<1>5. /\ active_tunnels' = [q \in Ports |-> IF q \in Ports THEN None ELSE active_tunnels[q]]
      /\ tasks' = [q \in Ports |-> IF q \in Ports THEN <<>> ELSE tasks[q]]
  BY DEF shutdown
<1>6. /\ P!Parted(allocated_ports', available_ports') /\ next_port' \in Ports
      /\ allocated_ports' = allocated_ports
  BY <1>1 DEF IInv, TypeOK, shutdown, port_allocator
<1>7. result' \in Replies
  BY DEF shutdown, Replies, Ok
<1>8. shut' = TRUE /\ UNCHANGED <<created, listen_port, listener, conns>>
  BY DEF shutdown
<1>9. aborted' = aborted \cup {active_tunnels[p] : p \in {q \in Ports : active_tunnels[q] # None}}
  BY <1>3, <1>4
<1> QED
  BY <1>5, <1>6, <1>7, <1>8, <1>9, UnlistIInv
-----------------------------------------------------------------------------
\* A step that is not a call shows the callers nothing.
LEMMA CallsKept ==
  ASSUME UNCHANGED <<calls, aborted>>
  PROVE  /\ UNCHANGED <<active_tunnels, created, listen_port, shut, aborted>>
         /\ UNCHANGED Pool!vars
<1>1. UNCHANGED <<active_tunnels, created, listen_port, shut, aborted, result>>
  BY DEF calls
<1>2. PoolReply' = PoolReply
  BY <1>1 DEF PoolReply
<1>3. Leased' = Leased
  BY <1>1 DEF Leased
<1> QED
  BY <1>1, <1>2, <1>3 DEF Pool!vars, Leased

\* bind: a listed tunnel that finds its port held by a tunnel finds it held by one
\* that is closed, because two listed tunnels never have the same port.
LEMMA BindStep ==
  ASSUME IInv, NEW id \in Tunnels, bind(id)
  PROVE  IInv'
<1>1. /\ TypeOK /\ TablesAgree /\ AbortedAreUnlisted /\ ListenersInv /\ NewestListed
      /\ BindLosesOnlyToTheClosed /\ created \in Nat /\ MaxTunnels \in Nat
  BY TunnelAssumption DEF IInv, TypeOK
<1>2. /\ listener[id] = "spawned" /\ UNCHANGED <<calls, aborted, conns>>
      /\ listener' = [listener EXCEPT ![id] = IF PortHeld(listen_port[id]) THEN "returned"
                                                                           ELSE "listening"]
  BY DEF bind
<1>3. UNCHANGED <<active_tunnels, created, listen_port, aborted>>
  BY <1>2, CallsKept
<1>4. listener' \in [Tunnels -> ListenerStates]
  BY <1>1, <1>2 DEF TypeOK, ListenerStates
<1>5. \A i \in Tunnels : listener'[i] # "none" => listener[i] # "none"
  BY <1>1, <1>2 DEF TypeOK
<1>6. ListenersInv'
  BY <1>1, <1>3, <1>5 DEF ListenersInv
<1>7. BindLosesOnlyToTheClosed'
  <2> SUFFICES ASSUME NEW p \in Ports \ Foreign, active_tunnels[p] # None,
                      listener'[active_tunnels[p]] = "returned"
               PROVE  \E old \in aborted : old < active_tunnels[p] /\ listen_port[old] = p
    BY <1>3 DEF BindLosesOnlyToTheClosed
  <2> DEFINE t == active_tunnels[p]
  <2>1. t \in 1..created /\ t \in Tunnels /\ listen_port[t] = p
    BY <1>1 DEF TypeOK, TablesAgree, None, Tunnels
  <2>2. CASE t # id
    <3>1. listener[t] = "returned"
      BY <1>1, <1>2, <2>1, <2>2 DEF TypeOK
    <3> QED BY <1>1, <3>1 DEF BindLosesOnlyToTheClosed
  <2>3. CASE t = id
    <3>1. PortHeld(p)
      BY <1>1, <1>2, <2>1, <2>3 DEF TypeOK
    <3>2. PICK old \in Tunnels : listener[old] = "listening" /\ listen_port[old] = p
      BY <3>1 DEF PortHeld
    <3>3. old # t /\ old <= created /\ old \in 1..created
      BY <1>1, <1>2, <2>3, <3>2 DEF ListenersInv, Tunnels
    <3>4. old <= t
      BY <1>1, <3>2, <3>3 DEF NewestListed
    <3>5. ~Listed(old)
      <4> SUFFICES ASSUME NEW q \in Ports, active_tunnels[q] = old PROVE FALSE
        BY DEF Listed
      <4>1. old # None
        BY <1>1, <3>3 DEF None
      <4>2. listen_port[old] = q
        BY <1>1, <4>1 DEF TablesAgree
      <4> QED BY <3>2, <3>3, <4>2
    <3>6. old \in aborted
      BY <1>1, <3>3, <3>5 DEF AbortedAreUnlisted
    <3>7. old < t
      BY <1>1, <2>1, <3>3, <3>4
    <3> QED BY <3>2, <3>6, <3>7
  <2> QED BY <2>2, <2>3
<1> QED
  BY <1>1, <1>2, <1>4, <1>6, <1>7, TaskIInv DEF TypeOK, conns

\* A listener that accepts spawns a connection and stays as it is.
LEMMA AcceptStep ==
  ASSUME IInv, NEW id \in Tunnels, accept(id)
  PROVE  IInv'
<1>1. TypeOK /\ ListenersInv /\ BindLosesOnlyToTheClosed /\ created \in Nat
  BY TunnelAssumption DEF IInv, TypeOK
<1>2. listener[id] = "listening" /\ UNCHANGED <<calls, listener, aborted>>
  BY DEF accept
<1>3. PICK c \in Conns : /\ conn' = [conn EXCEPT ![c] = "connecting"]
                         /\ conn_of' = [conn_of EXCEPT ![c] = id]
  BY DEF accept
<1>4. UNCHANGED <<active_tunnels, created, listen_port, aborted>>
  BY <1>2, CallsKept
<1>5. id \in 0..created
  BY <1>1, <1>2 DEF ListenersInv, Tunnels
<1>6. /\ conn_of' \in [Conns -> 0..created]
      /\ conn' \in [Conns -> {"none", "connecting", "relaying", "ended"}]
  BY <1>1, <1>3, <1>5 DEF TypeOK
<1>7. ListenersInv' /\ BindLosesOnlyToTheClosed'
  BY <1>1, <1>2, <1>4 DEF ListenersInv, BindLosesOnlyToTheClosed
<1> QED
  BY <1>1, <1>2, <1>6, <1>7, TaskIInv DEF TypeOK

\* The runtime drops an aborted listener.
LEMMA CancelStep ==
  ASSUME IInv, NEW id \in Tunnels, cancel(id)
  PROVE  IInv'
<1>1. TypeOK /\ ListenersInv /\ BindLosesOnlyToTheClosed
  BY DEF IInv
<1>2. /\ listener[id] \in {"spawned", "listening"} /\ UNCHANGED <<calls, aborted, conns>>
      /\ listener' = [listener EXCEPT ![id] = "gone"]
  BY DEF cancel
<1>3. UNCHANGED <<active_tunnels, created, listen_port, aborted>>
  BY <1>2, CallsKept
<1>4. listener' \in [Tunnels -> ListenerStates]
  BY <1>1, <1>2 DEF TypeOK, ListenerStates
<1>5. \A i \in Tunnels : /\ listener'[i] # "none" => listener[i] # "none"
                         /\ listener'[i] = "returned" => listener[i] = "returned"
  BY <1>1, <1>2 DEF TypeOK
<1>6. ListenersInv'
  BY <1>1, <1>3, <1>5 DEF ListenersInv
<1>7. \A p \in Ports : active_tunnels[p] # None => active_tunnels[p] \in Tunnels
  BY <1>1, TunnelAssumption DEF TypeOK, Tunnels, None
<1>8. BindLosesOnlyToTheClosed'
  BY <1>1, <1>3, <1>5, <1>7 DEF BindLosesOnlyToTheClosed
<1> QED
  BY <1>1, <1>2, <1>4, <1>6, <1>8, TaskIInv DEF TypeOK, conns

\* A connection relays and ends on its own.
LEMMA ConnectionStep ==
  ASSUME IInv, NEW c \in Conns, handle_tunnel_connection(c)
  PROVE  IInv'
<1>1. TypeOK /\ ListenersInv /\ BindLosesOnlyToTheClosed
  BY DEF IInv
<1>2. /\ UNCHANGED <<calls, listener, aborted, conn_of>>
      /\ conn' \in [Conns -> {"none", "connecting", "relaying", "ended"}]
  BY <1>1 DEF handle_tunnel_connection, TypeOK
<1>3. UNCHANGED <<active_tunnels, created, listen_port, aborted>>
  BY <1>2, CallsKept
<1>4. ListenersInv' /\ BindLosesOnlyToTheClosed'
  BY <1>1, <1>2, <1>3 DEF ListenersInv, BindLosesOnlyToTheClosed
<1> QED
  BY <1>1, <1>2, <1>4, TaskIInv DEF TypeOK
-----------------------------------------------------------------------------
\* Every step keeps the invariant and, to the callers, is a step of the pool, or
\* none, or the shutdown.
LEMMA StepIInv ==
  ASSUME IInv, [Next]_vars
  PROVE  IInv' /\ [shut' \/ Pool!Next]_(Pool!vars)
<1>1. ASSUME NEW p \in PortInputs \cup {NoPort}, create_reverse_tunnel(p)
      PROVE  IInv' /\ (shut' \/ Pool!Next)
  BY <1>1, CreateStep
<1>2. ASSUME NEW p \in PortInputs, close_tunnel(p)
      PROVE  IInv' /\ (shut' \/ Pool!Next)
  BY <1>2, CloseStep
<1>3. CASE shutdown
  BY <1>3, ShutdownStep
<1>4. ASSUME NEW id \in Tunnels, bind(id)
      PROVE  IInv' /\ UNCHANGED Pool!vars
  BY <1>4, BindStep, CallsKept DEF bind
<1>5. ASSUME NEW id \in Tunnels, accept(id)
      PROVE  IInv' /\ UNCHANGED Pool!vars
  BY <1>5, AcceptStep, CallsKept DEF accept
<1>6. ASSUME NEW id \in Tunnels, cancel(id)
      PROVE  IInv' /\ UNCHANGED Pool!vars
  BY <1>6, CancelStep, CallsKept DEF cancel
<1>7. ASSUME NEW c \in Conns, handle_tunnel_connection(c)
      PROVE  IInv' /\ UNCHANGED Pool!vars
  BY <1>7, ConnectionStep, CallsKept DEF handle_tunnel_connection
<1>8. CASE UNCHANGED vars
  <2>1. UNCHANGED <<calls, listener, aborted, conns>>
    BY <1>8 DEF vars
  <2>2. UNCHANGED Pool!vars /\ UNCHANGED <<active_tunnels, created, listen_port, aborted>>
    BY <2>1, CallsKept
  <2>3. ListenersInv' /\ BindLosesOnlyToTheClosed'
    BY <2>1, <2>2 DEF IInv, ListenersInv, BindLosesOnlyToTheClosed
  <2>4. IInv'
    BY <2>1, <2>3, TaskIInv DEF IInv, TypeOK, conns
  <2> QED BY <2>2, <2>4
<1> QED
  BY <1>1, <1>2, <1>3, <1>4, <1>5, <1>6, <1>7, <1>8 DEF Next

\* The invariant holds always.
LEMMA AlwaysIInv == Spec => []IInv
<1>1. Init => IInv
  BY InitIInv
<1>2. IInv /\ [Next]_vars => IInv'
  BY StepIInv
<1> QED
  BY <1>1, <1>2, PTL DEF Spec
-----------------------------------------------------------------------------
\* Whatever the order of calls and task steps, the manager's variables keep their types.
THEOREM TunnelTypes == Spec => []TypeOK
<1>1. IInv => TypeOK
  BY DEF IInv
<1> QED
  BY <1>1, AlwaysIInv, PTL

\* create_reverse_tunnel, close_tunnel and shutdown keep active_tunnels, the task
\* handles and the allocator's set in agreement, and the release inside close_tunnel
\* never fails.
THEOREM TunnelTablesAgree == Spec => []TablesAgree
<1>1. IInv => TablesAgree
  BY DEF IInv
<1> QED
  BY <1>1, AlwaysIInv, PTL

\* The listeners that close_tunnel and shutdown have aborted are those of the tunnels
\* that are no longer listed.
THEOREM TunnelAbortsItsOwn == Spec => []AbortedAreUnlisted
<1>1. IInv => AbortedAreUnlisted
  BY DEF IInv
<1> QED
  BY <1>1, AlwaysIInv, PTL

\* tunnel_listener_task of a listed tunnel fails to bind only because of another
\* process or of a listener that is still to be dropped: never because of another
\* listed tunnel.
THEOREM TunnelBindLoss == Spec => []BindLosesOnlyToTheClosed
<1>1. IInv => BindLosesOnlyToTheClosed
  BY DEF IInv
<1> QED
  BY <1>1, AlwaysIInv, PTL

\* Until shutdown the manager implements the port pool: each reply of
\* create_reverse_tunnel and close_tunnel is the one the open tunnels call for.
THEOREM TunnelManagerIsPool == Spec => PoolUntilShutdown
<1>1. Init => Pool!Init
  <2> SUFFICES ASSUME Init PROVE Pool!Init
    OBVIOUS
  <2>1. {p \in Ports : active_tunnels[p] # None} = {}
    BY DEF Init
  <2>2. PoolReply = Pool!Ok(Pool!NoPort)
    BY DEF Init, PoolReply, Ok, Pool!Ok, NoPort, A!NoPort, Pool!NoPort
  <2> QED BY <2>1, <2>2 DEF Pool!Init
<1>2. IInv /\ [Next]_vars => [shut' \/ Pool!Next]_(Pool!vars)
  BY StepIInv
<1> QED
  BY <1>1, <1>2, AlwaysIInv, PTL DEF Spec, PoolUntilShutdown
=============================================================================
