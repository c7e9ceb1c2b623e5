------------------------ MODULE PortAllocatorProofs -------------------------
(***************************************************************************)
(* The allocator's invariants and its refinement of PortPool, for every    *)
(* port range.  The inductive invariant is TypeOK /\ Partition: neither    *)
(* half is inductive alone (a port popped from the deque is known to be    *)
(* free only because of Partition, and is a port only because of TypeOK).  *)
(***************************************************************************)
EXTENDS PortAllocator, SequenceTheorems, TLAPS

\* RemoveAt drops one position and shifts what follows it (SequencesExt).
LEMMA RemoveAtProperties ==
  ASSUME NEW S, NEW s \in Seq(S), NEW k \in 1..Len(s)
  PROVE  /\ RemoveAt(s, k) \in Seq(S)
         /\ Len(RemoveAt(s, k)) = Len(s) - 1
         /\ \A i \in 1..(Len(s) - 1) :
               RemoveAt(s, k)[i] = IF i < k THEN s[i] ELSE s[i + 1]
<1> DEFINE a == SubSeq(s, 1, k - 1)
           b == SubSeq(s, k + 1, Len(s))
<1>1. /\ a \in Seq(S) /\ Len(a) = k - 1
      /\ \A i \in 1..(k - 1) : a[i] = s[i]
  BY SubSeqProperties, 1 \in Int, k - 1 \in Int
<1>2. /\ b \in Seq(S) /\ Len(b) = Len(s) - k
      /\ \A i \in 1..(Len(s) - k) : b[i] = s[k + i]
  BY SubSeqProperties, k + 1 \in Int, Len(s) \in Int
<1>3. RemoveAt(s, k) = a \o b
  BY DEF RemoveAt
<1> HIDE DEF a, b
<1>4. /\ a \o b \in Seq(S)
      /\ Len(a \o b) = Len(a) + Len(b)
      /\ \A i \in 1..(Len(a) + Len(b)) :
            (a \o b)[i] = IF i <= Len(a) THEN a[i] ELSE b[i - Len(a)]
  BY <1>1, <1>2, ConcatProperties
<1> QED
  BY <1>1, <1>2, <1>3, <1>4

\* The part of the invariant that one operation has to re-establish, said of any
\* set and deque, so that each operation can be checked on its own.
Parted(allocated, deque) ==
  /\ allocated \subseteq Ports
  /\ deque \in Seq(Ports)
  /\ \A p \in Ports : p \in allocated \/ \E i \in 1..Len(deque) : deque[i] = p
  /\ \A i \in 1..Len(deque) : deque[i] \notin allocated
  /\ \A i, j \in 1..Len(deque) : deque[i] = deque[j] => i = j

\* allocate_specific: moving a free port from the deque to the set keeps them apart.
LEMMA RetainParted ==
  ASSUME NEW A, NEW d, Parted(A, d), NEW p \in Ports, p \notin A
  PROVE  Parted(A \cup {p}, Retain(d, p))
<1>1. PICK k \in 1..Len(d) : d[k] = p
  BY DEF Parted
<1>2. Retain(d, p) = RemoveAt(d, k)
  BY <1>1 DEF Retain, Parted
<1>3. d \in Seq(Ports) /\ Len(d) \in Nat
  BY DEF Parted
<1>4. /\ RemoveAt(d, k) \in Seq(Ports)
      /\ Len(RemoveAt(d, k)) = Len(d) - 1
      /\ \A i \in 1..(Len(d) - 1) :
            RemoveAt(d, k)[i] = IF i < k THEN d[i] ELSE d[i + 1]
  BY <1>3, RemoveAtProperties
<1> DEFINE e == RemoveAt(d, k)
<1>5. /\ e \in Seq(Ports) /\ Len(e) = Len(d) - 1
      /\ \A i \in 1..Len(e) : e[i] = IF i < k THEN d[i] ELSE d[i + 1]
  BY <1>4
<1> HIDE DEF e
<1>6. \A q \in Ports : q \in A \cup {p} \/ \E i \in 1..Len(e) : e[i] = q
  <2> SUFFICES ASSUME NEW q \in Ports, q \notin A \cup {p}
               PROVE  \E i \in 1..Len(e) : e[i] = q
    OBVIOUS
  <2>1. PICK j \in 1..Len(d) : d[j] = q
    BY DEF Parted
  <2>2. CASE j < k
    <3>1. j \in 1..Len(e) /\ e[j] = q
      BY <2>1, <2>2, <1>3, <1>5
    <3> QED BY <3>1
  <2>3. CASE j > k
    <3>1. j - 1 \in 1..Len(e) /\ e[j - 1] = q
      BY <2>1, <2>3, <1>3, <1>5
    <3> QED BY <3>1
  <2> QED
    BY <2>1, <2>2, <2>3, <1>1, <1>3
<1>7. \A i \in 1..Len(e) : e[i] \notin A \cup {p}
  BY <1>1, <1>3, <1>5 DEF Parted
<1>8. \A i, j \in 1..Len(e) : e[i] = e[j] => i = j
  <2> SUFFICES ASSUME NEW i \in 1..Len(e), NEW j \in 1..Len(e), e[i] = e[j]
               PROVE  i = j
    OBVIOUS
  <2> DEFINE f(x) == IF x < k THEN x ELSE x + 1
  <2>1. f(i) \in 1..Len(d) /\ f(j) \in 1..Len(d)
    BY <1>3, <1>5
  <2>2. d[f(i)] = d[f(j)]
    BY <1>5
  <2>3. f(i) = f(j)
    BY <2>1, <2>2 DEF Parted
  <2> QED
    BY <2>3, <1>3, <1>5
<1> QED
  BY <1>2, <1>5, <1>6, <1>7, <1>8 DEF Parted, e

\* allocate_next: so does popping the front.
LEMMA PopFrontParted ==
  ASSUME NEW A, NEW d, Parted(A, d), d # <<>>
  PROVE  /\ Head(d) \in Ports \ A
         /\ Parted(A \cup {Head(d)}, Tail(d))
<1>1. /\ d \in Seq(Ports) /\ Len(d) \in Nat \ {0}
      /\ Head(d) = d[1]
  BY EmptySeq DEF Parted
<1> DEFINE e == Tail(d)
<1>2. /\ e \in Seq(Ports) /\ Len(e) = Len(d) - 1
      /\ \A i \in 1..Len(e) : e[i] = d[i + 1]
  BY <1>1, HeadTailProperties
<1> HIDE DEF e
<1>3. Head(d) \in Ports \ A
  BY <1>1 DEF Parted
<1>4. \A q \in Ports : q \in A \cup {Head(d)} \/ \E i \in 1..Len(e) : e[i] = q
  <2> SUFFICES ASSUME NEW q \in Ports, q \notin A \cup {Head(d)}
               PROVE  \E i \in 1..Len(e) : e[i] = q
    OBVIOUS
  <2>1. PICK j \in 1..Len(d) : d[j] = q
    BY DEF Parted
  <2>2. j - 1 \in 1..Len(e) /\ e[j - 1] = q
    BY <2>1, <1>1, <1>2
  <2> QED BY <2>2
<1>5. \A i \in 1..Len(e) : e[i] \notin A \cup {Head(d)}
  BY <1>1, <1>2 DEF Parted
<1>6. \A i, j \in 1..Len(e) : e[i] = e[j] => i = j
  <2> SUFFICES ASSUME NEW i \in 1..Len(e), NEW j \in 1..Len(e), e[i] = e[j]
               PROVE  i = j
    OBVIOUS
  <2>1. i + 1 \in 1..Len(d) /\ j + 1 \in 1..Len(d) /\ d[i + 1] = d[j + 1]
    BY <1>1, <1>2
  <2>2. i + 1 = j + 1
    BY <2>1 DEF Parted
  <2> QED BY <2>2
<1> QED
  BY <1>2, <1>3, <1>4, <1>5, <1>6 DEF Parted, e

\* release_port: so does putting a released port back, at either end.
LEMMA PushParted ==
  ASSUME NEW A, NEW d, Parted(A, d), NEW p \in A
  PROVE  Parted(A \ {p}, <<p>> \o d) /\ Parted(A \ {p}, Append(d, p))
<1>1. d \in Seq(Ports) /\ Len(d) \in Nat /\ p \in Ports /\ A \subseteq Ports
  BY DEF Parted
<1>a. \A k \in 1..Len(d) : d[k] \notin A
  BY DEF Parted
<1>b. \A k \in 1..Len(d) : d[k] # p
  BY <1>a
<1>c. \A k, l \in 1..Len(d) : d[k] = d[l] => k = l
  BY DEF Parted
<1>2. Parted(A \ {p}, <<p>> \o d)
  <2> DEFINE e == <<p>> \o d
  <2>1. /\ e \in Seq(Ports) /\ Len(e) = Len(d) + 1
        /\ e[1] = p /\ \A i \in 1..Len(d) : e[i + 1] = d[i]
    BY <1>1, ConcatProperties
  <2> HIDE DEF e
  <2>2. \A i \in 1..Len(e) : i = 1 \/ (i - 1 \in 1..Len(d) /\ e[i] = d[i - 1])
    BY <1>1, <2>1
  <2>3. \A q \in Ports : q \in A \ {p} \/ \E i \in 1..Len(e) : e[i] = q
    <3> SUFFICES ASSUME NEW q \in Ports, q \notin A \ {p}
                 PROVE  \E i \in 1..Len(e) : e[i] = q
      OBVIOUS
    <3>1. CASE q = p
      <4>1. 1 \in 1..Len(e)
        BY <1>1, <2>1
      <4> QED BY <3>1, <4>1, <2>1
    <3>2. CASE q # p
      <4>1. PICK j \in 1..Len(d) : d[j] = q
        BY <3>2 DEF Parted
      <4>2. j + 1 \in 1..Len(e) /\ e[j + 1] = q
        BY <4>1, <1>1, <2>1
      <4> QED BY <4>2
    <3> QED BY <3>1, <3>2
  <2>4. \A i \in 1..Len(e) : e[i] \notin A \ {p}
    <3> SUFFICES ASSUME NEW i \in 1..Len(e)
                 PROVE  e[i] = p \/ e[i] \notin A
      OBVIOUS
    <3>1. CASE i = 1
      BY <3>1, <2>1
    <3>2. CASE i # 1
      BY <3>2, <2>2, <1>a
    <3> QED BY <3>1, <3>2
  <2>5. \A i, j \in 1..Len(e) : e[i] = e[j] => i = j
    <3> SUFFICES ASSUME NEW i \in 1..Len(e), NEW j \in 1..Len(e), e[i] = e[j]
                 PROVE  i = j
      OBVIOUS
    <3>0. ASSUME NEW n \in 1..Len(e), n # 1
          PROVE  e[n] # p
      <4>1. n - 1 \in 1..Len(d) /\ e[n] = d[n - 1]
        BY <3>0, <2>2
      <4> QED BY <4>1, <1>b
    <3>1. CASE i = 1 \/ j = 1
      BY <3>0, <3>1, <2>1
    <3>2. CASE i # 1 /\ j # 1
      <4>1. i - 1 \in 1..Len(d) /\ j - 1 \in 1..Len(d) /\ d[i - 1] = d[j - 1]
        BY <3>2, <2>2
      <4>2. i - 1 = j - 1
        BY <4>1, <1>c
      <4> QED BY <4>2
    <3> QED BY <3>1, <3>2
  <2> QED
    BY <1>1, <2>1, <2>3, <2>4, <2>5 DEF Parted, e
<1>3. Parted(A \ {p}, Append(d, p))
  <2> DEFINE e == Append(d, p)
  <2>1. /\ e \in Seq(Ports) /\ Len(e) = Len(d) + 1
        /\ e[Len(e)] = p /\ \A i \in 1..Len(d) : e[i] = d[i]
    BY <1>1, AppendProperties
  <2> HIDE DEF e
  <2>2. \A i \in 1..Len(e) : i = Len(e) \/ (i \in 1..Len(d) /\ e[i] = d[i])
    BY <1>1, <2>1
  <2>3. \A q \in Ports : q \in A \ {p} \/ \E i \in 1..Len(e) : e[i] = q
    <3> SUFFICES ASSUME NEW q \in Ports, q \notin A \ {p}
                 PROVE  \E i \in 1..Len(e) : e[i] = q
      OBVIOUS
    <3>1. CASE q = p
      <4>1. Len(e) \in 1..Len(e)
        BY <1>1, <2>1
      <4> QED BY <3>1, <4>1, <2>1
    <3>2. CASE q # p
      <4>1. PICK j \in 1..Len(d) : d[j] = q
        BY <3>2 DEF Parted
      <4>2. j \in 1..Len(e) /\ e[j] = q
        BY <4>1, <1>1, <2>1
      <4> QED BY <4>2
    <3> QED BY <3>1, <3>2
  <2>4. \A i \in 1..Len(e) : e[i] \notin A \ {p}
    <3> SUFFICES ASSUME NEW i \in 1..Len(e)
                 PROVE  e[i] = p \/ e[i] \notin A
      OBVIOUS
    <3>1. CASE i = Len(e)
      BY <3>1, <2>1
    <3>2. CASE i # Len(e)
      BY <3>2, <2>2, <1>a
    <3> QED BY <3>1, <3>2
  <2>5. \A i, j \in 1..Len(e) : e[i] = e[j] => i = j
    <3> SUFFICES ASSUME NEW i \in 1..Len(e), NEW j \in 1..Len(e), e[i] = e[j]
                 PROVE  i = j
      OBVIOUS
    <3>0. ASSUME NEW n \in 1..Len(e), n # Len(e)
          PROVE  e[n] # p
      BY <3>0, <2>2, <1>b
    <3>1. CASE i = Len(e) \/ j = Len(e)
      BY <3>0, <3>1, <2>1
    <3>2. CASE i # Len(e) /\ j # Len(e)
      BY <3>2, <2>2, <1>c
    <3> QED BY <3>1, <3>2
  <2> QED
    BY <1>1, <2>1, <2>3, <2>4, <2>5 DEF Parted, e
<1> QED
  BY <1>2, <1>3
-----------------------------------------------------------------------------
\* The inductive invariant: the set and the deque part the range, with the types
\* that the arithmetic on next_port needs.
IInv == TypeOK /\ Partition

\* The same, with what it says of the set and the deque named.
LEMMA IInvIsParted == TypeOK /\ Partition <=> /\ Parted(allocated_ports, available_ports)
                                             /\ next_port \in Ports /\ result \in Results
  BY DEF TypeOK, Partition, Parted

\* PortAllocator::new fills the deque with the whole range, each port once.
LEMMA InitParted == AllocInit => Parted(allocated_ports, available_ports) /\ next_port \in Ports
<1> SUFFICES ASSUME AllocInit PROVE Parted(allocated_ports, available_ports) /\ next_port \in Ports
  OBVIOUS
<1> DEFINE d == [i \in 1..(MaxPort - MinPort + 1) |-> MinPort + i - 1]
<1>1. d \in Seq(Ports) /\ Len(d) = MaxPort - MinPort + 1
  BY PortRangeAssumption DEF Ports
<1>2. \A i \in 1..Len(d) : d[i] = MinPort + i - 1
  BY <1>1
<1>3. available_ports = d /\ allocated_ports = {} /\ next_port = MinPort
  BY DEF AllocInit
<1> HIDE DEF d
<1>4. \A p \in Ports : \E i \in 1..Len(d) : d[i] = p
  <2> SUFFICES ASSUME NEW p \in Ports PROVE \E i \in 1..Len(d) : d[i] = p
    OBVIOUS
  <2>1. p - MinPort + 1 \in 1..Len(d) /\ d[p - MinPort + 1] = p
    BY <1>1, <1>2, PortRangeAssumption DEF Ports
  <2> QED BY <2>1
<1>5. \A i, j \in 1..Len(d) : d[i] = d[j] => i = j
  BY <1>1, <1>2, PortRangeAssumption
<1>6. next_port \in Ports
  BY <1>3, PortRangeAssumption DEF Ports
<1> QED
  BY <1>1, <1>3, <1>4, <1>5, <1>6 DEF Parted

\* PortAllocator::new establishes the invariant.
LEMMA InitIInv == Init => IInv
<1> SUFFICES ASSUME Init PROVE IInv
  OBVIOUS
<1>1. Parted(allocated_ports, available_ports) /\ next_port \in Ports
  BY InitParted DEF Init
<1>2. result \in Results
  BY DEF Init, Results, Ok
<1> QED
  BY <1>1, <1>2, IInvIsParted DEF IInv

\* allocate_port, for any caller: the set and the deque stay apart, and the Result is
\* the one that the set calls for.
LEMMA AllocateStep ==
  ASSUME Parted(allocated_ports, available_ports), next_port \in Ports,
         NEW preferred \in PortInputs \cup {NoPort}, NEW r, allocate_port(preferred, r)
  PROVE  /\ Parted(allocated_ports', available_ports') /\ next_port' \in Ports
         /\ r \in Results
         /\ \/ /\ r.port \in Ports \ allocated_ports /\ r = Ok(r.port)
               /\ preferred # NoPort => r.port = preferred
               /\ allocated_ports' = allocated_ports \cup {r.port}
            \/ /\ preferred # NoPort /\ preferred \notin Ports
               /\ r = Err("PortOutOfRange", preferred) /\ allocated_ports' = allocated_ports
            \/ /\ preferred # NoPort /\ preferred \in allocated_ports
               /\ r = Err("PortUnavailable", preferred) /\ allocated_ports' = allocated_ports
            \/ /\ preferred = NoPort /\ Ports \subseteq allocated_ports
               /\ r = Err("NoPortsAvailable", NoPort) /\ allocated_ports' = allocated_ports
<1>1. CASE preferred # NoPort
  <2>1. /\ preferred \in PortInputs /\ preferred \in Int /\ (is_in_range(preferred) <=> preferred \in Ports)
        /\ allocate_specific(preferred, r)
    BY <1>1, PortRangeAssumption DEF is_in_range, Ports, allocate_port
  <2>2. CASE is_in_range(preferred) /\ ~is_allocated(preferred)
    <3>1. /\ r = Ok(preferred) /\ next_port' = next_port
          /\ allocated_ports' = allocated_ports \cup {preferred}
          /\ available_ports' = Retain(available_ports, preferred)
      BY <2>1, <2>2 DEF allocate_specific, Allocate
    <3>2. preferred \in Ports /\ preferred \notin allocated_ports /\ r.port = preferred
      BY <2>1, <2>2, <3>1 DEF is_allocated, Ok
    <3>3. Parted(allocated_ports', available_ports')
      BY <3>1, <3>2, RetainParted
    <3> QED
      BY <2>1, <3>1, <3>2, <3>3 DEF Results, Ok
  <2>3. CASE ~is_in_range(preferred) \/ is_allocated(preferred)
    <3>1. /\ UNCHANGED allocVars
          /\ \/ preferred \notin Ports /\ r = Err("PortOutOfRange", preferred)
             \/ preferred \in allocated_ports /\ r = Err("PortUnavailable", preferred)
      BY <2>1, <2>3 DEF allocate_specific, is_allocated
    <3> QED
      BY <1>1, <2>1, <3>1 DEF allocVars, Parted, Results, Err
  <2> QED BY <2>2, <2>3
<1>2. CASE preferred = NoPort
  <2>1. allocate_next(r)
    BY <1>2 DEF allocate_port
  <2>2. CASE available_ports # <<>>
    <3> DEFINE p == Head(available_ports)
    <3>1. /\ r = Ok(p)
          /\ allocated_ports' = allocated_ports \cup {p}
          /\ available_ports' = Tail(available_ports)
          /\ next_port' = IF p = MaxPort THEN MinPort ELSE p + 1
      BY <2>1, <2>2 DEF allocate_next, Allocate, NextPort
    <3>2. p \in Ports \ allocated_ports /\ Parted(allocated_ports', available_ports')
      BY <2>2, <3>1, PopFrontParted
    <3> HIDE DEF p
    <3>3. next_port' \in Ports
      BY <3>1, <3>2, PortRangeAssumption DEF Ports
    <3> QED
      BY <1>2, <3>1, <3>2, <3>3 DEF Results, Ok
  <2>3. CASE available_ports = <<>>
    <3>1. UNCHANGED allocVars /\ r = Err("NoPortsAvailable", NoPort)
      BY <2>1, <2>3 DEF allocate_next
    <3>2. Ports \subseteq allocated_ports
      BY <2>3, EmptySeq DEF Parted
    <3> QED
      BY <1>2, <3>1, <3>2 DEF allocVars, Parted, Results, Err
  <2> QED BY <2>2, <2>3
<1> QED BY <1>1, <1>2

\* release_port, for any caller.
LEMMA ReleaseStep ==
  ASSUME Parted(allocated_ports, available_ports), next_port \in Ports,
         NEW port \in PortInputs, NEW r, release_port(port, r)
  PROVE  /\ Parted(allocated_ports', available_ports') /\ next_port' \in Ports
         /\ r \in Results
         /\ \/ /\ port \in allocated_ports /\ r = Ok(port)
               /\ allocated_ports' = allocated_ports \ {port}
            \/ /\ port \notin allocated_ports /\ r = Err("PortNotAllocated", port)
               /\ allocated_ports' = allocated_ports
<1>1. CASE is_allocated(port)
  <2>1. /\ r = Ok(port) /\ next_port' = next_port
        /\ allocated_ports' = allocated_ports \ {port}
        /\ \/ available_ports' = <<port>> \o available_ports
           \/ available_ports' = Append(available_ports, port)
    BY <1>1 DEF release_port, Reinsert
  <2>2. port \in allocated_ports
    BY <1>1 DEF is_allocated
  <2>3. Parted(allocated_ports', available_ports')
    BY <2>1, <2>2, PushParted
  <2> QED
    BY <2>1, <2>2, <2>3 DEF Results, Ok
<1>2. CASE ~is_allocated(port)
  <2>1. /\ UNCHANGED allocVars /\ r = Err("PortNotAllocated", port)
        /\ port \notin allocated_ports
    BY <1>2 DEF release_port, is_allocated
  <2> QED
    BY <2>1 DEF allocVars, Parted, Results, Err
<1> QED BY <1>1, <1>2

\* Each operation preserves the inductive invariant, and is the PortPool step of
\* the same name.
LEMMA StepIInv ==
  ASSUME IInv, [Next]_vars
  PROVE  IInv' /\ [Pool!Next]_(Pool!vars)
<1>1. Parted(allocated_ports, available_ports) /\ next_port \in Ports /\ result \in Results
  BY IInvIsParted DEF IInv
<1>2. ASSUME Parted(allocated_ports', available_ports'), next_port' \in Ports, result' \in Results
      PROVE  IInv'
  BY <1>2 DEF IInv, TypeOK, Partition, Parted
<1>3. CASE UNCHANGED vars
  BY <1>3 DEF IInv, TypeOK, Partition, vars, Pool!vars
<1>4. ASSUME NEW preferred \in PortInputs \cup {NoPort}, allocate_port(preferred, result')
      PROVE  IInv' /\ Pool!Next
  <2>1. /\ Parted(allocated_ports', available_ports') /\ next_port' \in Ports
        /\ result' \in Results
        /\ \/ /\ result'.port \in Ports \ allocated_ports /\ result' = Ok(result'.port)
              /\ preferred # NoPort => result'.port = preferred
              /\ allocated_ports' = allocated_ports \cup {result'.port}
           \/ /\ preferred # NoPort /\ preferred \notin Ports
              /\ result' = Err("PortOutOfRange", preferred) /\ allocated_ports' = allocated_ports
           \/ /\ preferred # NoPort /\ preferred \in allocated_ports
              /\ result' = Err("PortUnavailable", preferred) /\ allocated_ports' = allocated_ports
           \/ /\ preferred = NoPort /\ Ports \subseteq allocated_ports
              /\ result' = Err("NoPortsAvailable", NoPort) /\ allocated_ports' = allocated_ports
    BY <1>1, <1>4, AllocateStep
  <2>2. CASE preferred = NoPort
    <3>1. Pool!LeaseAny
      BY <2>1, <2>2 DEF Pool!LeaseAny, Pool!Ok, Pool!Err, Ok, Err, NoPort, Pool!NoPort
    <3> QED BY <1>2, <2>1, <3>1 DEF Pool!Next
  <2>3. CASE preferred # NoPort
    <3>1. Pool!LeaseNamed(preferred)
      BY <2>1, <2>3 DEF Pool!LeaseNamed, Pool!Ok, Pool!Err, Ok, Err
    <3> QED BY <1>2, <1>4, <2>1, <2>3, <3>1 DEF Pool!Next
  <2> QED BY <2>2, <2>3
<1>5. ASSUME NEW port \in PortInputs, release_port(port, result')
      PROVE  IInv' /\ Pool!Next
  <2>1. /\ Parted(allocated_ports', available_ports') /\ next_port' \in Ports
        /\ result' \in Results
        /\ \/ /\ port \in allocated_ports /\ result' = Ok(port)
              /\ allocated_ports' = allocated_ports \ {port}
           \/ /\ port \notin allocated_ports /\ result' = Err("PortNotAllocated", port)
              /\ allocated_ports' = allocated_ports
    BY <1>1, <1>5, ReleaseStep
  <2>2. Pool!Release(port)
    BY <2>1 DEF Pool!Release, Pool!Ok, Pool!Err, Ok, Err
  <2> QED BY <1>2, <2>1, <2>2 DEF Pool!Next
<1> QED
  BY <1>3, <1>4, <1>5 DEF Next

\* The HashSet and the VecDeque partition the port range in every reachable state,
\* whatever the range and however many calls are made.
THEOREM AllocatorPartition == Spec => [](TypeOK /\ Partition)
<1>1. Init => IInv
  BY InitIInv
<1>2. IInv /\ [Next]_vars => IInv'
  BY StepIInv
<1> QED
  BY <1>1, <1>2, PTL DEF Spec, IInv

\* In particular every variable of the allocator keeps its type: next_port wraps
\* within the range and the deque holds ports of the range only.
THEOREM AllocatorTypes == Spec => []TypeOK
  BY AllocatorPartition, PTL

\* The allocator implements the abstract port pool: every reply of allocate_port and
\* release_port is one the set of leased ports justifies.
THEOREM AllocatorImplementsPool == Spec => IsPortPool
<1>1. Init => Pool!Init
  BY DEF Init, AllocInit, Pool!Init, Ok, NoPort, Pool!Ok, Pool!NoPort
<1>2. IInv /\ [Next]_vars => [Pool!Next]_(Pool!vars)
  BY StepIInv
<1>3. Spec => []IInv
  BY AllocatorPartition, PTL DEF IInv
<1> QED
  BY <1>1, <1>2, <1>3, PTL DEF Spec, IsPortPool, Pool!Spec
=============================================================================
