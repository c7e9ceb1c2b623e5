------------------------------- MODULE Relay --------------------------------
(***************************************************************************)
(* src/stream.rs: create_bidirectional_tunnel, two relay loops under       *)
(* try_join!, with the client and the target at the ends.  Tunnels of      *)
(* src/tunnel/manager.rs (handle_tunnel_connection) have the same shape.   *)
(*                                                                         *)
(* Direction "c2t" reads from the client and writes to the target, "t2c"   *)
(* the other way.  The two loops run in one task and meet at awaits only;  *)
(* a loop that waits for its reader or its writer does not hold up the     *)
(* other.  The first error drops both, with what they hold.                *)
(***************************************************************************)
EXTENDS Naturals, Sequences, SequencesExt

CONSTANTS MaxData,   \* bound on the units sent in each direction
          BufSize,   \* the relay's buffer (1024 bytes)
          Window     \* how much a receiver accepts without reading

ASSUME RelayAssumption ==
  MaxData \in Nat /\ BufSize \in Nat \ {0} /\ Window \in Nat \ {0}

Dirs  == {"c2t", "t2c"}
Sides == {"client", "target"}
Src(d) == IF d = "c2t" THEN "client" ELSE "target"
Dst(d) == IF d = "c2t" THEN "target" ELSE "client"

VARIABLES
  sent, fin,      \* [Dirs -> ...] what the sender sent, and whether it closed
  wire,           \* sent, not yet read by the relay
  st, buf, n, total,   \* each loop: its await, unwritten buffer, read size, total
  got, unread, eof,    \* at the receiver: data, how much of it is unread, end
  broken,         \* the sides whose connection was reset
  result          \* of try_join!: "running", "ok" or "error"

loop == <<st, buf, n, total>>
receiver == <<got, unread, eof>>
vars == <<sent, fin, wire, loop, receiver, broken, result>>

IsPipe == INSTANCE Pipe WITH open <- result = "running"

Min2(a, b) == IF a <= b THEN a ELSE b
-----------------------------------------------------------------------------
\* The peers.
Send(d) ==
  /\ ~fin[d] /\ Src(d) \notin broken /\ Len(sent[d]) < MaxData
  /\ sent' = [sent EXCEPT ![d] = Append(@, Len(@) + 1)]
  /\ wire' = [wire EXCEPT ![d] = Append(@, Len(sent[d]) + 1)]
  /\ UNCHANGED <<fin, loop, receiver, broken, result>>

Finish(d) ==
  /\ ~fin[d] /\ Src(d) \notin broken
  /\ fin' = [fin EXCEPT ![d] = TRUE]
  /\ UNCHANGED <<sent, wire, loop, receiver, broken, result>>

Receive(d) ==
  /\ unread[d] > 0
  /\ unread' = [unread EXCEPT ![d] = 0]
  /\ UNCHANGED <<sent, fin, wire, loop, got, eof, broken, result>>

Reset(side) ==
  /\ side \notin broken /\ result = "running"
  /\ broken' = broken \cup {side}
  /\ UNCHANGED <<sent, fin, wire, loop, receiver, result>>
-----------------------------------------------------------------------------
\* relay_with_logging, one loop.
Read(d) ==
  /\ st[d] = "read" /\ Src(d) \notin broken
  /\ \E k \in 1..Min2(BufSize, Len(wire[d])) :
       /\ buf' = [buf EXCEPT ![d] = SubSeq(wire[d], 1, k)]
       /\ wire' = [wire EXCEPT ![d] = SubSeq(@, k + 1, Len(@))]
       /\ n' = [n EXCEPT ![d] = k]
  /\ st' = [st EXCEPT ![d] = "write"]
  /\ UNCHANGED <<sent, fin, total, receiver, broken, result>>

\* Mutant: the end of the stream overtakes what is still to be read.
ReadFin(d) ==
  /\ st[d] = "read" /\ fin[d]
  /\ st' = [st EXCEPT ![d] = "shutdown"]
  /\ UNCHANGED <<sent, fin, wire, buf, n, total, receiver, broken, result>>

ReadEof(d) ==
  /\ st[d] = "read" /\ Src(d) \notin broken
  /\ wire[d] = <<>> /\ fin[d]
  /\ st' = [st EXCEPT ![d] = "shutdown"]
  /\ UNCHANGED <<sent, fin, wire, buf, n, total, receiver, broken, result>>

\* Mutant: write instead of write_all, so the rest of a short write is forgotten.
WriteOnce(d) ==
  /\ st[d] = "write" /\ Dst(d) \notin broken
  /\ \E k \in 1..Min2(Len(buf[d]), Window - unread[d]) :
       /\ got' = [got EXCEPT ![d] = @ \o SubSeq(buf[d], 1, k)]
       /\ unread' = [unread EXCEPT ![d] = @ + k]
  /\ buf' = [buf EXCEPT ![d] = <<>>]
  /\ st' = [st EXCEPT ![d] = "read"]
  /\ UNCHANGED <<sent, fin, wire, n, total, eof, broken, result>>

\* total += n; and a mutant that adds the size of the buffer.
CountBuffer(d) == total' = [total EXCEPT ![d] = @ + BufSize]
Count(d) == total' = [total EXCEPT ![d] = @ + n[d]]

\* write_all: as many writes as the receiver's window takes.
WriteAll(d) ==
  /\ st[d] = "write" /\ Dst(d) \notin broken
  /\ \E k \in 1..Min2(Len(buf[d]), Window - unread[d]) :
       /\ got' = [got EXCEPT ![d] = @ \o SubSeq(buf[d], 1, k)]
       /\ buf' = [buf EXCEPT ![d] = SubSeq(@, k + 1, Len(@))]
       /\ unread' = [unread EXCEPT ![d] = @ + k]
  /\ IF buf'[d] = <<>>
     THEN /\ st' = [st EXCEPT ![d] = "read"]
          /\ Count(d)
     ELSE UNCHANGED <<st, total>>
  /\ UNCHANGED <<sent, fin, wire, n, eof, broken, result>>

Shutdown(d) ==
  /\ st[d] = "shutdown" /\ Dst(d) \notin broken
  /\ eof' = [eof EXCEPT ![d] = TRUE]
  /\ st' = [st EXCEPT ![d] = "done"]
  /\ UNCHANGED <<sent, fin, wire, buf, n, total, got, unread, broken, result>>

\* The `?` of a read, of a write and of the shutdown: try_join! returns at once and
\* drops the other loop; all four halves are closed.
Fail(d) ==
  /\ \/ st[d] = "read" /\ Src(d) \in broken
     \/ st[d] \in {"write", "shutdown"} /\ Dst(d) \in broken
  /\ result' = "error"
  /\ UNCHANGED <<sent, fin, wire, loop, receiver, broken>>

\* Mutant: the loops are awaited one after the other.
relay_in_turn(d) ==
  /\ result = "running" /\ (d = "t2c" => st["c2t"] = "done")
  /\ Read(d) \/ ReadEof(d) \/ WriteAll(d) \/ Shutdown(d) \/ Fail(d)

relay(d) ==
  /\ result = "running"
  /\ Read(d) \/ ReadEof(d) \/ WriteAll(d) \/ Shutdown(d) \/ Fail(d)

\* Mutant: select! instead of try_join!.
JoinEither ==
  /\ result = "running" /\ \E d \in Dirs : st[d] = "done"
  /\ result' = "ok"
  /\ UNCHANGED <<sent, fin, wire, loop, receiver, broken>>

try_join ==
  /\ result = "running" /\ \A d \in Dirs : st[d] = "done"
  /\ result' = "ok"
  /\ UNCHANGED <<sent, fin, wire, loop, receiver, broken>>

Init ==
  /\ sent = [d \in Dirs |-> <<>>] /\ fin = [d \in Dirs |-> FALSE]
  /\ wire = [d \in Dirs |-> <<>>]
  /\ st = [d \in Dirs |-> "read"] /\ buf = [d \in Dirs |-> <<>>]
  /\ n = [d \in Dirs |-> 0] /\ total = [d \in Dirs |-> 0]
  /\ got = [d \in Dirs |-> <<>>] /\ unread = [d \in Dirs |-> 0]
  /\ eof = [d \in Dirs |-> FALSE]
  /\ broken = {} /\ result = "running"

Next ==
  \/ try_join
  \/ \E d \in Dirs : relay(d) \/ Send(d) \/ Finish(d) \/ Receive(d)
  \/ \E side \in Sides : Reset(side)

\* The task runs each loop that can run.
Spec == Init /\ [][Next]_vars /\ WF_vars(try_join) /\ \A d \in Dirs : WF_vars(relay(d))
-----------------------------------------------------------------------------
\* Every variable keeps its type.
TypeOK ==
  /\ sent \in [Dirs -> Seq(1..MaxData)] /\ wire \in [Dirs -> Seq(1..MaxData)]
  /\ fin \in [Dirs -> BOOLEAN] /\ eof \in [Dirs -> BOOLEAN]
  /\ st \in [Dirs -> {"read", "write", "shutdown", "done"}]
  /\ buf \in [Dirs -> Seq(1..MaxData)] /\ got \in [Dirs -> Seq(1..MaxData)]
  /\ n \in [Dirs -> 0..BufSize] /\ total \in [Dirs -> 0..MaxData]
  /\ unread \in [Dirs -> 0..Window]
  /\ broken \subseteq Sides /\ result \in {"running", "ok", "error"}

\* Every unit sent is in exactly one place, in order: with the receiver, in the
\* loop's buffer or on the wire; also after the tunnel has failed.
Conserved == \A d \in Dirs : got[d] \o buf[d] \o wire[d] = sent[d]

\* A tunnel that closes without an error has delivered both streams whole, both
\* ends have been told, and the totals it logs are the true ones.
CleanClose ==
  result = "ok" => \A d \in Dirs : eof[d] /\ got[d] = sent[d] /\ total[d] = Len(sent[d])

\* The tunnel is a pair of pipes: prefixes, in order, the end of a stream last, and
\* nothing delivered after it has closed.
ImplementsPipe == IsPipe!Spec

\* Half-close and backpressure: the end of one direction reaches its receiver
\* although the other direction is idle, blocked by a receiver that never reads, or
\* long closed; only a reset prevents it, or a receiver that itself stops reading.
HalfCloseDelivered ==
  WF_vars(Receive("t2c")) => (fin["t2c"] ~> (eof["t2c"] \/ broken # {}))
=============================================================================
