----------------------------- MODULE Handshake ------------------------------
(***************************************************************************)
(* src/proxy/relay.rs: handShake asks an upstream proxy for a tunnel and   *)
(* reads its answer until the blank line.  TCP may cut the answer          *)
(* anywhere, and what follows the header may arrive in the same read.      *)
(*                                                                         *)
(* A byte is "CR", "LF", one of the two that stand for "HTTP/1.1 200 OK",  *)
(* or another one.                                                         *)
(***************************************************************************)
EXTENDS Naturals, Sequences, SequencesExt

CONSTANTS Replies,      \* what the upstream may answer
          PoolBlocks,   \* what BUFFER_POOL.alloc may hand out, besides capacity
          ReadSize      \* of tmp_buffer, 256 in the code

Prefix   == <<"HTTP", "200">>
HeadEnd  == <<"CR", "LF", "CR", "LF">>
Bytes    == {"HTTP", "200", "CR", "LF", "x"}

ASSUME HandshakeAssumption ==
  Replies \subseteq Seq(Bytes) /\ PoolBlocks \subseteq Seq(Bytes) /\ ReadSize \in Nat \ {0}

VARIABLES
  pc,         \* "write", "read", "ok", "err" or "lost" (Disconnected)
  block,      \* the pooled buffer as it was handed out
  sent,       \* how much of the request the one write took
  reply,      \* the upstream's answer, all of it
  arrived,    \* how much of it has arrived
  closed,     \* the upstream has closed its side
  buffer      \* what the loop has read

vars == <<pc, block, sent, reply, arrived, closed, buffer>>
-----------------------------------------------------------------------------
\* CONNECT host:port HTTP/1.1 and the blank line, after what the block holds.
Request(b) == b \o <<"CONNECT", "host", "port">> \o HeadEnd

\* write, not write_all: the call may take less than it is given.
write_to_stream ==
  /\ pc = "write"
  /\ \E n \in 1..Len(Request(block)) : sent' = n
  /\ pc' = "read"
  /\ UNCHANGED <<block, reply, arrived, closed, buffer>>

\* Where a window of four bytes is the blank line.
Windows(b) == {i \in 0..(Len(b) - 4) : SubSeq(b, i + 1, i + 4) = HeadEnd}

\* The last four bytes are the blank line.  Mutant of HeaderRead: its only test.
AtTail(b) == Len(b) > 4 /\ (Len(b) - 4) \in Windows(b)

\* Mutant: the end of any line will do.
AnyLine(b) == Len(b) > 4 /\ \E i \in 1..(Len(b) - 1) : SubSeq(b, i, i + 1) = <<"CR", "LF">>

\* The loop's two tests: the last four bytes, then the first window.
HeaderRead(b) == AtTail(b) \/ (Len(b) > 4 /\ Windows(b) # {})

\* Mutant: the status is looked for anywhere.
AcceptsAnywhere(b) == \E i \in 1..(Len(b) - 1) : SubSeq(b, i, i + 1) = Prefix

Accepts(b) == IsPrefix(Prefix, b)

\* What the caller gets of the bytes after the header.  Either test leaves an index
\* within the buffer, so it is always nothing.
BodyStart(b) == IF AtTail(b) THEN Len(b) ELSE Min(Windows(b)) + 4
Returned(b)  == IF BodyStart(b) <= Len(b) THEN <<>> ELSE SubSeq(b, BodyStart(b) + 1, Len(b))

\* Mutant: the whole of tmp_buffer is kept, the part that was not read too.
AppendedWhole(n) == SubSeq(reply, 1, Len(buffer) + n) \o [i \in 1..(ReadSize - n) |-> "x"]

Appended(n) == SubSeq(reply, 1, Len(buffer) + n)

\* One turn of the loop.  At the end of the stream the read is of zero bytes, and
\* the loop goes on.
read_from_stream ==
  /\ pc = "read"
  /\ LET avail == arrived - Len(buffer) IN
     \E n \in 0..ReadSize :
       /\ n <= avail
       /\ n = 0 => avail = 0 /\ closed
       /\ buffer' = Appended(n)
  /\ pc' = IF ~HeaderRead(buffer') THEN "read" ELSE IF Accepts(buffer') THEN "ok" ELSE "err"
  /\ UNCHANGED <<block, sent, reply, arrived, closed>>

\* A write or a read fails.
disconnected ==
  /\ pc \in {"write", "read"}
  /\ pc' = "lost"
  /\ UNCHANGED <<block, sent, reply, arrived, closed, buffer>>
-----------------------------------------------------------------------------
\* The upstream answers a request that is complete, in any segments, and may close.
deliver ==
  /\ pc # "write" /\ sent = Len(Request(block)) /\ ~closed
  /\ \E n \in (arrived + 1)..Len(reply) : arrived' = n
  /\ UNCHANGED <<pc, block, sent, reply, closed, buffer>>

close ==
  /\ pc # "write" /\ ~closed
  /\ closed' = TRUE
  /\ UNCHANGED <<pc, block, sent, reply, arrived, buffer>>

Init ==
  /\ pc = "write" /\ sent = 0 /\ buffer = <<>>
  /\ block \in PoolBlocks /\ reply \in Replies
  /\ arrived = 0 /\ closed = FALSE

Next == write_to_stream \/ read_from_stream \/ disconnected \/ deliver \/ close

\* The task is polled when its socket is ready; the upstream owes nothing.
Spec == Init /\ [][Next]_vars /\ WF_vars(write_to_stream) /\ WF_vars(read_from_stream)
-----------------------------------------------------------------------------
\* Every variable keeps its type, and the buffer holds what has been read.
TypeOK ==
  /\ pc \in {"write", "read", "ok", "err", "lost"}
  /\ block \in PoolBlocks /\ reply \in Replies
  /\ sent \in 0..Len(Request(block))
  /\ arrived \in 0..Len(reply) /\ closed \in BOOLEAN
  /\ IsPrefix(buffer, SubSeq(reply, 1, arrived))

\* The verdict is the header's, however the answer was cut: handShake succeeds only
\* after a whole header that begins with the 200 status line, and refuses only
\* after a whole header that does not.
VerdictOnWholeHeader ==
  pc \in {"ok", "err"} =>
    /\ Windows(buffer) # {}
    /\ (pc = "ok") = IsPrefix(Prefix, reply)

\* A tunnel that is open has lost at most what came in the read that ended the
\* header: nothing that arrives later is consumed.
BoundedLoss ==
  pc = "ok" => Len(buffer) - Len(Returned(buffer)) - (Min(Windows(reply)) + 4) < ReadSize

\* Once a header is here the handshake ends, whatever follows it and whether or not
\* the upstream goes on sending.
HeaderEndsHandshake ==
  (pc = "read" /\ HeaderRead(SubSeq(reply, 1, arrived))) ~> pc # "read"
=============================================================================
