-------------------------------- MODULE Pipe --------------------------------
(***************************************************************************)
(* What a tunnel promises the two parties it connects: each direction is   *)
(* a pipe that delivers a prefix of what was sent, in order, and reports   *)
(* the end of the stream only after all of it.  The tunnel may end early   *)
(* at any moment; it is then open to neither direction.                    *)
(***************************************************************************)
EXTENDS Naturals, Sequences

CONSTANTS Dirs,      \* the directions
          MaxData    \* bound on what is sent in a direction

VARIABLES sent, fin,   \* by the sender: the data, and that there is no more
          got, eof,    \* by the receiver
          open

vars == <<sent, fin, got, eof, open>>

Init ==
  /\ sent = [d \in Dirs |-> <<>>] /\ fin = [d \in Dirs |-> FALSE]
  /\ got = [d \in Dirs |-> <<>>] /\ eof = [d \in Dirs |-> FALSE]
  /\ open = TRUE

Send(d) ==
  /\ ~fin[d] /\ Len(sent[d]) < MaxData
  /\ sent' = [sent EXCEPT ![d] = Append(@, Len(@) + 1)]
  /\ UNCHANGED <<fin, got, eof, open>>

Finish(d) ==
  /\ ~fin[d]
  /\ fin' = [fin EXCEPT ![d] = TRUE]
  /\ UNCHANGED <<sent, got, eof, open>>

Deliver(d) ==
  /\ open /\ ~eof[d]
  /\ \E n \in (Len(got[d]) + 1)..Len(sent[d]) :
       got' = [got EXCEPT ![d] = SubSeq(sent[d], 1, n)]
  /\ UNCHANGED <<sent, fin, eof, open>>

End(d) ==
  /\ open /\ fin[d] /\ got[d] = sent[d] /\ ~eof[d]
  /\ eof' = [eof EXCEPT ![d] = TRUE]
  /\ UNCHANGED <<sent, fin, got, open>>

Close == open /\ open' = FALSE /\ UNCHANGED <<sent, fin, got, eof>>

Next == Close \/ \E d \in Dirs : Send(d) \/ Finish(d) \/ Deliver(d) \/ End(d)

Spec == Init /\ [][Next]_vars
=============================================================================
