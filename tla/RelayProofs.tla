---------------------------- MODULE RelayProofs -----------------------------
(***************************************************************************)
(* The relay's invariants and its refinement of Pipe, for every amount of  *)
(* data, buffer size and receive window.  Conserved alone does not say     *)
(* that a loop which has seen the end of its stream holds nothing back,    *)
(* nor that its total counts what it has written, so CleanClose and the    *)
(* refinement need the control state of each loop beside it (LoopInv).     *)
(***************************************************************************)
EXTENDS Relay, SequenceTheorems, TLAPS

\* Len and \o under names of their own, for the provers to match.
Size(s)   == Len(s)
Cat(a, b) == a \o b

\* What the await a loop is at says of its buffer, its total and its stream.
LoopInv(d) ==
  /\ st[d] # "write" => buf[d] = <<>> /\ total[d] = Size(got[d])
  /\ st[d] = "write" => buf[d] # <<>> /\ total[d] + n[d] = Size(got[d]) + Size(buf[d])
  /\ st[d] \in {"shutdown", "done"} => wire[d] = <<>> /\ fin[d]
  /\ eof[d] <=> st[d] = "done"

\* What was sent in a direction, in its three pieces: with the receiver, in the
\* buffer, on the wire.
Pieces(g, b, w, s) ==
  /\ g \in Seq(1..MaxData) /\ b \in Seq(1..MaxData) /\ w \in Seq(1..MaxData)
  /\ s \in Seq(1..MaxData) /\ Len(s) <= MaxData
  /\ g \o b \o w = s

DirInv(d) == Pieces(got[d], buf[d], wire[d], sent[d]) /\ LoopInv(d)

JoinInv == result = "ok" => \A d \in Dirs : st[d] = "done"

\* The inductive invariant.
IInv == TypeOK /\ (\A d \in Dirs : DirInv(d)) /\ JoinInv
\* What an action of one direction leaves alone in the other.
Untouched(d) ==
  /\ sent'[d] = sent[d] /\ fin'[d] = fin[d] /\ wire'[d] = wire[d] /\ st'[d] = st[d]
  /\ buf'[d] = buf[d] /\ n'[d] = n[d] /\ total'[d] = total[d] /\ got'[d] = got[d]
  /\ eof'[d] = eof[d]
-----------------------------------------------------------------------------
\* Two writes deliver what one would.
LEMMA CatAssociative ==
  ASSUME NEW S, NEW a \in Seq(S), NEW b \in Seq(S), NEW c \in Seq(S)
  PROVE  Cat(Cat(a, b), c) = Cat(a, Cat(b, c))
  BY ConcatAssociative DEF Cat

\* A read or a write cuts a sequence in two and loses nothing of it.
LEMMA CutInTwo ==
  ASSUME NEW S, NEW s \in Seq(S), NEW k \in 0..Len(s)
  PROVE  /\ SubSeq(s, 1, k) \in Seq(S) /\ Len(SubSeq(s, 1, k)) = k
         /\ SubSeq(s, k + 1, Len(s)) \in Seq(S)
         /\ Len(SubSeq(s, k + 1, Len(s))) = Len(s) - k
         /\ SubSeq(s, 1, k) \o SubSeq(s, k + 1, Len(s)) = s
<1>1. Len(s) \in Nat /\ k \in Int /\ 1 \in Int /\ k + 1 \in Int /\ Len(s) \in Int
  OBVIOUS
<1>2. \A i \in 1..Len(s) : s[i] \in S
  OBVIOUS
<1>3. SubSeq(s, 1, k) \in Seq(S) /\ Len(SubSeq(s, 1, k)) = k
  BY <1>1, <1>2, SubSeqProperties
<1>4. /\ SubSeq(s, k + 1, Len(s)) \in Seq(S)
      /\ Len(SubSeq(s, k + 1, Len(s))) = Len(s) - k
  BY <1>1, <1>2, SubSeqProperties
<1>5. SubSeq(s, 1, k) \o SubSeq(s, k + 1, Len(s)) = SubSeq(s, 1, Len(s))
  <2>1. 1 \in 1..Len(s) + 1 /\ k \in (1 - 1)..Len(s) /\ Len(s) \in k..Len(s)
    OBVIOUS
  <2> QED BY <2>1, ConcatAdjacentSubSeq, Zenon
<1> QED
  BY <1>3, <1>4, <1>5, SubSeqFull

\* What has been received is the prefix of its length of what was sent.
LEMMA PrefixOfConcat ==
  ASSUME NEW S, NEW a \in Seq(S), NEW b \in Seq(S)
  PROVE  SubSeq(a \o b, 1, Len(a)) = a
<1>1. /\ a \o b \in Seq(S) /\ Len(a \o b) = Len(a) + Len(b)
      /\ \A i \in 1..Len(a) : (a \o b)[i] = a[i]
  BY ConcatProperties
<1> DEFINE c == a \o b
<1>2. c \in Seq(S) /\ Len(a) \in 0..Len(c) /\ \A i \in 1..Len(a) : c[i] = a[i]
  BY <1>1
<1> HIDE DEF c
<1>3. /\ SubSeq(c, 1, Len(a)) \in Seq(S) /\ Len(SubSeq(c, 1, Len(a))) = Len(a)
      /\ \A i \in 1..Len(a) : SubSeq(c, 1, Len(a))[i] = c[1 + i - 1]
  <2>1. Len(a) \in Int /\ 1 \in Int /\ \A i \in 1..Len(a) : c[i] \in S
    BY <1>2
  <2> QED BY <2>1, SubSeqProperties
<1>4. \A i \in 1..Len(a) : SubSeq(c, 1, Len(a))[i] = a[i]
  BY <1>2, <1>3
<1> QED
  BY <1>3, <1>4, SeqEqual DEF c


\* The pieces add up, and bound what the loop may count.
LEMMA PiecesLength ==
  ASSUME NEW g, NEW b, NEW w, NEW s, Pieces(g, b, w, s)
  PROVE  /\ Size(g) \in Nat /\ Size(b) \in Nat /\ Size(w) \in Nat /\ Size(s) \in Nat
         /\ Size(g) + Size(b) + Size(w) = Size(s) /\ Size(s) <= MaxData
<1> DEFINE U == 1..MaxData
<1>1. g \in Seq(U) /\ b \in Seq(U) /\ w \in Seq(U) /\ s \in Seq(U)
      /\ g \o b \o w = s /\ Len(s) <= MaxData
  BY DEF Pieces
<1> HIDE DEF U
<1>2. g \o b \in Seq(U) /\ Len(g \o b) = Len(g) + Len(b)
  BY <1>1, ConcatProperties
<1>3. Len((g \o b) \o w) = Len(g \o b) + Len(w)
  BY <1>1, <1>2, ConcatProperties
<1> QED
  BY <1>1, <1>2, <1>3 DEF Size

\* A unit that is sent goes on the end of the wire, and of what was sent.
LEMMA PiecesSend ==
  ASSUME NEW g, NEW b, NEW w, NEW s, Pieces(g, b, w, s), NEW x \in 1..MaxData,
         Size(s) < MaxData
  PROVE  Pieces(g, b, Append(w, x), Append(s, x))
<1> DEFINE U == 1..MaxData
           gb == g \o b
<1>1. /\ g \in Seq(U) /\ b \in Seq(U) /\ w \in Seq(U) /\ s \in Seq(U) /\ x \in U
      /\ gb \o w = s
  BY DEF Pieces
<1>2. gb \in Seq(U) /\ <<x>> \in Seq(U)
  BY <1>1, ConcatProperties
<1> HIDE DEF U, gb
<1>3. Append(w, x) = w \o <<x>> /\ Append(s, x) = s \o <<x>>
  BY <1>1, AppendIsConcat
<1>4. gb \o (w \o <<x>>) = (gb \o w) \o <<x>>
  <2> DEFINE t == <<x>>
  <2>1. t \in Seq(U)
    BY <1>2
  <2> HIDE DEF t
  <2>2. Cat(Cat(gb, w), t) = Cat(gb, Cat(w, t))
    BY <1>1, <1>2, <2>1, CatAssociative
  <2> QED BY <2>2 DEF Cat, t
<1>5. gb \o Append(w, x) = Append(s, x)
  BY <1>1, <1>3, <1>4
<1>6. /\ Append(w, x) \in Seq(U) /\ Append(s, x) \in Seq(U)
      /\ Len(Append(s, x)) = Len(s) + 1
  BY <1>1, AppendProperties
<1>7. Len(Append(s, x)) <= MaxData
  BY <1>1, <1>6, RelayAssumption DEF Size
<1> QED
  BY <1>1, <1>5, <1>6, <1>7 DEF Pieces, U, gb

\* A read moves the front of the wire into an empty buffer.
LEMMA PiecesRead ==
  ASSUME NEW g, NEW w, NEW s, Pieces(g, <<>>, w, s), NEW k \in 1..Size(w)
  PROVE  /\ Pieces(g, SubSeq(w, 1, k), SubSeq(w, k + 1, Len(w)), s)
         /\ Size(SubSeq(w, 1, k)) = k
<1> DEFINE U == 1..MaxData
           u == SubSeq(w, 1, k)
           v == SubSeq(w, k + 1, Len(w))
<1>1. /\ g \in Seq(U) /\ w \in Seq(U) /\ s \in Seq(U) /\ Len(s) <= MaxData
      /\ g \o <<>> \o w = s
  BY DEF Pieces
<1> HIDE DEF U
<1>2. u \in Seq(U) /\ Len(u) = k /\ v \in Seq(U) /\ u \o v = w
  BY <1>1, CutInTwo, k \in 0..Len(w) DEF Size
<1> HIDE DEF u, v
<1>3. g \o <<>> = g
  BY <1>1, ConcatEmptySeq
<1>4. (g \o u) \o v = g \o (u \o v)
  <2>1. Cat(Cat(g, u), v) = Cat(g, Cat(u, v))
    BY <1>1, <1>2, CatAssociative
  <2> QED BY <2>1 DEF Cat
<1>5. Pieces(g, u, v, s)
  BY <1>1, <1>2, <1>3, <1>4 DEF Pieces, U
<1> QED
  BY <1>2, <1>5 DEF u, v, Size

\* What the receiver has after a write of k units of b, and what is left of b.
Written(g, b, k) == g \o SubSeq(b, 1, k)
Rest(b, k)       == SubSeq(b, k + 1, Len(b))

\* A write moves the front of the buffer to the receiver, who then has a longer
\* prefix of what was sent.
LEMMA PiecesWrite ==
  ASSUME NEW g, NEW b, NEW w, NEW s, Pieces(g, b, w, s), NEW k \in 1..Size(b)
  PROVE  /\ Pieces(Written(g, b, k), Rest(b, k), w, s)
         /\ Size(Written(g, b, k)) = Size(g) + k
         /\ Size(Rest(b, k)) = Size(b) - k
         /\ Written(g, b, k) = SubSeq(s, 1, Size(g) + k)
<1> DEFINE U == 1..MaxData
           u == SubSeq(b, 1, k)
           v == SubSeq(b, k + 1, Len(b))
<1>1. /\ g \in Seq(U) /\ b \in Seq(U) /\ w \in Seq(U) /\ s \in Seq(U) /\ Len(s) <= MaxData
      /\ g \o b \o w = s
  BY DEF Pieces
<1> HIDE DEF U
<1>2. /\ u \in Seq(U) /\ Len(u) = k
      /\ v \in Seq(U) /\ Len(v) = Len(b) - k /\ u \o v = b
  BY <1>1, CutInTwo, k \in 0..Len(b) DEF Size
<1> HIDE DEF u, v
<1> DEFINE gu == g \o u
<1>3. gu \in Seq(U) /\ Len(gu) = Len(g) + k
  BY <1>1, <1>2, ConcatProperties
<1>4. gu \o v = g \o (u \o v)
  <2>1. Cat(Cat(g, u), v) = Cat(g, Cat(u, v))
    BY <1>1, <1>2, CatAssociative
  <2> QED BY <2>1 DEF Cat
<1> HIDE DEF gu
<1>5. gu \o v \o w = s
  BY <1>1, <1>2, <1>4
<1>6. v \o w \in Seq(U) /\ (gu \o v) \o w = gu \o (v \o w)
  <2>1. Cat(Cat(gu, v), w) = Cat(gu, Cat(v, w))
    BY <1>1, <1>2, <1>3, CatAssociative
  <2>2. v \o w \in Seq(U)
    BY <1>1, <1>2, ConcatProperties
  <2> QED BY <2>1, <2>2 DEF Cat
<1>7. SubSeq(s, 1, Len(gu)) = gu
  BY <1>3, <1>5, <1>6, PrefixOfConcat
<1>8. Pieces(gu, v, w, s)
  BY <1>1, <1>2, <1>3, <1>5 DEF Pieces, U
<1> QED
  BY <1>2, <1>3, <1>7, <1>8 DEF u, v, gu, Written, Rest, Size

\* With nothing in the buffer and on the wire, everything has been received.
LEMMA PiecesAll ==
  ASSUME NEW g, NEW s, Pieces(g, <<>>, <<>>, s)
  PROVE  g = s
<1> DEFINE U == 1..MaxData
<1>1. g \in Seq(U) /\ g \o <<>> \o <<>> = s
  BY DEF Pieces
<1> HIDE DEF U
<1> QED
  BY <1>1, ConcatEmptySeq
\* A step of one direction preserves the invariant of the other.
LEMMA OneDirection ==
  ASSUME IInv, NEW d \in Dirs, TypeOK', DirInv(d)', JoinInv',
         \A e \in Dirs \ {d} : Untouched(e)
  PROVE  IInv'
<1>1. ASSUME NEW e \in Dirs \ {d}
      PROVE  DirInv(e)'
  <2>1. Untouched(e) /\ DirInv(e)
    BY DEF IInv
  <2> QED BY <2>1 DEF DirInv, LoopInv, Untouched
<1> QED
  BY <1>1 DEF IInv
-----------------------------------------------------------------------------
\* The connections are set up with nothing on them.
LEMMA InitIInv == Init => IInv
<1> SUFFICES ASSUME Init PROVE IInv
  OBVIOUS
<1>1. TypeOK
  BY RelayAssumption DEF Init, TypeOK, Dirs, Sides
<1>2. Pieces(<<>>, <<>>, <<>>, <<>>)
  BY RelayAssumption DEF Pieces
<1>3. \A d \in Dirs : DirInv(d)
  <2>1. Size(<<>>) = 0
    BY EmptySeq DEF Size
  <2> QED BY <1>2, <2>1 DEF Init, DirInv, LoopInv
<1> QED
  BY <1>1, <1>3 DEF IInv, JoinInv, Init

\* A peer sends a unit.
LEMMA SendIInv ==
  ASSUME IInv, NEW d \in Dirs, Send(d)
  PROVE  IInv'
<1> DEFINE x == Size(sent[d]) + 1
<1>1. TypeOK /\ DirInv(d)
  BY DEF IInv
<1>2. Pieces(got[d], buf[d], wire[d], sent[d]) /\ Size(sent[d]) < MaxData /\ ~fin[d]
  BY <1>1 DEF DirInv, Send, Size
<1>3. x \in 1..MaxData
  BY <1>2, PiecesLength, RelayAssumption
<1>4. /\ sent' = [sent EXCEPT ![d] = Append(sent[d], x)]
      /\ wire' = [wire EXCEPT ![d] = Append(wire[d], x)]
      /\ UNCHANGED <<fin, loop, receiver, broken, result>>
  BY DEF Send, Size
<1> HIDE DEF x
<1>5. Pieces(got[d], buf[d], Append(wire[d], x), Append(sent[d], x))
  BY <1>2, <1>3, PiecesSend
<1>6. sent'[d] = Append(sent[d], x) /\ wire'[d] = Append(wire[d], x)
  BY <1>1, <1>4 DEF TypeOK
<1>7. TypeOK'
  <2>1. Append(sent[d], x) \in Seq(1..MaxData) /\ Append(wire[d], x) \in Seq(1..MaxData)
    BY <1>5 DEF Pieces
  <2> QED BY <1>1, <1>4, <2>1 DEF TypeOK, loop, receiver
<1>8. DirInv(d)'
  BY <1>1, <1>2, <1>4, <1>5, <1>6 DEF DirInv, LoopInv, loop, receiver
<1>9. \A e \in Dirs \ {d} : Untouched(e)
  BY <1>1, <1>4 DEF TypeOK, Untouched, loop, receiver
<1>10. JoinInv'
  BY <1>4 DEF IInv, JoinInv, loop
<1> QED
  BY <1>7, <1>8, <1>9, <1>10, OneDirection

\* A loop reads what has arrived, or the end of the stream.
LEMMA ReadIInv ==
  ASSUME IInv, NEW d \in Dirs, result = "running", Read(d) \/ ReadEof(d)
  PROVE  IInv'
<1>1. TypeOK /\ DirInv(d) /\ st[d] = "read" /\ result' = "running"
  BY DEF IInv, Read, ReadEof
<1>2. JoinInv'
  BY <1>1 DEF JoinInv
<1>3. CASE Read(d)
  <2>1. PICK k \in 1..Min2(BufSize, Len(wire[d])) :
          /\ buf' = [buf EXCEPT ![d] = SubSeq(wire[d], 1, k)]
          /\ wire' = [wire EXCEPT ![d] = SubSeq(@, k + 1, Len(@))]
          /\ n' = [n EXCEPT ![d] = k]
    BY <1>3 DEF Read
  <2>2. /\ st' = [st EXCEPT ![d] = "write"]
        /\ UNCHANGED <<sent, fin, total, receiver, broken, result>>
    BY <1>3 DEF Read
  <2>3. Pieces(got[d], <<>>, wire[d], sent[d]) /\ buf[d] = <<>> /\ total[d] = Size(got[d])
    BY <1>1 DEF DirInv, LoopInv
  <2>4. k \in 1..Size(wire[d]) /\ k \in 0..BufSize
    <3>1. Size(wire[d]) \in Nat
      BY <2>3, PiecesLength
    <3>2. k \in 1..Min2(BufSize, Size(wire[d]))
      BY DEF Size
    <3> QED BY <3>1, <3>2, RelayAssumption DEF Min2
  <2> DEFINE u == SubSeq(wire[d], 1, k)
             v == SubSeq(wire[d], k + 1, Len(wire[d]))
  <2>5. Pieces(got[d], u, v, sent[d]) /\ Size(u) = k
    BY <2>3, <2>4, PiecesRead
  <2>6. /\ buf' = [buf EXCEPT ![d] = u] /\ wire' = [wire EXCEPT ![d] = v]
        /\ n' = [n EXCEPT ![d] = k]
    BY <2>1
  <2> HIDE DEF u, v
  <2>7. u \in Seq(1..MaxData) /\ v \in Seq(1..MaxData) /\ u # <<>>
    BY <2>4, <2>5, EmptySeq DEF Pieces, Size
  <2>8. TypeOK'
    BY <1>1, <2>2, <2>4, <2>6, <2>7 DEF TypeOK, receiver
  <2>9. buf'[d] = u /\ wire'[d] = v /\ n'[d] = k /\ st'[d] = "write"
    BY <1>1, <2>2, <2>6 DEF TypeOK
  <2>10. DirInv(d)'
    <3>1. Pieces(got[d], buf[d], wire[d], sent[d])'
      BY <2>2, <2>5, <2>9 DEF receiver
    <3>2. total[d] \in Nat /\ k \in Nat
      BY <1>1, <2>4, RelayAssumption DEF TypeOK
    <3>3. ~eof'[d]
      BY <1>1, <2>2 DEF DirInv, LoopInv, receiver
    <3> QED
      BY <2>2, <2>3, <2>5, <2>7, <2>9, <3>1, <3>2, <3>3 DEF DirInv, LoopInv, receiver
  <2>11. \A e \in Dirs \ {d} : Untouched(e)
    BY <1>1, <2>2, <2>6 DEF TypeOK, Untouched, receiver
  <2> QED
    BY <1>2, <2>8, <2>10, <2>11, OneDirection
<1>4. CASE ReadEof(d)
  <2>1. /\ st' = [st EXCEPT ![d] = "shutdown"] /\ wire[d] = <<>> /\ fin[d]
        /\ UNCHANGED <<sent, fin, wire, buf, n, total, receiver, broken, result>>
    BY <1>4 DEF ReadEof
  <2>2. TypeOK'
    BY <1>1, <2>1 DEF TypeOK, receiver
  <2>3. st'[d] = "shutdown"
    BY <1>1, <2>1 DEF TypeOK
  <2>4. DirInv(d)'
    BY <1>1, <2>1, <2>3 DEF DirInv, LoopInv, receiver
  <2>5. \A e \in Dirs \ {d} : Untouched(e)
    BY <1>1, <2>1 DEF TypeOK, Untouched, receiver
  <2> QED
    BY <1>2, <2>2, <2>4, <2>5, OneDirection
<1> QED
  BY <1>3, <1>4

\* A loop writes as much of its buffer as the receiver's window takes.  The receiver
\* then has a longer prefix of what was sent.
LEMMA WriteIInv ==
  ASSUME IInv, NEW d \in Dirs, result = "running", WriteAll(d)
  PROVE  IInv' /\ IsPipe!Deliver(d)
<1>1. TypeOK /\ DirInv(d) /\ st[d] = "write" /\ result' = "running"
  BY DEF IInv, WriteAll
<1>3. /\ IF buf'[d] = <<>>
         THEN st' = [st EXCEPT ![d] = "read"] /\ total' = [total EXCEPT ![d] = total[d] + n[d]]
         ELSE UNCHANGED <<st, total>>
      /\ UNCHANGED <<sent, fin, wire, n, eof, broken, result>>
  BY DEF WriteAll, Count
<1>4. Pieces(got[d], buf[d], wire[d], sent[d]) /\ total[d] + n[d] = Size(got[d]) + Size(buf[d])
  BY <1>1 DEF DirInv, LoopInv
<1>5. /\ Size(got[d]) \in Nat /\ Size(buf[d]) \in Nat /\ Size(wire[d]) \in Nat
      /\ Size(sent[d]) \in Nat
      /\ Size(got[d]) + Size(buf[d]) + Size(wire[d]) = Size(sent[d]) /\ Size(sent[d]) <= MaxData
  BY <1>4, PiecesLength
<1>6. /\ unread[d] \in 0..Window /\ n[d] \in Nat /\ total[d] \in Nat
  BY <1>1, RelayAssumption DEF TypeOK
<1>7. \A j \in 1..Min2(Size(buf[d]), Window - unread[d]) :
        j \in 1..Size(buf[d]) /\ unread[d] + j \in 0..Window
  BY <1>5, <1>6, RelayAssumption DEF Min2
<1>2. PICK k \in 1..Size(buf[d]) :
        /\ unread[d] + k \in 0..Window
        /\ got' = [got EXCEPT ![d] = @ \o SubSeq(buf[d], 1, k)]
        /\ buf' = [buf EXCEPT ![d] = SubSeq(@, k + 1, Size(@))]
        /\ unread' = [unread EXCEPT ![d] = @ + k]
  BY <1>7 DEF WriteAll, Size
<1> DEFINE g == Written(got[d], buf[d], k)
           v == Rest(buf[d], k)
<1>8. /\ Pieces(g, v, wire[d], sent[d]) /\ Size(g) = Size(got[d]) + k
      /\ Size(v) = Size(buf[d]) - k /\ g = SubSeq(sent[d], 1, Size(got[d]) + k)
  BY <1>4, PiecesWrite
<1>9. got' = [got EXCEPT ![d] = g] /\ buf' = [buf EXCEPT ![d] = v]
  BY <1>2 DEF Written, Rest, Size
<1> HIDE DEF g, v
<1>10. g \in Seq(1..MaxData) /\ v \in Seq(1..MaxData)
  BY <1>8 DEF Pieces
<1>11. got'[d] = g /\ buf'[d] = v
  BY <1>1, <1>9 DEF TypeOK
<1>12. (v = <<>>) <=> (k = Size(buf[d]))
  BY <1>5, <1>8, <1>10, EmptySeq DEF Size
<1>13. total[d] + n[d] \in 0..MaxData
  BY <1>4, <1>5, <1>6, RelayAssumption
<1>14. TypeOK'
  <2>1. st' \in [Dirs -> {"read", "write", "shutdown", "done"}] /\ total' \in [Dirs -> 0..MaxData]
    BY <1>1, <1>3, <1>13 DEF TypeOK
  <2>2. got' \in [Dirs -> Seq(1..MaxData)] /\ buf' \in [Dirs -> Seq(1..MaxData)]
    BY <1>1, <1>9, <1>10 DEF TypeOK
  <2>3. unread' \in [Dirs -> 0..Window]
    BY <1>1, <1>2 DEF TypeOK
  <2> QED BY <1>1, <1>3, <2>1, <2>2, <2>3 DEF TypeOK
<1>15. DirInv(d)'
  <2>1. Pieces(got[d], buf[d], wire[d], sent[d])'
    BY <1>3, <1>8, <1>11
  <2>2. ~eof'[d]
    BY <1>1, <1>3 DEF DirInv, LoopInv
  <2>3. CASE v = <<>>
    <3>1. st'[d] = "read" /\ total'[d] = total[d] + n[d]
      BY <1>1, <1>3, <1>11, <2>3 DEF TypeOK
    <3>2. total'[d] = Size(got'[d])
      BY <1>4, <1>5, <1>8, <1>11, <1>12, <2>3, <3>1
    <3> QED BY <1>11, <2>1, <2>2, <2>3, <3>1, <3>2 DEF DirInv, LoopInv
  <2>4. CASE v # <<>>
    <3>1. st'[d] = "write" /\ total'[d] = total[d] /\ n'[d] = n[d]
      BY <1>1, <1>3, <1>11, <2>4
    <3>2. total'[d] + n'[d] = Size(got'[d]) + Size(buf'[d])
      BY <1>4, <1>5, <1>6, <1>8, <1>11, <3>1
    <3> QED BY <1>11, <2>1, <2>2, <2>4, <3>1, <3>2 DEF DirInv, LoopInv
  <2> QED BY <2>3, <2>4
<1>16. \A e \in Dirs \ {d} : Untouched(e)
  BY <1>1, <1>3, <1>9 DEF TypeOK, Untouched
<1>17. IInv'
  BY <1>1, <1>14, <1>15, <1>16, OneDirection DEF JoinInv
<1>18. IsPipe!Deliver(d)
  <2>1. Size(got[d]) + k \in (Size(got[d]) + 1)..Size(sent[d])
    BY <1>5
  <2>2. got' = [got EXCEPT ![d] = SubSeq(sent[d], 1, Size(got[d]) + k)]
    BY <1>8, <1>9
  <2>3. ~eof[d]
    BY <1>1 DEF DirInv, LoopInv
  <2>4. (result = "running")' <=> (result = "running")
    BY <1>1
  <2> QED BY <1>3, <2>1, <2>2, <2>3, <2>4 DEF IsPipe!Deliver, Size
<1> QED
  BY <1>17, <1>18
\* A loop that has read the end of its stream passes it on: the receiver has all of
\* the stream by then.
LEMMA ShutdownIInv ==
  ASSUME IInv, NEW d \in Dirs, result = "running", Shutdown(d)
  PROVE  IInv' /\ IsPipe!End(d)
<1>1. TypeOK /\ DirInv(d) /\ st[d] = "shutdown"
  BY DEF IInv, Shutdown
<1>2. /\ eof' = [eof EXCEPT ![d] = TRUE] /\ st' = [st EXCEPT ![d] = "done"]
      /\ UNCHANGED <<sent, fin, wire, buf, n, total, got, unread, broken, result>>
  BY DEF Shutdown
<1>3. TypeOK' /\ eof'[d] /\ st'[d] = "done"
  BY <1>1, <1>2 DEF TypeOK
<1>4. DirInv(d)'
  BY <1>1, <1>2, <1>3 DEF DirInv, LoopInv
<1>5. \A e \in Dirs \ {d} : Untouched(e)
  BY <1>1, <1>2 DEF TypeOK, Untouched
<1>6. JoinInv'
  BY <1>2 DEF JoinInv
<1>7. got[d] = sent[d] /\ fin[d] /\ ~eof[d]
  <2>1. Pieces(got[d], <<>>, <<>>, sent[d]) /\ fin[d] /\ ~eof[d]
    BY <1>1 DEF DirInv, LoopInv
  <2> QED BY <2>1, PiecesAll
<1>8. IsPipe!End(d)
  BY <1>2, <1>7 DEF IsPipe!End
<1> QED
  BY <1>3, <1>4, <1>5, <1>6, <1>8, OneDirection

\* A peer closes its side, which does not change what has been sent.
LEMMA FinishIInv ==
  ASSUME IInv, NEW d \in Dirs, Finish(d)
  PROVE  IInv' /\ IsPipe!Finish(d)
<1>1. TypeOK /\ DirInv(d)
  BY DEF IInv
<1>2. /\ fin' = [fin EXCEPT ![d] = TRUE] /\ ~fin[d]
      /\ UNCHANGED <<sent, wire, loop, receiver, broken, result>>
  BY DEF Finish
<1>3. TypeOK' /\ fin'[d]
  BY <1>1, <1>2 DEF TypeOK, loop, receiver
<1>4. DirInv(d)'
  BY <1>1, <1>2, <1>3 DEF DirInv, LoopInv, loop, receiver
<1>5. \A e \in Dirs \ {d} : Untouched(e)
  BY <1>1, <1>2 DEF TypeOK, Untouched, loop, receiver
<1>6. JoinInv'
  BY <1>2 DEF IInv, JoinInv, loop
<1>7. IsPipe!Finish(d)
  BY <1>2 DEF IsPipe!Finish, receiver
<1> QED
  BY <1>3, <1>4, <1>5, <1>6, <1>7, OneDirection

\* What moves no data and no loop: a receiver that reads, a reset, and the end of
\* try_join!, for an error or because both loops are done.
LEMMA QuietIInv ==
  ASSUME IInv, UNCHANGED <<sent, fin, wire, loop, got, eof>>,
         unread' \in [Dirs -> 0..Window], broken' \subseteq Sides,
         result' \in {"running", "ok", "error"}, JoinInv'
  PROVE  IInv'
<1>1. TypeOK /\ \A d \in Dirs : DirInv(d)
  BY DEF IInv
<1>2. TypeOK'
  BY <1>1 DEF TypeOK, loop
<1>3. \A d \in Dirs : DirInv(d)'
  BY <1>1 DEF DirInv, LoopInv, loop
<1> QED
  BY <1>2, <1>3 DEF IInv

\* Every step of the relay preserves the inductive invariant, and is a step of the
\* two pipes or none.
LEMMA StepIInv ==
  ASSUME IInv, [Next]_vars
  PROVE  IInv' /\ [IsPipe!Next]_(IsPipe!vars)
<1>1. TypeOK /\ JoinInv
  BY DEF IInv
<1>2. CASE UNCHANGED vars
  <2>1. IInv'
    BY <1>1, <1>2, QuietIInv DEF vars, loop, receiver, TypeOK, JoinInv
  <2> QED BY <1>2, <2>1 DEF vars, loop, receiver, IsPipe!vars
<1>3. CASE try_join
  <2>1. result = "running" /\ result' = "ok" /\ UNCHANGED <<sent, fin, wire, loop, receiver, broken>>
    BY <1>3 DEF try_join
  <2>2. JoinInv'
    BY <1>3, <2>1 DEF try_join, JoinInv, loop
  <2>3. IInv'
    BY <1>1, <2>1, <2>2, QuietIInv DEF TypeOK, receiver
  <2> QED BY <2>1, <2>3 DEF IsPipe!Next, IsPipe!Close, receiver
<1>4. ASSUME NEW d \in Dirs, relay(d)
      PROVE  IInv' /\ [IsPipe!Next]_(IsPipe!vars)
  <2>1. result = "running"
    BY <1>4 DEF relay
  <2>2. CASE Read(d) \/ ReadEof(d)
    <3>1. UNCHANGED <<sent, fin, got, eof, result>>
      BY <2>2 DEF Read, ReadEof, receiver
    <3> QED BY <2>1, <2>2, <3>1, ReadIInv DEF IsPipe!vars
  <2>3. CASE WriteAll(d)
    BY <2>1, <2>3, WriteIInv DEF IsPipe!Next
  <2>4. CASE Shutdown(d)
    BY <2>1, <2>4, ShutdownIInv DEF IsPipe!Next
  <2>5. CASE Fail(d)
    <3>1. result' = "error" /\ UNCHANGED <<sent, fin, wire, loop, receiver, broken>>
      BY <2>5 DEF Fail
    <3>2. IInv'
      BY <1>1, <3>1, QuietIInv DEF TypeOK, JoinInv, receiver
    <3> QED BY <2>1, <3>1, <3>2 DEF IsPipe!Next, IsPipe!Close, receiver
  <2> QED BY <1>4, <2>2, <2>3, <2>4, <2>5 DEF relay
<1>5. ASSUME NEW d \in Dirs, Send(d)
      PROVE  IInv' /\ [IsPipe!Next]_(IsPipe!vars)
  <2>1. IsPipe!Send(d)
    BY <1>5 DEF Send, IsPipe!Send, receiver
  <2> QED BY <1>5, <2>1, SendIInv DEF IsPipe!Next
<1>6. ASSUME NEW d \in Dirs, Finish(d)
      PROVE  IInv' /\ [IsPipe!Next]_(IsPipe!vars)
  BY <1>6, FinishIInv DEF IsPipe!Next
<1>7. ASSUME NEW d \in Dirs, Receive(d)
      PROVE  IInv' /\ [IsPipe!Next]_(IsPipe!vars)
  <2>1. /\ unread' = [unread EXCEPT ![d] = 0]
        /\ UNCHANGED <<sent, fin, wire, loop, got, eof, broken, result>>
    BY <1>7 DEF Receive
  <2>2. unread' \in [Dirs -> 0..Window]
    BY <1>1, <2>1, RelayAssumption DEF TypeOK
  <2>3. IInv'
    BY <1>1, <2>1, <2>2, QuietIInv DEF TypeOK, JoinInv, loop
  <2> QED BY <2>1, <2>3 DEF IsPipe!vars
<1>8. ASSUME NEW side \in Sides, Reset(side)
      PROVE  IInv' /\ [IsPipe!Next]_(IsPipe!vars)
  <2>1. /\ broken' = broken \cup {side}
        /\ UNCHANGED <<sent, fin, wire, loop, receiver, result>>
    BY <1>8 DEF Reset
  <2>2. IInv'
    BY <1>1, <2>1, QuietIInv DEF TypeOK, JoinInv, loop, receiver
  <2> QED BY <2>1, <2>2 DEF IsPipe!vars, receiver
<1> QED
  BY <1>2, <1>3, <1>4, <1>5, <1>6, <1>7, <1>8 DEF Next

\* The inductive invariant always holds, and says what the runs check.
LEMMA AlwaysIInv == Spec => []IInv
<1>1. IInv /\ [Next]_vars => IInv'
  BY StepIInv
<1> QED
  BY InitIInv, <1>1, PTL DEF Spec

\* The pieces of each direction make up what was sent.
LEMMA IInvConserved == IInv => Conserved
  BY DEF IInv, DirInv, Pieces, Conserved

\* Loops that are done hold nothing back and have counted what they wrote.
LEMMA IInvCleanClose == IInv => CleanClose
<1> SUFFICES ASSUME IInv, result = "ok", NEW d \in Dirs
             PROVE  eof[d] /\ got[d] = sent[d] /\ total[d] = Len(sent[d])
  BY DEF CleanClose
<1>1. st[d] = "done" /\ DirInv(d)
  BY DEF IInv, JoinInv
<1>2. Pieces(got[d], <<>>, <<>>, sent[d]) /\ eof[d] /\ total[d] = Size(got[d])
  BY <1>1 DEF DirInv, LoopInv
<1>3. got[d] = sent[d]
  BY <1>2, PiecesAll
<1> QED
  BY <1>2, <1>3 DEF Size

\* Every variable of the relay keeps its type: the buffer and the window are never
\* overrun, and a loop's total never exceeds what was sent.
THEOREM RelayTypes == Spec => []TypeOK
<1>1. IInv => TypeOK
  BY DEF IInv
<1> QED
  BY AlwaysIInv, <1>1, PTL

\* relay_with_logging loses, duplicates and reorders nothing, however reads and
\* writes are cut, also when the tunnel fails.
THEOREM RelayConserves == Spec => []Conserved
  BY AlwaysIInv, IInvConserved, PTL

\* A tunnel whose try_join! returns Ok has delivered both streams whole, told both
\* ends, and logs true totals.
THEOREM RelayClosesCleanly == Spec => []CleanClose
  BY AlwaysIInv, IInvCleanClose, PTL

\* The relay implements a pair of pipes: create_bidirectional_tunnel delivers
\* prefixes in order, the end of a stream last, and nothing once it has returned.
THEOREM RelayImplementsPipe == Spec => ImplementsPipe
<1>1. Init => IsPipe!Init
  BY DEF Init, IsPipe!Init
<1>2. IInv /\ [Next]_vars => [IsPipe!Next]_(IsPipe!vars)
  BY StepIInv
<1> QED
  BY AlwaysIInv, <1>1, <1>2, PTL DEF Spec, ImplementsPipe, IsPipe!Spec
=============================================================================
