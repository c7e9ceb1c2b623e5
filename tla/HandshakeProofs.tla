-------------------------- MODULE HandshakeProofs ---------------------------
(***************************************************************************)
(* The handshake's invariants, for every upstream answer, however TCP cuts *)
(* it, and every size of tmp_buffer.                                       *)
(*                                                                         *)
(* The argument is about prefixes: what the loop has read is always the    *)
(* beginning of the answer, so the windows it finds and the status line it *)
(* tests are those of the answer itself.                                   *)
(***************************************************************************)
EXTENDS Handshake, SequenceTheorems, WellFoundedInduction, TLAPS

\* What the loop has read is the beginning of what has arrived.
ReadInv ==
  /\ Len(buffer) \in 0..arrived /\ arrived \in 0..Len(reply)
  /\ buffer = SubSeq(reply, 1, Len(buffer))

\* The loop goes on only while it has not read a header.
NotYet == pc \in {"write", "read"} => ~HeaderRead(buffer)

\* The types that are not about the answer.
CallTypes ==
  /\ pc \in {"write", "read", "ok", "err", "lost"}
  /\ block \in PoolBlocks /\ reply \in Replies
  /\ sent \in 0..Len(Request(block)) /\ closed \in BOOLEAN

\* The inductive invariant.
IInv == CallTypes /\ ReadInv /\ NotYet /\ VerdictOnWholeHeader /\ BoundedLoss
-----------------------------------------------------------------------------
\* The least-number principle, from the well-foundedness of < on the naturals.
LEMMA LeastElement ==
  ASSUME NEW S \in SUBSET Nat, S # {}
  PROVE  \E x \in S : \A y \in S : x <= y
<1> DEFINE R == OpToRel(<, Nat)
<1>1. IsWellFoundedOn(R, Nat)
  BY NatLessThanWellFounded
<1>2. \A x, y \in Nat : x < y => <<x, y>> \in R
  BY DEF OpToRel
<1> HIDE DEF R
<1>3. PICK x \in S : \A y \in S : ~ (<<y, x>> \in R)
  BY <1>1, WFMin
<1>4. \A y \in S : x <= y
  <2> SUFFICES ASSUME NEW y \in S PROVE x <= y
    OBVIOUS
  <2>1. x \in Nat /\ y \in Nat
    OBVIOUS
  <2>2. ~(y < x)
    BY <1>2, <1>3, <2>1
  <2> QED BY <2>1, <2>2
<1> QED
  BY <1>4

\* Min picks the least element of a set of naturals.
LEMMA MinIsLeast ==
  ASSUME NEW S \in SUBSET Nat, S # {}
  PROVE  Min(S) \in S /\ \A y \in S : Min(S) <= y
<1>1. \E x \in S : \A y \in S : x <= y
  BY LeastElement
<1> QED
  BY <1>1 DEF Min

\* A part of a prefix is the same part of the whole.
LEMMA PartOfPrefix ==
  ASSUME NEW S, NEW r \in Seq(S), NEW n \in 0..Len(r)
  PROVE  /\ SubSeq(r, 1, n) \in Seq(S) /\ Len(SubSeq(r, 1, n)) = n
         /\ \A a, b \in 1..n : SubSeq(SubSeq(r, 1, n), a, b) = SubSeq(r, a, b)
<1>1. Len(r) \in Nat /\ n \in Nat /\ \A i \in 1..n : r[i] \in S
  OBVIOUS
<1>2. SubSeq(r, 1, n) \in Seq(S) /\ Len(SubSeq(r, 1, n)) = n
  BY <1>1, SubSeqProperties
<1>3. ASSUME NEW a \in 1..n, NEW b \in 1..n
      PROVE  SubSeq(SubSeq(r, 1, n), a, b) = SubSeq(r, a, b)
  <2>1. 1 \in 1..Len(r) /\ n \in 1..Len(r) /\ a \in 1..(n - 1 + 1) /\ b \in 1..(n - 1 + 1)
    BY <1>1
  <2>2. SubSeq(SubSeq(r, 1, n), a, b) = SubSeq(r, 1 + a - 1, 1 + b - 1)
    <3>1. \A t \in Seq(S) : \A i, j \in 1..Len(r) : \A x, y \in 1..(j - i + 1) :
            SubSeq(SubSeq(r, i, j), x, y) = SubSeq(r, i + x - 1, i + y - 1)
      BY SubSeqOfSubSeq
    <3>2. \A i, j \in 1..Len(r) : \A x, y \in 1..(j - i + 1) :
            SubSeq(SubSeq(r, i, j), x, y) = SubSeq(r, i + x - 1, i + y - 1)
      BY <3>1, Zenon
    <3> QED BY <2>1, <3>2, Zenon
  <2>3. 1 + a - 1 = a /\ 1 + b - 1 = b
    BY <1>1
  <2> QED BY <2>2, <2>3
<1> QED
  BY <1>2, <1>3

\* The windows of a prefix are those of the whole that lie within it.
LEMMA WindowsOfPrefix ==
  ASSUME NEW S, NEW r \in Seq(S), NEW n \in 0..Len(r)
  PROVE  Windows(SubSeq(r, 1, n)) = {i \in Windows(r) : i + 4 <= n}
<1> DEFINE b == SubSeq(r, 1, n)
<1>1. Len(r) \in Nat /\ n \in Nat /\ n <= Len(r) /\ Len(b) = n
  BY PartOfPrefix
<1>2. \A i \in 0..(n - 4) : SubSeq(b, i + 1, i + 4) = SubSeq(r, i + 1, i + 4)
  <2> SUFFICES ASSUME NEW i \in 0..(n - 4) PROVE SubSeq(b, i + 1, i + 4) = SubSeq(r, i + 1, i + 4)
    OBVIOUS
  <2>1. i + 1 \in 1..n /\ i + 4 \in 1..n
    BY <1>1
  <2>2. \A x, y \in 1..n : SubSeq(b, x, y) = SubSeq(r, x, y)
    BY PartOfPrefix
  <2> QED BY <2>1, <2>2
<1> HIDE DEF b
<1>3. \A i : i \in 0..(n - 4) <=> i \in 0..(Len(r) - 4) /\ i + 4 <= n
  BY <1>1
<1> QED
  BY <1>1, <1>2, <1>3 DEF Windows, b

\* A window ends inside the answer.
LEMMA WindowsType ==
  ASSUME NEW S, NEW r \in Seq(S)
  PROVE  /\ Windows(r) \in SUBSET Nat
         /\ \A i \in Windows(r) : i \in Nat /\ i + 4 <= Len(r)
  BY DEF Windows

\* The status line is the prefix of an answer exactly when it is that of its beginning.
LEMMA StatusOfPrefix ==
  ASSUME NEW S, NEW r \in Seq(S), NEW n \in 2..Len(r)
  PROVE  IsPrefix(Prefix, SubSeq(r, 1, n)) <=> IsPrefix(Prefix, r)
<1>1. Len(Prefix) = 2
  BY DEF Prefix
<1>2. n \in 0..Len(r) /\ Len(r) \in Nat /\ 1 \in 1..n /\ 2 \in 1..n /\ 2 <= Len(r)
  OBVIOUS
<1>3. Len(SubSeq(r, 1, n)) = n /\ SubSeq(SubSeq(r, 1, n), 1, 2) = SubSeq(r, 1, 2)
  BY <1>2, PartOfPrefix
<1> QED
  BY <1>1, <1>2, <1>3 DEF IsPrefix

\* An answer that begins with the status line does not begin with the blank line.
LEMMA StatusIsNoBlankLine ==
  ASSUME NEW S, NEW r \in Seq(S), IsPrefix(Prefix, r)
  PROVE  0 \notin Windows(r)
<1>1. Len(Prefix) = 2 /\ Prefix[1] = "HTTP" /\ HeadEnd[1] = "CR" /\ Len(r) \in Nat
  BY DEF Prefix, HeadEnd
<1>2. 2 <= Len(r) /\ SubSeq(Prefix, 1, 2) = SubSeq(r, 1, 2)
  BY <1>1 DEF IsPrefix
<1>3. Prefix = SubSeq(r, 1, 2)
  BY <1>1, <1>2 DEF Prefix
<1>4. SubSeq(r, 1, 2)[1] = r[1]
  <2>1. \A i \in 1..2 : r[i] \in S
    BY <1>1, <1>2
  <2>2. \A i \in 1..(2 - 1 + 1) : SubSeq(r, 1, 2)[i] = r[1 + i - 1]
    BY <2>1, SubSeqProperties
  <2> QED BY <2>2
<1>5. r[1] = "HTTP"
  BY <1>1, <1>3, <1>4
<1>6. SUFFICES ASSUME 0 \in Windows(r) PROVE FALSE
  OBVIOUS
<1>7. 4 <= Len(r) /\ SubSeq(r, 1, 4) = HeadEnd
  BY <1>1, <1>6 DEF Windows
<1>8. SubSeq(r, 1, 4)[1] = r[1]
  <2>1. \A i \in 1..4 : r[i] \in S
    BY <1>1, <1>7
  <2>2. \A i \in 1..(4 - 1 + 1) : SubSeq(r, 1, 4)[i] = r[1 + i - 1]
    BY <2>1, SubSeqProperties
  <2> QED BY <2>2
<1> QED
  BY <1>1, <1>5, <1>7, <1>8

\* What the caller gets of the bytes after the header is nothing, whichever test
\* ended the loop.
LEMMA NothingReturned ==
  ASSUME NEW S, NEW b \in Seq(S), HeaderRead(b)
  PROVE  Returned(b) = <<>>
<1>1. Windows(b) # {}
  BY DEF HeaderRead, AtTail
<1>2. /\ Windows(b) \in SUBSET Nat
      /\ \A i \in Windows(b) : i \in Nat /\ i + 4 <= Len(b)
  BY WindowsType
<1>3. Min(Windows(b)) \in Windows(b)
  BY <1>1, <1>2, MinIsLeast
<1>4. Min(Windows(b)) + 4 <= Len(b) /\ Len(b) <= Len(b)
  BY <1>2, <1>3
<1>5. BodyStart(b) <= Len(b)
  BY <1>4 DEF BodyStart
<1> QED
  BY <1>5 DEF Returned

\* The loop goes on after m bytes and stops after n: then the header ends within the
\* bytes of the last read.
LEMMA HeaderEndsInLastRead ==
  ASSUME NEW S, NEW r \in Seq(S), NEW n \in 0..Len(r), NEW m \in 0..n,
         ~HeaderRead(SubSeq(r, 1, m)), HeaderRead(SubSeq(r, 1, n)), IsPrefix(Prefix, r)
  PROVE  Min(Windows(r)) \in Nat /\ m < Min(Windows(r)) + 4
<1>1. Len(r) \in Nat /\ n \in Nat /\ m \in Nat /\ m \in 0..Len(r)
  OBVIOUS
<1>2. /\ Windows(SubSeq(r, 1, m)) = {i \in Windows(r) : i + 4 <= m}
      /\ Windows(SubSeq(r, 1, n)) = {i \in Windows(r) : i + 4 <= n}
      /\ Len(SubSeq(r, 1, m)) = m
  BY <1>1, WindowsOfPrefix, PartOfPrefix
<1>3. Windows(SubSeq(r, 1, n)) # {}
  BY DEF HeaderRead, AtTail
<1>4. Windows(r) # {} /\ Windows(r) \in SUBSET Nat
  BY <1>2, <1>3, WindowsType
<1>5. Min(Windows(r)) \in Windows(r) /\ Min(Windows(r)) \in Nat
  BY <1>4, MinIsLeast
<1>6. Min(Windows(r)) # 0
  BY <1>5, StatusIsNoBlankLine
<1>7. m > 4 => Windows(SubSeq(r, 1, m)) = {}
  BY <1>2 DEF HeaderRead
<1>8. m > 4 => ~(Min(Windows(r)) + 4 <= m)
  BY <1>2, <1>5, <1>7
<1> QED
  BY <1>1, <1>5, <1>6, <1>8
-----------------------------------------------------------------------------
\* An answer is a sequence of bytes.
LEMMA RepliesAreSeqs ==
  ASSUME reply \in Replies
  PROVE  reply \in Seq(Bytes) /\ Len(reply) \in Nat
  BY HandshakeAssumption

\* The request that is written has a length.
LEMMA RequestLength ==
  ASSUME NEW b \in PoolBlocks
  PROVE  Len(Request(b)) \in Nat
<1>1. b \in Seq(Bytes)
  BY HandshakeAssumption
<1> DEFINE T == Bytes \cup {"CONNECT", "host", "port"}
<1>2. b \in Seq(T) /\ <<"CONNECT", "host", "port">> \in Seq(T) /\ HeadEnd \in Seq(T)
  BY <1>1 DEF HeadEnd, Bytes
<1> HIDE DEF T
<1>3. Request(b) \in Seq(T)
  BY <1>2 DEF Request
<1> QED
  BY <1>3

\* The invariant holds when handShake is called.
LEMMA InitIInv == Init => IInv
<1> SUFFICES ASSUME Init PROVE IInv
  OBVIOUS
<1>1. CallTypes
  <2>1. Len(Request(block)) \in Nat
    BY RequestLength DEF Init
  <2>2. sent \in 0..Len(Request(block))
    BY <2>1 DEF Init
  <2> QED BY <2>2 DEF Init, CallTypes
<1>2. reply \in Seq(Bytes) /\ Len(reply) \in Nat /\ buffer = <<>> /\ Len(buffer) = 0
  BY RepliesAreSeqs DEF Init
<1>3. SubSeq(reply, 1, 0) = <<>>
  BY SubSeqEmpty
<1>4. ReadInv
  BY <1>2, <1>3 DEF Init, ReadInv
<1>5. NotYet
  BY <1>2 DEF NotYet, HeaderRead, AtTail
<1>6. VerdictOnWholeHeader /\ BoundedLoss
  BY DEF Init, VerdictOnWholeHeader, BoundedLoss
<1> QED
  BY <1>1, <1>4, <1>5, <1>6 DEF IInv

\* The invariant says what TypeOK does of the buffer.
LEMMA IInvTypes == IInv => TypeOK
<1> SUFFICES ASSUME IInv PROVE TypeOK
  OBVIOUS
<1> DEFINE m == Len(buffer)
<1>1. reply \in Seq(Bytes) /\ Len(reply) \in Nat
  BY RepliesAreSeqs DEF IInv, CallTypes
<1>2. /\ m \in 0..arrived /\ arrived \in 0..Len(reply) /\ m \in 0..Len(reply)
      /\ buffer = SubSeq(reply, 1, m)
  BY <1>1 DEF IInv, ReadInv
<1>3. Len(SubSeq(reply, 1, arrived)) = arrived /\ buffer \in Seq(Bytes)
  BY <1>1, <1>2, PartOfPrefix
<1>4. SubSeq(buffer, 1, m) = buffer
  BY <1>3, SubSeqFull
<1>5. SubSeq(SubSeq(reply, 1, arrived), 1, m) = SubSeq(reply, 1, m)
  <2>1. CASE m = 0
    <3>1. \A q : SubSeq(q, 1, 0) = <<>>
      BY SubSeqEmpty
    <3> QED BY <2>1, <3>1
  <2>2. CASE m # 0
    <3>1. 1 \in 1..arrived /\ m \in 1..arrived
      BY <1>1, <1>2, <2>2
    <3>2. \A a, b \in 1..arrived : SubSeq(SubSeq(reply, 1, arrived), a, b) = SubSeq(reply, a, b)
      BY <1>1, <1>2, PartOfPrefix
    <3> QED BY <3>1, <3>2
  <2> QED BY <2>1, <2>2
<1>6. m <= arrived
  BY <1>1, <1>2
<1> HIDE DEF m
<1>7. IsPrefix(buffer, SubSeq(reply, 1, arrived))
  BY <1>2, <1>3, <1>4, <1>5, <1>6 DEF IsPrefix, m
<1> QED
  BY <1>2, <1>7 DEF IInv, CallTypes, TypeOK
-----------------------------------------------------------------------------
\* One turn of the loop.
LEMMA ReadStep ==
  ASSUME IInv, read_from_stream
  PROVE  IInv'
<1> DEFINE m == Len(buffer)
<1>1. reply \in Seq(Bytes) /\ Len(reply) \in Nat
  BY RepliesAreSeqs DEF IInv, CallTypes
<1>2. /\ m \in 0..arrived /\ arrived \in 0..Len(reply) /\ m \in Nat /\ arrived \in Nat
      /\ buffer = SubSeq(reply, 1, m)
  BY <1>1 DEF IInv, ReadInv
<1>3. PICK k \in 0..ReadSize : k <= arrived - m /\ buffer' = SubSeq(reply, 1, m + k)
  BY DEF read_from_stream, Appended
<1> DEFINE n == m + k
<1>4. ReadSize \in Nat /\ k \in Nat /\ n \in 0..Len(reply) /\ n \in 0..arrived /\ m \in 0..n
      /\ m \in 0..Len(reply) /\ n <= m + ReadSize
  BY <1>1, <1>2, <1>3, HandshakeAssumption
<1>5. UNCHANGED <<block, sent, reply, arrived, closed>>
  BY DEF read_from_stream
<1>6. pc = "read" /\ ~HeaderRead(buffer)
  BY DEF read_from_stream, IInv, NotYet
<1> HIDE DEF m, n
<1>7. buffer' = SubSeq(reply, 1, n) /\ buffer' \in Seq(Bytes) /\ Len(buffer') = n
  BY <1>1, <1>3, <1>4, PartOfPrefix DEF n
<1>8. ReadInv'
  BY <1>2, <1>4, <1>5, <1>7 DEF ReadInv
<1>9. \/ pc' = "read" /\ ~HeaderRead(buffer')
      \/ pc' \in {"ok", "err"} /\ HeaderRead(buffer') /\ (pc' = "ok" <=> Accepts(buffer'))
  BY DEF read_from_stream
<1>10. CallTypes'
  BY <1>5, <1>9 DEF IInv, CallTypes
<1>11. NotYet'
  BY <1>9 DEF NotYet
<1>12. CASE pc' = "read"
  BY <1>8, <1>10, <1>11, <1>12 DEF IInv, VerdictOnWholeHeader, BoundedLoss
<1>13. CASE pc' \in {"ok", "err"} /\ HeaderRead(buffer') /\ (pc' = "ok" <=> Accepts(buffer'))
  <2>1. Windows(buffer') # {} /\ Len(buffer') > 4
    BY <1>13 DEF HeaderRead, AtTail
  <2>2. n \in 2..Len(reply)
    BY <1>1, <1>4, <1>7, <2>1
  <2>3. Accepts(buffer') <=> IsPrefix(Prefix, reply)
    BY <1>1, <1>7, <2>2, StatusOfPrefix DEF Accepts
  <2>4. VerdictOnWholeHeader'
    <3>1. (pc' = "ok") = IsPrefix(Prefix, reply)
      BY <1>13, <2>3 DEF IsPrefix
    <3>2. reply' = reply
      BY <1>5
    <3> QED BY <2>1, <3>1, <3>2, Zenon DEF VerdictOnWholeHeader
  <2>5. BoundedLoss'
    <3> SUFFICES ASSUME pc' = "ok"
                 PROVE  Len(buffer') - Len(Returned(buffer')) - (Min(Windows(reply)) + 4) < ReadSize
      BY <1>5 DEF BoundedLoss
    <3>1. IsPrefix(Prefix, reply)
      BY <1>13, <2>3
    <3>2. ~HeaderRead(SubSeq(reply, 1, m)) /\ HeaderRead(SubSeq(reply, 1, n))
      BY <1>2, <1>6, <1>7, <1>13
    <3>3. Min(Windows(reply)) \in Nat /\ m < Min(Windows(reply)) + 4
      BY <1>1, <1>4, <3>1, <3>2, HeaderEndsInLastRead
    <3>4. Returned(buffer') = <<>>
      BY <1>7, <1>13, NothingReturned
    <3>5. Len(Returned(buffer')) = 0
      BY <3>4
    <3> QED BY <1>2, <1>4, <1>7, <3>3, <3>5
  <2> QED BY <1>8, <1>10, <1>11, <2>4, <2>5 DEF IInv
<1> QED
  BY <1>9, <1>12, <1>13

\* The other steps read nothing.
LEMMA OtherStep ==
  ASSUME IInv, write_to_stream \/ disconnected \/ deliver \/ close \/ UNCHANGED vars
  PROVE  IInv'
<1>1. reply \in Seq(Bytes) /\ Len(reply) \in Nat /\ Len(Request(block)) \in Nat
  BY RepliesAreSeqs, RequestLength DEF IInv, CallTypes
<1>2. /\ UNCHANGED <<block, reply, buffer>>
      /\ pc' \in {"read", "lost"} \/ pc' = pc
      /\ pc' = "read" => pc \in {"write", "read"}
      /\ sent' = sent \/ sent' \in 1..Len(Request(block))
      /\ closed' = closed \/ closed' = TRUE
      /\ arrived' = arrived \/ arrived' \in (arrived + 1)..Len(reply)
  BY DEF write_to_stream, disconnected, deliver, close, vars
<1>3. CallTypes'
  <2>1. sent' \in 0..Len(Request(block))
    BY <1>1, <1>2 DEF IInv, CallTypes
  <2>2. closed' \in BOOLEAN /\ pc' \in {"write", "read", "ok", "err", "lost"}
    BY <1>2 DEF IInv, CallTypes
  <2> QED BY <1>2, <2>1, <2>2 DEF IInv, CallTypes
<1>4. ReadInv'
  BY <1>1, <1>2 DEF IInv, ReadInv
<1>5. NotYet'
  BY <1>2 DEF IInv, NotYet
<1>6. VerdictOnWholeHeader' /\ BoundedLoss'
  BY <1>2 DEF IInv, VerdictOnWholeHeader, BoundedLoss
<1> QED
  BY <1>3, <1>4, <1>5, <1>6 DEF IInv

\* The invariant holds always.
LEMMA AlwaysIInv == Spec => []IInv
<1>1. Init => IInv
  BY InitIInv
<1>2. IInv /\ [Next]_vars => IInv'
  BY ReadStep, OtherStep DEF Next
<1> QED
  BY <1>1, <1>2, PTL DEF Spec
-----------------------------------------------------------------------------
\* Whatever the upstream answers and however it is cut, handShake's buffer is the
\* beginning of what has arrived.
THEOREM HandshakeTypes == Spec => []TypeOK
  BY AlwaysIInv, IInvTypes, PTL

\* handShake's verdict is that of the whole header of the answer, for every answer,
\* every cut of it and every size of tmp_buffer.
THEOREM HandshakeVerdict == Spec => []VerdictOnWholeHeader
<1>1. IInv => VerdictOnWholeHeader
  BY DEF IInv
<1> QED
  BY <1>1, AlwaysIInv, PTL

\* Of the tunnel's own bytes handShake discards fewer than one read can bring.
THEOREM HandshakeBoundedLoss == Spec => []BoundedLoss
<1>1. IInv => BoundedLoss
  BY DEF IInv
<1> QED
  BY <1>1, AlwaysIInv, PTL
=============================================================================
