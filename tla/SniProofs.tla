----------------------------- MODULE SniProofs ------------------------------
(***************************************************************************)
(* What extract_sni_from_tls answers, for every ClientHello with a         *)
(* server_name extension, every part of it that has arrived and every size *)
(* of the peek buffer.                                                     *)
(*                                                                         *)
(* The scan sees a prefix of the ClientHello.  No four zero bytes begin in *)
(* the extension itself, only at the byte before it, so a scan that does   *)
(* not stop there stops behind the extension or not at all.                *)
(***************************************************************************)
EXTENDS Sni, SequenceTheorems, WellFoundedInduction, TLAPS

\* The least-number principle, from the well-foundedness of < on the naturals.
LEMMA LeastElement ==
  ASSUME NEW S \in SUBSET Nat, S # {}
  PROVE  \E x \in S : \A y \in S : x <= y
<1> DEFINE R == OpToRel(<, Nat)
<1>1. IsWellFoundedOn(R, Nat)
  BY NatLessThanWellFounded
<1>2. \A x, y \in Nat : x < y => <<x, y>> \in R
  BY DEF OpToRel
<1> HIDE DEF R
<1>3. PICK x \in S : \A y \in S : ~ (<<y, x>> \in R)
  BY <1>1, WFMin
<1>4. \A y \in S : x <= y
  <2> SUFFICES ASSUME NEW y \in S PROVE x <= y
    OBVIOUS
  <2>1. x \in Nat /\ y \in Nat
    OBVIOUS
  <2>2. ~(y < x)
    BY <1>2, <1>3, <2>1
  <2> QED BY <2>1, <2>2
<1> QED
  BY <1>4

\* Min picks the least element of a set of naturals.
LEMMA MinIsLeast ==
  ASSUME NEW S \in SUBSET Nat, S # {}
  PROVE  Min(S) \in S /\ \A y \in S : Min(S) <= y
<1>1. \E x \in S : \A y \in S : x <= y
  BY LeastElement
<1> QED
  BY <1>1 DEF Min

\* A part of a prefix is the same part of the whole.
LEMMA PartOfPrefix ==
  ASSUME NEW S, NEW r \in Seq(S), NEW n \in 0..Len(r)
  PROVE  /\ SubSeq(r, 1, n) \in Seq(S) /\ Len(SubSeq(r, 1, n)) = n
         /\ \A a, b \in 1..n : SubSeq(SubSeq(r, 1, n), a, b) = SubSeq(r, a, b)
<1>1. Len(r) \in Nat /\ n \in Nat /\ \A i \in 1..n : r[i] \in S
  OBVIOUS
<1>2. SubSeq(r, 1, n) \in Seq(S) /\ Len(SubSeq(r, 1, n)) = n
  BY <1>1, SubSeqProperties
<1>3. ASSUME NEW a \in 1..n, NEW b \in 1..n
      PROVE  SubSeq(SubSeq(r, 1, n), a, b) = SubSeq(r, a, b)
  <2>1. 1 \in 1..Len(r) /\ n \in 1..Len(r) /\ a \in 1..(n - 1 + 1) /\ b \in 1..(n - 1 + 1)
    BY <1>1
  <2>2. SubSeq(SubSeq(r, 1, n), a, b) = SubSeq(r, 1 + a - 1, 1 + b - 1)
    <3>1. \A t \in Seq(S) : \A i, j \in 1..Len(r) : \A x, y \in 1..(j - i + 1) :
            SubSeq(SubSeq(r, i, j), x, y) = SubSeq(r, i + x - 1, i + y - 1)
      BY SubSeqOfSubSeq
    <3>2. \A i, j \in 1..Len(r) : \A x, y \in 1..(j - i + 1) :
            SubSeq(SubSeq(r, i, j), x, y) = SubSeq(r, i + x - 1, i + y - 1)
      BY <3>1, Zenon
    <3> QED BY <2>1, <3>2, Zenon
  <2>3. 1 + a - 1 = a /\ 1 + b - 1 = b
    BY <1>1
  <2> QED BY <2>2, <2>3
<1> QED
  BY <1>2, <1>3

\* Of two numbers it is the smaller one.
LEMMA MinOfTwo ==
  ASSUME NEW a \in Nat, NEW b \in Nat
  PROVE  Min({a, b}) = IF a <= b THEN a ELSE b
<1>1. {a, b} \in SUBSET Nat /\ {a, b} # {}
  OBVIOUS
<1>2. Min({a, b}) \in {a, b} /\ \A y \in {a, b} : Min({a, b}) <= y
  BY <1>1, MinIsLeast
<1> QED
  BY <1>2
-----------------------------------------------------------------------------
\* Texts and names are made of bytes, and no byte of a name is zero.
LEMMA ByteFacts ==
  /\ \A x \in Nat : x <= MaxText => x \in Text /\ x \in Byte
  /\ \A x \in Byte : x \in Nat /\ (x <= MaxText => x \in Text)
  /\ NameByte \subseteq Byte /\ \A x \in NameByte : x \in Nat /\ x # 0 /\ x <= MaxText
<1>1. MaxText \in Nat
  BY DEF MaxText
<1> QED
  BY <1>1 DEF Text, NameByte, Byte

\* The lengths in a server_name extension are bytes other than zero.
LEMMA LengthFacts ==
  ASSUME NEW L \in 1..MaxName
  PROVE  L \in Nat /\ L # 0 /\ L \in Byte /\ L + 3 \in Byte /\ L + 5 \in Byte /\ 0 \in Byte
<1>1. MaxName \in Nat /\ MaxName + 5 <= MaxText
  BY DEF MaxName, MaxText
<1>2. L \in Nat /\ L # 0 /\ L + 3 \in Nat /\ L + 5 \in Nat /\ MaxText \in Nat
  BY <1>1 DEF MaxText
<1>3. L <= MaxText /\ L + 3 <= MaxText /\ L + 5 <= MaxText /\ 0 <= MaxText
  BY <1>1, <1>2
<1> QED
  BY <1>2, <1>3, ByteFacts

\* A concatenation, opaque to the provers.
Cat(a, b) == a \o b

\* a and then b.
InTurn(B, a, b) ==
  /\ Len(B) = Len(a) + Len(b)
  /\ \A i \in 1..Len(a) : B[i] = a[i]
  /\ \A j \in 1..Len(b) : B[Len(a) + j] = b[j]

\* A concatenation holds its two parts in turn.
LEMMA CatFacts ==
  ASSUME NEW S, NEW a \in Seq(S), NEW b \in Seq(S)
  PROVE  Cat(a, b) \in Seq(S) /\ InTurn(Cat(a, b), a, b)
<1> DEFINE m == Len(a)
           n == Len(b)
<1>1. /\ a \o b \in Seq(S) /\ Len(a \o b) = m + n
      /\ \A i \in 1..(m + n) : (a \o b)[i] = IF i <= m THEN a[i] ELSE b[i - m]
  BY ConcatProperties
<1>2. m \in Nat /\ n \in Nat
  OBVIOUS
<1> HIDE DEF m, n
<1>3. \A i \in 1..m : (a \o b)[i] = a[i]
  BY <1>1, <1>2
<1>4. \A j \in 1..n : (a \o b)[m + j] = b[j]
  <2> SUFFICES ASSUME NEW j \in 1..n PROVE (a \o b)[m + j] = b[j]
    OBVIOUS
  <2>1. m + j \in 1..(m + n) /\ ~(m + j <= m) /\ (m + j) - m = j
    BY <1>2
  <2> QED BY <1>1, <2>1
<1> QED
  BY <1>1, <1>2, <1>3, <1>4 DEF Cat, InTurn, m, n

\* The bytes of the extension.
LEMMA ServerNameBytes ==
  ASSUME NEW name \in Seq(NameByte), Len(name) \in 1..MaxName
  PROVE  /\ ServerName(name) \in Seq(Byte) /\ Len(ServerName(name)) = 9 + Len(name)
         /\ ServerName(name)[4] = Len(name) + 5 /\ ServerName(name)[6] = Len(name) + 3
         /\ ServerName(name)[9] = Len(name)
         /\ \A k \in 1..Len(name) : ServerName(name)[9 + k] = name[k]
<1> DEFINE L == Len(name)
           head == <<0, 0, 0, L + 5, 0, L + 3, 0, 0, L>>
<1>1. L \in Nat /\ L + 5 \in Byte /\ L + 3 \in Byte /\ L \in Byte /\ 0 \in Byte
  BY LengthFacts
<1>2. head \in Seq(Byte) /\ Len(head) = 9 /\ head[4] = L + 5 /\ head[6] = L + 3 /\ head[9] = L
  BY <1>1
<1>3. name \in Seq(Byte)
  BY ByteFacts
<1>4. ServerName(name) = Cat(head, name)
  BY DEF ServerName, Cat
<1> HIDE DEF head
<1>5. /\ Cat(head, name) \in Seq(Byte) /\ Len(Cat(head, name)) = Len(head) + Len(name)
      /\ \A i \in 1..Len(head) : Cat(head, name)[i] = head[i]
      /\ \A j \in 1..Len(name) : Cat(head, name)[Len(head) + j] = name[j]
  <2>1. Cat(head, name) \in Seq(Byte) /\ InTurn(Cat(head, name), head, name)
    BY <1>2, <1>3, CatFacts
  <2> QED BY <2>1, Zenon DEF InTurn
<1>6. /\ Len(Cat(head, name)) = 9 + Len(name)
      /\ \A i \in 1..9 : Cat(head, name)[i] = head[i]
      /\ \A j \in 1..Len(name) : Cat(head, name)[9 + j] = name[j]
  BY <1>2, <1>5, Zenon
<1>7. 4 \in 1..9 /\ 6 \in 1..9 /\ 9 \in 1..9
  OBVIOUS
<1>8. /\ Cat(head, name)[4] = L + 5 /\ Cat(head, name)[6] = L + 3 /\ Cat(head, name)[9] = L
  BY <1>2, <1>6, <1>7, Zenon
<1> QED
  BY <1>4, <1>5, <1>6, <1>8, Zenon

\* B begins with a and then b.
Within(B, a, b) ==
  /\ Len(a) \in Nat /\ Len(b) \in Nat /\ Len(B) \in Nat /\ Len(a) + Len(b) <= Len(B)
  /\ \A i \in 1..Len(a) : B[i] = a[i]
  /\ \A j \in 1..Len(b) : B[Len(a) + j] = b[j]

\* The middle of three parts begins where the first ends.
LEMMA ThreeParts ==
  ASSUME NEW S, NEW a \in Seq(S), NEW b \in Seq(S), NEW c \in Seq(S)
  PROVE  Cat(Cat(a, b), c) \in Seq(S) /\ Within(Cat(Cat(a, b), c), a, b)
<1> DEFINE d == Cat(a, b)
           B == Cat(d, c)
           m == Len(a)
           n == Len(b)
<1>1. d \in Seq(S) /\ InTurn(d, a, b)
  BY CatFacts
<1> HIDE DEF d
<1>2. B \in Seq(S) /\ InTurn(B, d, c)
  BY <1>1, CatFacts
<1>3. m \in Nat /\ n \in Nat /\ Len(c) \in Nat
  OBVIOUS
<1> HIDE DEF B, m, n
<1>4. /\ Len(d) = m + n
      /\ \A i \in 1..m : d[i] = a[i]
      /\ \A j \in 1..n : d[m + j] = b[j]
  BY <1>1, Zenon DEF InTurn, m, n
<1>5. /\ Len(B) = m + n + Len(c)
      /\ \A i \in 1..(m + n) : B[i] = d[i]
  BY <1>2, <1>4, Zenon DEF InTurn
<1>6. \A i \in 1..m : B[i] = a[i]
  BY <1>3, <1>4, <1>5
<1>7. \A j \in 1..n : B[m + j] = b[j]
  <2> SUFFICES ASSUME NEW j \in 1..n PROVE B[m + j] = b[j]
    OBVIOUS
  <2>1. m + j \in 1..(m + n)
    BY <1>3
  <2> QED BY <1>4, <1>5, <2>1
<1>8. Len(B) \in Nat /\ m + n <= Len(B)
  BY <1>3, <1>5
<1>9. Within(B, a, b)
  BY <1>3, <1>6, <1>7, <1>8, Zenon DEF Within, m, n
<1> QED
  BY <1>2, <1>9 DEF B, d

\* The bytes of a ClientHello that the answer depends on.
LEMMA HelloBytes ==
  ASSUME NEW h \in Hellos
  PROVE  LET B == Bytes(h)
             s == Len(h.before)
             L == Len(h.name)
         IN  /\ B \in Seq(Byte) /\ Len(B) \in Nat /\ s \in Nat /\ L \in 1..MaxName
             /\ s + (9 + L) <= Len(B)
             /\ \A i \in 1..s : B[i] = h.before[i]
             /\ B[s + 4] = L + 5 /\ B[s + 6] = L + 3 /\ B[s + 9] = L
             /\ \A k \in 1..L : B[s + (9 + k)] = h.name[k]
<1> DEFINE a == h.before
           n == h.name
           e == ServerName(n)
           c == h.after
           B == Cat(Cat(a, e), c)
<1>1. a \in Seq(Byte) /\ c \in Seq(Byte) /\ n \in Seq(NameByte) /\ Len(n) \in 1..MaxName
  BY SniAssumption
<1>2. Bytes(h) = B
  BY DEF Bytes, Cat
<1> HIDE DEF a, n, c
<1> DEFINE s == Len(a)
           L == Len(n)
<1>3. /\ e \in Seq(Byte) /\ Len(e) = 9 + L
      /\ e[4] = L + 5 /\ e[6] = L + 3 /\ e[9] = L
      /\ \A k \in 1..L : e[9 + k] = n[k]
  BY <1>1, ServerNameBytes
<1> HIDE DEF e
<1>4. /\ B \in Seq(Byte) /\ s \in Nat /\ Len(B) \in Nat /\ s + Len(e) <= Len(B)
      /\ \A i \in 1..s : B[i] = a[i]
      /\ \A j \in 1..Len(e) : B[s + j] = e[j]
  <2>1. B \in Seq(Byte) /\ Within(B, a, e)
    BY <1>1, <1>3, ThreeParts
  <2> QED BY <2>1, Zenon DEF Within
<1>5. L \in Nat
  BY <1>1
<1> HIDE DEF B, s, L
<1>6. \A j \in 1..(9 + L) : B[s + j] = e[j]
  BY <1>3, <1>4
<1>7. 4 \in 1..(9 + L) /\ 6 \in 1..(9 + L) /\ 9 \in 1..(9 + L)
  BY <1>5
<1>8. B[s + 4] = L + 5 /\ B[s + 6] = L + 3 /\ B[s + 9] = L
  BY <1>3, <1>6, <1>7, Zenon
<1>9. \A k \in 1..L : B[s + (9 + k)] = n[k]
  <2> SUFFICES ASSUME NEW k \in 1..L PROVE B[s + (9 + k)] = n[k]
    OBVIOUS
  <2>1. 9 + k \in 1..(9 + L)
    BY <1>5
  <2> QED BY <1>3, <1>6, <2>1, Zenon
<1>10. s + (9 + L) <= Len(B)
  BY <1>3, <1>4
<1> QED
  BY <1>1, <1>2, <1>4, <1>8, <1>9, <1>10, Zenon DEF s, L, a, n
-----------------------------------------------------------------------------
\* What four zero bytes are.
LEMMA ZeroBytes ==
  ASSUME NEW S, NEW d \in Seq(S), NEW i \in Zeros(d)
  PROVE  i \in Nat /\ i + 4 <= Len(d) /\ \A k \in 1..4 : d[i + k] = 0
<1>1. i \in 0..(Len(d) - 4) /\ SubSeq(d, i + 1, i + 4) = <<0, 0, 0, 0>> /\ Len(d) \in Nat
  BY DEF Zeros, Slice
<1>2. i \in Nat /\ i + 4 <= Len(d)
  BY <1>1
<1>3. \A k \in (i + 1)..(i + 4) : d[k] \in S
  BY <1>1, <1>2
<1> DEFINE q == SubSeq(d, i + 1, i + 4)
<1>4. \A k \in 1..(i + 4 - (i + 1) + 1) : q[k] = d[i + 1 + k - 1]
  BY <1>2, <1>3, SubSeqProperties
<1>8. q = <<0, 0, 0, 0>>
  BY <1>1
<1> HIDE DEF q
<1>5. q[1] = 0 /\ q[2] = 0 /\ q[3] = 0 /\ q[4] = 0
  BY <1>8
<1>6. i + 4 - (i + 1) + 1 = 4 /\ \A k \in 1..4 : i + 1 + k - 1 = i + k
  BY <1>2
<1>7. \A k \in 1..4 : q[k] = d[i + k]
  BY <1>4, <1>6
<1> QED
  BY <1>2, <1>5, <1>7

\* The scan stops in a prefix where it stops in the whole, if four bytes are there.
LEMMA ZerosOfPrefix ==
  ASSUME NEW S, NEW r \in Seq(S), NEW n \in 0..Len(r)
  PROVE  Zeros(SubSeq(r, 1, n)) = {i \in Zeros(r) : i + 4 <= n}
<1> DEFINE b == SubSeq(r, 1, n)
<1>1. Len(r) \in Nat /\ n \in Nat /\ n <= Len(r) /\ Len(b) = n
  BY PartOfPrefix
<1>2. \A i \in 0..(n - 4) : SubSeq(b, i + 1, i + 4) = SubSeq(r, i + 1, i + 4)
  <2> SUFFICES ASSUME NEW i \in 0..(n - 4) PROVE SubSeq(b, i + 1, i + 4) = SubSeq(r, i + 1, i + 4)
    OBVIOUS
  <2>1. i + 1 \in 1..n /\ i + 4 \in 1..n
    BY <1>1
  <2>2. \A x, y \in 1..n : SubSeq(b, x, y) = SubSeq(r, x, y)
    BY PartOfPrefix
  <2> QED BY <2>1, <2>2
<1> HIDE DEF b
<1>3. \A i : i \in 0..(n - 4) <=> i \in 0..(Len(r) - 4) /\ i + 4 <= n
  BY <1>1
<1> QED
  BY <1>1, <1>2, <1>3 DEF Zeros, Slice, b

\* A prefix has the bytes of the whole.
LEMMA BytesOfPrefix ==
  ASSUME NEW S, NEW r \in Seq(S), NEW n \in 0..Len(r)
  PROVE  \A i \in 1..n : SubSeq(r, 1, n)[i] = r[i]
<1>1. Len(r) \in Nat /\ n \in Nat /\ n <= Len(r)
  OBVIOUS
<1>2. \A i \in 1..n : r[i] \in S
  BY <1>1
<1>3. \A i \in 1..(n - 1 + 1) : SubSeq(r, 1, n)[i] = r[1 + i - 1]
  BY <1>1, <1>2, SubSeqProperties
<1>4. n - 1 + 1 = n /\ \A i \in 1..n : 1 + i - 1 = i
  BY <1>1
<1> QED
  BY <1>3, <1>4

\* No four zero bytes begin within the extension.
LEMMA NoZerosInside ==
  ASSUME NEW h \in Hellos, NEW i \in Zeros(Bytes(h)), i >= Len(h.before)
  PROVE  i >= Len(h.before) + (9 + Len(h.name))
<1> DEFINE B == Bytes(h)
           s == Len(h.before)
           L == Len(h.name)
<1>1. /\ B \in Seq(Byte) /\ s \in Nat /\ L \in 1..MaxName
      /\ B[s + 4] = L + 5 /\ B[s + 6] = L + 3 /\ B[s + 9] = L
      /\ \A k \in 1..L : B[s + (9 + k)] = h.name[k]
  BY HelloBytes
<1>2. h.name \in Seq(NameByte) /\ \A x \in NameByte : x # 0
  BY SniAssumption, ByteFacts
<1>3. \A k \in 1..L : h.name[k] # 0
  BY <1>2
<1>4. L \in Nat /\ L # 0
  BY <1>1, LengthFacts
<1>5. i \in Nat /\ \A k \in 1..4 : B[i + k] = 0
  BY <1>1, ZeroBytes
<1>6. i >= s
  OBVIOUS
<1> SUFFICES i >= s + (9 + L)
  OBVIOUS
<1> HIDE DEF B, s, L
<1>7. \A p \in Nat : i + 1 <= p /\ p <= i + 4 => B[p] = 0
  <2> SUFFICES ASSUME NEW p \in Nat, i + 1 <= p, p <= i + 4 PROVE B[p] = 0
    OBVIOUS
  <2>1. p - i \in 1..4 /\ i + (p - i) = p
    BY <1>5
  <2> QED BY <1>5, <2>1
<1>8. SUFFICES ASSUME i < s + (9 + L) PROVE FALSE
  BY <1>1, <1>4, <1>5
<1>9. CASE i <= s + 3
  <2>1. s + 4 \in Nat /\ i + 1 <= s + 4 /\ s + 4 <= i + 4 /\ L + 5 # 0
    BY <1>1, <1>4, <1>5, <1>6, <1>9
  <2> QED BY <1>1, <1>7, <2>1
<1>10. CASE s + 4 <= i /\ i <= s + 8
  <2>1. CASE i = s + 4
    <3>1. s + 6 \in Nat /\ i + 1 <= s + 6 /\ s + 6 <= i + 4 /\ L + 3 # 0
      BY <1>1, <1>4, <1>5, <2>1
    <3> QED BY <1>1, <1>7, <3>1
  <2>2. CASE i # s + 4
    <3>1. s + 9 \in Nat /\ i + 1 <= s + 9 /\ s + 9 <= i + 4
      BY <1>1, <1>5, <1>10, <2>2
    <3> QED BY <1>1, <1>4, <1>7, <3>1
  <2> QED BY <2>1, <2>2
<1>11. CASE s + 9 <= i
  <2> DEFINE k == i - s - 8
  <2>1. k \in 1..L /\ s + (9 + k) = i + 1 /\ i + 1 \in Nat /\ i + 1 <= i + 1 /\ i + 1 <= i + 4
    BY <1>1, <1>4, <1>5, <1>8, <1>11
  <2> HIDE DEF k
  <2>2. B[i + 1] = h.name[k] /\ h.name[k] # 0
    BY <1>1, <1>3, <2>1
  <2> QED BY <1>7, <2>1, <2>2
<1> QED
  BY <1>1, <1>5, <1>9, <1>10, <1>11

\* The places the scan may stop at are indices.
LEMMA ZerosAreNat ==
  ASSUME NEW S, NEW d \in Seq(S)
  PROVE  Zeros(d) \in SUBSET Nat
  BY ZeroBytes

\* A part of the bytes that is the name, byte for byte.
LEMMA SliceIsName ==
  ASSUME NEW name \in Seq(NameByte), NEW d \in Seq(Byte), NEW m \in Nat, m + Len(name) <= Len(d),
         \A k \in 1..Len(name) : d[m + k] = name[k]
  PROVE  SubSeq(d, m + 1, m + Len(name)) = name
<1> DEFINE L == Len(name)
           q == SubSeq(d, m + 1, m + L)
<1>1. L \in Nat /\ Len(d) \in Nat
  OBVIOUS
<1>2. \A i \in (m + 1)..(m + L) : d[i] \in Byte
  BY <1>1
<1>3. /\ q \in Seq(Byte) /\ Len(q) = IF m + 1 <= m + L THEN m + L - (m + 1) + 1 ELSE 0
      /\ \A i \in 1..(m + L - (m + 1) + 1) : q[i] = d[m + 1 + i - 1]
  BY <1>1, <1>2, SubSeqProperties
<1>4. \A k \in 1..L : d[m + k] = name[k]
  OBVIOUS
<1>5. name \in Seq(Byte) /\ L = Len(name)
  BY ByteFacts
<1> HIDE DEF q, L
<1>6. m + L - (m + 1) + 1 = L /\ (~(m + 1 <= m + L) => L = 0) /\ \A i \in 1..L : m + 1 + i - 1 = m + i
  BY <1>1
<1>7. Len(q) = L /\ \A i \in 1..L : q[i] = name[i]
  BY <1>3, <1>4, <1>6
<1>8. q = name
  BY <1>3, <1>5, <1>7, SeqEqual
<1> QED
  BY <1>8 DEF q, L

\* What the scan answers when it sees the first n bytes of a ClientHello in which
\* four zero bytes first begin at the byte before the extension.
LEMMA Extracted ==
  ASSUME NEW h \in Hellos, NEW n \in 0..Len(Bytes(h)), Zeros(Bytes(h)) # {},
         Min(Zeros(Bytes(h))) = Len(h.before) - 1
  PROVE  extract_sni_from_tls(SubSeq(Bytes(h), 1, n)) =
           IF h.before[1] = 22 /\ n >= 43 /\ n >= Len(h.before) + (9 + Len(h.name))
           THEN h.name ELSE UnknownHost
<1> DEFINE B == Bytes(h)
           s == Len(h.before)
           L == Len(h.name)
           z == s - 1
           data == SubSeq(B, 1, n)
<1>1. /\ B \in Seq(Byte) /\ Len(B) \in Nat /\ s \in Nat /\ L \in 1..MaxName /\ s + (9 + L) <= Len(B)
      /\ \A i \in 1..s : B[i] = h.before[i]
      /\ B[s + 9] = L
      /\ \A k \in 1..L : B[s + (9 + k)] = h.name[k]
  BY HelloBytes
<1>2. L \in Nat /\ L # 0 /\ h.name \in Seq(NameByte) /\ n \in Nat /\ n <= Len(B)
  BY <1>1, LengthFacts, SniAssumption
<1>3. z \in Zeros(B) /\ z \in Nat /\ \A i \in Zeros(B) : z <= i /\ i \in Nat
  <2>1. Zeros(B) \in SUBSET Nat
    BY <1>1, ZerosAreNat
  <2>2. Min(Zeros(B)) \in Zeros(B) /\ \A i \in Zeros(B) : Min(Zeros(B)) <= i
    BY <2>1, MinIsLeast
  <2> QED BY <2>1, <2>2
<1>4. \A i \in Zeros(B) : i >= s => i >= s + (9 + L)
  BY NoZerosInside
<1>5. data \in Seq(Byte) /\ Len(data) = n /\ Zeros(data) = {i \in Zeros(B) : i + 4 <= n}
  BY <1>1, PartOfPrefix, ZerosOfPrefix
<1>6. \A i \in 1..n : data[i] = B[i]
  BY <1>1, BytesOfPrefix
<1> HIDE DEF B, s, L, data
<1>7. z + 9 + 1 = s + 9 /\ s = z + 1 /\ s \in Nat \ {0}
  BY <1>1, <1>3
<1>8. IsHandshake(data) <=> n >= 43 /\ h.before[1] = 22
  <2>1. n >= 43 => 1 \in 1..n /\ 1 \in 1..s /\ 0 + 1 = 1
    BY <1>2, <1>7
  <2>2. n >= 43 => data[0 + 1] = h.before[1]
    BY <1>1, <1>6, <2>1
  <2> QED BY <1>5, <2>2 DEF IsHandshake, At
<1>9. z + 10 < n => NameEnd(data, z) = s + (9 + L)
  <2> SUFFICES ASSUME z + 10 < n PROVE NameEnd(data, z) = s + (9 + L)
    OBVIOUS
  <2>1. s + 9 \in 1..n
    BY <1>2, <1>7
  <2>2. data[z + 9 + 1] = L
    BY <1>1, <1>6, <1>7, <2>1
  <2>3. NameEnd(data, z) = z + 10 + L
    BY <2>2 DEF NameEnd, NameStart, NameLen, At
  <2> QED BY <1>2, <1>3, <1>7, <2>3
<1> HIDE DEF z
<1>10. CASE n >= s + (9 + L)
  <2>1. z + 10 < n /\ z + 4 <= n
    BY <1>2, <1>3, <1>7, <1>10
  <2>2. NameEnd(data, z) = s + (9 + L) /\ s + (9 + L) \in Nat
    BY <1>2, <1>7, <1>9, <2>1
  <2>3. Min({NameEnd(data, z), Len(data)}) = s + (9 + L)
    BY <1>2, <1>5, <1>10, <2>2, MinOfTwo
  <2>4. NameAt(data, z) = SubSeq(data, z + 10 + 1, s + (9 + L))
    BY <2>3, Zenon DEF NameAt, Slice, NameStart
  <2>5. z + 10 + 1 = (s + 9) + 1 /\ s + (9 + L) = (s + 9) + L /\ s + 9 \in Nat /\ (s + 9) + L <= Len(data)
    BY <1>2, <1>5, <1>7, <1>10, <1>3
  <2>6. \A k \in 1..L : data[(s + 9) + k] = h.name[k]
    <3> SUFFICES ASSUME NEW k \in 1..L PROVE data[(s + 9) + k] = h.name[k]
      OBVIOUS
    <3>1. (s + 9) + k \in 1..n /\ (s + 9) + k = s + (9 + k)
      BY <1>2, <1>7, <1>10
    <3> QED BY <1>1, <1>6, <3>1
  <2>7. SubSeq(data, (s + 9) + 1, (s + 9) + L) = h.name
    BY <1>2, <1>5, <2>5, <2>6, SliceIsName DEF L
  <2>8. NameAt(data, z) = h.name
    BY <2>4, <2>5, <2>7
  <2>9. IsUtf8(h.name)
    BY <1>2, ByteFacts DEF IsUtf8
  <2>10. z \in Candidates(data)
    <3>1. z \in Zeros(data)
      BY <1>3, <1>5, <2>1
    <3>2. Fits(data, z)
      BY <1>5, <1>10, <2>2 DEF Fits
    <3>3. IsUtf8(NameAt(data, z)) /\ z + 10 < Len(data)
      BY <1>5, <2>1, <2>8, <2>9
    <3> QED BY <3>1, <3>2, <3>3, Zenon DEF Candidates
  <2>11. Candidates(data) \subseteq Zeros(B)
    BY <1>5 DEF Candidates
  <2>12. Candidates(data) \in SUBSET Nat
    BY <1>3, <2>11
  <2>13. Min(Candidates(data)) \in Candidates(data) /\ Min(Candidates(data)) <= z
    BY <2>10, <2>12, MinIsLeast
  <2>14. Min(Candidates(data)) \in Nat /\ z <= Min(Candidates(data))
    BY <1>3, <2>11, <2>13
  <2>15. First(Candidates(data)) = z
    BY <1>3, <2>13, <2>14 DEF First
  <2>16. extract_sni_from_tls(data) = IF IsHandshake(data) THEN h.name ELSE UnknownHost
    BY <2>8, <2>10, <2>15 DEF extract_sni_from_tls
  <2> QED BY <1>8, <1>10, <2>16 DEF data, s, L, B
<1>11. CASE ~(n >= s + (9 + L))
  <2>1. Candidates(data) = {}
    <3> SUFFICES ASSUME NEW i \in Candidates(data) PROVE FALSE
      OBVIOUS
    <3>1. i \in Zeros(B) /\ i + 10 < n /\ NameEnd(data, i) <= n
      BY <1>5 DEF Candidates, Fits
    <3>2. i \in Nat /\ z <= i
      BY <1>3, <3>1
    <3>3. CASE i = z
      BY <1>9, <1>11, <3>1, <3>3
    <3>4. CASE i # z
      <4>1. i >= s
        BY <1>3, <1>7, <3>2, <3>4
      <4>2. i >= s + (9 + L)
        BY <1>4, <3>1, <4>1
      <4> QED BY <1>2, <1>7, <1>11, <3>1, <3>2, <4>2
    <3> QED BY <3>3, <3>4
  <2>2. extract_sni_from_tls(data) = UnknownHost
    BY <2>1 DEF extract_sni_from_tls
  <2> QED BY <1>11, <2>2 DEF data, s, L, B
<1> QED
  BY <1>10, <1>11

\* Whatever bytes it is given, the scan answers with text or with unknown.host.
LEMMA AnswerIsText ==
  ASSUME NEW data \in Seq(Byte)
  PROVE  extract_sni_from_tls(data) \in {UnknownHost} \cup Seq(Text)
<1> SUFFICES ASSUME Candidates(data) # {}
             PROVE  NameAt(data, First(Candidates(data))) \in Seq(Text)
  BY DEF extract_sni_from_tls
<1> DEFINE i == First(Candidates(data))
           n == Len(data)
           q == NameAt(data, i)
<1>1. Candidates(data) \in SUBSET Nat
  BY ZerosAreNat DEF Candidates
<1>2. i \in Candidates(data)
  BY <1>1, MinIsLeast DEF First
<1>3. i \in Nat /\ n \in Nat /\ i + 10 < n /\ IsUtf8(q)
  BY <1>1, <1>2 DEF Candidates
<1> HIDE DEF i
<1>4. data[i + 9 + 1] \in Nat
  <2>1. i + 9 + 1 \in 1..n
    BY <1>3
  <2>2. data[i + 9 + 1] \in Byte
    BY <2>1
  <2> QED BY <2>2, ByteFacts
<1> DEFINE e == NameEnd(data, i)
           t == Min({e, n})
<1>5. e \in Nat
  BY <1>3, <1>4 DEF NameEnd, NameStart, NameLen, At
<1>6. t \in Nat /\ t <= n
  BY <1>3, <1>5, MinOfTwo
<1>7. q = SubSeq(data, i + 10 + 1, t)
  BY Zenon DEF NameAt, Slice, NameStart
<1> HIDE DEF t, e, q
<1>8. \A k \in (i + 10 + 1)..t : data[k] \in Byte
  BY <1>3, <1>6 DEF n
<1>9. q \in Seq(Byte)
  BY <1>3, <1>6, <1>7, <1>8, SubSeqProperties
<1>10. \A k \in 1..Len(q) : q[k] \in Text
  BY <1>3, <1>9, ByteFacts DEF IsUtf8
<1>11. q \in Seq(Text)
  BY <1>9, <1>10
<1> QED
  BY <1>11 DEF q, i
-----------------------------------------------------------------------------
\* What parse_https_target_from_stream has seen.
Seen == Min({arrived, PeekMax})

\* The inductive invariant: an answer is the scan's, of what has been seen.
IInv ==
  /\ TypeOK
  /\ answer # Pending => answer = extract_sni_from_tls(SubSeq(Bytes(hello), 1, Seen))

\* What was seen is a prefix of the ClientHello.
LEMMA SeenWithin ==
  ASSUME TypeOK
  PROVE  /\ Bytes(hello) \in Seq(Byte) /\ hello \in Hellos
         /\ Seen \in 0..Len(Bytes(hello)) /\ SubSeq(Bytes(hello), 1, Seen) \in Seq(Byte)
<1>1. hello \in Hellos /\ arrived \in 0..Len(Bytes(hello)) /\ PeekMax \in Nat
  BY SniAssumption DEF TypeOK
<1>2. Bytes(hello) \in Seq(Byte) /\ Len(Bytes(hello)) \in Nat
  BY <1>1, HelloBytes
<1>3. arrived \in Nat /\ arrived <= Len(Bytes(hello))
  BY <1>1, <1>2
<1>4. Seen = IF arrived <= PeekMax THEN arrived ELSE PeekMax
  BY <1>1, <1>3, MinOfTwo DEF Seen
<1>5. Seen \in 0..Len(Bytes(hello))
  BY <1>1, <1>2, <1>3, <1>4
<1> QED
  BY <1>1, <1>2, <1>5, PartOfPrefix

\* The invariant holds before anything has arrived.
LEMMA InitIInv == Init => IInv
<1> SUFFICES ASSUME Init PROVE IInv
  OBVIOUS
<1>1. hello \in Hellos /\ arrived = 0 /\ answer = Pending
  BY DEF Init
<1>2. Len(Bytes(hello)) \in Nat
  BY <1>1, HelloBytes
<1>3. arrived \in 0..Len(Bytes(hello))
  BY <1>1, <1>2
<1> QED
  BY <1>1, <1>3 DEF IInv, TypeOK

\* The invariant is inductive.
LEMMA StepIInv ==
  ASSUME IInv, [Next]_vars
  PROVE  IInv'
<1>1. TypeOK
  BY DEF IInv
<1>2. CASE parse_https_target_from_stream
  <2>1. UNCHANGED <<hello, arrived>> /\ answer' = extract_sni_from_tls(SubSeq(Bytes(hello), 1, Seen))
    BY <1>2 DEF parse_https_target_from_stream, Seen
  <2>2. Seen' = Seen
    BY <2>1 DEF Seen
  <2>3. SubSeq(Bytes(hello), 1, Seen) \in Seq(Byte)
    BY <1>1, SeenWithin
  <2>4. answer' \in {UnknownHost} \cup Seq(Text)
    BY <2>1, <2>3, AnswerIsText
  <2>5. TypeOK'
    BY <1>1, <2>1, <2>4 DEF TypeOK
  <2> QED BY <2>1, <2>2, <2>5 DEF IInv
<1>3. CASE deliver
  <2>1. UNCHANGED <<hello, answer>> /\ answer = Pending
        /\ arrived' \in (arrived + 1)..Len(Bytes(hello))
    BY <1>3 DEF deliver
  <2>2. Len(Bytes(hello)) \in Nat /\ arrived \in 0..Len(Bytes(hello))
    BY <1>1, HelloBytes DEF TypeOK
  <2>3. arrived' \in 0..Len(Bytes(hello))
    BY <2>1, <2>2
  <2>4. TypeOK'
    BY <1>1, <2>1, <2>3 DEF TypeOK
  <2> QED BY <2>1, <2>4 DEF IInv
<1>4. CASE UNCHANGED vars
  <2>1. UNCHANGED <<hello, arrived, answer>>
    BY <1>4 DEF vars
  <2>2. TypeOK' /\ Seen' = Seen
    BY <1>1, <2>1 DEF TypeOK, Seen
  <2> QED BY <2>1, <2>2 DEF IInv
<1> QED
  BY <1>2, <1>3, <1>4 DEF Next

\* The invariant holds always.
LEMMA AlwaysIInv == Spec => []IInv
<1>1. Init => IInv
  BY InitIInv
<1>2. IInv /\ [Next]_vars => IInv'
  BY StepIInv
<1> QED
  BY <1>1, <1>2, PTL DEF Spec
-----------------------------------------------------------------------------
\* The answer of extract_sni_from_tls is always text or unknown.host.
THEOREM SniTypes == Spec => []TypeOK
<1>1. IInv => TypeOK
  BY DEF IInv
<1> QED
  BY <1>1, AlwaysIInv, PTL

\* For every ClientHello whose first four zero bytes are the one before the server_name
\* extension and its first three, every part of it that had arrived and every buffer
\* size, the scan answers with the whole name or with unknown.host.
THEOREM SniWholeName == Spec => []WholeNameOrUnknown
<1>1. IInv => WholeNameOrUnknown
  <2> SUFFICES ASSUME IInv, answer # Pending, Zeros(Bytes(hello)) # {},
                      Min(Zeros(Bytes(hello))) = Len(hello.before) - 1
               PROVE  answer = IF /\ hello.before[1] = 22 /\ Seen >= 43
                                  /\ Seen >= Len(hello.before) + Len(ServerName(hello.name))
                               THEN hello.name ELSE UnknownHost
    BY Zenon DEF WholeNameOrUnknown, Seen
  <2>1. hello \in Hellos /\ Seen \in 0..Len(Bytes(hello))
    BY SeenWithin DEF IInv
  <2>2. Len(ServerName(hello.name)) = 9 + Len(hello.name)
    BY <2>1, SniAssumption, ServerNameBytes
  <2>3. answer = extract_sni_from_tls(SubSeq(Bytes(hello), 1, Seen))
    BY DEF IInv
  <2> QED BY <2>1, <2>2, <2>3, Extracted
<1> QED
  BY <1>1, AlwaysIInv, PTL
=============================================================================
