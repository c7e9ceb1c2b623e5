--------------------------- MODULE SessionProofs ----------------------------
(***************************************************************************)
(* AuthGate for every set of clients and configurations: a client that     *)
(* does not send the configured credentials never has a target named for   *)
(* it by a proxy that requires them.                                       *)
(*                                                                         *)
(* AuthGate is not inductive: it says nothing of the states between the    *)
(* authentication and the parsing of the target.  GateInv adds that all    *)
(* that is still to be read came out of the client's script, so that the   *)
(* credentials an authenticator accepts are in the script, and that the    *)
(* task is past the authentication only with them.                         *)
(*                                                                         *)
(* TunnelTransparent and TypeOK follow from a second invariant, TunnelInv, *)
(* which is inductive beside GateInv.                                      *)
(*                                                                         *)
(* HandshakeConsumed, OpenProxyServes, TunnelInOrder and RightTarget       *)
(* follow from a third one, HandshakeInv: it says for each kind of client  *)
(* which messages it has sent at each await of the task and which it still *)
(* waits to send (Speaks, Sent), what the task has answered (Greeted) and  *)
(* what the target has got of the stream (Tunnel, Closed).                 *)
(***************************************************************************)
EXTENDS Session, SequenceTheorems, WellFoundedInduction, TLAPS

\* The awaits that a task which requires credentials reaches by authenticating.
PastAuth == {"redetect", "parse", "parse5", "connect", "respond", "relay"}

SeqInv ==
  /\ script \in Clients /\ todo \subseteq script.rounds
  /\ outbox \in Seq(Nat) /\ inbox \in Seq(Nat)

FromScript == Units(outbox) \subseteq ScriptUnits /\ Units(inbox) \subseteq ScriptUnits

GateInv ==
  /\ SeqInv
  /\ FromScript
  /\ pc \in Pcs
  /\ pc = "tls" => protocol = "HTTPS"
  /\ state.require_creds /\ pc = "auth" /\ protocol = "SOCKS4" => 4 \in ScriptUnits
  /\ state.require_creds /\ pc \in PastAuth => PresentsCredentials
  /\ AuthGate
-----------------------------------------------------------------------------
\* A part of a stream is a stream, and holds no other units.
LEMMA SubSeqUnits ==
  ASSUME NEW s \in Seq(Nat), NEW m \in Nat, m > 0, NEW n \in Int, n <= Len(s)
  PROVE  SubSeq(s, m, n) \in Seq(Nat) /\ Units(SubSeq(s, m, n)) \subseteq Units(s)
<1> DEFINE t == SubSeq(s, m, n)
<1>1. CASE m > n
  <2>1. t = <<>>
    BY <1>1, EmptySeq, SubSeqProperties
  <2>. QED  BY <2>1 DEF Units
<1>2. CASE m <= n
  <2>1. t \in Seq(Nat) /\ Len(t) = n - m + 1 /\ \A i \in 1..(n - m + 1) : t[i] = s[m + i - 1]
    BY <1>2, SubSeqProperties, LenProperties
  <2>. HIDE DEF t
  <2>2. \A i \in 1..Len(t) : m + i - 1 \in 1..Len(s)
    BY <1>2, <2>1
  <2>. QED  BY <2>1, <2>2 DEF Units, t
<1>. QED  BY <1>1, <1>2

\* What remains of a stream after its first n units.
LEMMA DropUnits ==
  ASSUME NEW s \in Seq(Nat), NEW n \in Nat
  PROVE  Drop(s, n) \in Seq(Nat) /\ Units(Drop(s, n)) \subseteq Units(s)
BY SubSeqUnits, LenProperties DEF Drop

\* Two streams one after the other hold the units of both.
LEMMA ConcatUnits ==
  ASSUME NEW s \in Seq(Nat), NEW t \in Seq(Nat)
  PROVE  s \o t \in Seq(Nat) /\ Units(s \o t) \subseteq Units(s) \cup Units(t)
<1>1. s \o t \in Seq(Nat) /\ Len(s \o t) = Len(s) + Len(t)
      /\ \A i \in 1..(Len(s) + Len(t)) :
            (s \o t)[i] = IF i <= Len(s) THEN s[i] ELSE t[i - Len(s)]
  BY ConcatProperties
<1>2. \A i \in 1..(Len(s) + Len(t)) : i > Len(s) => i - Len(s) \in 1..Len(t)
  BY LenProperties
<1>3. \A i \in 1..(Len(s) + Len(t)) : i <= Len(s) => i \in 1..Len(s)
  BY LenProperties
<1>. QED  BY <1>1, <1>2, <1>3 DEF Units

\* Nothing at all holds no units.
LEMMA EmptyUnits == <<>> \in Seq(Nat) /\ Units(<<>>) = {}
BY DEF Units

-----------------------------------------------------------------------------
\* A read into the four-byte buffer leaves a part of the stream.
LEMMA AfterReadUnits ==
  ASSUME NEW s \in Seq(Nat)
  PROVE  AfterRead(s) \in Seq(Nat) /\ Units(AfterRead(s)) \subseteq Units(s)
<1> DEFINE bytes == {k \in 0..4 : k <= Len(s) /\ \A i \in 1..k : ~IsText(s[i])}
           last  == CHOOSE k \in bytes : \A j \in bytes : j <= k
<1>1. 0 \in bytes
  BY LenProperties
<1>2. bytes \subseteq {0, 1, 2, 3, 4}
  OBVIOUS
<1>. HIDE DEF bytes
<1>3. \E k \in bytes : \A j \in bytes : j <= k
  <2>1. CASE 4 \in bytes  BY <1>2, <2>1
  <2>2. CASE 4 \notin bytes /\ 3 \in bytes  BY <1>2, <2>2
  <2>3. CASE {3, 4} \cap bytes = {} /\ 2 \in bytes  BY <1>2, <2>3
  <2>4. CASE {2, 3, 4} \cap bytes = {} /\ 1 \in bytes  BY <1>2, <2>4
  <2>5. CASE {1, 2, 3, 4} \cap bytes = {}  BY <1>1, <1>2, <2>5
  <2>. QED  BY <2>1, <2>2, <2>3, <2>4, <2>5
<1>4. last \in Nat
  <2>1. last \in bytes
    BY <1>3
  <2>. HIDE DEF last
  <2>. QED  BY <2>1, <1>2
<1>5. AfterRead(s) = Drop(s, last)
  BY DEF AfterRead, bytes
<1>. HIDE DEF last
<1>. QED  BY <1>4, <1>5, DropUnits

\* A complete SOCKS4 request ends at a zero inside the stream, after its eight fixed
\* bytes.
LEMMA Socks4EndInside ==
  ASSUME NEW s \in Seq(Nat), Socks4End(s) # 0
  PROVE  Socks4End(s) \in 9..Len(s) /\ s[Socks4End(s)] = 0
<1> DEFINE ends == {n \in 9..Len(s) : s[n] = 0}
<1>1. ends # {} /\ ends \subseteq Nat
  BY LenProperties DEF Socks4End
<1>2. PICK n \in ends : \A m \in ends : ~(<<m, n>> \in OpToRel(<, Nat))
  <2>. HIDE DEF ends
  <2>. QED  BY <1>1, WFMin, NatLessThanWellFounded
<1>3. \A m \in ends : n <= m
  <2>. TAKE m \in ends
  <2>1. m \in Nat /\ n \in Nat
    BY <1>1
  <2>2. ~(m < n)
    BY <1>2, <2>1 DEF OpToRel
  <2>. QED  BY <2>1, <2>2
<1>4. Socks4End(s) = CHOOSE k \in ends : \A m \in ends : k <= m
  BY <1>1 DEF Socks4End
<1>5. Socks4End(s) \in ends
  <2>. HIDE DEF ends
  <2>. QED  BY <1>2, <1>3, <1>4
<1>. QED  BY <1>5

\* A text of one unit that is found in a stream is one of its units.
LEMMA SubSeqSingle ==
  ASSUME NEW s \in Seq(Nat), NEW m \in Nat, m > 0, NEW n \in Int, n <= Len(s),
         NEW u, SubSeq(s, m, n) = <<u>>
  PROVE  u \in Units(s)
<1>1. Units(<<u>>) = {u}
  BY DEF Units
<1>. QED  BY <1>1, SubSeqUnits

\* The three authenticators accept only credentials that are on the stream.
LEMMA HttpCredentialsUnits ==
  ASSUME NEW s \in Seq(Nat), HttpCredentialsOk(s)
  PROVE  AuthGood \in Units(s)
BY DEF HttpCredentialsOk, Units

\* SOCKS4 accepts the user name as user id.
LEMMA Socks4Units ==
  ASSUME NEW s \in Seq(Nat), Socks4End(s) # 0,
         validate_socks4_user_id(SubSeq(s, 9, Socks4End(s) - 1))
  PROVE  GoodUser \in Units(s)
<1> DEFINE n == Socks4End(s) - 1
<1>1. n \in Int /\ n <= Len(s)
  BY Socks4EndInside, LenProperties
<1>2. SubSeq(s, 9, n) = <<GoodUser>>
  BY DEF validate_socks4_user_id
<1>. HIDE DEF n
<1>. QED  BY <1>1, <1>2, SubSeqSingle

\* SOCKS5 accepts the user name with the password.
LEMMA Socks5Units ==
  ASSUME NEW s \in Seq(Nat), Socks5UserPassEnd(s) # 0,
         validate_credentials(SubSeq(s, 3, 2 + s[2]), SubSeq(s, 4 + s[2], Socks5UserPassEnd(s)))
  PROVE  {GoodUser, GoodPass} \subseteq Units(s)
<1>1. Len(s) >= 2 /\ Len(s) >= 3 + s[2]
  <2>1. Socks5UserPassEnd(s) # 0
    OBVIOUS
  <2>2. ~(Len(s) < 2 \/ Len(s) < 3 + s[2])
    BY <2>1 DEF Socks5UserPassEnd
  <2>3. Len(s) >= 2
    BY <2>2, LenProperties
  <2>4. s[2] \in Nat
    <3>1. 2 \in 1..Len(s)
      BY <2>3, LenProperties
    <3>. QED  BY <3>1, ElementOfSeq
  <2>. QED  BY <2>2, <2>3, <2>4, LenProperties
<1>2. s[2] \in Nat
  <2>1. 2 \in 1..Len(s)
    BY <1>1, LenProperties
  <2>. QED  BY <2>1, ElementOfSeq
<1>3. s[3 + s[2]] \in Nat
  <2>1. 3 + s[2] \in 1..Len(s)
    <3>1. PICK n \in Nat : n = Len(s)
      BY LenProperties
    <3>. QED  BY <1>1, <1>2, <3>1
  <2>. QED  BY <2>1, ElementOfSeq
<1> DEFINE u == s[2]
           p == s[3 + u]
           e == Socks5UserPassEnd(s)
<1>4. e = 3 + u + p /\ Len(s) >= 3 + u + p
  <2>1. e = Complete(s, 3 + u + p)
    BY <1>1 DEF Socks5UserPassEnd
  <2>2. e # 0
    OBVIOUS
  <2>. HIDE DEF e, p, u
  <2>. QED  BY <2>1, <2>2 DEF Complete
<1>5. SubSeq(s, 3, 2 + u) = <<GoodUser>> /\ SubSeq(s, 4 + u, e) = <<GoodPass>>
  BY DEF validate_credentials
<1>6. u \in Nat /\ p \in Nat /\ Len(s) \in Nat
  BY <1>2, <1>3, LenProperties
<1>. HIDE DEF e, p, u
<1>7. GoodUser \in Units(s)
  <2> DEFINE n == 2 + u
  <2>1. n \in Int /\ n <= Len(s)
    BY <1>4, <1>6
  <2>2. SubSeq(s, 3, n) = <<GoodUser>>
    BY <1>5
  <2>. HIDE DEF n
  <2>. QED  BY <2>1, <2>2, SubSeqSingle
<1>8. GoodPass \in Units(s)
  <2>1. e \in Int /\ e <= Len(s) /\ 4 + u \in Nat /\ 4 + u > 0
    BY <1>4, <1>6
  <2>. QED  BY <1>5, <2>1, SubSeqSingle
<1>. QED  BY <1>7, <1>8

\* A stream taken for SOCKS4 begins with byte 4.
LEMMA DetectSocks4 ==
  ASSUME NEW s \in Seq(Nat), detect_protocol(PeekBuf(s)) = "SOCKS4"
  PROVE  4 \in Units(s)
<1>1. PeekBuf(s)[1] = 4
  BY DEF detect_protocol
<1>2. PeekBuf(s)[1] = IF 1 <= Len(s) THEN s[1] ELSE 0
  BY DEF PeekBuf
<1>. QED  BY <1>1, <1>2, LenProperties DEF Units
-----------------------------------------------------------------------------
\* The credentials on the stream are the client's.
LEMMA AcceptedCredentials ==
  ASSUME GateInv,
         \/ HttpCredentialsOk(inbox)
         \/ /\ Socks4End(inbox) # 0 /\ 4 \in ScriptUnits
            /\ validate_socks4_user_id(SubSeq(inbox, 9, Socks4End(inbox) - 1))
         \/ /\ Socks5UserPassEnd(inbox) # 0
            /\ validate_credentials(SubSeq(inbox, 3, 2 + inbox[2]),
                                    SubSeq(inbox, 4 + inbox[2], Socks5UserPassEnd(inbox)))
  PROVE  PresentsCredentials
<1>1. inbox \in Seq(Nat) /\ Units(inbox) \subseteq ScriptUnits
  BY DEF GateInv, SeqInv, FromScript
<1>2. CASE HttpCredentialsOk(inbox)
  BY <1>1, <1>2, HttpCredentialsUnits DEF PresentsCredentials
<1>3. CASE /\ Socks4End(inbox) # 0 /\ 4 \in ScriptUnits
           /\ validate_socks4_user_id(SubSeq(inbox, 9, Socks4End(inbox) - 1))
  BY <1>1, <1>3, Socks4Units DEF PresentsCredentials
<1>4. CASE /\ Socks5UserPassEnd(inbox) # 0
           /\ validate_credentials(SubSeq(inbox, 3, 2 + inbox[2]),
                                   SubSeq(inbox, 4 + inbox[2], Socks5UserPassEnd(inbox)))
  BY <1>1, <1>4, Socks5Units DEF PresentsCredentials
<1>. QED  BY <1>2, <1>3, <1>4

\* What a step of the task has to show: it only reads from the stream, and it gets
\* past the authentication, or names a target, with the credentials.
TaskStep ==
  /\ UNCHANGED <<state, client>>
  /\ inbox' \in Seq(Nat) /\ Units(inbox') \subseteq Units(inbox)
  /\ pc' \in Pcs
  /\ pc' = "tls" => protocol' = "HTTPS"
  /\ pc' = "auth" /\ protocol' = "SOCKS4" => 4 \in Units(inbox)
  /\ state.require_creds /\ pc' \in PastAuth => PresentsCredentials
  /\ target' = target \/ pc \in PastAuth

\* Such a step keeps the invariant.
LEMMA TaskStepGate == GateInv /\ TaskStep => GateInv'
<1> SUFFICES ASSUME GateInv, TaskStep PROVE GateInv'
  OBVIOUS
<1>1. state' = state /\ script' = script /\ todo' = todo /\ outbox' = outbox
  BY DEF TaskStep, client
<1>2. ScriptUnits' = ScriptUnits /\ PresentsCredentials' = PresentsCredentials
  BY <1>1 DEF ScriptUnits, PresentsCredentials
<1>3. SeqInv' /\ FromScript'
  BY <1>1, <1>2 DEF GateInv, TaskStep, SeqInv, FromScript, Units
<1>4. AuthGate'
  BY <1>1, <1>2 DEF GateInv, TaskStep, AuthGate
<1>. QED  BY <1>1, <1>2, <1>3, <1>4 DEF GateInv, TaskStep, FromScript

\* Reading a part of the stream, or dropping the rest of it, is a task step's read.
ReadsOnly(i) == i \in Seq(Nat) /\ Units(i) \subseteq Units(inbox)

\* The streams that the actions leave behind.
LEMMA ReadForms ==
  ASSUME GateInv
  PROVE  /\ ReadsOnly(inbox) /\ ReadsOnly(<<>>) /\ ReadsOnly(AfterRead(inbox))
         /\ \A n \in Nat : ReadsOnly(Drop(inbox, n))
BY EmptyUnits, AfterReadUnits, DropUnits DEF ReadsOnly, GateInv, SeqInv

\* Where the messages end is a position in the stream.
LEMMA EndsAreNat ==
  ASSUME NEW s \in Seq(Nat)
  PROVE  /\ Socks4End(s) \in Nat
         /\ Socks5GreetingEnd(s) \in Nat
         /\ Socks5UserPassEnd(s) \in Nat
         /\ Len(s) >= 4 /\ s[4] \in {1, 3, 4} => Socks5RequestEnd(s) \in Nat
<1>1. Len(s) \in Nat /\ \A i \in 1..Len(s) : s[i] \in Nat
  BY LenProperties, ElementOfSeq
<1>2. \A n \in Nat : Complete(s, n) \in Nat
  BY DEF Complete
<1>3. Socks4End(s) \in Nat
  BY <1>1, Socks4EndInside
<1>4. Socks5GreetingEnd(s) \in Nat
  <2>1. CASE Len(s) < 2
    BY <2>1 DEF Socks5GreetingEnd
  <2>2. CASE ~(Len(s) < 2)
    <3>1. 2 + s[2] \in Nat
      BY <1>1, <2>2
    <3>. QED  BY <1>2, <2>2, <3>1 DEF Socks5GreetingEnd
  <2>. QED  BY <2>1, <2>2
<1>5. Socks5UserPassEnd(s) \in Nat
  <2>1. CASE Len(s) < 2 \/ Len(s) < 3 + s[2]
    BY <2>1 DEF Socks5UserPassEnd
  <2>2. CASE ~(Len(s) < 2 \/ Len(s) < 3 + s[2])
    <3>1. s[2] \in Nat
      BY <1>1, <2>2
    <3>2. 3 + s[2] \in 1..Len(s)
      BY <1>1, <2>2, <3>1
    <3>3. 3 + s[2] + s[3 + s[2]] \in Nat
      BY <1>1, <3>1, <3>2
    <3>. QED  BY <1>2, <2>2, <3>3 DEF Socks5UserPassEnd
  <2>. QED  BY <2>1, <2>2
<1>6. Len(s) >= 4 /\ s[4] \in {1, 3, 4} => Socks5RequestEnd(s) \in Nat
  <2> SUFFICES ASSUME Len(s) >= 4, s[4] \in {1, 3, 4} PROVE Socks5RequestEnd(s) \in Nat
    OBVIOUS
  <2>1. CASE s[4] = 1
    BY <1>2, <2>1 DEF Socks5RequestEnd
  <2>2. CASE s[4] = 4
    BY <1>2, <2>2 DEF Socks5RequestEnd
  <2>3. CASE s[4] = 3
    <3>1. Socks5RequestEnd(s) = IF Len(s) < 5 THEN 0 ELSE Complete(s, 7 + s[5])
      BY <2>3 DEF Socks5RequestEnd
    <3>2. ~(Len(s) < 5) => 7 + s[5] \in Nat
      BY <1>1
    <3>3. CASE Len(s) < 5  BY <3>1, <3>3
    <3>4. CASE ~(Len(s) < 5)
      <4>1. Socks5RequestEnd(s) = Complete(s, 7 + s[5])
        BY <3>1, <3>4
      <4>2. 7 + s[5] \in Nat
        BY <3>2, <3>4
      <4>. QED  BY <1>2, <4>1, <4>2
    <3>. QED  BY <3>3, <3>4
  <2>. QED  BY <2>1, <2>2, <2>3
<1>. QED  BY <1>3, <1>4, <1>5, <1>6

\* A return of handle_client is a task step, whatever it writes.
LEMMA ReturnStep ==
  ASSUME GateInv, UNCHANGED <<state, client>>, pc' = "done", inbox' = <<>>, target' = target
  PROVE  TaskStep
BY ReadForms DEF TaskStep, ReadsOnly, PastAuth, Pcs

\* A step from a state past the authentication to another is a task step if it only
\* reads.
LEMMA PastAuthStep ==
  ASSUME GateInv, UNCHANGED <<state, client>>, pc \in PastAuth, pc' \in PastAuth,
         ReadsOnly(inbox')
  PROVE  TaskStep
BY DEF TaskStep, ReadsOnly, PastAuth, Pcs, GateInv
-----------------------------------------------------------------------------
\* The steps up to the end of the authentication.
LEMMA AuthSteps ==
  ASSUME GateInv, UNCHANGED <<state, client>>,
         \/ detect_client_protocol \/ accept_tls \/ authenticate_http_or_https
         \/ authenticate_socks4 \/ authenticate_socks5 \/ authenticate_socks5_userpass
  PROVE  TaskStep
<1>0. inbox \in Seq(Nat) /\ (pc = "tls" => protocol = "HTTPS")
      /\ (state.require_creds /\ pc = "auth" /\ protocol = "SOCKS4" => 4 \in ScriptUnits)
  BY DEF GateInv, SeqInv
<1>1. CASE detect_client_protocol
  <2>1. inbox' = inbox /\ target' = target /\ protocol' = detect_protocol(PeekBuf(inbox))
    BY <1>1 DEF detect_client_protocol
  <2>2. /\ pc' \in {"redetect", "done", "auth", "tls"}
        /\ pc' = "redetect" => ~state.require_creds
        /\ pc' = "tls" => protocol' = "HTTPS"
    BY <1>1 DEF detect_client_protocol, AfterStream
  <2>3. protocol' = "SOCKS4" => 4 \in Units(inbox)
    BY <1>0, <2>1, DetectSocks4
  <2>. QED  BY <1>0, <2>1, <2>2, <2>3 DEF TaskStep, PastAuth, Pcs
<1>2. CASE accept_tls
  <2>1. CASE Return
    BY <1>2, <2>1, ReturnStep DEF accept_tls, Return
  <2>2. CASE /\ inbox' = Drop(inbox, Len(ClientHello)) /\ pc' = AfterStream(protocol)
    <3>1. pc = "tls" /\ target' = target /\ protocol' = protocol
      BY <1>2 DEF accept_tls
    <3>2. pc' \in {"redetect", "done", "auth"} /\ (pc' = "redetect" => ~state.require_creds)
      BY <2>2 DEF AfterStream
    <3>3. ReadsOnly(inbox')
      <4>1. Len(ClientHello) \in Nat
        BY DEF ClientHello
      <4>. QED  BY <2>2, <4>1, ReadForms
    <3>. QED  BY <1>0, <3>1, <3>2, <3>3 DEF TaskStep, ReadsOnly, PastAuth, Pcs
  <2>. QED  BY <1>2, <2>1, <2>2 DEF accept_tls
<1>3. CASE authenticate_http_or_https
  <2>1. target' = target /\ protocol' = protocol
    BY <1>3 DEF authenticate_http_or_https
  <2>2. CASE pc' = "done" /\ inbox' = <<>>
    BY <2>1, <2>2, ReturnStep
  <2>3. CASE HttpCredentialsOk(inbox) /\ pc' = "redetect" /\ inbox' \in {<<>>, inbox}
    <3>1. PresentsCredentials
      BY <2>3, AcceptedCredentials
    <3>2. ReadsOnly(inbox')
      BY <2>3, ReadForms
    <3>. QED  BY <2>1, <2>3, <3>1, <3>2 DEF TaskStep, ReadsOnly, Pcs
  <2>. QED  BY <1>3, <2>2, <2>3 DEF authenticate_http_or_https, Return, ReturnAfter
<1>4. CASE authenticate_socks4
  <2>1. target' = target /\ protocol' = protocol /\ pc = "auth" /\ protocol = "SOCKS4"
    BY <1>4 DEF authenticate_socks4
  <2>2. CASE pc' = "done" /\ inbox' = <<>>
    BY <2>1, <2>2, ReturnStep
  <2>3. CASE /\ Socks4End(inbox) # 0
             /\ validate_socks4_user_id(SubSeq(inbox, 9, Socks4End(inbox) - 1))
             /\ pc' = "redetect" /\ inbox' = Drop(inbox, Socks4End(inbox))
    <3>1. state.require_creds => PresentsCredentials
      BY <1>0, <2>1, <2>3, AcceptedCredentials
    <3>2. ReadsOnly(inbox')
      BY <1>0, <2>3, ReadForms, EndsAreNat
    <3>. QED  BY <2>1, <2>3, <3>1, <3>2 DEF TaskStep, ReadsOnly, Pcs
  <2>. QED  BY <1>4, <2>2, <2>3 DEF authenticate_socks4, Return, ReturnAfter
<1>5. CASE authenticate_socks5
  <2>1. target' = target
    BY <1>5 DEF authenticate_socks5
  <2>2. CASE pc' = "done" /\ inbox' = <<>>
    BY <2>1, <2>2, ReturnStep
  <2>3. CASE pc' = "auth5" /\ inbox' = Drop(inbox, Socks5GreetingEnd(inbox))
    <3>1. ReadsOnly(inbox')
      BY <1>0, <2>3, ReadForms, EndsAreNat
    <3>. QED  BY <2>1, <2>3, <3>1 DEF TaskStep, ReadsOnly, Pcs, PastAuth
  <2>. QED  BY <1>5, <2>2, <2>3 DEF authenticate_socks5, Return, ReturnAfter
<1>6. CASE authenticate_socks5_userpass
  <2>1. target' = target
    BY <1>6 DEF authenticate_socks5_userpass
  <2>2. CASE pc' = "done" /\ inbox' = <<>>
    BY <2>1, <2>2, ReturnStep
  <2>3. CASE /\ Socks5UserPassEnd(inbox) # 0
             /\ validate_credentials(SubSeq(inbox, 3, 2 + inbox[2]),
                                     SubSeq(inbox, 4 + inbox[2], Socks5UserPassEnd(inbox)))
             /\ pc' = "redetect" /\ inbox' = Drop(inbox, Socks5UserPassEnd(inbox))
    <3>1. PresentsCredentials
      BY <2>3, AcceptedCredentials
    <3>2. ReadsOnly(inbox')
      BY <1>0, <2>3, ReadForms, EndsAreNat
    <3>. QED  BY <2>1, <2>3, <3>1, <3>2 DEF TaskStep, ReadsOnly, Pcs
  <2>. QED  BY <1>6, <2>2, <2>3 DEF authenticate_socks5_userpass, Return, ReturnAfter
<1>. QED  BY <1>1, <1>2, <1>3, <1>4, <1>5, <1>6

\* The second detection and the parsers.
LEMMA ParseSteps ==
  ASSUME GateInv, UNCHANGED <<state, client>>, redetect_protocol \/ parse_target_by_protocol
  PROVE  TaskStep
<1>0. inbox \in Seq(Nat)
  BY DEF GateInv, SeqInv
<1>. DEFINE Rejected == pc' = "done" /\ inbox' = <<>> /\ target' = target
            Parsed   == pc \in PastAuth /\ pc' \in PastAuth /\ ReadsOnly(inbox')
<1>1. CASE redetect_protocol
  <2>1. Parsed
    BY <1>1, ReadForms DEF redetect_protocol, PastAuth
  <2>. QED  BY <2>1, PastAuthStep
<1>2. Reject => Rejected
  BY DEF Reject, send_error_response, ReturnAfter
<1>3. ASSUME NEW t, Dial(t) PROVE pc' \in PastAuth
  BY <1>3 DEF Dial, PastAuth
<1>4. parse_http_target_from_stream => Rejected \/ Parsed
  BY <1>2, <1>3, ReadForms DEF parse_http_target_from_stream, PastAuth
<1>5. parse_https_target_from_stream => Parsed
  BY <1>3, ReadForms DEF parse_https_target_from_stream, PastAuth
<1>6. parse_socks4_target => Rejected \/ Parsed
  <2>1. ReadsOnly(Drop(inbox, Socks4End(inbox)))
    BY <1>0, ReadForms, EndsAreNat
  <2>. QED  BY <1>2, <1>3, <2>1 DEF parse_socks4_target, PastAuth
<1>7. parse_socks5_greeting => Rejected \/ Parsed
  <2>1. ReadsOnly(Drop(inbox, Socks5GreetingEnd(inbox)))
    BY <1>0, ReadForms, EndsAreNat
  <2>. QED  BY <1>2, <2>1 DEF parse_socks5_greeting, PastAuth
<1>8. parse_socks5_target => Rejected \/ Parsed
  <2>1. Len(inbox) >= 4 /\ ~Socks5RequestBad => ReadsOnly(Drop(inbox, Socks5RequestEnd(inbox)))
    BY <1>0, ReadForms, EndsAreNat DEF Socks5RequestBad
  <2>. QED  BY <1>2, <1>3, <2>1 DEF parse_socks5_target, PastAuth
<1>9. parse_target => Rejected \/ Parsed
  <2>1. \A i \in 1..Len(inbox) : inbox[i] \in Nat
    BY <1>0, ElementOfSeq
  <2>2. Len(inbox) >= 2 => 2 + TargetLength(inbox) \in Nat
    BY <1>0, <2>1, LenProperties DEF TargetLength, U16
  <2>3. Len(inbox) >= 2 => ReadsOnly(Drop(inbox, 2 + TargetLength(inbox)))
    BY <2>2, ReadForms
  <2>. QED  BY <1>2, <1>3, <2>3 DEF parse_target, PastAuth
<1>10. Rejected => TaskStep
  BY ReturnStep
<1>11. Parsed => TaskStep
  BY PastAuthStep
<1>. HIDE DEF Rejected, Parsed
<1>. QED
  BY <1>1, <1>4, <1>5, <1>6, <1>7, <1>8, <1>9, <1>10, <1>11 DEF parse_target_by_protocol

\* Connecting, answering and relaying, and the ways the session ends.
LEMMA TunnelSteps ==
  ASSUME GateInv, UNCHANGED <<state, client>>,
         \/ connect_target \/ send_success \/ relay_client_to_target
         \/ relay_target_to_client \/ tunnel_closed \/ peer_reset
  PROVE  TaskStep
<1>1. CASE connect_target
  <2>1. CASE pc' = "done" /\ inbox' = <<>>
    BY <1>1, <2>1, ReturnStep DEF connect_target
  <2>2. CASE pc' = "respond" /\ inbox' = inbox
    BY <1>1, <2>2, ReadForms, PastAuthStep DEF connect_target, PastAuth
  <2>. QED  BY <1>1, <2>1, <2>2 DEF connect_target, send_error_response, ReturnAfter
<1>2. CASE send_success
  BY <1>2, ReadForms, PastAuthStep DEF send_success, PastAuth
<1>3. CASE relay_client_to_target
  BY <1>3, ReadForms, PastAuthStep DEF relay_client_to_target, PastAuth
<1>4. CASE relay_target_to_client
  BY <1>4, ReadForms, PastAuthStep DEF relay_target_to_client, PastAuth
<1>5. CASE tunnel_closed
  BY <1>5, ReturnStep DEF tunnel_closed, Return
<1>6. CASE peer_reset
  BY <1>6, ReturnStep DEF peer_reset, Return
<1>. QED  BY <1>1, <1>2, <1>3, <1>4, <1>5, <1>6

\* The client adds to the stream only what its script holds.
LEMMA ClientSteps ==
  ASSUME GateInv, ClientStart \/ ClientSend \/ ClientClose \/ ClientReset
  PROVE  GateInv'
<1>1. UNCHANGED <<state, script, pc, protocol, target>>
  BY DEF ClientStart, ClientSend, ClientClose, ClientReset, clientOnly
<1>2. ScriptUnits' = ScriptUnits /\ PresentsCredentials' = PresentsCredentials
  BY <1>1 DEF ScriptUnits, PresentsCredentials
<1>. DEFINE Kept == /\ todo' \subseteq script.rounds
                    /\ outbox' \in Seq(Nat) /\ Units(outbox') \subseteq ScriptUnits
                    /\ inbox' \in Seq(Nat) /\ Units(inbox') \subseteq ScriptUnits
<1>3. /\ script \in Clients /\ todo \subseteq script.rounds
      /\ outbox \in Seq(Nat) /\ Units(outbox) \subseteq ScriptUnits
      /\ inbox \in Seq(Nat) /\ Units(inbox) \subseteq ScriptUnits
  BY DEF GateInv, SeqInv, FromScript
<1>4. ASSUME ClientStart PROVE Kept
  <2>1. PICK r \in todo : outbox' = r.send /\ todo' = todo \ {r}
    BY <1>4 DEF ClientStart
  <2>2. inbox' = inbox
    BY <1>4 DEF ClientStart
  <2>3. r \in script.rounds
    BY <1>3
  <2>4. r.send \in Seq(Nat)
    BY <1>3, <2>3, SessionAssumption DEF ClientType
  <2>5. Units(r.send) \subseteq ScriptUnits
    BY <2>3 DEF ScriptUnits
  <2>. QED  BY <1>3, <2>1, <2>2, <2>4, <2>5
<1>5. ASSUME ClientSend PROVE Kept
  <2>1. PICK k \in 1..Len(outbox) : inbox' = inbox \o Take(outbox, k) /\ outbox' = Drop(outbox, k)
    BY <1>5 DEF ClientSend
  <2>2. todo' = todo
    BY <1>5 DEF ClientSend
  <2>3. k \in Nat /\ k <= Len(outbox)
    BY <1>3, LenProperties
  <2>4. Take(outbox, k) \in Seq(Nat) /\ Units(Take(outbox, k)) \subseteq Units(outbox)
    BY <1>3, <2>3, SubSeqUnits DEF Take
  <2>5. Drop(outbox, k) \in Seq(Nat) /\ Units(Drop(outbox, k)) \subseteq Units(outbox)
    BY <1>3, <2>3, DropUnits
  <2>6. inbox' \in Seq(Nat) /\ Units(inbox') \subseteq Units(inbox) \cup Units(outbox)
    BY <1>3, <2>1, <2>4, ConcatUnits
  <2>. QED  BY <1>3, <2>1, <2>2, <2>5, <2>6
<1>6. ASSUME ClientClose PROVE Kept
  BY <1>3, <1>6, EmptyUnits DEF ClientClose
<1>7. ASSUME ClientReset PROVE Kept
  BY <1>3, <1>7, EmptyUnits DEF ClientReset
<1>8. Kept
  BY <1>4, <1>5, <1>6, <1>7
<1>9. SeqInv' /\ FromScript'
  BY <1>1, <1>2, <1>3, <1>8 DEF SeqInv, FromScript, Units
<1>. QED  BY <1>1, <1>2, <1>9 DEF GateInv, AuthGate

\* GateInv is inductive.
LEMMA StepGate == GateInv /\ [Next]_vars => GateInv'
<1> SUFFICES ASSUME GateInv, [Next]_vars PROVE GateInv'
  OBVIOUS
<1>1. CASE handle_client
  <2>1. UNCHANGED <<state, client>>
    BY <1>1 DEF handle_client
  <2>2. TaskStep
    BY <1>1, <2>1, AuthSteps, ParseSteps, TunnelSteps DEF handle_client, handshake
  <2>. QED  BY <2>2, TaskStepGate
<1>2. CASE ClientStart \/ ClientSend \/ ClientClose \/ ClientReset
  BY <1>2, ClientSteps
<1>3. CASE UNCHANGED vars
  BY <1>3 DEF vars, client, GateInv, SeqInv, FromScript, AuthGate, ScriptUnits,
              PresentsCredentials, Units
<1>. QED  BY <1>1, <1>2, <1>3 DEF Next

\* GateInv holds of an accepted connection.
LEMMA InitGate == Init => GateInv
<1> SUFFICES ASSUME Init PROVE GateInv
  OBVIOUS
<1>1. SeqInv /\ FromScript
  BY EmptyUnits DEF Init, SeqInv, FromScript
<1>. QED  BY <1>1 DEF Init, GateInv, AuthGate, Pcs, PastAuth

\* Whatever the clients and the configuration, a target is named or dialled by a
\* proxy that requires credentials only for a client that sends them.
THEOREM AuthenticationGate == Spec => []AuthGate
<1>1. GateInv => AuthGate
  BY DEF GateInv
<1>. QED  BY InitGate, StepGate, <1>1, PTL DEF Spec
-----------------------------------------------------------------------------
\* TunnelTransparent is not inductive either: it says nothing of an open tunnel that
\* has carried nothing yet.  TunnelInv adds that what was written last is the success
\* reply and the target's bytes as soon as the tunnel is open, and that the target
\* is not heard before.
BeforeTunnel == Pcs \ {"relay", "done"}

TunnelInv ==
  /\ TypeOK
  /\ pc \in BeforeTunnel => fromTarget = <<>>
  /\ pc = "relay" => IsSuffix(SuccessReply(protocol) \o fromTarget, replies)
  /\ TunnelTransparent

\* The parts of TypeOK that GateInv does not hold.
StreamTypes ==
  /\ state \in AppStates
  /\ replies \in Seq(Nat) /\ toTarget \in Seq(Nat) /\ fromTarget \in Seq(Nat)
  /\ protocol \in Protocols
Flags ==
  /\ eof \in BOOLEAN /\ rst \in BOOLEAN /\ tls_stream \in BOOLEAN
  /\ slow \in BOOLEAN /\ refused \in BOOLEAN

\* Both together are TypeOK.
LEMMA TypeParts ==
  ASSUME GateInv
  PROVE  TypeOK <=> StreamTypes /\ Flags
BY DEF GateInv, SeqInv, TypeOK, StreamTypes, Flags

\* The same of the next state.
LEMMA TypePartsNext ==
  ASSUME GateInv'
  PROVE  TypeOK' <=> StreamTypes' /\ Flags'
BY DEF GateInv, SeqInv, TypeOK, StreamTypes, Flags

\* Every reply is a sequence of units.
LEMMA RepliesAreStreams ==
  /\ \A p, e : ErrorReply(p, e) \in Seq(Nat)
  /\ \A p : SuccessReply(p) \in Seq(Nat)
  /\ send_socks4_response(FALSE) \in Seq(Nat) /\ <<R407>> \in Seq(Nat)
  /\ <<5, 2>> \in Seq(Nat) /\ <<5, 255>> \in Seq(Nat) /\ <<5, 0>> \in Seq(Nat)
  /\ <<1, 0>> \in Seq(Nat) /\ <<1, 1>> \in Seq(Nat)
<1>1. \A b \in BOOLEAN : send_socks4_response(b) \in Seq(Nat) /\ send_socks5_response(b) \in Seq(Nat)
  BY DEF send_socks4_response, send_socks5_response
<1>2. <<R200>> \in Seq(Nat) /\ <<R400>> \in Seq(Nat) /\ <<R407>> \in Seq(Nat)
      /\ <<R502>> \in Seq(Nat) /\ <<R504>> \in Seq(Nat) /\ <<>> \in Seq(Nat)
  BY DEF R200, R400, R407, R502, R504
<1>3. \A p, e : ErrorReply(p, e) \in Seq(Nat)
  BY <1>1, <1>2 DEF ErrorReply
<1>4. \A p : SuccessReply(p) \in Seq(Nat)
  BY <1>1, <1>2 DEF SuccessReply, send_http_connect_response
<1>5. <<5, 2>> \in Seq(Nat) /\ <<5, 255>> \in Seq(Nat) /\ <<5, 0>> \in Seq(Nat)
      /\ <<1, 0>> \in Seq(Nat) /\ <<1, 1>> \in Seq(Nat)
  OBVIOUS
<1>6. send_socks4_response(FALSE) \in Seq(Nat)
  BY <1>1
<1>. QED  BY <1>2, <1>3, <1>4, <1>5, <1>6, Zenon

\* The detection answers with a protocol, whatever it sees.
LEMMA DetectsProtocol ==
  ASSUME NEW buf
  PROVE  detect_protocol(buf) \in Protocols
BY DEF detect_protocol, Protocols
-----------------------------------------------------------------------------
\* The m units of s and the last m of the n units of t, counted from the end.
SameEnd(s, m, t, n) == \A i \in 1..m : s[m - i + 1] = t[n - i + 1]

\* A suffix is a shorter stream with the same end.
LEMMA SuffixAtEnd ==
  ASSUME NEW s \in Seq(Nat), NEW t \in Seq(Nat)
  PROVE  IsSuffix(s, t) <=> Len(s) <= Len(t) /\ SameEnd(s, Len(s), t, Len(t))
<1> DEFINE r == Reverse(s)
           q == Reverse(t)
           m == Len(s)
           n == Len(t)
<1>1. m \in Nat /\ n \in Nat
  BY LenProperties
<1>2. /\ r \in Seq(Nat) /\ Len(r) = m /\ \A i \in 1..m : r[i] = s[m - i + 1]
      /\ q \in Seq(Nat) /\ Len(q) = n /\ \A i \in 1..n : q[i] = t[n - i + 1]
  <2>1. \A i \in 1..m : s[m - i + 1] \in Nat
    BY <1>1, ElementOfSeq
  <2>2. \A i \in 1..n : t[n - i + 1] \in Nat
    BY <1>1, ElementOfSeq
  <2>. HIDE DEF m, n
  <2>3. r = [i \in 1..m |-> s[(m - i) + 1]] /\ q = [i \in 1..n |-> t[(n - i) + 1]]
    BY DEF Reverse, m, n
  <2>. HIDE DEF r, q
  <2>4. r \in Seq(Nat) /\ Len(r) = m
    BY <1>1, <2>1, <2>3
  <2>5. q \in Seq(Nat) /\ Len(q) = n
    BY <1>1, <2>2, <2>3
  <2>. QED  BY <2>3, <2>4, <2>5
<1>3. IsSuffix(s, t) <=> Len(r) <= Len(q) /\ SubSeq(r, 1, Len(r)) = SubSeq(q, 1, Len(r))
  BY DEF IsSuffix, IsPrefix
<1>. HIDE DEF r, q, m, n
<1>4. ASSUME m <= n
      PROVE  SubSeq(r, 1, m) = SubSeq(q, 1, m) <=> \A i \in 1..m : r[i] = q[i]
  <2>1. /\ SubSeq(r, 1, m) \in Seq(Nat) /\ Len(SubSeq(r, 1, m)) = m
        /\ \A i \in 1..m : SubSeq(r, 1, m)[i] = r[i]
    BY <1>1, <1>2
  <2>2. /\ SubSeq(q, 1, m) \in Seq(Nat) /\ Len(SubSeq(q, 1, m)) = m
        /\ \A i \in 1..m : SubSeq(q, 1, m)[i] = q[i]
    BY <1>1, <1>2, <1>4
  <2>. QED  BY <2>1, <2>2, SeqEqual
<1>5. ASSUME m <= n
      PROVE  (\A i \in 1..m : r[i] = q[i]) <=> (\A i \in 1..m : s[m - i + 1] = t[n - i + 1])
  <2>1. \A i \in 1..m : r[i] = s[m - i + 1] /\ q[i] = t[n - i + 1]
    BY <1>1, <1>2, <1>5
  <2>. QED  BY <2>1
<1>6. IsSuffix(s, t) <=> m <= n /\ \A i \in 1..m : s[m - i + 1] = t[n - i + 1]
  BY <1>2, <1>3, <1>4, <1>5
<1>. QED  BY <1>6 DEF m, n, SameEnd

\* What was written last is at the end.
LEMMA WrittenLast ==
  ASSUME NEW s \in Seq(Nat), NEW t \in Seq(Nat)
  PROVE  IsSuffix(t \o <<>>, s \o t)
<1>1. t \o <<>> = t
  BY ConcatEmptySeq
<1>2. s \o t \in Seq(Nat) /\ Len(s \o t) = Len(s) + Len(t)
      /\ \A i \in 1..(Len(s) + Len(t)) :
            (s \o t)[i] = IF i <= Len(s) THEN s[i] ELSE t[i - Len(s)]
  BY ConcatProperties
<1>3. Len(s) \in Nat /\ Len(t) \in Nat
  BY LenProperties
<1>4. SameEnd(t, Len(t), s \o t, Len(s) + Len(t))
  <2> SUFFICES ASSUME NEW i \in 1..Len(t)
               PROVE  t[Len(t) - i + 1] = (s \o t)[Len(s) + Len(t) - i + 1]
    BY DEF SameEnd
  <2> DEFINE j == Len(s) + Len(t) - i + 1
  <2>1. j \in 1..(Len(s) + Len(t)) /\ ~(j <= Len(s)) /\ j - Len(s) = Len(t) - i + 1
    BY <1>3
  <2>. HIDE DEF j
  <2>2. (s \o t)[j] = t[Len(t) - i + 1]
    BY <1>2, <2>1
  <2>. QED  BY <2>2 DEF j
<1>5. Len(t) <= Len(s) + Len(t)
  BY <1>3
<1>. QED  BY <1>1, <1>2, <1>4, <1>5, SuffixAtEnd

\* A unit at the end of both keeps a suffix a suffix.
LEMMA SuffixAppended ==
  ASSUME NEW p \in Seq(Nat), NEW s \in Seq(Nat), NEW t \in Seq(Nat), NEW u \in Nat,
         IsSuffix(p \o s, t)
  PROVE  IsSuffix(p \o Append(s, u), Append(t, u))
<1> DEFINE a == p \o s
<1>1. a \in Seq(Nat)
  BY ConcatProperties
<1>2. p \o Append(s, u) = Append(a, u)
  BY SMT
<1>3. IsSuffix(a, t)
  OBVIOUS
<1>. HIDE DEF a
<1>4. Len(a) \in Nat /\ Len(t) \in Nat
  BY <1>1, LenProperties
<1>5. /\ Append(a, u) \in Seq(Nat) /\ Len(Append(a, u)) = Len(a) + 1
      /\ \A i \in 1..Len(a) : Append(a, u)[i] = a[i]
      /\ Append(a, u)[Len(a) + 1] = u
  BY <1>1, AppendProperties
<1>6. /\ Append(t, u) \in Seq(Nat) /\ Len(Append(t, u)) = Len(t) + 1
      /\ \A i \in 1..Len(t) : Append(t, u)[i] = t[i]
      /\ Append(t, u)[Len(t) + 1] = u
  BY AppendProperties
<1>7. Len(a) <= Len(t) /\ SameEnd(a, Len(a), t, Len(t))
  BY <1>1, <1>3, SuffixAtEnd
<1>8. SameEnd(Append(a, u), Len(a) + 1, Append(t, u), Len(t) + 1)
  <2> DEFINE b == Append(a, u)
             c == Append(t, u)
             m == Len(a) + 1
             n == Len(t) + 1
  <2>. HIDE DEF b, c, m, n
  <2> SUFFICES ASSUME NEW i \in 1..m PROVE b[m - i + 1] = c[n - i + 1]
    <3>1. SameEnd(b, m, c, n)
      BY DEF SameEnd
    <3>. QED  BY <3>1 DEF b, c, m, n
  <2>. USE DEF b, c, m, n
  <2>1. CASE i = 1
    BY <1>4, <1>5, <1>6, <2>1
  <2>2. CASE i # 1
    <3> DEFINE k == i - 1
               x == Len(a) - k + 1
               y == Len(t) - k + 1
    <3>1. k \in 1..Len(a) /\ x \in 1..Len(a) /\ y \in 1..Len(t)
      <4> DEFINE v == Len(a)
                 w == Len(t)
      <4>1. v \in Nat /\ w \in Nat /\ v <= w /\ i \in 1..(v + 1)
        BY <1>4, <1>7
      <4>. HIDE DEF v, w
      <4>2. i - 1 \in 1..v /\ v - (i - 1) + 1 \in 1..v /\ w - (i - 1) + 1 \in 1..w
        BY <4>1, <2>2
      <4>. QED  BY <4>2 DEF v, w
    <3>2. Len(a) + 1 - i + 1 = x /\ Len(t) + 1 - i + 1 = y
      BY <1>4
    <3>3. a[x] = t[y]
      BY <1>7, <3>1 DEF SameEnd
    <3>. HIDE DEF x, y, k
    <3>4. Append(a, u)[x] = a[x] /\ Append(t, u)[y] = t[y]
      BY <1>5, <1>6, <3>1
    <3>5. b[x] = c[y]
      BY <3>3, <3>4
    <3>6. m - i + 1 = x /\ n - i + 1 = y
      BY <3>2
    <3>. HIDE DEF b, c, m, n
    <3>. QED  BY <3>5, <3>6
  <2>. QED  BY <2>1, <2>2
<1>9. Len(a) + 1 <= Len(t) + 1
  BY <1>4, <1>7
<1>. QED  BY <1>2, <1>5, <1>6, <1>8, <1>9, SuffixAtEnd
-----------------------------------------------------------------------------
\* A step of the handshake: it opens no tunnel, moves nothing through one, and what
\* it writes and decides has its type.
EarlyStep ==
  /\ pc \in BeforeTunnel /\ pc' # "relay" /\ UNCHANGED tunnel
  /\ replies' \in Seq(Nat) /\ protocol' \in Protocols
  /\ tls_stream' \in BOOLEAN /\ slow' \in BOOLEAN /\ refused' \in BOOLEAN

\* Such a step keeps TunnelInv.
LEMMA EarlyStepKeeps ==
  ASSUME GateInv, GateInv', TunnelInv, UNCHANGED <<state, client>>, EarlyStep
  PROVE  TunnelInv'
<1>1. StreamTypes /\ Flags
  BY TypeParts DEF TunnelInv
<1>2. fromTarget' = <<>> /\ toTarget' = toTarget /\ pc' # "relay"
  BY DEF EarlyStep, TunnelInv, tunnel
<1>3. StreamTypes'
  BY <1>1, <1>2 DEF StreamTypes, EarlyStep
<1>4. Flags'
  BY <1>1, Zenon DEF Flags, EarlyStep, client
<1>. QED  BY <1>2, <1>3, <1>4, TypePartsNext DEF TunnelInv, TunnelTransparent

\* What a handshake step may write.
LEMMA Writes ==
  ASSUME TypeOK
  PROVE  /\ replies \in Seq(Nat)
         /\ \A p, e : replies \o ErrorReply(p, e) \in Seq(Nat)
         /\ replies \o SuccessReply(protocol) \in Seq(Nat)
         /\ replies \o send_socks4_response(FALSE) \in Seq(Nat)
         /\ replies \o <<R407>> \in Seq(Nat) /\ Append(replies, ServerHello) \in Seq(Nat)
         /\ replies \o <<5, 2>> \in Seq(Nat) /\ replies \o <<5, 255>> \in Seq(Nat)
         /\ replies \o <<5, 0>> \in Seq(Nat)
         /\ replies \o <<1, 0>> \in Seq(Nat) /\ replies \o <<1, 1>> \in Seq(Nat)
<1>1. replies \in Seq(Nat)
  BY DEF TypeOK
<1>2. \A r \in Seq(Nat) : replies \o r \in Seq(Nat)
  BY <1>1, ConcatProperties
<1>3. Append(replies, ServerHello) \in Seq(Nat)
  BY <1>1, AppendProperties DEF ServerHello
<1>. QED  BY <1>1, <1>2, <1>3, RepliesAreStreams, Zenon

\* The flags as they stand, and the one that a wait in vain sets.
LEMMA FlagForms ==
  ASSUME TypeOK
  PROVE  /\ tls_stream \in BOOLEAN /\ slow \in BOOLEAN /\ refused \in BOOLEAN
         /\ GaveUp => slow' \in BOOLEAN
<1>1. tls_stream \in BOOLEAN /\ slow \in BOOLEAN /\ refused \in BOOLEAN
  BY DEF TypeOK
<1>2. (slow \/ ClientCanSend) \in BOOLEAN
  BY Zenon
<1>. QED  BY <1>1, <1>2, Zenon DEF GaveUp

\* Detection, TLS and authentication.
LEMMA AuthEarly ==
  ASSUME TypeOK,
         \/ detect_client_protocol \/ accept_tls \/ authenticate_http_or_https
         \/ authenticate_socks4 \/ authenticate_socks5 \/ authenticate_socks5_userpass
  PROVE  EarlyStep
<1>0. protocol \in Protocols /\ tls_stream \in BOOLEAN /\ slow \in BOOLEAN /\ refused \in BOOLEAN
  BY FlagForms DEF TypeOK
<1>1. CASE detect_client_protocol
  <2>1. protocol' \in Protocols
    BY <1>1, DetectsProtocol DEF detect_client_protocol
  <2>2. pc = "detect" /\ pc' \in {"redetect", "done", "auth", "tls"}
    BY <1>1 DEF detect_client_protocol, AfterStream
  <2>3. slow' \in BOOLEAN
    BY <1>1, FlagForms, Zenon DEF detect_client_protocol
  <2>4. UNCHANGED <<replies, tls_stream, tunnel, refused>>
    BY <1>1 DEF detect_client_protocol
  <2>. QED  BY <1>0, <2>1, <2>2, <2>3, <2>4, Writes DEF EarlyStep, BeforeTunnel, Pcs
<1>2. CASE accept_tls
  <2>1. UNCHANGED <<protocol, tunnel, slow, refused>> /\ pc = "tls"
    BY <1>2 DEF accept_tls, history
  <2>2. replies' \in Seq(Nat) /\ tls_stream' \in BOOLEAN /\ pc' \in {"redetect", "done", "auth"}
    BY <1>0, <1>2, Writes DEF accept_tls, Return, AfterStream
  <2>. QED  BY <1>0, <2>1, <2>2 DEF EarlyStep, BeforeTunnel, Pcs
<1>3. CASE authenticate_http_or_https
  <2>1. UNCHANGED <<protocol, tls_stream, tunnel, slow, refused>> /\ pc = "auth"
    BY <1>3 DEF authenticate_http_or_https, history
  <2>2. replies' \in Seq(Nat) /\ pc' \in {"redetect", "done"}
    BY <1>3, Writes DEF authenticate_http_or_https, Return, ReturnAfter
  <2>. QED  BY <1>0, <2>1, <2>2 DEF EarlyStep, BeforeTunnel, Pcs
<1>4. CASE authenticate_socks4
  <2>1. UNCHANGED <<protocol, tls_stream, tunnel, slow, refused>> /\ pc = "auth"
    BY <1>4 DEF authenticate_socks4, history
  <2>2. replies' \in Seq(Nat) /\ pc' \in {"redetect", "done"}
    BY <1>4, Writes DEF authenticate_socks4, Return, ReturnAfter
  <2>. QED  BY <1>0, <2>1, <2>2 DEF EarlyStep, BeforeTunnel, Pcs
<1>5. CASE authenticate_socks5
  <2>1. UNCHANGED <<protocol, tls_stream, tunnel, slow, refused>> /\ pc = "auth"
    BY <1>5 DEF authenticate_socks5, history
  <2>2. replies' \in Seq(Nat) /\ pc' \in {"auth5", "done"}
    BY <1>5, Writes DEF authenticate_socks5, Return, ReturnAfter
  <2>. QED  BY <1>0, <2>1, <2>2 DEF EarlyStep, BeforeTunnel, Pcs
<1>6. CASE authenticate_socks5_userpass
  <2>1. UNCHANGED <<protocol, tls_stream, tunnel, slow, refused>> /\ pc = "auth5"
    BY <1>6 DEF authenticate_socks5_userpass, history
  <2>2. replies' \in Seq(Nat) /\ pc' \in {"redetect", "done"}
    BY <1>6, Writes DEF authenticate_socks5_userpass, Return, ReturnAfter
  <2>. QED  BY <1>0, <2>1, <2>2 DEF EarlyStep, BeforeTunnel, Pcs
<1>. QED  BY <1>1, <1>2, <1>3, <1>4, <1>5, <1>6

\* The second detection, the parsers and a reset.
LEMMA ParseEarly ==
  ASSUME TypeOK, redetect_protocol \/ parse_target_by_protocol \/ peer_reset
  PROVE  EarlyStep
<1>0. protocol \in Protocols /\ tls_stream \in BOOLEAN /\ slow \in BOOLEAN /\ refused \in BOOLEAN
  BY FlagForms DEF TypeOK
<1>. DEFINE Parser == /\ pc \in {"parse", "parse5"}
                      /\ UNCHANGED <<protocol, tls_stream, tunnel, refused>>
            Outcome == pc' \in {"parse5", "connect", "done"} /\ replies' \in Seq(Nat)
<1>1. CASE redetect_protocol
  <2>1. protocol' \in Protocols
    BY <1>1, DetectsProtocol DEF redetect_protocol
  <2>2. slow' \in BOOLEAN
    BY <1>1, FlagForms, Zenon DEF redetect_protocol
  <2>3. UNCHANGED <<replies, tls_stream, tunnel, refused>> /\ pc = "redetect" /\ pc' = "parse"
    BY <1>1 DEF redetect_protocol
  <2>. QED  BY <1>0, <2>1, <2>2, <2>3, Writes DEF EarlyStep, BeforeTunnel, Pcs
<1>2. CASE peer_reset
  <2>1. UNCHANGED <<protocol, tls_stream, tunnel, slow, refused, replies>>
        /\ pc \in Waiting /\ pc' = "done"
    BY <1>2 DEF peer_reset, Return, history
  <2>. QED  BY <1>0, <2>1, Writes DEF EarlyStep, BeforeTunnel, Pcs, Waiting
<1>3. Reject => Outcome
  BY Writes DEF Reject, send_error_response, ReturnAfter
<1>4. ASSUME NEW t, Dial(t) PROVE Outcome
  BY <1>4, Writes DEF Dial
<1>5. parse_http_target_from_stream => Parser /\ Outcome /\ UNCHANGED slow
  BY <1>3, <1>4 DEF parse_http_target_from_stream, history
<1>6. parse_https_target_from_stream => Parser /\ Outcome /\ UNCHANGED slow
  BY <1>4 DEF parse_https_target_from_stream, history
<1>7. parse_socks4_target => Parser /\ Outcome /\ UNCHANGED slow
  BY <1>3, <1>4 DEF parse_socks4_target, history
<1>8. parse_socks5_greeting => Parser /\ Outcome /\ UNCHANGED slow
  BY <1>3, Writes DEF parse_socks5_greeting, history
<1>9. parse_socks5_target => Parser /\ Outcome /\ UNCHANGED slow
  BY <1>3, <1>4 DEF parse_socks5_target, history
<1>10. parse_target => Parser /\ Outcome /\ (UNCHANGED slow \/ GaveUp)
  BY <1>3, <1>4 DEF parse_target
<1>11. CASE parse_target_by_protocol
  <2>1. Parser /\ Outcome /\ (UNCHANGED slow \/ GaveUp)
    BY <1>5, <1>6, <1>7, <1>8, <1>9, <1>10, <1>11 DEF parse_target_by_protocol
  <2>2. slow' \in BOOLEAN
    BY <2>1, FlagForms, Zenon
  <2>. QED  BY <1>0, <2>1, <2>2 DEF EarlyStep, BeforeTunnel, Pcs
<1>. QED  BY <1>1, <1>2, <1>11

\* Dialling opens no tunnel yet.
LEMMA ConnectEarly ==
  ASSUME TypeOK, connect_target
  PROVE  EarlyStep
<1>0. protocol \in Protocols /\ tls_stream \in BOOLEAN /\ slow \in BOOLEAN /\ refused \in BOOLEAN
  BY FlagForms DEF TypeOK
<1>1. UNCHANGED <<protocol, tls_stream, tunnel, slow>> /\ pc = "connect"
  BY DEF connect_target
<1>2. replies' \in Seq(Nat) /\ refused' \in BOOLEAN /\ pc' \in {"respond", "done"}
  BY <1>0, Writes DEF connect_target, send_error_response, ReturnAfter
<1>. QED  BY <1>0, <1>1, <1>2 DEF EarlyStep, BeforeTunnel, Pcs

\* The success reply opens the tunnel, and is then what was written last.
LEMMA SuccessOpens ==
  ASSUME GateInv', TunnelInv, UNCHANGED <<state, client>>, GateInv, send_success
  PROVE  TunnelInv'
<1>1. StreamTypes /\ Flags
  BY TypeParts DEF TunnelInv
<1>2. /\ pc = "respond" /\ pc' = "relay" /\ replies' = replies \o SuccessReply(protocol)
      /\ UNCHANGED <<protocol, tls_stream, toTarget, fromTarget, slow, refused>>
  BY DEF send_success, tunnel, history
<1>3. fromTarget = <<>>
  BY <1>2 DEF TunnelInv, BeforeTunnel, Pcs
<1>4. replies' \in Seq(Nat)
  BY <1>2, Writes DEF TunnelInv
<1>5. StreamTypes' /\ Flags'
  <2>1. StreamTypes'
    BY <1>1, <1>2, <1>4 DEF StreamTypes
  <2>2. Flags'
    BY <1>1, <1>2, Zenon DEF Flags, client
  <2>. QED  BY <2>1, <2>2
<1>6. IsSuffix(SuccessReply(protocol) \o <<>>, replies \o SuccessReply(protocol))
  BY <1>1, WrittenLast, RepliesAreStreams DEF StreamTypes
<1>. QED
  BY <1>2, <1>3, <1>5, <1>6, TypePartsNext DEF TunnelInv, TunnelTransparent, BeforeTunnel

\* The open tunnel: its bytes, and its end, which writes nothing.
LEMMA TunnelKeeps ==
  ASSUME GateInv', TunnelInv, UNCHANGED <<state, client>>, GateInv,
         relay_client_to_target \/ relay_target_to_client \/ tunnel_closed
  PROVE  TunnelInv'
<1>1. StreamTypes /\ Flags
  BY TypeParts DEF TunnelInv
<1>2. UNCHANGED <<protocol, tls_stream, slow, refused>> /\ pc = "relay" /\ pc' \in {"relay", "done"}
  BY DEF relay_client_to_target, relay_target_to_client, tunnel_closed, Return, history
<1>3. IsSuffix(SuccessReply(protocol) \o fromTarget, replies)
  BY <1>2 DEF TunnelInv
<1>4. Flags'
  BY <1>1, <1>2, Zenon DEF Flags, client
<1>5. CASE relay_client_to_target
  <2>1. UNCHANGED <<replies, fromTarget>> /\ toTarget' = toTarget \o inbox
    BY <1>5 DEF relay_client_to_target
  <2>2. toTarget' \in Seq(Nat)
    BY <1>1, <2>1, ConcatProperties DEF StreamTypes, GateInv, SeqInv
  <2>3. StreamTypes'
    BY <1>1, <1>2, <2>1, <2>2 DEF StreamTypes
  <2>. QED
    BY <1>2, <1>3, <1>4, <2>1, <2>3, TypePartsNext DEF TunnelInv, TunnelTransparent, BeforeTunnel
<1>6. CASE relay_target_to_client
  <2>1. /\ fromTarget' = Append(fromTarget, Data) /\ replies' = Append(replies, Data)
        /\ toTarget' = toTarget
    BY <1>6 DEF relay_target_to_client
  <2>2. Data \in Nat
    BY DEF Data
  <2>3. fromTarget' \in Seq(Nat) /\ replies' \in Seq(Nat)
    BY <1>1, <2>1, <2>2, AppendProperties DEF StreamTypes
  <2>4. StreamTypes'
    BY <1>1, <1>2, <2>1, <2>3 DEF StreamTypes
  <2>5. IsSuffix(SuccessReply(protocol) \o Append(fromTarget, Data), Append(replies, Data))
    BY <1>1, <1>3, <2>2, SuffixAppended, RepliesAreStreams DEF StreamTypes
  <2>. QED
    BY <1>2, <1>4, <2>1, <2>4, <2>5, TypePartsNext DEF TunnelInv, TunnelTransparent, BeforeTunnel
<1>7. CASE tunnel_closed
  <2>1. UNCHANGED <<replies, fromTarget, toTarget>>
    BY <1>7 DEF tunnel_closed, Return, tunnel
  <2>2. StreamTypes'
    BY <1>1, <1>2, <2>1 DEF StreamTypes
  <2>. QED
    BY <1>2, <1>3, <1>4, <2>1, <2>2, TypePartsNext DEF TunnelInv, TunnelTransparent, BeforeTunnel
<1>. QED  BY <1>5, <1>6, <1>7

\* The client's steps write nothing to itself and leave the tunnel alone.
LEMMA ClientKeepsTunnel ==
  ASSUME GateInv, GateInv', TunnelInv, ClientStart \/ ClientSend \/ ClientClose \/ ClientReset
  PROVE  TunnelInv'
<1>1. StreamTypes /\ Flags
  BY TypeParts DEF TunnelInv
<1>2. UNCHANGED <<state, replies, pc, protocol, tls_stream, toTarget, fromTarget, slow, refused>>
  BY DEF ClientStart, ClientSend, ClientClose, ClientReset, clientOnly, tunnel, history
<1>3. StreamTypes'
  BY <1>1, <1>2 DEF StreamTypes
<1>4. eof' \in {eof, TRUE} /\ rst' \in {rst, TRUE}
  BY DEF ClientStart, ClientSend, ClientClose, ClientReset
<1>5. Flags'
  BY <1>1, <1>2, <1>4 DEF Flags
<1>. QED  BY <1>2, <1>3, <1>5, TypePartsNext DEF TunnelInv, TunnelTransparent

\* TunnelInv is inductive with GateInv.
LEMMA StepTunnel == GateInv /\ TunnelInv /\ [Next]_vars => TunnelInv'
<1> SUFFICES ASSUME GateInv, TunnelInv, [Next]_vars PROVE TunnelInv'
  OBVIOUS
<1>1. GateInv'
  BY StepGate
<1>2. CASE handle_client
  <2>1. UNCHANGED <<state, client>> /\ TypeOK
    BY <1>2 DEF handle_client, TunnelInv
  <2>2. CASE send_success
    BY <1>1, <2>1, <2>2, SuccessOpens
  <2>3. CASE relay_client_to_target \/ relay_target_to_client \/ tunnel_closed
    BY <1>1, <2>1, <2>3, TunnelKeeps
  <2>4. CASE handshake /\ ~send_success
    <3>1. EarlyStep
      BY <2>1, <2>4, AuthEarly, ParseEarly, ConnectEarly DEF handshake
    <3>. QED  BY <1>1, <2>1, <3>1, EarlyStepKeeps
  <2>. QED  BY <1>2, <2>2, <2>3, <2>4 DEF handle_client
<1>3. CASE ClientStart \/ ClientSend \/ ClientClose \/ ClientReset
  BY <1>1, <1>3, ClientKeepsTunnel
<1>4. CASE UNCHANGED vars
  <2>1. StreamTypes /\ Flags
    BY TypeParts DEF TunnelInv
  <2>2. StreamTypes' /\ Flags'
    <3>1. StreamTypes'
      BY <1>4, <2>1 DEF StreamTypes, vars, tunnel
    <3>2. Flags'
      BY <1>4, <2>1, Zenon DEF Flags, vars, client, history
    <3>. QED  BY <3>1, <3>2
  <2>. QED
    BY <1>1, <1>4, <2>2, TypePartsNext DEF TunnelInv, TunnelTransparent, vars, tunnel
<1>. QED  BY <1>2, <1>3, <1>4 DEF Next

\* TunnelInv holds of an accepted connection.
LEMMA InitTunnel == Init => TunnelInv
<1> SUFFICES ASSUME Init PROVE TunnelInv
  OBVIOUS
<1>1. StreamTypes /\ Flags
  <2>1. <<>> \in Seq(Nat)
    OBVIOUS
  <2>. QED  BY <2>1 DEF Init, StreamTypes, Flags, Protocols
<1>2. TypeOK
  BY <1>1, InitGate, TypeParts
<1>. QED  BY <1>2 DEF Init, TunnelInv, TunnelTransparent

\* The state of every session keeps its type, whatever the client sends: no unit of a
\* malformed message makes a reply, a stream or a detected protocol ill-typed.
THEOREM SessionTypes == Spec => []TypeOK
<1>1. TunnelInv => TypeOK
  BY DEF TunnelInv
<1>. QED  BY InitGate, StepGate, InitTunnel, StepTunnel, <1>1, PTL DEF Spec

\* Whatever the clients and however much the target sends, the client of an open
\* tunnel has read the success reply and then the target's bytes, and nothing of the
\* proxy's own between or after them.
THEOREM SessionTransparent == Spec => []TunnelTransparent
<1>1. TunnelInv => TunnelTransparent
  BY DEF TunnelInv
<1>. QED  BY InitGate, StepGate, InitTunnel, StepTunnel, <1>1, PTL DEF Spec
-----------------------------------------------------------------------------
\* s is the start of t.
Begins(s, t) == Len(s) <= Len(t) /\ \A i \in 1..Len(s) : s[i] = t[i]

\* Of the stream that begins with the first byte the target may get, the client has
\* begun the messages K, and those of T are not begun: all of K is received, in the
\* inbox or still with the client; or the client is gone, and what it had sent is the
\* start of K.
Gone == eof \/ rst
Whole(K, T) == ~Gone /\ todo = T /\ (toTarget \o inbox) \o outbox = K
Cut(K) == Gone /\ todo = {} /\ outbox = <<>> /\ Begins(toTarget \o inbox, K)
Sent(K, T) == Whole(K, T) \/ Cut(K)

\* After h the client says r, if it has not yet; the rest of T has to wait.
Speaks(h, r, T) == Sent(h, T) \/ Sent(h \o r.send, T \ {r})

\* The handshake has written R so far, and named no target.
Greeted(R) == replies = R /\ toTarget = <<>> /\ target = NoTarget /\ tls_stream = FALSE

\* From the accept to the first word of a parser: the client says r.
Opening(r, T, protocols) ==
  /\ Greeted(<<>>) /\ Speaks(<<>>, r, T)
  /\ pc \in {"detect", "auth", "redetect", "parse"}
  /\ pc = "auth" => state.require_creds /\ protocol \in protocols
  /\ pc = "parse" => protocol \in protocols \cup {"TCP"}

\* A detection that took the client for TCP has made it lose.
Excused == state.require_creds \/ Lost
TcpByTimeout == pc = "parse" /\ protocol = "TCP" => Excused

\* A target is dialled or connected, and will get h and then what the client says
\* in r; the client will never read what the others of T wait for.
Never(S) == \A r \in S : \E i \in 1..Len(r.need) : i <= Len(replies) /\ replies[i] # r.need[i]
Tunnel(c, h, r, T) ==
  /\ pc \in {"connect", "respond", "relay"} /\ tls_stream = FALSE
  /\ target \in c.wants
  /\ Speaks(h, r, T) /\ Never(T \ {r})

\* The task has returned; P is what the target would have got at most.
Closed(c, P) ==
  pc = "done" /\ target \in c.wants \cup {NoTarget} /\ Begins(toTarget, P)
Spared == Excused \/ target # NoTarget

\* The four kinds of clients.
Nothing == Round(<<>>, <<>>)
TakenFor(m) == IF m[1] = 4 THEN {"SOCKS4"} ELSE {}   \* the length 04 00
TcpInv(c, r) ==
  \/ Opening(r, c.rounds, TakenFor(r.send)) /\ (r.send[1] = 4 => TcpByTimeout)
  \/ Tunnel(c, c.payload, Nothing, {}) /\ (r.send[1] = 4 => Excused)
  \/ /\ Closed(c, c.payload)
     /\ IF r.send[1] = 4 THEN Excused \/ target = NoTarget ELSE Spared

Socks4Inv(c, r, p) ==
  \/ Opening(r, c.rounds, {"SOCKS4"}) /\ TcpByTimeout
  \/ /\ Greeted(<<>>) /\ Sent(<<>>, {p}) /\ state.require_creds
     /\ pc \in {"redetect", "parse"} /\ (pc = "parse" => protocol = "TCP")
  \/ Tunnel(c, <<>>, p, {p})
  \/ Closed(c, c.payload) /\ Spared

\* A SOCKS5 client: what it waits for, after its greeting g, is the request q without
\* authentication, or the username and password u and then the request a.  A proxy that
\* wants credentials reads the first three units of a as a second greeting and the rest
\* as a request.
AwaitsRequest(u, q, a, p) ==
  Greeted(<<5, 0>>) /\ Speaks(<<>>, q, {u, q, a, p}) /\ pc = "parse5"
AwaitsUserPass(u, q, a, p) ==
  Greeted(<<5, 2>>) /\ Speaks(<<>>, u, {u, q, a, p}) /\ pc = "auth5" /\ state.require_creds
Authenticated(q, a, p) ==
  /\ Greeted(<<5, 2, 1, 0>>) /\ Speaks(<<>>, a, {q, a, p}) /\ state.require_creds
  /\ pc \in {"redetect", "parse"} /\ (pc = "parse" => protocol \in {"SOCKS5", "TCP"})
Misheard(q, a, p) ==
  /\ Greeted(<<5, 2, 1, 0, 5, 0>>) /\ Sent(Drop(a.send, 3), {q, p}) /\ state.require_creds
  /\ pc = "parse5"
Socks5Inv(c, g, u, q, a, p) ==
  \/ Opening(g, c.rounds, {"SOCKS5"}) /\ TcpByTimeout
  \/ AwaitsRequest(u, q, a, p) \/ AwaitsUserPass(u, q, a, p)
  \/ Authenticated(q, a, p) \/ Misheard(q, a, p)
  \/ Tunnel(c, <<>>, p, {u, a, p})
  \/ Closed(c, c.payload) /\ Spared

\* An HTTP client that hung up inside its request line: what there was of it is dialled.
HungUp(r) ==
  /\ eof /\ inbox = <<>> /\ toTarget = <<>> /\ pc \in {"connect", "respond", "relay", "done"}
  /\ \E n \in 0..Len(r.send) : target = HttpLineTarget(SubSeq(r.send, 1, n))
HttpInv(c, r, p) ==
  \/ Opening(r, c.rounds, {"HTTP"})
  \/ \E k \in LineLength(r.send)..Len(r.send) : \/ Tunnel(c, Drop(r.send, k), p, {p})
                                                \/ Closed(c, Drop(r.send, k) \o c.payload)
  \/ HungUp(r)
-----------------------------------------------------------------------------
\* One stream after the other, as an operator of its own.
Cat(s, t) == s \o t

\* Concatenation is associative.
LEMMA CatAssociative ==
  ASSUME NEW a \in Seq(Nat), NEW b \in Seq(Nat), NEW c \in Seq(Nat)
  PROVE  Cat(Cat(a, b), c) = Cat(a, Cat(b, c))
<1>1. (a \o b) \o c = a \o (b \o c)
  BY ConcatAssociative
<1>2. Cat(Cat(a, b), c) = (a \o b) \o c /\ Cat(a, Cat(b, c)) = a \o (b \o c)
  BY DEF Cat
<1>. QED  BY <1>1, <1>2, Zenon

\* Nothing before or after a stream changes it.
LEMMA CatEmpty ==
  ASSUME NEW s \in Seq(Nat)
  PROVE  s \o <<>> = s /\ <<>> \o s = s
BY ConcatEmptySeq

\* A concatenation is a stream that begins with its first part.
LEMMA CatBegins ==
  ASSUME NEW s \in Seq(Nat), NEW t \in Seq(Nat)
  PROVE  s \o t \in Seq(Nat) /\ Len(s \o t) = Len(s) + Len(t) /\ Begins(s, s \o t)
<1>1. s \o t \in Seq(Nat) /\ Len(s \o t) = Len(s) + Len(t)
      /\ \A i \in 1..(Len(s) + Len(t)) :
            (s \o t)[i] = IF i <= Len(s) THEN s[i] ELSE t[i - Len(s)]
  BY ConcatProperties
<1>2. Len(s) \in Nat /\ Len(t) \in Nat
  BY LenProperties
<1>. QED  BY <1>1, <1>2 DEF Begins

\* The start of the start is the start.
LEMMA BeginsTransitive ==
  ASSUME NEW s \in Seq(Nat), NEW t \in Seq(Nat), NEW u \in Seq(Nat), Begins(s, t), Begins(t, u)
  PROVE  Begins(s, u)
<1>1. Len(s) \in Nat /\ Len(t) \in Nat /\ Len(u) \in Nat
  BY LenProperties
<1>2. /\ Len(s) <= Len(t) /\ Len(t) <= Len(u)
      /\ \A i \in 1..Len(s) : s[i] = t[i]
      /\ \A i \in 1..Len(t) : t[i] = u[i]
  BY DEF Begins
<1>3. Len(s) <= Len(u)
  BY <1>1, <1>2
<1>4. ASSUME NEW i \in 1..Len(s) PROVE s[i] = u[i]
  <2>1. i \in 1..Len(t)
    BY <1>1, <1>2
  <2>. QED  BY <1>2, <2>1
<1>. QED  BY <1>3, <1>4 DEF Begins

\* Nothing is the start of everything.
LEMMA BeginsEmpty ==
  ASSUME NEW s \in Seq(Nat)
  PROVE  Begins(<<>>, s) /\ Begins(s, s) /\ (Begins(s, <<>>) => s = <<>>)
<1>1. Len(s) \in Nat /\ Len(<<>>) = 0
  BY LenProperties
<1>2. Begins(<<>>, s) /\ Begins(s, s)
  BY <1>1 DEF Begins
<1>3. Begins(s, <<>>) => Len(s) = 0
  BY <1>1 DEF Begins
<1>. QED  BY <1>2, <1>3, EmptySeq

\* Begins is the community modules' IsPrefix.
LEMMA BeginsIsPrefix ==
  ASSUME NEW s \in Seq(Nat), NEW t \in Seq(Nat)
  PROVE  IsPrefix(s, t) <=> Begins(s, t)
<1>1. Len(s) \in Nat /\ Len(t) \in Nat
  BY LenProperties
<1>2. ASSUME Len(s) <= Len(t)
      PROVE  SubSeq(s, 1, Len(s)) = SubSeq(t, 1, Len(s)) <=> \A i \in 1..Len(s) : s[i] = t[i]
  <2> DEFINE m == Len(s)
  <2>. HIDE DEF m
  <2>1. /\ SubSeq(s, 1, m) \in Seq(Nat) /\ Len(SubSeq(s, 1, m)) = m
        /\ \A i \in 1..m : SubSeq(s, 1, m)[i] = s[i]
    BY <1>1 DEF m
  <2>2. /\ SubSeq(t, 1, m) \in Seq(Nat) /\ Len(SubSeq(t, 1, m)) = m
        /\ \A i \in 1..m : SubSeq(t, 1, m)[i] = t[i]
    BY <1>1, <1>2 DEF m
  <2>3. SubSeq(s, 1, m) = SubSeq(t, 1, m) <=> \A i \in 1..m : s[i] = t[i]
    BY <2>1, <2>2, SeqEqual
  <2>. QED  BY <2>3 DEF m
<1>. QED  BY <1>2 DEF IsPrefix, Begins

\* What is left of a stream after its first n units, unit by unit.
LEMMA DropOf ==
  ASSUME NEW s \in Seq(Nat), NEW n \in 0..Len(s)
  PROVE  /\ Drop(s, n) \in Seq(Nat) /\ Len(Drop(s, n)) = Len(s) - n
         /\ \A i \in 1..(Len(s) - n) : Drop(s, n)[i] = s[n + i]
<1> DEFINE m == Len(s)
<1>1. m \in Nat /\ \A i \in 1..m : s[i] \in Nat
  BY LenProperties, ElementOfSeq
<1>2. n \in 0..m
  OBVIOUS
<1>. HIDE DEF m
<1>3. /\ SubSeq(s, n + 1, m) \in Seq(Nat) /\ Len(SubSeq(s, n + 1, m)) = m - n
      /\ \A i \in 1..(m - n) : SubSeq(s, n + 1, m)[i] = s[n + i]
  <2>1. \A i \in (n + 1)..m : s[i] \in Nat
    BY <1>1, <1>2
  <2>2. n + 1 \in Int /\ m \in Int
    BY <1>1, <1>2
  <2>3. /\ SubSeq(s, n + 1, m) \in Seq(Nat)
        /\ Len(SubSeq(s, n + 1, m)) = (IF n + 1 <= m THEN m - (n + 1) + 1 ELSE 0)
        /\ \A i \in 1..(m - (n + 1) + 1) : SubSeq(s, n + 1, m)[i] = s[n + 1 + i - 1]
    BY <2>1, <2>2, SubSeqProperties
  <2>4. (IF n + 1 <= m THEN m - (n + 1) + 1 ELSE 0) = m - n /\ m - (n + 1) + 1 = m - n
    BY <1>1, <1>2
  <2>5. \A i \in 1..(m - n) : n + 1 + i - 1 = n + i
    BY <1>1, <1>2
  <2>. QED  BY <2>3, <2>4, <2>5
<1>. QED  BY <1>3 DEF Drop, m

\* Taking n units off the front of a stream takes them off whatever it begins.
LEMMA DropOfConcat ==
  ASSUME NEW s \in Seq(Nat), NEW t \in Seq(Nat), NEW n \in 0..Len(s)
  PROVE  Drop(s, n) \o t = Drop(s \o t, n)
<1> DEFINE c == s \o t
<1>1. /\ c \in Seq(Nat) /\ Len(c) = Len(s) + Len(t)
      /\ \A i \in 1..(Len(s) + Len(t)) : c[i] = IF i <= Len(s) THEN s[i] ELSE t[i - Len(s)]
  BY ConcatProperties
<1>2. Len(s) \in Nat /\ Len(t) \in Nat
  BY LenProperties
<1>. HIDE DEF c
<1>3. n \in 0..Len(c)
  BY <1>1, <1>2
<1> DEFINE d == Drop(s, n)
           e == Drop(c, n)
<1>4. /\ e \in Seq(Nat) /\ Len(e) = Len(c) - n /\ \A i \in 1..(Len(c) - n) : e[i] = c[n + i]
  BY <1>1, <1>3, DropOf
<1>5. /\ d \in Seq(Nat) /\ Len(d) = Len(s) - n /\ \A i \in 1..(Len(s) - n) : d[i] = s[n + i]
  BY DropOf
<1>. HIDE DEF d, e
<1>6. /\ d \o t \in Seq(Nat) /\ Len(d \o t) = Len(d) + Len(t)
      /\ \A i \in 1..(Len(d) + Len(t)) : (d \o t)[i] = IF i <= Len(d) THEN d[i] ELSE t[i - Len(d)]
  BY <1>5, ConcatProperties
<1>7. Len(d \o t) = Len(e)
  BY <1>1, <1>2, <1>4, <1>5, <1>6
<1>8. ASSUME NEW i \in 1..Len(e) PROVE (d \o t)[i] = e[i]
  <2>1. n + i \in 1..(Len(s) + Len(t)) /\ e[i] = c[n + i] /\ i \in 1..(Len(d) + Len(t))
    BY <1>1, <1>2, <1>4, <1>5
  <2>2. CASE i <= Len(d)
    <3>0. i \in 1..(Len(s) - n) /\ n \in Nat
      BY <1>2, <1>5, <2>1, <2>2
    <3>1. (d \o t)[i] = d[i] /\ d[i] = s[n + i]
      <4>1. (d \o t)[i] = d[i]
        BY <1>6, <2>1, <2>2
      <4>2. d[i] = s[n + i]
        BY <1>5, <3>0
      <4>. QED  BY <4>1, <4>2
    <3>2. c[n + i] = s[n + i]
      <4> DEFINE j == n + i
      <4>1. j \in 1..(Len(s) + Len(t)) /\ j <= Len(s)
        BY <1>2, <2>1, <3>0
      <4>. HIDE DEF j
      <4>2. c[j] = s[j]
        BY <1>1, <4>1
      <4>. QED  BY <4>2 DEF j
    <3>. QED  BY <2>1, <3>1, <3>2
  <2>3. CASE ~(i <= Len(d))
    <3>1. (d \o t)[i] = t[i - Len(d)] /\ i - Len(d) = n + i - Len(s)
      <4>1. (d \o t)[i] = t[i - Len(d)]
        BY <1>6, <2>1, <2>3
      <4>2. n \in Int /\ i \in Int /\ Len(s) \in Int /\ Len(d) = Len(s) - n
        BY <1>2, <1>5, <2>1
      <4>3. i - Len(d) = n + i - Len(s)
        BY <4>2
      <4>. QED  BY <4>1, <4>3
    <3>2. c[n + i] = t[n + i - Len(s)]
      <4>1. ~(n + i <= Len(s))
        BY <1>2, <1>5, <2>3
      <4> DEFINE j == n + i
      <4>2. j \in 1..(Len(s) + Len(t)) /\ ~(j <= Len(s))
        BY <2>1, <4>1
      <4>. HIDE DEF j
      <4>3. c[j] = t[j - Len(s)]
        BY <1>1, <4>2
      <4>. QED  BY <4>3 DEF j
    <3>. QED  BY <2>1, <3>1, <3>2
  <2>. QED  BY <2>2, <2>3
<1>9. d \o t = e
  BY <1>4, <1>6, <1>7, <1>8, SeqEqual
<1>. QED  BY <1>9 DEF c, d, e

\* Taking n units off two streams leaves the one the start of the other.
LEMMA DropBegins ==
  ASSUME NEW s \in Seq(Nat), NEW t \in Seq(Nat), NEW n \in 0..Len(s), Begins(s, t)
  PROVE  Begins(Drop(s, n), Drop(t, n))
<1>1. Len(s) \in Nat /\ Len(t) \in Nat /\ Len(s) <= Len(t) /\ \A i \in 1..Len(s) : s[i] = t[i]
  BY LenProperties DEF Begins
<1>2. n \in 0..Len(t)
  BY <1>1
<1> DEFINE d == Drop(s, n)
           e == Drop(t, n)
<1>3. /\ Len(d) = Len(s) - n /\ \A i \in 1..(Len(s) - n) : d[i] = s[n + i]
      /\ Len(e) = Len(t) - n /\ \A i \in 1..(Len(t) - n) : e[i] = t[n + i]
  BY <1>2, DropOf
<1>. HIDE DEF d, e
<1>4. \A i \in 1..Len(d) : d[i] = e[i]
  <2> SUFFICES ASSUME NEW i \in 1..Len(d) PROVE d[i] = e[i]
    OBVIOUS
  <2>1. n + i \in 1..Len(s) /\ i \in 1..(Len(s) - n) /\ i \in 1..(Len(t) - n)
    BY <1>1, <1>3
  <2>. QED  BY <1>1, <1>3, <2>1
<1>5. Len(d) <= Len(e)
  BY <1>1, <1>3
<1>. QED  BY <1>4, <1>5 DEF Begins, d, e

\* A send moves the front of what the client still holds, and loses nothing of it.
LEMMA TakeAndDrop ==
  ASSUME NEW s \in Seq(Nat), NEW k \in 0..Len(s)
  PROVE  Take(s, k) \in Seq(Nat) /\ Drop(s, k) \in Seq(Nat) /\ Cat(Take(s, k), Drop(s, k)) = s
<1>1. Len(s) \in Nat /\ \A i \in 1..Len(s) : s[i] \in Nat
  BY LenProperties, ElementOfSeq
<1>2. Take(s, k) \in Seq(Nat)
  BY <1>1, SubSeqProperties DEF Take
<1>3. Drop(s, k) \in Seq(Nat)
  BY DropOf
<1>4. SubSeq(s, 1, k) \o SubSeq(s, k + 1, Len(s)) = SubSeq(s, 1, Len(s))
  <2>1. 1 \in 1..Len(s) + 1 /\ k \in (1 - 1)..Len(s) /\ Len(s) \in k..Len(s)
    BY <1>1
  <2>. QED  BY <2>1, ConcatAdjacentSubSeq, Zenon
<1>. QED  BY <1>2, <1>3, <1>4, SubSeqFull DEF Take, Drop, Cat
-----------------------------------------------------------------------------
\* A step that is not the task's.
Outside == ClientStart \/ ClientSend \/ ClientClose \/ ClientReset \/ UNCHANGED vars

\* It leaves the task's state alone, and no client comes back.
LEMMA OutsideFrame ==
  ASSUME Outside
  PROVE  /\ UNCHANGED <<state, script, replies, pc, protocol, tls_stream, target, toTarget>>
         /\ Excused => Excused'
<1>1. UNCHANGED <<state, script, replies, pc, protocol, tls_stream, target, toTarget>>
  BY DEF Outside, ClientStart, ClientSend, ClientClose, ClientReset, clientOnly, tunnel, vars, client
<1>2. slow' = slow
  BY DEF Outside, ClientStart, ClientSend, ClientClose, ClientReset, clientOnly, history, vars
<1>3. eof' = eof \/ eof' = TRUE
  BY DEF Outside, ClientStart, ClientSend, ClientClose, ClientReset, vars, client
<1>4. rst' = rst \/ rst' = TRUE
  BY DEF Outside, ClientStart, ClientSend, ClientClose, ClientReset, vars, client
<1>5. Excused => Excused'
  <2>1. state' = state
    BY <1>1
  <2>2. eof => eof'
    BY <1>3
  <2>3. rst => rst'
    BY <1>4
  <2>4. slow => slow'
    BY <1>2
  <2>5. state.require_creds => state'.require_creds
    BY <2>1
  <2>. QED  BY <2>2, <2>3, <2>4, <2>5 DEF Excused, Lost
<1>. QED  BY <1>1, <1>5

\* A client sends, closes or resets what it has begun, and begins nothing whose
\* time has not come.
LEMMA OutsideSent ==
  ASSUME TypeOK, NEW K \in Seq(Nat), NEW T, \A q \in T : q.send \in Seq(Nat),
         Sent(K, T), Outside
  PROVE  \/ Sent(K, T)'
         \/ \E q \in T : IsPrefix(q.need, replies) /\ Sent(K \o q.send, T \ {q})'
<1>1. inbox \in Seq(Nat) /\ outbox \in Seq(Nat) /\ toTarget \in Seq(Nat)
  BY DEF TypeOK
<1>2. toTarget' = toTarget
  BY OutsideFrame
<1>3. toTarget \o inbox \in Seq(Nat)
  BY <1>1, ConcatProperties
<1>4. CASE UNCHANGED vars
  BY <1>4 DEF Sent, Whole, Cut, Gone, vars, client, tunnel
<1>5. CASE ClientStart
  <2>1. ~Gone /\ outbox = <<>> /\ UNCHANGED <<eof, rst, inbox>>
    BY <1>5 DEF ClientStart, Connected, Gone
  <2>2. todo = T /\ (toTarget \o inbox) \o <<>> = K
    BY <2>1 DEF Sent, Whole, Cut
  <2>3. toTarget \o inbox = K
    BY <1>3, <2>2, CatEmpty
  <2>4. PICK q \in T : IsPrefix(q.need, replies) /\ outbox' = q.send /\ todo' = T \ {q}
    BY <1>5, <2>2 DEF ClientStart
  <2>5. (toTarget' \o inbox') \o outbox' = K \o q.send
    BY <1>2, <2>1, <2>3, <2>4
  <2>6. ~Gone'
    BY <2>1 DEF Gone
  <2>7. Whole(K \o q.send, T \ {q})'
    BY <2>4, <2>5, <2>6 DEF Whole
  <2>. QED  BY <2>4, <2>7 DEF Sent
<1>6. CASE ClientSend
  <2>1. ~Gone /\ UNCHANGED <<eof, rst, todo>>
    BY <1>6 DEF ClientSend, Connected, Gone
  <2>2. todo = T /\ (toTarget \o inbox) \o outbox = K
    BY <2>1 DEF Sent, Whole, Cut
  <2>3. PICK k \in 1..Len(outbox) : inbox' = inbox \o Take(outbox, k) /\ outbox' = Drop(outbox, k)
    BY <1>6 DEF ClientSend
  <2>4. k \in 0..Len(outbox)
    BY <1>1, LenProperties
  <2> DEFINE x == Take(outbox, k)
             y == Drop(outbox, k)
  <2>5. x \in Seq(Nat) /\ y \in Seq(Nat) /\ Cat(x, y) = outbox
    BY <1>1, <2>4, TakeAndDrop
  <2>. HIDE DEF x, y
  <2>6. inbox' = Cat(inbox, x) /\ outbox' = y
    BY <2>3 DEF Cat, x, y
  <2>7. Cat(Cat(toTarget, Cat(inbox, x)), y) = Cat(Cat(toTarget, inbox), outbox)
    <3>1. Cat(toTarget, Cat(inbox, x)) = Cat(Cat(toTarget, inbox), x)
      BY <1>1, <2>5, CatAssociative
    <3>2. Cat(Cat(Cat(toTarget, inbox), x), y) = Cat(Cat(toTarget, inbox), Cat(x, y))
      BY <1>3, <2>5, CatAssociative DEF Cat
    <3>. QED  BY <3>1, <3>2, <2>5
  <2>8. Cat(Cat(toTarget', inbox'), outbox') = K
    BY <1>2, <2>2, <2>6, <2>7 DEF Cat
  <2>9. ~Gone' /\ todo' = T
    BY <2>1, <2>2 DEF Gone
  <2>. QED  BY <2>8, <2>9 DEF Sent, Whole, Cat
<1>7. CASE ClientClose \/ ClientReset
  <2>1. ~Gone
    BY <1>7 DEF ClientClose, ClientReset, Connected, Gone
  <2>2. (toTarget \o inbox) \o outbox = K
    BY <2>1 DEF Sent, Whole, Cut
  <2>3. Gone' /\ outbox' = <<>> /\ todo' = {} /\ inbox' \in {inbox, <<>>}
    BY <1>7 DEF ClientClose, ClientReset, Gone
  <2>4. Begins(toTarget \o inbox, K)
    BY <1>1, <1>3, <2>2, CatBegins
  <2>5. Begins(toTarget \o <<>>, K)
    <3>1. toTarget \o <<>> = toTarget
      BY <1>1, CatEmpty
    <3>2. Begins(toTarget, toTarget \o inbox)
      BY <1>1, CatBegins
    <3>. QED  BY <1>1, <1>3, <2>4, <3>1, <3>2, BeginsTransitive
  <2>6. Begins(toTarget' \o inbox', K)
    BY <1>2, <2>3, <2>4, <2>5
  <2>7. Cut(K)'
    BY <2>3, <2>6 DEF Cut
  <2>. QED  BY <2>7 DEF Sent
<1>. QED  BY <1>4, <1>5, <1>6, <1>7 DEF Outside

\* None of the messages in S can be begun now.
Waits(S) == \A q \in S : ~IsPrefix(q.need, replies)

\* So a client whose other messages have to wait keeps to the one it says.
LEMMA OutsideSpeaks ==
  ASSUME TypeOK, NEW h \in Seq(Nat), NEW r, NEW T,
         \A q \in T : q.send \in Seq(Nat), r.send \in Seq(Nat),
         Speaks(h, r, T), Waits(T \ {r}), Outside
  PROVE  Speaks(h, r, T)'
<1>1. h \o r.send \in Seq(Nat)
  BY ConcatProperties
<1>2. CASE Sent(h, T)
  <2>1. Sent(h, T)' \/ \E q \in T : IsPrefix(q.need, replies) /\ Sent(h \o q.send, T \ {q})'
    BY <1>2, OutsideSent
  <2>2. ASSUME NEW q \in T, IsPrefix(q.need, replies), Sent(h \o q.send, T \ {q})'
        PROVE  Sent(h \o r.send, T \ {r})'
    <3>1. q = r
      BY <2>2 DEF Waits
    <3>. QED  BY <2>2, <3>1
  <2>. QED  BY <2>1, <2>2 DEF Speaks
<1>3. CASE Sent(h \o r.send, T \ {r})
  <2>1. Sent(h \o r.send, T \ {r})'
        \/ \E q \in T \ {r} : /\ IsPrefix(q.need, replies)
                              /\ Sent((h \o r.send) \o q.send, (T \ {r}) \ {q})'
    BY <1>1, <1>3, OutsideSent
  <2>. QED  BY <2>1 DEF Speaks, Waits
<1>. QED  BY <1>2, <1>3 DEF Speaks

\* The same of a client that says nothing more for now.
LEMMA OutsideSilent ==
  ASSUME TypeOK, NEW K \in Seq(Nat), NEW T, \A q \in T : q.send \in Seq(Nat),
         Sent(K, T), Waits(T), Outside
  PROVE  Sent(K, T)'
BY OutsideSent DEF Waits

\* A step of the task that reads nothing leaves the stream as it is.
LEMMA UnreadSent ==
  ASSUME UNCHANGED <<client, inbox, toTarget>>, NEW K, NEW T
  PROVE  Sent(K, T)' <=> Sent(K, T)
<1>1. UNCHANGED <<todo, outbox, inbox, toTarget, eof, rst>>
  BY DEF client
<1>2. Gone' <=> Gone
  BY <1>1 DEF Gone
<1>. QED  BY <1>1, <1>2 DEF Sent, Whole, Cut

\* So does the relay, which hands on what it reads.
LEMMA RelayedSent ==
  ASSUME TypeOK, UNCHANGED client, toTarget' = toTarget \o inbox, inbox' = <<>>,
         NEW K, NEW T, Sent(K, T)
  PROVE  Sent(K, T)'
<1>1. inbox \in Seq(Nat) /\ toTarget \in Seq(Nat)
  BY DEF TypeOK
<1>2. toTarget' \o inbox' = toTarget \o inbox
  <2>1. toTarget \o inbox \in Seq(Nat)
    BY <1>1, ConcatProperties
  <2>. QED  BY <2>1, CatEmpty
<1>3. UNCHANGED <<todo, outbox, eof, rst>>
  BY DEF client
<1>4. Gone' <=> Gone
  BY <1>3 DEF Gone
<1>. QED  BY <1>2, <1>3, <1>4 DEF Sent, Whole, Cut

\* A parser that reads n units leaves the rest.
LEMMA ReadSent ==
  ASSUME TypeOK, UNCHANGED <<client, toTarget>>, toTarget = <<>>,
         NEW n \in 0..Len(inbox), inbox' = Drop(inbox, n),
         NEW K \in Seq(Nat), NEW T, Sent(K, T)
  PROVE  Sent(Drop(K, n), T)'
<1>1. inbox \in Seq(Nat) /\ outbox \in Seq(Nat)
  BY DEF TypeOK
<1>2. inbox' \in Seq(Nat)
  BY <1>1, DropOf
<1>3. toTarget \o inbox = inbox /\ toTarget' \o inbox' = inbox'
  BY <1>1, <1>2, CatEmpty
<1>4. UNCHANGED <<todo, outbox, eof, rst>>
  BY DEF client
<1>5. Gone' <=> Gone
  BY <1>4 DEF Gone
<1>6. CASE Whole(K, T)
  <2>1. inbox \o outbox = K
    BY <1>3, <1>6 DEF Whole
  <2>2. Drop(inbox, n) \o outbox = Drop(K, n)
    BY <1>1, <2>1, DropOfConcat
  <2>3. (toTarget' \o inbox') \o outbox' = Drop(K, n)
    BY <1>3, <1>4, <2>2
  <2>. QED  BY <1>4, <1>5, <1>6, <2>3 DEF Sent, Whole
<1>7. CASE Cut(K)
  <2>1. Begins(inbox, K)
    BY <1>3, <1>7 DEF Cut
  <2>2. Begins(Drop(inbox, n), Drop(K, n))
    BY <1>1, <2>1, DropBegins
  <2>3. Begins(toTarget' \o inbox', Drop(K, n))
    BY <1>3, <2>2
  <2>. QED  BY <1>4, <1>5, <1>7, <2>3 DEF Sent, Cut
<1>. QED  BY <1>6, <1>7 DEF Sent

\* What is in the inbox during the handshake is the start of what the client says.
LEMMA InboxSent ==
  ASSUME TypeOK, toTarget = <<>>, NEW K \in Seq(Nat), NEW T, Sent(K, T)
  PROVE  Begins(inbox, K)
<1>1. inbox \in Seq(Nat) /\ outbox \in Seq(Nat)
  BY DEF TypeOK
<1>2. toTarget \o inbox = inbox
  BY <1>1, CatEmpty
<1>3. Begins(inbox, inbox \o outbox)
  BY <1>1, CatBegins
<1>. QED  BY <1>2, <1>3 DEF Sent, Whole, Cut

\* And once something is there, the client has begun its message.
LEMMA InboxSpeaks ==
  ASSUME TypeOK, toTarget = <<>>, NEW r, NEW T, r.send \in Seq(Nat), Speaks(<<>>, r, T)
  PROVE  /\ Begins(inbox, r.send)
         /\ inbox # <<>> => Sent(r.send, T \ {r})
<1>1. inbox \in Seq(Nat) /\ <<>> \in Seq(Nat)
  BY DEF TypeOK
<1>2. <<>> \o r.send = r.send
  BY CatEmpty
<1>3. CASE Sent(<<>>, T)
  <2>1. inbox = <<>>
    BY <1>1, <1>3, InboxSent, BeginsEmpty
  <2>. QED  BY <2>1, BeginsEmpty
<1>4. CASE Sent(r.send, T \ {r})
  BY <1>4, InboxSent
<1>. QED  BY <1>2, <1>3, <1>4 DEF Speaks

\* A client that still has something of its first message to send can send it: a
\* timeout that ends the handshake then is the client's own slowness.
LEMMA StillSpeaks ==
  ASSUME TypeOK, toTarget = <<>>, NEW r, NEW T, r \in T, r.send \in Seq(Nat), r.need = <<>>,
         Speaks(<<>>, r, T), Len(inbox) < Len(r.send), ~Gone
  PROVE  ClientCanSend
<1>1. inbox \in Seq(Nat) /\ outbox \in Seq(Nat) /\ replies \in Seq(Nat)
  BY DEF TypeOK
<1>2. <<>> \o r.send = r.send /\ toTarget \o inbox = inbox
  BY <1>1, CatEmpty
<1>3. CASE Sent(<<>>, T)
  <2>1. todo = T
    BY <1>3 DEF Sent, Whole, Cut
  <2>2. IsPrefix(<<>>, replies)
    <3>1. <<>> \in Seq(Nat)
      OBVIOUS
    <3>. QED  BY <1>1, <3>1, BeginsEmpty, BeginsIsPrefix
  <2>. QED  BY <2>1, <2>2 DEF ClientCanSend, Gone
<1>4. CASE Sent(r.send, T \ {r})
  <2>1. inbox \o outbox = r.send
    BY <1>2, <1>4 DEF Sent, Whole, Cut
  <2>2. outbox # <<>>
    <3> SUFFICES ASSUME outbox = <<>> PROVE FALSE
      OBVIOUS
    <3>1. inbox = r.send
      BY <1>1, <2>1, CatEmpty
    <3>. QED  BY <3>1, LenProperties
  <2>. QED  BY <2>2 DEF ClientCanSend, Gone
<1>. QED  BY <1>2, <1>3, <1>4 DEF Speaks
-----------------------------------------------------------------------------
\* The steps the task can take at each await.
LEMMA AtPc ==
  ASSUME handle_client
  PROVE  /\ UNCHANGED <<state, client>>
         /\ pc = "detect" => detect_client_protocol \/ peer_reset
         /\ pc = "auth" /\ protocol = "HTTP" => authenticate_http_or_https \/ peer_reset
         /\ pc = "auth" /\ protocol = "SOCKS4" => authenticate_socks4 \/ peer_reset
         /\ pc = "auth" /\ protocol = "SOCKS5" => authenticate_socks5 \/ peer_reset
         /\ pc = "auth5" => authenticate_socks5_userpass \/ peer_reset
         /\ pc = "redetect" => redetect_protocol \/ peer_reset
         /\ pc = "parse" /\ protocol = "HTTP" => parse_http_target_from_stream \/ peer_reset
         /\ pc = "parse" /\ protocol = "SOCKS4" => parse_socks4_target \/ peer_reset
         /\ pc = "parse" /\ protocol = "SOCKS5" => parse_socks5_greeting \/ peer_reset
         /\ pc = "parse" /\ protocol = "TCP" => parse_target \/ peer_reset
         /\ pc = "parse5" => parse_socks5_target \/ peer_reset
         /\ pc = "connect" => connect_target
         /\ pc = "respond" => send_success \/ peer_reset
         /\ pc = "relay" => relay_client_to_target \/ relay_target_to_client \/ tunnel_closed
         /\ pc # "done"
<1>1. /\ detect_client_protocol => pc = "detect"
      /\ accept_tls => pc = "tls"
      /\ authenticate_http_or_https => pc = "auth" /\ protocol \in {"HTTP", "HTTPS"}
      /\ authenticate_socks4 => pc = "auth" /\ protocol = "SOCKS4"
      /\ authenticate_socks5 => pc = "auth" /\ protocol = "SOCKS5"
      /\ authenticate_socks5_userpass => pc = "auth5"
      /\ redetect_protocol => pc = "redetect"
  BY DEF detect_client_protocol, accept_tls, authenticate_http_or_https, authenticate_socks4,
         authenticate_socks5, authenticate_socks5_userpass, redetect_protocol
<1>2. /\ parse_http_target_from_stream => pc = "parse" /\ protocol = "HTTP"
      /\ parse_https_target_from_stream => pc = "parse" /\ protocol = "HTTPS"
      /\ parse_socks4_target => pc = "parse" /\ protocol = "SOCKS4"
      /\ parse_socks5_greeting => pc = "parse" /\ protocol = "SOCKS5"
      /\ parse_socks5_target => pc = "parse5"
      /\ parse_target => pc = "parse" /\ protocol = "TCP"
  BY DEF parse_http_target_from_stream, parse_https_target_from_stream, parse_socks4_target,
         parse_socks5_greeting, parse_socks5_target, parse_target
<1>3. /\ connect_target => pc = "connect"
      /\ send_success => pc = "respond"
      /\ relay_client_to_target => pc = "relay"
      /\ relay_target_to_client => pc = "relay"
      /\ tunnel_closed => pc = "relay"
      /\ peer_reset => pc \in Pcs \ {"connect", "relay", "done"}
  BY DEF connect_target, send_success, relay_client_to_target, relay_target_to_client,
         tunnel_closed, peer_reset, Waiting
<1>4. UNCHANGED <<state, client>>
      /\ (handshake \/ relay_client_to_target \/ relay_target_to_client \/ tunnel_closed)
  BY DEF handle_client
<1>. QED  BY <1>1, <1>2, <1>3, <1>4 DEF handshake, parse_target_by_protocol

\* No step of the task takes back that the client was slow, or gone.
LEMMA TaskExcused ==
  ASSUME handle_client
  PROVE  Excused => Excused'
<1>1. state' = state /\ eof' = eof /\ rst' = rst
  BY AtPc DEF client
<1>2. slow => slow'
  <2>1. detect_client_protocol \/ redetect_protocol \/ parse_target => UNCHANGED slow \/ GaveUp
    BY DEF detect_client_protocol, redetect_protocol, parse_target
  <2>2. \/ detect_client_protocol \/ redetect_protocol \/ parse_target
        \/ UNCHANGED slow
    BY DEF handle_client, handshake, accept_tls, authenticate_http_or_https, authenticate_socks4,
           authenticate_socks5, authenticate_socks5_userpass, parse_target_by_protocol,
           parse_http_target_from_stream, parse_https_target_from_stream, parse_socks4_target,
           parse_socks5_greeting, parse_socks5_target, connect_target, send_success, peer_reset,
           relay_client_to_target, relay_target_to_client, tunnel_closed, history
  <2>. QED  BY <2>1, <2>2 DEF GaveUp
<1>. QED  BY <1>1, <1>2 DEF Excused, Lost

\* The task returns, and leaves what the target got as it is.
Ends == pc' = "done" /\ target' = target /\ toTarget' = toTarget

\* It does so on a reset, whatever it waits for.
LEMMA ResetEnds ==
  ASSUME handle_client, peer_reset
  PROVE  Ends /\ Excused'
<1>1. Ends /\ rst /\ rst' = rst
  BY AtPc DEF peer_reset, Return, Ends, tunnel, client
<1>. QED  BY <1>1 DEF Excused, Lost

\* A handshake that ends has sent the target nothing, and named none.
LEMMA GreetedEnds ==
  ASSUME NEW R, Greeted(R), Ends, NEW c, NEW P \in Seq(Nat)
  PROVE  Closed(c, P)'
<1>1. Begins(<<>>, P)
  BY BeginsEmpty
<1>. QED  BY <1>1 DEF Greeted, Ends, Closed
-----------------------------------------------------------------------------
\* A stream that begins like none of the HTTP methods is detected by its first byte.
LEMMA DetectsByte ==
  ASSUME NEW s \in Seq(Nat)
  PROVE  /\ s = <<>> => detect_protocol(PeekBuf(s)) = "TCP"
         /\ s # <<>> /\ s[1] < 4 => detect_protocol(PeekBuf(s)) = "TCP"
         /\ s # <<>> /\ s[1] = 4 => detect_protocol(PeekBuf(s)) = "SOCKS4"
         /\ s # <<>> /\ s[1] = 5 => detect_protocol(PeekBuf(s)) = "SOCKS5"
<1> DEFINE b == PeekBuf(s)
<1>1. b[1] = IF 1 <= Len(s) THEN s[1] ELSE 0
  BY DEF PeekBuf
<1>2. s # <<>> => 1 <= Len(s)
  BY EmptySeq, LenProperties
<1>3. s = <<>> => ~(1 <= Len(s))
  OBVIOUS
<1>. HIDE DEF b
<1>4. b \in HttpPrefixes => b[1] \in {71, 80, 72, 68, 67}
  BY DEF HttpPrefixes
<1>5. /\ b[1] < 4 => detect_protocol(b) = "TCP"
      /\ b[1] = 4 => detect_protocol(b) = "SOCKS4"
      /\ b[1] = 5 => detect_protocol(b) = "SOCKS5"
  BY <1>4 DEF detect_protocol
<1>. QED  BY <1>1, <1>2, <1>3, <1>5 DEF b

\* The start of an HTTP request is taken for HTTP, or for TCP when it is cut short.
LEMMA DetectsHttp ==
  ASSUME NEW m \in Seq(Nat), Len(m) >= 1, PeekBuf(m) \in HttpPrefixes,
         NEW s \in Seq(Nat), Begins(s, m)
  PROVE  /\ detect_protocol(PeekBuf(s)) \in {"HTTP", "TCP"}
         /\ s # <<>> => s[1] = m[1] /\ m[1] \in {71, 80, 72, 68, 67}
<1> DEFINE a == PeekBuf(m)
           b == PeekBuf(s)
<1>1. b[1] = (IF 1 <= Len(s) THEN s[1] ELSE 0) /\ a[1] = (IF 1 <= Len(m) THEN m[1] ELSE 0)
  BY DEF PeekBuf
<1>2. s # <<>> => 1 <= Len(s) /\ s[1] = m[1]
  <2>1. s # <<>> => 1 <= Len(s) /\ 1 \in 1..Len(s)
    BY EmptySeq, LenProperties
  <2>. QED  BY <2>1 DEF Begins
<1>3. a \in HttpPrefixes
  OBVIOUS
<1>. HIDE DEF a, b
<1>4. a[1] \in {71, 80, 72, 68, 67}
  BY <1>3 DEF HttpPrefixes
<1>5. m[1] \in {71, 80, 72, 68, 67}
  <2>1. 1 <= Len(m)
    BY LenProperties
  <2>. QED  BY <1>1, <1>4, <2>1
<1>6. s = <<>> => ~(1 <= Len(s))
  OBVIOUS
<1>7. b[1] \in {0, 71, 80, 72, 68, 67}
  BY <1>1, <1>2, <1>5, <1>6
<1>8. detect_protocol(b) \in {"HTTP", "TCP"}
  <2>1. b[1] # 22 /\ b[1] # 5 /\ b[1] # 4
    BY <1>7
  <2>2. detect_protocol(b) = IF b \in HttpPrefixes THEN "HTTP" ELSE "TCP"
    BY <2>1 DEF detect_protocol
  <2>. QED  BY <2>2
<1>. QED  BY <1>2, <1>5, <1>8 DEF b

\* Whatever part of m has arrived, it is taken for one of the protocols or for TCP.
ReadsAs(m, protocols) ==
  /\ protocols \subseteq {"HTTP", "SOCKS4", "SOCKS5"}
  /\ \A s \in Seq(Nat) : Begins(s, m) => detect_protocol(PeekBuf(s)) \in protocols \cup {"TCP"}

\* The two detections keep to the opening, or end with a proxy that wants credentials.
LEMMA OpeningDetects ==
  ASSUME TypeOK, NEW r, NEW T, NEW protocols, r.send \in Seq(Nat), ReadsAs(r.send, protocols),
         Opening(r, T, protocols), handle_client, pc \in {"detect", "redetect"}
  PROVE  Opening(r, T, protocols)' \/ (Ends /\ Excused')
<1>1. inbox \in Seq(Nat) /\ toTarget = <<>> /\ Greeted(<<>>) /\ Speaks(<<>>, r, T)
  BY DEF TypeOK, Opening, Greeted
<1>2. detect_protocol(PeekBuf(inbox)) \in protocols \cup {"TCP"}
  BY <1>1, InboxSpeaks DEF ReadsAs
<1>3. CASE peer_reset
  BY <1>3, ResetEnds
<1>4. ASSUME UNCHANGED <<client, inbox, toTarget, replies, target, tls_stream>>
      PROVE  Greeted(<<>>)' /\ Speaks(<<>>, r, T)'
  BY <1>1, <1>4, UnreadSent DEF Greeted, Speaks
<1>5. CASE detect_client_protocol
  <2>1. /\ UNCHANGED <<inbox, replies, tls_stream, target, toTarget>>
        /\ protocol' \in protocols \cup {"TCP"} /\ pc' = AfterStream(protocol')
    BY <1>2, <1>5 DEF detect_client_protocol, tunnel, ReadsAs
  <2>2. UNCHANGED <<state, client>>
    BY AtPc
  <2>3. /\ ~state.require_creds => pc' = "redetect"
        /\ state.require_creds /\ protocol' = "TCP" => pc' = "done"
        /\ state.require_creds /\ protocol' # "TCP" => pc' = "auth" /\ protocol' \in protocols
    BY <2>1 DEF AfterStream
  <2>4. Greeted(<<>>)' /\ Speaks(<<>>, r, T)'
    BY <1>4, <2>1, <2>2
  <2>5. CASE pc' = "done"
    <3>1. state' = state /\ state.require_creds
      BY <2>2, <2>3, <2>5
    <3>. QED  BY <2>1, <2>5, <3>1 DEF Ends, Excused
  <2>6. CASE pc' # "done"
    <3>1. /\ pc' \in {"redetect", "auth"}
          /\ pc' = "auth" => state.require_creds /\ protocol' \in protocols
      BY <2>3, <2>6
    <3>2. state' = state
      BY <2>2
    <3>3. pc' \in {"detect", "auth", "redetect", "parse"} /\ pc' # "parse"
      BY <3>1
    <3>4. pc' = "auth" => state'.require_creds /\ protocol' \in protocols
      BY <3>1, <3>2
    <3>5. Opening(r, T, protocols)'
      BY <2>4, <3>3, <3>4, Zenon DEF Opening
    <3>. QED  BY <3>5
  <2>. QED  BY <2>5, <2>6
<1>6. CASE redetect_protocol
  <2>1. /\ UNCHANGED <<inbox, replies, tls_stream, target, toTarget>>
        /\ protocol' \in protocols \cup {"TCP"} /\ pc' = "parse"
    BY <1>1, <1>2, <1>6 DEF redetect_protocol, tunnel, Greeted
  <2>2. Greeted(<<>>)' /\ Speaks(<<>>, r, T)'
    BY <1>4, <2>1, AtPc
  <2>3. pc' \in {"detect", "auth", "redetect", "parse"} /\ pc' # "auth"
    BY <2>1
  <2>4. Opening(r, T, protocols)'
    BY <2>1, <2>2, <2>3, Zenon DEF Opening
  <2>. QED  BY <2>4
<1>. QED  BY <1>3, <1>5, <1>6, AtPc

\* The second detection takes a SOCKS client for TCP only if it heard nothing.
LEMMA SocksRedetected ==
  ASSUME TypeOK, toTarget = <<>>, NEW r, NEW T, r.send \in Seq(Nat), Speaks(<<>>, r, T),
         r \in T, r.need = <<>>, Len(r.send) >= 1, r.send[1] \in {4, 5},
         handle_client, redetect_protocol, protocol' = "TCP"
  PROVE  Excused'
<1>1. inbox \in Seq(Nat)
  BY DEF TypeOK
<1>2. inbox = <<>>
  <2> SUFFICES ASSUME inbox # <<>> PROVE FALSE
    OBVIOUS
  <2>1. Begins(inbox, r.send)
    BY InboxSpeaks
  <2>2. Len(inbox) >= 1
    BY <1>1, EmptySeq, LenProperties
  <2>3. inbox[1] = r.send[1]
    BY <1>1, <2>1, <2>2 DEF Begins
  <2>. QED  BY <1>1, <2>3, DetectsByte DEF redetect_protocol
<1>3. GaveUp
  BY <1>2 DEF redetect_protocol
<1>4. ~Gone => ClientCanSend
  BY <1>2, StillSpeaks
<1>5. ~Gone => slow'
  BY <1>3, <1>4 DEF GaveUp
<1>6. eof' = eof /\ rst' = rst
  BY AtPc DEF client
<1>. QED  BY <1>5, <1>6 DEF Excused, Lost, Gone

\* What begins like SOCKS or HTTP is no length that parse_target accepts.
LEMMA MisreadEnds ==
  ASSUME TypeOK, handle_client, pc = "parse", protocol = "TCP",
         inbox # <<>> => inbox[1] > 4 \/ (inbox[1] = 4 /\ (Len(inbox) >= 2 => inbox[2] > 0))
  PROVE  Ends
<1>1. inbox \in Seq(Nat)
  BY DEF TypeOK
<1>2. Reject => pc' = "done" /\ target' = target
  BY DEF Reject, send_error_response, ReturnAfter
<1>3. CASE parse_target
  <2>1. toTarget' = toTarget
    BY <1>3 DEF parse_target, tunnel
  <2>2. ASSUME Len(inbox) >= 2
        PROVE  ~(TargetLength(inbox) # 0 /\ TargetLength(inbox) <= MaxTargetLength)
    <3>1. inbox[1] \in Nat /\ inbox[2] \in Nat /\ inbox # <<>>
      BY <1>1, <2>2, LenProperties, ElementOfSeq
    <3>2. inbox[1] > 4 \/ (inbox[1] = 4 /\ inbox[2] > 0)
      BY <2>2, <3>1
    <3>3. 256 * inbox[1] + inbox[2] > 1024
      BY <3>1, <3>2
    <3>4. U16(inbox[1], inbox[2]) \in Nat /\ U16(inbox[1], inbox[2]) > 1024
      BY <3>1, <3>3 DEF U16
    <3>5. TargetLength(inbox) \in {65535, U16(inbox[1], inbox[2])}
      BY DEF TargetLength
    <3>. QED  BY <3>4, <3>5 DEF MaxTargetLength
  <2>3. Reject
    BY <1>3, <2>2 DEF parse_target
  <2>. QED  BY <1>2, <2>1, <2>3 DEF Ends
<1>. QED  BY <1>3, AtPc, ResetEnds
-----------------------------------------------------------------------------
\* Replies that never fit keep from fitting as more is written.
LEMMA NeverGrows ==
  ASSUME replies \in Seq(Nat), NEW S, Never(S), NEW x \in Seq(Nat), replies' = replies \o x
  PROVE  Never(S)'
<1>1. Len(replies') = Len(replies) + Len(x) /\ \A i \in 1..Len(replies) : replies'[i] = replies[i]
  BY ConcatProperties, LenProperties
<1>2. ASSUME NEW r \in S PROVE \E i \in 1..Len(r.need) : i <= Len(replies') /\ replies'[i] # r.need[i]
  <2>1. PICK i \in 1..Len(r.need) : i <= Len(replies) /\ replies[i] # r.need[i]
    BY DEF Never
  <2>2. Len(replies) \in Nat /\ Len(x) \in Nat /\ i \in Int /\ i >= 1
    BY LenProperties
  <2>3. i \in 1..Len(replies) /\ i <= Len(replies')
    BY <1>1, <2>1, <2>2
  <2>. QED  BY <1>1, <2>1, <2>3
<1>. QED  BY <1>2 DEF Never

\* A message that waits for such replies waits for ever.
LEMMA NeverWaits ==
  ASSUME replies \in Seq(Nat), NEW S, Never(S), \A r \in S : r.need \in Seq(Nat)
  PROVE  Waits(S)
<1> SUFFICES ASSUME NEW r \in S, IsPrefix(r.need, replies) PROVE FALSE
  BY DEF Waits
<1>1. Begins(r.need, replies)
  BY BeginsIsPrefix
<1>. QED  BY <1>1 DEF Never, Begins

\* What a target has got is the start of what it may get.
LEMMA GotStart ==
  ASSUME TypeOK, NEW h \in Seq(Nat), NEW r, r.send \in Seq(Nat), NEW T, Speaks(h, r, T)
  PROVE  Begins(toTarget, h \o r.send)
<1> DEFINE g == toTarget \o inbox
           P == h \o r.send
<1>1. inbox \in Seq(Nat) /\ outbox \in Seq(Nat) /\ toTarget \in Seq(Nat)
  BY DEF TypeOK
<1>2. g \in Seq(Nat) /\ Begins(toTarget, g)
  BY <1>1, CatBegins
<1>3. P \in Seq(Nat) /\ Begins(h, P)
  BY CatBegins
<1>4. ASSUME NEW K \in Seq(Nat), NEW S, Sent(K, S) PROVE Begins(g, K)
  <2>. HIDE DEF g
  <2>1. Begins(g, g \o outbox)
    BY <1>1, <1>2, CatBegins
  <2>. QED  BY <1>4, <2>1 DEF Sent, Whole, Cut, g
<1>5. Sent(h, T) \/ Sent(P, T \ {r})
  BY DEF Speaks
<1>. HIDE DEF g, P
<1>6. Begins(g, h) \/ Begins(g, P)
  BY <1>3, <1>4, <1>5
<1>7. Begins(g, P)
  BY <1>2, <1>3, <1>6, BeginsTransitive
<1>8. Begins(toTarget, P)
  BY <1>1, <1>2, <1>3, <1>7, BeginsTransitive
<1>. QED  BY <1>8 DEF P

\* A message of the client: two streams.
IsRound(r) == r.need \in Seq(Nat) /\ r.send \in Seq(Nat)

\* From the dial on, every step keeps the target's bytes in order, up to the end.
LEMMA TunnelStep ==
  ASSUME TypeOK, NEW c, NEW h \in Seq(Nat), NEW r, IsRound(r), NEW T, \A q \in T : IsRound(q),
         Tunnel(c, h, r, T), [Next]_vars
  PROVE  Tunnel(c, h, r, T)' \/ Closed(c, h \o r.send)'
<1>1. /\ replies \in Seq(Nat) /\ inbox \in Seq(Nat) /\ h \o r.send \in Seq(Nat)
      /\ r.send \in Seq(Nat) /\ \A q \in T : q.send \in Seq(Nat) /\ q.need \in Seq(Nat)
  BY ConcatProperties DEF TypeOK, IsRound
<1>2. /\ pc \in {"connect", "respond", "relay"} /\ tls_stream = FALSE /\ target \in c.wants
      /\ Speaks(h, r, T) /\ Never(T \ {r})
  BY DEF Tunnel
<1>3. CASE Outside
  <2>1. Waits(T \ {r})
    BY <1>1, <1>2, NeverWaits
  <2>2. Speaks(h, r, T)'
    BY <1>1, <1>2, <1>3, <2>1, OutsideSpeaks
  <2>3. UNCHANGED <<replies, pc, tls_stream, target>>
    BY <1>3, OutsideFrame
  <2>4. Never(T \ {r})'
    BY <1>2, <2>3 DEF Never
  <2>. QED  BY <1>2, <2>2, <2>3, <2>4 DEF Tunnel
<1>4. CASE handle_client
  <2>0. UNCHANGED client
    BY <1>4, AtPc
  <2>1. ASSUME Ends PROVE Closed(c, h \o r.send)'
    <3>1. Begins(toTarget, h \o r.send)
      BY <1>1, <1>2, GotStart
    <3>. QED  BY <1>2, <2>1, <3>1 DEF Ends, Closed
  <2>2. ASSUME NEW x \in Seq(Nat), replies' = replies \o x,
               UNCHANGED <<inbox, toTarget, tls_stream, target>>,
               pc' \in {"connect", "respond", "relay"}
        PROVE  Tunnel(c, h, r, T)'
    <3>1. Never(T \ {r})'
      BY <1>1, <1>2, <2>2, NeverGrows
    <3>2. Speaks(h, r, T)'
      BY <1>2, <2>0, <2>2, UnreadSent DEF Speaks
    <3>. QED  BY <1>2, <2>2, <3>1, <3>2 DEF Tunnel
  <2>3. replies \o <<>> = replies /\ <<>> \in Seq(Nat)
    BY <1>1, CatEmpty
  <2>4. CASE connect_target
    <3>1. \/ UNCHANGED <<replies, inbox>> /\ pc' = "respond"
          \/ pc' = "done"
      BY <2>4 DEF connect_target, send_error_response, ReturnAfter
    <3>2. UNCHANGED <<toTarget, tls_stream, target>>
      BY <2>4 DEF connect_target, tunnel
    <3>. QED  BY <2>1, <2>2, <2>3, <3>1, <3>2 DEF Ends
  <2>5. CASE send_success
    <3>1. /\ pc' = "relay" /\ replies' = replies \o SuccessReply(protocol)
          /\ UNCHANGED <<inbox, toTarget, tls_stream, target>>
      BY <2>5 DEF send_success, tunnel
    <3>2. SuccessReply(protocol) \in Seq(Nat)
      BY RepliesAreStreams
    <3>. QED  BY <2>2, <3>1, <3>2
  <2>6. CASE relay_client_to_target
    <3>1. /\ toTarget' = toTarget \o inbox /\ inbox' = <<>>
          /\ UNCHANGED <<replies, pc, tls_stream, target>>
      BY <2>6 DEF relay_client_to_target
    <3>2. Speaks(h, r, T)'
      BY <1>2, <2>0, <3>1, RelayedSent DEF Speaks
    <3>3. Never(T \ {r})'
      BY <1>2, <3>1 DEF Never
    <3>. QED  BY <1>2, <3>1, <3>2, <3>3 DEF Tunnel
  <2>7. CASE relay_target_to_client
    <3>1. /\ replies' = Append(replies, Data) /\ pc' = pc
          /\ UNCHANGED <<inbox, toTarget, tls_stream, target>>
      BY <2>7 DEF relay_target_to_client
    <3>2. Data \in Nat
      BY DEF Data
    <3>3. Append(replies, Data) = replies \o <<Data>> /\ <<Data>> \in Seq(Nat)
      BY <1>1, <3>2, AppendIsConcat
    <3>. QED  BY <1>2, <2>2, <3>1, <3>3
  <2>8. CASE tunnel_closed
    BY <2>1, <2>8 DEF tunnel_closed, Return, Ends, tunnel
  <2>9. CASE peer_reset
    BY <1>4, <2>1, <2>9, ResetEnds
  <2>. QED  BY <1>2, <1>4, <2>4, <2>5, <2>6, <2>7, <2>8, <2>9, AtPc
<1>. QED  BY <1>3, <1>4 DEF Next, Outside

\* Nothing happens to a task that has returned.
LEMMA ClosedStep ==
  ASSUME NEW c, NEW P, Closed(c, P), [Next]_vars
  PROVE  Closed(c, P)' /\ (Spared => Spared') /\ target' = target
<1>1. UNCHANGED vars
  <2>1. ~handle_client
    BY AtPc DEF Closed
  <2>2. ~(ClientStart \/ ClientSend \/ ClientClose \/ ClientReset)
    BY DEF Closed, ClientStart, ClientSend, ClientClose, ClientReset, Connected
  <2>. QED  BY <2>1, <2>2 DEF Next
<1>2. UNCHANGED <<pc, target, toTarget, state, slow, eof, rst>>
  BY <1>1 DEF vars, tunnel, client, history
<1>. QED  BY <1>2 DEF Closed, Spared, Excused, Lost
-----------------------------------------------------------------------------
\* Before the proxy has written a word, only a first message can be said.
LEMMA FirstWaits ==
  ASSUME replies = <<>>, NEW S, \A q \in S : IsRound(q) /\ q.need # <<>>
  PROVE  Waits(S)
<1> SUFFICES ASSUME NEW q \in S, IsPrefix(q.need, replies) PROVE FALSE
  BY DEF Waits
<1>1. <<>> \in Seq(Nat) /\ q.need \in Seq(Nat)
  BY DEF IsRound
<1>2. Begins(q.need, <<>>)
  BY <1>1, BeginsIsPrefix
<1>. QED  BY <1>1, <1>2, BeginsEmpty

\* The opening is kept by all that is not the task's.
LEMMA OpeningOutside ==
  ASSUME TypeOK, NEW r, IsRound(r), NEW T, \A q \in T : IsRound(q),
         \A q \in T \ {r} : q.need # <<>>, NEW protocols, Opening(r, T, protocols), Outside
  PROVE  Opening(r, T, protocols)'
<1>1. Greeted(<<>>) /\ Speaks(<<>>, r, T) /\ pc \in {"detect", "auth", "redetect", "parse"}
      /\ (pc = "auth" => state.require_creds /\ protocol \in protocols)
      /\ (pc = "parse" => protocol \in protocols \cup {"TCP"})
  BY DEF Opening
<1>2. Waits(T \ {r})
  BY <1>1, FirstWaits DEF Greeted
<1>3. <<>> \in Seq(Nat) /\ r.send \in Seq(Nat) /\ \A q \in T : q.send \in Seq(Nat)
  BY DEF IsRound
<1>4. Speaks(<<>>, r, T)'
  BY <1>1, <1>2, <1>3, OutsideSpeaks
<1>5. UNCHANGED <<state, replies, pc, protocol, tls_stream, target, toTarget>>
  BY OutsideFrame
<1>6. Greeted(<<>>)'
  BY <1>1, <1>5 DEF Greeted
<1>7. pc' = pc /\ protocol' = protocol /\ state' = state
  BY <1>5
<1>. QED  BY <1>1, <1>4, <1>6, <1>7 DEF Opening

\* Who is taken for TCP has lost, whatever happens outside the task.
LEMMA TimeoutOutside ==
  ASSUME TcpByTimeout, Outside
  PROVE  TcpByTimeout'
BY OutsideFrame DEF TcpByTimeout

\* A handshake that ends with an excuse has closed the session.
LEMMA EndsSpared ==
  ASSUME NEW R, Greeted(R), Ends, Excused', NEW c, c.payload \in Seq(Nat)
  PROVE  (Closed(c, c.payload) /\ Spared)'
BY GreetedEnds DEF Spared

\* A target that a client asks for is one.
RealTargets(c) == \A t \in c.wants : t # NoTarget

\* The tunnel of a client, and its end.
LEMMA TunnelSpared ==
  ASSUME TypeOK, NEW c, c.payload \in Seq(Nat), RealTargets(c),
         NEW h \in Seq(Nat), NEW r, IsRound(r), h \o r.send = c.payload,
         NEW T, \A q \in T : IsRound(q), Tunnel(c, h, r, T), [Next]_vars
  PROVE  Tunnel(c, h, r, T)' \/ (Closed(c, c.payload) /\ Spared)'
<1>1. Tunnel(c, h, r, T)' \/ Closed(c, c.payload)'
  BY TunnelStep
<1>2. target' = target
  <2>1. CASE Outside  BY <2>1, OutsideFrame
  <2>2. CASE handle_client
    <3>1. /\ peer_reset => target' = target
          /\ connect_target => target' = target
          /\ send_success => target' = target
          /\ relay_client_to_target => target' = target
          /\ relay_target_to_client => target' = target
          /\ tunnel_closed => target' = target
      BY DEF peer_reset, connect_target, send_success, relay_client_to_target,
             relay_target_to_client, tunnel_closed
    <3>. QED  BY <2>2, <3>1, AtPc DEF Tunnel
  <2>. QED  BY <2>1, <2>2 DEF Next, Outside
<1>3. target # NoTarget
  BY DEF Tunnel, RealTargets
<1>. QED  BY <1>1, <1>2, <1>3 DEF Spared
-----------------------------------------------------------------------------
\* The first two units of a stream.
LEMMA TakeTwo ==
  ASSUME NEW s \in Seq(Nat), Len(s) >= 2
  PROVE  Take(s, 2) = <<s[1], s[2]>>
<1> DEFINE t == SubSeq(s, 1, 2)
           u == <<s[1], s[2]>>
<1>1. 1 \in 1..Len(s) /\ 2 \in 1..Len(s)
  BY LenProperties
<1>2. s[1] \in Nat /\ s[2] \in Nat /\ Len(s) \in Nat
  BY <1>1, LenProperties, ElementOfSeq
<1>3. t \in Seq(Nat) /\ Len(t) = 2 /\ t[1] = s[1] /\ t[2] = s[2]
  <2>1. \A i \in 1..2 : s[i] \in Nat
    BY <1>2
  <2>2. /\ t \in Seq(Nat) /\ Len(t) = (IF 1 <= 2 THEN 2 - 1 + 1 ELSE 0)
        /\ \A i \in 1..(2 - 1 + 1) : t[i] = s[1 + i - 1]
    BY <2>1, SubSeqProperties
  <2>. QED  BY <2>2
<1>4. u \in Seq(Nat) /\ Len(u) = 2 /\ u[1] = s[1] /\ u[2] = s[2]
  BY <1>2
<1>. HIDE DEF t, u
<1>5. \A i \in 1..Len(t) : t[i] = u[i]
  <2>1. \A i \in 1..2 : i = 1 \/ i = 2
    OBVIOUS
  <2>. QED  BY <1>3, <1>4, <2>1
<1>6. t = u
  BY <1>3, <1>4, <1>5, SeqEqual
<1>. QED  BY <1>6 DEF Take, t, u

\* A start of a message that is as long is the message.
LEMMA BeginsWhole ==
  ASSUME NEW s \in Seq(Nat), NEW t \in Seq(Nat), Begins(s, t), Len(s) >= Len(t)
  PROVE  s = t
<1>1. Len(s) = Len(t) /\ \A i \in 1..Len(s) : s[i] = t[i]
  BY LenProperties DEF Begins
<1>. QED  BY <1>1, SeqEqual

\* Nothing is left of a stream that is read to its end.
LEMMA DropAll ==
  ASSUME NEW s \in Seq(Nat)
  PROVE  Len(s) \in 0..Len(s) /\ Drop(s, Len(s)) = <<>>
<1>1. Len(s) \in Nat
  BY LenProperties
<1>2. Len(s) \in 0..Len(s)
  BY <1>1
<1>3. Drop(s, Len(s)) \in Seq(Nat) /\ Len(Drop(s, Len(s))) = 0
  BY <1>1, <1>2, DropOf
<1>. QED  BY <1>2, <1>3, EmptySeq

\* A SOCKS client that is not heard keeps to the opening, or has an excuse.
LEMMA SocksDetects ==
  ASSUME TypeOK, NEW r, IsRound(r), r.need = <<>>, NEW T, r \in T, NEW protocols,
         Len(r.send) >= 1,
         \/ r.send[1] = 4 /\ protocols = {"SOCKS4"}
         \/ r.send[1] = 5 /\ protocols = {"SOCKS5"},
         Opening(r, T, protocols), TcpByTimeout, handle_client, pc \in {"detect", "redetect"}
  PROVE  (Opening(r, T, protocols) /\ TcpByTimeout)' \/ (Ends /\ Excused')
<1> DEFINE m == r.send
<1>1. m \in Seq(Nat) /\ Len(m) >= 1 /\ m[1] \in {4, 5}
  BY DEF IsRound
<1>2. ReadsAs(m, protocols)
  <2>1. ASSUME NEW s \in Seq(Nat), Begins(s, m)
        PROVE  detect_protocol(PeekBuf(s)) \in protocols \cup {"TCP"}
    <3>1. s # <<>> => Len(s) >= 1
      BY EmptySeq, LenProperties
    <3>2. s # <<>> => s[1] = m[1]
      BY <2>1, <3>1, LenProperties DEF Begins
    <3>. QED  BY <3>2, DetectsByte
  <2>. QED  BY <2>1 DEF ReadsAs
<1>3. Opening(r, T, protocols)' \/ (Ends /\ Excused')
  BY <1>1, <1>2, OpeningDetects
<1>4. TcpByTimeout' \/ Ends
  <2>1. toTarget = <<>> /\ Speaks(<<>>, r, T)
    BY DEF Opening, Greeted
  <2>2. CASE detect_client_protocol
    BY <2>2 DEF detect_client_protocol, AfterStream, TcpByTimeout
  <2>3. CASE redetect_protocol
    BY <1>1, <2>1, <2>3, SocksRedetected DEF TcpByTimeout
  <2>4. CASE peer_reset
    BY <2>4, ResetEnds
  <2>. QED  BY <2>2, <2>3, <2>4, AtPc
<1>5. Ends => TcpByTimeout'
  BY DEF Ends, TcpByTimeout
<1>. QED  BY <1>3, <1>4, <1>5
-----------------------------------------------------------------------------
\* Whatever has arrived of a stream, its parts are the stream's.
LEMMA BeginsSubSeq ==
  ASSUME NEW s \in Seq(Nat), NEW t \in Seq(Nat), Begins(s, t),
         NEW a \in Nat, a > 0, NEW b \in Nat, b <= Len(s)
  PROVE  SubSeq(s, a, b) = SubSeq(t, a, b)
<1> DEFINE u == SubSeq(s, a, b)
           v == SubSeq(t, a, b)
<1>1. Len(s) \in Nat /\ Len(t) \in Nat /\ Len(s) <= Len(t)
  BY LenProperties DEF Begins
<1>2. \A i \in a..b : i \in 1..Len(s) /\ i \in 1..Len(t)
  BY <1>1
<1>3. \A i \in a..b : s[i] \in Nat /\ t[i] \in Nat /\ s[i] = t[i]
  BY <1>2, ElementOfSeq DEF Begins
<1>4. /\ u \in Seq(Nat) /\ Len(u) = (IF a <= b THEN b - a + 1 ELSE 0)
      /\ \A i \in 1..(b - a + 1) : u[i] = s[a + i - 1]
  BY <1>3, SubSeqProperties
<1>5. /\ v \in Seq(Nat) /\ Len(v) = (IF a <= b THEN b - a + 1 ELSE 0)
      /\ \A i \in 1..(b - a + 1) : v[i] = t[a + i - 1]
  BY <1>3, SubSeqProperties
<1>. HIDE DEF u, v
<1>6. ASSUME NEW i \in 1..Len(u) PROVE u[i] = v[i]
  <2> DEFINE j == a + i - 1
  <2>1. i \in 1..(b - a + 1) /\ j \in a..b
    BY <1>4
  <2>2. u[i] = s[j] /\ v[i] = t[j]
    BY <1>4, <1>5, <2>1
  <2>. HIDE DEF j
  <2>. QED  BY <1>3, <2>1, <2>2
<1>7. Len(u) = Len(v)
  BY <1>4, <1>5
<1>8. u = v
  BY <1>4, <1>5, <1>6, <1>7, SeqEqual
<1>. QED  BY <1>8 DEF u, v

\* The text of a valid TCP client names the target between its colon and its end.
LEMMA TextNames ==
  ASSUME NEW text, NEW wants, TcpText(text, wants)
  PROVE  TextTarget(text) \in wants
<1>1. NonUtf8 \notin Units(text)
  BY DEF TcpText
<1>2. PICK k \in 1..Len(text) :
        /\ {i \in 1..Len(text) : text[i] = Colon} = {k}
        /\ ParsePort(Drop(text, k)) # NotAPort
        /\ Target(Take(text, k - 1), ParsePort(Drop(text, k))) \in wants
  BY DEF TcpText
<1>3. Least({k}, 0) = k
  <2>1. {k} # {} /\ \A i \in {k} : i = k
    OBVIOUS
  <2>2. (CHOOSE i \in {k} : \A j \in {k} : i <= j) = k
    BY <2>1
  <2>. QED  BY <2>1, <2>2 DEF Least
<1>4. parse_connect_target(text) = Target(Take(text, k - 1), ParsePort(Drop(text, k)))
  BY <1>2, <1>3 DEF parse_connect_target
<1>. QED  BY <1>1, <1>2, <1>4 DEF TextTarget

\* What a valid TCP client says: the length of its text, the text, which names a target
\* it wants and has no zero, and the payload.
TextLength(m) == 256 * m[1] + m[2]
TcpMessage(c, m) ==
  /\ m \in Seq(Nat) /\ Len(m) > 2 /\ m[1] < 256 /\ m[2] < 256
  /\ TextLength(m) \in 1..1024 /\ 2 + TextLength(m) <= Len(m)
  /\ \A i \in 3..(2 + TextLength(m)) : m[i] # 0
  /\ TextTarget(SubSeq(m, 3, 2 + TextLength(m))) \in c.wants
  /\ c.payload = Drop(m, 2 + TextLength(m))

\* Its length begins with a byte below 4, and is then detected as TCP; or it is 04 00,
\* and is taken for SOCKS4.
LEMMA TcpBytes ==
  ASSUME NEW c, NEW m, TcpMessage(c, m)
  PROVE  /\ Len(m) \in Nat /\ TextLength(m) \in Nat
         /\ m[1] \in Nat /\ m[2] \in Nat /\ m[1] <= 4 /\ (m[1] = 4 => m[2] = 0 /\ TextLength(m) = 1024)
<1>1. m \in Seq(Nat) /\ Len(m) \in Nat /\ Len(m) > 2
  BY LenProperties DEF TcpMessage
<1>2. 1 \in 1..Len(m) /\ 2 \in 1..Len(m)
  BY <1>1
<1>3. m[1] \in Nat /\ m[2] \in Nat
  BY <1>1, <1>2, ElementOfSeq
<1>4. TextLength(m) \in 1..1024
  BY DEF TcpMessage
<1>5. TextLength(m) = 256 * m[1] + m[2] /\ TextLength(m) <= 1024 /\ TextLength(m) \in Nat
  BY <1>4 DEF TextLength
<1>. QED  BY <1>1, <1>3, <1>5

\* Whatever has arrived of it is taken for that, or for TCP.
LEMMA TcpReadsAs ==
  ASSUME NEW c, NEW m, TcpMessage(c, m)
  PROVE  ReadsAs(m, TakenFor(m))
<1>1. TakenFor(m) \subseteq {"HTTP", "SOCKS4", "SOCKS5"}
  BY DEF TakenFor
<1>2. ASSUME NEW s \in Seq(Nat), Begins(s, m)
      PROVE  detect_protocol(PeekBuf(s)) \in TakenFor(m) \cup {"TCP"}
  <2>1. m[1] \in Nat /\ m[1] <= 4
    BY TcpBytes
  <2>2. s # <<>> => s[1] = m[1]
    <3>1. s # <<>> => Len(s) >= 1
      BY EmptySeq, LenProperties
    <3>. QED  BY <1>2, <3>1, LenProperties DEF Begins
  <2>3. CASE s = <<>> \/ m[1] < 4
    BY <2>2, <2>3, DetectsByte
  <2>4. CASE s # <<>> /\ m[1] = 4
    BY <2>2, <2>4, DetectsByte DEF TakenFor
  <2>. QED  BY <2>1, <2>3, <2>4
<1>. QED  BY <1>1, <1>2 DEF ReadsAs

\* The parser of the TCP protocol takes just the length and the text, or gives up on a
\* client that was not there with them.
LEMMA TcpParses ==
  ASSUME TypeOK, NEW c, NEW r, RealTargets(c), TcpMessage(c, r.send), r.need = <<>>,
         Greeted(<<>>), Speaks(<<>>, r, {r}), pc = "parse", protocol = "TCP",
         handle_client, parse_target
  PROVE  Tunnel(c, c.payload, Nothing, {})' \/ (Ends /\ Excused')
<1> DEFINE m == r.send
           l == TextLength(m)
<1>0. /\ m \in Seq(Nat) /\ 2 + l <= Len(m) /\ Drop(m, 2 + l) = c.payload
      /\ l \in 1..1024 /\ m[1] < 256 /\ m[2] < 256
      /\ TextTarget(SubSeq(m, 3, 2 + l)) \in c.wants
  BY DEF TcpMessage
<1>6. Len(m) \in Nat /\ l \in Nat /\ m[1] \in Nat /\ m[2] \in Nat /\ l = 256 * m[1] + m[2]
  BY TcpBytes DEF TextLength
<1>. HIDE DEF l, m
<1>1. /\ m \in Seq(Nat) /\ Len(m) \in Nat /\ Len(m) >= 2 + l
      /\ l \in Nat /\ l >= 1 /\ l # 0 /\ l <= MaxTargetLength
  <2>1. l \in 1..1024 /\ 2 + l <= Len(m) /\ m \in Seq(Nat)
    BY <1>0
  <2>2. l \in Nat /\ Len(m) \in Nat
    BY <1>6
  <2>. QED  BY <2>1, <2>2 DEF MaxTargetLength
<1>2. inbox \in Seq(Nat) /\ toTarget = <<>> /\ tls_stream = FALSE
  BY DEF TypeOK, Greeted
<1>3. Begins(inbox, m) /\ (inbox # <<>> => Sent(m, {}))
  <2>1. {r} \ {r} = {}
    OBVIOUS
  <2>. QED  BY <1>1, <1>2, <2>1, InboxSpeaks DEF m
<1>4. Len(inbox) \in Nat /\ Len(inbox) <= Len(m) /\ \A i \in 1..Len(inbox) : inbox[i] = m[i]
  BY <1>2, <1>3, LenProperties DEF Begins
<1>5. ASSUME Len(inbox) >= 2 PROVE TargetLength(inbox) = l
  <2>1. inbox[1] = m[1] /\ inbox[2] = m[2]
    <3>1. 1 \in 1..Len(inbox) /\ 2 \in 1..Len(inbox)
      BY <1>4, <1>5
    <3>. QED  BY <1>4, <3>1
  <2>2. ~IsText(inbox[1]) /\ ~IsText(inbox[2]) /\ U16(inbox[1], inbox[2]) = l
    <3>1. inbox[1] \in Nat /\ inbox[1] < 256 /\ inbox[2] \in Nat /\ inbox[2] < 256
      BY <1>0, <1>6, <2>1
    <3>2. l = 256 * inbox[1] + inbox[2]
      BY <1>6, <2>1
    <3>. QED  BY <3>1, <3>2 DEF IsText, U16
  <2>. QED  BY <2>2 DEF TargetLength
<1>7. UNCHANGED <<client, toTarget, tls_stream>>
  BY AtPc DEF parse_target, tunnel
<1>8. CASE Len(inbox) >= 2 + l
  <2> DEFINE t == TextTarget(SubSeq(inbox, 3, 2 + TargetLength(inbox)))
  <2>1. Len(inbox) >= 2 /\ TargetLength(inbox) = l
    <3>1. Len(inbox) >= 2
      BY <1>1, <1>4, <1>8
    <3>. QED  BY <1>5, <3>1
  <2>2. t \in c.wants
    <3>1. SubSeq(inbox, 3, 2 + l) = SubSeq(m, 3, 2 + l)
      <4> DEFINE e == 2 + l
      <4>1. e \in Nat /\ e <= Len(inbox)
        BY <1>1, <1>8
      <4>. HIDE DEF e
      <4>2. 3 \in Nat /\ 3 > 0
        OBVIOUS
      <4>3. SubSeq(inbox, 3, e) = SubSeq(m, 3, e)
        BY <1>1, <1>2, <1>3, <4>1, <4>2, BeginsSubSeq, Zenon
      <4>. QED  BY <4>3 DEF e
    <3>. QED  BY <1>0, <2>1, <3>1
  <2>3. t # NoTarget
    BY <2>2 DEF RealTargets
  <2>. HIDE DEF t
  <2>4. Dial(t) /\ inbox' = Drop(inbox, 2 + l)
    <3>1. /\ TargetLength(inbox) # 0 /\ TargetLength(inbox) <= MaxTargetLength
          /\ Len(inbox) >= 2 + TargetLength(inbox) /\ ~(Len(inbox) < 2 + TargetLength(inbox))
      BY <1>1, <1>4, <1>8, <2>1
    <3>2. Dial(t) /\ inbox' = Drop(inbox, 2 + TargetLength(inbox))
      BY <2>1, <2>3, <3>1 DEF parse_target, t
    <3>. QED  BY <2>1, <3>2
  <2>5. inbox # <<>> /\ 2 + l \in 0..Len(inbox)
    <3>1. 2 + l \in 0..Len(inbox)
      BY <1>1, <1>4, <1>8
    <3>2. Len(inbox) # 0
      BY <1>1, <1>4, <1>8
    <3>. QED  BY <3>1, <3>2
  <2>6. Sent(c.payload, {})'
    <3>1. Sent(m, {}) /\ Drop(m, 2 + l) = c.payload
      BY <1>0, <1>3, <2>5
    <3>2. Sent(Drop(m, 2 + l), {})'
      BY <1>1, <1>2, <1>7, <2>4, <2>5, <3>1, ReadSent
    <3>. QED  BY <3>1, <3>2
  <2>7. Speaks(c.payload, Nothing, {})'
    BY <2>6 DEF Speaks
  <2>8. Never({} \ {Nothing})'
    BY DEF Never
  <2>9. target' \in c.wants /\ pc' = "connect" /\ tls_stream' = FALSE
    BY <1>2, <1>7, <2>2, <2>4 DEF Dial
  <2>. QED  BY <2>7, <2>8, <2>9 DEF Tunnel
<1>9. CASE ~(Len(inbox) >= 2 + l)
  <2>1. Reject /\ GaveUp
    <3>1. CASE Len(inbox) >= 2
      <4>1. TargetLength(inbox) = l /\ ~(Len(inbox) >= 2 + TargetLength(inbox))
        BY <1>5, <1>9, <3>1
      <4>2. TargetLength(inbox) # 0 /\ TargetLength(inbox) <= MaxTargetLength
        BY <1>1, <4>1
      <4>. QED  BY <3>1, <4>1, <4>2 DEF parse_target
    <3>2. CASE ~(Len(inbox) >= 2)
      BY <3>2 DEF parse_target
    <3>. QED  BY <3>1, <3>2
  <2>2. ~Gone => ClientCanSend
    <3>1. Len(inbox) < Len(m) /\ r \in {r}
      BY <1>1, <1>4, <1>9
    <3>. QED  BY <1>1, <1>2, <3>1, StillSpeaks DEF m
  <2>3. Ends
    BY <1>7, <2>1 DEF Reject, send_error_response, ReturnAfter, Ends
  <2>4. Excused'
    <3>1. eof' = eof /\ rst' = rst
      BY <1>7 DEF client
    <3>2. ~Gone => slow'
      BY <2>1, <2>2 DEF GaveUp
    <3>. QED  BY <3>1, <3>2 DEF Excused, Lost, Gone
  <2>. QED  BY <2>3, <2>4
<1>. QED  BY <1>8, <1>9

\* The longest text never gets past the SOCKS4 authenticator or parser: its second byte
\* is no CONNECT, and where a user id would end comes after all of the text.
LEMMA LongestTextEnds ==
  ASSUME TypeOK, NEW c, NEW m, TcpMessage(c, m), m[1] = 4, Begins(inbox, m),
         handle_client, pc \in {"auth", "parse"}, protocol = "SOCKS4"
  PROVE  Ends
<1>1. inbox \in Seq(Nat) /\ Len(inbox) \in Nat
  BY LenProperties DEF TypeOK
<1>2. /\ m \in Seq(Nat) /\ Len(m) \in Nat /\ TextLength(m) = 1024 /\ m[2] = 0
      /\ \A i \in Nat : 3 <= i /\ i <= 1026 => m[i] # 0
  <2>1. TextLength(m) = 1024 /\ m[2] = 0 /\ Len(m) \in Nat
    BY TcpBytes
  <2>2. m \in Seq(Nat) /\ \A i \in 3..(2 + TextLength(m)) : m[i] # 0
    BY DEF TcpMessage
  <2>3. 2 + TextLength(m) = 1026
    BY <2>1
  <2>4. \A i \in Nat : 3 <= i /\ i <= 1026 => m[i] # 0
    <3> DEFINE u == 2 + TextLength(m)
    <3>1. u \in Nat /\ u = 1026
      BY <2>3
    <3>2. \A i \in 3..u : m[i] # 0
      BY <2>2
    <3>3. u \in Nat
      BY <3>1
    <3> HIDE DEF u
    <3>4. \A i \in Nat : 3 <= i /\ i <= u => m[i] # 0
      BY <3>2, <3>3
    <3>. QED  BY <3>1, <3>4
  <2>. QED  BY <2>1, <2>2, <2>4
<1>3. \A i \in 1..Len(inbox) : inbox[i] = m[i]
  BY DEF Begins
<1>4. Socks4End(inbox) # 0 => Socks4End(inbox) \in Nat /\ Socks4End(inbox) > 1026
                              /\ Socks4End(inbox) <= Len(inbox)
  <2> SUFFICES ASSUME Socks4End(inbox) # 0
               PROVE  Socks4End(inbox) \in Nat /\ Socks4End(inbox) > 1026
                      /\ Socks4End(inbox) <= Len(inbox)
    OBVIOUS
  <2> DEFINE e == Socks4End(inbox)
  <2>1. e \in 9..Len(inbox) /\ inbox[e] = 0
    BY <1>1, Socks4EndInside
  <2>. HIDE DEF e
  <2>2. e \in 1..Len(inbox) /\ e \in Nat /\ e <= Len(inbox)
    BY <1>1, <2>1
  <2>3. m[e] = 0
    BY <1>3, <2>1, <2>2
  <2>4. 3 <= e
    BY <1>1, <2>1
  <2>5. e > 1026
    BY <1>2, <2>2, <2>3, <2>4
  <2>. QED  BY <2>2, <2>5 DEF e
<1>5. CASE peer_reset
  BY <1>5, ResetEnds
<1>6. CASE authenticate_socks4
  <2>1. Socks4End(inbox) # 0 => ~validate_socks4_user_id(SubSeq(inbox, 9, Socks4End(inbox) - 1))
    <3> SUFFICES ASSUME Socks4End(inbox) # 0, SubSeq(inbox, 9, Socks4End(inbox) - 1) = <<GoodUser>>
                 PROVE  FALSE
      BY DEF validate_socks4_user_id
    <3> DEFINE e == Socks4End(inbox) - 1
               u == SubSeq(inbox, 9, e)
    <3>1. e \in Nat /\ e >= 1026 /\ e <= Len(inbox)
      BY <1>1, <1>4
    <3>2. u = <<GoodUser>>
      OBVIOUS
    <3>. HIDE DEF e
    <3>3. \A i \in 9..e : inbox[i] \in Nat
      <4>1. \A i \in 9..e : i \in 1..Len(inbox)
        BY <1>1, <3>1
      <4>. QED  BY <1>1, <4>1, ElementOfSeq
    <3>4. Len(u) = (IF 9 <= e THEN e - 9 + 1 ELSE 0)
      BY <3>1, <3>3, SubSeqProperties
    <3>5. Len(u) > 1
      BY <3>1, <3>4
    <3>. HIDE DEF u
    <3>6. Len(u) = 1
      BY <3>2
    <3>. QED  BY <3>5, <3>6
  <2>2. pc' = "done"
    BY <1>6, <2>1 DEF authenticate_socks4, Return, ReturnAfter
  <2>. QED  BY <1>6, <2>2 DEF authenticate_socks4, Ends, tunnel
<1>7. CASE parse_socks4_target
  <2>1. Len(inbox) >= 2 => Take(inbox, 2) # <<4, 1>>
    <3> SUFFICES ASSUME Len(inbox) >= 2, Take(inbox, 2) = <<4, 1>> PROVE FALSE
      OBVIOUS
    <3>1. inbox[2] = 0
      <4>1. 2 \in 1..Len(inbox)
        BY <1>1
      <4>2. m[2] = 0
        BY <1>2
      <4>. QED  BY <1>3, <4>1, <4>2
    <3>2. Take(inbox, 2) = <<inbox[1], inbox[2]>>
      BY <1>1, TakeTwo
    <3>3. <<inbox[1], inbox[2]>> = <<4, 1>>
      BY <3>2
    <3>4. inbox[2] = 1
      BY <3>3
    <3>. QED  BY <3>1, <3>4
  <2>2. Socks4End(inbox) # 0 => Len(inbox) >= 2
    BY <1>1, <1>4
  <2>3. Reject
    BY <1>7, <2>1, <2>2 DEF parse_socks4_target
  <2>. QED  BY <1>7, <2>3 DEF parse_socks4_target, Reject, send_error_response, ReturnAfter,
                              Ends, tunnel
<1>. QED  BY <1>5, <1>6, <1>7, AtPc

\* Whoever is excused stays so.
LEMMA StepExcused == [Next]_vars => (Excused => Excused')
<1>1. Outside => (Excused => Excused')
  BY OutsideFrame
<1>. QED  BY <1>1, TaskExcused DEF Next, Outside

\* The invariant of a TCP client is inductive.
LEMMA TcpStep ==
  ASSUME TypeOK, NEW c, NEW r, c.rounds = {r}, IsRound(r), c.payload \in Seq(Nat),
         RealTargets(c), TcpMessage(c, r.send), r.need = <<>>, TcpInv(c, r), [Next]_vars
  PROVE  TcpInv(c, r)'
<1> DEFINE m == r.send
           protocols == TakenFor(m)
           S1 == Opening(r, {r}, protocols) /\ (m[1] = 4 => TcpByTimeout)
           S2 == Tunnel(c, c.payload, Nothing, {}) /\ (m[1] = 4 => Excused)
           S3 == /\ Closed(c, c.payload)
                 /\ IF m[1] = 4 THEN Excused \/ target = NoTarget ELSE Spared
<1>1. /\ m \in Seq(Nat) /\ TcpMessage(c, m) /\ Len(m) >= 1 /\ m[1] \in Nat
      /\ r.send[1] = 4 => protocols = {"SOCKS4"}
      /\ ReadsAs(m, protocols)
  <2>1. m \in Seq(Nat) /\ TcpMessage(c, m) /\ Len(m) > 2
    BY DEF TcpMessage
  <2>2. Len(m) >= 1 /\ m[1] \in Nat
    BY <2>1, TcpBytes
  <2>. QED  BY <2>1, <2>2, TcpReadsAs DEF TakenFor
<1>2. IsRound(Nothing) /\ c.payload \o Nothing.send = c.payload
  BY CatEmpty DEF Nothing, Round, IsRound
<1>3. (TcpInv(c, r) <=> S1 \/ S2 \/ S3) /\ (TcpInv(c, r)' <=> S1' \/ S2' \/ S3')
  BY DEF TcpInv
<1>4. ASSUME Greeted(<<>>), Ends, m[1] = 4 \/ Excused' PROVE S3'
  <2>1. Closed(c, c.payload)'
    BY <1>4, GreetedEnds
  <2>2. target' = NoTarget
    BY <1>4 DEF Greeted, Ends
  <2>. QED  BY <1>4, <2>1, <2>2 DEF Spared
<1>5. CASE S1
  <2>1. Greeted(<<>>) /\ Speaks(<<>>, r, {r}) /\ pc \in {"detect", "auth", "redetect", "parse"}
        /\ (pc = "auth" => protocol \in protocols)
        /\ (pc = "parse" => protocol \in protocols \cup {"TCP"})
    BY <1>5 DEF Opening
  <2>2. toTarget = <<>> /\ inbox \in Seq(Nat)
    BY <2>1 DEF Greeted, TypeOK
  <2>3. CASE Outside
    <3>1. \A q \in {r} \ {r} : q.need # <<>>
      OBVIOUS
    <3>2. Opening(r, {r}, protocols)'
      BY <1>5, <2>3, <3>1, OpeningOutside
    <3>3. m[1] = 4 => TcpByTimeout'
      BY <1>5, <2>3, TimeoutOutside
    <3>4. S1'
      BY <3>2, <3>3
    <3>. QED  BY <1>3, <3>4
  <2>4. CASE handle_client /\ pc \in {"detect", "redetect"}
    <3>1. CASE m[1] = 4
      <4> DEFINE T == {r}
      <4>1. r \in T /\ Opening(r, T, protocols) /\ TcpByTimeout /\ protocols = {"SOCKS4"}
        BY <1>1, <1>5, <3>1
      <4>. HIDE DEF T, protocols
      <4>2. (Opening(r, T, protocols) /\ TcpByTimeout)' \/ (Ends /\ Excused')
        BY <1>1, <2>4, <3>1, <4>1, SocksDetects
      <4>. QED  BY <1>3, <1>4, <2>1, <4>2 DEF T
    <3>2. CASE m[1] # 4
      <4>1. Opening(r, {r}, protocols)' \/ (Ends /\ Excused')
        <5>. HIDE DEF protocols
        <5>. QED  BY <1>1, <1>5, <2>4, OpeningDetects
      <4>. QED  BY <1>3, <1>4, <2>1, <3>2, <4>1
    <3>. QED  BY <3>1, <3>2
  <2>5. CASE handle_client /\ pc \in {"auth", "parse"} /\ protocol = "SOCKS4"
    <3>1. m[1] = 4
      BY <2>1, <2>5 DEF TakenFor
    <3>2. Begins(inbox, m)
      BY <1>1, <2>1, <2>2, InboxSpeaks
    <3>3. Ends
      BY <1>1, <2>5, <3>1, <3>2, LongestTextEnds
    <3>. QED  BY <1>3, <1>4, <2>1, <3>1, <3>3
  <2>6. CASE handle_client /\ pc = "parse" /\ protocol = "TCP"
    <3>1. Tunnel(c, c.payload, Nothing, {})' \/ (Ends /\ Excused')
      BY <2>1, <2>6, TcpParses, AtPc, ResetEnds
    <3>2. m[1] = 4 => Excused'
      BY <1>5, <2>6, StepExcused DEF TcpByTimeout
    <3>. QED  BY <1>3, <1>4, <2>1, <3>1, <3>2
  <2>7. protocols \subseteq {"SOCKS4"}
    BY DEF TakenFor
  <2>. QED  BY <2>1, <2>3, <2>4, <2>5, <2>6, <2>7 DEF Next, Outside
<1>6. CASE S2
  <2> DEFINE none == {}
             h    == c.payload
             n    == Nothing
  <2>1. (\A q \in none : IsRound(q)) /\ Tunnel(c, h, n, none) /\ IsRound(n)
        /\ h \in Seq(Nat) /\ h \o n.send = c.payload
    BY <1>2, <1>6
  <2>. HIDE DEF none, h, n
  <2>2. Tunnel(c, h, n, none)' \/ (Closed(c, c.payload) /\ Spared)'
    BY <2>1, TunnelSpared
  <2>3. m[1] = 4 => Excused'
    BY <1>6, StepExcused
  <2>4. Tunnel(c, c.payload, Nothing, {})' \/ (Closed(c, c.payload) /\ Spared)'
    BY <2>2 DEF none, h, n
  <2>. QED  BY <1>3, <2>3, <2>4
<1>7. CASE S3
  <2>1. Closed(c, c.payload)' /\ (Spared => Spared') /\ target' = target
    BY <1>7, ClosedStep
  <2>2. Excused => Excused'
    BY StepExcused
  <2>. QED  BY <1>3, <1>7, <2>1, <2>2
<1>. QED  BY <1>3, <1>5, <1>6, <1>7
-----------------------------------------------------------------------------
\* A whole SOCKS4 request: its only zero after the address is its last unit.
Socks4Message(m) ==
  /\ m \in Seq(Nat) /\ m[1] = 4 /\ m[2] = 1 /\ Len(m) >= 9 /\ m[Len(m)] = 0
  /\ \A n \in 9..Len(m) : m[n] = 0 => n = Len(m)

\* Whoever finds its end has it to the last unit.
LEMMA Socks4Complete ==
  ASSUME NEW m, Socks4Message(m), NEW s \in Seq(Nat), Begins(s, m), Socks4End(s) # 0
  PROVE  s = m /\ Socks4End(s) = Len(s)
<1>1. Socks4End(s) \in 9..Len(s) /\ s[Socks4End(s)] = 0
  BY Socks4EndInside
<1>2. Len(s) \in Nat /\ Len(m) \in Nat /\ m \in Seq(Nat)
  BY LenProperties DEF Socks4Message
<1> DEFINE e == Socks4End(s)
<1>. HIDE DEF e
<1>3. e \in 9..Len(s) /\ s[e] = 0
  BY <1>1 DEF e
<1>4. m[e] = 0 /\ e \in 9..Len(m)
  BY <1>2, <1>3 DEF Begins
<1>5. e = Len(m)
  BY <1>4 DEF Socks4Message
<1>6. Len(s) = Len(m)
  BY <1>2, <1>3, <1>5 DEF Begins
<1>7. s = m
  BY <1>2, <1>6, BeginsWhole
<1>. QED  BY <1>5, <1>6, <1>7 DEF e

\* Reading up to that end leaves nothing of it.
LEMMA Socks4Read ==
  ASSUME TypeOK, NEW m, Socks4Message(m), NEW T, toTarget = <<>>, Begins(inbox, m),
         inbox # <<>> => Sent(m, T), Socks4End(inbox) # 0,
         inbox' = Drop(inbox, Socks4End(inbox)), UNCHANGED <<client, toTarget>>
  PROVE  Sent(<<>>, T)'
<1>1. inbox \in Seq(Nat) /\ m \in Seq(Nat) /\ Len(m) >= 9
  BY DEF TypeOK, Socks4Message
<1>2. inbox = m /\ Socks4End(inbox) = Len(m)
  BY <1>1, Socks4Complete
<1>3. inbox # <<>>
  BY <1>1, <1>2
<1>4. Len(m) \in 0..Len(inbox) /\ Drop(m, Len(m)) = <<>> /\ inbox' = Drop(inbox, Len(m))
  BY <1>1, <1>2, DropAll
<1>5. Sent(Drop(m, Len(m)), T)'
  BY <1>1, <1>3, <1>4, ReadSent
<1>. QED  BY <1>4, <1>5

\* What has arrived of the request has its first bytes.
LEMMA Socks4Starts ==
  ASSUME NEW m, Socks4Message(m), NEW s \in Seq(Nat), Begins(s, m)
  PROVE  /\ s # <<>> => s[1] = 4 /\ (Len(s) >= 2 => s[2] = 1)
         /\ Len(s) >= 2 => Take(s, 2) = <<4, 1>>
<1>1. Len(s) \in Nat
  BY LenProperties
<1>2. s # <<>> => Len(s) >= 1
  BY <1>1, EmptySeq
<1>3. Len(s) >= 1 => s[1] = 4
  BY <1>1 DEF Begins, Socks4Message
<1>4. Len(s) >= 2 => s[2] = 1
  BY <1>1 DEF Begins, Socks4Message
<1>5. Len(s) >= 2 => Len(s) >= 1
  BY <1>1
<1>. QED  BY <1>2, <1>3, <1>4, <1>5, TakeTwo

\* The SOCKS4 authenticator leaves nothing for the parser; the parser names the
\* request's target and leaves nothing for the tunnel.
LEMMA Socks4Parses ==
  ASSUME TypeOK, NEW c, NEW r, NEW p, IsRound(r), Socks4Message(r.send),
         Target(SubSeq(r.send, 5, 8), 256 * r.send[3] + r.send[4]) \in c.wants,
         Opening(r, c.rounds, {"SOCKS4"}), c.rounds \ {r} = {p}, TcpByTimeout,
         handle_client, pc \in {"auth", "parse"}
  PROVE  \/ /\ Greeted(<<>>)' /\ Sent(<<>>, {p})' /\ state'.require_creds
            /\ pc' = "redetect"
         \/ Tunnel(c, <<>>, p, {p})'
         \/ Ends /\ Excused'
<1> DEFINE m == r.send
<1>1. /\ m \in Seq(Nat) /\ Socks4Message(m) /\ Len(m) >= 9 /\ inbox \in Seq(Nat)
      /\ Target(SubSeq(m, 5, 8), 256 * m[3] + m[4]) \in c.wants
  BY DEF TypeOK, IsRound, Socks4Message
<1>2. Greeted(<<>>) /\ Speaks(<<>>, r, c.rounds) /\ toTarget = <<>> /\ tls_stream = FALSE
  BY DEF Opening, Greeted
<1>3. Begins(inbox, m) /\ (inbox # <<>> => Sent(m, {p}))
  BY <1>1, <1>2, InboxSpeaks
<1>. HIDE DEF m
<1>4. UNCHANGED <<state, client>> /\ (Excused => Excused')
  BY AtPc, TaskExcused
<1>5. ASSUME Socks4End(inbox) # 0, inbox' = Drop(inbox, Socks4End(inbox)), toTarget' = toTarget
      PROVE  Sent(<<>>, {p})'
  BY <1>1, <1>2, <1>3, <1>4, <1>5, Socks4Read
<1>6. CASE peer_reset
  BY <1>6, ResetEnds
<1>7. CASE pc = "auth" /\ authenticate_socks4
  <2>1. state.require_creds /\ state'.require_creds
    BY <1>4, <1>7 DEF Opening
  <2>2. Excused'
    BY <2>1 DEF Excused
  <2>3. UNCHANGED <<tls_stream, target, toTarget>>
    BY <1>7 DEF authenticate_socks4, tunnel
  <2>4. \/ /\ Socks4End(inbox) # 0 /\ inbox' = Drop(inbox, Socks4End(inbox))
           /\ pc' = "redetect" /\ replies' = replies
        \/ pc' = "done"
    BY <1>7 DEF authenticate_socks4, Return, ReturnAfter
  <2>5. CASE pc' = "done"
    BY <2>2, <2>3, <2>5 DEF Ends
  <2>6. CASE /\ Socks4End(inbox) # 0 /\ inbox' = Drop(inbox, Socks4End(inbox))
             /\ pc' = "redetect" /\ replies' = replies
    <3>1. Sent(<<>>, {p})'
      BY <1>5, <2>3, <2>6
    <3>2. Greeted(<<>>)'
      BY <1>2, <2>3, <2>6 DEF Greeted
    <3>. QED  BY <2>1, <2>6, <3>1, <3>2
  <2>. QED  BY <2>4, <2>5, <2>6
<1>8. CASE pc = "parse" /\ protocol = "SOCKS4" /\ parse_socks4_target
  <2>1. UNCHANGED <<tls_stream, toTarget>>
    BY <1>8 DEF parse_socks4_target, tunnel
  <2>2. ~(Len(inbox) >= 8 /\ Take(inbox, 2) # <<4, 1>>)
    <3>1. Len(inbox) >= 8 => Len(inbox) >= 2
      BY <1>1, LenProperties
    <3>. QED  BY <1>1, <1>3, <3>1, Socks4Starts
  <2>3. \/ /\ Socks4End(inbox) # 0 /\ inbox' = Drop(inbox, Socks4End(inbox))
           /\ Dial(Target(SubSeq(inbox, 5, 8), U16(inbox[3], inbox[4])))
        \/ eof /\ Reject
    BY <1>8, <2>2 DEF parse_socks4_target
  <2>4. CASE eof /\ Reject
    <3>1. Ends
      BY <2>1, <2>4 DEF Ends, Reject, send_error_response, ReturnAfter
    <3>. QED  BY <1>4, <2>4, <3>1 DEF Excused, Lost
  <2>5. CASE /\ Socks4End(inbox) # 0 /\ inbox' = Drop(inbox, Socks4End(inbox))
             /\ Dial(Target(SubSeq(inbox, 5, 8), U16(inbox[3], inbox[4])))
    <3>1. inbox = m
      BY <1>1, <1>3, <2>5, Socks4Complete
    <3>2. target' \in c.wants /\ pc' = "connect"
      BY <1>1, <2>5, <3>1 DEF Dial, U16
    <3>3. Speaks(<<>>, p, {p})'
      BY <1>5, <2>1, <2>5 DEF Speaks
    <3>4. Never({p} \ {p})'
      BY DEF Never
    <3>5. Tunnel(c, <<>>, p, {p})'
      BY <1>2, <2>1, <3>2, <3>3, <3>4 DEF Tunnel
    <3>. QED  BY <3>5
  <2>. QED  BY <2>3, <2>4, <2>5
<1>9. CASE pc = "parse" /\ protocol = "TCP"
  <2>1. inbox # <<>> => inbox[1] = 4 /\ (Len(inbox) >= 2 => inbox[2] = 1)
    BY <1>1, <1>3, Socks4Starts
  <2>2. Ends
    <3>1. inbox # <<>> => inbox[1] > 4 \/ (inbox[1] = 4 /\ (Len(inbox) >= 2 => inbox[2] > 0))
      BY <2>1
    <3>. QED  BY <1>9, <3>1, MisreadEnds
  <2>. QED  BY <1>4, <1>9, <2>2 DEF TcpByTimeout
<1>. QED  BY <1>6, <1>7, <1>8, <1>9, AtPc DEF Opening

\* The invariant of a SOCKS4 client is inductive.
LEMMA Socks4Step ==
  ASSUME TypeOK, NEW c, NEW r, NEW p, c.rounds = {r, p}, IsRound(r), IsRound(p),
         r.need = <<>>, p.need # <<>>, p.send = c.payload, RealTargets(c),
         Socks4Message(r.send),
         Target(SubSeq(r.send, 5, 8), 256 * r.send[3] + r.send[4]) \in c.wants,
         Socks4Inv(c, r, p), [Next]_vars
  PROVE  Socks4Inv(c, r, p)'
<1>1. /\ r.send \in Seq(Nat) /\ c.payload \in Seq(Nat) /\ <<>> \in Seq(Nat)
      /\ Len(r.send) >= 1 /\ r.send[1] = 4
  BY LenProperties DEF IsRound, Socks4Message
<1>2. c.rounds \ {r} = {p} /\ r \in c.rounds /\ p # r
  OBVIOUS
<1>3. \A q \in c.rounds : IsRound(q)
  OBVIOUS
<1> DEFINE S1 == Opening(r, c.rounds, {"SOCKS4"}) /\ TcpByTimeout
           S2 == /\ Greeted(<<>>) /\ Sent(<<>>, {p}) /\ state.require_creds
                 /\ pc \in {"redetect", "parse"} /\ (pc = "parse" => protocol = "TCP")
           S3 == Tunnel(c, <<>>, p, {p})
           S4 == Closed(c, c.payload) /\ Spared
<1>4. /\ Socks4Inv(c, r, p) <=> S1 \/ S2 \/ S3 \/ S4
      /\ Socks4Inv(c, r, p)' <=> S1' \/ S2' \/ S3' \/ S4'
  BY DEF Socks4Inv
<1>5. ASSUME NEW R, Greeted(R), Ends, Excused' PROVE S4'
  BY <1>1, <1>5, EndsSpared
<1>6. CASE S1
  <2>1. Greeted(<<>>) /\ pc \in {"detect", "auth", "redetect", "parse"}
    BY <1>6 DEF Opening
  <2>2. CASE Outside
    <3>1. \A q \in c.rounds \ {r} : q.need # <<>>
      BY <1>2
    <3>2. S1'
      BY <1>3, <1>6, <2>2, <3>1, OpeningOutside, TimeoutOutside
    <3>. QED  BY <1>4, <3>2
  <2>3. CASE handle_client /\ pc \in {"detect", "redetect"}
    <3>1. S1' \/ (Ends /\ Excused')
      BY <1>1, <1>2, <1>6, <2>3, SocksDetects
    <3>. QED  BY <1>4, <1>5, <2>1, <3>1
  <2>4. CASE handle_client /\ pc \in {"auth", "parse"}
    <3>1. \/ /\ Greeted(<<>>)' /\ Sent(<<>>, {p})' /\ state'.require_creds
             /\ pc' = "redetect"
          \/ S3'
          \/ Ends /\ Excused'
      BY <1>2, <1>6, <2>4, Socks4Parses
    <3>. QED  BY <1>4, <1>5, <2>1, <3>1
  <2>. QED  BY <2>1, <2>2, <2>3, <2>4 DEF Next, Outside
<1>7. CASE S2
  <2>1. toTarget = <<>> /\ replies = <<>> /\ inbox \in Seq(Nat) /\ Excused
    BY <1>7 DEF Greeted, TypeOK, Excused
  <2>2. CASE Outside
    <3>1. Waits({p})
      BY <1>2, <2>1, FirstWaits
    <3>2. Sent(<<>>, {p})'
      <4>1. \A q \in {p} : q.send \in Seq(Nat)
        BY DEF IsRound
      <4>. QED  BY <1>1, <1>7, <2>2, <3>1, <4>1, OutsideSilent
    <3>3. UNCHANGED <<state, replies, pc, protocol, tls_stream, target, toTarget>>
      BY <2>2, OutsideFrame
    <3>4. S2'
      BY <1>7, <3>2, <3>3 DEF Greeted
    <3>. QED  BY <1>4, <3>4
  <2>3. CASE handle_client
    <3>1. inbox = <<>>
      <4>1. Begins(inbox, <<>>)
        BY <1>1, <1>7, <2>1, InboxSent
      <4>. QED  BY <2>1, <4>1, BeginsEmpty
    <3>2. Excused' /\ UNCHANGED <<state, client>>
      BY <2>1, <2>3, TaskExcused, AtPc
    <3>3. CASE peer_reset
      BY <1>4, <1>5, <1>7, <2>3, <3>3, ResetEnds
    <3>4. CASE redetect_protocol
      <4>1. /\ protocol' = "TCP" /\ pc' = "parse"
            /\ UNCHANGED <<inbox, replies, tls_stream, target, toTarget>>
        BY <1>7, <2>1, <3>1, <3>4, DetectsByte DEF redetect_protocol, Greeted, tunnel
      <4>2. Sent(<<>>, {p})'
        BY <1>7, <3>2, <4>1, UnreadSent
      <4>3. Greeted(<<>>)' /\ state' = state
        BY <1>7, <3>2, <4>1 DEF Greeted
      <4>4. S2'
        BY <1>7, <4>1, <4>2, <4>3
      <4>. QED  BY <1>4, <4>4
    <3>5. CASE pc = "parse"
      <4>1. Ends
        BY <1>7, <2>3, <3>1, <3>5, MisreadEnds
      <4>. QED  BY <1>4, <1>5, <1>7, <3>2, <4>1
    <3>. QED  BY <1>7, <2>3, <3>3, <3>4, <3>5, AtPc
  <2>. QED  BY <2>2, <2>3 DEF Next, Outside
<1>8. CASE S3
  <2>1. <<>> \o p.send = c.payload /\ \A q \in {p} : IsRound(q)
    BY <1>1, CatEmpty
  <2>2. S3' \/ S4'
    BY <1>1, <1>8, <2>1, TunnelSpared
  <2>. QED  BY <1>4, <2>2
<1>9. CASE S4
  BY <1>4, <1>9, ClosedStep
<1>. QED  BY <1>4, <1>6, <1>7, <1>8, <1>9
-----------------------------------------------------------------------------
\* A request that starts with a method and has a line of its own.
HttpMessage(m) ==
  m \in Seq(Nat) /\ PeekBuf(m) \in HttpPrefixes /\ LineLength(m) <= Len(m)

\* The line of a stream ends at its first unit that ends one.
LEMMA LineOf ==
  ASSUME NEW s \in Seq(Nat)
  PROVE  /\ LineLength(s) \in Nat /\ LineLength(s) >= 1
         /\ LineLength(s) <= Len(s) => IsLine(s[LineLength(s)])
         /\ \A i \in 1..Len(s) : IsLine(s[i]) => LineLength(s) <= i
<1> DEFINE I == {i \in 1..Len(s) : IsLine(s[i])}
<1>0. Len(s) \in Nat
  BY LenProperties
<1>1. CASE I = {}
  <2>1. LineLength(s) = Len(s) + 1
    BY <1>1 DEF LineLength, Least
  <2>. QED  BY <1>0, <1>1, <2>1
<1>2. CASE I # {}
  <2>1. I \subseteq Nat
    BY <1>0
  <2>2. PICK n \in I : \A m \in I : ~(<<m, n>> \in OpToRel(<, Nat))
    <3>. HIDE DEF I
    <3>. QED  BY <1>2, <2>1, WFMin, NatLessThanWellFounded
  <2>3. \A m \in I : n <= m
    <3>. TAKE m \in I
    <3>1. m \in Nat /\ n \in Nat
      BY <2>1
    <3>2. ~(m < n)
      BY <2>2, <3>1 DEF OpToRel
    <3>. QED  BY <3>1, <3>2
  <2> DEFINE l == CHOOSE i \in I : \A j \in I : i <= j
  <2>4. LineLength(s) = l
    BY <1>2 DEF LineLength, Least
  <2>5. l \in I /\ \A j \in I : l <= j
    <3>. HIDE DEF I
    <3>. QED  BY <2>3
  <2>. HIDE DEF l
  <2>. QED  BY <1>0, <2>4, <2>5
<1>. QED  BY <1>1, <1>2

\* A whole request has its line inside it.
LEMMA HttpLine ==
  ASSUME NEW m, HttpMessage(m)
  PROVE  /\ m \in Seq(Nat) /\ Len(m) \in Nat /\ Len(m) >= 1
         /\ LineLength(m) \in Nat /\ LineLength(m) \in 1..Len(m) /\ IsLine(m[LineLength(m)])
<1>1. m \in Seq(Nat) /\ Len(m) \in Nat /\ LineLength(m) <= Len(m)
  BY LenProperties DEF HttpMessage
<1>2. LineLength(m) \in Nat /\ LineLength(m) >= 1 /\ IsLine(m[LineLength(m)])
  BY <1>1, LineOf
<1>. QED  BY <1>1, <1>2

\* The first line that has arrived of a request is the request line.
LEMMA LineArrived ==
  ASSUME NEW m, HttpMessage(m), NEW s \in Seq(Nat), Begins(s, m), LineLength(s) <= Len(s)
  PROVE  LineLength(s) = LineLength(m)
<1> DEFINE a == LineLength(s)
           b == LineLength(m)
<1>1. /\ m \in Seq(Nat) /\ Len(m) \in Nat /\ Len(s) \in Nat /\ Len(s) <= Len(m)
      /\ \A i \in 1..Len(s) : s[i] = m[i]
  BY HttpLine, LenProperties DEF Begins
<1>2. /\ a \in Nat /\ a >= 1 /\ a <= Len(s) /\ IsLine(s[a])
      /\ \A i \in 1..Len(s) : IsLine(s[i]) => a <= i
  BY LineOf
<1>3. b \in Nat /\ b >= 1 /\ IsLine(m[b]) /\ \A i \in 1..Len(m) : IsLine(m[i]) => b <= i
  BY <1>1, HttpLine, LineOf
<1>. HIDE DEF a, b
<1>4. b <= a
  <2>1. a \in 1..Len(s) /\ a \in 1..Len(m)
    BY <1>1, <1>2
  <2>2. IsLine(m[a])
    BY <1>1, <1>2, <2>1
  <2>. QED  BY <1>3, <2>1, <2>2
<1>5. a <= b
  <2>1. b \in 1..Len(s)
    BY <1>1, <1>2, <1>3, <1>4
  <2>2. IsLine(s[b])
    BY <1>1, <1>3, <2>1
  <2>. QED  BY <1>2, <2>1, <2>2
<1>6. a = b
  BY <1>2, <1>3, <1>4, <1>5
<1>. QED  BY <1>6 DEF a, b

\* The HTTP parser names the target of the request line, and takes with it what else
\* has arrived; or the client has hung up, and what there is of its line is dialled.
LEMMA HttpParses ==
  ASSUME TypeOK, NEW c, NEW r, NEW p, HttpMessage(r.send),
         HttpLineTarget(Take(r.send, LineLength(r.send))) \in c.wants \cup {NoTarget},
         Greeted(<<>>), Speaks(<<>>, r, c.rounds), c.rounds \ {r} = {p},
         handle_client, parse_http_target_from_stream
  PROVE  \/ Ends
         \/ \E k \in LineLength(r.send)..Len(r.send) : Tunnel(c, Drop(r.send, k), p, {p})'
         \/ HungUp(r)'
<1> DEFINE m == r.send
           a == LineLength(m)
           t(n) == HttpLineTarget(Take(inbox, n))
<1>1. /\ m \in Seq(Nat) /\ HttpMessage(m) /\ inbox \in Seq(Nat)
      /\ toTarget = <<>> /\ tls_stream = FALSE
  BY DEF TypeOK, HttpMessage, Greeted
<1>2. Begins(inbox, m) /\ (inbox # <<>> => Sent(m, {p}))
  BY <1>1, InboxSpeaks
<1>3. /\ HttpLineTarget(Take(m, a)) \in c.wants \cup {NoTarget}
      /\ a \in Nat /\ a \in 1..Len(m) /\ Len(m) \in Nat
  BY HttpLine
<1>4. UNCHANGED <<client, toTarget, tls_stream>>
  BY AtPc DEF parse_http_target_from_stream, tunnel
<1>. HIDE DEF m, a, t
<1>5. PICK n \in 0..Len(inbox) :
        /\ n = LineLength(inbox) \/ (eof /\ n = Len(inbox))
        /\ \/ t(n) # NoTarget /\ Dial(t(n)) /\ inbox' = <<>>
           \/ Reject
  BY DEF parse_http_target_from_stream, t
<1>6. Len(inbox) \in Nat /\ Len(inbox) <= Len(m) /\ n \in Nat /\ n <= Len(inbox)
  BY <1>1, <1>2, <1>5, LenProperties DEF Begins
<1>7. Take(inbox, n) = Take(m, n)
  <2>1. 1 \in Nat /\ 1 > 0
    OBVIOUS
  <2>2. SubSeq(inbox, 1, n) = SubSeq(m, 1, n)
    BY <1>1, <1>2, <1>6, <2>1, BeginsSubSeq, Zenon
  <2>. QED  BY <2>2 DEF Take
<1>8. CASE Reject
  BY <1>4, <1>8 DEF Reject, send_error_response, ReturnAfter, Ends
<1>9. CASE n = LineLength(inbox) /\ t(n) # NoTarget /\ Dial(t(n)) /\ inbox' = <<>>
  <2>1. n = a
    BY <1>1, <1>2, <1>6, <1>9, LineArrived DEF a
  <2>2. target' \in c.wants /\ pc' = "connect"
    BY <1>3, <1>7, <1>9, <2>1 DEF Dial, t
  <2>3. /\ Len(inbox) \in a..Len(m) /\ inbox # <<>>
        /\ Len(inbox) \in 0..Len(inbox) /\ Drop(inbox, Len(inbox)) = <<>>
    <3>1. Len(inbox) >= a /\ a >= 1
      BY <1>3, <1>6, <2>1
    <3>2. inbox # <<>>
      BY <1>3, <3>1
    <3>. QED  BY <1>1, <1>3, <1>6, <3>1, <3>2, DropAll
  <2>4. PICK k \in a..Len(m) : k \in 0..Len(inbox) /\ Drop(inbox, k) = <<>>
    BY <2>3
  <2>5. inbox' = Drop(inbox, k) /\ Sent(m, {p})
    BY <1>2, <1>9, <2>3, <2>4
  <2>6. Sent(Drop(m, k), {p})'
    BY <1>1, <1>4, <2>4, <2>5, ReadSent
  <2>7. Speaks(Drop(m, k), p, {p})'
    BY <2>6 DEF Speaks
  <2>8. Never({p} \ {p})'
    BY DEF Never
  <2>9. Tunnel(c, Drop(m, k), p, {p})'
    BY <1>1, <1>4, <2>2, <2>7, <2>8 DEF Tunnel
  <2>10. \E l \in a..Len(m) : Tunnel(c, Drop(m, l), p, {p})'
    BY <2>4, <2>9
  <2>. QED  BY <2>10 DEF m, a
<1>10. CASE eof /\ Dial(t(n)) /\ inbox' = <<>>
  <2>1. n \in 0..Len(m) /\ target' = HttpLineTarget(SubSeq(m, 1, n)) /\ pc' = "connect"
    <3>1. n \in 0..Len(m)
      BY <1>3, <1>6
    <3>2. target' = t(n) /\ pc' = "connect"
      BY <1>10 DEF Dial
    <3>3. t(n) = HttpLineTarget(SubSeq(m, 1, n))
      BY <1>7 DEF t, Take
    <3>. QED  BY <3>1, <3>2, <3>3
  <2>2. eof' /\ inbox' = <<>> /\ toTarget' = <<>>
    BY <1>1, <1>4, <1>10 DEF client
  <2>3. HungUp(r)'
    BY <2>1, <2>2 DEF HungUp, m
  <2>. QED  BY <2>3
<1>. QED  BY <1>5, <1>8, <1>9, <1>10

\* Nothing more of such a client goes anywhere.
LEMMA HungUpStep ==
  ASSUME NEW r, HungUp(r), [Next]_vars
  PROVE  HungUp(r)'
<1>1. CASE Outside
  <2>1. ~(ClientStart \/ ClientSend \/ ClientClose \/ ClientReset)
    BY DEF HungUp, ClientStart, ClientSend, ClientClose, ClientReset, Connected
  <2>2. UNCHANGED <<eof, inbox, toTarget, pc, target>>
    BY <1>1, <2>1 DEF Outside, vars, client, tunnel
  <2>. QED  BY <2>2 DEF HungUp
<1>2. CASE handle_client
  <2>1. eof' = eof
    BY <1>2, AtPc DEF client
  <2>2. UNCHANGED <<toTarget, target>> /\ inbox' = <<>> /\ pc' \in {"respond", "relay", "done"}
    <3>1. connect_target => /\ UNCHANGED <<toTarget, target>> /\ inbox' \in {inbox, <<>>}
                            /\ pc' \in {"respond", "done"}
      BY DEF connect_target, send_error_response, ReturnAfter, tunnel
    <3>2. send_success => UNCHANGED <<toTarget, target, inbox>> /\ pc' = "relay"
      BY DEF send_success, tunnel
    <3>3. tunnel_closed \/ peer_reset =>
             UNCHANGED <<toTarget, target>> /\ inbox' = <<>> /\ pc' = "done"
      BY DEF tunnel_closed, peer_reset, Return, tunnel
    <3>4. relay_target_to_client => UNCHANGED <<toTarget, target, inbox, pc>>
      BY DEF relay_target_to_client
    <3>5. ~relay_client_to_target
      BY DEF HungUp, relay_client_to_target
    <3>6. inbox = <<>> /\ pc \in {"connect", "respond", "relay", "done"}
      BY DEF HungUp
    <3>. QED  BY <1>2, <3>1, <3>2, <3>3, <3>4, <3>5, <3>6, AtPc
  <2>. QED  BY <2>1, <2>2 DEF HungUp
<1>. QED  BY <1>1, <1>2 DEF Next, Outside

\* The invariant of an HTTP client is inductive.
LEMMA HttpStep ==
  ASSUME TypeOK, NEW c, NEW r, NEW p, c.rounds = {r, p}, IsRound(r), IsRound(p),
         r.need = <<>>, p.need # <<>>, p.send = c.payload, c.payload \in Seq(Nat),
         HttpMessage(r.send),
         HttpLineTarget(Take(r.send, LineLength(r.send))) \in c.wants \cup {NoTarget},
         HttpInv(c, r, p), [Next]_vars
  PROVE  HttpInv(c, r, p)'
<1> DEFINE a == LineLength(r.send)
<1>1. /\ r.send \in Seq(Nat) /\ Len(r.send) >= 1 /\ Len(r.send) \in Nat /\ <<>> \in Seq(Nat)
      /\ a \in Nat /\ a \in 1..Len(r.send)
  BY HttpLine
<1>0. HttpInv(c, r, p)' <=>
        \/ Opening(r, c.rounds, {"HTTP"})'
        \/ \E k \in a..Len(r.send) : \/ Tunnel(c, Drop(r.send, k), p, {p})'
                                     \/ Closed(c, Drop(r.send, k) \o c.payload)'
        \/ HungUp(r)'
  BY DEF HttpInv
<1>. HIDE DEF a
<1>2. c.rounds \ {r} = {p} /\ r \in c.rounds /\ p # r /\ \A q \in c.rounds : IsRound(q)
  OBVIOUS
<1>3. \A k \in a..Len(r.send) :
         k \in 0..Len(r.send) /\ Drop(r.send, k) \in Seq(Nat) /\ Drop(r.send, k) \o c.payload \in Seq(Nat)
  <2> SUFFICES ASSUME NEW k \in a..Len(r.send)
               PROVE  k \in 0..Len(r.send) /\ Drop(r.send, k) \in Seq(Nat)
                      /\ Drop(r.send, k) \o c.payload \in Seq(Nat)
    OBVIOUS
  <2>1. k \in 0..Len(r.send)
    BY <1>1
  <2>2. Drop(r.send, k) \in Seq(Nat)
    BY <1>1, <2>1, DropOf
  <2>. QED  BY <2>1, <2>2, ConcatProperties
<1>4. ASSUME Greeted(<<>>), Ends PROVE HttpInv(c, r, p)'
  <2>1. a \in a..Len(r.send)
    BY <1>1
  <2>2. Closed(c, Drop(r.send, a) \o c.payload)'
    BY <1>3, <1>4, <2>1, GreetedEnds
  <2>. QED  BY <1>0, <2>1, <2>2
<1>5. CASE Opening(r, c.rounds, {"HTTP"})
  <2>1. /\ Greeted(<<>>) /\ Speaks(<<>>, r, c.rounds) /\ tls_stream = FALSE /\ toTarget = <<>>
        /\ pc \in {"detect", "auth", "redetect", "parse"}
        /\ pc = "auth" => protocol = "HTTP"
        /\ pc = "parse" => protocol \in {"HTTP", "TCP"}
    BY <1>5 DEF Opening, Greeted
  <2>2. CASE Outside
    <3>1. \A q \in c.rounds \ {r} : q.need # <<>>
      BY <1>2
    <3>. QED  BY <1>2, <1>5, <2>2, <3>1, OpeningOutside, <1>0
  <2>3. CASE handle_client
    <3>1. CASE peer_reset
      BY <1>4, <2>1, <2>3, <3>1, ResetEnds
    <3>2. CASE pc \in {"detect", "redetect"}
      <4>1. ReadsAs(r.send, {"HTTP"})
        BY <1>1, DetectsHttp DEF ReadsAs, HttpMessage
      <4>2. Opening(r, c.rounds, {"HTTP"})' \/ Ends
        BY <1>1, <1>5, <2>3, <3>2, <4>1, OpeningDetects
      <4>. QED  BY <1>0, <1>4, <2>1, <4>2
    <3>3. CASE pc = "auth" /\ authenticate_http_or_https
      <4>1. UNCHANGED <<toTarget, target, tls_stream, protocol>>
        BY <3>3 DEF authenticate_http_or_https, tunnel
      <4>2. pc' = "done" \/ (pc' = "redetect" /\ UNCHANGED <<inbox, replies>>)
        BY <2>1, <3>3 DEF authenticate_http_or_https, Return, ReturnAfter
      <4>3. CASE pc' = "done"
        BY <1>4, <2>1, <4>1, <4>3 DEF Ends
      <4>4. CASE pc' = "redetect" /\ UNCHANGED <<inbox, replies>>
        <5>0. UNCHANGED <<client, inbox, toTarget>>
          BY <2>3, <4>1, <4>4, AtPc
        <5>1. Speaks(<<>>, r, c.rounds)'
          BY <2>1, <5>0, UnreadSent DEF Speaks
        <5>2. Greeted(<<>>)'
          BY <2>1, <4>1, <4>4 DEF Greeted
        <5>3. Opening(r, c.rounds, {"HTTP"})'
          BY <4>4, <5>1, <5>2 DEF Opening
        <5>. QED  BY <1>0, <5>3
      <4>. QED  BY <4>2, <4>3, <4>4
    <3>4. CASE pc = "parse" /\ protocol = "TCP"
      <4>1. inbox \in Seq(Nat) /\ Begins(inbox, r.send)
        BY <1>1, <2>1, InboxSpeaks DEF TypeOK
      <4>2. inbox # <<>> => inbox[1] \in {71, 80, 72, 68, 67}
        BY <1>1, <4>1, DetectsHttp DEF HttpMessage
      <4>3. Ends
        <5>1. \A x \in {71, 80, 72, 68, 67} : x > 4
          OBVIOUS
        <5>2. inbox # <<>> => inbox[1] > 4
          BY <4>2, <5>1
        <5>. QED  BY <2>3, <3>4, <5>2, MisreadEnds
      <4>. QED  BY <1>4, <2>1, <4>3
    <3>5. CASE parse_http_target_from_stream
      <4>1. \/ Ends
            \/ \E k \in a..Len(r.send) : Tunnel(c, Drop(r.send, k), p, {p})'
            \/ HungUp(r)'
        BY <1>2, <2>1, <2>3, <3>5, HttpParses DEF a
      <4>. QED  BY <1>0, <1>4, <2>1, <4>1
    <3>. QED  BY <2>1, <2>3, <3>1, <3>2, <3>3, <3>4, <3>5, AtPc
  <2>. QED  BY <2>2, <2>3 DEF Next, Outside
<1>6. ASSUME NEW k \in a..Len(r.send), Tunnel(c, Drop(r.send, k), p, {p})
      PROVE  HttpInv(c, r, p)'
  <2> DEFINE h == Drop(r.send, k)
  <2>1. h \in Seq(Nat) /\ h \o p.send = h \o c.payload /\ \A q \in {p} : IsRound(q)
    BY <1>3
  <2>2. Tunnel(c, h, p, {p})
    BY <1>6
  <2>. HIDE DEF h
  <2>3. Tunnel(c, h, p, {p})' \/ Closed(c, h \o c.payload)'
    BY <2>1, <2>2, TunnelStep
  <2>. QED  BY <1>0, <2>3 DEF h
<1>7. ASSUME NEW k \in a..Len(r.send), Closed(c, Drop(r.send, k) \o c.payload)
      PROVE  HttpInv(c, r, p)'
  <2>1. Closed(c, Drop(r.send, k) \o c.payload)'
    BY <1>7, ClosedStep
  <2>. QED  BY <1>0, <2>1
<1>8. CASE HungUp(r)
  BY <1>0, <1>8, HungUpStep
<1>. QED  BY <1>5, <1>6, <1>7, <1>8 DEF HttpInv, a
-----------------------------------------------------------------------------
\* The whole messages of a SOCKS5 client.
Socks5Greeting(m) == m \in Seq(Nat) /\ Len(m) >= 2 /\ m[1] = 5 /\ Len(m) = 2 + m[2]
Socks5UserPass(m) == m \in Seq(Nat) /\ Len(m) >= 2 /\ Socks5UserPassEnd(m) = Len(m)
Socks5Request(m, wants) == m \in Seq(Nat) /\ Socks5Connect(m, wants)

\* Where a greeting ends that is there.
LEMMA GreetingEndOf ==
  ASSUME NEW s \in Seq(Nat), Socks5GreetingEnd(s) # 0
  PROVE  Len(s) >= 2 /\ s[2] \in Nat /\ Socks5GreetingEnd(s) = 2 + s[2] /\ 2 + s[2] <= Len(s)
<1>1. Len(s) >= 2 /\ Len(s) \in Nat
  BY LenProperties DEF Socks5GreetingEnd
<1>2. s[2] \in Nat
  <2>1. 2 \in 1..Len(s)
    BY <1>1
  <2>. QED  BY <2>1, ElementOfSeq
<1>3. Socks5GreetingEnd(s) = Complete(s, 2 + s[2])
  BY <1>1 DEF Socks5GreetingEnd
<1>4. Socks5GreetingEnd(s) = IF Len(s) >= 2 + s[2] THEN 2 + s[2] ELSE 0
  BY <1>3 DEF Complete
<1>. QED  BY <1>1, <1>2, <1>4

\* Whoever finds the end of a greeting has it to the last unit.
LEMMA GreetingComplete ==
  ASSUME NEW m, Socks5Greeting(m), NEW s \in Seq(Nat), Begins(s, m), Socks5GreetingEnd(s) # 0
  PROVE  s = m /\ Socks5GreetingEnd(s) = Len(s)
<1>1. m \in Seq(Nat) /\ Len(m) = 2 + m[2] /\ Len(s) \in Nat /\ Len(m) \in Nat
  BY LenProperties DEF Socks5Greeting
<1>2. Len(s) >= 2 /\ Socks5GreetingEnd(s) = 2 + s[2] /\ 2 + s[2] <= Len(s)
  BY GreetingEndOf
<1>3. s[2] = m[2]
  BY <1>1, <1>2 DEF Begins
<1>4. Len(s) >= Len(m)
  BY <1>1, <1>2, <1>3
<1>5. s = m
  BY <1>1, <1>4, BeginsWhole
<1>. QED  BY <1>1, <1>2, <1>3, <1>5

\* Where a username and password message ends that is there.
LEMMA UserPassEndOf ==
  ASSUME NEW s \in Seq(Nat), Socks5UserPassEnd(s) # 0
  PROVE  /\ Len(s) >= 2 /\ s[2] \in Nat /\ 3 + s[2] \in 1..Len(s) /\ s[3 + s[2]] \in Nat
         /\ Socks5UserPassEnd(s) = 3 + s[2] + s[3 + s[2]] /\ Socks5UserPassEnd(s) <= Len(s)
<1>1. Len(s) >= 2 /\ ~(Len(s) < 3 + s[2]) /\ Len(s) \in Nat
  BY LenProperties DEF Socks5UserPassEnd
<1>2. s[2] \in Nat
  <2>1. 2 \in 1..Len(s)
    BY <1>1
  <2>. QED  BY <2>1, ElementOfSeq
<1>3. 3 + s[2] \in 1..Len(s)
  BY <1>1, <1>2
<1>4. s[3 + s[2]] \in Nat
  BY <1>3, ElementOfSeq
<1> DEFINE n == 3 + s[2] + s[3 + s[2]]
<1>5. n \in Nat
  BY <1>2, <1>4
<1>6. Socks5UserPassEnd(s) = Complete(s, n)
  BY <1>1 DEF Socks5UserPassEnd
<1>. HIDE DEF n
<1>7. Socks5UserPassEnd(s) = n /\ n <= Len(s)
  BY <1>1, <1>5, <1>6 DEF Complete
<1>. QED  BY <1>1, <1>2, <1>3, <1>4, <1>7 DEF n

\* Whoever finds the end of it has it to the last unit.
LEMMA UserPassComplete ==
  ASSUME NEW m, Socks5UserPass(m), NEW s \in Seq(Nat), Begins(s, m), Socks5UserPassEnd(s) # 0
  PROVE  s = m /\ Socks5UserPassEnd(s) = Len(s)
<1>1. m \in Seq(Nat) /\ Len(s) \in Nat /\ Len(m) \in Nat /\ Len(m) >= 2 /\ Socks5UserPassEnd(m) = Len(m)
  BY LenProperties DEF Socks5UserPass
<1>2. Socks5UserPassEnd(m) # 0
  BY <1>1
<1>3. /\ 3 + m[2] \in 1..Len(m) /\ Len(m) = 3 + m[2] + m[3 + m[2]] /\ m[2] \in Nat
  BY <1>1, <1>2, UserPassEndOf
<1>4. /\ Len(s) >= 2 /\ s[2] \in Nat /\ 3 + s[2] \in 1..Len(s) /\ s[3 + s[2]] \in Nat
      /\ Socks5UserPassEnd(s) = 3 + s[2] + s[3 + s[2]] /\ Socks5UserPassEnd(s) <= Len(s)
  BY UserPassEndOf
<1>5. s[2] = m[2]
  <2>1. 2 \in 1..Len(s)
    BY <1>1, <1>4
  <2>. QED  BY <2>1 DEF Begins
<1>6. s[3 + s[2]] = m[3 + m[2]]
  <2>1. \A i \in 1..Len(s) : s[i] = m[i]
    BY DEF Begins
  <2>2. s[3 + s[2]] = m[3 + s[2]]
    BY <1>4, <2>1
  <2>. QED  BY <1>5, <2>2
<1>7. Socks5UserPassEnd(s) = Len(m)
  <2>1. Socks5UserPassEnd(s) = 3 + s[2] + s[3 + s[2]]
    BY <1>4
  <2>2. 3 + s[2] + s[3 + s[2]] = 3 + m[2] + m[3 + m[2]]
    BY <1>5, <1>6
  <2>3. Len(m) = 3 + m[2] + m[3 + m[2]]
    BY <1>3
  <2>. QED  BY <2>1, <2>2, <2>3
<1>8. s = m
  BY <1>1, <1>4, <1>7, BeginsWhole
<1>. QED  BY <1>7, <1>8

\* Where a request ends that is there.
LEMMA RequestEndOf ==
  ASSUME NEW s \in Seq(Nat), Len(s) >= 4, s[4] \in {1, 3, 4}, Socks5RequestEnd(s) # 0
  PROVE  /\ s[4] = 1 => Socks5RequestEnd(s) = 10
         /\ s[4] = 4 => Socks5RequestEnd(s) = 22
         /\ s[4] = 3 => Len(s) >= 5 /\ Socks5RequestEnd(s) = 7 + s[5]
         /\ Socks5RequestEnd(s) <= Len(s)
<1>1. Len(s) \in Nat
  BY LenProperties
<1>2. CASE s[4] = 1
  <2>1. Socks5RequestEnd(s) = Complete(s, 10)
    BY <1>2 DEF Socks5RequestEnd
  <2>. QED  BY <1>1, <1>2, <2>1 DEF Complete
<1>3. CASE s[4] = 4
  <2>1. Socks5RequestEnd(s) = Complete(s, 22)
    BY <1>3 DEF Socks5RequestEnd
  <2>. QED  BY <1>1, <1>3, <2>1 DEF Complete
<1>4. CASE s[4] = 3
  <2>1. Socks5RequestEnd(s) = IF Len(s) < 5 THEN 0 ELSE Complete(s, 7 + s[5])
    BY <1>4 DEF Socks5RequestEnd
  <2>2. ~(Len(s) < 5) /\ Socks5RequestEnd(s) = Complete(s, 7 + s[5])
    BY <2>1
  <2>3. s[5] \in Nat
    <3>1. 5 \in 1..Len(s)
      BY <1>1, <2>2
    <3>. QED  BY <3>1, ElementOfSeq
  <2> DEFINE n == 7 + s[5]
  <2>4. Socks5RequestEnd(s) = Complete(s, n) /\ n \in Nat
    BY <2>2, <2>3
  <2>. HIDE DEF n
  <2>5. Socks5RequestEnd(s) = n /\ n <= Len(s)
    BY <1>1, <2>4 DEF Complete
  <2>. QED  BY <1>1, <1>4, <2>2, <2>5 DEF n
<1>. QED  BY <1>2, <1>3, <1>4

\* Whoever finds the end of it has it to the last unit.
LEMMA RequestComplete ==
  ASSUME NEW m, NEW wants, Socks5Request(m, wants), NEW s \in Seq(Nat), Begins(s, m),
         Len(s) >= 4, Socks5RequestEnd(s) # 0
  PROVE  s = m /\ Socks5RequestEnd(s) = Len(s)
<1>1. /\ m \in Seq(Nat) /\ Len(m) >= 7 /\ m[4] \in {1, 3, 4} /\ Socks5RequestEnd(m) = Len(m)
      /\ Len(m) \in Nat /\ Len(s) \in Nat
  BY LenProperties DEF Socks5Request, Socks5Connect
<1>2. Socks5RequestEnd(m) # 0 /\ Len(m) >= 4
  BY <1>1
<1>3. s[4] = m[4] /\ (Len(s) >= 5 => s[5] = m[5])
  BY <1>1 DEF Begins
<1>4. /\ m[4] = 1 => Len(m) = 10
      /\ m[4] = 4 => Len(m) = 22
      /\ m[4] = 3 => Len(m) = 7 + m[5]
  BY <1>1, <1>2, RequestEndOf
<1>5. /\ s[4] = 1 => Socks5RequestEnd(s) = 10
      /\ s[4] = 4 => Socks5RequestEnd(s) = 22
      /\ s[4] = 3 => Len(s) >= 5 /\ Socks5RequestEnd(s) = 7 + s[5]
      /\ Socks5RequestEnd(s) <= Len(s)
  BY <1>1, <1>3, RequestEndOf
<1>6. Socks5RequestEnd(s) = Len(m)
  BY <1>1, <1>3, <1>4, <1>5
<1>7. s = m
  BY <1>1, <1>5, <1>6, BeginsWhole
<1>. QED  BY <1>6, <1>7

\* What has arrived of a valid request is never a bad one.
LEMMA RequestNotBad ==
  ASSUME TypeOK, NEW m, NEW wants, Socks5Request(m, wants), Begins(inbox, m), Len(inbox) >= 4
  PROVE  ~Socks5RequestBad
<1>1. /\ inbox \in Seq(Nat) /\ m \in Seq(Nat) /\ Len(inbox) \in Nat
      /\ m[1] = 5 /\ m[2] = 1 /\ m[4] \in {1, 3, 4} /\ NonUtf8 \notin Units(m)
  BY LenProperties DEF TypeOK, Socks5Request, Socks5Connect
<1>2. /\ Len(inbox) <= Len(m) /\ \A i \in 1..Len(inbox) : inbox[i] = m[i]
  BY DEF Begins
<1>3. inbox[1] = 5 /\ inbox[2] = 1 /\ inbox[4] \in {1, 3, 4}
  <2>1. 1 \in 1..Len(inbox) /\ 2 \in 1..Len(inbox) /\ 4 \in 1..Len(inbox)
    BY <1>1
  <2>. QED  BY <1>1, <1>2, <2>1
<1>4. Take(inbox, 2) = <<5, 1>>
  BY <1>1, <1>3, TakeTwo
<1>5. ASSUME Len(inbox) >= 5, Len(inbox) >= 5 + inbox[5]
      PROVE  NonUtf8 \notin Units(SubSeq(inbox, 6, 5 + inbox[5]))
  <2>1. inbox[5] \in Nat
    <3>1. 5 \in 1..Len(inbox)
      BY <1>1, <1>5
    <3>. QED  BY <1>1, <3>1, ElementOfSeq
  <2> DEFINE n == 5 + inbox[5]
  <2>2. n \in Int /\ n <= Len(inbox)
    BY <1>5, <2>1
  <2>. HIDE DEF n
  <2>3. Units(SubSeq(inbox, 6, n)) \subseteq Units(inbox)
    BY <1>1, <2>2, SubSeqUnits
  <2>4. Units(inbox) \subseteq Units(m)
    <3>1. \A i \in 1..Len(inbox) : i \in 1..Len(m)
      BY <1>1, <1>2, LenProperties
    <3>. QED  BY <1>2, <3>1 DEF Units
  <2>. QED  BY <1>1, <2>3, <2>4 DEF n
<1>. QED  BY <1>3, <1>4, <1>5 DEF Socks5RequestBad

\* A message that is read to its end leaves nothing.
LEMMA WholeRead ==
  ASSUME TypeOK, NEW m \in Seq(Nat), NEW T, toTarget = <<>>, inbox # <<>> => Sent(m, T), m # <<>>,
         inbox = m, inbox' = Drop(inbox, Len(inbox)), UNCHANGED <<client, toTarget>>
  PROVE  Sent(<<>>, T)'
<1>1. Len(m) \in 0..Len(inbox) /\ Drop(m, Len(m)) = <<>> /\ inbox' = Drop(inbox, Len(m))
  BY DropAll
<1>2. Sent(Drop(m, Len(m)), T)'
  BY <1>1, ReadSent
<1>. QED  BY <1>1, <1>2
-----------------------------------------------------------------------------
\* What a valid SOCKS5 client says.
Socks5Says(c, g, u, q, a, p) ==
  /\ c.rounds = {g, u, q, a, p} /\ \A r \in {g, u, q, a, p} : IsRound(r)
  /\ g.need = <<>> /\ u.need = <<5, 2>> /\ q.need = <<5, 0>>
  /\ a.need = <<5, 2, 1, 0>> /\ p.need = <<5, 0, 5, 0>>
  /\ Socks5Greeting(g.send) /\ Socks5UserPass(u.send)
  /\ Socks5Request(q.send, c.wants) /\ a.send = q.send
  /\ p.send = c.payload /\ c.payload \in Seq(Nat) /\ RealTargets(c)

\* A message waits whose need is longer than what was written, or differs from it.
LEMMA OtherReply ==
  ASSUME NEW R \in Seq(Nat), NEW N \in Seq(Nat),
         Len(N) > Len(R) \/ (Len(N) >= 2 /\ N[2] # R[2])
  PROVE  ~IsPrefix(N, R)
<1> SUFFICES ASSUME IsPrefix(N, R) PROVE FALSE
  OBVIOUS
<1>1. Len(N) <= Len(R) /\ \A j \in 1..Len(N) : N[j] = R[j]
  BY BeginsIsPrefix DEF Begins
<1>2. Len(N) >= 2 => 2 \in 1..Len(N)
  BY LenProperties
<1>. QED  BY <1>1, <1>2, LenProperties

\* The needs of a SOCKS5 client tell its messages apart ...
LEMMA Socks5Rounds ==
  ASSUME NEW c, NEW g, NEW u, NEW q, NEW a, NEW p, Socks5Says(c, g, u, q, a, p)
  PROVE  /\ c.rounds \ {g} = {u, q, a, p} /\ g \in c.rounds
         /\ {u, q, a, p} \ {q} = {u, a, p} /\ {u, q, a, p} \ {u} = {q, a, p}
         /\ {q, a, p} \ {a} = {q, p} /\ {u, a, p} \ {p} = {u, a}
         /\ \A r \in {u, q, a, p} : r.need # <<>>
<1>1. Len(g.need) = 0 /\ Len(u.need) = 2 /\ Len(q.need) = 2 /\ Len(a.need) = 4 /\ Len(p.need) = 4
      /\ u.need[2] = 2 /\ q.need[2] = 0 /\ a.need[2] = 2 /\ p.need[2] = 0
  BY DEF Socks5Says
<1>2. g # u /\ g # q /\ g # a /\ g # p /\ u # q /\ u # a /\ u # p /\ q # a /\ q # p /\ a # p
  BY <1>1
<1>3. c.rounds = {g, u, q, a, p}
  BY DEF Socks5Says
<1>4. Len(<<>>) = 0
  OBVIOUS
<1>5. \A r \in {u, q, a, p} : r.need # <<>>
  BY <1>1, <1>4
<1>. QED  BY <1>2, <1>3, <1>5

\* ... and make them wait for each other.
LEMMA Socks5Waits ==
  ASSUME NEW c, NEW g, NEW u, NEW q, NEW a, NEW p, Socks5Says(c, g, u, q, a, p)
  PROVE  /\ replies = <<5, 0>> => Waits({u, a, p}) /\ Never({u, a})
         /\ replies = <<5, 2>> => Waits({q, a, p})
         /\ replies = <<5, 2, 1, 0>> \/ replies = <<5, 2, 1, 0, 5, 0>> => Waits({q, p})
<1>1. /\ u.need \in Seq(Nat) /\ q.need \in Seq(Nat) /\ a.need \in Seq(Nat) /\ p.need \in Seq(Nat)
      /\ Len(u.need) = 2 /\ Len(q.need) = 2 /\ Len(a.need) = 4 /\ Len(p.need) = 4
      /\ u.need[2] = 2 /\ q.need[2] = 0 /\ a.need[2] = 2 /\ p.need[2] = 0
  BY DEF Socks5Says, IsRound
<1>2. /\ 2 \in 1..Len(u.need) /\ 2 \in 1..Len(q.need) /\ 2 \in 1..Len(a.need) /\ 2 \in 1..Len(p.need)
      /\ 3 \in 1..Len(p.need) /\ 3 \in 1..Len(a.need)
  BY <1>1
<1>3. ASSUME replies = <<5, 0>> PROVE Waits({u, a, p}) /\ Never({u, a})
  <2>1. <<5, 0>> \in Seq(Nat) /\ Len(<<5, 0>>) = 2 /\ <<5, 0>>[2] = 0
    OBVIOUS
  <2>2. replies \in Seq(Nat) /\ Len(replies) = 2 /\ replies[2] = 0
    BY <1>3, <2>1
  <2>3. \A N \in Seq(Nat) : Len(N) >= 2 /\ N[2] = 2 => ~IsPrefix(N, replies)
    BY <2>2, OtherReply
  <2>4. ~IsPrefix(u.need, replies) /\ ~IsPrefix(a.need, replies)
    BY <1>1, <2>3
  <2>5. ~IsPrefix(p.need, replies)
    <3>1. p.need \in Seq(Nat) /\ Len(p.need) > Len(replies)
      <4>1. 4 > 2
        OBVIOUS
      <4>. QED  BY <1>1, <2>2, <4>1
    <3>. QED  BY <2>2, <3>1, OtherReply
  <2>6. Never({u, a})
    BY <1>1, <1>2, <2>2 DEF Never
  <2>. QED  BY <2>4, <2>5, <2>6 DEF Waits
<1>4. ASSUME replies = <<5, 2>> PROVE Waits({q, a, p})
  <2>1. <<5, 2>> \in Seq(Nat) /\ Len(<<5, 2>>) = 2 /\ <<5, 2>>[2] = 2
    OBVIOUS
  <2>2. replies \in Seq(Nat) /\ Len(replies) = 2 /\ replies[2] = 2
    BY <1>4, <2>1
  <2>3. \A N \in Seq(Nat) : Len(N) >= 2 /\ N[2] = 0 => ~IsPrefix(N, replies)
    BY <2>2, OtherReply
  <2>4. ~IsPrefix(q.need, replies) /\ ~IsPrefix(p.need, replies)
    BY <1>1, <2>3
  <2>5. ~IsPrefix(a.need, replies)
    <3>1. a.need \in Seq(Nat) /\ Len(a.need) > Len(replies)
      <4>1. 4 > 2
        OBVIOUS
      <4>. QED  BY <1>1, <2>2, <4>1
    <3>. QED  BY <2>2, <3>1, OtherReply
  <2>. QED  BY <2>4, <2>5 DEF Waits
<1>5. ASSUME replies = <<5, 2, 1, 0>> \/ replies = <<5, 2, 1, 0, 5, 0>> PROVE Waits({q, p})
  <2>1. /\ <<5, 2, 1, 0>> \in Seq(Nat) /\ <<5, 2, 1, 0>>[2] = 2
        /\ <<5, 2, 1, 0, 5, 0>> \in Seq(Nat) /\ <<5, 2, 1, 0, 5, 0>>[2] = 2
    OBVIOUS
  <2>2. replies \in Seq(Nat) /\ replies[2] = 2
    BY <1>5, <2>1
  <2>3. \A N \in Seq(Nat) : Len(N) >= 2 /\ N[2] = 0 => ~IsPrefix(N, replies)
    BY <2>2, OtherReply
  <2>4. ~IsPrefix(q.need, replies) /\ ~IsPrefix(p.need, replies)
    BY <1>1, <2>3
  <2>. QED  BY <2>4 DEF Waits
<1>. QED  BY <1>3, <1>4, <1>5
-----------------------------------------------------------------------------
\* What the authenticator writes, and then the parser.
LEMMA PairsAppended ==
  /\ <<5, 2>> \o <<1, 0>> = <<5, 2, 1, 0>>
  /\ <<5, 2, 1, 0>> \o <<5, 0>> = <<5, 2, 1, 0, 5, 0>>
<1>1. ASSUME NEW s \in Seq(Nat), NEW t \in Seq(Nat), NEW v \in Seq(Nat),
             Len(t) = 2, Len(v) = Len(s) + 2, \A i \in 1..Len(s) : v[i] = s[i],
             v[Len(s) + 1] = t[1], v[Len(s) + 2] = t[2]
      PROVE  s \o t = v
  <2> DEFINE w == s \o t
  <2>1. PICK n \in Nat : n = Len(s)
    BY LenProperties
  <2>2. /\ w \in Seq(Nat) /\ Len(w) = Len(s) + Len(t)
        /\ \A i \in 1..(Len(s) + Len(t)) : w[i] = IF i <= Len(s) THEN s[i] ELSE t[i - Len(s)]
    BY <1>1, ConcatProperties
  <2>. HIDE DEF w
  <2>3. Len(w) = n + 2 /\ \A i \in 1..(n + 2) : w[i] = IF i <= n THEN s[i] ELSE t[i - n]
    BY <1>1, <2>1, <2>2
  <2>4. Len(v) = n + 2 /\ v[n + 1] = t[1] /\ v[n + 2] = t[2] /\ \A i \in 1..n : v[i] = s[i]
    BY <1>1, <2>1
  <2>5. \A i \in 1..n : w[i] = v[i]
    <3>1. \A i \in 1..n : i \in 1..(n + 2) /\ i <= n
      OBVIOUS
    <3>. QED  BY <2>3, <2>4, <3>1
  <2>6. w[n + 1] = v[n + 1]
    <3>1. n + 1 \in 1..(n + 2) /\ ~(n + 1 <= n) /\ (n + 1) - n = 1
      OBVIOUS
    <3>. QED  BY <2>3, <2>4, <3>1
  <2>7. w[n + 2] = v[n + 2]
    <3>1. n + 2 \in 1..(n + 2) /\ ~(n + 2 <= n) /\ (n + 2) - n = 2
      OBVIOUS
    <3>. QED  BY <2>3, <2>4, <3>1
  <2>8. \A i \in 1..(n + 2) : i \in 1..n \/ i = n + 1 \/ i = n + 2
    OBVIOUS
  <2>9. \A i \in 1..Len(w) : w[i] = v[i]
    BY <2>3, <2>5, <2>6, <2>7, <2>8
  <2>10. w = v
    BY <1>1, <2>2, <2>3, <2>4, <2>9, SeqEqual
  <2>. QED  BY <2>10 DEF w
<1>2. <<5, 2>> \o <<1, 0>> = <<5, 2, 1, 0>>
  <2> DEFINE s == <<5, 2>>
             t == <<1, 0>>
             v == <<5, 2, 1, 0>>
  <2>1. /\ s \in Seq(Nat) /\ Len(s) = 2 /\ s[1] = 5 /\ s[2] = 2
        /\ t \in Seq(Nat) /\ Len(t) = 2 /\ t[1] = 1 /\ t[2] = 0
        /\ v \in Seq(Nat) /\ Len(v) = 4 /\ v[1] = 5 /\ v[2] = 2 /\ v[3] = 1 /\ v[4] = 0
    OBVIOUS
  <2>. HIDE DEF s, t, v
  <2>2. \A i \in 1..2 : v[i] = s[i]
    BY <2>1
  <2>3. Len(v) = Len(s) + 2 /\ v[Len(s) + 1] = t[1] /\ v[Len(s) + 2] = t[2]
    BY <2>1
  <2>4. s \o t = v
    BY <1>1, <2>1, <2>2, <2>3
  <2>. QED  BY <2>4 DEF s, t, v
<1>3. <<5, 2, 1, 0>> \o <<5, 0>> = <<5, 2, 1, 0, 5, 0>>
  <2> DEFINE s == <<5, 2, 1, 0>>
             t == <<5, 0>>
             v == <<5, 2, 1, 0, 5, 0>>
  <2>1. /\ s \in Seq(Nat) /\ Len(s) = 4 /\ s[1] = 5 /\ s[2] = 2 /\ s[3] = 1 /\ s[4] = 0
        /\ t \in Seq(Nat) /\ Len(t) = 2 /\ t[1] = 5 /\ t[2] = 0
        /\ v \in Seq(Nat) /\ Len(v) = 6 /\ v[1] = 5 /\ v[2] = 2 /\ v[3] = 1 /\ v[4] = 0
        /\ v[5] = 5 /\ v[6] = 0
    OBVIOUS
  <2>. HIDE DEF s, t, v
  <2>2. \A i \in 1..4 : v[i] = s[i]
    BY <2>1
  <2>3. Len(v) = Len(s) + 2 /\ v[Len(s) + 1] = t[1] /\ v[Len(s) + 2] = t[2]
    BY <2>1
  <2>4. s \o t = v
    BY <1>1, <2>1, <2>2, <2>3
  <2>. QED  BY <2>4 DEF s, t, v
<1>. QED  BY <1>2, <1>3

\* A dialogue with a client that says r goes on as long as only others move.
LEMMA DialogueOutside ==
  ASSUME TypeOK, NEW R, Greeted(R), NEW r, NEW T, \A t \in T : IsRound(t), IsRound(r),
         Speaks(<<>>, r, T), Waits(T \ {r}), Outside
  PROVE  Greeted(R)' /\ Speaks(<<>>, r, T)' /\ UNCHANGED <<state, pc, protocol>>
<1>1. UNCHANGED <<state, pc, protocol, replies, toTarget, target, tls_stream>>
  BY OutsideFrame
<1>2. Greeted(R)'
  BY <1>1 DEF Greeted
<1>3. <<>> \in Seq(Nat) /\ r.send \in Seq(Nat) /\ \A t \in T : t.send \in Seq(Nat)
  BY DEF IsRound
<1>4. Speaks(<<>>, r, T)'
  BY <1>3, OutsideSpeaks
<1>. QED  BY <1>1, <1>2, <1>4

\* Without authentication: the request names the target, and nothing of it is left.
LEMMA RequestStep ==
  ASSUME TypeOK, NEW c, NEW g, NEW u, NEW q, NEW a, NEW p, Socks5Says(c, g, u, q, a, p),
         AwaitsRequest(u, q, a, p), [Next]_vars
  PROVE  \/ AwaitsRequest(u, q, a, p)'
         \/ Tunnel(c, <<>>, p, {u, a, p})'
         \/ (Closed(c, c.payload) /\ Spared)'
<1> DEFINE m == q.send
<1>1. /\ IsRound(u) /\ IsRound(q) /\ IsRound(a) /\ IsRound(p) /\ c.payload \in Seq(Nat)
      /\ Socks5Request(m, c.wants)
  BY DEF Socks5Says
<1>2. /\ Greeted(<<5, 0>>) /\ Speaks(<<>>, q, {u, q, a, p}) /\ pc = "parse5"
      /\ toTarget = <<>> /\ replies = <<5, 0>> /\ tls_stream = FALSE
  BY DEF AwaitsRequest, Greeted
<1>3. {u, q, a, p} \ {q} = {u, a, p} /\ {u, a, p} \ {p} = {u, a} /\ Waits({u, a, p}) /\ Never({u, a})
  <2>1. {u, q, a, p} \ {q} = {u, a, p} /\ {u, a, p} \ {p} = {u, a}
    BY Socks5Rounds
  <2>2. replies = <<5, 0>> => Waits({u, a, p}) /\ Never({u, a})
    BY Socks5Waits
  <2>. QED  BY <1>2, <2>1, <2>2
<1>4. m \in Seq(Nat) /\ inbox \in Seq(Nat)
  BY <1>1 DEF IsRound, TypeOK
<1>5. Begins(inbox, m) /\ (inbox # <<>> => Sent(m, {u, a, p}))
  <2>1. q.send \in Seq(Nat)
    BY <1>4
  <2>2. Begins(inbox, q.send) /\ (inbox # <<>> => Sent(q.send, {u, q, a, p} \ {q}))
    BY <1>2, <2>1, InboxSpeaks
  <2>. QED  BY <1>3, <2>2
<1>6. CASE Outside
  <2>1. \A t \in {u, q, a, p} : IsRound(t)
    BY <1>1
  <2>2. Greeted(<<5, 0>>)' /\ Speaks(<<>>, q, {u, q, a, p})' /\ pc' = pc
    BY <1>1, <1>2, <1>3, <1>6, <2>1, DialogueOutside
  <2>. QED  BY <1>2, <2>2 DEF AwaitsRequest
<1>. HIDE DEF m
<1>7. CASE handle_client
  <2>1. UNCHANGED client
    BY <1>7, AtPc
  <2>2. ASSUME Ends, Excused' PROVE (Closed(c, c.payload) /\ Spared)'
    BY <1>1, <1>2, <2>2, EndsSpared
  <2>3. CASE peer_reset
    BY <1>7, <2>2, <2>3, ResetEnds
  <2>4. CASE parse_socks5_target
    <3>1. UNCHANGED <<tls_stream, toTarget>>
      BY <2>4 DEF parse_socks5_target, tunnel
    <3>2. Len(inbox) >= 4 => ~Socks5RequestBad
      BY <1>1, <1>5, RequestNotBad
    <3>3. \/ /\ Len(inbox) >= 4 /\ Socks5RequestEnd(inbox) # 0
             /\ Dial(Socks5RequestTarget(inbox))
             /\ inbox' = Drop(inbox, Socks5RequestEnd(inbox))
          \/ eof /\ Reject
      BY <2>4, <3>2 DEF parse_socks5_target
    <3>4. CASE eof /\ Reject
      <4>1. Ends
        BY <3>1, <3>4 DEF Ends, Reject, send_error_response, ReturnAfter
      <4>2. eof'
        BY <2>1, <3>4 DEF client
      <4>. QED  BY <2>2, <4>1, <4>2 DEF Excused, Lost
    <3>5. CASE /\ Len(inbox) >= 4 /\ Socks5RequestEnd(inbox) # 0
               /\ Dial(Socks5RequestTarget(inbox))
               /\ inbox' = Drop(inbox, Socks5RequestEnd(inbox))
      <4>1. inbox = m /\ Socks5RequestEnd(m) = Len(m) /\ Len(m) >= 7
        BY <1>1, <1>4, <1>5, <3>5, RequestComplete DEF Socks5Request, Socks5Connect
      <4>2. Socks5RequestTarget(m) \in c.wants
        BY <1>1, <4>1 DEF Socks5Request, Socks5Connect, Socks5RequestTarget, U16
      <4>3. target' \in c.wants /\ pc' = "connect"
        BY <3>5, <4>1, <4>2 DEF Dial
      <4>4. inbox' = Drop(inbox, Len(inbox)) /\ m # <<>>
        BY <3>5, <4>1
      <4>5. Sent(<<>>, {u, a, p})'
        BY <1>2, <1>4, <1>5, <2>1, <3>1, <4>1, <4>4, WholeRead
      <4>6. replies' = replies
        BY <3>5 DEF Dial
      <4>7. Never({u, a, p} \ {p})'
        BY <1>3, <4>6 DEF Never
      <4>8. Speaks(<<>>, p, {u, a, p})'
        BY <4>5 DEF Speaks
      <4>9. Tunnel(c, <<>>, p, {u, a, p})'
        BY <1>2, <3>1, <4>3, <4>7, <4>8 DEF Tunnel
      <4>. QED  BY <4>9
    <3>. QED  BY <3>3, <3>4, <3>5
  <2>. QED  BY <1>2, <1>7, <2>3, <2>4, AtPc
<1>. QED  BY <1>6, <1>7 DEF Next, Outside

\* With authentication: the message is read to its end, whatever it holds.
LEMMA UserPassStep ==
  ASSUME TypeOK, NEW c, NEW g, NEW u, NEW q, NEW a, NEW p, Socks5Says(c, g, u, q, a, p),
         AwaitsUserPass(u, q, a, p), [Next]_vars
  PROVE  \/ AwaitsUserPass(u, q, a, p)'
         \/ Authenticated(q, a, p)'
         \/ (Closed(c, c.payload) /\ Spared)'
<1> DEFINE m == u.send
<1>1. /\ IsRound(u) /\ IsRound(q) /\ IsRound(a) /\ IsRound(p) /\ c.payload \in Seq(Nat)
      /\ Socks5UserPass(m)
  BY DEF Socks5Says
<1>2. /\ Greeted(<<5, 2>>) /\ Speaks(<<>>, u, {u, q, a, p}) /\ pc = "auth5" /\ state.require_creds
      /\ toTarget = <<>> /\ replies = <<5, 2>>
  BY DEF AwaitsUserPass, Greeted
<1>3. {u, q, a, p} \ {u} = {q, a, p} /\ Waits({q, a, p})
  <2>1. {u, q, a, p} \ {u} = {q, a, p}
    BY Socks5Rounds
  <2>2. replies = <<5, 2>> => Waits({q, a, p})
    BY Socks5Waits
  <2>. QED  BY <1>2, <2>1, <2>2
<1>4. m \in Seq(Nat) /\ inbox \in Seq(Nat)
  BY <1>1 DEF IsRound, TypeOK
<1>5. Begins(inbox, m) /\ (inbox # <<>> => Sent(m, {q, a, p}))
  <2>1. u.send \in Seq(Nat)
    BY <1>4
  <2>2. Begins(inbox, u.send) /\ (inbox # <<>> => Sent(u.send, {u, q, a, p} \ {u}))
    BY <1>2, <2>1, InboxSpeaks
  <2>. QED  BY <1>3, <2>2
<1>6. CASE Outside
  <2>1. \A t \in {u, q, a, p} : IsRound(t)
    BY <1>1
  <2>2. Greeted(<<5, 2>>)' /\ Speaks(<<>>, u, {u, q, a, p})' /\ pc' = pc /\ state' = state
    BY <1>1, <1>2, <1>3, <1>6, <2>1, DialogueOutside
  <2>. QED  BY <1>2, <2>2 DEF AwaitsUserPass
<1>. HIDE DEF m
<1>7. CASE handle_client
  <2>1. UNCHANGED client /\ state' = state /\ Excused'
    BY <1>2, <1>7, AtPc, TaskExcused DEF Excused
  <2>2. ASSUME Ends PROVE (Closed(c, c.payload) /\ Spared)'
    BY <1>1, <1>2, <2>1, <2>2, EndsSpared
  <2>3. CASE peer_reset
    BY <1>7, <2>2, <2>3, ResetEnds
  <2>4. CASE authenticate_socks5_userpass
    <3>1. UNCHANGED <<tls_stream, target, toTarget>>
      BY <2>4 DEF authenticate_socks5_userpass, tunnel
    <3>2. \/ pc' = "done"
          \/ /\ Socks5UserPassEnd(inbox) # 0 /\ pc' = "redetect"
             /\ inbox' = Drop(inbox, Socks5UserPassEnd(inbox))
             /\ replies' = replies \o <<1, 0>>
      BY <2>4 DEF authenticate_socks5_userpass, Return, ReturnAfter
    <3>3. CASE pc' = "done"
      BY <2>2, <3>1, <3>3 DEF Ends
    <3>4. CASE /\ Socks5UserPassEnd(inbox) # 0 /\ pc' = "redetect"
               /\ inbox' = Drop(inbox, Socks5UserPassEnd(inbox))
               /\ replies' = replies \o <<1, 0>>
      <4>1. inbox = m /\ Socks5UserPassEnd(inbox) = Len(inbox)
        BY <1>1, <1>4, <1>5, <3>4, UserPassComplete
      <4>2. m # <<>>
        <5>1. Len(m) >= 2
          BY <1>1 DEF Socks5UserPass
        <5>. QED  BY <5>1
      <4>3. Sent(<<>>, {q, a, p})'
        BY <1>2, <1>4, <1>5, <2>1, <3>1, <3>4, <4>1, <4>2, WholeRead
      <4>4. replies' = <<5, 2, 1, 0>>
        BY <1>2, <3>4, PairsAppended
      <4>5. Greeted(<<5, 2, 1, 0>>)'
        BY <1>2, <3>1, <4>4 DEF Greeted
      <4>6. Speaks(<<>>, a, {q, a, p})'
        BY <4>3 DEF Speaks
      <4>. QED  BY <1>2, <2>1, <3>4, <4>5, <4>6 DEF Authenticated
    <3>. QED  BY <3>2, <3>3, <3>4
  <2>. QED  BY <1>2, <1>7, <2>3, <2>4, AtPc
<1>. QED  BY <1>6, <1>7 DEF Next, Outside

\* Reading the greeting leaves nothing of it.
LEMMA GreetingRead ==
  ASSUME TypeOK, NEW c, NEW g, NEW u, NEW q, NEW a, NEW p, Socks5Says(c, g, u, q, a, p),
         Greeted(<<>>), Speaks(<<>>, g, c.rounds), UNCHANGED <<client, toTarget>>,
         Socks5GreetingEnd(inbox) # 0, inbox' = Drop(inbox, Socks5GreetingEnd(inbox))
  PROVE  Sent(<<>>, {u, q, a, p})'
<1> DEFINE m == g.send
<1>1. Socks5Greeting(m) /\ m \in Seq(Nat) /\ toTarget = <<>> /\ inbox \in Seq(Nat)
  BY DEF Socks5Says, Socks5Greeting, Greeted, TypeOK
<1>2. c.rounds \ {g} = {u, q, a, p}
  BY Socks5Rounds
<1>3. Begins(inbox, m) /\ (inbox # <<>> => Sent(m, {u, q, a, p}))
  BY <1>1, <1>2, InboxSpeaks
<1>. HIDE DEF m
<1>4. inbox = m /\ inbox' = Drop(inbox, Len(inbox))
  BY <1>1, <1>3, GreetingComplete
<1>5. m # <<>>
  <2>1. Len(m) >= 2
    BY <1>1 DEF Socks5Greeting
  <2>. QED  BY <2>1
<1>. QED  BY <1>1, <1>3, <1>4, <1>5, WholeRead

\* What a SOCKS5 client has sent of a greeting or a request is detected by its first byte.
LEMMA Socks5Starts ==
  ASSUME NEW m \in Seq(Nat), Len(m) >= 2, m[1] = 5, NEW s \in Seq(Nat), Begins(s, m)
  PROVE  /\ s # <<>> => s[1] = 5
         /\ Len(s) >= 2 => s[1] = 5 /\ s[2] = m[2]
         /\ detect_protocol(PeekBuf(s)) \in {"SOCKS5", "TCP"}
<1>1. Len(s) \in Nat /\ (s # <<>> => Len(s) >= 1)
  BY EmptySeq, LenProperties
<1>2. Len(s) >= 1 => s[1] = 5
  BY <1>1 DEF Begins
<1>3. Len(s) >= 2 => s[2] = m[2]
  BY <1>1 DEF Begins
<1>4. s = <<>> \/ (s # <<>> /\ s[1] = 5)
  BY <1>1, <1>2
<1>5. detect_protocol(PeekBuf(s)) \in {"SOCKS5", "TCP"}
  BY <1>4, DetectsByte
<1>6. Len(s) >= 2 => Len(s) >= 1
  BY <1>1
<1>. QED  BY <1>1, <1>2, <1>3, <1>5, <1>6

\* The greeting is answered, with or without authentication.
LEMMA Socks5Greets ==
  ASSUME TypeOK, NEW c, NEW g, NEW u, NEW q, NEW a, NEW p, Socks5Says(c, g, u, q, a, p),
         Opening(g, c.rounds, {"SOCKS5"}), TcpByTimeout, [Next]_vars
  PROVE  \/ (Opening(g, c.rounds, {"SOCKS5"}) /\ TcpByTimeout)'
         \/ AwaitsRequest(u, q, a, p)' \/ AwaitsUserPass(u, q, a, p)'
         \/ (Closed(c, c.payload) /\ Spared)'
<1> DEFINE m == g.send
<1>1. /\ IsRound(g) /\ g.need = <<>> /\ Socks5Greeting(m) /\ m \in Seq(Nat) /\ c.payload \in Seq(Nat)
      /\ \A r \in c.rounds : IsRound(r)
  BY DEF Socks5Says, Socks5Greeting
<1>2. g \in c.rounds /\ \A r \in c.rounds \ {g} : r.need # <<>>
  BY Socks5Rounds
<1>3. /\ Greeted(<<>>) /\ Speaks(<<>>, g, c.rounds) /\ pc \in {"detect", "auth", "redetect", "parse"}
      /\ toTarget = <<>> /\ replies = <<>> /\ inbox \in Seq(Nat)
      /\ (pc = "auth" => state.require_creds /\ protocol = "SOCKS5")
      /\ (pc = "parse" => protocol \in {"SOCKS5", "TCP"})
  BY DEF Opening, Greeted, TypeOK
<1>4. m[1] = 5 /\ Len(m) >= 2 /\ Len(m) >= 1
  BY <1>1 DEF Socks5Greeting
<1>5. CASE Outside
  BY <1>1, <1>2, <1>5, OpeningOutside, TimeoutOutside
<1>6. CASE handle_client
  <2>1. UNCHANGED client /\ state' = state /\ (Excused => Excused')
    BY <1>6, AtPc, TaskExcused
  <2>2. ASSUME Ends, Excused' PROVE (Closed(c, c.payload) /\ Spared)'
    BY <1>1, <1>3, <2>2, EndsSpared
  <2>3. CASE pc \in {"detect", "redetect"}
    <3>1. (Opening(g, c.rounds, {"SOCKS5"}) /\ TcpByTimeout)' \/ (Ends /\ Excused')
      BY <1>1, <1>2, <1>4, <1>6, <2>3, SocksDetects
    <3>. QED  BY <2>2, <3>1
  <2>4. CASE peer_reset
    BY <1>6, <2>2, <2>4, ResetEnds
  <2>5. ASSUME NEW R, replies' = replies \o R, R \in Seq(Nat), UNCHANGED <<tls_stream, target, toTarget>>,
               Socks5GreetingEnd(inbox) # 0, inbox' = Drop(inbox, Socks5GreetingEnd(inbox))
        PROVE  Greeted(R)' /\ Sent(<<>>, {u, q, a, p})'
    <3>1. replies' = R
      BY <1>3, <2>5, CatEmpty
    <3>2. Greeted(R)'
      BY <1>3, <2>5, <3>1 DEF Greeted
    <3>. QED  BY <1>3, <2>1, <2>5, <3>2, GreetingRead
  <2>6. <<5, 0>> \in Seq(Nat) /\ <<5, 2>> \in Seq(Nat)
    OBVIOUS
  <2>7. CASE pc = "auth" /\ authenticate_socks5
    <3>1. UNCHANGED <<tls_stream, target, toTarget>> /\ state.require_creds /\ Excused'
      BY <1>3, <2>1, <2>7 DEF authenticate_socks5, tunnel, Excused
    <3>2. \/ pc' = "done"
          \/ /\ Socks5GreetingEnd(inbox) # 0 /\ pc' = "auth5"
             /\ inbox' = Drop(inbox, Socks5GreetingEnd(inbox))
             /\ replies' = replies \o <<5, 2>>
      BY <2>7 DEF authenticate_socks5, Return, ReturnAfter
    <3>3. CASE pc' = "done"
      BY <2>2, <3>1, <3>3 DEF Ends
    <3>4. CASE /\ Socks5GreetingEnd(inbox) # 0 /\ pc' = "auth5"
               /\ inbox' = Drop(inbox, Socks5GreetingEnd(inbox))
               /\ replies' = replies \o <<5, 2>>
      <4>1. Greeted(<<5, 2>>)' /\ Sent(<<>>, {u, q, a, p})'
        BY <2>5, <2>6, <3>1, <3>4
      <4>2. Speaks(<<>>, u, {u, q, a, p})'
        BY <4>1 DEF Speaks
      <4>3. AwaitsUserPass(u, q, a, p)'
        BY <2>1, <3>1, <3>4, <4>1, <4>2 DEF AwaitsUserPass
      <4>. QED  BY <4>3
    <3>. QED  BY <3>2, <3>3, <3>4
  <2>8. Begins(inbox, m)
    BY <1>1, <1>3, InboxSpeaks
  <2>9. (inbox # <<>> => inbox[1] = 5) /\ (Len(inbox) >= 2 => inbox[1] = 5)
    BY <1>1, <1>3, <1>4, <2>8, Socks5Starts
  <2>10. CASE pc = "parse" /\ protocol = "SOCKS5" /\ parse_socks5_greeting
    <3>1. UNCHANGED <<tls_stream, toTarget>>
      BY <2>10 DEF parse_socks5_greeting, tunnel
    <3>2. \/ /\ Socks5GreetingEnd(inbox) # 0 /\ pc' = "parse5"
             /\ inbox' = Drop(inbox, Socks5GreetingEnd(inbox))
             /\ replies' = replies \o <<5, 0>> /\ target' = target
          \/ eof /\ Reject
      BY <2>9, <2>10 DEF parse_socks5_greeting
    <3>3. CASE eof /\ Reject
      <4>1. Ends
        BY <3>1, <3>3 DEF Ends, Reject, send_error_response, ReturnAfter
      <4>2. eof'
        BY <2>1, <3>3 DEF client
      <4>. QED  BY <2>2, <4>1, <4>2 DEF Excused, Lost
    <3>4. CASE /\ Socks5GreetingEnd(inbox) # 0 /\ pc' = "parse5"
               /\ inbox' = Drop(inbox, Socks5GreetingEnd(inbox))
               /\ replies' = replies \o <<5, 0>> /\ target' = target
      <4>1. Greeted(<<5, 0>>)' /\ Sent(<<>>, {u, q, a, p})'
        BY <2>5, <2>6, <3>1, <3>4
      <4>2. Speaks(<<>>, q, {u, q, a, p})'
        BY <4>1 DEF Speaks
      <4>3. AwaitsRequest(u, q, a, p)'
        BY <3>4, <4>1, <4>2 DEF AwaitsRequest
      <4>. QED  BY <4>3
    <3>. QED  BY <3>2, <3>3, <3>4
  <2>11. CASE pc = "parse" /\ protocol = "TCP"
    <3>1. inbox # <<>> => inbox[1] > 4
      BY <2>9
    <3>2. Ends
      BY <1>6, <2>11, <3>1, MisreadEnds
    <3>. QED  BY <2>1, <2>2, <2>11, <3>2 DEF TcpByTimeout
  <2>. QED  BY <1>3, <1>6, <2>3, <2>4, <2>7, <2>10, <2>11, AtPc
<1>. QED  BY <1>5, <1>6 DEF Next, Outside

\* The request after the authentication is taken for a greeting of three units.
LEMMA AuthenticatedStep ==
  ASSUME TypeOK, NEW c, NEW g, NEW u, NEW q, NEW a, NEW p, Socks5Says(c, g, u, q, a, p),
         Authenticated(q, a, p), [Next]_vars
  PROVE  \/ Authenticated(q, a, p)' \/ Misheard(q, a, p)'
         \/ (Closed(c, c.payload) /\ Spared)'
<1> DEFINE m == a.send
<1>1. /\ IsRound(q) /\ IsRound(a) /\ IsRound(p) /\ c.payload \in Seq(Nat)
      /\ m \in Seq(Nat) /\ Len(m) >= 7 /\ m[1] = 5 /\ m[2] = 1
  BY DEF Socks5Says, Socks5Request, Socks5Connect
<1>2. /\ Greeted(<<5, 2, 1, 0>>) /\ Speaks(<<>>, a, {q, a, p}) /\ state.require_creds
      /\ pc \in {"redetect", "parse"} /\ (pc = "parse" => protocol \in {"SOCKS5", "TCP"})
      /\ toTarget = <<>> /\ replies = <<5, 2, 1, 0>> /\ inbox \in Seq(Nat) /\ tls_stream = FALSE
  BY DEF Authenticated, Greeted, TypeOK
<1>3. {q, a, p} \ {a} = {q, p} /\ Waits({q, p})
  <2>1. {q, a, p} \ {a} = {q, p}
    BY Socks5Rounds
  <2>2. replies = <<5, 2, 1, 0>> => Waits({q, p})
    BY Socks5Waits
  <2>. QED  BY <1>2, <2>1, <2>2
<1>4. CASE Outside
  <2>1. \A t \in {q, a, p} : IsRound(t)
    BY <1>1
  <2>2. /\ Greeted(<<5, 2, 1, 0>>)' /\ Speaks(<<>>, a, {q, a, p})'
        /\ pc' = pc /\ state' = state /\ protocol' = protocol
    BY <1>1, <1>2, <1>3, <1>4, <2>1, DialogueOutside
  <2>. QED  BY <1>2, <2>2 DEF Authenticated
<1>5. Begins(inbox, m) /\ (inbox # <<>> => Sent(m, {q, p}))
  BY <1>1, <1>2, <1>3, InboxSpeaks
<1>6. /\ inbox # <<>> => inbox[1] = 5
      /\ Len(inbox) >= 2 => inbox[1] = 5 /\ inbox[2] = m[2]
      /\ detect_protocol(PeekBuf(inbox)) \in {"SOCKS5", "TCP"}
  <2>. HIDE DEF m
  <2>1. Len(m) >= 2
    BY <1>1
  <2>. QED  BY <1>1, <1>2, <1>5, <2>1, Socks5Starts
<1>7. CASE handle_client
  <2>1. UNCHANGED client /\ state' = state /\ Excused'
    BY <1>2, <1>7, AtPc, TaskExcused DEF Excused
  <2>2. ASSUME Ends PROVE (Closed(c, c.payload) /\ Spared)'
    BY <1>1, <1>2, <2>1, <2>2, EndsSpared
  <2>3. CASE peer_reset
    BY <1>7, <2>2, <2>3, ResetEnds
  <2>4. CASE redetect_protocol
    <3>1. /\ UNCHANGED <<inbox, replies, tls_stream, target, toTarget>>
          /\ protocol' \in {"SOCKS5", "TCP"} /\ pc' = "parse"
      BY <1>2, <1>6, <2>4 DEF redetect_protocol, tunnel
    <3>2. Speaks(<<>>, a, {q, a, p})'
      BY <1>2, <2>1, <3>1, UnreadSent DEF Speaks
    <3>3. Greeted(<<5, 2, 1, 0>>)'
      BY <1>2, <3>1 DEF Greeted
    <3>. QED  BY <1>2, <2>1, <3>1, <3>2, <3>3 DEF Authenticated
  <2>5. CASE pc = "parse" /\ protocol = "TCP"
    <3>1. inbox # <<>> => inbox[1] > 4
      BY <1>6
    <3>2. Ends
      BY <1>7, <2>5, <3>1, MisreadEnds
    <3>. QED  BY <2>2, <3>2
  <2>6. CASE parse_socks5_greeting
    <3>1. UNCHANGED <<tls_stream, toTarget>>
      BY <2>6 DEF parse_socks5_greeting, tunnel
    <3>2. \/ /\ Socks5GreetingEnd(inbox) # 0 /\ pc' = "parse5"
             /\ inbox' = Drop(inbox, Socks5GreetingEnd(inbox))
             /\ replies' = replies \o <<5, 0>> /\ target' = target
          \/ Reject
      BY <2>6 DEF parse_socks5_greeting
    <3>3. CASE Reject
      <4>1. Ends
        BY <3>1, <3>3 DEF Ends, Reject, send_error_response, ReturnAfter
      <4>. QED  BY <2>2, <4>1
    <3>4. CASE /\ Socks5GreetingEnd(inbox) # 0 /\ pc' = "parse5"
               /\ inbox' = Drop(inbox, Socks5GreetingEnd(inbox))
               /\ replies' = replies \o <<5, 0>> /\ target' = target
      <4>1. Len(inbox) >= 2 /\ Socks5GreetingEnd(inbox) = 2 + inbox[2] /\ 2 + inbox[2] <= Len(inbox)
        BY <1>2, <3>4, GreetingEndOf
      <4>2. inbox[2] = 1
        BY <1>1, <1>6, <4>1
      <4>3. Socks5GreetingEnd(inbox) = 3 /\ 3 \in 0..Len(inbox) /\ inbox # <<>>
        BY <1>2, <4>1, <4>2, LenProperties
      <4>4. inbox' = Drop(inbox, 3) /\ Sent(m, {q, p})
        BY <1>5, <3>4, <4>3
      <4>5. Sent(Drop(m, 3), {q, p})'
        BY <1>1, <1>2, <2>1, <3>1, <4>3, <4>4, ReadSent
      <4>6. replies' = <<5, 2, 1, 0, 5, 0>>
        BY <1>2, <3>4, PairsAppended
      <4>7. Greeted(<<5, 2, 1, 0, 5, 0>>)'
        BY <1>2, <3>1, <3>4, <4>6 DEF Greeted
      <4>8. Misheard(q, a, p)'
        BY <1>2, <2>1, <3>4, <4>5, <4>7 DEF Misheard
      <4>. QED  BY <4>8
    <3>. QED  BY <3>2, <3>3, <3>4
  <2>. QED  BY <1>2, <1>7, <2>3, <2>4, <2>5, <2>6, AtPc
<1>. QED  BY <1>4, <1>7 DEF Next, Outside

\* And the rest of it, which begins with the address type, for a bad request.
LEMMA MisheardStep ==
  ASSUME TypeOK, NEW c, NEW g, NEW u, NEW q, NEW a, NEW p, Socks5Says(c, g, u, q, a, p),
         Misheard(q, a, p), [Next]_vars
  PROVE  Misheard(q, a, p)' \/ (Closed(c, c.payload) /\ Spared)'
<1> DEFINE m == a.send
           K == Drop(m, 3)
<1>1. /\ IsRound(q) /\ IsRound(a) /\ IsRound(p) /\ c.payload \in Seq(Nat)
      /\ m \in Seq(Nat) /\ Len(m) >= 7 /\ m[4] \in {1, 3, 4}
  BY DEF Socks5Says, Socks5Request, Socks5Connect
<1>2. /\ Greeted(<<5, 2, 1, 0, 5, 0>>) /\ Sent(K, {q, p}) /\ state.require_creds /\ pc = "parse5"
      /\ toTarget = <<>> /\ replies = <<5, 2, 1, 0, 5, 0>> /\ inbox \in Seq(Nat)
  BY DEF Misheard, Greeted, TypeOK
<1>3. K \in Seq(Nat) /\ K[1] = m[4] /\ Len(m) \in Nat
  <2>1. 3 \in 0..Len(m) /\ 1 \in 1..(Len(m) - 3) /\ Len(m) \in Nat
    BY <1>1, LenProperties
  <2>. HIDE DEF m
  <2>2. Drop(m, 3) \in Seq(Nat) /\ \A i \in 1..(Len(m) - 3) : Drop(m, 3)[i] = m[3 + i]
    BY <1>1, <2>1, DropOf
  <2>3. Drop(m, 3)[1] = m[3 + 1] /\ 3 + 1 = 4
    BY <2>1, <2>2
  <2>. QED  BY <2>1, <2>2, <2>3
<1>4. CASE Outside
  <2>1. Waits({q, p})
    BY <1>2, Socks5Waits
  <2>2. \A t \in {q, p} : t.send \in Seq(Nat)
    BY <1>1 DEF IsRound
  <2>3. Sent(K, {q, p})'
    <3>. HIDE DEF K
    <3>. QED  BY <1>2, <1>3, <1>4, <2>1, <2>2, OutsideSilent
  <2>4. UNCHANGED <<state, replies, pc, tls_stream, target, toTarget>>
    BY <1>4, OutsideFrame
  <2>5. Greeted(<<5, 2, 1, 0, 5, 0>>)'
    BY <1>2, <2>4 DEF Greeted
  <2>6. Misheard(q, a, p)'
    BY <1>2, <2>3, <2>4, <2>5 DEF Misheard
  <2>. QED  BY <2>6
<1>5. CASE handle_client
  <2>1. Excused'
    BY <1>2, <1>5, TaskExcused DEF Excused
  <2>2. ASSUME Ends PROVE (Closed(c, c.payload) /\ Spared)'
    BY <1>1, <1>2, <2>1, <2>2, EndsSpared
  <2>3. CASE peer_reset
    BY <1>5, <2>2, <2>3, ResetEnds
  <2>4. CASE parse_socks5_target
    <3>1. toTarget' = toTarget
      BY <2>4 DEF parse_socks5_target, tunnel
    <3>2. ASSUME Len(inbox) >= 4 PROVE Socks5RequestBad
      <4>1. Begins(inbox, K)
        <5>. HIDE DEF K
        <5>. QED  BY <1>2, <1>3, InboxSent
      <4>2. 1 \in 1..Len(inbox) /\ Len(inbox) >= 2
        BY <1>2, <3>2, LenProperties
      <4>3. inbox[1] = m[4]
        BY <1>3, <4>1, <4>2 DEF Begins
      <4>4. Take(inbox, 2) = <<inbox[1], inbox[2]>>
        BY <1>2, <4>2, TakeTwo
      <4>5. <<inbox[1], inbox[2]>> # <<5, 1>>
        BY <1>1, <4>3
      <4>. QED  BY <4>4, <4>5 DEF Socks5RequestBad
    <3>3. Reject
      BY <2>4, <3>2 DEF parse_socks5_target
    <3>4. Ends
      BY <3>1, <3>3 DEF Ends, Reject, send_error_response, ReturnAfter
    <3>. QED  BY <2>2, <3>4
  <2>. QED  BY <1>2, <1>5, <2>3, <2>4, AtPc
<1>. QED  BY <1>4, <1>5 DEF Next, Outside

\* The invariant of a SOCKS5 client is inductive.
LEMMA Socks5Step ==
  ASSUME TypeOK, NEW c, NEW g, NEW u, NEW q, NEW a, NEW p, Socks5Says(c, g, u, q, a, p),
         Socks5Inv(c, g, u, q, a, p), [Next]_vars
  PROVE  Socks5Inv(c, g, u, q, a, p)'
<1>1. CASE Opening(g, c.rounds, {"SOCKS5"}) /\ TcpByTimeout
  BY <1>1, Socks5Greets DEF Socks5Inv
<1>2. CASE AwaitsRequest(u, q, a, p)
  BY <1>2, RequestStep DEF Socks5Inv
<1>3. CASE AwaitsUserPass(u, q, a, p)
  BY <1>3, UserPassStep DEF Socks5Inv
<1>4. CASE Authenticated(q, a, p)
  BY <1>4, AuthenticatedStep DEF Socks5Inv
<1>5. CASE Misheard(q, a, p)
  BY <1>5, MisheardStep DEF Socks5Inv
<1>6. CASE Tunnel(c, <<>>, p, {u, a, p})
  <2> DEFINE T == {u, a, p}
             h == <<>>
  <2>1. /\ c.payload \in Seq(Nat) /\ RealTargets(c) /\ IsRound(p) /\ (\A r \in T : IsRound(r))
        /\ h \in Seq(Nat) /\ h \o p.send = c.payload /\ Tunnel(c, h, p, T)
    BY <1>6, CatEmpty DEF Socks5Says
  <2>. HIDE DEF T, h
  <2>2. Tunnel(c, h, p, T)' \/ (Closed(c, c.payload) /\ Spared)'
    BY <2>1, TunnelSpared
  <2>. QED  BY <2>2 DEF T, h, Socks5Inv
<1>7. CASE Closed(c, c.payload) /\ Spared
  BY <1>7, ClosedStep DEF Socks5Inv
<1>. QED  BY <1>1, <1>2, <1>3, <1>4, <1>5, <1>6, <1>7 DEF Socks5Inv
-----------------------------------------------------------------------------
\* What the valid clients of the other kinds say.
TcpSays(c, r) ==
  /\ c.rounds = {r} /\ IsRound(r) /\ c.payload \in Seq(Nat) /\ RealTargets(c)
  /\ TcpMessage(c, r.send) /\ r.need = <<>>
Socks4Says(c, r, p) ==
  /\ c.rounds = {r, p} /\ IsRound(r) /\ IsRound(p) /\ r.need = <<>> /\ p.need # <<>>
  /\ p.send = c.payload /\ RealTargets(c) /\ Socks4Message(r.send)
  /\ Target(SubSeq(r.send, 5, 8), 256 * r.send[3] + r.send[4]) \in c.wants
HttpSays(c, r, p) ==
  /\ c.rounds = {r, p} /\ IsRound(r) /\ IsRound(p) /\ r.need = <<>> /\ p.need # <<>>
  /\ p.send = c.payload /\ c.payload \in Seq(Nat) /\ HttpMessage(r.send)
  /\ HttpLineTarget(Take(r.send, LineLength(r.send))) \in c.wants \cup {NoTarget}

\* The four kinds of clients whose handshake the invariants describe.
IsTcp(c)    == c.valid /\ c.kind = "TCP"
IsSocks4(c) == c.valid /\ c.kind = "SOCKS4"
IsSocks5(c) == c.valid /\ c.kind = "SOCKS5"
IsHttp(c)   == c.kind \in {"CONNECT", "HTTP"}

\* No target that is asked for has the port of NoTarget, and what is said and asked
\* for has its type.
LEMMA ClientsAreTyped ==
  ASSUME NEW c \in Clients
  PROVE  /\ RealTargets(c) /\ c.payload \in Seq(Nat) /\ \A r \in c.rounds : IsRound(r)
<1>1. ClientType(c)
  BY SessionAssumption
<1>2. ASSUME NEW t \in c.wants PROVE t # NoTarget
  <2>1. t.port \in Nat
    BY <1>1 DEF ClientType
  <2>2. NoTarget.port = -1
    BY DEF NoTarget
  <2>. QED  BY <2>1, <2>2
<1>. QED  BY <1>1, <1>2 DEF ClientType, RealTargets, IsRound

\* A valid TCP client says one message.
LEMMA TcpClients ==
  ASSUME NEW c \in Clients, IsTcp(c)
  PROVE  \E r \in c.rounds : TcpSays(c, r)
<1>1. TcpScript(c)
  BY SessionAssumption DEF ClientType, IsTcp
<1>2. PICK m \in Sends(c) :
        /\ Len(m) > 2 /\ m[1] < 256 /\ m[2] < 256
        /\ 256 * m[1] + m[2] \in 1..MaxTargetLength /\ 2 + 256 * m[1] + m[2] <= Len(m)
        /\ TcpText(SubSeq(m, 3, 2 + 256 * m[1] + m[2]), c.wants)
        /\ c.payload = Drop(m, 2 + 256 * m[1] + m[2])
        /\ c.rounds = {Round(<<>>, m)}
  BY <1>1 DEF TcpScript
<1> DEFINE r == Round(<<>>, m)
           l == TextLength(m)
           e == 2 + l
<1>3. r.need = <<>> /\ r.send = m
  BY DEF Round
<1>4. c.rounds = {r} /\ r \in c.rounds
  BY <1>2
<1>5. IsRound(r) /\ RealTargets(c) /\ c.payload \in Seq(Nat)
  BY <1>4, ClientsAreTyped
<1>. HIDE DEF r
<1>6. m \in Seq(Nat) /\ Len(m) \in Nat
  BY <1>3, <1>5, LenProperties DEF IsRound
<1>7. m[1] \in Nat /\ m[2] \in Nat
  <2>1. 1 \in 1..Len(m) /\ 2 \in 1..Len(m)
    BY <1>2, <1>6
  <2>. QED  BY <1>6, <2>1, ElementOfSeq
<1>8. l = 256 * m[1] + m[2] /\ l \in Nat /\ l \in 1..1024 /\ 2 + 256 * m[1] + m[2] = 2 + l
  BY <1>2, <1>7 DEF TextLength, MaxTargetLength
<1>9. /\ e \in Nat /\ e <= Len(m)
      /\ TcpText(SubSeq(m, 3, e), c.wants) /\ c.payload = Drop(m, e)
  BY <1>2, <1>8
<1>. HIDE DEF l, e
<1>10. ASSUME NEW i \in 3..e PROVE m[i] # 0
  <2> DEFINE t == SubSeq(m, 3, e)
             j == i - 2
  <2>1. \A k \in 3..e : m[k] \in Nat
    <3>1. \A k \in 3..e : k \in 1..Len(m)
      BY <1>6, <1>9
    <3>. QED  BY <1>6, <3>1, ElementOfSeq
  <2>2. /\ Len(t) = (IF 3 <= e THEN e - 3 + 1 ELSE 0)
        /\ \A k \in 1..(e - 3 + 1) : t[k] = m[3 + k - 1]
    BY <1>9, <2>1, SubSeqProperties
  <2>3. j \in 1..(e - 3 + 1) /\ 3 + j - 1 = i /\ Len(t) = e - 3 + 1
    BY <1>9, <2>2
  <2>4. 0 \notin Units(t)
    BY <1>9 DEF TcpText
  <2>. HIDE DEF t, j
  <2>5. t[j] = m[i] /\ j \in 1..Len(t)
    BY <2>2, <2>3
  <2>. QED  BY <2>4, <2>5 DEF Units
<1>11. TextTarget(SubSeq(m, 3, e)) \in c.wants
  BY <1>9, TextNames
<1>12. TcpMessage(c, m)
  BY <1>2, <1>6, <1>8, <1>9, <1>10, <1>11 DEF TcpMessage, l, e
<1>13. TcpSays(c, r)
  BY <1>3, <1>4, <1>5, <1>12 DEF TcpSays
<1>. QED  BY <1>4, <1>13

\* A valid SOCKS4 client says a request, and its payload after the reply.
LEMMA Socks4Clients ==
  ASSUME NEW c \in Clients, IsSocks4(c)
  PROVE  \E r, p \in c.rounds : Socks4Says(c, r, p)
<1>1. Socks4Script(c)
  BY SessionAssumption DEF ClientType, IsSocks4
<1>2. PICK m \in Sends(c) :
        /\ {n \in 9..Len(m) : m[n] = 0} = {Len(m)} /\ m[1] = 4 /\ m[2] = 1
        /\ Target(SubSeq(m, 5, 8), 256 * m[3] + m[4]) \in c.wants
        /\ c.rounds = {Round(<<>>, m), Round(send_socks4_response(TRUE), c.payload)}
  BY <1>1 DEF Socks4Script
<1> DEFINE r == Round(<<>>, m)
           p == Round(send_socks4_response(TRUE), c.payload)
<1>3. r.need = <<>> /\ r.send = m /\ p.send = c.payload /\ p.need = send_socks4_response(TRUE)
  BY DEF Round
<1>4. p.need # <<>>
  <2>1. Len(send_socks4_response(TRUE)) = 8
    BY DEF send_socks4_response
  <2>. HIDE DEF p
  <2>2. Len(p.need) = 8
    BY <1>3, <2>1
  <2>3. p.need = <<>> => Len(p.need) = 0
    OBVIOUS
  <2>. QED  BY <2>2, <2>3
<1>5. c.rounds = {r, p}
  BY <1>2
<1>. HIDE DEF r, p
<1>6. IsRound(r) /\ IsRound(p) /\ RealTargets(c)
  BY <1>5, ClientsAreTyped
<1>7. Socks4Message(m)
  <2>1. m \in Seq(Nat)
    BY <1>3, <1>6 DEF IsRound
  <2>2. Len(m) \in {n \in 9..Len(m) : m[n] = 0}
    BY <1>2
  <2>3. \A n \in 9..Len(m) : m[n] = 0 => n \in {Len(m)}
    BY <1>2
  <2>. QED  BY <1>2, <2>1, <2>2, <2>3 DEF Socks4Message
<1>8. Socks4Says(c, r, p)
  BY <1>2, <1>3, <1>4, <1>5, <1>6, <1>7 DEF Socks4Says
<1>. QED  BY <1>5, <1>8

\* A valid SOCKS5 client says a greeting, and what the method needs.
LEMMA Socks5Clients ==
  ASSUME NEW c \in Clients, IsSocks5(c)
  PROVE  \E g, u, q, a, p \in c.rounds : Socks5Says(c, g, u, q, a, p)
<1>1. Socks5Script(c)
  BY SessionAssumption DEF ClientType, IsSocks5
<1>2. PICK greeting \in Sends(c), userpass \in Sends(c), m \in Sends(c) :
        /\ Len(greeting) >= 2 /\ greeting[1] = 5 /\ Len(greeting) = 2 + greeting[2]
        /\ Len(userpass) >= 2 /\ userpass[1] = 1 /\ Socks5UserPassEnd(userpass) = Len(userpass)
        /\ Socks5Connect(m, c.wants)
        /\ c.rounds = {Round(<<>>, greeting), Round(<<5, 2>>, userpass), Round(<<5, 0>>, m),
                       Round(<<5, 2, 1, 0>>, m), Round(<<5, 0, 5, 0>>, c.payload)}
  BY <1>1 DEF Socks5Script
<1> DEFINE g == Round(<<>>, greeting)
           u == Round(<<5, 2>>, userpass)
           q == Round(<<5, 0>>, m)
           a == Round(<<5, 2, 1, 0>>, m)
           p == Round(<<5, 0, 5, 0>>, c.payload)
<1>3. /\ g.need = <<>> /\ u.need = <<5, 2>> /\ q.need = <<5, 0>>
      /\ a.need = <<5, 2, 1, 0>> /\ p.need = <<5, 0, 5, 0>>
  BY DEF Round
<1>4. g.send = greeting /\ u.send = userpass /\ q.send = m /\ a.send = m /\ p.send = c.payload
  BY DEF Round
<1>5. c.rounds = {g, u, q, a, p}
  BY <1>2
<1>. HIDE DEF g, u, q, a, p
<1>6. /\ \A r \in {g, u, q, a, p} : IsRound(r)
      /\ RealTargets(c) /\ c.payload \in Seq(Nat)
  BY <1>5, ClientsAreTyped
<1>7. greeting \in Seq(Nat) /\ userpass \in Seq(Nat) /\ m \in Seq(Nat)
  BY <1>4, <1>6 DEF IsRound
<1>8. Socks5Greeting(g.send) /\ Socks5UserPass(u.send) /\ Socks5Request(q.send, c.wants)
  BY <1>2, <1>4, <1>7 DEF Socks5Greeting, Socks5UserPass, Socks5Request
<1>9. Socks5Says(c, g, u, q, a, p)
  BY <1>3, <1>4, <1>5, <1>6, <1>8 DEF Socks5Says
<1>. QED  BY <1>5, <1>9

\* An HTTP client says a request, and its payload after the reply.
LEMMA HttpClients ==
  ASSUME NEW c \in Clients, IsHttp(c)
  PROVE  \E r, p \in c.rounds : HttpSays(c, r, p)
<1>1. HttpScript(c)
  BY SessionAssumption DEF ClientType, IsHttp
<1>2. PICK m \in Sends(c) :
        /\ PeekBuf(m) \in HttpPrefixes /\ LineLength(m) <= Len(m)
        /\ HttpLineTarget(Take(m, LineLength(m)))
             \in c.wants \cup IF c.valid THEN {} ELSE {NoTarget}
        /\ c.rounds = {Round(<<>>, m), Round(<<R200>>, c.payload)}
  BY <1>1 DEF HttpScript
<1> DEFINE r == Round(<<>>, m)
           p == Round(<<R200>>, c.payload)
<1>3. r.need = <<>> /\ r.send = m /\ p.send = c.payload /\ p.need = <<R200>>
  BY DEF Round
<1>4. p.need # <<>>
  <2>1. Len(<<R200>>) = 1 /\ Len(<<>>) = 0
    OBVIOUS
  <2>. HIDE DEF p
  <2>. QED  BY <1>3, <2>1
<1>5. c.rounds = {r, p}
  BY <1>2
<1>. HIDE DEF r, p
<1>6. IsRound(r) /\ IsRound(p) /\ c.payload \in Seq(Nat)
  BY <1>5, ClientsAreTyped
<1>7. HttpMessage(m) /\ HttpLineTarget(Take(m, LineLength(m))) \in c.wants \cup {NoTarget}
  BY <1>2, <1>3, <1>6 DEF HttpMessage, IsRound
<1>8. HttpSays(c, r, p)
  BY <1>3, <1>4, <1>5, <1>6, <1>7 DEF HttpSays
<1>. QED  BY <1>5, <1>8
-----------------------------------------------------------------------------
\* The invariant of the handshake, whoever the client is.
HandshakeOf(c) ==
  /\ IsTcp(c) => \E r \in c.rounds : TcpSays(c, r) /\ TcpInv(c, r)
  /\ IsSocks4(c) => \E r, p \in c.rounds : Socks4Says(c, r, p) /\ Socks4Inv(c, r, p)
  /\ IsSocks5(c) => \E g, u, q, a, p \in c.rounds :
                       Socks5Says(c, g, u, q, a, p) /\ Socks5Inv(c, g, u, q, a, p)
  /\ IsHttp(c) => \E r, p \in c.rounds : HttpSays(c, r, p) /\ HttpInv(c, r, p)
HandshakeInv == script \in Clients /\ HandshakeOf(script)

\* No step changes who the client is.
LEMMA SameClient == [Next]_vars => script' = script
<1>1. Outside => script' = script
  BY OutsideFrame
<1>2. handle_client => script' = script
  BY AtPc DEF client
<1>. QED  BY <1>1, <1>2 DEF Next, Outside

\* The invariant is inductive, for every client.
LEMMA StepHandshake == TypeOK /\ HandshakeInv /\ [Next]_vars => HandshakeInv'
<1> SUFFICES ASSUME TypeOK, HandshakeInv, [Next]_vars PROVE HandshakeInv'
  OBVIOUS
<1>1. PICK c \in Clients : script = c
  BY DEF HandshakeInv
<1>2. script' = c /\ HandshakeOf(c)
  BY <1>1, SameClient DEF HandshakeInv
<1>3. ASSUME IsTcp(c) PROVE (\E r \in c.rounds : TcpSays(c, r) /\ TcpInv(c, r))'
  <2>1. PICK r \in c.rounds : TcpSays(c, r) /\ TcpInv(c, r)
    BY <1>2, <1>3 DEF HandshakeOf
  <2>2. TcpInv(c, r)'
    BY <2>1, TcpStep DEF TcpSays
  <2>. QED  BY <2>1, <2>2
<1>4. ASSUME IsSocks4(c) PROVE (\E r, p \in c.rounds : Socks4Says(c, r, p) /\ Socks4Inv(c, r, p))'
  <2>1. PICK r \in c.rounds, p \in c.rounds : Socks4Says(c, r, p) /\ Socks4Inv(c, r, p)
    BY <1>2, <1>4 DEF HandshakeOf
  <2>2. Socks4Inv(c, r, p)'
    BY <2>1, Socks4Step DEF Socks4Says
  <2>. QED  BY <2>1, <2>2
<1>5. ASSUME IsSocks5(c)
      PROVE  (\E g, u, q, a, p \in c.rounds :
                 Socks5Says(c, g, u, q, a, p) /\ Socks5Inv(c, g, u, q, a, p))'
  <2>1. PICK g \in c.rounds, u \in c.rounds, q \in c.rounds, a \in c.rounds, p \in c.rounds :
           Socks5Says(c, g, u, q, a, p) /\ Socks5Inv(c, g, u, q, a, p)
    BY <1>2, <1>5 DEF HandshakeOf
  <2>2. Socks5Inv(c, g, u, q, a, p)'
    BY <2>1, Socks5Step
  <2>. QED  BY <2>1, <2>2
<1>6. ASSUME IsHttp(c) PROVE (\E r, p \in c.rounds : HttpSays(c, r, p) /\ HttpInv(c, r, p))'
  <2>1. PICK r \in c.rounds, p \in c.rounds : HttpSays(c, r, p) /\ HttpInv(c, r, p)
    BY <1>2, <1>6 DEF HandshakeOf
  <2>2. HttpInv(c, r, p)'
    BY <2>1, HttpStep DEF HttpSays
  <2>. QED  BY <2>1, <2>2
<1>7. HandshakeOf(c)'
  BY <1>3, <1>4, <1>5, <1>6, Zenon DEF HandshakeOf
<1>. QED  BY <1>2, <1>7 DEF HandshakeInv

\* At the accept nothing has been said.
LEMMA InitOpening ==
  ASSUME Init, NEW r, NEW protocols
  PROVE  Opening(r, script.rounds, protocols) /\ TcpByTimeout
<1>1. /\ toTarget = <<>> /\ inbox = <<>> /\ outbox = <<>> /\ replies = <<>> /\ pc = "detect"
      /\ todo = script.rounds /\ eof = FALSE /\ rst = FALSE
      /\ target = NoTarget /\ tls_stream = FALSE
  BY DEF Init
<1>2. (toTarget \o inbox) \o outbox = <<>>
  <2>1. <<>> \in Seq(Nat)
    OBVIOUS
  <2>. QED  BY <1>1, <2>1, CatEmpty
<1>3. Speaks(<<>>, r, script.rounds)
  BY <1>1, <1>2 DEF Speaks, Sent, Whole, Gone
<1>. QED  BY <1>1, <1>3 DEF Opening, Greeted, TcpByTimeout

\* So the invariant holds.
LEMMA InitHandshake == Init => HandshakeInv
<1> SUFFICES ASSUME Init PROVE HandshakeInv
  OBVIOUS
<1>1. PICK c \in Clients : script = c
  BY DEF Init
<1>2. \A r, protocols : Opening(r, c.rounds, protocols) /\ TcpByTimeout
  BY <1>1, InitOpening
<1>3. IsTcp(c) => \E r \in c.rounds : TcpSays(c, r) /\ TcpInv(c, r)
  BY <1>2, TcpClients DEF TcpInv
<1>4. IsSocks4(c) => \E r, p \in c.rounds : Socks4Says(c, r, p) /\ Socks4Inv(c, r, p)
  BY <1>2, Socks4Clients DEF Socks4Inv
<1>5. IsSocks5(c) => \E g, u, q, a, p \in c.rounds :
                        Socks5Says(c, g, u, q, a, p) /\ Socks5Inv(c, g, u, q, a, p)
  BY <1>2, Socks5Clients DEF Socks5Inv
<1>6. IsHttp(c) => \E r, p \in c.rounds : HttpSays(c, r, p) /\ HttpInv(c, r, p)
  BY <1>2, HttpClients DEF HttpInv
<1>. QED  BY <1>1, <1>3, <1>4, <1>5, <1>6 DEF HandshakeInv, HandshakeOf

\* And goes on holding.
LEMMA HandshakeHolds == Spec => [](TypeOK /\ HandshakeInv)
<1>1. TunnelInv => TypeOK
  BY DEF TunnelInv
<1>. QED  BY InitGate, StepGate, InitTunnel, StepTunnel, InitHandshake, StepHandshake, <1>1, PTL
          DEF Spec
-----------------------------------------------------------------------------
\* What the invariant says of the target and of a task that has returned.
Fate(c, P) ==
  /\ Begins(toTarget, P)
  /\ target \in c.wants \cup {NoTarget}

\* In the handshake the target is unnamed and has got nothing.
LEMMA GreetedFate ==
  ASSUME NEW R, Greeted(R), NEW c, NEW P \in Seq(Nat)
  PROVE  Fate(c, P)
BY BeginsEmpty DEF Greeted, Fate

\* From the dial on it has got the start of what it may get.
LEMMA TunnelFate ==
  ASSUME TypeOK, NEW c, NEW h \in Seq(Nat), NEW r, IsRound(r), NEW T, Tunnel(c, h, r, T)
  PROVE  Fate(c, h \o r.send) /\ pc # "done"
BY GotStart DEF Fate, Tunnel, IsRound

\* The client of the longest text.
Longest(c) == c.kind = "TCP" /\ \E m \in Sends(c) : Take(m, 2) = <<4, 0>>

\* It is the one whose length begins like SOCKS4.
LEMMA LongestStarts ==
  ASSUME NEW c, NEW r, IsTcp(c), TcpSays(c, r)
  PROVE  Longest(c) <=> r.send[1] = 4
<1> DEFINE m == r.send
<1>1. m \in Seq(Nat) /\ Len(m) >= 2
  BY LenProperties DEF TcpSays, TcpMessage
<1>2. m[1] = 4 => m[2] = 0
  BY TcpBytes DEF TcpSays
<1>3. Sends(c) = {m} /\ c.kind = "TCP"
  BY DEF Sends, TcpSays, IsTcp
<1>. HIDE DEF m
<1>4. Take(m, 2) = <<m[1], m[2]>>
  BY <1>1, TakeTwo
<1>5. <<m[1], m[2]>> = <<4, 0>> <=> m[1] = 4 /\ m[2] = 0
  OBVIOUS
<1>6. Longest(c) <=> m[1] = 4
  BY <1>2, <1>3, <1>4, <1>5 DEF Longest
<1>. QED  BY <1>6 DEF m

\* A valid TCP client.
LEMMA TcpFate ==
  ASSUME TypeOK, NEW c, HandshakeOf(c), IsTcp(c), c.payload \in Seq(Nat)
  PROVE  /\ Fate(c, c.payload)
         /\ pc = "done" => Spared \/ Longest(c)
         /\ Longest(c) => Excused \/ target = NoTarget
<1>1. PICK r \in c.rounds : TcpSays(c, r) /\ TcpInv(c, r)
  BY DEF HandshakeOf
<1>2. Longest(c) <=> r.send[1] = 4
  BY <1>1, LongestStarts
<1>3. CASE Opening(r, c.rounds, TakenFor(r.send))
  <2>1. Greeted(<<>>) /\ pc # "done"
    BY <1>3 DEF Opening
  <2>. QED  BY <2>1, GreetedFate DEF Greeted
<1>4. CASE Tunnel(c, c.payload, Nothing, {}) /\ (r.send[1] = 4 => Excused)
  <2> DEFINE none == {}
             h    == c.payload
             n    == Nothing
  <2>1. Tunnel(c, h, n, none) /\ IsRound(n) /\ h \in Seq(Nat) /\ h \o n.send = c.payload
    BY <1>4, CatEmpty DEF Nothing, Round, IsRound
  <2>. HIDE DEF none, h, n
  <2>2. Fate(c, c.payload) /\ pc # "done"
    BY <2>1, TunnelFate
  <2>. QED  BY <1>2, <1>4, <2>2
<1>5. CASE /\ Closed(c, c.payload)
           /\ IF r.send[1] = 4 THEN Excused \/ target = NoTarget ELSE Spared
  BY <1>2, <1>5 DEF Closed, Fate
<1>. QED  BY <1>1, <1>3, <1>4, <1>5 DEF TcpInv

\* A valid SOCKS or TCP client.
LEMMA PlainFate ==
  ASSUME TypeOK, NEW c, HandshakeOf(c), IsTcp(c) \/ IsSocks4(c) \/ IsSocks5(c),
         c.payload \in Seq(Nat)
  PROVE  Fate(c, c.payload) /\ (pc = "done" => Spared \/ Longest(c))
<1>1. CASE IsTcp(c)
  BY <1>1, TcpFate
<1>2. ASSUME NEW p, NEW T, IsRound(p), p.send = c.payload, Tunnel(c, <<>>, p, T)
      PROVE  Fate(c, c.payload) /\ pc # "done"
  <2>1. <<>> \o p.send = c.payload /\ <<>> \in Seq(Nat)
    BY <1>2, CatEmpty
  <2>2. Fate(c, <<>> \o p.send) /\ pc # "done"
    <3> DEFINE h == <<>>
    <3>1. h \in Seq(Nat) /\ Tunnel(c, h, p, T)
      BY <1>2, <2>1
    <3>. HIDE DEF h
    <3>2. Fate(c, h \o p.send) /\ pc # "done"
      BY <1>2, <3>1, TunnelFate
    <3>. QED  BY <3>2 DEF h
  <2>. QED  BY <2>1, <2>2
<1>3. CASE IsSocks4(c)
  <2>1. PICK r \in c.rounds, p \in c.rounds : Socks4Says(c, r, p) /\ Socks4Inv(c, r, p)
    BY <1>3 DEF HandshakeOf
  <2>2. CASE Tunnel(c, <<>>, p, {p})
    BY <1>2, <2>1, <2>2 DEF Socks4Says
  <2>3. CASE Greeted(<<>>) /\ pc # "done"
    BY <2>3, GreetedFate
  <2>4. CASE Closed(c, c.payload) /\ Spared
    BY <2>4 DEF Closed, Fate
  <2>. QED  BY <2>1, <2>2, <2>3, <2>4 DEF Socks4Inv, Opening
<1>4. CASE IsSocks5(c)
  <2>1. PICK g \in c.rounds, u \in c.rounds, q \in c.rounds, a \in c.rounds, p \in c.rounds :
           Socks5Says(c, g, u, q, a, p) /\ Socks5Inv(c, g, u, q, a, p)
    BY <1>4 DEF HandshakeOf
  <2>2. CASE Tunnel(c, <<>>, p, {u, a, p})
    BY <1>2, <2>1, <2>2 DEF Socks5Says
  <2>3. ASSUME NEW R, Greeted(R), pc # "done" PROVE Fate(c, c.payload) /\ pc # "done"
    BY <2>3, GreetedFate
  <2>4. CASE Closed(c, c.payload) /\ Spared
    BY <2>4 DEF Closed, Fate
  <2>5. CASE \/ Opening(g, c.rounds, {"SOCKS5"})
             \/ AwaitsRequest(u, q, a, p) \/ AwaitsUserPass(u, q, a, p)
             \/ Authenticated(q, a, p) \/ Misheard(q, a, p)
    BY <2>3, <2>5 DEF Opening, AwaitsRequest, AwaitsUserPass, Authenticated, Misheard
  <2>. QED  BY <2>1, <2>2, <2>4, <2>5 DEF Socks5Inv
<1>. QED  BY <1>1, <1>3, <1>4

\* An HTTP client: the target gets a rest of the request before the payload, or the
\* client has hung up inside the request line and its target gets nothing.
LEMMA HttpFate ==
  ASSUME TypeOK, NEW c, NEW r, NEW p, HttpSays(c, r, p), HttpInv(c, r, p)
  PROVE  /\ \E k \in LineLength(r.send)..Len(r.send) :
               /\ Drop(r.send, k) \o c.payload \in Seq(Nat)
               /\ Begins(toTarget, Drop(r.send, k) \o c.payload)
         /\ target \in c.wants \cup {NoTarget} \/ HungUp(r)
<1> DEFINE a == LineLength(r.send)
<1>1. /\ r.send \in Seq(Nat) /\ Len(r.send) \in Nat /\ a \in Nat /\ a \in 1..Len(r.send)
      /\ IsRound(p) /\ p.send = c.payload /\ c.payload \in Seq(Nat)
  BY HttpLine DEF HttpSays
<1>0. \/ Opening(r, c.rounds, {"HTTP"})
      \/ \E k \in a..Len(r.send) : \/ Tunnel(c, Drop(r.send, k), p, {p})
                                   \/ Closed(c, Drop(r.send, k) \o c.payload)
      \/ HungUp(r)
  BY DEF HttpInv
<1>. HIDE DEF a
<1>2. ASSUME NEW k \in a..Len(r.send)
      PROVE  Drop(r.send, k) \in Seq(Nat) /\ Drop(r.send, k) \o c.payload \in Seq(Nat)
  <2>1. k \in 0..Len(r.send)
    BY <1>1
  <2>2. Drop(r.send, k) \in Seq(Nat)
    BY <1>1, <2>1, DropOf
  <2>. QED  BY <1>1, <2>2, ConcatProperties
<1>3. a \in a..Len(r.send)
  BY <1>1
<1> DEFINE Gets == \E k \in a..Len(r.send) : /\ Drop(r.send, k) \o c.payload \in Seq(Nat)
                                             /\ Begins(toTarget, Drop(r.send, k) \o c.payload)
           Named == target \in c.wants \cup {NoTarget} \/ HungUp(r)
<1>4. ASSUME NEW k \in a..Len(r.send), Fate(c, Drop(r.send, k) \o c.payload) PROVE Gets /\ Named
  BY <1>2, <1>4 DEF Fate
<1>5. CASE Opening(r, c.rounds, {"HTTP"})
  <2>1. Fate(c, Drop(r.send, a) \o c.payload)
    BY <1>2, <1>3, <1>5, GreetedFate DEF Opening
  <2>. QED  BY <1>3, <1>4, <2>1 DEF a
<1>6. ASSUME NEW k \in a..Len(r.send), Tunnel(c, Drop(r.send, k), p, {p}) PROVE Gets /\ Named
  <2> DEFINE h == Drop(r.send, k)
  <2>1. h \in Seq(Nat) /\ h \o p.send = h \o c.payload /\ Tunnel(c, h, p, {p})
    BY <1>1, <1>2, <1>6
  <2>. HIDE DEF h
  <2>2. Fate(c, h \o c.payload)
    BY <1>1, <2>1, TunnelFate
  <2>3. Fate(c, Drop(r.send, k) \o c.payload)
    BY <2>2 DEF h
  <2>. QED  BY <1>4, <2>3
<1>7. ASSUME NEW k \in a..Len(r.send), Closed(c, Drop(r.send, k) \o c.payload) PROVE Gets /\ Named
  <2>1. Fate(c, Drop(r.send, k) \o c.payload)
    BY <1>7 DEF Closed, Fate
  <2>. QED  BY <1>4, <2>1
<1>8. CASE HungUp(r)
  <2>1. Begins(toTarget, Drop(r.send, a) \o c.payload)
    BY <1>2, <1>3, <1>8, BeginsEmpty DEF HungUp
  <2>. QED  BY <1>2, <1>3, <1>8, <2>1 DEF a
<1>9. Gets /\ Named
  BY <1>0, <1>3, <1>5, <1>6, <1>7, <1>8 DEF a
<1>. QED  BY <1>9 DEF a
-----------------------------------------------------------------------------
\* Whatever a valid SOCKS or TCP client may be, in whatever segments it sends and
\* whichever timeouts fire: the handshake is consumed to the last byte and no further,
\* so what the target receives is the start of what the client meant for it.
THEOREM HandshakeIsConsumed == Spec => []HandshakeConsumed
<1>1. TypeOK /\ HandshakeInv => HandshakeConsumed
  <2> SUFFICES ASSUME TypeOK, HandshakeInv,
                      script.valid, script.kind \in {"SOCKS4", "SOCKS5", "TCP"}
               PROVE  IsPrefix(toTarget, script.payload)
    BY DEF HandshakeConsumed
  <2>1. PICK c \in Clients : script = c
    BY DEF HandshakeInv
  <2>2. c.payload \in Seq(Nat) /\ toTarget \in Seq(Nat)
    BY ClientsAreTyped DEF TypeOK
  <2>3. HandshakeOf(c) /\ (IsTcp(c) \/ IsSocks4(c) \/ IsSocks5(c))
    BY <2>1 DEF HandshakeInv, IsTcp, IsSocks4, IsSocks5
  <2>4. Begins(toTarget, c.payload)
    BY <2>2, <2>3, PlainFate DEF Fate
  <2>. QED  BY <2>1, <2>2, <2>4, BeginsIsPrefix
<1>. QED  BY HandshakeHolds, <1>1, PTL

\* An open proxy never turns away a valid SOCKS or TCP client that was there in time:
\* a task that returns without having named a target had lost its client, or heard
\* nothing from it when the second detection or the length prefix timed out.  The text
\* of a TCP client may have any length but the longest.
THEOREM OpenProxyServesAll == Spec => []OpenProxyServes
<1>1. TypeOK /\ HandshakeInv => OpenProxyServes
  <2> SUFFICES ASSUME TypeOK, HandshakeInv, OpenClients, ~LongestText, pc = "done", ~Lost
               PROVE  target # NoTarget
    BY DEF OpenProxyServes
  <2>1. PICK c \in Clients : script = c
    BY DEF HandshakeInv
  <2>2. HandshakeOf(c) /\ c.payload \in Seq(Nat) /\ (IsTcp(c) \/ IsSocks4(c) \/ IsSocks5(c))
    BY <2>1, ClientsAreTyped DEF HandshakeInv, OpenClients, IsTcp, IsSocks4, IsSocks5
  <2>3. ~Longest(c)
    BY <2>1 DEF LongestText, Longest
  <2>4. Spared
    BY <2>2, <2>3, PlainFate
  <2>. QED  BY <2>4 DEF Spared, Excused, OpenClients
<1>. QED  BY HandshakeHolds, <1>1, PTL

\* The longest text is the exception, and is always one: parse_target accepts 1024
\* bytes, but their length prefix is taken for SOCKS4, and a target is named for such a
\* client only when the second detection timed out before it had heard of it.
LongestTextTurnedAway == OpenClients /\ LongestText /\ target # NoTarget => Lost
THEOREM LongestTextMisread == Spec => []LongestTextTurnedAway
<1>1. TypeOK /\ HandshakeInv => LongestTextTurnedAway
  <2> SUFFICES ASSUME TypeOK, HandshakeInv, OpenClients, LongestText, target # NoTarget
               PROVE  Lost
    BY DEF LongestTextTurnedAway
  <2>1. PICK c \in Clients : script = c
    BY DEF HandshakeInv
  <2>2. HandshakeOf(c) /\ c.payload \in Seq(Nat) /\ IsTcp(c) /\ Longest(c)
    BY <2>1, ClientsAreTyped DEF HandshakeInv, OpenClients, LongestText, IsTcp, Longest
  <2>3. Excused
    BY <2>2, TcpFate
  <2>. QED  BY <2>3 DEF Excused, OpenClients
<1>. QED  BY HandshakeHolds, <1>1, PTL

\* The target of an HTTP client, whose request may be malformed, receives what the
\* BufReader had not taken of the header lines and then the payload, whole and in
\* order, and never the request line.
THEOREM HttpTunnelInOrder == Spec => []TunnelInOrder
<1>1. TypeOK /\ HandshakeInv => TunnelInOrder
  <2> SUFFICES ASSUME TypeOK, HandshakeInv, script.kind \in {"CONNECT", "HTTP"}
               PROVE  \E k \in LineLength(Request)..Len(Request) :
                         IsPrefix(toTarget, Drop(Request, k) \o script.payload)
    BY DEF TunnelInOrder
  <2>1. PICK c \in Clients : script = c
    BY DEF HandshakeInv
  <2>2. PICK r \in c.rounds, p \in c.rounds : HttpSays(c, r, p) /\ HttpInv(c, r, p)
    BY <2>1 DEF HandshakeInv, HandshakeOf, IsHttp
  <2>3. Request = r.send
    <3>1. r \in script.rounds /\ \A s \in script.rounds : s.need = <<>> <=> s = r
      BY <2>1, <2>2 DEF HttpSays
    <3>2. (CHOOSE s \in script.rounds : s.need = <<>>) = r
      BY <3>1
    <3>. QED  BY <3>2 DEF Request
  <2>4. toTarget \in Seq(Nat)
    BY DEF TypeOK
  <2>5. PICK k \in LineLength(r.send)..Len(r.send) :
           /\ Drop(r.send, k) \o c.payload \in Seq(Nat)
           /\ Begins(toTarget, Drop(r.send, k) \o c.payload)
    BY <2>2, HttpFate
  <2>6. IsPrefix(toTarget, Drop(r.send, k) \o c.payload)
    BY <2>4, <2>5, BeginsIsPrefix
  <2>. QED  BY <2>1, <2>3, <2>6
<1>. QED  BY HandshakeHolds, <1>1, PTL

\* The clients whose handshake the invariant describes: all that speak HTTP, and the
\* valid ones of SOCKS and TCP.
Understood ==
  \/ script.kind \in {"CONNECT", "HTTP"}
  \/ script.valid /\ script.kind \in {"SOCKS4", "SOCKS5", "TCP"}

\* No delayed or misread handshake of theirs turns into another address, and none that
\* is cut, except that of an HTTP client that hangs up inside its request line: what
\* there is of the line may name another target, which is dialled and sent nothing.
THEOREM RightTargetDialled == Spec => [](Understood => RightTarget)
<1>1. TypeOK /\ HandshakeInv => (Understood => RightTarget)
  <2> SUFFICES ASSUME TypeOK, HandshakeInv, Understood
               PROVE  \/ target \in script.wants \cup {NoTarget}
                      \/ eof /\ toTarget = <<>> /\ target \in CutTargets
    BY DEF RightTarget
  <2>1. PICK c \in Clients : script = c
    BY DEF HandshakeInv
  <2>2. HandshakeOf(c) /\ c.payload \in Seq(Nat)
    BY <2>1, ClientsAreTyped DEF HandshakeInv
  <2>3. CASE IsHttp(c)
    <3>1. PICK r \in c.rounds, p \in c.rounds : HttpSays(c, r, p) /\ HttpInv(c, r, p)
      BY <2>2, <2>3 DEF HandshakeOf
    <3>2. target \in c.wants \cup {NoTarget} \/ HungUp(r)
      BY <3>1, HttpFate
    <3>3. ASSUME HungUp(r) PROVE eof /\ toTarget = <<>> /\ target \in CutTargets
      <4>1. PICK n \in 0..Len(r.send) : target = HttpLineTarget(SubSeq(r.send, 1, n))
        BY <3>3 DEF HungUp
      <4>2. target \in {HttpLineTarget(SubSeq(r.send, i, k)) : i \in {1, 5}, k \in 0..Len(r.send)}
        BY <4>1
      <4>3. target \in CutTargets
        BY <2>1, <3>1, <4>2 DEF CutTargets
      <4>. QED  BY <3>3, <4>3 DEF HungUp
    <3>. QED  BY <2>1, <3>2, <3>3
  <2>4. CASE IsTcp(c) \/ IsSocks4(c) \/ IsSocks5(c)
    BY <2>1, <2>2, <2>4, PlainFate DEF Fate
  <2>. QED  BY <2>1, <2>3, <2>4 DEF Understood, IsHttp, IsTcp, IsSocks4, IsSocks5
<1>. QED  BY HandshakeHolds, <1>1, PTL
=============================================================================
