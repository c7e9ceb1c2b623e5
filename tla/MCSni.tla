------------------------------- MODULE MCSni --------------------------------
(***************************************************************************)
(* ClientHellos around the limits of the scan: what precedes the extension *)
(* decides where four zero bytes begin, and what follows may hold more.    *)
(***************************************************************************)
EXTENDS Sni

Fill(n) == [i \in 1..n |-> 1]
Befores == { <<22>> \o Fill(40) \o <<0>>,         \* the extension is found
             <<22>> \o Fill(20) \o <<0>>,         \* a hello of about 43 bytes
             <<22>> \o Fill(50) \o <<0>>,         \* a name across PeekMax
             <<23>> \o Fill(40) \o <<0>>,         \* not a handshake record
             <<22>> \o Fill(41),                  \* no zero in front: never found
             <<22>> \o Fill(40) \o <<0, 0>>,      \* one too many: an empty name
             <<22, 0, 0, 0, 0>> \o Fill(36) \o <<0>>,                      \* a stray text
             <<22, 0, 0, 0, 0>> \o Fill(5) \o <<2, 255, 255>> \o Fill(30) \o <<0>> }
Names  == {<<110>>, <<110, 111, 112>>, <<97, 98, 99, 100, 101, 102, 103, 104>>}
Afters == {<<>>, Fill(8), Fill(9), <<0, 0, 0, 0>> \o Fill(8), <<0, 0, 0, 0, 0>> \o Fill(4) \o <<0>> \o Fill(3)}

MCHellos == [before : Befores, name : Names, after : Afters]
=============================================================================
