-------------------------------- MODULE Sni ---------------------------------
(***************************************************************************)
(* extract_sni_from_tls of src/proxy/listener.rs, byte by byte: the        *)
(* function scans a TLS ClientHello for four zero bytes and takes what     *)
(* follows for a server_name extension.  It sees what has arrived when its *)
(* one peek returns.  Wire!HelloTargets is the set of answers it may give. *)
(***************************************************************************)
EXTENDS Naturals, Sequences, FiniteSetsExt

CONSTANTS Hellos,     \* records [before, name, after], see Bytes
          PeekMax     \* the buffer of parse_https_target_from_stream, 512 in the code

\* 255 stands for the bytes that no UTF-8 text has.
MaxText  == 127
Text     == 0..MaxText
NameByte == 1..MaxText
Byte     == Text \cup {255}
MaxName  == 100           \* so that a length is a byte of text
ASSUME SniAssumption ==
  /\ PeekMax \in Nat \ {0}
  /\ \A h \in Hellos : /\ {h.before, h.after} \subseteq Seq(Byte)
                       /\ h.name \in Seq(NameByte) /\ Len(h.name) \in 1..MaxName

VARIABLES hello, arrived, answer
vars == <<hello, arrived, answer>>

Pending     == <<256>>   \* no answer yet
UnknownHost == <<257>>   \* "unknown.host", the fallback
-----------------------------------------------------------------------------
\* RFC 6066: type 0, the extension's length, the list's length, host_name, the name.
ServerName(name) == <<0, 0, 0, Len(name) + 5, 0, Len(name) + 3, 0, 0, Len(name)>> \o name
Bytes(h) == h.before \o ServerName(h.name) \o h.after
-----------------------------------------------------------------------------
\* Indices are the code's, from 0.
At(data, i)       == data[i + 1]
Slice(data, i, j) == SubSeq(data, i + 1, j)          \* data[i..j]

\* Mutant: the bytes are taken as they are.
AnyBytes(s) == TRUE

IsUtf8(s) == \A k \in DOMAIN s : s[k] <= MaxText

Zeros(data)        == {i \in 0..(Len(data) - 4) : Slice(data, i, i + 4) = <<0, 0, 0, 0>>}
NameStart(i)       == i + 10
NameLen(data, i)   == At(data, i + 9)
NameEnd(data, i)   == NameStart(i) + NameLen(data, i)

\* data[name_start..name_start + name_len], as far as there is data.
NameAt(data, i) == Slice(data, NameStart(i), Min({NameEnd(data, i), Len(data)}))

\* Mutant: a name that has not all arrived is cut short.
FitsAlways(data, i) == TRUE

\* name_start + name_len <= data.len()
Fits(data, i) == NameEnd(data, i) <= Len(data)

IsHandshake(data) == Len(data) >= 43 /\ At(data, 0) = 22

\* Mutant: the last place where the bytes fit.
Last(S) == Max(S)

\* The scan returns at the first place.
First(S) == Min(S)

\* Where the scan may return: the name fits and is text.
Candidates(data) ==
  {i \in Zeros(data) : i + 10 < Len(data) /\ Fits(data, i) /\ IsUtf8(NameAt(data, i))}

extract_sni_from_tls(data) ==
  IF IsHandshake(data) /\ Candidates(data) # {}
  THEN NameAt(data, First(Candidates(data)))
  ELSE UnknownHost

\* parse_https_target_from_stream
parse_https_target_from_stream ==
  /\ answer = Pending /\ arrived > 0
  /\ answer' = extract_sni_from_tls(SubSeq(Bytes(hello), 1, Min({arrived, PeekMax})))
  /\ UNCHANGED <<hello, arrived>>

\* TCP brings any part of the ClientHello.
deliver ==
  /\ answer = Pending
  /\ \E n \in (arrived + 1)..Len(Bytes(hello)) : arrived' = n
  /\ UNCHANGED <<hello, answer>>

Init == hello \in Hellos /\ arrived = 0 /\ answer = Pending
Next == parse_https_target_from_stream \/ deliver
Spec == Init /\ [][Next]_vars
-----------------------------------------------------------------------------
\* Every variable keeps its type.
TypeOK ==
  /\ hello \in Hellos /\ arrived \in 0..Len(Bytes(hello))
  /\ answer \in {Pending, UnknownHost} \cup Seq(Text)

\* For a ClientHello whose server_name extension is the first place the scan stops
\* at, no cut yields another name: the answer is the whole name once it is in the
\* buffer, and unknown.host before.
WholeNameOrUnknown ==
  LET seen  == Min({arrived, PeekMax})
      start == Len(hello.before)
      clean == Zeros(Bytes(hello)) # {} /\ Min(Zeros(Bytes(hello))) = start - 1
  IN  answer # Pending /\ clean =>
        answer = IF /\ hello.before[1] = 22 /\ seen >= 43
                    /\ seen >= start + Len(ServerName(hello.name))
                 THEN hello.name ELSE UnknownHost
=============================================================================
