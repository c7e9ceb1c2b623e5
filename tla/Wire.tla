-------------------------------- MODULE Wire --------------------------------
(***************************************************************************)
(* What travels between a client and the proxy.  A stream is a sequence of *)
(* units: a unit below 256 is one byte, and a larger one is a run of text  *)
(* whose only relevant property is which kind of text it is.  The bytes    *)
(* that the code compares with literals or reads as lengths stay bytes,    *)
(* and a length counts units.  Every text is longer than four bytes.       *)
(***************************************************************************)
EXTENDS Integers, Sequences

\* Text units that end in a newline: the end of a request line, and whole header
\* lines.
LineEnd     == 1001   \* " HTTP/1.1" after the URL
AuthGood    == 1010   \* Proxy-Authorization: Basic, the configured credentials
AuthBad     == 1011   \* Proxy-Authorization: Basic, other credentials
AuthLower   == 1012   \* as AuthGood, with the header name in lower case
Header      == 1013   \* the other header lines, up to the blank line
\* Text units without a blank or a newline.
GoodUser    == 2001
BadUser     == 2002
GoodPass    == 2003
BadPass     == 2004
Name        == 2005   \* a host name
Domain      == 2006   \* the rest of a longer host name
BadText     == 2007   \* UTF-8, but no host name
NonUtf8     == 2008
HelloBody   == 2009   \* a TLS ClientHello after its first four bytes
Data        == 2010   \* what a client or a target sends through the tunnel
Scheme      == 2011   \* "http://"
Path        == 2012   \* a path, from its first slash on
\* The bytes that separate texts.
Space       == 32
Colon       == 58
\* Replies that are text, or TLS handshake records.
R200        == 3200   \* HTTP/1.1 200 OK
R400        == 3400
R407        == 3407
R502        == 3502
R504        == 3504
ServerHello == 3001

IsLine(u)       == u \in 1001..1999
IsAuthHeader(u) == u \in {AuthGood, AuthBad, AuthLower}

\* u16::from_be_bytes, and a mutant that reads them the other way round.
U16LittleEndian(hi, lo) == 256 * lo + hi
U16(hi, lo) == 256 * hi + lo

Target(host, port) == [host |-> host, port |-> port]
NoTarget           == [host |-> <<>>, port |-> -1]
UnknownHost        == Target(<<>>, 443)      \* "unknown.host":443
SniTarget          == Target(<<Name>>, 443)
StrayTarget        == Target(<<BadText>>, 443)   \* bytes that are not the server name

Take(s, n) == SubSeq(s, 1, n)
Drop(s, n) == SubSeq(s, n + 1, Len(s))
Units(s)   == {s[i] : i \in 1..Len(s)}
IsText(u)  == u > 255
-----------------------------------------------------------------------------
Protocols == {"TCP", "HTTP", "HTTPS", "SOCKS4", "SOCKS5"}

HttpPrefixes == { <<71, 69, 84, 32>>, <<80, 79, 83, 84>>, <<80, 85, 84, 32>>,
                  <<72, 69, 65, 68>>, <<68, 69, 76, 69>>, <<67, 79, 78, 78>> }

\* The [0u8; 4] buffer after a peek or read of at most four bytes of s.
PeekBuf(s) == [i \in 1..4 |-> IF i <= Len(s) THEN s[i] ELSE 0]

\* What a read into that buffer leaves of s: a text that it cuts stays a text.
AfterRead(s) ==
  LET bytes == {k \in 0..4 : k <= Len(s) /\ \A i \in 1..k : ~IsText(s[i])}
  IN  Drop(s, CHOOSE k \in bytes : \A j \in bytes : j <= k)

\* Mutant: no default for bytes that no protocol starts with.
DetectWithoutDefault(buf) ==
  IF buf[1] \in {4, 5} THEN (IF buf[1] = 4 THEN "SOCKS4" ELSE "SOCKS5") ELSE "UNKNOWN"

detect_protocol(buf) ==
  CASE buf \in HttpPrefixes -> "HTTP"
    [] buf[1] = 22 -> "HTTPS"
    [] buf[1] = 5  -> "SOCKS5"
    [] buf[1] = 4  -> "SOCKS4"
    [] OTHER       -> "TCP"

send_http_connect_response == <<R200>>
send_socks4_response(success) == <<0, IF success THEN 90 ELSE 91, 0, 0, 0, 0, 0, 0>>
send_socks5_response(success) == <<5, IF success THEN 0 ELSE 1, 0, 1, 0, 0, 0, 0, 0, 0>>

\* send_error_response, by the error's class.
ErrorReply(protocol, error_type) ==
  CASE protocol = "HTTP" /\ error_type = "Handshake"  -> <<R400>>
    [] protocol = "HTTP" /\ error_type = "Connection" -> <<R502>>
    [] protocol = "HTTP" /\ error_type = "Timeout"    -> <<R504>>
    [] protocol = "SOCKS4" -> send_socks4_response(FALSE)
    [] protocol = "SOCKS5" -> send_socks5_response(FALSE)
    [] OTHER -> <<>>

\* The reply written once the target is connected.
SuccessReply(protocol) ==
  CASE protocol = "HTTP"   -> send_http_connect_response
    [] protocol = "SOCKS4" -> send_socks4_response(TRUE)
    [] protocol = "SOCKS5" -> send_socks5_response(TRUE)
    [] OTHER -> <<>>
-----------------------------------------------------------------------------
validate_credentials(username, password) ==
  username = <<GoodUser>> /\ password = <<GoodPass>>

validate_socks4_user_id(user_id) == user_id = <<GoodUser>>

\* extract_proxy_auth_header finds the first line whose name matches in any case,
\* but strips only the canonical spelling: a lower-case header keeps its name and
\* then fails the "Basic " test of validate_auth_header.
HttpCredentialsOk(request) ==
  \E i \in 1..Len(request) : /\ request[i] = AuthGood
                             /\ \A j \in 1..(i - 1) : ~IsAuthHeader(request[j])

\* The least index of a set of indices, or the one that is given.
Least(I, default) == IF I = {} THEN default ELSE CHOOSE i \in I : \A j \in I : i <= j

\* str::parse::<u16>, on digits; a sign is left out.
NotAPort == -1
ParsePort(s) ==
  LET value[n \in 0..Len(s)] == IF n = 0 THEN 0 ELSE 10 * value[n - 1] + (s[n] - 48)
  IN  IF s # <<>> /\ Units(s) \subseteq 48..57 /\ value[Len(s)] <= 65535
      THEN value[Len(s)] ELSE NotAPort

\* host:port, with one colon and a port that is one; parse_target has the same code.
parse_connect_target(url) ==
  LET colons == {i \in 1..Len(url) : url[i] = Colon}
      c      == Least(colons, 0)
      port   == ParsePort(Drop(url, c))
  IN  IF colons = {c} /\ port # NotAPort THEN Target(Take(url, c - 1), port) ELSE NoTarget

\* An http:// URL: the host ends at the first colon or slash, and what follows a
\* colon is the port, up to the next colon or slash.  Without a port, and for one
\* that does not parse, it is 80.
parse_http_target(url) ==
  LET end(from) == Least({i \in from..Len(url) : url[i] \in {Colon, Path}}, Len(url) + 1)
      h    == end(2)
      port == IF h <= Len(url) /\ url[h] = Colon
              THEN ParsePort(SubSeq(url, h + 1, end(h + 1) - 1)) ELSE NotAPort
  IN  IF url # <<>> /\ url[1] = Scheme
      THEN Target(SubSeq(url, 2, h - 1), IF port = NotAPort THEN 80 ELSE port)
      ELSE NoTarget

\* parse_http_target_from_stream on what read_line returned: the first two words of
\* it, whether or not the line is whole.
CONNECT == <<67, 79, 78, 78, 69, 67, 84>>
IsBlank(u) == u = Space \/ IsLine(u)
Words(line) ==
  {w \in (1..Len(line)) \X (1..Len(line)) :
     /\ w[1] <= w[2] /\ \A i \in w[1]..w[2] : ~IsBlank(line[i])
     /\ w[1] > 1 => IsBlank(line[w[1] - 1])
     /\ w[2] < Len(line) => IsBlank(line[w[2] + 1])}
FirstTwo(words) ==
  {p \in words \X words : p[1][1] < p[2][1]
                          /\ \A w \in words : w \in {p[1], p[2]} \/ p[2][1] < w[1]}
HttpLineTarget(line) ==
  LET Text(w) == SubSeq(line, w[1], w[2])
      targets == {IF Text(p[1]) = CONNECT THEN parse_connect_target(Text(p[2]))
                  ELSE parse_http_target(Text(p[2])) : p \in FirstTwo(Words(line))}
  IN  IF NonUtf8 \in Units(line) \/ targets = {} THEN NoTarget
      ELSE CHOOSE t \in targets : TRUE

\* parse_https_target_from_stream: extract_sni_from_tls takes the name after the
\* first four zero bytes it meets, which may or may not be the SNI extension, and
\* finds none in data that is short or does not begin with 0x16.
HelloTargets(data) ==
  IF data # <<>> /\ Head(data) = 22 /\ HelloBody \in Units(data)
  THEN {SniTarget, StrayTarget, UnknownHost}
  ELSE {UnknownHost}

\* parse_target: the length prefix, and the target that the text after it names.
\* What is left of a cut text is no length (two letters exceed 1024).
TargetLength(s) == IF IsText(s[1]) \/ IsText(s[2]) THEN 65535 ELSE U16(s[1], s[2])
MaxTargetLength == 1024
TextTarget(text) == IF NonUtf8 \in Units(text) THEN NoTarget ELSE parse_connect_target(text)
-----------------------------------------------------------------------------
\* Where the messages of a SOCKS client end in the stream s; 0: not there yet.
Complete(s, n) == IF Len(s) >= n THEN n ELSE 0

\* Mutant: a user id of one character is read, and its terminator is not.
Socks4EndTooSoon(s) == Complete(s, 9)

\* The user id of SOCKS4 runs from byte 9 to the first zero byte.
Socks4End(s) ==
  LET ends == {n \in 9..Len(s) : s[n] = 0}
  IN  IF ends = {} THEN 0 ELSE CHOOSE n \in ends : \A m \in ends : n <= m

Socks5GreetingEnd(s) == IF Len(s) < 2 THEN 0 ELSE Complete(s, 2 + s[2])

\* VER ULEN UNAME PLEN PASSWD
Socks5UserPassEnd(s) ==
  IF Len(s) < 2 \/ Len(s) < 3 + s[2] THEN 0 ELSE Complete(s, 3 + s[2] + s[3 + s[2]])

\* VER CMD RSV ATYP address port
Socks5RequestEnd(s) ==
  CASE s[4] = 1 -> Complete(s, 10)
    [] s[4] = 4 -> Complete(s, 22)
    [] s[4] = 3 -> IF Len(s) < 5 THEN 0 ELSE Complete(s, 7 + s[5])

\* The address part of a complete request.
Socks5RequestTarget(s) ==
  LET n == Socks5RequestEnd(s)
  IN  Target(SubSeq(s, IF s[4] = 3 THEN 6 ELSE 5, n - 2), U16(s[n - 1], s[n]))
=============================================================================
