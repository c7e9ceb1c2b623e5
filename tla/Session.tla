------------------------------ MODULE Session -------------------------------
(***************************************************************************)
(* src/proxy/listener.rs: one task of run_proxy_server, that is            *)
(* handle_client from the accepted socket to its return, with the client   *)
(* at the other end of the socket.                                         *)
(*                                                                         *)
(* pc names the await the task is at; between two awaits nothing else of   *)
(* the session runs, so an action is the code from one await to the next.  *)
(* The client sends its messages in segments of any size, may close or     *)
(* reset the connection at any moment and may be slower than any timeout.  *)
(***************************************************************************)
EXTENDS Wire, SequencesExt

CONSTANTS AppStates,      \* the configurations: [require_creds, tls_acceptor]
          Clients,        \* what clients may do, see ClientType
          MaxTargetData   \* bound on the units the target sends back

VARIABLES
  state,                  \* AppState; main sets it before the first accept
  \* the client
  script, todo, outbox, eof, rst,
  \* the connection: not yet read by the task, written by the task
  inbox, replies,
  \* locals of the task: the stream is Tls or Plain
  pc, protocol, tls_stream, target,
  \* the target's connection: received by and sent by the target
  toTarget, fromTarget,
  \* history: a timeout that ends the handshake fired on a client that had more to
  \* send; the dial failed
  slow, refused

client == <<script, todo, outbox, eof, rst>>
tunnel == <<toTarget, fromTarget>>
history == <<slow, refused>>
vars == <<state, client, inbox, replies, pc, protocol, tls_stream, target,
          tunnel, history>>

\* A client is a set of rounds: once it has read at least r.need and has no message
\* half sent, it sends r.send.  It is a valid client of its kind or not; wants are
\* the targets it may rightly be taken to name, and payload is what it means for
\* the target.
Round(need, send) == [need |-> need, send |-> send]
Sends(c) == {r.send : r \in c.rounds}

\* What a valid client of each kind says.  TCP: the length of a text, the text, a host
\* and a port with a colon between them, and the payload at once.
TcpText(text, wants) ==
  /\ {0, NonUtf8} \cap Units(text) = {}
  /\ \E k \in 1..Len(text) :
       /\ {i \in 1..Len(text) : text[i] = Colon} = {k}
       /\ ParsePort(Drop(text, k)) # NotAPort
       /\ Target(Take(text, k - 1), ParsePort(Drop(text, k))) \in wants
TcpScript(c) == \E m \in Sends(c) :
  /\ Len(m) > 2 /\ m[1] < 256 /\ m[2] < 256
  /\ 256 * m[1] + m[2] \in 1..MaxTargetLength /\ 2 + 256 * m[1] + m[2] <= Len(m)
  /\ TcpText(SubSeq(m, 3, 2 + 256 * m[1] + m[2]), c.wants)
  /\ c.payload = Drop(m, 2 + 256 * m[1] + m[2])
  /\ c.rounds = {Round(<<>>, m)}

\* SOCKS4: CONNECT, port, address, and a user id up to the only zero after them.
Socks4Script(c) == \E m \in Sends(c) :
  /\ {n \in 9..Len(m) : m[n] = 0} = {Len(m)} /\ m[1] = 4 /\ m[2] = 1
  /\ Target(SubSeq(m, 5, 8), 256 * m[3] + m[4]) \in c.wants
  /\ c.rounds = {Round(<<>>, m), Round(send_socks4_response(TRUE), c.payload)}

\* SOCKS5: a greeting, the sub-negotiation of the method that is chosen, a CONNECT.
Socks5Connect(m, wants) ==
  /\ Len(m) >= 7 /\ m[1] = 5 /\ m[2] = 1 /\ m[4] \in {1, 3, 4}
  /\ Socks5RequestEnd(m) = Len(m) /\ NonUtf8 \notin Units(m)
  /\ Target(SubSeq(m, IF m[4] = 3 THEN 6 ELSE 5, Len(m) - 2),
            256 * m[Len(m) - 1] + m[Len(m)]) \in wants
Socks5Script(c) == \E greeting, userpass, m \in Sends(c) :
  /\ Len(greeting) >= 2 /\ greeting[1] = 5 /\ Len(greeting) = 2 + greeting[2]
  /\ Len(userpass) >= 2 /\ userpass[1] = 1 /\ Socks5UserPassEnd(userpass) = Len(userpass)
  /\ Socks5Connect(m, c.wants)
  /\ c.rounds = {Round(<<>>, greeting), Round(<<5, 2>>, userpass), Round(<<5, 0>>, m),
                 Round(<<5, 2, 1, 0>>, m), Round(<<5, 0, 5, 0>>, c.payload)}

\* HTTP, valid or not: a request line and headers, then the payload.  A client may be
\* taken to want what its whole line is parsed to.
LineLength(m) == Least({i \in 1..Len(m) : IsLine(m[i])}, Len(m) + 1)
HttpScript(c) == \E m \in Sends(c) :
  /\ PeekBuf(m) \in HttpPrefixes /\ LineLength(m) <= Len(m)
  /\ HttpLineTarget(Take(m, LineLength(m))) \in c.wants \cup IF c.valid THEN {} ELSE {NoTarget}
  /\ c.rounds = {Round(<<>>, m), Round(<<R200>>, c.payload)}

ClientType(c) ==
  /\ c.kind \in {"CONNECT", "HTTP", "TLS", "SOCKS4", "SOCKS5", "TCP"}
  /\ c.valid \in BOOLEAN
  /\ \A r \in c.rounds : r.need \in Seq(Nat) /\ r.send \in Seq(Nat)
  /\ \A t \in c.wants : DOMAIN t = {"host", "port"} /\ t.port \in Nat
  /\ c.payload \in Seq(Nat)
  /\ c.valid /\ c.kind = "TCP" => TcpScript(c)
  /\ c.valid /\ c.kind = "SOCKS4" => Socks4Script(c)
  /\ c.valid /\ c.kind = "SOCKS5" => Socks5Script(c)
  /\ c.kind \in {"CONNECT", "HTTP"} => HttpScript(c)

ASSUME SessionAssumption ==
  /\ \A s \in AppStates : s.require_creds \in BOOLEAN /\ s.tls_acceptor \in BOOLEAN
  /\ \A c \in Clients : ClientType(c)
  /\ MaxTargetData \in Nat

Pcs == {"detect", "tls", "auth", "auth5", "redetect", "parse", "parse5",
        "connect", "respond", "relay", "done"}
Waiting == Pcs \ {"connect", "relay", "done"}   \* awaits on the client's socket
-----------------------------------------------------------------------------
\* The ways handle_client returns: without a word, or after send_error_response.
\* The stream is dropped with what it has not read.
Return == pc' = "done" /\ inbox' = <<>> /\ UNCHANGED replies

ReturnAfter(reply) == pc' = "done" /\ inbox' = <<>> /\ replies' = replies \o reply

send_error_response(error_type) == ReturnAfter(ErrorReply(protocol, error_type))

ClientCanSend ==
  ~eof /\ (outbox # <<>> \/ \E r \in todo : IsPrefix(r.need, replies))

\* A read that is over with nothing more to come, because the client closed or
\* because its timeout passed.
GaveUp == slow' = (slow \/ ClientCanSend)

\* Mutant: a protocol without authentication is let through.
AfterStreamLenient(p) ==
  IF ~state.require_creds \/ p = "TCP" THEN "redetect" ELSE "auth"

\* authenticate_by_protocol refuses TCP before its first await.
AfterStream(p) ==
  IF ~state.require_creds THEN "redetect" ELSE IF p = "TCP" THEN "done" ELSE "auth"

\* A peek that finds nothing has met the end of the stream or its 5 s timeout; the
\* buffer is then still zero, and both are taken for TCP.
detect_client_protocol ==
  /\ pc = "detect"
  /\ protocol' = detect_protocol(PeekBuf(inbox))
  /\ pc' = IF protocol' # "HTTPS" THEN AfterStream(protocol')
           ELSE IF state.tls_acceptor THEN "tls" ELSE "done"
  /\ IF inbox = <<>> /\ state.require_creds THEN GaveUp ELSE UNCHANGED slow
  /\ UNCHANGED <<inbox, replies, tls_stream, target, tunnel, refused>>

\* TlsAcceptor::accept: it may refuse a ClientHello, and waits for one for ever.
ClientHello == <<22, 3, 1, 0, HelloBody>>

\* Mutant: the handshake neither fails nor sees the end of the stream.
accept_tls_or_wait ==
  /\ pc = "tls" /\ IsPrefix(ClientHello, inbox)
  /\ tls_stream' = TRUE
  /\ inbox' = Drop(inbox, Len(ClientHello))
  /\ replies' = Append(replies, ServerHello)
  /\ pc' = AfterStream(protocol)
  /\ UNCHANGED <<protocol, target, tunnel, history>>

accept_tls ==
  /\ pc = "tls"
  /\ \/ /\ IsPrefix(ClientHello, inbox)
        /\ tls_stream' = TRUE
        /\ inbox' = Drop(inbox, Len(ClientHello))
        /\ replies' = Append(replies, ServerHello)
        /\ pc' = AfterStream(protocol)
     \/ /\ eof \/ IsPrefix(ClientHello, inbox)
        /\ Return
        /\ UNCHANGED tls_stream
  /\ UNCHANGED <<protocol, target, tunnel, history>>
-----------------------------------------------------------------------------
\* One peek, or on a TLS stream one read, of whatever has arrived.
authenticate_http_or_https ==
  /\ pc = "auth" /\ protocol \in {"HTTP", "HTTPS"}
  /\ \/ /\ inbox = <<>> /\ eof
        /\ Return
     \/ /\ HttpCredentialsOk(inbox)
        /\ pc' = "redetect"
        /\ inbox' = IF tls_stream THEN <<>> ELSE inbox
        /\ UNCHANGED replies
     \/ /\ inbox # <<>> /\ ~HttpCredentialsOk(inbox)
        /\ ReturnAfter(<<R407>>)
  /\ UNCHANGED <<protocol, tls_stream, target, tunnel, history>>

\* The whole request is read off the stream, the user id included.
authenticate_socks4 ==
  /\ pc = "auth" /\ protocol = "SOCKS4"
  /\ LET end     == Socks4End(inbox)
         user_id == SubSeq(inbox, 9, end - 1)
     IN  \/ /\ end # 0 /\ validate_socks4_user_id(user_id)
            /\ pc' = "redetect"
            /\ inbox' = Drop(inbox, end)
            /\ UNCHANGED replies
         \/ /\ end # 0 /\ ~validate_socks4_user_id(user_id)
            /\ ReturnAfter(send_socks4_response(FALSE))
         \/ /\ end = 0 /\ eof
            /\ Return
  /\ UNCHANGED <<protocol, tls_stream, target, tunnel, history>>

\* authenticate_socks5 up to its method reply ...
authenticate_socks5 ==
  /\ pc = "auth" /\ protocol = "SOCKS5"
  /\ LET end     == Socks5GreetingEnd(inbox)
         methods == Units(SubSeq(inbox, 3, end))
     IN  \/ /\ end # 0 /\ 2 \in methods
            /\ pc' = "auth5"
            /\ inbox' = Drop(inbox, end)
            /\ replies' = replies \o <<5, 2>>
         \/ /\ end # 0 /\ 2 \notin methods
            /\ ReturnAfter(<<5, 255>>)
         \/ /\ end = 0 /\ eof
            /\ Return
  /\ UNCHANGED <<protocol, tls_stream, target, tunnel, history>>

\* ... and from the username/password message on.
authenticate_socks5_userpass ==
  /\ pc = "auth5"
  /\ LET end      == Socks5UserPassEnd(inbox)
         username == SubSeq(inbox, 3, 2 + inbox[2])
         password == SubSeq(inbox, 4 + inbox[2], end)
         ok       == validate_credentials(username, password)
         utf8     == NonUtf8 \notin Units(username) \cup Units(password)
     IN  \/ /\ Len(inbox) >= 2 /\ inbox[1] # 1
            /\ Return
         \/ /\ end # 0 /\ inbox[1] = 1 /\ ~utf8
            /\ Return
         \/ /\ end # 0 /\ inbox[1] = 1 /\ utf8 /\ ok
            /\ pc' = "redetect"
            /\ inbox' = Drop(inbox, end)
            /\ replies' = replies \o <<1, 0>>
         \/ /\ end # 0 /\ inbox[1] = 1 /\ utf8 /\ ~ok
            /\ ReturnAfter(<<1, 1>>)
         \/ /\ end = 0 /\ eof
            /\ Return
  /\ UNCHANGED <<protocol, tls_stream, target, tunnel, history>>
-----------------------------------------------------------------------------
\* Mutant: the first detection is final.
redetect_nothing ==
  /\ pc = "redetect"
  /\ pc' = "parse"
  /\ UNCHANGED <<protocol, inbox, replies, tls_stream, target, tunnel, history>>

\* async_handle_client looks at the first four bytes again, and on a TLS stream it
\* reads them.  Nothing within 5 s, or the end of the stream, is TCP once more.
redetect_protocol ==
  /\ pc = "redetect"
  /\ protocol' = detect_protocol(PeekBuf(inbox))
  /\ inbox' = IF tls_stream THEN AfterRead(inbox) ELSE inbox
  /\ pc' = "parse"
  /\ IF inbox = <<>> THEN GaveUp ELSE UNCHANGED slow
  /\ UNCHANGED <<replies, tls_stream, target, tunnel, refused>>

Dial(t) == target' = t /\ pc' = "connect" /\ UNCHANGED replies

Reject == send_error_response("Handshake") /\ UNCHANGED target

\* Mutant: the request line is looked at and left on the stream.
parse_http_target_by_peek ==
  /\ pc = "parse" /\ protocol = "HTTP"
  /\ \E i \in 1..Len(inbox) : /\ HttpLineTarget(Take(inbox, i)) # NoTarget
                              /\ Dial(HttpLineTarget(Take(inbox, i)))
  /\ UNCHANGED <<inbox, protocol, tls_stream, tunnel, history>>

\* read_line returns a line of n units or, at the end of the stream, what there is of
\* one, and that is parsed too; only a TLS stream may end in an error instead, for want
\* of a close_notify.  The BufReader took all that had arrived, and is dropped.
parse_http_target_from_stream ==
  /\ pc = "parse" /\ protocol = "HTTP"
  /\ \E n \in 0..Len(inbox) :
       LET whole == n = LineLength(inbox)
           t     == HttpLineTarget(Take(inbox, n))
       IN  /\ whole \/ (eof /\ n = Len(inbox) /\ LineLength(inbox) > n)
           /\ \/ /\ t # NoTarget
                 /\ Dial(t)
                 /\ inbox' = <<>>
              \/ /\ t = NoTarget \/ (tls_stream /\ ~whole)
                 /\ Reject
  /\ UNCHANGED <<protocol, tls_stream, tunnel, history>>

parse_https_target_from_stream ==
  /\ pc = "parse" /\ protocol = "HTTPS"
  /\ inbox # <<>> \/ eof
  /\ \E t \in HelloTargets(inbox) : Dial(t)
  /\ inbox' = IF tls_stream THEN <<>> ELSE inbox
  /\ UNCHANGED <<protocol, tls_stream, tunnel, history>>

parse_socks4_target ==
  /\ pc = "parse" /\ protocol = "SOCKS4"
  /\ LET end     == Socks4End(inbox)
         connect == Take(inbox, 2) = <<4, 1>>
     IN  \/ /\ Len(inbox) >= 8 /\ ~connect
            /\ Reject
         \/ /\ end # 0 /\ connect
            /\ Dial(Target(SubSeq(inbox, 5, 8), U16(inbox[3], inbox[4])))
            /\ inbox' = Drop(inbox, end)
         \/ /\ end = 0 /\ eof
            /\ Reject
  /\ UNCHANGED <<protocol, tls_stream, tunnel, history>>

\* Mutant: the method reply is not written.
parse_socks5_greeting_mute ==
  /\ pc = "parse" /\ protocol = "SOCKS5"
  /\ Socks5GreetingEnd(inbox) # 0
  /\ pc' = "parse5"
  /\ inbox' = Drop(inbox, Socks5GreetingEnd(inbox))
  /\ UNCHANGED <<replies, target, protocol, tls_stream, tunnel, history>>

\* parse_socks5_target up to its method reply ...
parse_socks5_greeting ==
  /\ pc = "parse" /\ protocol = "SOCKS5"
  /\ LET end == Socks5GreetingEnd(inbox)
     IN  \/ /\ Len(inbox) >= 2 /\ inbox[1] # 5
            /\ Reject
         \/ /\ end # 0 /\ inbox[1] = 5
            /\ pc' = "parse5"
            /\ inbox' = Drop(inbox, end)
            /\ replies' = replies \o <<5, 0>>
            /\ UNCHANGED target
         \/ /\ end = 0 /\ eof
            /\ Reject
  /\ UNCHANGED <<protocol, tls_stream, tunnel, history>>

\* ... and from the connection request on.
Socks5RequestBad ==
  \/ Take(inbox, 2) # <<5, 1>>
  \/ inbox[4] \notin {1, 3, 4}
  \/ /\ inbox[4] = 3 /\ Len(inbox) >= 5
     /\ Len(inbox) >= 5 + inbox[5] /\ NonUtf8 \in Units(SubSeq(inbox, 6, 5 + inbox[5]))

parse_socks5_target ==
  /\ pc = "parse5"
  /\ \/ /\ Len(inbox) >= 4 /\ Socks5RequestBad
        /\ Reject
     \/ /\ Len(inbox) >= 4 /\ ~Socks5RequestBad /\ Socks5RequestEnd(inbox) # 0
        /\ Dial(Socks5RequestTarget(inbox))
        /\ inbox' = Drop(inbox, Socks5RequestEnd(inbox))
     \/ /\ eof
        /\ Len(inbox) >= 4 => ~Socks5RequestBad /\ Socks5RequestEnd(inbox) = 0
        /\ Reject
  /\ UNCHANGED <<protocol, tls_stream, tunnel, history>>

\* The only parser with a timeout.
parse_target ==
  /\ pc = "parse" /\ protocol = "TCP"
  /\ LET known  == Len(inbox) >= 2
         length == TargetLength(inbox)
         valid  == length # 0 /\ length <= MaxTargetLength
         t      == TextTarget(SubSeq(inbox, 3, 2 + length))
     IN  \/ /\ known /\ ~valid
            /\ Reject /\ UNCHANGED slow
         \/ /\ known /\ valid /\ Len(inbox) >= 2 + length /\ t = NoTarget
            /\ Reject /\ UNCHANGED slow
         \/ /\ known /\ valid /\ Len(inbox) >= 2 + length /\ t # NoTarget
            /\ Dial(t) /\ UNCHANGED slow
            /\ inbox' = Drop(inbox, 2 + length)
         \/ /\ known => valid /\ Len(inbox) < 2 + length
            /\ Reject /\ GaveUp
  /\ UNCHANGED <<protocol, tls_stream, tunnel, refused>>

parse_target_by_protocol ==
  \/ parse_http_target_from_stream
  \/ parse_https_target_from_stream
  \/ parse_socks4_target
  \/ parse_socks5_greeting
  \/ parse_socks5_target
  \/ parse_target
-----------------------------------------------------------------------------
\* TcpStream::connect under a timeout of 10 s.
connect_target ==
  /\ pc = "connect"
  /\ \/ /\ pc' = "respond"
        /\ UNCHANGED <<inbox, replies, refused>>
     \/ \E error_type \in {"Connection", "Timeout"} :
          /\ send_error_response(error_type)
          /\ refused' = TRUE
  /\ UNCHANGED <<protocol, tls_stream, target, tunnel, slow>>

send_success ==
  /\ pc = "respond"
  /\ pc' = "relay"
  /\ replies' = replies \o SuccessReply(protocol)
  /\ UNCHANGED <<inbox, protocol, tls_stream, target, tunnel, history>>

relay_client_to_target ==
  /\ pc = "relay" /\ inbox # <<>>
  /\ toTarget' = toTarget \o inbox
  /\ inbox' = <<>>
  /\ UNCHANGED <<replies, pc, protocol, tls_stream, target, fromTarget, history>>

relay_target_to_client ==
  /\ pc = "relay" /\ Len(fromTarget) < MaxTargetData
  /\ fromTarget' = Append(fromTarget, Data)
  /\ replies' = Append(replies, Data)
  /\ UNCHANGED <<inbox, pc, protocol, tls_stream, target, toTarget, history>>

\* Mutant: a Tunnel error is answered like the others.
tunnel_closed_loudly ==
  /\ pc = "relay"
  /\ send_error_response("Tunnel")
  /\ UNCHANGED <<protocol, tls_stream, target, tunnel, history>>

\* create_bidirectional_tunnel returns: both directions ended, or one failed.  A
\* Tunnel error is only logged.
tunnel_closed ==
  /\ pc = "relay"
  /\ Return
  /\ UNCHANGED <<protocol, tls_stream, target, tunnel, history>>

\* On a reset connection a read or a write fails and handle_client returns; what had
\* arrived before the reset may still be read first.
peer_reset ==
  /\ rst /\ pc \in Waiting
  /\ Return
  /\ UNCHANGED <<protocol, tls_stream, target, tunnel, history>>

\* Steps the task cannot avoid, however long the client and the target take.
handshake ==
  \/ detect_client_protocol \/ accept_tls
  \/ authenticate_http_or_https \/ authenticate_socks4
  \/ authenticate_socks5 \/ authenticate_socks5_userpass
  \/ redetect_protocol \/ parse_target_by_protocol
  \/ connect_target \/ send_success
  \/ peer_reset

handle_client ==
  /\ handshake \/ relay_client_to_target \/ relay_target_to_client \/ tunnel_closed
  /\ UNCHANGED <<state, client>>
-----------------------------------------------------------------------------
\* The client, while someone is still there to read it.
Connected == pc # "done" /\ ~eof /\ ~rst

clientOnly == <<state, script, replies, pc, protocol, tls_stream, target, tunnel, history>>

ClientStart ==
  /\ Connected /\ outbox = <<>>
  /\ \E r \in todo : /\ IsPrefix(r.need, replies)
                     /\ outbox' = r.send
                     /\ todo' = todo \ {r}
  /\ UNCHANGED <<eof, rst, inbox, clientOnly>>

ClientSend ==
  /\ Connected
  /\ \E k \in 1..Len(outbox) : /\ inbox' = inbox \o Take(outbox, k)
                               /\ outbox' = Drop(outbox, k)
  /\ UNCHANGED <<todo, eof, rst, clientOnly>>

ClientClose ==
  /\ Connected
  /\ eof' = TRUE /\ outbox' = <<>> /\ todo' = {}
  /\ UNCHANGED <<rst, inbox, clientOnly>>

ClientReset ==
  /\ Connected
  /\ rst' = TRUE /\ outbox' = <<>> /\ todo' = {}
  /\ inbox' \in {inbox, <<>>}
  /\ UNCHANGED <<eof, clientOnly>>

Init ==
  /\ state \in AppStates
  /\ script \in Clients
  /\ todo = script.rounds /\ outbox = <<>> /\ eof = FALSE /\ rst = FALSE
  /\ inbox = <<>> /\ replies = <<>>
  /\ pc = "detect" /\ protocol = "TCP" /\ tls_stream = FALSE /\ target = NoTarget
  /\ toTarget = <<>> /\ fromTarget = <<>>
  /\ slow = FALSE /\ refused = FALSE

Next == handle_client \/ ClientStart \/ ClientSend \/ ClientClose \/ ClientReset

\* The task is scheduled, its timers fire and its dial returns; nothing is assumed
\* of the tunnel.
Fairness == WF_vars(handshake /\ UNCHANGED <<state, client>>)

\* A client that goes on sending what it has to send.
ClientFairness == WF_vars(ClientStart) /\ WF_vars(ClientSend)

Spec == Init /\ [][Next]_vars /\ Fairness
-----------------------------------------------------------------------------
\* Every variable keeps its type.
TypeOK ==
  /\ state \in AppStates /\ script \in Clients /\ todo \subseteq script.rounds
  /\ outbox \in Seq(Nat) /\ inbox \in Seq(Nat) /\ replies \in Seq(Nat)
  /\ {eof, rst, tls_stream, slow, refused} \subseteq BOOLEAN
  /\ pc \in Pcs /\ protocol \in Protocols
  /\ toTarget \in Seq(Nat) /\ fromTarget \in Seq(Nat)

\* What the client could ever put on the wire.
ScriptUnits == UNION {Units(r.send) : r \in script.rounds}

\* The configured user and password, or the user id that SOCKS4 settles for.
PresentsCredentials ==
  \/ AuthGood \in ScriptUnits
  \/ {GoodUser, GoodPass} \subseteq ScriptUnits
  \/ {4, GoodUser} \subseteq ScriptUnits

\* When credentials are required, no target is ever named or dialled for a client
\* that does not send them, whatever protocol the two detections take it for, in
\* whatever segments its messages arrive and whichever timeouts fire.
AuthGate == state.require_creds /\ target # NoTarget => PresentsCredentials

\* The target dialled is one the client asked for: no delayed, misread or malformed
\* handshake turns into another address.  A URL whose port is no number asks for port
\* 80.  The one exception is a client that hangs up inside its HTTP request line: what
\* there is of the line is parsed, which may name another host or port, and is dialled;
\* nothing of the client's is ever sent there.
CutTargets ==
  UNION {{HttpLineTarget(SubSeq(r.send, i, n)) : i \in {1, 5}, n \in 0..Len(r.send)}
         : r \in script.rounds}
RightTarget ==
  target # NoTarget =>
    target \in script.wants \/ (eof /\ toTarget = <<>> /\ target \in CutTargets)

\* Once the tunnel is open the client reads the success reply of the protocol it
\* spoke and then the target's bytes, with nothing of the proxy's own between or
\* after them, also when the tunnel fails.
TunnelTransparent ==
  fromTarget # <<>> => IsSuffix(SuccessReply(protocol) \o fromTarget, replies)

\* An open proxy dials for every valid SOCKS or TCP client that spoke before the
\* second detection gave up: the detection timeout alone costs it nothing.  The one
\* valid TCP client it turns away is that of a text of 1024 bytes, the longest that
\* parse_target accepts: its length prefix 04 00 is taken for SOCKS4.
OpenClients == script.valid /\ script.kind \in {"SOCKS4", "SOCKS5", "TCP"} /\ ~state.require_creds
LongestText == script.kind = "TCP" /\ \E m \in Sends(script) : Take(m, 2) = <<4, 0>>
Lost == slow \/ eof \/ rst
OpenProxyServes ==
  OpenClients /\ ~LongestText /\ pc = "done" /\ ~Lost => target # NoTarget

\* What the target of a valid SOCKS or TCP client receives is the start of what the client
\* meant for it: the handshake is consumed to the last byte and no further.
HandshakeConsumed ==
  script.valid /\ script.kind \in {"SOCKS4", "SOCKS5", "TCP"}
    => IsPrefix(toTarget, script.payload)

\* What the target of an HTTP client receives is what the BufReader left of the header
\* lines and then the client's payload, whole and in order: never the request line,
\* and nothing twice.
Request == (CHOOSE r \in script.rounds : r.need = <<>>).send
TunnelInOrder ==
  script.kind \in {"CONNECT", "HTTP"} =>
    \E k \in LineLength(Request)..Len(Request) : IsPrefix(toTarget, Drop(Request, k) \o script.payload)

\* A client that hangs up or resets never leaves its task waiting in the handshake,
\* although most of its reads have no timeout.
HandshakeEnds == (eof \/ rst) ~> pc \in {"relay", "done"}

\* A valid client of an open proxy that keeps sending gets its tunnel or a refusal.
OpenClientsAnswered == ClientFairness => (OpenClients ~> pc \in {"relay", "done"})
-----------------------------------------------------------------------------
\* Statements of the repository's documents and comments.

\* README.md:54 "SOCKS4/SOCKS5 support", with --username and --password given: a
\* valid client with the right credentials gets its target.
SocksUsersServed ==
  script.valid /\ script.kind \in {"SOCKS4", "SOCKS5"} /\ pc = "done" /\ ~Lost
    => target # NoTarget

\* README.md:55 "HTTP/HTTPS support": a CONNECT over TLS gets its target.
TlsServed ==
  script.valid /\ script.kind = "TLS" /\ tls_stream /\ pc = "done" /\ ~Lost
    => target # NoTarget

\* README.md:55 again, for a CONNECT on a plain connection that carries the
\* credentials when they are required.
ConnectServed ==
  script.valid /\ script.kind = "CONNECT" /\ pc = "done" /\ ~Lost => target # NoTarget
=============================================================================
