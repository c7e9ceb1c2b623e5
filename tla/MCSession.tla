----------------------------- MODULE MCSession ------------------------------
(***************************************************************************)
(* The clients of the runs: for each protocol a well-behaved one, one      *)
(* whose credentials are wrong or missing, and malformed ones.             *)
(***************************************************************************)
EXTENDS Session

Client(kind, valid, wants, payload, rounds) ==
  [kind |-> kind, valid |-> valid, wants |-> wants, payload |-> payload, rounds |-> rounds]

Config(creds, tls) == [require_creds |-> creds, tls_acceptor |-> tls]
OpenStates  == {Config(FALSE, TRUE)}
CredsStates == {Config(TRUE, TRUE)}
BareStates  == {Config(FALSE, FALSE), Config(TRUE, FALSE)}
AllStates   == OpenStates \cup CredsStates \cup BareStates

IPv4   == <<10, 0, 0, 1>>
Port80 == <<0, 80>>
IPv6   == <<32, 1, 0, 0, 0, 0, 0, 0, 0, 0, 0, 0, 0, 0, 0, 1>>
ToIPv4 == {Target(IPv4, 80)}
Digits80 == <<56, 48>>
HostPort == <<Name, Colon>> \o Digits80
NamedTarget == Target(<<Name>>, 80)
Once(send) == Round(<<>>, send)
-----------------------------------------------------------------------------
\* SOCKS4: a request, and payload once the success reply is there.
Socks4Request(cmd, user) == <<4, cmd>> \o Port80 \o IPv4 \o user \o <<0>>
Socks4Payload == Round(send_socks4_response(TRUE), <<Data, Data>>)
Socks4(cmd, user) ==
  Client("SOCKS4", cmd = 1, IF cmd = 1 THEN ToIPv4 ELSE {}, <<Data, Data>>,
         {Once(Socks4Request(cmd, user)), Socks4Payload})
\* A client that knows it must say everything twice to a proxy with credentials.
Socks4Twice ==
  Client("SOCKS4", FALSE, ToIPv4, <<Data>>,
         {Once(Socks4Request(1, <<GoodUser>>) \o Socks4Request(1, <<GoodUser>>)),
          Round(send_socks4_response(TRUE), <<Data>>)})

Socks4Clients == {Socks4(1, <<GoodUser>>), Socks4(1, <<BadUser>>), Socks4(2, <<GoodUser>>), Socks4Twice}
-----------------------------------------------------------------------------
\* SOCKS5: greeting, the method's own sub-negotiation, request, payload.
Socks5Request(cmd, addr) == <<5, cmd, 0>> \o addr \o Port80
UserPass(user, pass) == <<1, 1, user, 1, pass>>
Socks5(methods, user, pass, cmd, addr, wants) ==
  Client("SOCKS5", wants # {}, wants, <<Data, Data>>,
         { Once(<<5, Len(methods)>> \o methods),
           Round(<<5, 2>>, UserPass(user, pass)),
           Round(<<5, 0>>, Socks5Request(cmd, addr)),
           Round(<<5, 2, 1, 0>>, Socks5Request(cmd, addr)),
           Round(<<5, 0, 5, 0>>, <<Data, Data>>) })
V4Addr == <<1>> \o IPv4
Socks5User(user, pass) == Socks5(<<0, 2>>, user, pass, 1, V4Addr, ToIPv4)
\* A client that knows it must greet again after the authentication.
Socks5Twice ==
  Client("SOCKS5", FALSE, ToIPv4, <<Data>>,
         { Once(<<5, 1, 2>>), Round(<<5, 2>>, UserPass(GoodUser, GoodPass)),
           Round(<<5, 2, 1, 0>>, <<5, 1, 0>>),
           Round(<<5, 2, 1, 0, 5, 0>>, Socks5Request(1, V4Addr)),
           Round(<<5, 2, 1, 0, 5, 0, 5, 0>>, <<Data>>) })
\* A client of the wrong sub-negotiation version.
Socks5BadVersion ==
  Client("SOCKS5", FALSE, {}, <<>>, {Once(<<5, 1, 2>>), Round(<<5, 2>>, <<2, 0, 0>>)})

Socks5Clients ==
  { Socks5User(GoodUser, GoodPass), Socks5User(GoodUser, BadPass),
    Socks5User(BadUser, GoodPass), Socks5User(NonUtf8, GoodPass), Socks5Twice, Socks5BadVersion,
    Socks5(<<0>>, BadUser, BadPass, 1, V4Addr, ToIPv4),
    Socks5(<<0>>, BadUser, BadPass, 2, V4Addr, {}),
    Socks5(<<0>>, BadUser, BadPass, 1, <<4>> \o IPv6, {Target(IPv6, 80)}),
    Socks5(<<0>>, BadUser, BadPass, 1, <<3, 1, Name>>, {NamedTarget}),
    Socks5(<<0>>, BadUser, BadPass, 1, <<3, 1, NonUtf8>>, {}),
    Socks5(<<0>>, BadUser, BadPass, 1, <<2>> \o IPv4, {}) }
-----------------------------------------------------------------------------
\* The proxy's own protocol: a length, host:port, then payload at once.
Tcp(valid, send) ==
  Client("TCP", valid, IF valid THEN {NamedTarget} ELSE {}, <<Data>>, {Once(send)})
TcpClients ==
  { Tcp(TRUE, <<0, 4>> \o HostPort \o <<Data>>), Tcp(FALSE, <<0, 1, BadText>>),
    Tcp(FALSE, <<0, 5, NonUtf8>> \o HostPort), Tcp(FALSE, <<0, 0>>),
    Tcp(FALSE, <<6, 0>> \o HostPort), Tcp(FALSE, <<0, 9>> \o HostPort),
    Tcp(FALSE, <<4, 0>> \o HostPort \o HostPort),   \* the start of the longest text
    Tcp(FALSE, <<0, 5>> \o HostPort \o <<Colon>>),
    Tcp(FALSE, <<0, 7, Name, Colon, 54, 53, 53, 51, 54>>) }
-----------------------------------------------------------------------------
\* Method, URL, version.  GET and PUT bring the blank with their first four bytes.
Line(method, url) == method \o <<Space>> \o url \o <<LineEnd>>
GET    == <<71, 69, 84>>
POST   == <<80, 79, 83, 84>>
DELETE == <<68, 69, 76, 69, 84, 69>>
LongName == <<Name, Domain>>
HttpClient(kind, valid, wants, send) ==
  Client(kind, valid, wants, <<Data>>, {Once(send), Round(<<R200>>, <<Data>>)})
Connect(headers) ==
  HttpClient("CONNECT", TRUE, {NamedTarget}, Line(CONNECT, HostPort) \o headers)
HttpClients ==
  { Connect(<<Header>>), Connect(<<AuthGood, Header>>), Connect(<<AuthBad, AuthGood>>),
    Connect(<<AuthLower>>),
    HttpClient("CONNECT", FALSE, {}, Line(CONNECT, <<Name>>) \o <<AuthGood>>),
    HttpClient("CONNECT", FALSE, {}, Line(CONNECT, <<Name, Colon, NonUtf8>>)),
    HttpClient("HTTP", TRUE, {Target(LongName, 81)},
               Line(GET, <<Scheme>> \o LongName \o <<Colon, 56, 49, Path>>) \o <<Header>>),
    HttpClient("HTTP", FALSE, {NamedTarget},
               Line(GET, <<Scheme, Name, Colon, BadText, Path>>) \o <<Header>>),
    HttpClient("HTTP", FALSE, {}, Line(POST, <<Path>>) \o <<AuthGood>>),
    HttpClient("HTTP", TRUE, {NamedTarget}, Line(DELETE, <<Scheme, Name>>) \o <<AuthGood>>) }
-----------------------------------------------------------------------------
\* TLS to the proxy, and a request inside it.  Without a ServerHello the request is
\* never sent, and the ClientHello itself may be taken for the request.
Tls(valid, wants, send, payload) ==
  Client("TLS", valid, wants \cup {SniTarget, StrayTarget, UnknownHost}, payload,
         { Once(ClientHello), Round(<<ServerHello>>, send),
           Round(<<ServerHello, R200>>, payload) })
TlsClients ==
  { Tls(TRUE, {NamedTarget}, Line(CONNECT, HostPort) \o <<Header>>, <<Data>>),
    Tls(TRUE, {NamedTarget}, Line(CONNECT, HostPort) \o <<AuthGood>>, <<Data>>),
    Tls(FALSE, {Target(LongName, 80)}, Line(DELETE, <<Scheme>> \o LongName) \o <<Header>>, <<Data>>),
    Tls(FALSE, {}, <<5, 1, 0>>, <<>>),
    Tls(FALSE, {}, <<4, 1, 0, 80, 10, 0, 0, 1, 0>>, <<>>),
    Tls(FALSE, {NamedTarget}, <<0, 4>> \o HostPort, <<>>),
    Tls(FALSE, {}, ClientHello, <<>>) }

AllClients == Socks4Clients \cup Socks5Clients \cup TcpClients \cup HttpClients \cup TlsClients
OpenValidClients == {c \in Socks4Clients \cup Socks5Clients \cup TcpClients : c.valid}
UserClients == {Socks5User(GoodUser, GoodPass), Socks4(1, <<GoodUser>>)}
ConnectClients == {Connect(<<AuthGood, Header>>)}
TlsConnectClients == {Tls(TRUE, {NamedTarget}, Line(CONNECT, HostPort) \o <<Header>>, <<Data>>)}
=============================================================================
