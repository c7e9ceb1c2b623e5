------------------------------- MODULE Server -------------------------------
(***************************************************************************)
(* src/main.rs and the accept loop of src/proxy/listener.rs: from the      *)
(* command line to the end of the process.  A session is one running task  *)
(* here; module Session has its steps, for the AppStates this module lets  *)
(* through.                                                                *)
(***************************************************************************)
EXTENDS Naturals, Sequences

CONSTANTS CommandLines,   \* what a user may type, see ArgsType
          Clients         \* those who connect, once each

None    == "None"         \* an option that is not given
Missing == "Missing"      \* the path of a file that cannot be opened

\* A path stands for its file: the sections a PEM reader finds in it.
Sections == {"cert", "pkcs8", "rsa", "other", "malformed"}
ArgsType(a) ==
  /\ {a.no_creds, a.username, a.password} \subseteq BOOLEAN   \* given or not
  /\ a.proxy_port \in Nat                                    \* a u32
  /\ \A path \in {a.tls_certificate, a.tls_private_key} :
       path \in {<<None>>, <<Missing>>} \/ path \in Seq(Sections)

ASSUME ServerAssumption == \A a \in CommandLines : ArgsType(a)

VARIABLES
  args, phase,
  exit,            \* how the process ended: "no", "usage", "panic", "main"
  state,           \* AppState: [require_creds, credentials, tls_acceptor]
  port,            \* what the listener is bound to, 0 for none
  backlog,         \* connections the kernel holds for accept
  session          \* by client

loop == <<backlog, session>>
vars == <<args, phase, exit, state, port, loop>>

Given(path)   == path # <<None>>
NoState       == [require_creds |-> FALSE, credentials |-> FALSE, tls_acceptor |-> None]
Ephemeral     == 65536      \* the port that the system picks when asked for port 0
-----------------------------------------------------------------------------
\* Reading a PEM file for the sections of one kind stops at a malformed section.
Before(file, kind) ==
  LET hits == {i \in 1..Len(file) : file[i] \in {kind, "malformed"}}
  IN  IF hits = {} THEN None ELSE file[CHOOSE i \in hits : \A j \in hits : i <= j]

\* Mutant: the first section is the key, whatever it is.
load_first_section(file) == IF file \in {<<Missing>>, <<>>} THEN "error" ELSE file[1]

\* PKCS8 first, then the file is opened again for RSA.
load_private_key(file) ==
  CASE file = <<Missing>>                  -> "error"
    [] Before(file, "pkcs8") = "pkcs8"     -> "pkcs8"
    [] Before(file, "pkcs8") = "malformed" -> "error"
    [] Before(file, "rsa") = "rsa"         -> "rsa"
    [] OTHER                               -> "error"

\* with_single_cert refuses an empty chain.
load_certs(file) == file # <<Missing>> /\ Before(file, "cert") = "cert"
                    /\ Before(file, "malformed") = None

create_tls_acceptor(cert, key) ==
  IF load_certs(cert) /\ load_private_key(key) # "error" THEN load_private_key(key) ELSE "error"
-----------------------------------------------------------------------------
Exit(how) == phase' = "exited" /\ exit' = how

\* Mutant: --password is optional.
ArgsOkWithoutPassword(a) == ~a.no_creds => a.username

\* The constraints on Args that clap enforces.
ArgsOk(a) ==
  /\ ~a.no_creds => a.username /\ a.password
  /\ Given(a.tls_private_key) => Given(a.tls_certificate)

parse ==
  /\ phase = "parse"
  /\ IF ArgsOk(args) THEN phase' = "tls" /\ UNCHANGED exit ELSE Exit("usage")
  /\ UNCHANGED <<args, state, port, loop>>

\* Mutant: an acceptor that cannot be made is left out.
acceptor_or_none ==
  IF Given(args.tls_certificate) /\ Given(args.tls_private_key)
  THEN LET a == create_tls_acceptor(args.tls_certificate, args.tls_private_key)
       IN  IF a = "error" THEN None ELSE a
  ELSE None

tls_acceptor ==
  IF Given(args.tls_certificate) /\ Given(args.tls_private_key)
  THEN create_tls_acceptor(args.tls_certificate, args.tls_private_key)
  ELSE None

\* AppState::new, after the unwrap of a TLS acceptor that may have failed.
new ==
  /\ phase = "tls"
  /\ IF tls_acceptor = "error"
     THEN Exit("panic") /\ UNCHANGED state
     ELSE /\ phase' = "bind" /\ UNCHANGED exit
          /\ state' = [require_creds |-> ~args.no_creds,
                       credentials   |-> args.username /\ args.password,
                       tls_acceptor  |-> tls_acceptor]
  /\ UNCHANGED <<args, port, loop>>

\* Mutant: the port is cut to 16 bits.
CutPort(p) == p % 65536

\* addr.parse().unwrap(): proxy_port is a u32, a SocketAddr's port a u16.
ParsedPort(p) == IF p > 65535 THEN 65536 ELSE p

bind ==
  /\ phase = "bind"
  /\ \/ ParsedPort(args.proxy_port) = 65536 /\ Exit("panic") /\ UNCHANGED port
     \/ /\ ParsedPort(args.proxy_port) # 65536
        /\ phase' = "serving" /\ UNCHANGED exit
        /\ port' = IF args.proxy_port = 0 THEN Ephemeral ELSE ParsedPort(args.proxy_port)
     \* The port is taken: the task panics, and main ignores its JoinError.
     \/ /\ ParsedPort(args.proxy_port) # 65536
        /\ Exit("main") /\ UNCHANGED port
  /\ UNCHANGED <<args, state, loop>>
-----------------------------------------------------------------------------
connect(c) ==
  /\ phase = "serving" /\ session[c] = "idle"
  /\ backlog' = Append(backlog, c)
  /\ session' = [session EXCEPT ![c] = "queued"]
  /\ UNCHANGED <<args, phase, exit, state, port>>

\* Mutant: handle_client is awaited in the loop.
PollingInTurn == phase = "serving" /\ backlog # <<>> /\ \A c \in Clients : session[c] # "running"

\* The loop is at accept, and accept is ready.
Polling == phase = "serving" /\ backlog # <<>>

accept ==
  /\ Polling
  /\ backlog' = Tail(backlog)
  /\ session' = [session EXCEPT ![Head(backlog)] = "running"]
  /\ UNCHANGED <<args, phase, exit, state, port>>

\* No descriptor left, or a connection aborted in the queue: the loop is over, and
\* the listener is closed with the connections it has not accepted.
accept_error ==
  /\ Polling
  /\ phase' = "returned"
  /\ backlog' = <<>>
  /\ session' = [c \in Clients |-> IF session[c] = "queued" THEN "reset" ELSE session[c]]
  /\ UNCHANGED <<args, exit, state, port>>

\* handle_client returns or panics; nobody joins its task.
session_end(c) ==
  /\ session[c] = "running" /\ phase # "exited"
  /\ session' = [session EXCEPT ![c] = "ended"]
  /\ UNCHANGED <<args, phase, exit, state, port, backlog>>

\* The runtime ends with main, and drops the sessions that are still running.
main_returns ==
  /\ phase = "returned"
  /\ Exit("main")
  /\ session' = [c \in Clients |-> IF session[c] = "running" THEN "dropped" ELSE session[c]]
  /\ UNCHANGED <<args, state, port, backlog>>
-----------------------------------------------------------------------------
Init ==
  /\ args \in CommandLines /\ phase = "parse" /\ exit = "no"
  /\ state = NoState /\ port = 0
  /\ backlog = <<>> /\ session = [c \in Clients |-> "idle"]

main == parse \/ new \/ bind \/ main_returns

Next ==
  \/ main \/ accept \/ accept_error
  \/ \E c \in Clients : connect(c) \/ session_end(c)

\* main runs and the accept loop is polled; nothing is assumed of the sessions.
Spec == Init /\ [][Next]_vars /\ WF_vars(main) /\ WF_vars(accept \/ accept_error)
-----------------------------------------------------------------------------
\* Every variable keeps its type.
TypeOK ==
  /\ args \in CommandLines
  /\ phase \in {"parse", "tls", "bind", "serving", "returned", "exited"}
  /\ exit \in {"no", "usage", "panic", "main"}
  /\ {state.require_creds, state.credentials} \subseteq BOOLEAN
  /\ state.tls_acceptor \in {None, "pkcs8", "rsa"}
  /\ port \in 0..Ephemeral /\ backlog \in Seq(Clients)
  /\ session \in [Clients -> {"idle", "queued", "running", "ended", "reset", "dropped"}]

\* Start-up never falls back to something weaker.  A proxy that serves without
\* --no-creds asks for credentials and has them; one that was given a certificate
\* and a key has an acceptor with a key of that file; and it listens on the port
\* it was given, which as a u32 may be no port at all.
ServesAsAsked ==
  phase = "serving" =>
    /\ ~args.no_creds => state.require_creds /\ state.credentials
    /\ Given(args.tls_certificate) /\ Given(args.tls_private_key) =>
         \E i \in 1..Len(args.tls_private_key) : args.tls_private_key[i] = state.tls_acceptor
    /\ port = IF args.proxy_port = 0 THEN Ephemeral ELSE args.proxy_port

\* No session keeps the others waiting: a client that has connected is accepted, or
\* the server has ended, although running sessions may never end.
ClientsAccepted == \A c \in Clients : session[c] = "queued" ~> session[c] # "queued"
=============================================================================
