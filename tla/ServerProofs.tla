---------------------------- MODULE ServerProofs ----------------------------
(***************************************************************************)
(* The server's invariants, for every command line, every PEM file and any *)
(* number of clients.                                                      *)
(*                                                                         *)
(* ServesAsAsked speaks of the serving server only; what makes it hold is  *)
(* decided earlier, by parse and by AppState::new, and has to be carried   *)
(* through the phases in between.                                          *)
(***************************************************************************)
EXTENDS Server, SequenceTheorems, WellFoundedInduction, TLAPS

\* From the check of the arguments on they are acceptable.
ArgsChecked == phase \in {"tls", "bind", "serving"} => ArgsOk(args)

\* From AppState::new on the state is the one the arguments ask for.
StateBuilt ==
  phase \in {"bind", "serving"} =>
    /\ state.require_creds = ~args.no_creds
    /\ state.credentials = (args.username /\ args.password)
    /\ state.tls_acceptor = tls_acceptor /\ tls_acceptor # "error"

PortBound ==
  phase = "serving" => port = IF args.proxy_port = 0 THEN Ephemeral ELSE args.proxy_port

\* TypeOK, the Boolean fields apart.
CredsTypes == {state.require_creds, state.credentials} \subseteq BOOLEAN
LoopTypes ==
  /\ phase \in {"parse", "tls", "bind", "serving", "returned", "exited"}
  /\ exit \in {"no", "usage", "panic", "main"}
  /\ backlog \in Seq(Clients)
  /\ session \in [Clients -> {"idle", "queued", "running", "ended", "reset", "dropped"}]
StartTypes ==
  args \in CommandLines /\ state.tls_acceptor \in {None, "pkcs8", "rsa"} /\ port \in 0..Ephemeral

\* The inductive invariant.
IInv == TypeOK /\ ArgsChecked /\ StateBuilt /\ PortBound
-----------------------------------------------------------------------------
\* The least-number principle, from the well-foundedness of < on the naturals.
LEMMA LeastElement ==
  ASSUME NEW S \in SUBSET Nat, S # {}
  PROVE  \E x \in S : \A y \in S : x <= y
<1> DEFINE R == OpToRel(<, Nat)
<1>1. IsWellFoundedOn(R, Nat)
  BY NatLessThanWellFounded
<1>2. \A x, y \in Nat : x < y => <<x, y>> \in R
  BY DEF OpToRel
<1> HIDE DEF R
<1>3. PICK x \in S : \A y \in S : ~ (<<y, x>> \in R)
  BY <1>1, WFMin
<1>4. \A y \in S : x <= y
  <2> SUFFICES ASSUME NEW y \in S PROVE x <= y
    OBVIOUS
  <2>1. x \in Nat /\ y \in Nat
    OBVIOUS
  <2>2. ~(y < x)
    BY <1>2, <1>3, <2>1
  <2> QED BY <2>1, <2>2
<1> QED
  BY <1>4

\* What the reader of a PEM file stops at is a section of the file, of the kind it
\* looks for or malformed.
LEMMA BeforeIsSection ==
  ASSUME NEW file \in Seq(Sections), NEW kind, Before(file, kind) # None
  PROVE  \E i \in 1..Len(file) : file[i] = Before(file, kind) /\ file[i] \in {kind, "malformed"}
<1> DEFINE hits == {i \in 1..Len(file) : file[i] \in {kind, "malformed"}}
           first == CHOOSE i \in hits : \A j \in hits : i <= j
<1>1. hits # {} /\ Before(file, kind) = file[first]
  BY Zenon DEF Before
<1>2. hits \in SUBSET Nat
  OBVIOUS
<1>3. first \in hits
  <2> HIDE DEF hits
  <2>1. \E i \in hits : \A j \in hits : i <= j
    BY <1>1, <1>2, LeastElement
  <2> QED BY <2>1
<1> HIDE DEF first
<1> QED
  BY <1>1, <1>3

\* load_private_key answers with the kind of a key that is in the file.
LEMMA KeyIsInFile ==
  ASSUME NEW file \in Seq(Sections), load_private_key(file) # "error"
  PROVE  /\ load_private_key(file) \in {"pkcs8", "rsa"}
         /\ \E i \in 1..Len(file) : file[i] = load_private_key(file)
<1>1. CASE load_private_key(file) = "pkcs8" /\ Before(file, "pkcs8") = "pkcs8"
  BY <1>1, BeforeIsSection DEF None
<1>2. CASE load_private_key(file) = "rsa" /\ Before(file, "rsa") = "rsa"
  BY <1>2, BeforeIsSection DEF None
<1> QED
  BY <1>1, <1>2 DEF load_private_key

\* A file that cannot be opened yields no key.
LEMMA MissingKey == load_private_key(<<Missing>>) = "error"
<1>1. ASSUME NEW kind, kind # Missing PROVE Before(<<Missing>>, kind) = None
  <2>1. {i \in 1..Len(<<Missing>>) : <<Missing>>[i] \in {kind, "malformed"}} = {}
    BY <1>1 DEF Missing
  <2> QED BY <2>1, Zenon DEF Before
<1>2. Before(<<Missing>>, "pkcs8") = None /\ Before(<<Missing>>, "rsa") = None
  BY <1>1 DEF Missing
<1> QED
  BY <1>2 DEF load_private_key, None

\* The acceptor of a pair of files that were both named.
LEMMA AcceptorKey ==
  ASSUME args \in CommandLines, Given(args.tls_certificate), Given(args.tls_private_key),
         tls_acceptor # "error"
  PROVE  /\ tls_acceptor \in {"pkcs8", "rsa"}
         /\ \E i \in 1..Len(args.tls_private_key) : args.tls_private_key[i] = tls_acceptor
<1> DEFINE key == args.tls_private_key
<1>1. tls_acceptor = load_private_key(key) /\ load_private_key(key) # "error"
  BY DEF tls_acceptor, create_tls_acceptor
<1>2. key # <<Missing>>
  BY <1>1, MissingKey
<1>3. key \in Seq(Sections)
  BY <1>2, ServerAssumption DEF ArgsType, Given
<1> HIDE DEF key
<1>4. /\ load_private_key(key) \in {"pkcs8", "rsa"}
      /\ \E i \in 1..Len(key) : key[i] = load_private_key(key)
  BY <1>1, <1>3, KeyIsInFile
<1> QED
  BY <1>1, <1>4 DEF key

\* An acceptor that could be built has no key or one of the two kinds.
LEMMA AcceptorType ==
  ASSUME args \in CommandLines, tls_acceptor # "error"
  PROVE  tls_acceptor \in {None, "pkcs8", "rsa"}
<1>1. CASE Given(args.tls_certificate) /\ Given(args.tls_private_key)
  BY <1>1, AcceptorKey
<1>2. CASE ~(Given(args.tls_certificate) /\ Given(args.tls_private_key))
  BY <1>2 DEF tls_acceptor
<1> QED
  BY <1>1, <1>2
-----------------------------------------------------------------------------
\* TypeOK in three parts that the provers can handle one at a time.
LEMMA TypeParts == TypeOK <=> CredsTypes /\ LoopTypes /\ StartTypes
  BY PTL DEF TypeOK, CredsTypes, LoopTypes, StartTypes

\* The same of the next state.
LEMMA TypePartsNext == TypeOK' <=> CredsTypes' /\ LoopTypes' /\ StartTypes'
  BY PTL DEF TypeOK, CredsTypes, LoopTypes, StartTypes

\* The invariant holds before the arguments are parsed.
LEMMA InitIInv == Init => IInv
<1> SUFFICES ASSUME Init PROVE IInv
  OBVIOUS
<1>1. CredsTypes
  BY DEF Init, NoState, CredsTypes
<1>2. LoopTypes
  BY EmptySeq DEF Init, LoopTypes
<1>3. StartTypes
  <2>1. 0 \in 0..Ephemeral
    BY DEF Ephemeral
  <2> QED BY <2>1 DEF Init, NoState, StartTypes
<1>4. ArgsChecked /\ StateBuilt /\ PortBound
  BY DEF Init, ArgsChecked, StateBuilt, PortBound
<1> QED
  BY <1>1, <1>2, <1>3, <1>4, TypeParts DEF IInv

\* Steps that leave the start-up data alone keep its types.
LEMMA StateKept ==
  ASSUME CredsTypes, StartTypes, UNCHANGED <<args, state, port>>
  PROVE  CredsTypes' /\ StartTypes' /\ tls_acceptor' = tls_acceptor
<1>1. args' = args /\ state' = state /\ port' = port
  OBVIOUS
<1>2. CredsTypes'
  BY <1>1, Zenon DEF CredsTypes
<1>3. StartTypes'
  BY <1>1, Zenon DEF StartTypes
<1>4. tls_acceptor' = tls_acceptor
  BY <1>1, Zenon DEF tls_acceptor
<1> QED
  BY <1>2, <1>3, <1>4

\* A step that leaves behind it what the start-up has done.
LEMMA ServingStep ==
  ASSUME IInv, UNCHANGED <<args, state, port>>, phase' = phase \/ phase' \in {"returned", "exited"},
         LoopTypes'
  PROVE  IInv'
<1>1. CredsTypes /\ StartTypes
  BY TypeParts DEF IInv
<1>2. CredsTypes' /\ StartTypes' /\ tls_acceptor' = tls_acceptor
  BY <1>1, StateKept
<1>3. ArgsChecked'
  BY Zenon DEF IInv, ArgsChecked
<1>4. StateBuilt'
  BY <1>2, Zenon DEF IInv, StateBuilt
<1>5. PortBound'
  BY DEF IInv, PortBound
<1> QED
  BY <1>2, <1>3, <1>4, <1>5, TypePartsNext DEF IInv

\* Args::parse, and the checks of main.
LEMMA ParseStep ==
  ASSUME IInv, parse
  PROVE  IInv'
<1>1. CredsTypes /\ LoopTypes /\ StartTypes
  BY TypeParts DEF IInv
<1>2. /\ phase = "parse" /\ UNCHANGED <<args, state, port, backlog, session>>
      /\ \/ ArgsOk(args) /\ phase' = "tls" /\ exit' = exit
         \/ phase' = "exited" /\ exit' = "usage"
  BY DEF parse, Exit, loop
<1>3. CredsTypes' /\ StartTypes'
  BY <1>1, <1>2, StateKept
<1>4. LoopTypes'
  BY <1>1, <1>2 DEF LoopTypes
<1>5. ArgsChecked'
  BY <1>2 DEF ArgsChecked, ArgsOk
<1>6. StateBuilt' /\ PortBound'
  BY <1>2 DEF StateBuilt, PortBound
<1> QED
  BY <1>3, <1>4, <1>5, <1>6, TypePartsNext DEF IInv

\* AppState::new with the loading of the keys.
LEMMA NewStep ==
  ASSUME IInv, new
  PROVE  IInv'
<1>1. CredsTypes /\ LoopTypes /\ StartTypes
  BY TypeParts DEF IInv
<1>2. phase = "tls" /\ UNCHANGED <<args, port, backlog, session>>
  BY DEF new, loop
<1>3. CASE tls_acceptor = "error"
  <2>1. phase' = "exited" /\ exit' = "panic" /\ state' = state
    BY <1>3 DEF new, Exit
  <2>2. LoopTypes'
    BY <1>1, <1>2, <2>1 DEF LoopTypes
  <2> QED BY <1>2, <2>1, <2>2, ServingStep
<1>4. CASE tls_acceptor # "error"
  <2>1. /\ phase' = "bind" /\ exit' = exit
        /\ state' = [require_creds |-> ~args.no_creds,
                     credentials   |-> args.username /\ args.password,
                     tls_acceptor  |-> tls_acceptor]
    BY <1>4 DEF new
  <2>2. /\ state'.require_creds = ~args.no_creds
        /\ state'.credentials = (args.username /\ args.password)
        /\ state'.tls_acceptor = tls_acceptor
    BY <2>1
  <2>3. args \in CommandLines /\ port \in 0..Ephemeral
    BY <1>1 DEF StartTypes
  <2>4. tls_acceptor \in {None, "pkcs8", "rsa"}
    BY <1>4, <2>3, AcceptorType
  <2>5. StartTypes'
    BY <1>2, <2>2, <2>3, <2>4 DEF StartTypes
  <2>6. CredsTypes'
    BY <2>2 DEF CredsTypes
  <2>7. LoopTypes'
    BY <1>1, <1>2, <2>1 DEF LoopTypes
  <2>8. tls_acceptor' = tls_acceptor
    BY <1>2, Zenon DEF tls_acceptor
  <2>9. ArgsChecked'
    <3>1. ArgsOk(args)
      BY <1>2 DEF IInv, ArgsChecked
    <3> QED BY <1>2, <3>1, Zenon DEF ArgsChecked
  <2>10. StateBuilt'
    BY <1>2, <1>4, <2>2, <2>8, Zenon DEF StateBuilt
  <2>11. PortBound'
    BY <2>1 DEF PortBound
  <2> QED
    BY <2>5, <2>6, <2>7, <2>9, <2>10, <2>11, TypePartsNext DEF IInv
<1> QED
  BY <1>3, <1>4

\* TcpListener::bind.
LEMMA BindStep ==
  ASSUME IInv, bind
  PROVE  IInv'
<1>1. CredsTypes /\ LoopTypes /\ StartTypes
  BY TypeParts DEF IInv
<1>2. phase = "bind" /\ UNCHANGED <<args, state, backlog, session>>
  BY DEF bind, loop
<1>3. args \in CommandLines /\ args.proxy_port \in Nat
  BY <1>1, ServerAssumption DEF StartTypes, ArgsType
<1>4. \/ phase' = "exited" /\ exit' \in {"panic", "main"} /\ port' = port
      \/ /\ args.proxy_port <= 65535 /\ phase' = "serving" /\ exit' = exit
         /\ port' = IF args.proxy_port = 0 THEN Ephemeral ELSE args.proxy_port
  BY <1>3 DEF bind, Exit, ParsedPort
<1>5. LoopTypes'
  BY <1>1, <1>2, <1>4 DEF LoopTypes
<1>6. CASE phase' = "exited" /\ port' = port
  BY <1>2, <1>5, <1>6, ServingStep
<1>7. CASE /\ args.proxy_port <= 65535 /\ phase' = "serving"
           /\ port' = IF args.proxy_port = 0 THEN Ephemeral ELSE args.proxy_port
  <2>1. port' \in 0..Ephemeral
    <3>1. Ephemeral \in Nat /\ 65535 <= Ephemeral
      BY DEF Ephemeral
    <3> QED BY <1>3, <1>7, <3>1
  <2>2. StartTypes'
    BY <1>1, <1>2, <2>1, Zenon DEF StartTypes
  <2>3. CredsTypes'
    BY <1>1, <1>2, Zenon DEF CredsTypes
  <2>4. tls_acceptor' = tls_acceptor
    BY <1>2, Zenon DEF tls_acceptor
  <2>5. ArgsChecked'
    <3>1. ArgsOk(args)
      BY <1>2 DEF IInv, ArgsChecked
    <3> QED BY <1>2, <3>1, Zenon DEF ArgsChecked
  <2>6. StateBuilt'
    <3>1. /\ state.require_creds = ~args.no_creds
          /\ state.credentials = (args.username /\ args.password)
          /\ state.tls_acceptor = tls_acceptor /\ tls_acceptor # "error"
      BY <1>2 DEF IInv, StateBuilt
    <3> QED BY <1>2, <2>4, <3>1, Zenon DEF StateBuilt
  <2>7. PortBound'
    BY <1>2, <1>7, SMT DEF PortBound
  <2> QED
    BY <1>5, <2>2, <2>3, <2>5, <2>6, <2>7, TypePartsNext DEF IInv
<1> QED
  BY <1>4, <1>6, <1>7

\* The accept loop, the clients and the sessions.
LEMMA LoopStep ==
  ASSUME IInv, accept \/ accept_error \/ main_returns \/ \E c \in Clients : connect(c) \/ session_end(c)
  PROVE  IInv'
<1>1. LoopTypes
  BY TypeParts DEF IInv
<1>2. ASSUME LoopTypes', UNCHANGED <<args, state, port>>,
             phase' = phase \/ phase' \in {"returned", "exited"}
      PROVE  IInv'
  BY <1>2, ServingStep
<1> DEFINE States == {"idle", "queued", "running", "ended", "reset", "dropped"}
<1>3. ASSUME NEW c \in Clients, NEW st \in States, session' = [session EXCEPT ![c] = st],
             backlog' \in Seq(Clients), UNCHANGED <<args, phase, exit, state, port>>
      PROVE  IInv'
  <2>1. session \in [Clients -> States]
    BY <1>1 DEF LoopTypes
  <2>2. session' \in [Clients -> States]
    BY <1>3, <2>1
  <2>3. LoopTypes'
    BY <1>1, <1>3, <2>2, Zenon DEF LoopTypes
  <2> QED BY <1>2, <1>3, <2>3
<1>4. CASE accept
  <2>1. /\ backlog \in Seq(Clients) /\ backlog # <<>> /\ backlog' = Tail(backlog)
        /\ session' = [session EXCEPT ![Head(backlog)] = "running"]
        /\ UNCHANGED <<args, phase, exit, state, port>>
    BY <1>1, <1>4 DEF accept, Polling, LoopTypes
  <2>2. Head(backlog) \in Clients /\ backlog' \in Seq(Clients)
    BY <2>1
  <2> QED BY <1>3, <2>1, <2>2
<1>5. CASE accept_error
  <2>1. /\ phase' = "returned" /\ backlog' = <<>>
        /\ session' = [c \in Clients |-> IF session[c] = "queued" THEN "reset" ELSE session[c]]
        /\ UNCHANGED <<args, exit, state, port>>
    BY <1>5 DEF accept_error
  <2>2. session' \in [Clients -> States]
    BY <1>1, <2>1 DEF LoopTypes
  <2>3. LoopTypes'
    BY <1>1, <2>1, <2>2, EmptySeq DEF LoopTypes
  <2> QED BY <1>2, <2>1, <2>3
<1>6. CASE main_returns
  <2>1. /\ phase = "returned" /\ phase' = "exited" /\ exit' = "main"
        /\ session' = [c \in Clients |-> IF session[c] = "running" THEN "dropped" ELSE session[c]]
        /\ UNCHANGED <<args, state, port, backlog>>
    BY <1>6 DEF main_returns, Exit
  <2>2. session' \in [Clients -> States]
    BY <1>1, <2>1 DEF LoopTypes
  <2>3. LoopTypes'
    BY <1>1, <2>1, <2>2 DEF LoopTypes
  <2> QED BY <1>2, <2>1, <2>3
<1>7. ASSUME NEW c \in Clients, connect(c)
      PROVE  IInv'
  <2>1. /\ backlog \in Seq(Clients) /\ backlog' = Append(backlog, c)
        /\ session' = [session EXCEPT ![c] = "queued"]
        /\ UNCHANGED <<args, phase, exit, state, port>>
    BY <1>1, <1>7 DEF connect, LoopTypes
  <2>2. backlog' \in Seq(Clients)
    BY <2>1
  <2> QED BY <1>3, <2>1, <2>2
<1>8. ASSUME NEW c \in Clients, session_end(c)
      PROVE  IInv'
  <2>1. /\ backlog' \in Seq(Clients) /\ session' = [session EXCEPT ![c] = "ended"]
        /\ UNCHANGED <<args, phase, exit, state, port>>
    BY <1>1, <1>8 DEF session_end, LoopTypes
  <2> QED BY <1>3, <2>1
<1> QED
  BY <1>4, <1>5, <1>6, <1>7, <1>8

\* The invariant is inductive.
LEMMA StepIInv ==
  ASSUME IInv, [Next]_vars
  PROVE  IInv'
<1>1. CASE UNCHANGED vars
  <2>1. UNCHANGED <<args, phase, exit, state, port, backlog, session>>
    BY <1>1 DEF vars, loop
  <2>2. LoopTypes
    BY TypeParts DEF IInv
  <2>3. LoopTypes'
    BY <2>1, <2>2, Zenon DEF LoopTypes
  <2> QED BY <2>1, <2>3, ServingStep
<1> QED
  BY <1>1, ParseStep, NewStep, BindStep, LoopStep DEF Next, main
-----------------------------------------------------------------------------
\* The invariant holds always.
LEMMA AlwaysIInv == Spec => []IInv
<1>1. Init => IInv
  BY InitIInv
<1>2. IInv /\ [Next]_vars => IInv'
  BY StepIInv
<1> QED
  BY <1>1, <1>2, PTL DEF Spec

\* From the command line to the end of the process every variable keeps its type.
THEOREM ServerTypes == Spec => []TypeOK
<1>1. IInv => TypeOK
  BY DEF IInv
<1> QED
  BY <1>1, AlwaysIInv, PTL

\* main, create_tls_acceptor and start never fall back: for every command line and
\* whatever sections its PEM files hold, a server that serves has the credentials, a
\* key out of the named file and the port that were asked for.
THEOREM ServerServesAsAsked == Spec => []ServesAsAsked
<1>1. IInv => ServesAsAsked
  <2> SUFFICES ASSUME IInv, phase = "serving"
               PROVE  /\ ~args.no_creds => state.require_creds /\ state.credentials
                      /\ Given(args.tls_certificate) /\ Given(args.tls_private_key) =>
                           \E i \in 1..Len(args.tls_private_key) :
                             args.tls_private_key[i] = state.tls_acceptor
                      /\ port = IF args.proxy_port = 0 THEN Ephemeral ELSE args.proxy_port
    BY DEF ServesAsAsked
  <2>1. /\ state.require_creds = ~args.no_creds
        /\ state.credentials = (args.username /\ args.password)
        /\ state.tls_acceptor = tls_acceptor /\ tls_acceptor # "error"
    BY DEF IInv, StateBuilt
  <2>2. ~args.no_creds => args.username /\ args.password
    BY DEF IInv, ArgsChecked, ArgsOk
  <2>3. ~args.no_creds => state.require_creds /\ state.credentials
    BY <2>1, <2>2, Zenon
  <2>4. args \in CommandLines
    BY TypeParts DEF IInv, StartTypes
  <2>5. Given(args.tls_certificate) /\ Given(args.tls_private_key) =>
          \E i \in 1..Len(args.tls_private_key) : args.tls_private_key[i] = state.tls_acceptor
    BY <2>1, <2>4, AcceptorKey
  <2>6. port = IF args.proxy_port = 0 THEN Ephemeral ELSE args.proxy_port
    BY DEF IInv, PortBound
  <2> QED BY <2>3, <2>5, <2>6
<1> QED
  BY <1>1, AlwaysIInv, PTL
=============================================================================
