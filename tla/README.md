# crabby_proxy: models, checks and proofs

A TLA+ development for the proxy in this repository. The modules model the code
under `src/`, TLC checks them on small instances, and TLAPS proves the results
that should hold for every client, configuration and port range.

## 1. The system

| Part | Source | State it keeps | Operations | Module |
|---|---|---|---|---|
| Client session | `src/proxy/listener.rs` `handle_client` and all it calls | the socket (plain or TLS), the detected protocol, the target | detect, TLS accept, authenticate, detect again, parse the target, dial, answer, relay, fail | `Session`, `Wire` |
| Replies and formats | `src/utils.rs`, `listener.rs` | none | build replies, recognise requests, check credentials | `Wire` |
| Relay | `src/stream.rs` | two loops: a buffer and a total each | read, write_all, shutdown, try_join! | `Relay`, `Pipe` |
| Port allocator | `src/tunnel/port_allocator.rs` | set of leased ports, deque of free ports, `next_port` | allocate (any, named), release | `PortAllocator`, `PortPool` |
| Tunnel manager | `src/tunnel/manager.rs`, `error.rs` | tunnels and tasks by port, the allocator | create, close, shutdown; listener and connection tasks | `TunnelManager` |
| Connection manager | `src/connection.rs` | pending and active tables, one-shot senders | add, approve, reject, activate, close | `ConnectionManager`, `RequestLife` |
| Start-up and accept loop | `src/main.rs`, `src/app_state.rs`, key loading in `src/utils.rs`, `run_proxy_server` | arguments, `AppState`, the listening socket, the sessions | parse, load keys, bind, accept, spawn, return | `Server` |
| Upstream CONNECT | `src/proxy/relay.rs`, `src/utils.rs` | the response buffer | send CONNECT, read the answer | `Handshake` |
| SNI extraction | `listener.rs` `extract_sni_from_tls` | none | scan a ClientHello | `Sni`, `Wire` |
| Error types, configuration, admin interface | `error.rs`, `config.rs` | | | not modelled, see section 8 |

How they interact. `main` builds one `AppState` and spawns `run_proxy_server`,
which spawns one `handle_client` task per connection. Sessions share only the
immutable part of `AppState`, so they do not interfere: one session with its
client is the whole of the concurrency there. Inside a session the awaits are
the points at which the client, the timers and the task interleave. Once the
target is connected the session hands both sockets to
`create_bidirectional_tunnel`. The tunnel manager owns a port allocator and a
listener task per port; connections of a tunnel are detached tasks. The
connection manager is constructed in `AppState` and not called by anything yet,
and nothing calls the tunnel manager or `handShake`: their modules allow every
sequence of calls.

What is hard here:

* how a request is cut into segments decides what a single `peek` or `read` sees;
* the protocol is detected twice, authenticated as the first answer and parsed as
  the second, with a consumed handshake or a fired timeout between the two;
* look-ahead is a peek on a plain socket and a consuming read on TLS;
* most handshake reads have no timeout, two detections and one parser have one;
* replies and payload share a stream: a byte too many or too few goes to the
  wrong reader;
* the relay's loops are cancelled by each other's errors and blocked by their own
  receivers;
* the allocator keeps every port in one of two structures;
* the tunnel manager's calls are atomic, its tasks are not: an abort takes effect
  later, a bind fails after its tunnel was returned, connections are detached;
* the connection manager removes an entry before it looks at its state;
* one failed accept ends the process with all its sessions.

`PROJECT.json` lists these as hazards with the line at which each one bites and
the properties that cover it.

What makes each part correct:

* session: only clients with the credentials get a target when they are required;
  the target is the one asked for; the handshake is consumed exactly; nothing of
  the proxy's own is mixed into the tunnel; a client that leaves frees its task;
* relay: two pipes (prefix, order, end of stream last), independent of each other;
* allocator: set and deque part the range, replies are those of a pool of ports;
* tunnel manager: its tables, the allocator and the listener tasks agree, it is a
  pool of ports until it is shut down, a closed tunnel's listener ends;
* connection manager: one decision per request, no waiter is orphaned, only
  approved requests become active;
* server: it serves with what it was asked for or not at all, and no session holds
  up another client;
* upstream handshake: the verdict depends on the answer and not on its segments,
  and comes with the end of the header;
* SNI: a name is taken whole or not at all.

## 2. Modules

* `Wire` - what is on the wire. A stream is a sequence of units: values below 256
  are bytes, larger ones are texts of which only the kind matters (a header with
  good credentials, a host name, a path). Bytes that the code compares, reads as
  lengths, splits at or parses as digits stay bytes; a length counts units. Holds
  `detect_protocol`, the reply bytes, the credential checks, where each SOCKS
  message ends, and how a request line or a text is taken apart: into words, at its
  colons, into a port (`HttpLineTarget`, `parse_connect_target`, `parse_http_target`
  with its fallback to port 80, `ParsePort`).
* `Session` - `handle_client`. `pc` is the await the task is at. Actions carry the
  names of the functions they model; `authenticate_socks5` and
  `parse_socks5_target` are two actions each because they write in the middle, and
  `redetect_protocol`, `connect_target`, `send_success`, `relay_*` and
  `tunnel_closed` are the pieces of `async_handle_client`. `Return` is a silent
  return, `send_error_response` one with the protocol's error reply. A
  `read_exact` sequence is one step once all its bytes are there and fails at the
  end of the stream; early version and command checks fail as early as in the
  code. `read_line` is different: at the end of the stream it returns what there is
  of a line, and `parse_http_target_from_stream` parses that. Version checks after a plain peek cannot fail and are left out of
  the authenticators. The client is a script of rounds (`need`, `send`): it sends
  a message, in segments of any size, when it has read the reply it waits for.
  `ClientType` says what the properties may take for granted of a client: a
  `valid` SOCKS or TCP client sends a well-formed handshake for a target that it
  wants, and then its payload (`TcpScript` with any length from 1 to 1024,
  `Socks4Script`, `Socks5Script`); an HTTP client, valid or not, sends a request that
  begins with a known method and has a first line, and wants what the whole of that
  line is parsed to (`HttpScript`). Of all other clients it says only that they send
  streams.
  `slow` and `refused` are history variables used by properties only.
* `Pipe`, `Relay` - the abstract tunnel and `create_bidirectional_tunnel`: two
  loops with partial reads and partial writes, a receiver window, half-close,
  resets and `try_join!`.
* `PortPool`, `PortAllocator` - the abstract pool and the allocator. Operations
  are relations with the `Result` as a parameter, so that the tunnel manager can
  conjoin them.
* `TunnelManager` - `manager.rs`, composed with the operations of `PortAllocator`
  (`INSTANCE`, the same variables). A method is one step, because it takes
  `&mut self` and awaits nothing. Listener tasks bind, accept and are cancelled in
  steps of their own; `aborted` holds the tasks an abort was asked for, `cancel` is
  the runtime dropping one, and only then is its socket closed. `Foreign` are ports
  that other processes listen on. `shut` is history.
* `RequestLife`, `ConnectionManager` - the abstract life of a request, and
  `connection.rs`: tables, senders and receivers. `LoseEntry` is what `reject` and
  `activate` do to an entry in the wrong state: it is removed, its sender dropped
  and `InvalidState` returned. `waiter` is the other end of the channel, `ended` is
  history.
* `Server` - `main`, `AppState::new`, key loading and `run_proxy_server`. A file is
  the sequence of its PEM sections; the certificate and the key are assumed to fit
  each other. A session is one task that runs until it ends.
* `Handshake` - `handShake`. The answer of the upstream is fixed, its arrival is
  not. `Returned` keeps the code's comparison, which makes it empty always.
* `Sni` - `extract_sni_from_tls` with the code's indices. The byte 255 stands for
  bytes that no UTF-8 text has.
* `SessionProofs`, `RelayProofs`, `PortAllocatorProofs`, `TunnelManagerProofs`,
  `ConnectionManagerProofs`, `ServerProofs`, `HandshakeProofs`, `SniProofs` - the
  theorems about the module each is named after.
* `MCPortAllocator`, `MCSession`, `MCTunnelManager`, `MCServer`, `MCHandshake`,
  `MCSni` - the constants of the runs: clients, command lines, answers, hellos.

Operators introduced as "Mutant" in a comment are variants of the definition that
follows them, each a plausible slip; they are used to confirm that the
properties notice it.

## 3. Runs

| Run | Checks | Shows |
|---|---|---|
| `session` | `AuthGate`, `RightTarget`, `TunnelTransparent`, `OpenProxyServes`, `HandshakeConsumed`, `TunnelInOrder`, `HandshakeEnds`, `OpenClientsAnswered` | 42 clients, 4 configurations, every segmentation, timeout, close and reset; valid clients that keep sending are never left waiting |
| `relay` | `Conserved`, `CleanClose`, `ImplementsPipe`, `HalfCloseDelivered` | the relay is a pair of pipes, and one direction's end arrives whatever the other does |
| `port_allocator` | `Partition`, `IsPortPool` | every sequence of calls on four ports |
| `tunnels` | `TablesAgree`, `AbortedAreUnlisted`, `BindLosesOnlyToTheClosed`, `PoolUntilShutdown`, `ClosedListenersEnd` | `close_tunnel` never fails half way, aborts hit the right listeners, two listed tunnels never compete for a port, replies are a pool's until shutdown |
| `approvals` | `WaitersCanBeAnswered`, `AnswerFits`, `ImplementsRequestLife` | every sequence of calls on three requests, with waiters that leave |
| `server` | `ServesAsAsked`, `ClientsAccepted` | 1536 command lines, and three clients whose sessions may never end |
| `upstream` | `VerdictOnWholeHeader`, `BoundedLoss`, `HeaderEndsHandshake` | 180 answers in every segmentation |
| `sni` | `WholeNameOrUnknown` | 120 ClientHellos cut at every byte |

Each passing run over a module with a `TypeOK` checks that too.

Runs that show a disagreement between the code and what the repository says:

| Run | Property | What happens |
|---|---|---|
| `socks_users` | `SocksUsersServed` | with credentials, the authenticator reads the SOCKS handshake and the parser waits for it again |
| `tls_connect` | `TlsServed` | four bytes of the request inside TLS are read and lost |
| `connect_segments` | `ConnectServed` | a first segment of one to three bytes is taken for TCP |
| `port_in_use` | `PortInUseMeansTunnel` | `shutdown` keeps the ports, which are then in use by no tunnel |

Further disagreements that the models show, each one a behaviour of the named
module, without a run of its own:

* `listener.rs:239` (`Session`): credentials that come in a later segment are
  answered with the 407 of "Authentication failed" (`listener.rs:261`).
* `listener.rs:574` (`Session`, see `RightTarget`): a client that hangs up inside its
  request line has what there is of the line dialled ("host:80" of "host:8080"),
  although "Invalid HTTP request" (`:580`) is the answer to a line that is not one.
* `listener.rs:876` (`Wire`): a port that is none is "Invalid port" (`:860`) in a CONNECT
  and 80 in an absolute URL.
* `listener.rs:802` (`Session`, see `OpenProxyServes`): the parser's own limit lets a text
  of 1024 bytes pass, whose length prefix 04 00 is then taken for SOCKS4.
* `listener.rs:465` (`Session`): the 200 "for a successful `CONNECT` method request"
  (`utils.rs:41`) is sent for GET too.
* `listener.rs:574` (`Session`, see `TunnelInOrder`): header lines that arrive late are
  relayed to the target ahead of the data that the 200 invites (`utils.rs:52`).
* `port_allocator.rs:125` (`PortAllocator`): the deque does not "maintain sorted order"
  (`:124`); `IsPortPool` shows that no reply depends on it.
* `manager.rs:98` (`TunnelManager`): a tunnel whose bind failed was returned as `Ok`
  and stays listed; `BindError` (`tunnel/error.rs:7`) is never reported.
* `manager.rs:107` (`TunnelManager`): connections of a closed tunnel go on, although
  "tasks associated with this port" are aborted (`:74`).

## 4. Bounds

* `session`: each client sends at most five messages of at most 23 units, cut
  everywhere, also inside a request line, a host name and a port. The clients have
  good, bad and missing credentials, every address type, malformed lengths,
  commands and ports, CONNECT, absolute and origin URLs, requests of each protocol
  inside TLS, and there are clients that repeat their handshake and so get through
  the SOCKS authentication. A valid text of 1024 units is too long for the run,
  which has only the beginning of one; the theorems of section 6 are about all
  lengths.
  `MaxTargetData = 1`: one unit from the target is enough to see whether a reply
  of the proxy follows it.
* `relay`: two units in each direction, a buffer of two and a window of one: reads
  take part of the data, writes part of the buffer, and a receiver can block.
* `port_allocator`: four ports, and callers that also name the two numbers just
  outside the range. Four is the least number with a first, a last and two
  distinct inner ports, so every relation of a port to `next_port` occurs.
* `tunnels`: two ports, of which another process has one, a third number outside
  the range, three tunnels (so that a port is opened, closed, opened and closed
  while the first listener is still there) and one connection.
* `approvals`: three requests; the requests do not interact, and the theorems of
  section 6 are for any set.
* `server`: three clients, so that one can wait behind one that runs and one that
  is queued; ports 0, 8080, 65535 and 65536; six certificate and eight key files
  that reach every branch of the loaders.
* `upstream`: `ReadSize = 3`, so that a blank line spans two or three reads and the
  last read brings up to two further bytes; answers of at most 16 bytes.
* `sni`: the code's own limits (43 bytes, offsets 9 and 10) with hellos of 32 to
  82 bytes, and `PeekMax = 64` in place of 512 so that hellos exceed it.

Deadlock checking is off where the system may stop: a session, a handshake and a
scan end, the process exits, and a client that stays connected and silent is
waited for without limit (see `HandshakeEnds`).

## 5. Fairness

* `Session!Fairness`: the runtime polls the task, timers fire and a dial returns
  within its 10 s timeout. Nothing is assumed of the tunnel or the client.
* `OpenClientsAnswered` has the fairness of its client as a premise
  (`ClientFairness`: it sends what it can), and `HalfCloseDelivered` that of the one
  receiver it is about. No specification assumes either.
* `Relay!Spec`: each loop that can run does. Nothing is assumed of the peers.
* `TunnelManager!Fairness`: the runtime polls a spawned listener and drops an
  aborted one. Nothing is assumed of callers, accepts or connections.
* `Server!Spec`: `main` and the accept loop run. Nothing is assumed of sessions.
* `Handshake!Spec`: the task is polled when its socket is ready. Nothing is assumed
  of the upstream.

## 6. Proofs

Every `TypeOK` and every safety property of section 3 is proved for all values of
the constants, but for the part of `RightTarget` that section 7 names. Each module of proofs has one
inductive invariant (three in `SessionProofs`): a lemma that `Init` establishes it, one
lemma per action or group of actions that keeps it, and theorems that read the
properties off it.

`SessionProofs`, for every set of clients and configurations:

* `AuthenticationGate`: `Spec => []AuthGate`. The invariant `GateInv` adds that
  what is unread comes out of the client's script, that a stream taken for SOCKS4
  begins with 4, and that the awaits past the authentication are reached only with
  credentials. The lemmas show that each authenticator accepts only credentials
  that are on the stream, and that every other step only reads.
* `SessionTransparent`: `Spec => []TunnelTransparent`, and `SessionTypes`. The
  property says nothing of a tunnel that has carried nothing yet; `TunnelInv` adds
  that the success reply and the target's bytes are what was written last as soon
  as the tunnel is open, and that the target is not heard before. Every step of the
  handshake is an `EarlyStep`, which cannot disturb this; `SuffixAppended` is the
  relaying step.
* `HandshakeIsConsumed`: `Spec => []HandshakeConsumed`, `OpenProxyServesAll`:
  `Spec => []OpenProxyServes`, `HttpTunnelInOrder`: `Spec => []TunnelInOrder`, and
  `RightTargetDialled`: `Spec => [](Understood => RightTarget)`, where `Understood`
  are the HTTP clients, malformed ones included, and the valid SOCKS and TCP
  clients. `RightTarget` has one exception, a client that hangs up inside its request
  line, and `OpenProxyServes` another, the TCP client with the longest text. The
  first cannot do harm: the target of the cut line is sent nothing. The second is
  real: `LongestTextMisread` proves that this client is named a target only if the
  second detection had already given up on it. All four say what has come of a stream at the end, and none says where in
  it the task is. `HandshakeInv` adds that, as a list of the stages that a session
  with each kind of client can be at (`TcpInv`, `Socks4Inv`, `Socks5Inv`, `HttpInv`).
  A stage fixes which messages the client has begun and which it still waits to
  send (`Speaks`, `Sent`: what the target has, what is unread and what is on its way
  make up these messages, unless the client is gone), what the task has answered
  (`Greeted`), and from the dial on what the target gets and that the replies that
  other rounds wait for can no longer come (`Tunnel`, `Never`), or what it got at
  most (`Closed`). The stages include the wrong turns of the code: the detection
  that takes a slow client for TCP (`TcpByTimeout`), which then ends the task because
  no length that is accepted begins as their messages do (`MisreadEnds`); a text of
  1024 bytes that is taken for SOCKS4 (`TakenFor`), which gets no further because its
  second byte is no command and no zero byte ends a user id inside it
  (`LongestTextEnds`); the dial for what there is of a request line, with nothing left
  to relay (`HungUp`); and a SOCKS5 parser that takes the first three units of an authenticated request for a
  greeting and the address type behind them for a version, and refuses
  (`AuthenticatedStep`, `MisheardStep`). What is read of a message is a beginning of
  it, so each parser acts on the whole message or on none of it (`TcpReadsAs`,
  `LineArrived`, `Socks4Complete`, `RequestComplete` and the lemmas like them), the
  line at the end of the stream apart.
  `TcpStep`, `Socks4Step`, `Socks5Step` and `HttpStep` show that every step leads from a
  stage to a stage, `TunnelStep` and `ClosedStep` do so for the stages that all share.

`RelayProofs`, for every amount of data, buffer size and window:

* `RelayConserves`, `RelayClosesCleanly`, `RelayTypes`. The invariant has, for each
  direction, the three pieces that make up what was sent (`Pieces`) and what the
  await of its loop says of buffer, total and stream (`LoopInv`): `Conserved` alone
  does not say that a loop at the end of its stream holds nothing back. The pieces
  are lemmas on sequences (`PiecesSend`, `PiecesRead`, `PiecesWrite`); `OneDirection`
  reduces a step to the direction it belongs to.
* `RelayImplementsPipe`: `Spec => ImplementsPipe`, from the same invariant.

`PortAllocatorProofs`, for every range allowed by the assertions of
`PortAllocator::new`:

* `AllocatorPartition`: `Spec => [](TypeOK /\ Partition)`, and `AllocatorTypes`.
  `Partition` alone is almost inductive; the types are needed for the arithmetic on
  `next_port` and for the facts on sequences. Each operation is one lemma on a set
  and a deque (`RetainParted`, `PopFrontParted`, `PushParted`), and `AllocateStep`
  and `ReleaseStep` say what a call does for whoever makes it.
* `AllocatorImplementsPool`: `Spec => IsPortPool`; each call is the pool's
  operation with the same reply. `Partition` is what makes an empty deque mean
  that every port is leased.

`TunnelManagerProofs`, for every range and any number of tunnels and connections,
over the lemmas of `PortAllocatorProofs`, instantiated:

* `TunnelTablesAgree`, `TunnelAbortsItsOwn`, `TunnelBindLoss`, `TunnelTypes`. The
  invariant adds the allocator's partition (a port that is handed out is not that
  of a listed tunnel), that of all tunnels that have had a port the listed one is
  the latest (`NewestListed`), and that until a shutdown the leased ports are the
  listed ones (`LeasedAreListed`).
* `TunnelManagerIsPool`: `Spec => PoolUntilShutdown`. The last of these makes the
  set of listed tunnels the state of the pool.

`ConnectionManagerProofs`, for every set of requests:

* `TypeCorrect`, `NobodyWaitsInVain`, `AnswersFitTables`: the three invariants of
  the run `approvals`. They are inductive together and none is alone: that nobody
  waits for a decided request is what lets `activate` drop an entry without leaving
  a receiver, and the agreement of answers and tables excludes that a request that
  ended is decided again. `ResolveFacts` says what sending or dropping a sender
  does, `DecideInv` and `LoseEntryInv` are the two ways out of `Pending`.
* `ImplementsLife`: `Spec => ImplementsRequestLife`. `OnlyAt` reduces a step to the
  one request it is for, `LifeSteps` names the abstract step from what changed.

`ServerProofs`, for every command line, every content of the PEM files and any
number of clients:

* `ServerServesAsAsked`, `ServerTypes`. What the serving server
  has is decided two phases earlier; `ArgsChecked`, `StateBuilt` and `PortBound`
  carry it there. That the key is one of the named file rests on which section the
  loaders pick (`BeforeIsSection`, `KeyIsInFile`).

`HandshakeProofs`, for every answer, segmentation and size of `tmp_buffer`:

* `HandshakeVerdict`, `HandshakeBoundedLoss`, `HandshakeTypes`. What was read is a
  prefix of the answer, so its windows and its status line are those of the answer
  (`WindowsOfPrefix`, `StatusOfPrefix`), and the loop goes on only while there is no
  window (`NotYet`): the first window ends in the last read
  (`HeaderEndsInLastRead`).

`SniProofs`, for every ClientHello, cut and size of the peek buffer:

* `SniWholeName`, `SniTypes`. Inside the extension no four zero bytes begin
  (`NoZerosInside`, because names and lengths have no zero bytes), so a scan of a
  prefix stops at the zero byte before the extension, behind the extension, or not
  at all (`ZerosOfPrefix`); in the first case what it takes is the name
  (`SliceIsName`), and behind it there is nothing to take before the whole extension
  has arrived (`Extracted`).

Minima (`Min`, the first section of a kind, the first zero byte) are `CHOOSE`n; that
they exist is the least-number principle `LeastElement`, from the well-foundedness
of `<` in the library.

Assumptions, all on constants and all evaluated by TLC on the runs:
`SessionAssumption` (`ClientType` of section 2, and the shape of configurations), `RelayAssumption`
(sizes are naturals, buffer and window not empty), `PortRangeAssumption` and
`TunnelAssumption` (the assertions of `new`, and `u16`), `ServerAssumption` (the shape
of command lines), `HandshakeAssumption` (answers and blocks are bytes, a read can
bring a byte) and `SniAssumption` (hellos are bytes, a name has 1 to 100 of them).

## 7. Only model-checked

* All liveness properties (`HandshakeEnds`, `OpenClientsAnswered`,
  `HalfCloseDelivered`, `ClosedListenersEnd`, `ClientsAccepted`,
  `HeaderEndsHandshake`): fairness and ENABLED are outside the prover.
* `RightTarget` for the other clients: those that speak inside TLS, and the
  malformed SOCKS and TCP clients, which want nothing. What such a client may not be
  understood to ask for depends on which malformation it has, and an arbitrary
  stream that is labelled malformed may still be a request; the run has the
  malformations listed one by one.

The other way round, that the longest TCP text is misread is only proved: no run
has a text of 1024 units.

## 8. Not modelled

Logging set-up; `error.rs` (an enum) and `config.rs` (commented out);
`MultiProtocolProxy` (only binds a socket, its loop is commented out); the admin
interface (named in the README of the repository, not written);
`relay_with_tunnel_stream` (an unused copy of the relay loop). In `Session` the
tunnel is abstract (whole unread input at a time) and the SNI scan is the set of
its answers; `Relay` and `Sni` have the detail. A connection of the tunnel manager
is one relaying step, of the shape of `Relay`. Whether a certificate and a key fit
each other, and what a pooled buffer holds, belong to libraries.

Known and without a property, because no text of the repository says otherwise:
`handShake` turns for ever at the end of the stream, waits for ever after a short
write, and drops what was read after the header; a certificate without a key serves
without TLS; a port that is taken ends the process as if it had finished, and one
failed accept ends it with all its sessions; a call of `reject` or `activate` in the
wrong state loses the request. A sign in front of a port ("+80" parses) is left out
of `ParsePort`.

## 9. Plan

What is left is `RightTarget` for HTTP and SOCKS inside TLS, with a `TlsScript` that
puts the messages of the other kinds after a ClientHello; the consuming look-ahead
of `AfterRead` makes a stage of its own for each cut of the first four bytes. The
rest of section 7 is out of the provers' reach.
