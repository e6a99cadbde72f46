# TLA+ specifications of libnekit

libnekit is a proxy library. An `Instance` owns a run loop and some
`ProxyManager`s; a manager listens for local connections, and for each of them
a `Tunnel` finds out where the client wants to go (the *local* data flow), asks
the `RuleManager` which way to take, connects there (the *remote* data flow) and
forwards data in both directions. Everything runs as callbacks on one thread;
only name resolution uses others.

This directory holds TLA+ models of that code, TLC configurations that check
them on small instances, and proofs checked by TLAPS. To repeat the checks:

    for m in Tunnel HttpServer Socks5Server Speed RuleManager TcpConnector \
             Server ProxyFlow Tls Buffer Rewriter; do
      tlc -config MC$m.cfg MC$m.tla
    done
    tlc -config MCRewriterDeleted.cfg MCRewriter.tla     # ends with a violation
    for m in TcpSocketProofs TunnelProofs ComponentProofs RuleProofs ServerProofs \
             ServerFlowProofs ProxyFlowProofs TlsProofs; do
      tlapm $m.tla
    done

## Inventory

| Component | State it keeps | Operations | What makes it correct | What is hard |
|---|---|---|---|---|
| `FlowStateMachine` | state, reading/writing flags, the state of each half | begin/end of connect, read, write, close | one life cycle, each half closes once | methods assert preconditions that callers must meet in every interleaving |
| `TcpSocket` | a state machine, four cancel tokens, asio buffers | Open, Continue, Connect, Read, Write, CloseWrite | each callback answers its call once, or is cancelled | a failure on one half while the other half's completion is queued |
| `Timer` | asio timer, token | Wait, Cancel | fires once, only if not re-armed since | an expiry that is already queued when the timer is re-armed |
| `Tunnel`, `TunnelManager` | two flows, tokens, timer; the set of tunnels | Open, the handler chain, two forwarding loops, release | forwards everything in order, half-closes in order, ends when both sides have | two loops sharing two state machines; destruction from inside a handler; queued callbacks |
| `RuleManager`, rules | rule list | Match | first matching rule wins; answers once | the walk suspends for a resolution and resumes with an iterator |
| `Endpoint`, `SystemResolver` | resolution state; worker threads | Resolve, Stop | one resolution at a time, answered on the run loop | threads, cancellation flags, stop with work queued |
| `TcpConnector` | address index, socket, token | Connect | tries every address once, answers once | failures in the middle of a list, destruction while waiting |
| `HttpServerDataFlow`, `Socks5ServerDataFlow` | a state machine over that of the flow below, negotiation state | Open (negotiates), Continue, Read, Write, CloseWrite | negotiation is independent of fragmentation; the two state machines agree | EOF during negotiation, errors seen by one layer only |
| `HttpDataFlow`, `Socks5DataFlow` | the same, remote | Connect (negotiates), ... | the same | the same |
| `SpeedDataFlow` | candidate flows, a delay for each | Connect, ... | the first to connect wins, the others are dropped | answers of losers after the winner's |
| `TlsDataFlow`, `TlsTunnel` | pending plain/cipher data on both sides | Connect (handshake), ... | no data lost, order kept, closes answered | a pump whose four directions re-enter each other |
| `Buffer`, `StreamReader`, `HttpMessageStreamRewriter` | chunk lists, offsets | insert, shrink, break, read until | equal to the same operation on a byte sequence | offsets at chunk boundaries, tokens across reads |
| `ProxyManager`, `TcpListener`, `Instance` | listeners, tunnels | Run, Stop | every accepted connection gets a tunnel; stop ends | accept errors, order of tear-down |

How they interact: a call down the chain returns a `Cancelable`, and its answer
comes later as a callback from the run loop; the caller destroys what it called
whenever it likes and relies on the token to silence the callback. Errors
travel up as results, never as exceptions. `FlowStateMachine` is the only
shared protocol state: the owner of a flow reads it to decide what it may call.

`PROJECT.json` lists all components with what is modelled of them, and under
`hazards` the places in the code that are hard to test.

## Modules

| Module | Models | Kind |
|---|---|---|
| `FlowStateMachine` | `data_flow/flow_state_machine.h` | operators on a record; each method that asserts has a `Can...` predicate with the assertion |
| `TcpSocket` | `transport/tcp_socket.cc`, `utils/cancelable.cc` | operators on a socket record: its state machine and one callback state per operation |
| `Tunnel` | `transport/tunnel.cc`, `utils/timer.cc` | specification: two sockets, the tunnel, its timer, the peers and the kernel |
| `Relay` | what the README promises of a tunnel | abstract specification, implemented by `Tunnel` |
| `FlowLifecycle` | the README's state diagram of a data flow | abstract specification, implemented by each socket of `Tunnel` |
| `TunnelInv` | | the inductive invariant of `Tunnel` |
| `ServerFlow` | what `data_flow/http_server_data_flow.cc` and `socks5_server_data_flow.cc` share | a server flow over a `TcpSocket`, driven by the local half of a tunnel |
| `HttpServer`, `Socks5Server` | the negotiation of each | specifications; extend `ServerFlow` |
| `ProxyFlow` | `data_flow/http_data_flow.cc`, `socks5_data_flow.cc` | specification: connecting through another proxy, over a `TcpSocket` |
| `StreamReader` | `utils/stream_reader.cc` | operators on a reader record, used by `ProxyFlow` |
| `Speed` | `data_flow/speed_data_flow.cc` | specification, for any finite set of branches |
| `Race` | what a `SpeedDataFlow` promises | abstract specification, implemented by `Speed` |
| `Tls` | `data_flow/tls_data_flow.cc`, `crypto/tls_tunnel.cc` | specification over a `TcpSocket` |
| `Answers` | what an asynchronous call promises | abstract specification, implemented by `SystemResolver` (and so by `Server`), `RuleManager`, `TcpConnector` and the `Connect` of `ProxyFlow` |
| `Endpoint`, `Rules` | `utils/endpoint.cc`, `rule/*.cc` | operators on an endpoint record; what each rule decides |
| `RuleManager` | `rule/rule_manager.cc` | specification: the walk over the rules |
| `TcpConnector` | `transport/tcp_connector.cc` | specification: several connectors, some on one endpoint |
| `SystemResolver` | `utils/system_resolver.cc` | specification: the resolver, its threads and its owner |
| `Server` | `instance.cc`, `proxy_manager.cc`, `transport/tcp_listener.cc` | specification; composes listeners and tunnels with `SystemResolver` |
| `Buffer` | `utils/buffer.cc` | specification: chunks beside the text they stand for |
| `Rewriter` | `utils/http_message_stream_rewriter.cc` | specification: the rewriter, the parser it drives and its owner |
| `MC...` | | the modules TLC runs, with the values of the constants |
| `TcpSocketProofs`, `TunnelProofs`, `ComponentProofs` (of `Speed`, `TcpConnector` and `Buffer`), `RuleProofs`, `ServerProofs`, `ServerFlowProofs`, `ProxyFlowProofs`, `TlsProofs` | | theorems and their proofs |

### Tunnel: correspondence with the code

A callback in the run loop is modelled by its state: `"waiting"` (it will run),
`"canceled"` (it will run and return at once, because its token was cancelled)
or `"none"`. `TcpSocket` copies one token into the callback, into its own slot
and into the result it returns, so `Tunnel`'s own six `Cancelable`s alias the
sockets' slots and cancelling either has the same effect; `~Tunnel` also
destroys both sockets, so `Release` is modelled by the sockets' destructors, the
rule token and the timer. (The callback that `TcpSocket::Connect` hands to its
connector carries a token made before the call, which nothing can cancel; what
guards it is the connector's own token, which the socket keeps in
`connect_cancelable_` and cancels on destruction.)

An action runs one callback to its end. `ReadSome(s)`, for example, is the
completion of `async_read_some` on side `s`: `TcpSocket`'s lambda (`ReadEnd`),
then `Tunnel`'s handler (`ResetTimer`, then `Write` on the other side, with
its `WriteBegin`). `ForwardLocal` and `ForwardRemote` are the same text with
the sides swapped (they differ only in which of two functions with the same
body releases the tunnel), so the actions take the side as a parameter.
`Continued` runs `BeginForward`, both loops' first reads, in one step.

The result of every assertion a step passes is and-ed into `asserted`; the model
goes on after a failed one, as a build with `NDEBUG` would.

`asserted` and what the peers sent (`sent`, `fin`), what was read (`got`), what
the kernel took (`recv`) and which halves were shut down (`finTo`) are what the
properties are about. Chunks are counted, not represented: a tunnel has at most
one buffer in flight per direction, so loss, duplication and overtaking all show
as counts.

`Stale` is the interplay of `Timer::Wait` with an expiry that asio has already
queued: `expires_after` cannot recall it, the token that `Wait` cancels can.

### ServerFlow, HttpServer, Socks5Server: correspondence with the code

`upper` is the state machine of the server flow, `sock` the socket below it; a
call of the tunnel steps both, and so does every callback on its way up. `stage`,
`readLoop` and `writeLoop` are where the tunnel is; the tunnel's own state
is in `Tunnel`, and here it may end at any moment (`TunnelEnds`). Between
`NegotiateDone`/`RequestAccepted` and `Continue` the rules are matched and the
remote flow connects: nothing happens on this side, so these are one stage.

Each assertion on the way of a step is named and the names of those that failed
are kept in `failed`, because some do fail (see Findings) and the properties say
which, when, and that no other does. As in `Tunnel` the run goes on after a
failed assertion; the one exception is `ShrinkBack` on a short buffer, which
follows a null pointer without assertions, so the model stops there.

`HttpServer` abstracts the request to how much of it the rewriter has passed on
(`seen`) and what it is (`kind`): the control of `NegotiateRead` depends on
nothing else. `header` is "`first_header_` is not empty", `posted` the callback
of the read that is answered from it. The flow buffers the whole first message,
body included, before it answers `Open`. Newlines that a client sends before its request
(`newline`) are passed on by the rewriter with the first read that ends inside the method,
before anyone knows that it is CONNECT (`Kept`): those are the one thing a tunnel may find
in `first_header_` of a CONNECT (see Known flaws).

`Socks5Server` keeps the bytes: `wire` is what the client has sent and nobody
has read, a read takes any prefix of it, and the parser sees `pending_auth_`
as it is in the code. A client sends its request after a good answer to its
hello. Domains of one or two characters make a request shorter than the ten
bytes `NegotiateRead` waits for (`socks5_server_data_flow.cc:347`), so
`SocksOpenAnswered` is stated for longer ones; a shorter one is answered only when
the client closes or the tunnel's timer expires.

The two flows have most names in common, and one proof module extends both, so
what is one flow's own is called `Http...` or `Socks...`.

### Speed: correspondence with the code

A branch is a timer, a flow in `data_flows_` and the callback of that flow's
`Connect`. `BranchConnects` is the success path of that callback: the flow is moved
to `data_flow_` (`kept`), the timers and the other flows are destroyed, and
that is what silences them (`connect_cancelable_` is not cancelled there). The
model takes from `TcpSocket` that the destructor of a flow silences its
`Connect`. When all branches have failed the flow's state machine stays
`Establishing`; its owner destroys it. Delays are abstracted: the timers may
expire in any order.

### Resolution: SystemResolver, Endpoint, Rules, RuleManager, TcpConnector

`SystemResolver` is the one part with real threads. A request is a closure that
is queued to the second run loop, taken by a thread, resolved there and posted to
the program's run loop; `where` says which of these holds it. The flag behind
the returned `Cancelable` is a plain `bool` that one thread writes and another
reads, so `Take` sees either its value or the older one (`seen`); the second look,
in the posted closure, is on the thread that writes it and exact. `Stop` resets the
work guard and joins: a thread leaves `run()` only when nothing is queued or
running (`Exit`), and the program's thread does nothing else until `Joined`.

`Endpoint` is a record shared by the modules that use it. A walk over the rules
(`RuleManager`) runs in one step up to the next rule that needs addresses:
`Reached` is the first rule that does not say `NotMatch`, `Suspend` asks the
endpoint and keeps the rule, `Resume` continues there with what the resolver
found. Each rule's own data is abstracted to the set of hosts or addresses it
takes. The resolver is the one `Answers` promises: it answers later, with what
`truth` says of the host. `TcpConnector` has all three constructors; `DoConnect` is
the attempt of the next address, and an aborted attempt is the silent case.

`Answers` has four states of a call (and `"idle"`): open, answered, cancelled by
its owner, dropped with the object that was asked. That a call which was
cancelled or dropped is never answered is what lets every other component destroy
what it called without waiting.

### Server

The composition of `instance.cc`, the manager and the listeners with the
resolver. A tunnel is here what holds a request of the resolver (its inner life is
`Tunnel`), so a request and its tunnel share a name. `StopInstance` stops the
loop before the threads are joined, so what they post meanwhile stays posted for
ever. `DestroyInstance` is the order in which the members of `ProxyManager` are
destroyed: tunnels, listeners, resolver. `AcceptFails` is the error path of the
accept handler (`proxy_manager.cc:60`), which logs the error and goes on to use a flow that
is not there: the program ends.

### ProxyFlow and StreamReader

The proxy's replies are sequences, of tokens for HTTP and of bytes for SOCKS5,
followed by what the target says; a read takes any part of what is left.
`Reply` decodes the whole sequence as the protocols define it, at once, and
`ProxyUnderstood` compares that with what the flow made of the pieces.

`RewriteBuffer` gives the parser all that one read returned, also what lies behind
the end of the response: `Fits` is what the parser takes there (newlines, another response or
the beginning of one, and after a response that closes newlines alone), `BeginsAgain` where it
reports the beginning of a message that has begun, which the rewriter asserts never to be
(`http_message_stream_rewriter.cc:341`), and `Success` the last status line it has seen. An
HTTP/1.0 response without keep-alive counts as one with `"close"`.

The
`StreamReader` hands out what it has through the run loop and asks its owner
for another read otherwise, so "exactly one thing is awaited" is a property
(`OneThingAwaited`), not a construction. `ReadToPattern`, which nothing in `src/`
calls, is evaluated by two assumptions of `MCProxyFlow`: `PatternFoundAtOnce`, that the first
search is right, and `PatternMayBeFoundLater`, that the position kept for the next search misses no
occurrence. More does not hold, because a later search may stop anywhere (`StopsFrom`, see
Known flaws).

### Tls

`Process` runs `TryRead` and `TryWrite` and either may call the tunnel's handler or
the socket, so the flow with all its parts is one record and these functions are
operators that are applied to each other in the order of the code. OpenSSL is
external: it drives the handshake, takes whole records out of its input, and emits
messages. Each record arrives in two halves, so that a read may end inside one and may
contain several.

`SSL_read` is given 8192 bytes (`NEKIT_TLS_READ_SIZE`) and a record carries up to 16384. When it fills
them, the loop of `FlushPlainBuffer` calls it again; when it does not, the loop ends, records or
not. So one call takes any number of records of data and stops behind any of them or
at the end of what has arrived, with an alert at the latest (`Places`). `again` is whether the
outer loop of `WriteCipherTextData` comes round once more, because what was read did not fit into
the BIO at once, and so fetches what OpenSSL has emitted meanwhile.

### Buffer and Rewriter

A `Buf` is its visible bytes with the room in front and behind; room that is
exposed again reads as `Junk`, which is a character no one writes. `text` is the
plain sequence on which every operation does what its name says, and `BufferIsText`
compares all ways of reading the chunks with it. `ReadsAgree` asks `operator[]`
only while no chunk has released its front: see Known flaws.

`Rewriter` keeps the offsets as the code does (`tok`, `next`, `hf`, ...) and
`http_parser.c` as a place in the grammar; several of the parser's states are one place where the
characters between them are fixed (`HTTP/1.`) or do not matter (a method, a URL). A stream
is cut into buffers by `RewriteBuffer` and into chunks by `ChunkEnds`, at any character. The owner's
changes are those that the flows make (delete, rename, add, replace a part of the first line)
and some they do not (longer and shorter replacements).

The grammar has the ways to write a message that http_parser accepts beside the usual one:
newlines before it, lines that end with LF alone, more than one space, values that are empty,
go on in the next line or begin there, no version, and no space behind the status code. The
callbacks compute offsets as if a message were `Regular`. Of messages that are not, the properties
say what remains true: an owner that changes nothing still passes on exactly what came.
Behind a request that upgrades, `RewriteBuffer` is not called again if it was CONNECT
(`OwnerReads`) and goes on being called otherwise.

## Runs

| Run | Configuration | Checks |
|---|---|---|
| `tunnel` | `MCTunnel.cfg` | `IInv`, `AssertionsHold`, `NoCallbackOutlivesTunnel`, `HalfCloseAfterData`, `Guarded`; the refinements `RelaySpec` and `Lifecycles`; `EofsPass`, `StalledTunnelReleased` |
| `http_server` | `MCHttpServer.cfg` | `HttpFlowInv` (every call is due an answer, the layers agree, nothing outlives the flow), `AssertionsHold`, `RequestFirst`; `HttpOpenAnswered` |
| `socks5_server` | `MCSocks5Server.cfg` | `SocksFlowInv`, `TargetAsAsked`, `GoodClientNotRefused`; `SocksOpenAnswered` |
| `speed_race` | `MCSpeed.cfg` | `SpeedIInv`, `RaceSafe`; the refinement `RaceSpec`; `RaceEnds` |
| `rule_walk` | `MCRuleManager.cfg` | `WalkInv`, `FirstRuleThatHolds`; the refinement `MatchPromise`; `WalkEnds` |
| `tcp_connector` | `MCTcpConnector.cfg` | `ConnectorInv`; the refinement `ConnectPromise`; `ConnectEnds` |
| `server` | `MCServer.cfg` | `ServerInv`; the refinement `ResolvePromise`; `Serves` |
| `remote_proxy` | `MCProxyFlow.cfg` | `RemoteInv`, `ProxyUnderstood`; `ProxyPromise` (a refinement and an answer); `ASSUME PatternFoundAtOnce`, `PatternMayBeFoundLater` |
| `tls` | `MCTls.cfg` | `TlsInv`, `StreamsIntact`; `TlsAnswers` |
| `buffer` | `MCBuffer.cfg` | `BufferIsText` |
| `rewriter` | `MCRewriter.cfg` | `TokensAsSent`, `StreamAsWanted` |
| `rewriter_deleted_header` | `MCRewriterDeleted.cfg` | `HeaderIsInBuffer` (violated) |

### Bounds

- `MaxChunks = 2`, the chunks a peer sends per direction: a read returns all,
  part, or the rest of what was sent, a write is taken in part, and either EOF
  arrives before, between or after chunks. The loop is back in the same place
  after each chunk, and the proofs cover every bound.
- `HttpServer` needs no bound: its data are abstract and its states finite.
- `BufferSize = 24` instead of 128 in `Socks5Server`: above the longest
  fixed-size request (22) and below some of the clients' (`MCTargets`,
  `MCHellos`): a fit, a misfit and each address type, a domain both shorter and
  longer than an address. Every split of each script into reads is explored.
- Three branches in `Speed`: one that wins, one that failed before it and
  one that is still waiting. The theorems cover every number.
- Two sessions and seven lists of rules in `RuleManager`, in which names, addresses,
  countries and failures come in several orders; hosts that are listed, are not, and
  are addresses. The theorems cover every list and any number of sessions.
- Three connectors, lists of one and three addresses: two connectors come after
  the one that resolves the shared endpoint, and attempts fail at the front,
  in the middle and at the end. The theorems cover every number and list.
- Two listeners, three connections, two threads in `Server`: a question has to
  wait for a thread, and both threads may be busy when `Stop` begins. The
  theorems cover every number of each.
- `ProxyFlow`: the replies and payloads in `MCProxyFlow`, each field of a reply
  wrong once, each type of address, targets that wait or speak at once, split in
  every way.
- `Tls`: four server streams of at most two records after the handshake, taken by one call or by several, two chunks to write: records
  behind each other, the orderly end, a broken record, and a silent server, before
  TLS 1.3 and in it.
- `Buffer`: one letter and at most four bytes, so that a chunk may be first, last
  and in between and every offset may fall inside, at and across a boundary. One letter
  is enough: operations never look at bytes, and with `Junk` any two positions of the
  text can differ.
- `Rewriter`: ten streams of messages that are laid out as expected with each of four
  owners, eight that are not with an owner that only looks (other owners corrupt these, see
  Known flaws), every split into buffers and chunks. `MaxToken = 7` instead of 8192: the
  longest tokens of the streams are cut off or not (`Fail`) depending on where a buffer
  ends. The payload behind the upgrade is longer than the buffers in which the request may
  end, so that some of it can be passed on.

Deadlock is checked where a model describes all that may follow: a released tunnel
or flow whose callbacks have drained stutters in `Done`. It is off for
`RuleManager`, `TcpConnector`, `Server` and `Tls`, which may really stop: all
sessions answered, the program ended, a server that says no more.

### Fairness

Callbacks that are ready are run, the kernel takes what it may take, and the system's
resolver answers; nothing is assumed of peers and clients, which may never send
or close, except where said below, and no failure ever has to happen.

- `Tunnel`: the run is of the plain `Spec`, and the fairness is the
  antecedent of each property. `EofsPass` assumes `CallbackFairness`, weak
  fairness of every callback and of the kernel. `StalledTunnelReleased` assumes
  `TimerFairness`, of the clock alone, and so shows that the timer releases the
  tunnel whatever the rest does; with unbounded traffic a tunnel lives on, as it
  should, and only finitely many resets fit into the bounded data.
- The server flows' `LiveSpec`: weak fairness of the callbacks of the
  negotiation; two bytes always fit into the socket's buffer.
- `SpeedLiveSpec`: timers expire and every branch answers, one way or the other;
  `RaceEnds` is about the counting. A branch that never answers leaves the race
  to the tunnel's timer.
- `RuleManager`, `TcpConnector`: the run loop, the resolver and the network's
  answer to an attempt, success or failure.
- `Server`: the two threads, the loop while it runs, and the return of `join_all`
  and of the destructor. `Serves` is conditional on a loop that still runs.
- `ProxyFlow`, `Tls`: also `PeerCloses` and `ServerCloses`: a peer that has nothing
  more to say goes away. Without it a flow waits for its peer for ever and the tunnel's timer
  ends it.

## Findings

`HttpServerDataFlow::OnHeaderPair` deletes a `Proxy-Authorization` header and then
asks for the same header again (`http_server_data_flow.cc:428`). The rewriter
keeps the offsets the header had, so `Buffer::GetData` is asked for bytes that
belong to what follows, or to nothing: `buffer.cc:329` asserts. Run
`rewriter_deleted_header` shows the shortest way there; `rewriter` shows that
owners that do not ask again are served correctly.

### Known flaws the models carry

These are in the models, because they are in the code; the properties name
them and say that nothing else of the kind happens. The operator in brackets states
what does not hold.

- EOF while a server flow negotiates: `TcpSocket::Read` calls `ReadClosed()`
  (`tcp_socket.cc:125`) in state `Establishing`, which `flow_state_machine.h:88`
  does not accept [`ReadClosedAsserts`].
- A half-close that fails: the server flow is `Errored()`
  (`http_server_data_flow.cc:178`, and the same in the SOCKS5 flow) while its
  read is pending, and the callback of that read calls `ReadEnd()`
  [`ReadEndAsserts`].
- `Socks5ServerDataFlow` calls `Connected()` at `:458` and again at `:208`
  [`ConnectedAsserts`].
- The answer to a SOCKS5 hello is cut out of the last buffer read (`:325`):
  `Shrink` asserts when that has two bytes or fewer [`ShrinkAsserts`], and the
  version byte of the answer is whatever byte came first in it, so a hello that
  arrived in two reads is answered with a version that is not 5
  [`HelloAnsweredAsV5`].
- `Socks5DataFlow` reports success and stays `Establishing`
  (`socks5_data_flow.cc:270`), so the tunnel's first read asserts
  [`ConnectedIsReadable`].
- A failed accept ends the program (`proxy_manager.cc:60`) [`AcceptFails`].
- TLS: `CloseWrite` never answers (`tls_data_flow.cc:70`); a failed connection
  does not mark the flow as errored (`:111`); `ReportError` uses members after the
  tunnel has released the flow (`:345`); a write after an EOF was reported asserts
  (`:55`), and one under way then is never answered; an error without plain text
  is not noticed; plain text that OpenSSL refuses makes a write go round for ever;
  a `Read` answers a write whose data the socket still writes; the client's
  `Finished` of TLS 1.3 waits for the first data to be written; records behind
  the one where `SSL_read` has stopped wait for the next read (`tls_tunnel.cc:258`), and are lost
  when the socket ends before; plain text that an error comes with in the same call is
  never handed on, because the error takes its place (`:94`). `TlsInv`,
  `StreamsIntact` and `TlsAnswers` hold beside these. Outside the model: behind a
  `close_notify` nothing takes what the BIO holds, and when a server sends more than that the
  loop of `WriteCipherTextData` (`:131`) does not end.
- `Buffer::operator[]` ignores the offset of a chunk whose front was released
  (`buffer.cc:118`).
- What the target says in the same read as the end of an HTTP proxy's response goes
  through the parser as well. What cannot be another response makes `Connect` fail; what can, or
  may become one, is kept in the rewriter, and newlines are put into `pending_payload_`
  (`http_data_flow.cc:225`), which nothing reads: `Connect` succeeds, and those bytes are lost. A
  second status line there decides over success in place of the first. A second newline behind
  a response, and a response behind one, fail the assertion of `OnMessageBegin`
  (`http_message_stream_rewriter.cc:341`). `ProxyUnderstood` and `AssertionsHold` of
  `ProxyFlow` have exactly these. Not in the model: a status line without a space behind the
  code (`HTTP/1.1 200`) makes the status token begin one character early, so that a good
  response is refused; that offset is in `Rewriter`.
- Newlines before a CONNECT whose method is split over two reads reach the target at the
  beginning of the tunnel: the rewriter has passed them on before `is_connect_` is known
  (`http_server_data_flow.cc:324`, `:101`) [`RequestFirst` has them]. Data that come behind a
  CONNECT in the same read stay in the rewriter, which has stopped, and are lost; the check for them
  (`:311`) looks at a buffer that never has any [`StreamAsWanted`, as `pending`].
- After a request that upgrades to something else than a tunnel, the client's data
  still go through the rewriter, which has stopped: they are passed on, held for ever or refused
  as too long, by an offset that was meant for an earlier buffer [`OwnerReads`, `Fits`].
- The same offset is stale when a read brings nothing but newlines between two requests:
  if the read before was longer, the length to keep wraps round and the connection ends with
  `BlockTooLong` [`Fits`].
- The rewriter's callbacks assume `Regular` messages. With LF alone, two spaces, a value on two
  lines or no version, tokens are shown wrong (with no version, a token of negative length
  is asked for), and an owner that changes something cuts or leaves a few characters too many. A
  newline before a response fails the assertion of `OnMessageBegin`.
- `StreamReader::ReadToPattern` gives the matcher iterators into its parameter `pattern`
  (`stream_reader.cc:85`), which is gone when a read comes back: the search then
  compares with whatever lies there. Nothing calls it [`StopsFrom`].

A socket's `Errored()` is `Closed()`: the code has no `Errored` state, although
the README's diagram draws one. `FlowLifecycle` merges the two; no caller
distinguishes them.

Two branches of `tunnel.cc` are never taken over bare sockets: the `else` of
`IsWriteClosable` after an EOF (`tunnel.cc:159`, `:202`), and a
`CheckTunnelStatus` that releases the tunnel at the entry of a forwarding loop
(`tunnel.cc:138`, `:183`), after which the loop would use freed memory. The
inductive invariant shows both.

## Proofs

The theorems hold for every value of the constants that meets the named
assumptions, which TLC evaluates on each run:

| Module | Assumptions | Shows |
|---|---|---|
| `TunnelProofs` | `MaxChunksAssumption`: a natural number | each safety property of `tunnel`, `RelaySpec`, `Lifecycles` |
| `ComponentProofs` (`Speed`) | `BranchesAssumption`: finite, not empty (with no branch `Connect` never answers) | `RaceSafe` and its parts, `RaceSpec` |
| `RuleProofs` | `RulesAssumption`: rules are of known kinds; `HostsAssumption`: an address has itself, a name has not been resolved | `WalkInv`, `FirstRuleThatHolds`, `MatchPromise` |
| `ComponentProofs` (`TcpConnector`) | `TargetsAssumption`, `EndpointsAssumption`: there is an address to try, and an endpoint made of an address has it | `ConnectorInv`, `ConnectPromise` |
| `ServerProofs` | `ThreadsAssumption`: there is a thread; `RequestsAssumption`: names are not confused | `ServerInv`, `ResolvePromise` |
| `ServerFlowProofs` | HTTP: none. SOCKS5: `BufferSizeAssumption`, any size; `HellosAssumption`: a client does not begin its request before its hello was answered; `RequestsAssumption`: targets have the form of their type, and `Targets` has what a malformed request asks for with its first bytes | `HttpFlowInv`, `AssertionsHold`, `RequestFirst`; `SocksFlowInv`, `TargetAsAsked`, `GoodClientNotRefused` |
| `ProxyFlowProofs` | `HttpAssumption`: a response ends with its first empty line; `Socks5Assumption`: replies are bytes | `RemoteInv`, `ProxyUnderstood`, the safety half of `ProxyPromise` |
| `TlsProofs` | `TlsAssumption`: what follows the handshake is strings that are not taken for a part of it, nor for an error | `TlsInv`, `StreamsIntact` |
| `ComponentProofs` (`Buffer`) | `BufferAssumption`: the bound on the size is not zero, and `Junk` is not a byte that is written (so that room is told from text) | `BufferIsText` |

None of the properties is inductive; each module has a strengthening.

*Tunnel.* `AssertionsHold`, for one, needs that `reading` is set exactly while the
`Read` callback waits. `IInv` (module `TunnelInv`) describes a tunnel by stage:

- `New`, then `Preparing`, with exactly one callback outstanding (`Open`, the
  rule match, `Connect`, `Continue`) and both sockets untouched;
- `Running`: each flag of a state machine says that the callback of its name is
  in the run loop (`InUse`); the loop that reads side `s` is at exactly one place
  (`LoopPlace`): waiting for data, writing them, or past the EOF, and the other
  side's half is closing or closed exactly in the last case; the counters agree
  with the place (`LoopData`);
- `Released`, where only cancelled callbacks remain.

`TcpSocketProofs` holds the lemmas about the types of the flow and socket
operators. `TunnelProofs` shows that the initial state satisfies `IInv` and that
each action preserves it, one lemma per action with one step per conjunct that it
disturbs; the other theorems follow from `IInv`. `ImplementsRelay` maps every
action to the step of `Relay` it implements (`KernelTakes` to `Deliver`,
`ReadEnded` to `PassClose`, `WriteClosed` to `Finish` when it is the second one)
or to a stutter. `LifeCorrect` does the same for the two life cycles: `LifeStep`
says in terms of one flow what a step may do to it, lemmas show it for each group of
actions, and `LocalLifeStep` and `RemoteLifeStep` read it as a step of
`FlowLifecycle`. Both flows may change in one step, each by one step of its life.

*Speed.* The heart of `SpeedIInv` is that `active` is the number of branches that have
not failed, which is where `FiniteSetTheorems` come in (lemma `Count`), and that
outside a race nothing that waits in the run loop belongs to a branch (`Silent`).
`ImplementsRace` uses the same lemma to show that the last failure is the abstract
one.

*RuleManager.* `Session(s)` says of each walk that its endpoint knows what the
system would answer or nothing (`EndpointOk`), that a cached country is that of a
known address, and that no rule before the place it has reached holds
(`NoneBefore`). `RuleSound` is the lemma about single rules: whatever is known so
far, `"Match"` and `"NotMatch"` are right about the host as it is, so a rule that
was passed before the name was resolved would be passed again after it. `Reached` exists
because the positions are well-founded. `MayWalk` gathers what a walk needs to go
on, from the beginning or after a wait.

*TcpConnector.* `Progress(c)`: every address before the present one refuses. What
is shared is the endpoint: `EndpointStage` says that it was asked never, is
being asked, or keeps an answer, and `OneResolves` that one connector at most waits for it.

*Server.* `Places` is that a request is in the queue once, with one thread, or
past both, which needs care where queue and thread change together
(`TakeStep`); `Order` relates loop, resolver, threads, listeners and
tunnels through stopping and destruction, and has that `lifetime_` is cancelled
only when all threads have exited.

*ServerFlow.* Both flows are proved with one invariant, `Common(K)`, where `K` is the
set of assertions that a flow's own negotiation may fail: `{}` for HTTP, for SOCKS5
the second `Connected` and `Shrink`. It goes by stage. While the flow negotiates, the socket has
exactly one call under way and is otherwise untouched (`Negotiates`), and nothing has
used the flow's own machine (`Unused`). While the tunnel forwards, the socket is in use as
in `TunnelProofs`, each loop is where the socket's machine says (`ReadPlace`,
`WritePlace`), and the flow's machine has the same state (`Agree`) but for a read
answered from `first_header_`, which only the upper one knows. `Agree` ends with a
half-close that failed (`Broken`), after which assertions may fail. One lemma per action
shows this for any `K`, so each flow adds only its negotiation:

- `HttpIInv` adds types alone. Its negotiation has no bytes.
- `SocksIInv` says what the bytes are. `Stream`, which is `pending` with `wire` behind it, is the
  whole of the client's hello until that is answered (`HelloRead`), then the whole of its request
  (`RequestRead`), whatever the reads were. Where only a beginning of a bad hello was
  accepted, its rest comes next instead, which is no request. A request that was accepted is
  that of a target with the rest of the script behind it (`TargetGiven`).
  The lemmas on data are `ParsedEncode` and
  `EncodeParsed` (parsing what a client encodes yields its target, and only that) and
  `HelloBeginning` and `RequestBeginning` (no proper beginning of a good hello or request
  is refused).

*ProxyFlow.* `IInv` says of each step of the negotiation what it waits for (`Working`):
`Doing(sock, op)` is a socket with nothing but `op` under way and nothing closed, and
`Reads(c, k)` a reader that was asked for `k` bytes of the stream behind the first `c`: it has
them in hand and the rest that was read in its buffer, or it has too few and the
socket reads. `Part(q, s, a, b)`, "`q` is what `s` has from `a` to `b`", is all that is
said of bytes; its lemmas (more is read, a part is taken off the front, the proxy closes early and
cuts the stream short) carry the proof. What was found right of the reply is kept beside it
(`MethodRight`, `HeadRight`), and `Socks5Reply` and `HttpReply` compare it with `Reply`,
which decodes the whole at once. Behind an accepted reply, `GotSince` is that
what the tunnel has read is the last part of what was taken from the socket: from the end of a
SOCKS5 reply, and from a place where the parser of an HTTP response was content (`Accepted`). `RemoteSafe`, `Understood` and `KeepsPromise` follow.

*Tls.* `TlsInv` is not inductive: that a `Read` of the tunnel waits for the socket, for
one, needs that a read of the socket goes on only while there is no plain text and a handler
is kept (`Below`), and that what is to go out has a write to wait for, which `TryWrite` can only
keep up when nothing of it is left from the handshake. `TlsIInv` describes the flow by stage:

- `Shaking`: the socket connects, reads or writes, one at a time; what OpenSSL has emitted is
  in that write, and nothing is left for later;
- `Settled`: the flow's machine says what the tunnel has called (`Machine`), the socket is in
  use, or silenced with its error kept (`Below`), of what OpenSSL has emitted only the
  `Finished` of TLS 1.3 may be left with it (`Left`, `Withheld`), and each handler that is kept has
  its call of the socket;
- `Silent`: what is left in the run loop is cancelled.

A callback changes the flow and then calls `Process`, so between the two the flow is only
`Ready`, in which a write may be due with the socket idle and a read with plain text at
hand. `ProcessKeeps` shows that `Process` leads from `Ready` to `Settled` (or to a
flow that is gone) and loses nothing of either stream; `HandShakeKeeps` does the same for
`HandShake`; both follow the code function by function (`TryReadKeeps`, `TryWriteKeeps`,
`ReportErrorReleases`). Each callback then needs two facts: that what it does before is
`Ready`, and what becomes of the streams.

The streams are `Streaming`. `Inward`, what was handed over and is waiting to be, extends what the
tunnel has got to the data of the first `used` records, which lie together between the
handshake and the alerts (`IsData`): `SslRead` takes the data up to the place it stops at
(`SslReadTakes`, where the smallest element of a set comes from `LeastElement`, a consequence of the
well-foundedness of finite sets; `PlaceIs` says what a place behind several records means), and
`Waits` that no plain text is left behind when the socket is read again. `Outward`, what is with the socket, in
`pending_read_cipher_` and in the BIO, extends what the server has heard to a beginning of `AllSent`
(the hello, `Finished`, the chunks), of length `Count`. That `Finished` is emitted exactly
once is where `Speech` comes in: of the records only the first is answered. `Sound` is all
of this with the flow, the loops and the streams as parameters: each lemma shows it of the
record its action computes, and `StepInductive` puts these together.

The constants' strings are data; that the messages `"hello"` and `"finished"` are strings is
not known to the provers, so the types `Record` and `Message` name them.

*Buffer.* The strengthening is short, `BufferIInv`: the buffer is `Consistent` (chunks that are not empty,
`tail_` the last of them, `size_` the length of its text) and its text is `text`. The work
is in the operations, of which each has a lemma for any consistent buffer and any arguments
its assertions allow: what it leaves is consistent, and its text is the old one spliced
(`InsertBufferIs`, `InsertRoomIs`), cut (`ShrinkIs`), overlaid (`SetDataIs`) or broken in two (`BreakHeadIs`,
`BreakTailIs`). They go down to one chunk: `AroundIs` gives the text before and behind
it, `WithChunk` replaces it, `ChunkAtIs` and `ChunkUpToIs` say where a walk ends at a border, and
`ShrinkFromIs` takes the loop of `Shrink` from a border on. The ways to read (`WalkedIs`, `GetDataIs`,
`CharAt`, `IndexIs`) are compared with the text in the same way. Below them is `TextConcat`, that the
text of two lists of chunks is one text behind the other. `FlattenSeq` is a fold over the
chunks, so that takes an induction: `Induct` has it for a set of naturals in place of a
predicate, and follows from `LeastElement`, as above.

The promises (`KeepsPromise` in four modules) map each step of a component to a
step of `Answers`: a destruction to `Drop` of all open calls, a cancellation, of one
or of all that a tunnel holds, to `Cancel`.

Only model-checked: the liveness properties (fairness and `ENABLED` are out of
the prover's reach): `EofsPass`, `StalledTunnelReleased`, `HttpOpenAnswered`,
`SocksOpenAnswered`, `RaceEnds`, `WalkEnds`, `ConnectEnds`, `Serves`, `TlsAnswers` and the second half
of `ProxyPromise`; and `TokensAsSent` and `StreamAsWanted` of `Rewriter`. What a rewriter
hands on depends on where a parser is in the grammar of HTTP when a buffer ends; an inductive
invariant would have to relate its offsets to that grammar for every stream, and has not been tried.

## Not modelled

- `Trie` and `Subnet`: pure look-ups, for which unit tests reach all there is; the
  rules are modelled by the sets such a look-up decides.
- `TcpConnector::Bind`, which stores a device that nothing reads.
- Chunked bodies, bodies that end with the connection, what http_parser refuses as
  malformed or too long, and `SetSkipBodyInResponse` in `Rewriter`; what the latter means for
  the response to CONNECT is in the tokens of `ProxyFlow`.
- `Buffer::GetData` and `SetData` with another `Buffer`.
- The server side of `TlsTunnel` and renegotiation: no flow uses either.
- Ciphers, hashes and random numbers (wrappers of OpenSSL and libsodium),
  errors' wording, logging, tracking, country tables, the GeoIP reader, vendored code.

## Plan

What could follow, in this order:

1. The composition of a tunnel with a server flow above its local socket and a
   proxy flow above its remote one; so far each is driven by what the tunnel may
   call.
2. Chunked bodies in `Rewriter`, and malformed messages.
