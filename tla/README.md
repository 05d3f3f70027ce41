# A TLA+ model of go-connect

go-connect tunnels TCP connections between two machines that cannot reach each
other.  Both dial a public *broker*.  A *listener* registers a connection ID
there and forwards to a local service; a *connector* asks for the same ID and
opens a local port.  The broker links the two and relays encrypted messages.

This directory holds TLA+ modules of the parts of the program that run
concurrently or depend on order and counting, the TLC configurations that check
them on small instances, and TLAPS proofs of the safety properties for instances of every
size.  Each definition is taken from the Go source; `PROJECT.json` says from which lines.

## 1. Inventory

| Component | Source | State | Operations | Model |
|---|---|---|---|---|
| Router | `pkg/broker/router.go` | `listeners` (ID → client), `peers` (client → client), one RWMutex | RegisterListener, LinkConnector, GetPeer, Remove | `Router`; what it promises: `Rendezvous` |
| Client connection | `pkg/broker/client_conn.go` | `closeOnce`, `done`, the socket, `lastSeen` | Send, Receive, Close, StartHeartbeat, UpdateLastSeen | `ClientConn`, `Broker`; in time `Heartbeat` |
| Broker server | `pkg/broker/server.go` | `clients` under `clientMu`, `connSem`, `wg`, the TCP listener | Start (accept loop), handleClient, relayMessages, Stop | `Broker` |
| Connector | `pkg/tunnel/connector.go` | `streams`, `pendingStreams`, `nextStreamID`, `closeCh`, `closeOnce` | Start, handleLocalConnection, pumpLocalToRemote, handleMessages, Close | `Tunnel`; Start in `Reconnect`, heartbeats in `Heartbeat` |
| Listener | `pkg/tunnel/listener.go` | `streams` (with `conn` and `buf`), `closeCh`, `closeOnce` | Start, handleOpenStream, handleData, pumpLocalToRemote, Close | `Tunnel`; Start in `Reconnect`, heartbeats in `Heartbeat` |
| Session, frames, AEAD, handshake | `pkg/protocol`, `pkg/crypto` | send and receive counters, `sendMu`, directional keys | PerformHandshake, Send, Receive, Encrypt, Decrypt, WriteFrame, ReadFrame | `Session`; what it promises: `Channel` |
| Reconnect loop | `pkg/tunnel/reconnect.go`, callbacks in `cmd/listen.go`, `cmd/connect.go` | attempt counter, delay, the current client, the context | RunWithReconnect, delay | `Reconnect`; with a broker `Deployment` |
| IPsum block list | `pkg/ipsum`, start of `cmd/broker.go` | a map of addresses, `ipsum.txt`, `ipsum.txt.tmp` | DownloadToFile, LoadFromFile, IsBlocked | `BlockList`, `Deployment` |
| Geo block | `pkg/geoblock`, start of `cmd/broker.go` | the set of blocked codes, a read-only database | Open, IsBlocked | `BlockList`, `Deployment` |
| Commands | `cmd` | flags and environment | start of the broker, callbacks, signals | in `Reconnect` and `BlockList`, without the parsing of addresses and output |
| Logging, UI, wire format, application context | `pkg/logging`, `pkg/ui`, `pb`, `types` | – | output, generated code | not modelled |

How they interact.  The broker runs one goroutine that accepts, and for each
client a *handler* (handshake, authentication, first message, relay) and a
*heartbeat* goroutine.  They share the router and, through `GetPeer`, each
other's connections: a handler writes to its peer's session, and a `Close` of
one client closes its peer.  `Stop` closes all tracked clients from a goroutine
of its own and waits for the handlers.  A connector runs an accept loop, one
goroutine per accepted connection, and a message handler; a listener runs a
message handler, which dials the local service in it, and one pump per stream.
All write to one session, and both handlers answer the broker's heartbeats
themselves.  `RunWithReconnect` watches the client's `closeCh` and makes a new
client after a loss.  The broker command loads its address filters before it
binds its port; the accept loop consults them before anything else.

What is hard here, and what makes each component correct:

- *Router and Close*: several goroutines close the same pair at once; a lookup
  and the action on its result are separate lock sections.  Links must stay
  symmetric and within one ID, closed clients must leave the router, nobody may
  be relayed to a stranger, every Close must return, and the side that remains
  must be told.
- *Server*: handlers end in a dozen places; each must give its slot back.  Stop
  meets clients in any phase.
- *Tunnel*: a stream is opened by a request, an answer and a timeout, closed by
  either application, either side, or a failure; two goroutines of the listener
  write to the same local connection.  Streams must be pipes, nothing may stay
  behind after a close, and nobody may stay blocked.
- *Session*: concurrent senders share one counter; the receiver accepts only
  the next nonce.  Both ends derive their keys from public keys alone.
- *Heartbeats*: beats, relayed data and their answers share locks and sockets.  A
  client that answers must not be closed, a silent one must be.
- *Reconnect*: three sources of events, a counter that is reset to −1 and that the
  backoff uses too, a client whose `closeCh` closes before it has let go of its
  connection and its port.
- *Block list*: the list is downloaded once and used at every later start; the
  process may die at any operation.

`PROJECT.json` lists the individual hazards with their lines.

## 2. Modules and how they correspond to the code

Goroutines are interrupted between any two operations on shared state: a lock
section, a write or read of a connection, a channel operation.  One action is
one such operation, with the code up to the next one.

**Router.**  `listeners` and `peers` are functions with `NoClient` for an absent
key.  `CanRegister`/`RegisterListener`, `CanLink`/`LinkConnector` and `Remove`
(with its helper `Unlink`) are the write-locked sections of the methods of the
same name.

**ClientConn** extends Router.  `conn[c]` is the socket, `unread[c]` the messages
written to it and not read yet (a write blocks at `WireCap`).  `once[c]` is the
`sync.Once`.  Each goroutine `t` that may call Close has `closePc[t]`,
`target[t]` and `toNotify[t]` (the variable `peer`): `CloseEnter` takes the Once,
closes `done` and the socket; `CloseGetPeer` and `CloseRemove` are the two router
calls; `CloseNotify` sends Disconnect and calls Close of the peer.  `CloseAgain`
is a caller that finds the Once taken: it waits for the holder to be done, as
`sync.Once` does.

**Broker** extends ClientConn.  `hpc[c]` and `bpc[c]` are the next operations of the
handler and of the heartbeat goroutine, `fwd[c]` the local `peer` of
relayMessages, `clients`, `slots`, `accPc`/`accConn`, `spc`/`todo` the server, the
semaphore, the accept loop and Stop.  Message contents are reduced to what the
broker branches on.  Time is left out: any tick may find the client stale.  A
client ends up in one of the roles; `linked` is a history variable.

**Rendezvous** is the abstract specification of the broker: an ID is a room with a
host and at most one guest, who enter and leave in one step and speak to each other
only.  `RoomsSpec` in Broker is `Rendezvous!Spec` under the mapping `Rooms`: host and
guest are read off the two maps, a client is *gone* when it is in neither and its
handler can no longer put it there, and `fwd` is what is being said.

**Heartbeat** extends Broker with time: `silent` (since `lastSeen`), `ticker` and `due`
(the channel of the ticker, which holds one tick), the kinds of the `frames` in each
socket, and what a client does with them.  A client answers a heartbeat from the
goroutine that reads (`owes`), its data comes from others (`ClientSends`); `out` is its
socket in the other direction, one frame deep.  `turn` is the queue for `sendMu`.  The
broker's goroutines take no time here: clients act and the clock advances when none of
them can run.  `Quiet` says what each of them waits for then.

**Tunnel.**  Connector and listener share the code of handleMessages, the pump,
closeStream, removeStream and Close, so these are single actions with the side as a
parameter.  `pc[X][s]` is the goroutine of stream `s` on side `X`, `handler[X]` the
message handler with the message `current[X]`, `closing[X]` the progress of Close.
`streams`, `pendingStreams`, `ackCh`, `buf`, `nextStreamID` are the fields of the
code.  The broker is external to this module: two bounded FIFO queues and a `relay`
that ends.  `conn[X][s]` is the local connection; `"left"` is one that removeStream has
taken out of the map without closing it.  Applications owe nothing: they may stop
reading, which keeps the handler in its Write (`InWrite`).  `sent` and `out` record what the
applications wrote and were given.

**Session.**  `hs` and `hello` are PerformHandshake and the goroutine in it that
writes; `spc[e][g]` is a Send of goroutine `g`: lock, seal, write.  Sizes are real
byte counts, cryptography is ideal.  A nonce is the counter value; the counter has
period `CounterMod`.

**Channel** is the abstract specification of a session: a queue in each direction that
may jam for ever.  `ChannelSpec` in Session is `Channel!Spec` under the mapping `Queues`:
a direction jams when a nonce is spent on a message that WriteFrame will refuse.

**Reconnect.**  `at` is the position in RunWithReconnect or, inside the connect callback,
in Start: dial, handshake, authenticate, request, acknowledgement and, for a
connector, the local port.  `client` is the object the callbacks manage, `socks` and
`port` what clients hold: Close closes `closeCh` first (`"closing"`) and lets go of both
later.  `wait` is the delay of the backoff in milliseconds.  `failures` and `everUp` are
history.  What the broker answers is left open.

**BlockList** is the start of the broker command: `bp` is the next operation, `file` and
`tmp` the contents of the two files, `db` and `geo` the filters.  The feed is a sequence
of lines of the kinds the parser tells apart; it is copied to disk and parsed line by line
(`row` lines so far), so that the process may die in between.  Addresses and codes are texts; the
library's parsers and the country database are the constants `To4`, `Upper` and
`Country`.  Memory is lost when the process ends, files are not.

**Deployment** extends Reconnect and BlockList: one client program and its broker.  It
says which answers the open choices of Reconnect get.  `link` is the client's connection
as the broker treats it: the accept loop closes it for a forbidden address
(`BrokerAccepts`) or for want of a slot (`BrokerIsFull`), the handler closes it for a wrong
passphrase (`BrokerMistrusts`; `trusted` is whether the client has the right one), and
`BrokerAnswers` is handleListener and handleConnector, with the conditions of the router in
`RouterAccepts`: a listener needs an ID that nobody has registered, a connector a listener
without a peer.  `room` is what the router has under the client's ID.  Other programs change
it too: the listener that a connector wants registers (`ListenerRegisters`), somebody takes
the client's place (`PlaceTaken`), the other end of the tunnel leaves and takes the client
with it (`OthersLeave`).  A connection that the client has given up or lost stays in the router
(`"stale"`) until `BrokerNotices`; a connector's listener is then closed as well and has to
register again.  Faults (lost connections, failed operations, a killed, full or hung broker,
other programs that take the place or leave) are drawn from a budget.

`MCBroker`, `MCBrokerLinked`, `MCTunnel`, `MCSession`, `MCHeartbeat`, `MCDeployment` hold
constants, symmetry and the bounds of the instances.  Operators marked "Mutant" are plausible
mistakes in the code; `PROJECT.json` says which property notices each.

## 3. Runs

| Run | Configuration | Result |
|---|---|---|
| broker_safety | 3 clients, 2 IDs, 3 slots | all nine properties hold, the refinement of Rendezvous included |
| broker_liveness | a linked pair, Stop allowed | CloseReturns and SlotReturned hold |
| broker_orphan | 2 clients, 1 ID | NoOrphanedConnector is violated |
| broker_ack | 2 clients, 1 ID | AckBeforeRelay is violated |
| broker_stop | 1 client | StopTerminates is violated |
| tunnel_safety | 1 stream, 2 + 0 or 1 + 1 chunks, failing broker | InOrder, PumpsMatched, ConnectorCleared, NothingForgotten hold |
| tunnel_liveness | 1 stream, 1 chunk, queues of 3, applications that may not read | TunnelEnds and EndReachesPeer hold |
| tunnel_late | 1 stream, 1 chunk | ListenerCleared is violated |
| tunnel_full | 1 stream, queues of 1 | CloseTerminates is violated |
| session | 2 senders on each end, 3 + 1 messages of 5 sizes | all hold, the refinement of Channel included |
| deployment | MaxRetries −1, 0, 1, 2; six configurations of the filters; 2 faults | all eight hold |
| heartbeat | a linked pair, sockets of 5 frames, one client may freeze | all three hold |

### What holds

*broker_safety.*  `LinksPaired`: links are symmetric and join a registered listener
with a connector of its ID.  `NoGhosts`: a client whose Close is over is not in the
router as long as the server runs (during Stop a handler may still register a closed
client, and the server is then discarded).  `RelayIsolation`: although the peer is
looked up before it is written to, what is relayed or notified stays within one ID
and between opposite roles.  `NoOrphanedListener`: a listener that lost its connector
is closed or about to be.  `SlotsMatchHandlers`: the semaphore counts the handlers.
`OnceHolderRuns`: the goroutine inside a Once never waits for another Once, which is
why mutual closes do not deadlock.  `RouterLifecycle`: which steps may create or end a
link or a registration.  `RoomsSpec`: the broker implements Rendezvous.

*broker_liveness.*  However many goroutines close the two peers, every Close returns,
and a client that is closed or lost gives its slot back.

*tunnel_safety.*  `InOrder`: each application receives a prefix of what the other
wrote.  `PumpsMatched`: no side pumps into a stream the other has not attached.
`ConnectorCleared`: after Close, and once its goroutines are done, the connector's
maps are empty, also for connections accepted while Close ran.  `NothingForgotten`: no
local connection stays open without a goroutine or a sweep that will close it, except one
that `removeStream` leaves after an end of file and one that reaches the listener's map too
late (`tunnel_late`).

*tunnel_liveness.*  If one side closes, both end, wherever their goroutines are blocked, and
if a stream ends at one side, both drop it, unless `Held`: an application that does not
read keeps the handler in a Write, and either nobody closes that side, or the connection
has already left the map that Close goes through.  The second case is real: a pump that
meets an end of file removes the stream while the handler writes to it, and then no Close
unblocks the handler.

*session.*  `TypeOK` has the lock as well: sendMu is held by the goroutine inside Send and
given back by every return, also after an error.  Both ends get matching keys and no key
and nonce are used twice.  What
Receive returns are the messages whose Send succeeded, in order and without a gap, and a
frame is rejected only after a Send of a message in the 28 bytes between the limit of
WriteFrame for plaintexts and that of Encrypt.  The handshake ends also on a
synchronous connection.  `ChannelSpec`: a session implements Channel.

*deployment.*  After a loss, or after the initial connect, connect may fail `MaxRetries`
times in a row, no more, and the loop does not give up earlier (`RetriesExact`).  No client
is made before the last one has let go of its connection and its port, although the loop
hears of the loss earlier, and when `ctx.Err()` is returned cleanup has run (`OneClient`).  The n-th delay in a row is `Factor^n` times the
first up to the jitter and the maximum, and a connection that was up starts the series
again (`BackoffLaw`).  A broker that serves blocks exactly what the complete feed lists at
the threshold or above, wherever earlier starts and downloads were cut off
(`OnlyFullList`), and through all restarts no client gets past a filter that forbids it and
no other is refused (`BlockedNeverServed`).  A connection is open exactly while the client
holds one, and in the router exactly while it is acknowledged and not lost
(`SystemTypeOK`).  A cancellation ends the loop unless the
broker does not answer during Start or a Close cannot send its Disconnect
(`CancelEndsLoop`): `connect` does not see the context and neither has a deadline, so
Ctrl+C is then not immediate, as the repository's README has it.  (A cancelled loop need not
return `ctx.Err()`: the check of the retries comes before the check of the context, and a
select may prefer the loss.)  `Recovers`: after whatever faults, restarts of the broker and
refusals because of its own earlier connection, a client is connected in the end, or its
retries are used up, or, with unlimited retries, it is not `Welcome`: its address is
forbidden, its passphrase wrong, the broker's configuration does not start, another program
has its place, or, for a connector, no listener is registered.  The last is the one that
matters in practice: after a restart of the broker, or when the broker drops a connector's
earlier connection and its listener with it, the connector is refused until the listener
program has come back.  Nothing in the code makes it come back, so nothing is assumed about
it; once it has, the connector must get through.

*heartbeat.*  `NoFalseAlarm`: nobody is closed as stale while all clients read and answer
in time, however much data shares the sockets.  `DetectedInTime`: who has been silent for
longer than timeout and interval is closed, except while the heartbeat goroutine is
itself blocked in Send, behind data that a frozen client does not read or in a circular
wait: the client waits for room for its answer and therefore does not read, its handler at
the broker waits for room at the peer, whose socket is full as well, and the heartbeat
goroutine waits behind that.  None of these writes has a deadline, and no property says that
this wait ends.

### What does not hold

Each violated run states a sentence of the repository; the findings in `PROJECT.json`
quote it.

1. *broker_orphan.*  Close of a listener calls `GetPeer` and then `Remove`.  A
   connector that is linked between the two is unlinked but not notified.
2. *broker_ack.*  A listener is visible in the router before its RegisterAck is sent.
   A connector's message may arrive first, and the listener then gives up.
3. *broker_stop.*  During the handshake a client is neither tracked nor subject to a
   deadline.  Stop waits for its handler.
4. *tunnel_late.*  A listener that received an OpenStream before Close registers
   the stream after the sweep.
5. *tunnel_full.*  Both sides close while both directions are full: both block in
   the Send of Disconnect, before anything is closed.

## 4. Bounds, and why they are enough

- *Broker.*  Three clients are the smallest number with a pair and a third client that
  competes for the ID or the listener; two IDs are needed for relaying into a wrong pair.
  `WireCap = 1` makes writes block after one message.  The three-client run has the
  constraints `ServerRuns` (no Stop) and `ThirdIsNew` (while three are connected, one is not
  registered or linked yet and no connection is lost), for size; Stop is in `broker_liveness`
  and `broker_stop`.  With three slots for three clients the limit itself does not bite;
  the proofs cover every number of clients and slots, with Stop.  Every client connects
  once: a client that comes back is a new client.
- *broker_liveness* starts from a linked pair (`LinkedInit`, reachable from `Init`) so
  that the liveness graph holds only what the question is about: the closing.
- *Tunnel.*  One stream: streams share only the queues and the handler, and a second one
  multiplies the states without a new kind of interaction except a full queue, which
  `QueueCap = 1` provides.  Two chunks in one direction
  are needed for an order; the safety run has them, or one in each direction
  (`TwoOnAStream`).  The liveness run sends one chunk, which may block the handler
  in its Write.  `QueueCap = 3` there has room for everything one side sends; `tunnel_full`
  shows what happens otherwise.
- *Session.*  `CounterMod = 3` with at most three sends per end keeps counters below
  their period, as 2^64 does in practice.  The sizes are the five around the limits.
- *Heartbeat.*  The unit is 7.5 s: interval 2, timeout 6.  A client that is not frozen
  leaves frames unread for one unit at most (`MaxLag`).  Five frames of room are more than
  the heartbeats a frozen client is sent before it is found stale, so that only data fills
  the socket; with less room heartbeats alone would block their goroutine.  The proofs assume
  that much of all constants (`HeartbeatAssumption`, section 6).
- *Deployment.*  With infinitely many retries the counters stop at `AttemptCap = 5`, where
  the delay has reached its maximum (30 s).  Two faults are the smallest number that hits
  both a start that recovers from a fault and the recovery itself, or a place that is taken
  and a connection that is lost.  What needs no fault: restarts, refusals, a listener that
  registers, another program that gives the place up.  The configurations have
  the client's address at and below the threshold, twice, as an IPv4-mapped address, with a
  count that is no number, and behind either filter, both, and none.

Deadlock is checked in all runs except `session`, where the senders stop at their bound,
`deployment`, where the client program ends, and `tunnel_full`, whose counterexample is a
deadlock: it is to be shown as the violation of CloseTerminates.

## 5. Fairness

A goroutine that can run does run.  It is weak fairness where nothing takes the
possibility away again, and strong fairness where a goroutine waits for something others
also take: a mutex (Go's mutex hands over to a waiter after 1 ms) or room in a socket
buffer.  In Tunnel the strong fairness (`TurnsTaken`) is assumed only where the relay may be
full; `tunnel_liveness` holds without it.  `ClientDrains` is weakly fair: connected clients
keep reading; without it a
blocked write is the client's doing.  `BrokerNoticesHangUp` is weakly fair: the broker's
read of a closed connection fails.  Nothing is assumed about clients sending, the
handshake completing, ticks finding a client stale, applications reading or writing,
losses, or a broker that hangs answering: none of them has a deadline in the code.
In Deployment the broker command is started again whenever it has ended, its start makes
progress, and it finds an earlier connection dead in the end (by its read or its
heartbeat); a Close ends unless the broker hangs.  Other programs owe nothing: a listener
need not register and one in the client's place need not leave; `Recovers` names both as
exceptions instead.  `heartbeat` needs no fairness: its
timeouts are safety properties of a clock that advances only when nothing is overdue.
The wait for an OpenStreamAck and the dial of the local service are fair, because the
code bounds both with a timeout.

## 6. Proofs

| Module | About | Theorems |
|---|---|---|
| `BrokerProofs` | Broker | the properties of `broker_safety` except the refinement |
| `RoomsProofs` | Broker, Rendezvous | the broker implements Rendezvous |
| `SessionProofs` | Session, Channel | the safety properties of `session`, and that a session implements Channel |
| `TunnelProofs` | Tunnel | the properties of `tunnel_safety` |
| `DeploymentProofs` | Reconnect, BlockList, Deployment | the safety properties of `deployment` |
| `HeartbeatProofs` | Heartbeat | the types of `heartbeat`, and that the timed system is a broker |
| `TimingProofs` | Heartbeat | lemmas: what every step does to the clocks and sockets of the pair |
| `DeadlineProofs` | Heartbeat | `DetectedInTime` and `NoFalseAlarm` |

They hold for every value of the constants that satisfies the assumptions in the modules:
every number of clients, slots, streams, chunks, senders, retries, every capacity of a
queue or socket, every feed (in Heartbeat, for a linked pair).  Hardly any property is
inductive as it stands; each proof is an
invariant `IInv`, a lemma per part of it that a step preserves that part, and `Spec =>
[]IInv`.  TLC has checked each invariant on a small instance first.

**Broker.**  The assumptions are `NoClientAssumption` and `NoIDAssumption` (the empty value
is not a client or an ID), `WireCapAssumption` and `MaxConnectionsAssumption` (both at least
one).  `IInv` adds to the properties:

- `AcceptInv`, `SlotInv`, `TrackInv`: a connection is admitted once; the slots are the
  cardinality of the set of running handlers, so that adding and removing one changes
  it by one;
- `CloseInv`, `CallInv`: one goroutine at a time inside a Once, its target is being
  closed, and a goroutine that calls Close does nothing afterwards but clean up;
- `RoleInv`: before its handler has called the router, a client is not in it;
- `NotifyInv`, `ForwardInv`: what is known of a peer after the lock is gone.  ID and role
  of a client never change once it is in the router, so they still agree when the lookup is
  stale; that is what `RelayIsolation` needs;
- `RunningInv`: without Stop nobody closes a client that is not in the router yet, and a
  Close that will unlink a listener knows that listener (the reason why the
  race of `broker_orphan` hits connectors only: a connector is linked by its own handler).

The frame lemmas (`RouterFrame`, `CloseFrame`, `RoleFrame`, `ForwardFrame`, `OnceFrame`) say
which actions can disturb which part.

**Rooms.**  The steps of the broker that change host, guest, the clients that are gone or
what is being said are few (`Visible`); a lemma for each says which step of Rendezvous it is.
`LinksPaired` and `ForwardInv` say that the room that a step leaves or speaks in is the one it
means.  The refinement holds during Stop as well, which the run does not reach.

**Session.**  `CounterAssumption` says that an end sends no more messages than the counter
has values (2^64); `KeysAssumption` that public keys can be compared, as bytes are.
`LockInv` is `sendMu`: only its holder is inside Send, with the latest message; `Released`
is the converse.  For each
direction, the counter numbers the seals in the order of the calls (`SealInv`); the i-th
accepted message has nonce i - 1 exactly if WriteFrame refused no sealed message before it
(`NonceInv`, `GapInv`); the wire holds the last of the accepted messages (`WireInv`); and
Receive, which counts what it reads, has returned all of it unless there was such a
refusal (`ReceiveInv`).  What is on the wire before the gap is what the queue of Channel
holds.

**Tunnel.**  `PhaseInv` ties the two goroutines of a stream to each other and `MessageInv`
says what a message under way proves about its sender.  `PendingInv` ties
`pendingStreams` and `ackCh` to the connector's goroutine, so that an answer after the
timeout finds nothing; `SweepInv` says what the connector may still track after its sweep and
`ConnInv` who has an open local connection in hand.  `OrderInv` is the argument for
`InOrder`: as long as a stream is in the map or may still get there, the chunk in the hand of
the message handler and those in the queue go on without a gap where the last write ended
(`FlowInv`), and as long as nothing is lost they end with the last chunk sent (`ReachInv`).
Both are stated for a queue (`Flows`, `Reaches`), with lemmas for the empty queue, for taking
the first message and for appending one.  Only the types of the constants are assumed.

**Reconnect, BlockList, Deployment.**  `DeploymentImplementsReconnect` lets the loop be
proved alone, with a broker that may answer anything.  `LoopInv` ties `attempt` to the
failures in a row: equal once a connection was up, one apart before (`CountInv`); the check
at the top of the loop holds until the next failure (`RetryInv`); and the client decides what
is held (`HeldInv`), so that everything is released before connect is called again.
`ReconnectAssumption` states two facts about the powers of `Factor` that would need
induction: they are naturals, and at `AttemptCap` the delay has reached its maximum.  TLC
evaluates them for the instance.  `CancelInv` follows a cancellation to the end of the loop.  `FilterInv` says that the list is absent or complete, that
the temporary file is a prefix of the feed while it is copied, and that the map is a function of
the lines read so far (`Holds`).  `SystemInv` adds that the broker has accepted or refused
the client as the filters say, and what the router has of it (`LinkTypeOK`); `LinkHeld` ties
the broker's view of the connection to the client's.

**Heartbeat.**  Every timed step is a step of Broker or leaves it alone (`TimedStep`), and
the linked pair satisfies the invariant of `BrokerProofs` (`LinkedIInv`), which therefore holds.
A frame is read, written or lost exactly when `unread` changes (`FramesTyped`).

The two properties of time are proved for every interval, timeout, lag and size of a socket
that `HeartbeatAssumption` allows.  With I for the interval, T for the timeout and m for
`MaxLag` it says that I + 3m is at most T and m at most I (in the code T = 3I = 45 s, so m
is at most 10 s), and that `WireCap` heartbeats take longer than T + 3m to make (with six they do,
far fewer than a socket holds).  I + 3m is the longest silence of a client that reads in
time: a heartbeat is made after I, read after m, and its answer may wait at a handler that
waits for the peer to read one frame, or two when a heartbeat is first in line for
`sendMu`.

`TimingProofs` takes the actions apart.  `BaseInv` says what the goroutines know of each other
whatever the time, `beats` counts the heartbeats in a socket, and `StepEffect` shows that
every step has one of twelve effects (`Step`) on the variables that time depends on.
`DeadlineProofs` has the inductive invariant, `TimingInv`, in parts about a client c and its
peer p, each with a lemma that the twelve effects preserve it:

- `GetInv`, `AgeInv`, `WaitInv`: how long the handler of c waits for room at p.  It is
  m or 2m and the time c itself takes to make room if p waits for it, unless the two are in
  a circular wait (`Jam`) or p is frozen;
- `NearInv`: while it waits, the next tick of p comes within I + 3m, and so does that of c
  unless p is frozen.  That is why nobody is found stale because of a circular wait:
  the heartbeat goroutines of both are caught in it before the timeout;
- `AnswerInv`, `SilenceInv`, `FineInv`: while nobody is frozen, a client whose handler
  receives is never silent for longer than I + 3m, so that no tick finds it stale;
- `LateInv`, `TickInv`: the sum of `silent` and `ticker` stays within T + I until the tick that
  finds c, or its heartbeat goroutine is blocked (`Stuck`);
- `YoungInv`, `BusyInv`, `OldInv`: what is pending at c, counted by the time the ticker took
  to make it (`load`), is bounded by how long c has not read;
- `RoomInv` follows from the bound: when the heartbeat goroutine blocks, not all frames in the
  socket are heartbeats.

Only model-checked:

- all liveness (`CloseReturns`, `SlotReturned`, `TunnelEnds`, `EndReachesPeer`,
  `HandshakeEnds`, `CancelEndsLoop`, `Recovers`): the prover has no rules for fairness;
- the five violated properties, which are existence claims shown by a trace.

## 7. Not modelled

- The wrap of stream IDs after 2^32 and of nonces after 2^64: neither is reached in
  practice; `CounterAssumption` and distinct stream IDs exclude them.
- Forged or malformed frames and messages, the cipher itself.
- A crash of the machine: the downloaded list is not synced before it is renamed.  Two
  brokers started in one directory, which share the temporary file.
- Data that a TCP connection loses half way: a message is written or not.
- The parsing of addresses, flags and environment variables, logging, output, generated
  code.  They keep no state that the other parts read.

## 8. Plan

1. Done: all components of section 1 that keep state; the refinements of Rendezvous,
   Channel and Reconnect; proofs of every safety property that holds.
2. A pipe per stream as the abstract specification of Tunnel, if the size of the run
   allows it; `InOrder` states its essence.
