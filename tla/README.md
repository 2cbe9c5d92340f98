# TLA+ models of govpn

govpn is the server side of OpenVPN as a Go library: an embedder hands it a
`net.PacketConn`, gets a `Session` per authenticated client and reads and
writes IP packets. A userspace IP stack (`netstack`) can sit on top.
This directory holds TLA+ models of that code, the TLC configurations that
check them, and TLAPS proofs. `PROJECT.json` maps every definition to
the source lines it stands for and lists the runs, mutants, hazards, findings
and theorems. Line numbers below are lines of `src/`.

## 1. The system

| Part | Source | State and concurrency |
|---|---|---|
| Address pool | `ippool.go` | two maps under one mutex; `allocate`, `reserve`, `release` |
| Server and session life cycle | `ovpn.go`, `session.go` | session table by key, routing table by peer-id, per-session bring-up goroutine, handshake-window watchdog, once-only teardown, callback goroutines, `Server.Close` |
| Renegotiation | `ovpn.go` 2330-2642, `session.go` 929-1096 | three key slots (primary, pending, lame duck), a timer-driven and a peer-driven start, a watchdog |
| Session data path | `session.go` 742-1186 | bounded inbound queue, keepalive and reap goroutines |
| Control-channel reliability | `internal/reliable`, `internal/ctrlconn` | send window of 6, receive window of 12, ACK set, retransmit loop, blocking `Read`/`Write` |
| tls-crypt | `internal/tlscrypt` | sequence counter and 64-bit replay window under mutexes; cryptography |
| Data channel | `internal/datachan` | packet-id counter, 64-bit replay window; AEAD |
| Key derivation, wire format, cipher list, PUSH text | `internal/keyderiv`, `internal/wire`, `cipher.go`, `push.go` | pure functions |
| Netstack core | `netstack/stack.go`, `ipv4.go`, `icmp.go` | attachments by address, a read loop each |
| TCP | `netstack/tcp_*.go` | per-connection mutex, one timer, send and reorder buffers, listener with half-open and live limits |
| UDP, reassembly, deadlines | `netstack/udp.go`, `reassembly.go`, `deadline.go` | bounded queues with drop policies, bounded fragment buffers, re-armable timers |
| Tools and tests | `cmd/`, `examples/`, `test/interop/` | no protocol state |

How they interact: `Serve` gives every control datagram to a goroutine of its
own and handles data packets inline. A
HARD_RESET creates a `Session` with a `ctrlconn.Conn` and starts
`runHandshake` and `enforceHandshakeWindow`. `runHandshake` speaks TLS and Key
Method 2 over the Conn, asks the embedder for an address (`AssignIP`) or takes
one from the pool, publishes address, peer-id and routing entry, answers
PUSH_REQUEST and hands the session to `OnSession`. Data packets are routed by
peer-id to the session. Any of the embedder, an exit-notify, the idle reaper, the
watchdog, a rejected renegotiation, an eviction by another client's bring-up or
`Server.Close` may start the teardown `closeWithReason`, at any point of the
bring-up. Once published, a session lives on with three key slots: data packets
are opened and sealed with the wrappers of the slots while renegotiations, timed or
asked for by the client, replace them, and two timers may end the session. The
netstack reads the packets of attached sessions in one loop per session,
reassembles fragments and gives datagrams to UDP sockets and segments to TCP
connections, which the embedder accepts, reads, writes and closes.

## 2. Modules

| Module | Models | Kind |
|---|---|---|
| `IPPool` | `ippool.go` | component, state and operations |
| `CipherNegotiation` | `cipher.go`, and its use in `ovpn.go` and `push.go` | pure operators |
| `SessionLifecycle` | bring-up, publish, teardown, callbacks and shutdown of `ovpn.go` and `session.go`, composed with `IPPool` and `CipherNegotiation` | component |
| `AddressLeases` | what the server promises about addresses and peer-ids | abstract specification |
| `Reliable` | `internal/reliable` | operators on window values |
| `ReplayWindow` | the replay window of `internal/tlscrypt` and of `internal/datachan` | operators |
| `ControlChannel` | `internal/ctrlconn` at both ends of a lossy network, with `Reliable`, `ReplayWindow`, the inbound queue and the pump of `ovpn.go` | component |
| `ControlStream` | what a control connection promises TLS | abstract specification |
| `SessionKeys` | renegotiation in `ovpn.go`, slots, sweep, reaper and teardown of `session.go` | component |
| `DataChannel` | `handleDataPacket`, `Read`, `Write`, pings and `internal/datachan`, composed with `SessionKeys` and `ReplayWindow` | component |
| `TCPConn` | one connection: `netstack/tcp_conn.go`, `tcp_state.go`, `tcp_timer.go` | component |
| `ByteStream` | what a connection promises its reader | abstract specification |
| `Reassembly` | `netstack/reassembly.go`, `fragmentIPv4` | operators on one session's buffers |
| `Stack` | `netstack/stack.go`, with `Reassembly` | component |
| `DeadlineTimer` | `netstack/deadline.go` | operators on one deadline |
| `UDPDemux` | `netstack/udp.go`, over `Stack`, with `DeadlineTimer` | component |
| `TCPDemux` | `netstack/tcp_listener.go`, over `Stack` | component |
| `Netstack` | the stack with both demultiplexers | composition |
| `SessionContracts`, `ControlContracts`, `NetstackContracts`, `TCPContracts` | statements of docs and comments that the code does not keep | properties |
| `MCSessionLifecycle`, `MCControlChannel`, `MCDataChannel`, `MCNetstack`, `MCTCPConn` | answers, workloads, bounds | TLC instances |
| `SessionLifecycleProofs`, `SessionTeardownProofs`, `ReplayWindowProofs`, `ControlInvariantProofs`, `ControlChannelProofs`, `SessionKeysProofs`, `DataChannelProofs` | theorems | TLAPS |

### IPPool

An address is its offset from the pool's base, the form the allocator works in
itself: 0 is the network, 1 the server, `size-1` broadcast; an offset below 0
or from `size` on lies outside `Config.Network`. `usedIPs` and `usedPeerIDs`
are the two maps, as sets. `allocate` takes the lowest free pair; `reserve`
makes its checks in the code's order, so that a used address
reports `errAssignIPInUse` although no peer-id is left. The defensive bound check
inside `reserve`'s IPv4 conversion and the text of errors are left out.

### SessionLifecycle

One Session object is one member of `Session`; its variables are the fields of
the Go struct plus the position of each goroutine that works on it:

- `hs[s]`: the goroutine that read the HARD_RESET and runs the bring-up. The
  names follow the code: `candidate` (constructed, not inserted), `negotiate`
  (TLS, Key Method 2, PUSH_REQUEST), `assign`/`lookup`/`scan`/`evict`/`retry`
  (`assignTunnelIP`), `held` (pair taken, not published), `reply`, `recheck`
  (the second look at `closing()`), `handing`, `handed`, `end`.
- `window[s]`: `enforceHandshakeWindow`, whose select may take the timer while
  `doneCh` is closed as well.
- `stop[s]`: how far the `stopOnce` body of `closeWithReason` has come. The
  first caller closes `stopCh`; the rest of the body is
  four more steps (`CloseDetach`, `CloseRelease`, `CloseRemove`,
  `CloseNotify`), each a critical section of its own in the code. The reason of a
  close is only handed to `OnSessionClosed` and is left out. Where a later
  caller's wait on `sync.Once` matters (an eviction, `Server.Close`) the caller
  waits for `finished`.
- `callback[s]`, `cbCount`, `cbDone`: the `OnSessionClosed` goroutine and the
  counter that `cbWait` waits on. `cbDone` holds one waiter.
- `closer[c]`, `left[c]`, `current[c]`: a caller of `Server.Close`, its snapshot
  and the session whose close it waits for.

A step is what a goroutine does between two points at which another can observe
or disturb it. Code that was put into one step, and why nothing is lost:

- `handleDatagram`'s first lookup and its recheck under the lock before the
  insert: the first lookup only saves work, the recheck decides.
- The insert and the two `go` statements: a goroutine that has not started yet
  is one that has not taken its first step.
- An error return of a stage: the outcome counter, `doneCh` and the entry into
  `closeWithReason` touch only this session, in a fixed order, and every observer
  (the watchdog) is correct whichever it sees first.
- `PUSH_REPLY` and `close(doneCh)`; the recheck, the Completed counter and
  `established`.
- The publish looks at `stopCh` and writes under `Session.mu`; a teardown may
  close `stopCh` in the middle, but its `CloseDetach` waits for the same mutex,
  so the interleaving equals the one with the close after the publish.

Configuration constants: `Faults` (which stages may fail), `Causes` (what may
close a live session), `Slow` (whose bring-up may outlast the window),
`Answers[s]` (what `AssignIP` may return), `dataCiphers` and `Offers` (the server's
ciphers, and what clients may announce), and which hooks are set. Reads and
writes on a Conn that the teardown has closed fail whatever `Faults` says.

### CipherNegotiation

A name is the cipher it folds to, or `other`; a client is its `IV_CIPHERS` list
(`Absent` if it sends none), its `IV_NCP` version and the cipher of its options
string. `negotiated` is the choice of `performKeyMethod2Exchange`, `pushedCipher`
what PUSH_REPLY says of it, and `clientCipher`, marked external, what the client
makes of that. `Negotiate` of `SessionLifecycle` goes on for the offers that
negotiate a cipher and refuses the others. `allAgree` and `firstUsable` compare
these operators with reference definitions for all configurations and clients with
lists of at most three names.

### AddressLeases

A client holds at most one pair, no one else holds either half of it, and a
returned pair is free. The refinement mapping `lease` says which pair a session
answers for: the one its bring-up goroutine holds, else the published one until
`CloseRelease`.

### ControlChannel

Two Conns, `client` and `server`, as the repository's tests build both ends from
this code. At each end a writer (TLS), a deliverer (the session's pump) and a
retransmitter interleave; they share the ACK set, the send window and the
tls-crypt counter. `MarkChunk` and `SendChunk` are the two halves of
`writeChunk`, between which `retransmitLoop` may find the entry with the bytes
of its previous use. `Deliver`, `GetChunk`, `PeekAcks` and `FlushAckOnly` are
the stages of `Conn.Deliver`: the writer may drain an ACK after `absorb` added it
and before the chunk is in the stream, or between `Peek` and `Drain`, so that an
empty ACK packet goes out. `Receive` is `handleDatagram` for an existing session:
the replay window marks the datagram before the queue is tried. The client has no
queue; its reader, `demux` of `conn_test.go`, delivers each datagram before it reads
the next.

A datagram keeps its identity (`seq`) when it is resent, since the code resends
the same bytes. `net` is a set: the network loses (`Lose`), reorders and, in
`Receive`, may keep a copy. Resets travel through the same window as chunks and
count as one.

Left out: when an entry is due (backoff, fast retransmit), as any active entry may
be resent at any time; `Read`, deadlines and the error a blocked `Write` returns
after `Close`; authentication, since whatever arrives was sent by the peer; the
roll-over of the tls-crypt counter. The last also means that control-packet ids do
not wrap in the composed system: every id costs a sequence number, and the
receiver's replay window, which ignores the timestamp, refuses all that
follows a roll-over. `Reliable` keeps the arithmetic modulo `IDSpace` all the same.
There is one writer per Conn. That holds for a client that waits for the server's
reset before it speaks; one that does not lets the goroutine that sends
the reset (`ovpn.go` 1105) run beside the one that writes the TLS reply, and
`Next` and `MarkActive` are two critical sections.

### ControlStream

Each end receives chunk `n+1` of the other end after chunk `n`, once, and only after
it was written. The mapping is `wrote <- written`, `got <- readBuf`.

### SessionKeys and DataChannel

An established session. A `Conn` is a number in the order of construction and
stands for a `ctrlconn.Conn` together with the `datachan.Wrapper` of its slot.
`primary`, `lameDuck` and `pending` are the slots; `run[c]` and `watch[c]` are the
positions of `runRenegotiation` and `enforceRenegotiationWindow` of attempt `c`,
`handler[h]` that of a datagram goroutine between `routeControlPacket` and
`startRenegotiation`, `ticker` and `expired` that of `runReneg`, `reaper` that of
`runReap`, `stop` and `closing` that of `closeWithReason`. A step is one critical
section of `Session.mu`, or what lies between two: `sweepLameDuck` clears a slot
in one step and closes its Conn in another, `runReap` reads the age in one and
closes in another. A time is its age in ticks, up to the largest age a comparison
tells apart. `Derive`, `FailHandshake` and `RejectUser` are the outcomes of a
renegotiation's TLS and Key Method 2; a closed Conn leaves only failure.

`DataChannel` adds the packets. A packet is the key that sealed it, its id and
whether it carries IP, a ping or an exit-notify; the AEAD opens exactly what the same
key sealed. The network keeps every packet and gives any of them to the server,
any number of times. `handleDataPacket` copies the slots (`DataArrives`) and opens
later (`OpenData`, `DropForged`); a rollover or the teardown may come in between.
There is one such goroutine, as in `Serve`. `Write` and `emitPing` copy the wrapper
and seal later. `limits.ids` plays the part of the last packet id, so that the end
of the counter is met. `silence`, `heard` and `retired` are history.

Time does not pass between the snapshot of the slots and `Open`: the deadline of
the lame duck is part of the snapshot, and the code reads the clock once, for the
comparison. The handshake traffic inside a renegotiation is not modelled again;
`ControlChannel` is that part.

### TCPConn

`conn` is the `tcpConn` as a record. `handleSegment` is one step for each segment,
as the code holds the connection's mutex all through it; its parts
(`handleAckLocked`, `handleEstablishedDataLocked`, `sendPendingLocked`,
`sendFINLocked`, ...) are operators on the record. `TimerFires` and `onRTOFired` are
two steps, since the select takes the timer's channel before it takes the mutex.
`Read` and `Write` park on `notifyCh`, and every broadcast wakes them. Bytes are numbered, sequence
numbers are taken modulo `seqMod` and start just below the wrap.
The peer sends any piece of its stream, old or new, a FIN after the last byte,
any acknowledgement of what it has, any window of the workload, a SYN again or a
reset, in any order; what it does not get is lost. `toSend` holds the segments of
the last step. The application may call `CloseWrite` and `Close` at any time, also while
one of its Writes waits for room; `closedAt`, a history field, is how much it had written
by then. A peer that has heard the FIN takes nothing behind it.
Left out: options beyond the MSS, checksums, the size of the RTO and its backoff
(a running timer may fire at any time), deadlines beyond their ending a call.

### Stack, UDPDemux, TCPDemux, Netstack

An attachment is one call of `Attach`; `att[a].loop` is where its read loop stands:
reading, in the core, or in one of the steps of a demultiplexer. `Detach`, `Close`
and the loop's own `detachAttachment` are separate steps that race for the
routing entry. `stop` waits for the loop to leave. `Reassembly` keeps, per
attachment, buffers with hole lists, a byte budget and an expiry; a fragment is added
in one step, as `add` is one critical section.

`UDPDemux`: a read loop finds the socket, sends, evicts and sends again in steps, under
the demux's read lock, with readers and other loops between them; `CloseUDP`
takes the write lock. A deadline's callback has started (`passes`) before it
gets the mutex (`callback`), so `set` may come between. `TCPDemux`: a SYN
finds the listener open, reserves a half-open place, and inserts its connection, in
three steps; whoever
closes a connection walks through `removeConn` step by step; `CloseListener` marks,
removes and drains. There a connection is only `SYN_RCVD`, `ESTABLISHED`,
`FINISHING` or `CLOSED`, which is what the demux tells apart.

`Netstack` lets all of this run together; a workload picks which packets, sockets
and calls take part.

## 3. Runs

`tlc -workers 2 -config <cfg> <module>`; sizes are distinct states, times those of
two workers.

| Run | Instance | Shows |
|---|---|---|
| `bring_up` | 2 slow sessions, 2 keys, one host address, two peer-ids, every bring-up fault, closes by exit-notifies, by the reaper and by a rejected renegotiation, every kind of `AssignIP` answer with each boundary offset for one session and the address or nil for the other, every kind of client, fairness (476,785 states, 2 min) | `RoutingExact`, `SessionReachable`, `CiphersAgree`; refinement `LeasesImplemented`; `HandshakeSettles`, `TeardownIsFinal` |
| `shutdown` | 2 sessions, two host addresses, two peer-ids, one `Server.Close`, closes by the embedder, fairness (256,322 states, 1.5 min) | `OwnershipInv` (the inductive invariant), `CallbackAfterTeardown`, `CloseWaitsForCallbacks`, `ServerCloseReturns` |
| `contract_shutdown` | 1 session, 1 closer | violation of `CloseReachesEverySession` |
| `control` | windows of 2, queue of 3; the client writes 3 chunks and may close, or both write, or the server may close; fairness (225,516 states, 2.5 min) | `BuffersSuffice`, `DrainedMeansReceived`; refinement `StreamRefined`; `TransmittedArrives` |
| `control_ack_loss` | the client writes 3 chunks, nobody closes, and the network delivers what it does not lose | violation of `LossRecovered` |
| `data_channel` | two renegotiations at the last key-id, or two packets of the client across one, or two packet ids of the server across one (1,124,217 states, 1.5 min) | `PrimaryUsable`, `SlotsReachable`, `TornDown`, `InboundConserved`, `NonceUnique`, `ExpiredKeyDead` |
| `session_timers` | one renegotiation and one packet, fairness (67,516 states, 2 min) | `RenegotiationSettles`, `DemotedRetired`, `SilenceEndsSession`, `TeardownEnds` |
| `tcp` | the peer sends 4 bytes, or the server sends 3 under windows 0 to 2, or both send one; closes at any time; fairness of the timer goroutine (163,960 states, 2 min) | `ConnConsistent`, `ClockCovers`, `NoLostWakeup`; refinement `StreamImplemented`; `ClockSettles`, `LoopExits` |
| `tcp_fin` | the server sends 3 bytes | violation of `FINRetransmitted` |
| `tcp_close_write` | the server sends 3 bytes | violation of `NothingBehindFIN` |
| `netstack` | 2 attachments of one or two addresses, 2 sockets on one port, 2 connections; eight workloads (routing, fragments, queueing, rebinding, deadlines, connections, listening, timers), fairness (240,847 states, 1.5 min) | `RouteExact`, `ReassemblyExact`, `DatagramsInOrder`, `DeadlineHeard`, `TablesExact`, `NobodyForgotten`, `LateIsIgnored`, `ClosedSessionsLeave`, `CloseReleasesReader`, `DetachedConnsEnd` |
| `deadline_set` | one socket and three calls of `SetReadDeadline` | violation of `SetIsSafe` |

Five of these combine what belongs together, each with the module's type invariant
where it has one:

- `BuffersSuffice` (`WindowFits`, `ChunksWelcome`, `QueueHolds`): what is in flight fits the
  peer's receive window, `Put` takes every chunk that waits in the queue, and the queue
  holds at most a send window of chunks and as many datagrams with ACKs. Packets whose
  ACKs a writer has drained come on top, so this does not say that no datagram ever meets
  a full queue;
- `ConnConsistent` (`HeldBounded`, `SegmentsTruthful`): buffers stay within their limits,
  every segment sent carries the bytes its sequence number stands for, and a FIN stands
  where the stream ended when it was closed;
- `ReassemblyExact` (`FragmentsAccounted`, `DatagramsWhole`): the fragment budget is
  what is held, and only complete datagrams are handed on;
- `TablesExact` (`CountsExact`, `WithinLimits`): the counters of an address equal the
  number of its connections that carry the flag of a counter, of SYNs on their way in and
  of goroutines about to count down, and its connections stay within the limits;
- `LateIsIgnored` (`NotTooLate`, `NothingAfterClose`, `OnlyClosedLeave`): no step completes
  an expired reassembly, queues for a closed socket or forgets a connection that still
  runs.

The type invariant of `SessionLifecycle`, `ExclusiveLeases` and `NoPoolLeak` are conjuncts of
`OwnershipInv` and theorems of their own. No run lists the type invariant of
`DataChannel`, `RolloverInOrder` or `ReapedOnlyWhenSilent`: they are theorems (section 4).

### The bounds, and why they are enough

Session life cycle. Two sessions are what any conflict in this code is
about: an owner and a rival for an address, a peer-id, a route or a key; a third
party to a conflict is only met in the retry of `assignTunnelIP`, where it acts as
one more owner. The pool has one host address less than sessions in `bring_up`, so that
exhaustion, eviction and reuse all happen, and as many as sessions in `shutdown`; `size = 4`
is the smallest network the code accepts. `Closer` has one
member, because with two the code deadlocks (section 5). Cipher lists have at most
three names out of two ciphers and one unknown name: repetitions, both orders and
unknown entries before, between and after known ones. The proofs need none of these
bounds.

Control channel. Send and receive windows are equally large, the tightest
case `ReliableAssumption` allows (the code has 6 and 12); the third chunk reuses an
entry and meets the window check of `Next`. The queue is as long as the most
datagrams that can wait in it, empty ACKs aside: the client's send window of chunks and
one ACK for each chunk of the server. In general that is twice the send window, 12 for the
code's 6, and the code's queue holds 32. `replayWindowSize` exceeds the number of
datagrams, so its floor is not met there: a datagram that stays lost while 64 later
ones of the same wrapper arrive is refused for good.

Data channel. Two renegotiations are enough for one attempt to overtake another and for
a lame duck to be displaced; the key-ids run to 3 and start at 3, so that they wrap to
1. With two packet ids and a replay window of 2 a packet may come first, in order, late
or twice; neither the floor nor a shift past the window is met, which the proofs cover.
A queue of 1 is full with the second packet. Each window of time is one tick, the
reaper's two, so that something can happen within it. The proofs hold for any of these.

TCP. Sequence numbers start at 13 of 16 and wrap within the first bytes. The peer's
4 bytes exceed the receive window of 3 and come in segments of up to 2, so that
there is overlap, reordering and a window that closes; the reorder buffer holds 2. One
retransmission and one probe are allowed before the connection gives up.

Netstack. Two attachments race for one address. The limits on connections are one, so that
the second SYN or connection meets them; a socket's queue holds two, so that it has an
order, and the third datagram meets a full one. Fragments are cut for two MTUs so that they
overlap, one datagram is longer than the header allows, and the byte budget of 6
lets one datagram in while another waits. The clock runs to twice the timeout.

No run uses symmetry. Deadlock is checked in the runs of `SessionLifecycle`:
`Quiescent` is the only way to stop, and it demands that no goroutine is in the middle
of anything. It is off in the others, where a conversation may end, the bounds of a
workload be used up, and nothing be left to do.

### Fairness

Weak fairness is assumed for what the Go scheduler and runtime guarantee:
goroutines that wait for nobody take their next step, a timer or a closed channel
wakes its select, and reads and writes on a closed Conn return. Where every such step
brings its goroutine nearer to its end, one weak fairness of all of them together
is as strong as one for each, and is what the specifications state (`Forced`,
`Steps`). In detail:

- `SessionLifecycle`: `Forced` are the local steps of the bring-up, of the teardown
  and of `Server.Close`, the watchdog, the client steps once the Conn is closed, and the
  return of `OnSessionClosed`. Nothing is assumed of the client, of `OnSession`, of
  `AssignIP` beyond returning, or of anyone who might close a session.
- `ControlChannel`: the goroutines of both ends, and the retransmission of each active
  entry, which its ticker justifies. Of the network only this: a datagram that
  is resent for ever is received at some time (strong fairness per entry of a send
  window). `control_ack_loss` adds that what stays in the network arrives, so
  that its counterexample must lose a datagram.
- `DataChannel`: the goroutines of a renegotiation and of the teardown, the ticker,
  the reaper, `handleDataPacket` and the writers; and time passes (strong fairness,
  since each packet in hand disables the tick for a moment). Nothing is
  assumed of the peer or of the embedder.
- `TCPConn`: the timer goroutine only; a running timer fires.
- `Netstack`: the read loops, the timer goroutines and calls that have begun.

## 4. What is proved

`tlapm <module>.tla` checks each module; no obligation is left out.

### SessionLifecycleProofs

For any sets of sessions, keys and closers, any pool size from 4, any
peer-id ceiling and any ciphers, under `PoolAssumption` and `SessionAssumption`:

- `TypeCorrect`: `Spec => []TypeOK`;
- `OwnershipCorrect`: `Spec => []OwnershipInv`, and from it `LeasesExclusive`,
  `PoolNeverLeaks` and `RoutesExact`;
- `LeasesRefined`: `Spec => LeasesImplemented`, that is, every behaviour of the
  server is one of `AddressLeases`;
- `SameCipher` and `FirstUsableCipher`, about the negotiation alone and lists of any
  length, and `CiphersAlwaysAgree`, about every session: `CiphersAgree`.

The argument for ownership. None of the three safety properties is inductive alone: that the
release of a pair leaves the others' pairs marked needs `ExclusiveLeases`; that
a fresh pair is free needs `NoPoolLeak` (the pool marks *exactly* what is held);
that a teardown deletes only its own route needs `RoutingExact` in both
directions. `PairPlaces` ties the pair to the goroutine's position: a pair is in
`held` exactly between `assignTunnelIP` and the publish, and nothing is
published before. The conjunction with `TypeOK` is inductive. The proof sorts
the steps of `Next` into those that touch no pair (`QuietStep`, by far the most)
and five moves: a pair is taken, given up, published, its route deleted, and
released. One lemma per move shows that the invariant survives it
(`PairTaken`, `PairGivenUp`, `PairPublished`, `RouteDeleted`, `PairReleased`), and
`MoveSound` that each is a `Grant`, a `Drop` or a stutter of the abstract
specification.

The negotiation scans a list of any length, so its lemmas need the least index at which
something happens; it exists because the natural numbers are well-founded (`WFMin`).

### SessionTeardownProofs

For the same constants, and any number of concurrent callers of `Server.Close`:

- `TeardownCorrect`: `Spec => []TeardownInv`, and from it `SessionsReachable`
  (`SessionReachable`) and `CallbacksAfterTeardown` (`CallbackAfterTeardown`);
- `CloseWaits`: `Spec => CloseWaitsForCallbacks`.

`TeardownInv` adds to `OwnershipInv`: `TableInv` (the table names a session exactly from its
insertion to `removeSession`, and under its own key), `LiveInv` (nothing happens to a
candidate that lost the race to be inserted), `CallbackInv` (`cbCount` is the number of
callbacks that run, each for a session that was handed out and is torn down) and
`CloserInv` (a caller of `Server.Close` that has sessions left or waits for one has not
come to `cbWait`). Most steps leave all of this alone (`Onward`); the others have a
lemma each. `CloseWaits` is about a state and a later one: `Waited` says where a caller
stands with a session that was in its snapshot (still to be closed, being closed, torn
down, and past `cbWait` with no callback running), and no step makes it false
(`WaitedStep`), because a teardown that has ended starts no callback any more
(`FinishedStays`).

### SessionKeysProofs

For any number of renegotiations and of goroutines that start them, any windows of time
and any range of at least four key-ids, under `KeysAssumption`, in the composition with
the data path:

- `PrimaryAlwaysUsable`, `SlotsAlwaysReachable`, `AlwaysTornDown`: the invariants
  of the same meaning;
- `RolloversInOrder`: the action property `RolloverInOrder`.

`KeysInv` is the inductive invariant. `PrimaryUsable` needs to know who may close a
Conn and when: `Attempts` says that nobody is about to close the primary's Conn, nor
that of an attempt that is still pending, since whoever means to clears
`pendingReneg` first; `Usable` extends the property to the pending attempt, which
may become the primary. `TornDown` needs `Owned`: every open Conn is in a slot, in the
teardown's snapshot, or about to be closed by a goroutine it names. `SlotsReachable`
needs `Numbered`: the slots hold consecutive key-ids, and since `nextKeyID` visits
at least three ids before it repeats one (lemma `NextKeyID`), they differ. `Slots` says
that the slots are different Conns, `Sweeping` that the ticker holds a Conn only
while it closes it, and `Room` bounds the Conns that goroutines on their way will
build, which keeps the types.

### DataChannelProofs and ReplayWindowProofs

For any number of packets and packet ids, any queue and any width of the
replay window, under `DataAssumption`, `NilAssumption` and `ReplayAssumption` as well:

- `NothingTwice`: a replay window refuses what it has accepted, and after any accept, by
  whatever shift, still does;
- `TypeCorrect`: `Spec => []TypeOK`;
- `AlwaysConserved`: `InboundConserved`; `NoncesUnique`: `NonceUnique`;
- `ExpiredKeysDead` and `OnlySilentReaped`: the action properties `ExpiredKeyDead`
  and `ReapedOnlyWhenSilent`.

`DataInv` adds to `KeysInv`: `Nonces` (an id above the counter was never
used, one below it at most once), `Ages` (the ages the code keeps agree
with the history variables: `idle` with `silence`, the lame duck's time to live with
the time since it was demoted, also for the snapshot `handleDataPacket` holds) and
`Conserved` (what was counted is what was delivered, is queued or is retained, and
what was dropped; and the replay window of its key refuses each of those packets, so that
the next one accepted is a new one). A key's slots change only in four ways (`SlotEffects`), and one
lemma shows `Ages` for each.

### ControlInvariantProofs and ControlChannelProofs

For any windows, queue, replay window, space of ids and workload, any number of losses and
duplicates, under `ReliableAssumption` (the receive window is at least the send window and
less than half of the id space), `LoadsAssumption` and `ReplayAssumption`:

- `ControlCorrect`: `Spec => []ControlInv`;
- `BuffersAlwaysSuffice`: `BuffersSuffice`; `DrainedIsReceived`: `DrainedMeansReceived`;
- `ControlStreamImplemented`: `Spec => StreamRefined`, every behaviour of the two ends over
  the network is one of `ControlStream`.

The chunks of a direction are numbered without bound, and an id is a number less one modulo
`IDSpace`; `ControlInv` says which numbers each window holds. Three facts carry it. A sequence
number of the wrapper belongs to one datagram and is let in once (`Wire`, `Queue`), so a
datagram is acted on once. A chunk that can still be acted on is in the send window and
the peer does not have it (`Outstanding`), so `Put` takes it and no id stands for two
chunks. And an ACK is pending or under way only while the entry it frees holds a chunk that the
peer has (`Tokens`), so `Ack` frees no other.

### Only model-checked

Liveness, which needs fairness and ENABLED: `HandshakeSettles`, `TeardownIsFinal`,
`ServerCloseReturns`, `TransmittedArrives`, `RenegotiationSettles`, `DemotedRetired`,
`SilenceEndsSession`, `TeardownEnds`, `ClockSettles`, `LoopExits`,
`ClosedSessionsLeave`, `CloseReleasesReader`, `DetachedConnsEnd`. Also TCP with its
refinement of `ByteStream`, and the netstack. Every other property of a passing run is a
theorem.

## 5. Where the code and its documentation disagree

Five statements have a run that shows how the code breaks them:

- `ovpn.go` 856-858 and `docs/API.md` 191-194, `Server.Close` closes every
  in-flight session: a datagram goroutine that is already past `Serve` inserts its
  session after the snapshot was taken, and nothing but the handshake window ends
  it (`contract_shutdown`).
- `ovpn.go` 380-383 and 1158-1161, what is lost is recovered by the reliability
  layer's retransmission: that holds of chunks (`TransmittedArrives`), not of
  ACKs. When the only ACK of a consumed packet is lost, its retransmissions are
  byte-identical and dropped as replays; a peer that wraps them anew meets
  `PutRejected`, which is not acknowledged either. The entry stays active, and the
  writer stalls once the window has run its size ahead of it
  (`control_ack_loss`).
- `netstack/deadline.go` 43, `set` is safe to call from another goroutine: a timer
  callback that has started before `Stop` closes the channel it was armed with, also
  when a later `set` has closed it already, and panics (`deadline_set`). The passing
  run stops a behaviour at that point.
- `netstack/tcp_timer.go` 98, what is not acknowledged, a FIN included, is
  retransmitted or the connection reset: the acknowledgement of the last byte stops
  the connection's only timer although a FIN is outstanding, and a FIN that was
  lost is never sent again (`tcp_fin`).
- `netstack/tcp_conn.go` 450-452, a Write after `CloseWrite` fails because `finSent` is set:
  `Write` looks at `finSent` before its loop only, so that one that waits for room in the
  send buffer goes on after `CloseWrite` or `Close` and queues bytes behind the FIN
  (`tcp_close_write`).

Others that the models make visible and that have no run of their own.

Sessions:

- `cbDone` has room for one waiter (`ovpn.go` 912, 927): of two concurrent
  `Server.Close` calls one is never woken. `shutdown` has one caller; `CloseWaits` holds
  for any number, as it says nothing of a call that does not get past `cbWait`.
- `CloseReasonUnknown` "is never what OnSessionClosed observes" (`ovpn.go` 294), but the
  watchdog's select may take the timer after the handshake completed and close
  a published session with it (`ovpn.go` 2601). The models have the step, not the reason.
- `Done()` (`session.go` 1221, 1333) is closed when a teardown starts, not when it has
  finished: an embedder that reacts to it may still find the address taken.
- Between the last look at `closing()` (`ovpn.go` 1339) and `OnSession` the session
  may be closed.
- A session evicted between its publish and `published.Store(true)` gets no
  `OnSessionClosed` (`ovpn.go` 322).
- A callback of a session that is not in the snapshot of `Close`, because it had left the
  table or came later, may start after `Close` returned, and so race what the embedder
  tears down then (`docs/API.md` 194-197). `CloseWaitsForCallbacks` is about the sessions of
  the snapshot.
- The retry of `assignTunnelIP` may meet a session that has published (`ovpn.go` 1940).
- A bring-up that `Server.Close` interrupts counts as failed (`ovpn.go` 2584).

Netstack:

- A FIN on the very segment that completes the handshake is consumed but not acted
  upon (`tcp_state.go` 144-150; the comment at 286 says the caller does): a connection
  that closes later stays in FIN_WAIT_2.
- A zero-window probe counts as sent data, so that `maxRetransmits` bounds it rather
  than `maxPersistProbes`.
- CLOSE_WAIT does not acknowledge a retransmitted FIN again.
- Reordered segments that fall below `rcvNxt` stay in the reorder buffer and
  shrink the advertised window for good.
- A tick that was taken before TIME_WAIT began ends it at once.
- A SYN that is repeated while the connection is half open resets it.
- A late deadline callback fires a deadline that was cleared (`deadline.go` 64).
- Two read loops that serve one address during a re-attach may overwrite each
  other's entry in the connection table.
- A shorter last fragment after data beyond its end is not noticed as a
  contradiction.

## 6. Mutants

Every property of a passing run has a mutant: a variant of one definition, kept
next to it and marked `Mutant`, that makes the change a plausible bug would make
(a dropped recheck, a forgotten release, an off-by-one in a count) and under
which TLC finds that property violated with the run's own configuration.

## 7. Not modelled

- Cryptography: TLS, the AEAD, HMACs, the key derivation of Key Method 2 and the
  tls-crypt key file. They are computations over bytes without protocol state;
  the models take from them that a packet opens under the key that sealed it.
- Byte layouts (`internal/wire`, headers of IPv4, TCP and UDP, checksums) and the text of
  PUSH_REPLY but for its cipher: formatting and parsing that no property is about.
- ICMP echo, the building of outbound packets and `WriteTo` of a UDP socket: one packet in
  or out, no state kept.
- Of `ctrlconn`: `Read` with its deadlines, and `WaitDrained` as a loop (what it
  waits for is `DrainedMeansReceived`); when an entry is due for resending; two writers
  on one Conn.
- The roll-over of the tls-crypt counter, after which the peer's replay window
  refuses everything.
- Validation of `Config`, statistics and logging: stateless, or counters that nothing
  reads back.
- `cmd/gentestpki`, `examples/`, `test/interop`, `netstack/netstacktest` and
  `netstack/internal/frame`: tools and test support.
