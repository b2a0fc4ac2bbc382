# TLA+ models of picoquic-rs

picoquic-rs wraps the C library picoquic (a QUIC implementation) for Rust's
`futures` 0.1: an event loop future drives the C library, and the application
talks to it through channels, from any thread. This directory holds models of
that machinery, the TLC configurations that check them on small instances, and
proofs that TLAPS checks for every instance.

## The system

| Part (source) | State it keeps | Operations |
|---|---|---|
| `Stream` handle (`src/src/stream.rs`) | receiver of messages, sender of control messages, sender of data, `stream_reset` | `start_send`, `poll`, `reset`, `set_send_channel_size`, drop |
| `stream::Context` (`stream.rs`) | the other ends of these channels, `active_buffer`, three flags | `poll`, `handle_callback`, `handle_connection_error`, `handle_connection_close`, drop |
| `SwappableStream` (`swappable_stream.rs`) | active receiver, receiver to swap to | `poll`, `set_swap_to` |
| channel with error (`channel_with_error.rs`) | an mpsc channel and a shared error | `start_send`, `poll`, `propagate_error`, `close` |
| `Connection`, `NewStreamHandle`, `NewStreamFuture` (`connection.rs`) | receiver of messages, oneshot to close, sender of requests | `poll`, `new_*_stream`, `close_immediately`, drop |
| `connection::Context` (`connection.rs`) | map of streams, requests, `closed`, `wait_for_ready_state`, next id; two references | `poll`, the picoquic callback, drop |
| `ContextInner`, `CContext` (`context_inner.rs`) | list of connections, socket, one packet buffer, timer, requests for connections | `poll` (the event loop), the callback for new connections |
| `Context` (`context.rs`) | receiver of incoming connections, close handle | `poll`, `new_connection`, drop |
| `Config` (`config.rs`), `QuicCtx` (`ffi/quic_ctx.rs`) | settings; the picoquic context | setters, `verify`; `new` with seven early returns, drop, packets in and out |
| certificate verification (`ffi/verify_certificate.rs`) | a boxed handler, a boxed key per handshake, both behind raw pointers | three callbacks of picotls and picoquic |
| errors, other `ffi/` | kinds, pointers | conversions, single calls into C |

How they interact. The event loop polls `CContext`, which polls every
connection's `Context`, which polls every stream's `Context`; each of these
polls reads channels whose other end is with the application. Between polls the
loop feeds packets to picoquic and asks it for packets, and picoquic calls back
into the connection's and the stream's `Context`, from the same thread. So the
event loop is sequential; what runs concurrently with it is the application,
whose sends, resizes, requests and drops take effect between any two channel
operations of the loop.

What is hard about it:

- the application's calls interleave with the single channel operations of a
  poll or a callback (a drop between the control and the data channel, a resize
  while data is queued);
- the end of a stream is spread over two flags that six places set, and is
  either a FIN, a reset or a removal;
- a resize replaces the channel while both ends hold data and senders;
- a packet is smaller or larger than what was sent, and what is left over must
  be the first to go next time;
- references to a connection's `Context` are handed to C and taken back in one
  branch of a callback;
- the loop sleeps: what was not registered with a channel wakes nobody;
- one buffer serves receiving and sending, and a full socket cuts a turn short
  at three places;
- a turn handles many connections and sources, and stops early after a deleted
  connection, a refused packet or 50 repetitions; what is left must be found
  again;
- setting up takes ten steps, each of which can fail with things acquired;
- boxes are lent to C and come back in another callback, or in none;
- a connection ends by a local close, by the peer, by an error or because the
  event loop itself is shut down, and everything that waits must be told.

What makes the parts correct:

- stream: accepted bytes reach picoquic once, in order, completely, and before
  the FIN; the stream is reset only when it carried nothing; it is removed
  exactly when both directions are over; a peer whose data nobody will read is
  told to stop, and told once; everything accepted is eventually sent;
- channel and swap: a sender that can send has a receiver that will be polled;
  an error reaches the sender that the application holds;
- connection: picoquic's pointer is valid as long as it is registered; ids are
  fresh; requests wake the loop and resolve, with the error if there is one;
  closing takes effect;
- event loop: every prepared packet reaches the socket once; the task never
  sleeps through work and every poll of it returns; every source is served in
  the end; connections are polled only while picoquic has them; the loop ends
  with its `Context`;
- setup: a failure leaves nothing behind, a success uses the credentials it was
  given;
- certificates: a peer is accepted only if the handler approved it, and its
  signature is checked with its own key (an empty one is not checked, see below);
  every box is freed once.

The hazards are listed, at their lines, in `PROJECT.json`.

## Modules

- **StreamIds**: `generate_stream_id` and the predicates on the low two bits of
  an id.
- **Channel**: a channel as a record `queue, size, open, error`, and what send,
  receive, drop and `propagate_error` do to it. The mpsc channel belongs to the
  `futures` crate; it is modelled by its behaviour, the extra slot that every
  sender has included (`HasRoom`).
- **Stream**: one stream. The handle's operations are `StartSend`,
  `SetSendChannelSize`, `Reset`, `PollRecv`, `DropStream` (three steps: the fields
  are dropped in the order of their declaration). `pc` is the place of the event
  loop: a poll runs `PollStart`, `PollControl*`, `PollSendData*`, then
  `PollNotReady` or `PollReady`; a callback is `Callback` (data, FIN, reset,
  stop_sending), or `PrepareToSend`, `CollectBuffer`..., `ProvideData`,
  `CopyBuffer`... for `handle_send_data`. A connection ends with `LocalClose`,
  `CloseCallback` and `ConnectionDropped`. `chan[k]` is the k-th send channel of
  the stream; `active` and `swap_to` are the two receivers of the
  `SwappableStream`. Bytes are positions: a chunk is a range `[lo, hi)` of the
  sequence of all accepted bytes, so that loss, reordering and duplication are
  visible although no payload is kept.
- **StreamProperties**: its type, invariants, action properties, fairness and
  liveness.
- **Connection**: one connection in the event loop. The two references to its
  `Context` are `listed` and `raw`; the loop's phases are `sleep`, `poll`,
  `requests`, `close`, `check` and `callbacks`; `create_parked` and
  `close_parked` say whether the loop's task is registered with the requests'
  channel and with the close oneshot, and `wakeup` that it was notified. A
  stream is its id here, and that its poll returns Ready is an input, limited to
  what `RemovedOnlyWhenFinished` of the stream's model allows (`MayBeFinished`).
- **ConnectionProperties**: likewise.
- **BytePipe**, **StreamRefinement**: what the sending side promises without any
  of its machinery, and the mapping: `accepted` as it is, `out` is `wire`, and the
  outcome is `finished` once picoquic has the FIN or the reset of an empty stream,
  `aborted` once somebody gave the stream up.
- **ContextInner**: the event loop with several connections. One turn is the
  phases `contexts` (`PollContexts`), `time`, `dropped`, `connect`, `receive`,
  `stateless`, `unsent`, `prepare` and `wakeup`, in the order of
  `ContextInner::poll`, and inside a phase one action per item, so that the
  application, the network, the reactor and the clock act between any two of them.
  `parked` is the set of sources that the task is registered with, `notified`
  that it will be polled again. Time is what the code compares: a connection's
  wake time is `due` (not after this turn's `current_time`), `fresh` (past, but
  after it), `later` or `idle`; reading the clock turns `fresh` into `due`. A
  packet is its number, and `buffer` says which packet, or received data, it
  holds. A connection's `Context` is its two references and `closed`. `io_error`
  remembers that a call on the socket failed in this turn, which leaves the phase
  without a registration. `unpolled`
  are the connections that came after `CContext::poll` of the turn: the channel of
  their stream requests was polled by `Context::new` (`connection.rs:305`), their
  `close_recv` was not (`connection.rs:481`), so that closing one notifies nobody.
  Only accepted connections can be closed so early: a requested one is handed out
  when its handshake is over, which takes another turn (`HasConnection`).
- **ContextInnerProperties**: likewise.
- **ContextSetup**: the setters of `Config` in any order, then `Config::verify`,
  `CContext::new`, the steps of `QuicCtx::new`, binding and spawning, each with
  its early return and what that drops. `in_effect[k]` is the set of sources that
  picoquic has credential `k` from: `picoquic_create` reads the file in any case; a
  chain or a key in memory takes its place, roots in memory are added to it.
- **ErrorChannel**: the channel with an error lock by lock, with several clones of
  the sender, on the operators of `Channel`. `Connection` takes a send with its
  error, and propagate, close and drain, as one step each.
- **VerifyCertificate**: handshakes of several connections, a heap whose addresses
  are used again, and the three callbacks. A key is the name of the connection
  whose certificate it is from, so that a wrong or freed key is visible; an empty
  signature is accepted as `Unchecked`, without a look at the key.
- **MCStream**, **MCConnection**, **MCContextInner**: the instances for TLC.
- **StreamProofs**, **StreamLifecycleProofs**, **StreamDataProofs**,
  **ConnectionProofs**, **ContextInnerProofs**, **ContextSetupProofs**,
  **ErrorChannelProofs**, **VerifyCertificateProofs**: the theorems.

picoquic is outside: `is_active`, `wire`, `fin_sent`, `reset_called`,
`stop_sending_calls` record what the crate told it, `cnx_state`, `registered` and
`cnx_error` what it tells the crate. Assumed of it: it asks a stream for data
only while the stream is marked active and neither finished nor reset; it
delivers data, FIN and reset of the peer only until the peer ended the stream;
it raises at most one close callback for a connection before the `Context` is
dropped, and raises it before the connection counts as disconnected; a chain or a
key that is set replaces the one from a file, as `config.rs:115` and `:121` say,
and a root certificate is added to a store, as the error text at
`ffi/quic_ctx.rs:232` says.

Definitions whose comment says "mutant of" are not part of the models: each is a
plausible mistake in the definition after it, and TLC finds the property named in
`PROJECT.json` violated when it takes that definition's place.

## Runs

Passing:

| Run | Instance | Shows |
|---|---|---|
| `stream_send` | one bidirectional stream, up to 3 chunks of 0, 1 or 3 bytes, packets of 1 or 2, one resize to 0 from 1, reset, drop, stop_sending, a local and a failing end of the connection | `TypeOK`, `NoPanic`, `WireInOrder`, `NoAcceptedDataLost`, `FinCompletesTheStream`, `ResetOnlyWithoutData`, and the refinement `ImplementsPipe` |
| `stream_lifecycle` | ids 4, 6, 7 at the client (bidirectional, own and foreign unidirectional), 2 chunks of 2 bytes in packets of 1, 2 resizes, one piece of data from the peer, every end of the connection | `RemovedOnlyWhenFinished`, `SenderHasReceiver`, `ErrorReachesSender`, `StopSendingOnce`; `AcceptedDataIsSent`, `DroppedStreamIsForgotten` |
| `connection` | client and server, 2 requests of both types, streams 4 and 5 of the peer, error or plain close, shutdown | `TypeOK`, `CallbackHasContext`, `FreshStreamIds`, `RequestWakesLoop`, `ErrorReachesRequests`; `RequestsResolveWhileRunning`, `ConnectResolves`, `CloseCompletes` |
| `context_inner` | one requested and one incoming connection, 2 packets, 1 datagram, 2 turns without sleeping, failing and panicking requests | `TypeOK`, `NoPacketForgotten`, `NothingUnattended`, `PollsLiveConnections`, `DataGoesOutThisLoop` |
| `context_inner_live` | two requests that are created, refused or panic; no packets or datagrams | `RequestsAnswered`, `DataServed`, `ConnectionsGo`, `LoopEnds` |
| `context_inner_socket` | one incoming connection, 1 packet, 2 datagrams, a socket that may fail | `NothingUnattended`; `PollReturns`, `SocketServed` |
| `context_setup` | every configuration of three credentials in files and memory, every failure | `FailedSetupIsUndone`, `CredentialsTakeEffect` |
| `error_channel` | three clones of the sender, two kinds of error | `RefusedRequestLearnsError` |
| `verify_certificate` | three handshakes, three addresses, chains of up to two certificates, every answer of the handler and of OpenSSL | `TypeOK`, `PeerIsApproved`, `NoUseAfterFree`, `NothingLeaks` |

Why the bounds are enough. Chunks of 0, 1 and 3 against packets of 1 and 2 give
every relation the code tells apart: an empty chunk, a chunk that fits exactly,
one with room left, one that leaves a remainder for one and for two more
packets. With room for `size + 1` chunks and at most three of them the channel
fills up and empties, before and after the swap. One resize is the most for which
`NoAcceptedDataLost` holds (see below); `SenderHasReceiver` is checked with two
and proved for any number, and `AcceptedDataIsSent` is checked for two of which
none overtakes the other (`OneResizeAtATime`). Two requests are what it takes to compare ids and to
have one queued while another is answered; ids 4 and 5 collide with nothing but
the first generated id of each side. In the event loop it takes two connections for
one to be left over when the deletion of the other ends an iteration, or to be
waiting when the loop dies over the other (`context_inner_live`); two datagrams
for a rest of the stateless queue behind a full socket (`context_inner_socket`);
two packets for one to be prepared after another was refused, and one accepted
connection for a close that notifies nobody (`context_inner`). All of this at
once is too large for TLC, above all for liveness, so each run has what its
properties tell apart. `MaxLoops` is 1 in
place of 50, so that the bound is reached in few steps. The bounds on arriving
datagrams and prepared packets make bursts finite: that a poll returns although
datagrams arrive faster than they are read is not claimed. Three handshakes let an
address be freed and used again while a third waits. Deadlock is not checked: a
stream that was forgotten and whose handle is gone, or a loop that has ended,
really stops.

Known disagreements between the code and what its text says. Three are runs that
TLC must find violated:

| Run | What happens | What is said |
|---|---|---|
| `stream_two_resizes` | the second of two resizes replaces a receiver that still waits for its turn; the chunks in it are gone, later ones are sent | the test of resizing, `tests/integration.rs:502`, expects all data; the comment at `stream.rs:41` is about exactly this care |
| `connection_shut_down` | the `CContext` that was leaked with `Arc::into_raw` keeps a queued request forever | `connection.rs:561`: "A future that resolves to a `Stream`." |
| `context_inner_buffer_reuse` | a datagram is received into the buffer that holds a refused packet, and is sent in its place | `context_inner.rs:44`: "Data in the buffer that was not send, because the socket was full." |

For six more there is a configuration that shows them, which is not one of the
runs:

| Configuration | What happens | What is said |
|---|---|---|
| `StreamErrorAfterResize.cfg` (`ConnectionErrorReachesSender`) | with a swap pending the connection's error goes to the old channel; `ErrorReachesSender` is what does hold | `channel_with_error.rs:154`: "Channel the given error to the `Sender` side." |
| `ConnectionCloseWakeup.cfg` (`CloseWakesLoop`) | a close before the first poll of the connection wakes nobody; the loop sleeps up to 10 s, then `CloseCompletes` (`NothingUnattended` of the event loop excepts it) | `connection.rs:260`: "Immediately closes this connection." |
| `ConnectionLateCallback.cfg` (`EachStreamHandedOutOnce`) | data for a stream that was removed makes a second `Stream` with its id | `stream.rs:72-74`: "Each `Stream` is a new channel over the `Connection` to the Peer." |
| `ContextInnerDropAfterDelete.cfg` (`CnxOutlivesContext`) | a disconnected connection is deleted a turn before its `Context` is dropped, and `Context::drop` uses the pointer; `PollsLiveConnections` is what does hold | `ffi/connection.rs:141`: "Deletes the underlying C pointer!" |
| `ContextSetupRoots.cfg` (`RootsAreOverwritten`) | `picoquic_create` gets the file of root certificates also when there are roots in memory, and those are added to it; `CredentialsTakeEffect` is what does hold | `config.rs:132`: "This option will overwrite `set_root_certificate_filename`." |
| `VerifyCertificateEmptySignature.cfg` (`SignatureIsVerified`) | the early return for a call that only releases the key also answers 0 for an empty signature over data; `PeerIsApproved` is what does hold. Whether picotls makes such a call is not known here | `ffi/verify_certificate.rs:54`: "Will be called by picoquic to verify the signed data" |

And three were seen in reading: `create_send_and_recv_data` gives the opener of a
unidirectional stream a send channel (`stream.rs:55` says "`(None, None)` is
returned"); `Config::verify` insists on the existence of a file name that
credentials in memory overwrite (`config.rs:115`); `ErrorState::set_error`
replaces an earlier error (`channel_with_error.rs:155`: "This will only work
once"), which no caller does.

## Fairness

- Stream: `WF(Poll)`, `WF(SendData)`, `WF(ConnectionDropped)`: the loop is woken
  at least every 10 s (`QuicCtx`'s `max_delay`), polls every connection and every
  stream, and code that started runs to its end. `SF(PrepareToSend)`: picoquic
  asks an active stream for data whenever it has credit, again and again; polls
  come between, so weak fairness would not do. The application and the peer owe
  nothing: `AcceptedDataIsSent` excludes streams that one of them gave up.
- Connection: `WF` on waking up, polling and the end of a turn, for the same
  reason; `SF` on the end of a handshake and of a close that was started, which
  picoquic's own timers bring about (the callback phase in which they are raised
  comes and goes).

- ContextInner: `WF(Wake)` and `WF(Poll)`: the executor polls a notified task and
  a poll runs on; `WF(TimerFires)`: a registered `Delay` is at most 10 s ahead;
  `WF(SocketDrains)`: the kernel sends what it has; `SF(Receive)`: reads do not
  fail for ever. The application and the peers owe nothing, and nothing says that
  picoquic ever stops wanting to be called instantly.

## Proofs

Every invariant and action property that a passing run checks, and the
refinement, have a theorem, for all constants that satisfy the module's `ASSUME`;
those on the completeness of a stream's data and the refinement also have the
hypothesis on resizes that is explained below.
The shape is the same everywhere: an inductive invariant, a lemma for `Init`, a
lemma with one step per action, and `PTL` to put them together. The table gives
the invariant and what the property lacks to be inductive by itself.

| Theorem | Property | Rests on |
|---|---|---|
| `StreamProofs!TypeCorrect` | `TypeOK` | `TypeInv`: there is a head of `buffers` while the loop copies |
| `StreamProofs!SenderAlwaysHasReceiver` | `SenderHasReceiver` | inductive with the types |
| `StreamLifecycleProofs!AlwaysRemovedOnlyWhenFinished`, `StopSendingAtMostOnce` | `RemovedOnlyWhenFinished`, `StopSendingOnce` | `FlagInv`: each flag says neither less nor more than it is named for |
| `StreamLifecycleProofs!ErrorAlwaysReachesSender` | `ErrorReachesSender` | `ErrorInv`: until it is resized, stopped or reset a stream has one channel, the active one, open until the Context goes |
| `StreamDataProofs!NeverPanics` | `NoPanic` | `BufferInv`: all collected buffers but the last fit into the packet |
| `StreamDataProofs!WireAlwaysInOrder` | `WireInOrder` | `PlaceInv`, `OrderInv` (below) |
| `StreamDataProofs!AcceptedDataIsKept`, `FinAlwaysComplete`, `ResetNeverLosesData`, `ResizedOnceKeepsAll` | `NoAcceptedDataLost`, `FinCompletesTheStream`, `ResetOnlyWithoutData` | `SendInv` (below) |
| `StreamDataProofs!SendingSideIsAPipe`, `ResizedOnceIsAPipe` | `ImplementsPipe` | `SendInv` |
| `ConnectionProofs!ConnectionTypes` | `TypeOK` | the two below: ids are numbers because they are bounded |
| `ConnectionProofs!CallbackAlwaysHasContext` | `CallbackHasContext` | `RefInv`: an open `Context` has both references and is not closed between the start and the end of a poll |
| `ConnectionProofs!StreamIdsAlwaysFresh` | `FreshStreamIds` | `IdInv`: every id of this endpoint's parity, wherever it is, is below the four ids of the counter's next value (`GeneratedId`) |
| `ConnectionProofs!RequestAlwaysWakesLoop` | `RequestWakesLoop` | `QueueInv`: from the end of the requests' phase to the next poll the queue is empty and the task registered, or it was notified |
| `ConnectionProofs!ErrorReachesEveryRequest` | `ErrorReachesRequests` | `FutureInv`: what waits is queued, nothing is canceled while picoquic has the pointer, an error has closed and drained the channel |
| `ContextInnerProofs!LoopTypesHold` | `TypeOK` | a datagram becomes at most one stateless packet |
| `ContextInnerProofs!NoPacketIsForgotten` | `NoPacketForgotten` | `PacketInv`: none is left over when one is prepared, and the one left over is younger than all on the wire |
| `ContextInnerProofs!OnlyLiveConnectionsArePolled` | `PollsLiveConnections` | `LiveInv`: picoquic has a reference and an open connection for every `Context` that is not closed |
| `ContextInnerProofs!NothingIsUnattended` | `NothingUnattended` | `WakeInv`: for every source, from the phase that looked at it on, nothing is there that notifies and the task is registered, or it was notified; for the socket's sources, unless a call failed in the turn (`io_error`) |
| `ContextInnerProofs!DataLeavesInItsTurn` | `DataGoesOutThisLoop` | `HandedInv`: a connection given data is due once the time was read |
| `ContextSetupProofs!SetupTypes`, `FailedSetupAlwaysUndone`, `CredentialsAlwaysTakeEffect` | `TypeOK` (proved only), `FailedSetupIsUndone`, `CredentialsTakeEffect` | `ResourceInv` and `ConfigInv`: what is held, and what has taken effect, at each step |
| `ErrorChannelProofs!RefusedRequestsLearnError` | `RefusedRequestLearnsError` | the error is in its slot before the channel closes, and nobody is refused by an open channel |
| `VerifyCertificateProofs!HandshakeTypes`, `AcceptedPeersAreApproved`, `NeverUsedAfterFree`, `NoBoxLeaks` | `TypeOK`, `PeerIsApproved`, `NoUseAfterFree`, `NothingLeaks` | `OwnInv`: a waiting handshake and the box of its key belong to each other although addresses are used again |

`SenderAlwaysHasReceiver` follows the receiver of the application's sender: it is
created in the message `SwapSendData`, moves from there to `swap_to`
(`TailOfControl`), from there to `active` (`SwapKeepsSender`), and wherever it is
dropped its channel is closed (`CloseKeepsSender`, `DropContextSender`). So the
receiver that `stream_two_resizes` loses is never the one of the current sender.

**The data of a stream** (`StreamDataProofs`). The bytes pass through any number
of channels, up to one of which is active and one waiting, a sequence of buffers
and the wire. The argument has four layers:

1. `BufferInv`. The sum of the sizes of the buffers is given by a function that
   satisfies its equations (`IsTotals`), so that no recursive definition is needed;
   all but the last buffer fit, hence at most one leaves a remainder, and none
   when a FIN was announced.
2. `PlaceInv`. The receivers are in the order of their channels on the way control
   message, `swap_to`, `active`, and a channel with data has its receiver on this
   way. So the channel a poll reads is the first one with data (`FirstChannel`).
   `OrderInv`: there are positions that cut the accepted bytes into wire, front
   (`Front`) and channel 1, 2, ...; each step moves a cut. This much holds whatever
   happens, and gives `WireAlwaysInOrder`.
3. `OpenInv`, `PrefixInv`. While the Context has receivers every accepted byte is
   somewhere (`AllCovered`) and every channel after the active one is open and on
   the way; what is in front follows what is on the wire without a gap.
4. `FinInv`, `OverInv`. Unless the stream was given up, the Context lets its
   receivers go and raises its flag only when the sender is gone and the queues
   are empty: the end of the `SwappableStream` means both (`NoneMeansOver`), because
   a sender replaced by a resize lives in the message that announces it.

Layers 3 and 4 are proved under the hypothesis `[]OneResizeAtATime`: while a
receiver waits in `swap_to` no message with another one is pending. Without it
they are false, which is what run `stream_two_resizes` shows: `set_swap_to`
replaces the waiting receiver with its data. The hypothesis is about the
application only: it holds if `set_send_channel_size` is called again only after
the swap of the call before was made. A stream that is resized at most once
satisfies it (`OneResizeIsEnough`, `MaxChannels <= 2`), so that
`ResizedOnceKeepsAll` and `ResizedOnceIsAPipe` have no hypothesis on behaviours.

**The refinement.** `PipeStep` maps each step: `StartSend` is `Put`; a
`CopyBuffer` that writes is `Get`, because the head of `Front` begins where the
wire ends (`FrontFollows`, from `PrefixInv` and the cuts); what makes
`SendingIsOver` true is `Finish`, or part of the `Get` before, and then all is
delivered (`OverMeansDelivered`); what makes `Abandoned` true is `Abort`; the rest
stutters, because `Abandoned` and `SendingIsOver` never become false again.

Assumptions. The `ASSUME`s give constants their types and say that there is at
least one channel. `VerifyCertificateAssumptions` also says that there is an
address for every connection, as an allocation of the code does not fail, and
that the null pointer and `Unchecked` are neither addresses nor connections.

Only model-checked: the liveness properties (`AcceptedDataIsSent`,
`DroppedStreamIsForgotten`, the three of `connection`, the four of
`context_inner_live`, and `PollReturns` and `SocketServed`), since fairness is beyond the provers used here; and the
disagreements, which are counterexamples.

## Not modelled

- Task notifications of a stream's channels: the fairness of polls stands for
  them. Those of a connection's channels and of the event loop are modelled.
- Payload, addresses, connection ids, `reset_seed` and the lengths of keep-alive
  intervals: no decision of the code depends on them.
- How fast datagrams arrive: the receive loop of `check_for_incoming_data` ends
  when the socket is empty, which a fast enough peer can put off.
- A handler that panics inside `verify_certificate_callback`: the unwinding would
  go through C frames, which is undefined.
- The conversions of `ffi/quic_ctx.rs` (addresses, durations, vectors to iovecs)
  and the declarations of `error.rs`: they keep no state.
- picoquic and picoquic-sys: the C sources are a submodule that is not part of
  the repository. What picoquic does to a connection is an input everywhere.
- The composition of all streams, connections and the loop in one model: its
  parts interact through what each model takes as an input (`MayBeFinished` in
  `Connection`, `UseConnection` and `CloseEvent` in `ContextInner`), and their
  product is out of TLC's reach.

## Plan

Left for later: a theorem that each stage of the event loop's liveness leads to the next
is out of reach, but the safety lemmas it would rest on (a turn makes at most
`MaxLoops` repetitions, a phase once left is not entered again in the same turn)
can be proved; a bound on what a stream holds (chunks in channels and buffers
against the sizes asked for); and `ErrorReachesSender` for streams whose resizes
are complete.
