# A TLA+ model of kube-portforward

`spdy-mux` multiplexes SPDY/3.1 stream pairs over one WebSocket connection to a
Kubernetes API server; `kube-portforward` keeps pools of such connections to the
ready pod of a service. Both are concurrent: tokio tasks, bounded channels, atomics
shared without locks, futures that may be dropped at any await. The modules here
model that control, TLC checks them on small instances, and TLAPS proves the safety
properties of all but `MuxTasks` for every value of the constants.

Paths below are relative to `src/crates/`. `PROJECT.json` maps every definition to
the lines it models, and lists the runs, the findings and the hazards.

## The system

| Part | Source | State | Operations |
|---|---|---|---|
| Admission of pairs | `spdy-mux/src/mux/handle.rs`, `stream.rs` | `active_pairs`, `peer_max_concurrent`, guards | `open_stream_pair`, `into_split`, drop of `PairReleaseGuard` and `StreamGuard`, SETTINGS |
| Life of a pair | `mux/handle.rs`, `writer.rs`, `worker.rs`, `reader.rs`, `commands.rs` | `open_seq`, ids, the cmd, control, reg and close_reg channels, permits, worker entries, the wire | `realize_stream_pair`, writes, shutdown, drop, writer batches, registrations, GOAWAY |
| Send window | `mux/window.rs`, `stream.rs` | `SendWindow`, waker, registration queues, `peer_initial_window` | `poll_write`, WINDOW_UPDATE, SETTINGS delta, RST, end of the session |
| Receive path | `mux/reader.rs`, `worker.rs`, `writer.rs`, `stream.rs` | worker queue, stream channel, window channel, consumed counters | routing of DATA, dispatch, `poll_read`, WINDOW_UPDATE |
| Tasks of a connection | `mux/{handle,reader,writer,worker,supervisor}.rs` | token, task states, clocks, batch | `spawn`, loops, timeouts, watchdog, panics, `close` |
| Decoding | `spdy-mux/src/{transport,codec}.rs`, `mux/reader.rs` | `frame_buf`, `max_frame_size`, the decompressor | `next_message`, `decode_frame`, the `FrameTooLarge` arm, SETTINGS |
| Opening a session | `kube-portforward/src/{client,connect,subprotocol}.rs` | requests, connections of the HTTP pool, recovery signals | `SessionBuilder::open`: tunnel, fallback, the other connections |
| Session | `spdy-mux/src/session.rs` | handles, round robin counter, token | `with_config`, `open_stream_pair`: two choices, then a scan |
| Forwarder | `kube-portforward/src/forwarder/*`, `session.rs` | pool entries, target, snapshot, opening slots, spare streams | `connect_on_pod`, prefetch, prune, reactor, shutdown |
| Pod watcher | `kube-portforward/src/pod_watch.rs` | store, `latest_ready`, broadcast channel | reflector, subscriber, `ready_pod`, `wait_for_ready_pod` |

A caller asks the Forwarder for a connection to a pod. The Forwarder takes a Session
from its pool or opens one: an HTTP request is upgraded, by the WebSocket tunnel or, if
that is refused, by legacy SPDY, and a mux is started on each connection. The Session
chooses one of its connections (`MuxHandle`) and reserves a pair there. The first use of
the pair realizes it: ids are allocated, both streams registered with their frame
workers, and the SYN_STREAMs queued to the writer. From then on the application writes
through the cmd channel against a send window, and reads from a channel its worker fills.
The reader routes frames to the workers; the supervisor cancels the handle when one of
its tasks ends.

What makes it hard: admission is optimistic and lock-free; the writer and the worker
each drain several channels with different priorities, so that messages about one
stream overtake each other; `drop` cannot wait; `try_send` may find a channel full;
a cancellation can hit every await; and the pool works on snapshots of a target
that changes under it.

## The modules

Each component module has its state as variables, an action per step, `Spec` and,
where liveness is checked, `FairSpec`. `MC*` modules give the constants their values.
A comment "Variant:" marks an operator that states a plausible mistake in the
definition after it; replacing the definition by it must break a property.

| Module | Models | A step is |
|---|---|---|
| `PairCapacity` | admission of pairs | one atomic access, or one drop |
| `Admission` | what admission promises: a room with a limited number of places | one caller arrives, is let in or sent away, leaves |
| `SendWindow` | `poll_write` and its window | one atomic access of the writing task; one message of the worker, its wake apart |
| `StreamLifecycle` | a pair from realize to drop | one channel operation; a worker or the writer takes one message |
| `RecvFlow` | DATA towards the application, credit back | one frame or message handled |
| `LossyPipe` | what a stream promises who reads it: bytes in order, the lost ones counted, the end last | one write, loss, read |
| `FrameCodec` | bytes to frames | one message of the transport, or one turn of the decode loop |
| `MuxTasks` | the tasks of a handle and how they end | one turn of a loop, one write or flush, one expiry of a clock |
| `SessionOpen` | `open()`, upgrade and fallback | one step of a request, of the HTTP pool or of the start of a mux |
| `SessionRouting` | choice of a connection | one access to the counter, a token or a reservation |
| `PortForwardSession` | the two together: a session from `open()` to its streams | a step of either |
| `ForwarderPool` | the Forwarder | the code between two awaits, or under one hold of the lock |
| `PodWatch` | the pod watcher | one access to `latest_ready`, the store or the channel |
| `*Proofs` | the theorems about `PairCapacity`, `SendWindow`, `StreamLifecycle`, `RecvFlow`, `FrameCodec`, `PortForwardSession`, `ForwarderPool` and `PodWatch` | |

The modules divide the system at its narrow interfaces. `PairCapacity` sees a realize
that succeeds or fails, which `StreamLifecycle` details; the latter sees writes
without windows, which `SendWindow` and `RecvFlow` detail; `MuxTasks` sees only that
messages are queued to the writer; `SessionRouting` sees a connection as a counter with a limit, as
`PairCapacity` justifies; `FrameCodec` ends where a frame is routed, which is where
`RecvFlow`, `SendWindow` and `StreamLifecycle` begin; `ForwarderPool` sees a session as a
number of pairs in use and the pod watcher as the ready pods and the one it remembers.

`PortForwardSession` composes `SessionOpen` and `SessionRouting`. They share the number
of muxes, which the first decides and the second routes over, and the session's token:
the handles have child tokens, so that a cancellation closes them in the same step. Muxes
may fail while the next ones are being started, and pairs are opened only once `open()`
has returned.

Abstractions worth knowing:

- Names, headers, payloads and error texts are left out. Bytes of a stream are
  numbered, so that loss and reordering show.
- In `FrameCodec` the bytes of the peer are numbered, and the buffer is an interval of
  them. A header is known when a frame begins at the front of the buffer; when none does,
  payload is taken for a header and may say anything. The decompressor is the set of
  header blocks it has been given: a block inflates cleanly when all earlier ones have
  been.
- `SessionOpen` leaves the wording of requests and responses out. The connection pool of
  the HTTP client is external: it takes the connection of a refused upgrade back at any
  time, hands out any idle one, and never one that is poisoned.
  The client records the connection of a request before it answers, so that
  `poison_rejected_upgrade` always has one to poison. `Refuse` and `PoisonRejected` stand
  for both upgrades, which treat a status other than 101 alike (`connect.rs:133`, `:179`).
- A clock has expired or not: the code only compares elapsed times with limits.
- `MuxTasks` counts the messages in the three channels of the writer and has no contents
  of them. `writer` says which frame is being written: one that the select took, one of
  the window or control messages drained before a command, the command, or one drained
  after it. Whether a message makes bytes that count is left open for control messages,
  since a `SendWsPong` makes none. What the stall check compares is left out: it finds
  the writer stalled or not.
- `SendWindow` gives each stream its own worker, and `RecvFlow` one worker to all
  streams: workers share no state, and sharing one matters only for its queues.
- `StreamLifecycle` runs with one worker, so that both streams of a pair compete for
  its channels.
  The sends of a `StreamGuard` that is dropped, which cannot fail, are one step, and so
  are the deferred closes of one flush of the writer. That they cannot fail is
  `PermitsCovered`.
- `ForwarderPool` cancels removed sessions in the step that removes them, where the
  code does so after it has released the lock, with no await in between. `Connect` is a
  call with a port; the error of `target_port` 0 comes before any state is touched. The
  retry at `forwarder/mod.rs:123` is not there because it never repeats:
  `session.connect()` turns the `CapacityExhausted` of the mux into `Error::Spdy`, which
  the loop returns.
- `I64Min`, the poison value of a window, is a negative constant. No step brings a window
  down to it by arithmetic: that takes a debt of 2^63 bytes. In the run it is below every
  window the other bounds allow, so that this cuts nothing.
- The reflector, its store and the broadcast channel of tokio are external; they are
  modelled from how `pod_watch.rs` uses them. The dispatch buffer of the reflector (256
  events, and a handle in `_subscriber` that nobody polls) is left unbounded: a full one
  delays the reflector, a behaviour in which it is slow.

## The runs that pass

Each has, for every property, a variant of the model that TLC refutes. Where no `TypeOK`
is listed, the type invariant of the module is a conjunct of one of the properties; that
of `PairCapacity` is proved.

| Run | Checks | States |
|---|---|---|
| `pair_capacity` | `SlotAccounting`: the counter is the number of slots held. `AdmittedWithinLimit`: the pairs handed out stay within the limits, though the counter overshoots. `ImplementsAdmission`: the handle implements `Admission`, so that a caller is refused only if it counted up to the limit | 45 k |
| `send_window` | `WindowConserved`: every byte of credit granted is in the window or was spent. `NoLostWake`: a parked writer with credit, or with a poisoned window, has a wake coming. `PoisonIsForever`. `CreditResumesWriter`, `AdmittedUnlessParked`, `BreakReachesRegistered`: a writer parked on its window goes on when credit comes, one that waits for the channel is admitted unless the slots are kept by others that are parked without credit or broken, and the end of the session reaches every window a worker knows. `TypeOK`: no negative number of bytes is debited | 161 k |
| `stream_lifecycle` | `SynIdsIncrease`: ids leave in increasing order, none beyond the maximum. `DataWithinStream`: no DATA before the SYN_STREAM or after the FIN. `LiveIsRegistered`: once all queues are empty, a stream in use has its entry in the worker, unless the peer reset it. `PermitsCovered`: the room a guard reserved is still there when it is dropped, whatever else uses the channel. `AbandonedIsReset`: once all queues are empty, a pair dropped without a shutdown has been reset | 1.5 M |
| `recv_flow` | `StreamCreditConserved`, `SessionCreditConserved`: bytes received are credit returned, pending or counted. `CreditComesBack`: a peer without credit gets some, unless bytes of the stream were dropped or an update found its channel full. `ImplementsPipe`: a stream implements `LossyPipe`, so that what is read is in order, what is missing is what was counted as dropped, and the end comes last | 74 k |
| `mux_tasks` | `CountedFlushed`: the writer does not wait with counted bytes unflushed. `OneExitEndsAll`, `AbandonedStops`, `SpawnReturns` | 165 k |
| `frame_codec` | `DecodesWhatArrived`: when the reader waits, it has routed the frames that arrived, as a definition that knows nothing of chunks computes them. `Aligned`: the decoder never takes payload for a header. Both until an oversized frame arrives in parts. `HeadersInContext`: no header block is inflated before an earlier one, unless an oversized frame was skipped. `BufferBounded`: the reader never holds more than one frame when it waits. `TypeOK`: nothing is taken off the buffer that is not in it | 146 k |
| `port_forward_session` | `SignalsMatchOutcome`: one recovery signal when `open()` fails, with the last status, and none otherwise. `FallbackElsewhere`: the fallback never rides on the refused connection. `CancelReachesAll`: no handle outlives the session's token, not even one that was being started. `AloneScansAll`: an opener that nobody disturbs tries every connection before it gives up | 473 k |
| `forwarder_pool` | `SlotsHeld`, `PoolFollowsTarget`, `NoSessionLost`, `ShutdownClosesAll` | 958 k |
| `forwarder_returns` | `PortServed`: a call gets a session of its port. `ConnectReturns`: every call returns, unless its own `open_session` never ends | 548 k |
| `pod_watch` | `AnnouncedIsReceived`: a waiting call misses no announcement. `ReturnedWasReady`: a pod returned was ready during the call | 1.5 M |

## Where the code and its documentation disagree

Two runs check a property that a comment states, and TLC finds a behaviour that breaks
it. `PROJECT.json` quotes the text.

| Run | Property | What happens |
|---|---|---|
| `recv_flow_gap` | `DeliveredPrefix` | a full stream channel loses a DATA frame, the stream goes on, and the application reads a sequence with a gap |
| `mux_tasks_silent` | `SilentPeerTornDown` | the timeout of the probe is looked at only after a message has come, so that a peer that is silent is never torn down by the reader |

`recv_flow` says what holds nevertheless: what is read is in order and to the end, only
not without gaps.

Other behaviours of the code surprise a reader of its comments. The models have them,
no property excludes them, and no run is spent on them:

- A pair that was admitted before the peer lowered its limit is opened after
  (`handle.rs:413`).
- An Open still queued when the session ends is never poisoned; a writer parked on that
  window stays parked (`worker.rs:97`). Hence `BreakReachesRegistered`, not all.
- A writer parked on its window keeps the slot of the command channel it had reserved
  (`stream.rs:484`): as many parked writers as the channel has slots hold up the other
  streams. Hence the exception in `AdmittedUnlessParked`.
- A caller that is about to be refused counts for the others meanwhile, and one may be
  refused although a slot is free (`handle.rs:348`).
- A `max_frame_size` of 8 or less leaves no room for payload; the code then sends the
  whole buffer in one frame (`stream.rs:491`).
- A WINDOW_UPDATE that finds the queue of its worker full is dropped, and its credit is
  not made up (`reader.rs:309`).
- An oversized frame that has arrived only in part clears the buffer, and its rest is
  read as new frames, although chunks "need not align with frame boundaries"
  (`reader.rs:200`, `transport.rs:371`). Hence the exception in `DecodesWhatArrived`.
- An oversized control frame is skipped with its header block, which the decompressor
  then lacks (`reader.rs:191`). Hence the exception in `HeadersInContext`.
- A SETTINGS difference reaches a stream that is being opened twice or not at all
  (`reader.rs:383`).
- RST_STREAM overtakes the SYN_STREAM of its stream, since control commands go first
  (`writer.rs:321`). Hence `DataWithinStream`, about DATA and FIN only.
- In a worker, Close overtakes Open, and the entry of a dropped pair stays
  (`worker.rs:51`). GOAWAY misses such entries too, and is dropped when the close
  channel has no room (`reader.rs:350`).
- When the permits cannot be reserved, the SYN_STREAMs have been queued and the pair
  fails without RST_STREAM (`handle.rs:559`).
- A broken transport reads as end of file, once the queued chunks are read
  (`stream.rs:377`).
- The bytes of a dropped frame are not given back as credit, so that a stream which lost
  bytes may starve. It may also starve when an update found the window channel full: the
  update is retried only by another DATA frame, which a peer without credit does not
  send (`worker.rs:138`). Hence the two exceptions in `CreditComesBack`.
- An idle writer is taken for a stalled one when a command arrives just before the
  watchdog looks (`writer.rs:380`).
- A batch may hold more than `WRITE_BATCH_CAP` frames, although `writer.rs:398-401` speaks
  of a bound: window and control messages drained before a command are not counted
  (`writer.rs:269`, `:321`).
- The keepalive PING and pongs are not counted, and so not flushed before the writer
  waits (`writer.rs:402`).
- Openers that scan at once share the counter and skip connections (`session.rs:221`
  of `spdy-mux`); a connection that is going away fails the open (`session.rs:274`).
- When every connection was upgraded but no mux answers its PING, `open()` fails without
  a recovery signal (`client.rs`); and it waits for the response to an upgrade for as long
  as the HTTP client does.
- A call may report a pod its session does not reach (`lifecycle.rs:78`); a prefetch
  and an open together exceed `max_sessions` (`prefetch.rs:83`); a call dropped between
  claiming the prefetch and spawning it leaves `prefetch_in_flight` set
  (`prefetch.rs:57`).
- The reactor ignores that its receiver lagged (`lifecycle.rs:206`).
- A ready pod is not announced while `latest_ready` names another (`pod_watch.rs:340`).

## Bounds

Bounds are constants, named in the modules and set in the `.cfg` files.

- Callers: four for admission, where three may be between reservation and undo while
  one holds a slot; two elsewhere, enough for every race between two tasks, and one in
  `forwarder_returns`, where the other actors are the background tasks and the pods.
- `SendWindow` has two streams and one slot in the command channel, so that a parked
  stream holds up the other. The second only competes for the slot: it writes once and
  gets no WINDOW_UPDATE (`MCMaxWrites`, `MCMaxUpdates`), and SETTINGS come only while one
  stream, either one, has been opened (`SettingsStreams`).
- `RecvFlow` has one stream: streams share the window channel, where the updates of the
  session compete with those of the stream.
- Capacities of channels: one or two, so that full channels are common; in
  `StreamLifecycle` four for those with permits, room for two pairs, or for one and
  messages.
- `PeerLimits` {0, 1, 3} with local limits 2 and 3: unlimited, below and above.
- Windows of 0 to 2 bytes, writes of 2: a write that is cut, a window that is used up,
  one that becomes negative through SETTINGS.
- `MAX_STREAM_ID` 7 and `FirstIds` {1, 5}: the second pair is the last, or is refused.
  `MaxWork` 4 allows two pairs, or one and two frames of the peer: a second pair and
  frames of the peer at once are beyond the time a run may take.
- `MaxFrameSizes` {8} and {9}, by stream: no room for payload, and room for one byte.
- `MuxTasks`: two messages of the peer and one `CloseStream` (`MaxCloses`), batches of two,
  one slot in each channel besides the reserved ones.
- `FrameCodec`: two frames, of eleven kinds: a DATA frame that only a SETTINGS before it
  admits, frames above every limit, header blocks that do and do not inflate, SETTINGS
  that say more or less than they hold. Messages of 1, 9 and 24 bytes cut them inside the
  header, inside the payload and not at all, and join the end of one to the beginning of
  the next. After two frames the state of the reader is its limit and its decompressor,
  which the first frame has changed and the second one met.
- `PortForwardSession`: three connections, so that a scan has more to try than the two
  chosen ones; four HTTP connections, one for each request of an `open()`; two statuses,
  so that the wrong one shows; one pair for each handle.
- Pods: two, of one name in `PodWatch` (a replaced pod), of two names in
  `ForwarderPool`. Sessions opened: two. `forwarder_returns` keeps no spare streams,
  since no wait depends on them.
- Counts of writes, updates, frames, calls and panics only end the behaviours. Since
  every behaviour ends when they are used up, most runs do not check deadlock;
  `pair_capacity` has no such bound and does.

## Fairness

Safety runs use `Spec`. Liveness runs assume what the tokio runtime gives:

- `SendWindow`: a task that is ready is polled again (weak fairness of its steps, of
  the worker and of the writer); strong fairness of the writing task, because the
  semaphore of a tokio channel serves its waiters in order. The peer and the
  application owe nothing.
- `RecvFlow`: the worker and the writer run, and the application keeps reading.
- `MuxTasks`: every task that is ready runs, timers fire, a write ends or times out
  (`tokio::time::timeout` around it). Nothing is assumed of the peer or of
  `writer.close()`, which has no timeout.
- `ForwarderPool`: a call that can take a step takes one: its waits for a pod, at the gate
  and for the permit have timeouts. Nothing is assumed of `open_session`, which is awaited
  without one (`lifecycle.rs:139`) and may neither succeed nor fail. Once `shutdown` has
  been called it runs to its end, and a call that is still under way is dropped.

## What is proved

`PairCapacityProofs` proves, for any finite set of callers (`PairsFinite`), any
natural local limits and any set of peer limits in the naturals (`LimitsAreNat`):

- `SlotsAccounted`: `Spec => []SlotAccounting`
- `AdmissionBounded`: `Spec => []AdmittedWithinLimit`
- `TypeCorrect`: `Spec => []TypeOK`, above all that the counter never underflows
- `AdmissionRefined`: `Spec => ImplementsAdmission`

Neither property is inductive. The counter does not say who holds a slot, so `IndInv`
adds which of the two guards owns the slot of a pair (`Ownership`): the armed
`PairReleaseGuard` or the `StreamGuard`, never both. And a bound on the counter
cannot give a bound on the pairs, because refused callers push it past the limit. The
argument is about tickets: the value a caller got from `fetch_add`. The holders with a
ticket below k are at most k (`Tickets`), because a ticket below k is handed out only
while fewer than k slots are held. A pair that was admitted has a ticket below the
limit. `TakeSlot`, `GiveSlotBack` and `SameSlots` show this for the three kinds of
step, and `StepInv` goes through the actions. For the refinement, `FreePlace` draws from
the tickets that a caller who passes the last comparison finds a place free, and
`StepSimulation` maps each action to one of `Admission` or to a stutter.

`SendWindowProofs` proves, for any streams, windows, updates, frame sizes and capacities
(`WindowAssumption`; the windows stay above `I64Min`, see above):

- `CreditConserved`: `Spec => []WindowConserved`
- `WakeNotLost`: `Spec => []NoLostWake`
- `PoisonKept`: `Spec => PoisonIsForever`
- `WindowTypeCorrect`: `Spec => []TypeOK`

`IndInv` has three parts for each stream. `OpenedOnce`: a stream has one Open in all, and
none is queued once its worker has an entry. `Conserved`: the window is credit less
debit, or it is poisoned and its entry has been removed; with `OpenedOnce` a removed entry
never comes back, so no `fetch_add` meets the poison. `WillWake`: from the registration of
the waker on, the task has been woken or its waker is there to be taken, and credit or
poison the task has not seen is followed by a wake that is due. `OneStream` reduces a step
to the stream it is about; `RealizeInv`, `WriteInv`, `WorkerInv` and `OtherInv` go through
the actions.

`StreamLifecycleProofs` proves, for any finite set of pairs, any number of workers, any
`MAX_STREAM_ID`, any first ids but 0 and any capacities (`LifecycleAssumption`):

- `PermitsAreHonoured`: `Spec => []PermitsCovered`
- `SynFramesIncrease`: `Spec => []SynIdsIncrease`
- `DataStaysWithinStream`: `Spec => []DataWithinStream`
- `AbandonedAreReset`: `Spec => []AbandonedIsReset`
- `LivePairsAreRegistered`: `Spec => []LiveIsRegistered`

None is inductive alone, since each speaks of the wire, of empty queues or of a permit when
the cause lies in what is still queued. `Inv` follows every message to its source.
`Callers` says what a pair has at each step: who holds the sequencer, which ids were
given, which permits are reserved. `OpensOrdered` puts one order on the SYN_STREAMs that
have left, those in the command in hand, those queued and the id the holder of the sequencer
has, all below `next_stream_id`. `DataOrdered` says that whatever is queued for a stream
comes after its open, and nothing after its FIN. `ResetsSent`: the reset of an abandoned pair
is queued or has left. `Registered` holds until the peer interferes: a Close under way names a
dead pair (`ClosesDead`), and both entries of a live one are there or on their way
(`LiveEntered`); the first is what makes the second inductive, because Close overtakes Open.
The steps are taken by kind: `Sending` and `Receiving` say what an `Append` and a `Tail` do to
the elements and the order of a queue, `Onward` that ids and phases only advance, and
`BaseStep`, `OrderStep`, `ResetsStep`, `LiveStep` and `ClosesStep` go through the actions for
each part. The permits are counted with `Cardinality` and the deferred closes with a recursive
function: the steps assume the laws they need of finite sets and of induction along an
interval (`FiniteLaws`, `UpTo`), and the end of the module proves both from the library.

`RecvFlowProofs` proves, for any streams, windows, chunks and queues (`RecvAssumption`):

- `StreamCreditKept`: `Spec => []StreamCreditConserved`
- `SessionCreditKept`: `Spec => []SessionCreditConserved`
- `RecvPathIsPipe`: `Spec => ImplementsPipe`, the refinement of `LossyPipe`

`Inv` adds to the balances that no chunk in a channel is empty, that FIN is on the last
frame of its stream and that a sender, once dropped, sends nothing more. The balances are sums
over queues, and the refinement mapping joins three queues into one: both are recursive
functions on the positions of a sequence, and the lemmas about them (what a sum or a
concatenation becomes when a queue grows or loses its head) are proved by induction on the
interval of positions (`UpTo`), from the well-ordering of the naturals.

`FrameCodecProofs` proves, for any frames, limits and chunks (`CodecAssumption`):

- `ReaderAligned`: `Spec => []Aligned`
- `ReaderBufferBounded`: `Spec => []BufferBounded`
- `CodecTypeCorrect`: `Spec => []TypeOK`, so that no `split_to` goes past the buffer
- `ChunksDoNotMatter`: `Spec => []DecodesWhatArrived`
- `DecompressorInStep`: `Spec => []HeadersInContext`

`BufferInv` adds `Contiguous`, that the frames of the peer follow each other without gaps:
`NextFrame` shows that the end of a frame is the beginning of the next or the end of all
bytes sent. `BufferBounded` needs no alignment: it holds because the limit is compared
before the reader waits. What was routed can be compared with what arrived only when the
reader waits, so `InStep` says it in the middle of the decode loop too: there is a number k of
frames the reader is done with, the buffer begins where they end, what was routed, reset and
inflated is what `Accepted` makes of the first k, and when the reader waits the next one has
not arrived. `AllArrived` shows that k is then the number of frames that have.

`PortForwardSessionProofs` proves, for any connections, HTTP connections, statuses and openers
(`RoutingAssumption`), about the composition:

- `SignalsAreExact`: `SessionSpec => []SignalsMatchOutcome`
- `FallbackGoesElsewhere`: `SessionSpec => []FallbackElsewhere`
- `CancelClosesEveryHandle`: `SessionSpec => []CancelReachesAll`
- `ScanIsComplete`: `SessionSpec => AloneScansAll`

`OpenInv` says what each task of `open()` has done in its phase, what the server answered
the probe and over which connections. `StreamInv` says which handles a scan that has the
counter to itself has looked at: those from its start to the counter, modulo their number
(`ModDiv` and the lemmas after it). The two meet in the number of handles, which no longer
changes once a call may be under way, and in the token.

`ForwarderPoolProofs` proves, for any finite set of callers, any pods, ports, sessions and
slots (`PoolAssumption`):

- `SlotsAreHeld`: `Spec => []SlotsHeld`
- `PoolKeepsToTarget`: `Spec => []PoolFollowsTarget`
- `SessionsAccountedFor`: `Spec => []NoSessionLost`
- `ShutdownLeavesNoneOpen`: `Spec => []ShutdownClosesAll`
- `PortsAreServed`: `Spec => []PortServed`

`Inv` says in whose hands every session is: the pool, a call that drained it, a call or the
prefetch about to install it. One about to be installed is in one pair of hands and was
opened for the pod that `install_if_current` compares with the target; without this the
install of a session that somebody else has would break the pool.

`PodWatchProofs` proves, for any finite set of pods, any callers and any channel
(`WatchAssumption`):

- `NoAnnouncementLost`: `Spec => []AnnouncedIsReceived`
- `NoStalePod`: `Spec => ReturnedWasReady`

A call that news was sent to has them from the moment it subscribes, whatever it does, unless
it is about to look at `latest_ready` (`NewsPending`); and what it found in the store it has
seen ready (`SeenKnown`).

TLC has checked each of these inductive invariants on the instance of the run of its module.

Only model-checked: all liveness (`CreditResumesWriter`, `AdmittedUnlessParked`,
`BreakReachesRegistered`, `CreditComesBack`, `OneExitEndsAll`, `AbandonedStops`,
`SpawnReturns`, `ConnectReturns`) and what it needs of fairness, which is out of reach of the
prover; and `CountedFlushed` of `MuxTasks`, which is about one flag of one task: whether bytes
are counted depends on the step the writer is at and on no constant, so that a proof for all
their values would say little more than the run.

## What is not modelled

- Encoding of frames: each command is encoded into a buffer of the writer's own and
  written as a whole. What zlib does with a header block is a library's business.
- The writing half of the transports: I/O. `MuxTasks` has the outcomes of a write, flush
  and close.
- Round trip estimates and costs (`record_rtt`, `cost`): moving averages that only
  order the two chosen connections. Any order is allowed.
- The session-wide send window, which the code replenishes and no writer consults.
- Wrappers, examples, configuration and error types: they hold no state of their own.
