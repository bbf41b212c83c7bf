# A TLA+ model of rillnet

rillnet is a C++20 library for typed request/response protocols over byte
streams, written as Boost.Asio coroutines. This directory holds TLA+ modules of
its core, the TLC configurations that check them on small instances, and proofs
that TLAPS checks for every value of the constants. Source paths below are
relative to `include/rillnet/`.

## Inventory

Every connection runs on one executor. Nothing runs in parallel; coroutines
interleave at their suspension points (`co_await`), and timer handlers, spawned
handlers and completed reads and writes are queued by the executor in any order.
The code between two suspension points is therefore one action of the models.

| Component | State | Operations | Interacts with |
|---|---|---|---|
| `stream_id_allocator.hpp` | `next_`, `in_use_`, `available_` | `allocate`, `release` | called by the client connection |
| `write_queue.hpp` | two channels, `queued_bytes_`, `closed_` | `enqueue` (suspends when full), `try_enqueue`, `run` (the write loop), `close` | called by both connections, writes to the transport |
| `lifecycle.hpp`, `operation.hpp` | connection state; operation state, result, cancellation flag | `transition`; `activate`, `complete`, `fail`, `cancel`, `timeout`, `request_cancellation` | owned by connections and their requests |
| `client_connection.hpp` | `pending_`, `terminal_streams_`, one `PendingRequest` (channel, timer, operation) per request, lifecycle | `start_request`, the handle's `async_wait`/`cancel`/destructor, timer handler, `read_loop`/`dispatch`, `run`, `shutdown` | allocator, queue, transport, application |
| `server_connection.hpp` | `operations_`, `active_handlers_`, `terminal_streams_`, `reading_`, lifecycle | `read_loop`/`dispatch`, `run_handler` (one coroutine per request), `run`, `shutdown` | queue, transport, application handlers |
| `protocol_violation.hpp`, `status_code.hpp`, `frame_flags.hpp`, `frame.hpp` | none | `make_error_frame`, `decode_error_status`, `validate_frame` | used by both connections |
| `frame_codec.hpp`, `frame_decoder.hpp` | bytes of the frame being read | `encode_frame`, `push` | read loops, write queue |
| `message_registry.hpp`, `message_codec.hpp`, `codec.hpp` | registrations | `register_message`, encode, decode | connections |
| `tcp_transport.hpp` | socket, `open_` | `read`, `write`, `close` | connections |
| `tcp_server.hpp`, `tcp_client.hpp` | acceptor, registered shutdown handlers; resolver and timer | `run`, `stop`, `shutdown`; `connect` | application |
| `diagnostics.hpp` | none | callbacks | connections |
| `identifiers.hpp`, `protocol_version.hpp`, `version.hpp`, `error.hpp` | value types | - | all |

What is hard to test here, and what makes each part correct:

- **Allocator.** Releases in any order and the end of the identifier range: live
  and free identifiers must partition the issued ones, and exhaustion must mean
  that all of them are live.
- **Write queue.** Callers that wait for space share one channel of tokens, some
  frames fit where others do not, and a frame can be handed to the write loop
  without being buffered. Order, byte accounting and wake-ups must survive every
  interleaving, `close()` and a failing write.
- **Client connection.** A response, a deadline whose timer has already expired,
  a cancellation by either side, a destroyed handle, a violation, a failed write,
  the end of the stream and `shutdown()` all try to finish the same operation,
  while stream identifiers are recycled underneath. Each operation must finish
  once, the handle must see it, and the maps and the allocator must agree.
- **Server connection.** Handlers outlive the read loop and the connection they
  serve. The queue must be closed by whoever is last, a response must not follow
  a cancellation, and a drain must settle everything.
- **Frame decoder.** A read may end inside a header, inside a payload or right
  after the header of an empty frame, and may hold several frames. The frames
  must not depend on the cuts, and the memory must not depend on a peer's word.
- **Message registry.** Two ends register types at any time. The two maps of a
  registry must stay inverse to each other, a payload must decode to what was
  encoded, and a request must reach a handler of its own type or none.
- **TCP server and client.** A completed accept, a transient failure, `stop()` and
  overlapping `shutdown()` calls meet between suspensions; a connect timer races
  the attempt. Everything started must end, and results must be true.
- **Both connections together.** Frames cross on the wire. Stream identifiers are the only
  correlation between a response and its request.

`PROJECT.json` lists these hazards with the line where each bites and the
properties that would catch it.

## Modules

| Module | Models |
|---|---|
| `StreamIdAllocator` | the allocator; constants are the initiator, the maximum and the number of values of the integer type |
| `StreamIdAllocatorProofs` | its theorems |
| `OrderedDelivery` | abstract specification of a write path: accepted frames are written in order, each once, and none is accepted after closing |
| `WriteQueue` | the write queue with both channels, waiting callers and the write loop |
| `WriteQueueProofs` | its theorems, with the refinement of `OrderedDelivery` |
| `Lifecycle` | the two state machines and the operations on an `Operation`, as operators |
| `LifecycleProofs` | lemmas on those operators |
| `Protocol` | status codes and frames as the connections see them |
| `ClientConnection` | the client connection, with an instance of `StreamIdAllocator` |
| `ServerConnection` | the server connection |
| `ClientConnectionProofs`, `ServerConnectionProofs` | their theorems |
| `RpcSystem` | a `ClientConnection` and an instance of `ServerConnection` joined by two FIFO byte streams |
| `RpcSystemProofs` | theorems of the composition, on top of the client's |
| `FrameCodec` | the header's wire layout, flags and `validate_frame()`, as operators |
| `FrameDecoder` | the incremental decoder, fed by a peer whose bytes are cut into reads anywhere |
| `MessageRegistry` | a registry at each end, `PodCodec`, message payloads, the server's handlers, and one request on its way |
| `CodecProofs` | theorems of the three modules before it |
| `TcpServer` | the accept loop, `stop()`, `shutdown()` and its drain coroutines |
| `TcpClient` | `connect()` with its timer |
| `TcpSystem` | a `TcpServer` with an instance of `TcpClient` and foreign clients |
| `TcpSystemProofs` | its theorems |
| `MC*` | constants for TLC |

Operators and actions keep the names of the functions they model, or say in the
comment which part of which function they are; the map in `PROJECT.json` gives
the lines. Definitions commented "Mutant" are plausible bugs. They are used by no
specification; each replaces the definition after it when one asks whether the
checked properties would notice.

How state corresponds to the code where it is not a variable of the same name:

- A coroutine is a program counter: `run`, `reader`, `writer`, `drain`, `call[f]`,
  `request[r].phase`, `task[t].phase`.
- In `WriteQueue`, `channel` and `current` are the frames buffered in `channel_`
  and the one handed to `run()`; `waiters` and `call` are the callers suspended on
  `space_channel_`; `space` is the number of tokens in it. `accepted` is
  history. The channels behave as Boost.Asio's do: an item goes to a
  waiting receiver first, the receiver runs later, and closing a channel refuses
  new items and fails waiting receivers but leaves buffered items receivable.
  `Unbounded` is `unbounded_capacity`: a queue without a limit of frames keeps one
  token, as an empty one does.
- In `ClientConnection`, `request[r]` joins a `PendingRequest` with the handle.
  `channel` is the response channel: empty, closed, or holding a payload. `timer`
  distinguishes an expired timer, whose handler can no longer be cancelled, from
  an armed one. `violation` is a history of `fail_connection()`. `drain` (of both
  connections) is shared by all `shutdown()` calls: begin_shutdown() and the part
  after the loop are idempotent, so a call that is still waiting when another one
  has finished ends with the effects of a new call.
- In `ServerConnection`, `task[t]` joins the operation with its `run_handler()`
  coroutine; `refusal` is a history of why the loop itself closed the transport.
- In the two connections the write queue is reduced to a FIFO that can always
  refuse a frame when something is queued (the byte limit), must refuse when
  `MaxFrames` frames wait behind the one being written, and refuses everything
  once closed. `Oversized` requests or responses may exceed the byte limit alone.
  Two frames in one read are two steps, which allows more interleavings than the
  code has; a decoding error behind a frame in a read that completes on a closed
  transport is part of that frame's step.
- A payload is the request it carries or answers, a status, or garbage. Messages
  that do not encode, and payloads that may not decode, are chosen by the sets
  `Unencodable` and `Undecodable`. `Replies` are the payloads of responses that decode:
  one for a client alone, the requests where each response names the request it answers.
- In `FrameDecoder`, `header_bytes` and `payload` are the bytes received, so that
  the two size members are their lengths. One action hands a read to `push()` and
  one stands for each iteration of its loop; nothing else happens in between. Its
  specification is `DecoderSpec`, its type invariant `DecoderTypeOK`.
- In `MessageRegistry`, look-ups that find nothing are `NoMessage` and 0. Only the
  request itself is followed; what the connections do with it is theirs. `Reaction`
  looks the handler up and decodes at once, where the code decodes in the spawned
  lambda; registrations are never undone, and `StaysHandled` shows that the moment
  makes no difference. Payloads and headers are bytes, because that encoding and
  decoding are inverse is what the two modules are about.
- In `TcpServer`, `run = "accepted"`, `"failed"` and `"aborted"` are completions of
  `async_accept()` whose coroutine has not been resumed. `shutdown_handlers` names
  each handler by its connection, `Moved` after `std::move()`; calling such a
  handler throws `std::bad_function_call`, which the coroutine swallows. A drain
  handler that returns and one that throws end their coroutine alike, and the server
  does not learn whether the connection is closed: `ShutdownWaits` says that the
  drains have ended, not that the connections are closed. The
  application registers every connection it is given, as `README.md` asks.
  `joined` is history: a registration while a call waits.
- In `TcpClient`, `done` lists the completions of the two raced operations.
  Boost.Asio's `operator||` waits for one success, cancels the other operation and
  waits for it too.

## Runs that pass

| Run | Instance | Shows |
|---|---|---|
| `allocator` | client, identifiers 1 to 15 of 16 values | `Partition`, `FreshGrant`, `ExhaustedOnlyWhenFull`; the range ends where the integer type does, so the wrap would happen |
| `queue` | five frames of 1, 2, 3, 1 and 4 bytes; limits two frames and three bytes | `QueueConsistent` (byte accounting), `Pipeline`, `NoLostWakeup`, `DrainedWhenStopped`, the refinement `ImplementsDelivery`, and that `enqueue()` and `run()` return |
| `client` | two requests (one with a deadline that may also be cancelled or discarded, one possibly oversized) and one that does not encode, identifiers 1 and 3, a queue of one frame; responses, errors and cancellations at any time, well-formed or not, on any stream (errors and cancellations that do not end their stream on the first, which every request may be given) | `ClientConsistent` (entries, streams and allocator agree), `ResultAgrees`, `FinishedIsVisible`, `ClosedSettles`, `TerminalStable`, `ShutdownAdmitsNothing` |
| `server` | two requests on two streams, one of which may not decode or have an oversized response, any frame at any time | `ServerConsistent` (entries and counter follow the handlers), `ResponseOnlyIfCompleted`, `QueueOpenForHandlers`, `ShutdownSettles`, `DrainStartsNothing`, `RunReturns` |
| `system` | three requests on identifiers 1 and 3, one of which the server may fail to decode, queues of two frames; interchangeable requests are symmetric | `Correlated`, `ServerSeesNoViolation` |
| `system_liveness` | two requests on one identifier, one with a deadline and possibly not decoding, queues of one frame; failing writes, lost connections and shutdown at either end | `CallerReturns`: a waiting caller whose request was answered, has a deadline or lost its connection returns; `ClosePropagates`: a close at one end ends all four loops |
| `decoder` | up to three frames of six kinds, cut into reads in every way, with `reset()` | `DecoderTypeOK` (memory bound), `DecodesWhatWasSent`, `NothingWithheld` |
| `messages` | two ends, two versions, two interchangeable types, one too large and one unsupported, identifiers 0, 1 and 17, foreign payloads | `RegistryConsistent`, `RoundTrip`, `HandlerGetsItsType`, `StaysHandled` |
| `tcp` | a `TcpClient` and a foreign client, two calls of `shutdown()`, one transient accept failure | `DrainsConsistent` (no connection drained twice), `ShutdownWaits` (a call alone returns only when the drains it started have ended), `HonestResult`, `EstablishedSettles`, `RunReturns`, `ShutdownReturnsUnlessJoined`, `ConnectReturns` |

Why the bounds are enough. Five frames against two slots and three bytes give a
frame that never fits, one that fits only alone, and small ones that overtake it,
with at least two callers waiting. Each frame is offered once, so `EnqueueReturns`
says that no caller is left asleep; that a large frame cannot starve against an
endless supply of small ones is neither checked nor true of the code. Two requests suffice for the client's
per-request properties: one is the request in question, the other shares its
stream or the queue; the peer and the timers are unrestricted. Three requests on
two identifiers force recycling while another request is in flight. The decoder's
bytes have 16 values and its fields one or two bytes, which keeps the header short
enough to be cut everywhere; three frames give one before and one behind the
frame in question, and the frames include each kind of error but the ones that
`validate_frame()` treats alike. Identifier 17 needs two bytes of the message
identifier. Two connections and two `shutdown()` calls are what overlapping
registration, draining and clearing need (`MaxAcceptFailures` bounds the transient
failures). Deadlock
checking is off wherever the system may stop: all calls have returned.

`ServerSeesNoViolation` and `Correlated` are checked for a client that abandons
no request (`Abandonable` and `Timed` are empty) and hence sends no cancellation.
That is not a convenience: the runs below show what happens as soon as it does. A
request on a recycled stream never gets a response in this run, because
`terminal_streams_` forgets no stream and the client refuses it; `Correlated` then
says that the caller gets nothing rather than another's answer. Cancellations that
cross a response are in `server` (any peer) and in `system_liveness` (a deadline):
what is shown is how both ends, the callers and the other handlers come out of it.

Fairness. The executor runs what is ready, so every resumed coroutine eventually
takes its step (weak fairness of each). Started writes complete or fail; closing
a transport ends its pending read; timers expire; `run()` is spawned, which
`write_queue.hpp` requires; handlers of the server return, which its liveness
properties presuppose. A closed end of the wire is seen by the other end once it
has read what is before it. For TCP: `run()` is spawned, the kernel completes an
accept while connections wait, drain handlers end (they are given a deadline for
that), and a timer fires; the network need not answer an attempt. No fairness is assumed of the peer, of the application, or
of `close()` and `shutdown()` being called.

## Runs that show a disagreement

Each checks one statement of a document, a comment or a test that the code does
not satisfy; TLC's counterexample is the scenario. The findings in `PROJECT.json`
quote the statement.

| Run | Statement |
|---|---|
| `system_misrouting` | `docs/identifiers.md`: identifiers are never reused, so that delayed frames are not routed to a later operation |
| `server_drain_response` | test: a drain delivers the response of an in-flight handler |
| `tcp_shutdown` | `tcp_server.hpp`: `shutdown()` drains registered connections until the deadline |

`system_misrouting` returns another request's answer to a caller.
`server_drain_response` shows that the drain waits for the handler but not for
the write of its response. `tcp_shutdown` never returns: an accept that completed
just before `stop()` is still handed to the application, whose registration makes
the loop of `shutdown()` wait for one completion more than there are coroutines.

The models also have the behaviour of the code, against a test or a comment, in
these places, for which no run is kept: an `enqueue()` that waits for space is
overtaken by a later one that fits (`write_queue.hpp:78`); a response
on a recycled stream is refused as a duplicate
(`tests/unit/client_connection_test.cpp:899`), and one that crosses a cancellation
fails the connection (`:988`); a cancellation that crosses its
response closes the server's connection (`tests/unit/server_connection_test.cpp:564`);
a violation leaves handlers uninformed (`:457`); a cancellation is not honoured
while draining (`:654`); a second request on an active stream is not reported
(`:788`); a draining server answers with a status its client does not decode
(`tests/unit/protocol_violation_test.cpp:121`). Three more of the TCP layer: a
`shutdown()` that overlaps another one clears the vector the other still counts,
which then returns early; a connection that is accepted late, after `shutdown()`
has returned, is never drained; and a refused connection is reported as
`connection_timed_out` after the whole timeout, because `operator||` waits for a
success and the exception of the attempt is dropped (`classify_connect_error()`
has a case for it; `tests/unit/tcp_client_test.cpp` accepts either status).

## Proofs

Everything below is proved from the named assumptions of the modules, for every
value of the constants. The temporal theorems follow from an inductive invariant
(`Init => Inv`, `Inv /\ [Next]_vars => Inv'`) and need no fairness. A proof of a
step goes action by action, through lemmas on what each part of the code does.

`StreamIdAllocatorProofs`, for every initiator, maximum and width (from
`AllocatorAssumption`: the maximum is a value of the type, which has more than
two): `AllocatorTypes`, `AllocatorPartition`, `AllocatorFreshGrant`,
`AllocatorExhaustion`. The inductive invariant is the type invariant with
`Partition`; the partition is not inductive without the parity of `next`, which
is one of its conjuncts. The argument rests on `FreshIssue` (a fresh identifier
extends the issued ones by exactly itself, also when it is the last) and
`NothingLeft` (exhaustion means that all were issued). The client's proof uses
these lemmas for its own allocator.

`WriteQueueProofs`, for every set of frames, sizes and limits: `QueuePipeline`,
`QueueDrained` and `QueueImplementsDelivery`. The inductive invariant
`PipelineInv` adds to `Pipeline` what `run()` holds at each place of its loop
(`LoopState`): a frame may be handed over past the buffer only because a waiting
`run()` implies an empty buffer. The refinement needs no mapping beyond the
history variables; a completed write is the abstract delivery because the held
frame is the next undelivered one.

`NoWakeupIsLost` and `QueueTypes` need `WakeupInv`, which adds the bytes, as a ledger
(`Accounts`) rather than as a sum over a set: there
are running totals of the accepted frames, each the previous one plus a frame,
and `queued_bytes_` is the total of all accepted less the total of all taken. It
is extended by an acceptance and drawn from when `run()` resumes with a frame,
which `Pipeline` says is the next one. From it: an empty queue has no bytes, so a
call that is refused in an empty open queue could never fit, and such calls are
refused before the loop. Hence whoever waits finds a frame held; taking the last
one hands its token to a waiting call. `BytesBounded` states the ledger and the
limit as a theorem of their own.

`BytesAreThoseHeld` is `QueueConsistent` itself: `queued_bytes_` is the sum over the set
of frames held. `BytesInv` adds that every frame is accepted once and waits once
(`Once`), without which a set would count too little, and the sum (`Counted`). The sum
is the fold of the community modules; that it does not depend on the order in which
the fold takes the frames (`SizeTakesAny`) is shown on the smallest subset for which
it would, so that adding a frame adds its size and removing one subtracts it.

`LifecycleProofs` holds lemmas on the operators of `Lifecycle`: a terminal
operation is final, an active one finishes with the given result, and a
connection that is shutting down stays so.

`ServerConnectionProofs`, for every set of requests and streams, every queue
limit and every frame of the peer (from `ServerAssumption`): `ServerIsConsistent`,
`ResponsesFollowCompletion`, `QueueStaysOpen`, `ShutdownSettlesAll` and
`DrainAdmitsNothing`. The inductive invariant joins the checked properties with
three facts they need: both loops start together and a drain shows in the
lifecycle (`LoopsAndDrain`), a handler that is sending has completed its
operation (`RepliesFollow`), and the operation of a live handler was activated
and, if something else ended it, the handler was told (`LiveOperations`). The
counter of handlers equals a cardinality, so the invariant also says that the
live handlers are finitely many, however many requests there are.

`ClientConnectionProofs`, likewise (from `ClientAssumption`, whose last conjunct
says that a response's payload decodes or does not): `ClientIsConsistent`,
`FinishedSeen`, `ResultsAgree`, `ClosedHasNoRequests`, `FirstResultStays` and
`NothingAdmitted`. The inductive invariant tells the story of a request by the
state of its operation (`Stories`: phase, stream, channel, timer and entry before
it is activated, while it is active and once it is finished), next to
`Registered`, `StreamOwnership` and the allocator's own invariant. The argument
goes through one relation: every step but those of `start_request()` that take a
stream only settles requests (their operations finish, their entries go, their
streams return), and those start exactly one. Each action is shown to do one or
the other, each part of the invariant to survive both.

`TcpSystemProofs`, for every set of connections, callers and calls of `shutdown()`:
`EachDrainedOnce`, `ShutdownWaitsForDrains` and `ConnectIsHonest`. A drain handler
is in one place, the vector or a coroutine, and was called only by the coroutine
that has it (`OnePlace`). For a call that is alone, the completions received,
buffered and outstanding never exceed what its loop waits for (`Accounted`), so it
cannot return while one is outstanding; every handler it took over is in a coroutine
or was called (`DrainsOfCalls`), so that none was skipped. For `connect()` the invariant is the state
of the race: each operation completes once, and `operator||` ends with the first
success.

`RpcSystemProofs`, for every set of requests, every range of stream identifiers and
every queue limit (from the assumptions of both connections and `SystemAssumption`):
`ResponsesCorrelated` for a client without deadlines that abandons nothing (`Timed`
and `Abandonable` empty), and `ServerMeetsNoViolation` if the bytes of the client also
decode (`DecoderErrors` empty, which `DecodedAsSent` justifies). These are the
constants of the run `system`; `system_misrouting` is why they are needed. The
inductive invariant `SystemInv` is the client's own with the whereabouts of each
request: its frame is on its way at most once and the server has not seen it
(`RequestsInFlight`), its task has the stream the client gave it (`TasksMatch`), a
response on its way is of a request that is over at the server (`RepliesInFlight`).
Recycling is harmless because of `Answered`, `Routes` and `Recycled`: while the client
takes requests, only a response ends one; until it has come, the entry of a
stream is that request's; and two requests of one stream are never both unfinished
at the server. The client's relation of settling and starting does the client's half of each
step.

`CodecProofs`, in three parts.

- *Numbers and headers*, for every number of byte values and all field widths: what
  `write_be` writes of a value that fits, `read_be` reads back (`ReadWrite`), and a
  header decodes to itself (`EncodedHeader`). Shifts are a function that takes one
  byte off at a time, as the code's are, and a value fits a width when as many shifts
  leave nothing; no powers appear.
- *Messages*, for every set of types, identifiers and versions: `RegistryIsConsistent`,
  from `TypeCorrect`, `MapsAreInverse` and `HandlersAreOwn`. `InverseMaps` is inductive
  with the types; it needs both duplicate tests of `register_message()`. `OwnHandler`
  rests on registrations being permanent: what a handler was stored under stays the
  identifier of its type. `HandledStaysHandled` follows: only the type a handler is
  stored for can replace it, and neither its identifier nor the payload changes.
  `MessagesRoundTrip` combines the inverse maps with `ReadWrite`.
  `RequestsReachTheirHandler` adds to the invariant that a request on the wire begins
  with the identifier its sender still has for its type (`WireOwn`).
- *The decoder*, for every set of frames, valid or not, and every way to cut their bytes
  into reads: `DecoderTypeCorrect`, `DecodedAsSent` and `DecoderWithholdsNothing`. The
  inductive invariant `DecoderInv` says where in the stream the decoder is: the bytes it
  holds, those its running `push()` has left and those not yet read are together
  the bytes of the frames not yet returned (`Position`), and it is inside a header or
  has the valid header of the next frame and is inside its payload (`Assembling`). As
  both sides of that equation begin with a header of one length, the assembled header
  is the one sent (`JoinCut`), and likewise the payload. `Offset` in `NothingWithheld`
  is the difference of what is behind two frames.

Facts about every number or every finite set are proved from a least
counterexample (`LeastNumber`, `SmallestSubset`), with the set of counterexamples as a
set: the library's induction rules take a predicate as a parameter and cannot be used.

Only model-checked: liveness (`EnqueueReturns`, `RunReturns`, `CallerReturns`,
`ClosePropagates`, `EstablishedSettles`, `ShutdownReturnsUnlessJoined`,
`ConnectReturns`), since fairness is out of the prover's reach. Every safety property
that a passing run checks is a theorem.

## Not modelled, and why

- `TcpTransport` beyond what a connection sees of it: partial writes are
  `async_write()`'s, and a socket's options and addresses are data.
- Codecs other than `PodCodec`, of which the connections see only that a message
  may fail to encode or decode.
- Diagnostics other than `connection_closed` and `protocol_error`, messages of results, identifier
  and version types: data without influence on control.
- A second `async_wait()` on one handle (it waits for ever if the first one got a
  response), and a handle destroyed while its `async_wait()` is suspended.
- Exceptions thrown by the allocation of memory or by diagnostics callbacks.

## Plan

Done: allocator, write queue with its abstract specification, both connections
and their composition with liveness, frame codec and decoder, message registry,
TCP server and client; proofs of all their safety properties. Left:

1. `RequestContract`: an abstract request that is resolved exactly once, refined
   by `ClientConnection`; a refinement of the connections' reduced queue by
   `WriteQueue`.
2. Handles used more than once.
