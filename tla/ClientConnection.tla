--------------------------- MODULE ClientConnection ---------------------------
(***************************************************************************)
(* One client connection: include/rillnet/client_connection.hpp.  Requests *)
(* started by the application, their handles and deadline timers, the read *)
(* loop that routes responses, the write loop, and shutdown.               *)
(*                                                                         *)
(* Everything runs on one executor, so the code between two suspension     *)
(* points is one action.  The peer is unconstrained: the read loop may     *)
(* receive any frame the decoder lets through.  The write queue is reduced *)
(* to what WriteQueue.tla shows of it: a bounded FIFO that may refuse a    *)
(* frame when full and refuses every frame once closed.                    *)
(***************************************************************************)
EXTENDS Integers, Sequences, FiniteSets, Lifecycle, Protocol

CONSTANTS
    Requests,     \* the start_request() calls of the application
    Timed,        \* those made with a deadline
    Unencodable,  \* those whose message encode_message() rejects
    Oversized,    \* those whose frame may exceed the queue's max_bytes
    Abandonable,  \* those whose handle may be cancelled or destroyed unused
    NoRequest,    \* no entry in pending_
    MaxStream,    \* maximum_stream_id
    MaxFrames,    \* WriteQueueLimits::max_frames
    PeerFrames,   \* frames an arbitrary peer may send
    Replies,      \* the payloads of responses that decode
    DecoderErrors \* statuses of the decoding errors its bytes may contain

ASSUME ClientAssumption ==
    /\ Timed \subseteq Requests
    /\ Unencodable \subseteq Requests
    /\ Oversized \subseteq Requests
    /\ Abandonable \subseteq Requests
    /\ NoRequest \notin Requests
    /\ MaxStream \in Nat
    /\ MaxFrames \in Nat \ {0}
    /\ \A f \in PeerFrames : f.stream \in 1 .. MaxStream + 1
    /\ DecoderErrors \subseteq {"unsupported_version", "malformed_frame"}
    \* A response's payload decodes or it does not; the channel buffers it as it is.
    /\ \A f \in PeerFrames : f.flag = "none" => f.payload \in Replies \cup {"garbage"}
    /\ Replies \cap {"empty", "closed", "garbage"} = {}

VARIABLES
    next, in_use, available,  \* stream_ids_
    pending,                  \* pending_, NoRequest where there is no entry
    request,                  \* the PendingRequest and the handle of each call
    terminal_streams,         \* terminal_streams_
    queue,                    \* frames accepted by write_queue_ and not yet written
    queue_closed,             \* write_queue_ is closed
    state,                    \* lifecycle_
    transport,                \* transport_->is_open()
    reader,                   \* where read_loop() is
    writer,                   \* where write_queue_.run() is
    drain,                    \* shutdown(): not called, waiting, or done by some call
    closed_notified,          \* closed_notified_
    violation                 \* status of the fail_connection() call, if any

allocVars == <<next, in_use, available>>
requestVars == <<pending, request>>
queueVars == <<queue, queue_closed>>
connVars == <<state, transport, reader, writer, drain, closed_notified, violation>>
vars == <<allocVars, requestVars, terminal_streams, queueVars, connVars>>

ids == INSTANCE StreamIdAllocator
           WITH Initiator <- "client", Maximum <- MaxStream, Modulus <- MaxStream + 3

\* Stream identifiers a frame may carry; the decoder rejects 0.
Streams == 1 .. MaxStream + 1

\* What one call of start_request() and its handle go through.
Phases ==
    {"none",       \* not called
     "enqueuing",  \* suspended in write_queue_.enqueue()
     "open",       \* returned a handle
     "waiting",    \* suspended in async_wait()
     "returned",   \* async_wait() returned
     "discarded",  \* the handle was destroyed unused
     "refused",    \* start_request() failed
     "unencoded"}  \* start_request() failed in encode_message()

NewRequest ==
    [phase |-> "none", stream |-> 0, operation |-> NewOperation, channel |-> "empty",
     timer |-> "off", removed |-> FALSE, released |-> FALSE, outcome |-> "none"]

NonePending == [s \in Streams |-> NoRequest]

Init ==
    /\ ids!AllocInit
    /\ pending = NonePending
    /\ request = [r \in Requests |-> NewRequest]
    /\ terminal_streams = {}
    /\ queue = <<>>
    /\ queue_closed = FALSE
    /\ state = "created"
    /\ transport = TRUE
    /\ reader = "idle"
    /\ writer = "idle"
    /\ drain = "none"
    /\ closed_notified = FALSE
    /\ violation = "none"

-----------------------------------------------------------------------------
(* PendingRequest *)

\* channel.close(): a buffered response is still received, so it is kept.
CloseChannel(channel) == IF channel = "empty" THEN "closed" ELSE channel

\* timer.cancel(): an expired timer's handler is already on its way.
CancelTimer(timer) == IF timer = "armed" THEN "off" ELSE timer

\* The first half of cleanup_pending(): at most once per request.
Removed(q) ==
    IF q.removed THEN q ELSE [q EXCEPT !.removed = TRUE, !.timer = CancelTimer(@)]

\* The entry erased by it, if it is still this request's.
WithoutEntry(r, q) ==
    IF ~q.removed /\ pending[q.stream] = r THEN [pending EXCEPT ![q.stream] = NoRequest]
    ELSE pending

\* The second half of cleanup_pending(): the stream is given back at most once.
ReleaseStream(q, release_stream) ==
    IF release_stream /\ ~q.released THEN ids!Release(q.stream) ELSE UNCHANGED allocVars

Cleaned(q, release_stream) == [Removed(q) EXCEPT !.released = @ \/ release_stream]

\* Mutant: the stream identifier is given back whatever release_stream says, twice even.
CleanupPending_AlwaysReleases(r, q, release_stream) ==
    /\ request' = [request EXCEPT ![r] = Cleaned(q, release_stream)]
    /\ pending' = WithoutEntry(r, q)
    /\ ids!Release(q.stream)

\* Mutant: the entry stays in pending_.
CleanupPending_KeepsEntry(r, q, release_stream) ==
    /\ request' = [request EXCEPT ![r] = Cleaned(q, release_stream)]
    /\ pending' = pending
    /\ ReleaseStream(q, release_stream)

\* cleanup_pending(): q is the request's record as the caller has changed it so far.
CleanupPending(r, q, release_stream) ==
    /\ request' = [request EXCEPT ![r] = Cleaned(q, release_stream)]
    /\ pending' = WithoutEntry(r, q)
    /\ ReleaseStream(q, release_stream)

\* Mutant: the loop leaves the channels open.
FailPending_LeavesChannel(requests, entries, status) ==
    [r \in Requests |->
        IF \E s \in Streams : entries[s] = r
        THEN Removed([requests[r] EXCEPT !.operation = fail(@, status)])
        ELSE requests[r]]

\* fail_pending(): every registered request fails and is removed; streams stay taken.
FailPending(requests, entries, status) ==
    [r \in Requests |->
        IF \E s \in Streams : entries[s] = r
        THEN Removed([requests[r] EXCEPT !.operation = fail(@, status),
                                         !.channel = CloseChannel(@)])
        ELSE requests[r]]

-----------------------------------------------------------------------------
(* The write queue, as the connection uses it *)

\* run() holds one frame and buffers max_frames; the bytes of any frame may use up max_bytes.
MayAccept == ~queue_closed /\ Len(queue) <= MaxFrames
MayRefuse == queue_closed \/ queue # <<>>

\* send_cancellation(): a refused cancellation is dropped.
SendCancellation(stream) ==
    \/ MayAccept /\ queue' = Append(queue, CancelFrame(stream))
    \/ MayRefuse /\ UNCHANGED queue

-----------------------------------------------------------------------------
(* start_request() *)

\* A call that fails before it has an operation.
ReturnFailure(r, status) ==
    /\ request' = [request EXCEPT ![r].phase = "refused", ![r].outcome = status]
    /\ UNCHANGED pending

StartRefused(r) ==
    /\ request[r].phase = "none"
    /\ ShuttingDown(state)
    /\ ReturnFailure(r, "connection_closed")
    /\ UNCHANGED <<allocVars, terminal_streams, queueVars, connVars>>

StartExhausted(r) ==
    /\ request[r].phase = "none"
    /\ ~ShuttingDown(state)
    /\ ids!AllocateExhausted
    /\ ReturnFailure(r, "resource_limit_exceeded")
    /\ UNCHANGED <<terminal_streams, queueVars, connVars>>

\* encode_message() fails: the call returns and the stream stays allocated.
StartUnencodable(r) ==
    /\ request[r].phase = "none"
    /\ ~ShuttingDown(state)
    /\ r \in Unencodable
    /\ \E stream \in Streams :
        /\ ids!Allocate(stream)
        /\ request' = [request EXCEPT ![r].phase = "unencoded", ![r].stream = stream,
                                      ![r].outcome = "unknown_message_type"]
    /\ UNCHANGED <<pending, terminal_streams, queueVars, connVars>>

\* The PendingRequest start_request() creates, and its entry in pending_.
Created(r, stream) ==
    [request[r] EXCEPT !.stream = stream, !.operation = activate(NewOperation)]

Emplaced(r, stream) ==
    IF pending[stream] = NoRequest THEN [pending EXCEPT ![stream] = r] ELSE pending

\* What the call becomes once its frame is accepted; the deadline's timer is armed now.
Opened(r, q) == [q EXCEPT !.phase = "open", !.timer = IF r \in Timed THEN "armed" ELSE @]

\* The common case: the request is registered and its frame accepted, or the call
\* waits for space.
StartRequest(r) ==
    /\ request[r].phase = "none"
    /\ ~ShuttingDown(state)
    /\ r \notin Unencodable
    /\ \E stream \in Streams :
        LET q == Created(r, stream)
        IN  /\ ids!Allocate(stream)
            /\ pending' = Emplaced(r, stream)
            /\ \/ /\ MayAccept
                  /\ queue' = Append(queue, RequestFrame(stream, r))
                  /\ request' = [request EXCEPT ![r] = Opened(r, q)]
               \/ /\ MayRefuse /\ ~queue_closed
                  /\ request' = [request EXCEPT ![r] = [q EXCEPT !.phase = "enqueuing"]]
                  /\ UNCHANGED queue
    /\ UNCHANGED <<terminal_streams, queue_closed, connVars>>

\* How start_request() leaves the request when the frame was not accepted.
SendFailed(q) ==
    [q EXCEPT !.operation = fail(@, "resource_limit_exceeded"), !.channel = CloseChannel(@),
              !.phase = "refused", !.outcome = "resource_limit_exceeded"]

\* The queue refuses the frame at once, being closed by a failed write or too small for
\* it, and the stream is given back in the same step.
StartRejected(r) ==
    /\ request[r].phase = "none"
    /\ ~ShuttingDown(state)
    /\ r \notin Unencodable
    /\ queue_closed \/ r \in Oversized
    /\ \E stream \in Streams :
        /\ ids!AllocateThenRelease(stream)
        /\ request' = [request EXCEPT
                         ![r] = [Removed(SendFailed(Created(r, stream))) EXCEPT !.released = TRUE]]
    /\ UNCHANGED <<pending, terminal_streams, queueVars, connVars>>

\* A suspended enqueue() finds space; the application may have lost the request by now.
EnqueueAccepted(r) ==
    /\ request[r].phase = "enqueuing"
    /\ MayAccept
    /\ queue' = Append(queue, RequestFrame(request[r].stream, r))
    /\ request' = [request EXCEPT ![r] = Opened(r, @)]
    /\ UNCHANGED <<allocVars, pending, terminal_streams, queue_closed, connVars>>

\* A suspended enqueue() resumes on the closed queue.
EnqueueRefused(r) ==
    /\ request[r].phase = "enqueuing"
    /\ queue_closed
    /\ CleanupPending(r, SendFailed(request[r]), TRUE)
    /\ UNCHANGED <<terminal_streams, queueVars, connVars>>

-----------------------------------------------------------------------------
(* RequestOperation: the handle *)

async_wait(r) ==
    /\ request[r].phase = "open"
    /\ request' = [request EXCEPT ![r].phase = "waiting"]
    /\ UNCHANGED <<allocVars, pending, terminal_streams, queueVars, connVars>>

\* What async_wait() returns: the decoded response, or the operation's result.
Answer(q) ==
    CASE q.channel = "closed" ->
            IF q.operation.result # "none" THEN q.operation.result ELSE "connection_closed"
      [] q.channel = "garbage" -> "decode_error"
      [] OTHER -> q.channel

WaitReturns(r) ==
    LET q == request[r]
    IN  /\ q.phase = "waiting"
        /\ q.channel # "empty"
        /\ CleanupPending(r, [q EXCEPT !.phase = "returned", !.outcome = Answer(q)], TRUE)
        /\ UNCHANGED <<terminal_streams, queueVars, connVars>>

\* RequestOperation::cancel() by the application while the operation is active.
CancelRequest(r) ==
    LET q == request[r]
    IN  /\ r \in Abandonable
        /\ q.phase \in {"open", "waiting"}
        /\ CanFinish(q.operation)
        /\ SendCancellation(q.stream)
        /\ CleanupPending(r, [q EXCEPT !.operation = cancel(@), !.channel = CloseChannel(@)],
                          FALSE)
        /\ UNCHANGED <<terminal_streams, queue_closed, connVars>>

\* ~RequestOperation(): discard_pending().
Discard(r) ==
    LET q == [request[r] EXCEPT !.phase = "discarded"]
    IN  /\ r \in Abandonable
        /\ request[r].phase = "open"
        /\ \/ /\ ~is_terminal(q.operation)
              /\ SendCancellation(q.stream)
              /\ CleanupPending(r, [q EXCEPT !.operation = cancel(@),
                                             !.channel = CloseChannel(@)], TRUE)
           \/ /\ is_terminal(q.operation)
              /\ CleanupPending(r, q, TRUE)
              /\ UNCHANGED queue
        /\ UNCHANGED <<terminal_streams, queue_closed, connVars>>

\* The deadline passes: the timer's handler is scheduled and can no longer be cancelled.
TimerExpires(r) ==
    /\ request[r].timer = "armed"
    /\ request' = [request EXCEPT ![r].timer = "expired"]
    /\ UNCHANGED <<allocVars, pending, terminal_streams, queueVars, connVars>>

\* The timer's handler runs timeout_pending(), which may find the operation finished.
TimerFires(r) ==
    LET q == [request[r] EXCEPT !.timer = "off"]
    IN  /\ request[r].timer = "expired"
        /\ \/ /\ CanFinish(q.operation)
              /\ SendCancellation(q.stream)
              /\ CleanupPending(r, [q EXCEPT !.operation = timeout(@),
                                             !.channel = CloseChannel(@)], FALSE)
           \/ /\ ~CanFinish(q.operation)
              /\ request' = [request EXCEPT ![r] = q]
              /\ UNCHANGED <<allocVars, pending, queue>>
        /\ UNCHANGED <<terminal_streams, queue_closed, connVars>>

-----------------------------------------------------------------------------
(* read_loop() *)

\* Mutant: the write queue is left open.
EndReading_LeavesQueueOpen ==
    /\ pending' = NonePending
    /\ reader' = "ended"
    /\ queue_closed' = queue_closed
    /\ state' = Transition(state, "closed")
    /\ closed_notified' = TRUE

\* The statements after the loop, except fail_pending().
EndReading ==
    /\ pending' = NonePending
    /\ reader' = "ended"
    /\ queue_closed' = TRUE
    /\ state' = Transition(state, "closed")
    /\ closed_notified' = TRUE

\* fail_connection(), after which the loop ends: the requests already have the
\* violation's status when the final fail_pending() runs.
FailConnection(status) ==
    /\ request' = FailPending(request, pending, status)
    /\ transport' = FALSE
    /\ violation' = status
    /\ EndReading
    /\ UNCHANGED <<allocVars, terminal_streams, queue, writer, drain>>

\* dispatch() has changed request r to q: the loop reads on, or ends if the transport
\* was closed while the read that delivered the frame was completing; an error the decoder
\* met after the frame is then reported too.
Routed(r, q, release_stream) ==
    LET requests == [request EXCEPT ![r] = Cleaned(q, release_stream)]
    IN  /\ ReleaseStream(q, release_stream)
        /\ \/ /\ transport
              /\ request' = requests
              /\ pending' = WithoutEntry(r, q)
              /\ UNCHANGED <<queue_closed, connVars>>
           \/ /\ ~transport
              /\ \E status \in {"connection_closed"} \cup DecoderErrors :
                    /\ request' = FailPending(requests, WithoutEntry(r, q), status)
                    /\ violation' = IF status \in DecoderErrors THEN status ELSE violation
              /\ EndReading
              /\ UNCHANGED <<transport, writer, drain>>

\* mark_terminal()
MarkTerminal(f) ==
    terminal_streams' = IF f.end THEN terminal_streams \cup {f.stream} ELSE terminal_streams

\* The statuses dispatch() fails the connection with, in the order of its tests.
Verdict(f) ==
    IF f.type # "response" THEN "malformed_frame"
    ELSE IF pending[f.stream] = NoRequest THEN "unknown_stream"
    ELSE IF f.stream \in terminal_streams THEN "malformed_frame"
    ELSE IF f.flag = "error" /\ decode_error_status(f.payload) = "none" THEN "malformed_frame"
    ELSE IF f.flag = "none" /\ ~CanFinish(request[pending[f.stream]].operation)
    THEN "malformed_frame"
    ELSE "none"

DispatchViolation(f) == Verdict(f) # "none" /\ FailConnection(Verdict(f))

\* A cancellation by the peer is answered with a cancellation.
DispatchCancel(f) ==
    LET r == pending[f.stream]
        q == request[r]
    IN  /\ Verdict(f) = "none"
        /\ f.flag = "cancel"
        /\ SendCancellation(f.stream)
        /\ Routed(r, [q EXCEPT !.operation = cancel(@), !.channel = CloseChannel(@)], FALSE)
        /\ MarkTerminal(f)

DispatchError(f) ==
    LET r == pending[f.stream]
        q == request[r]
    IN  /\ Verdict(f) = "none"
        /\ f.flag = "error"
        /\ Routed(r, [q EXCEPT !.operation = fail(@, decode_error_status(f.payload)),
                               !.channel = CloseChannel(@)], TRUE)
        /\ MarkTerminal(f)
        /\ UNCHANGED queue

\* Mutant: the response is delivered but the operation is not completed.
DispatchResponse_NoComplete(f) ==
    LET r == pending[f.stream]
        q == request[r]
    IN  /\ Verdict(f) = "none"
        /\ f.flag = "none"
        /\ Routed(r, [q EXCEPT !.channel = f.payload], TRUE)
        /\ MarkTerminal(f)
        /\ UNCHANGED queue

DispatchResponse(f) ==
    LET r == pending[f.stream]
        q == request[r]
    IN  /\ Verdict(f) = "none"
        /\ f.flag = "none"
        /\ Routed(r, [q EXCEPT !.operation = complete(@), !.channel = f.payload], TRUE)
        /\ MarkTerminal(f)
        /\ UNCHANGED queue

\* One frame of a completed read.
Dispatch(f) ==
    /\ reader = "reading"
    /\ \/ DispatchViolation(f)
       \/ DispatchCancel(f)
       \/ DispatchError(f)
       \/ DispatchResponse(f)

\* The decoder rejects the bytes it was given.
ReadGarbage ==
    /\ reader = "reading"
    /\ \E status \in DecoderErrors : FailConnection(status)

\* The loop ends: the transport was closed, or a read failed or met the end of the
\* stream.  TcpTransport closes itself then; other transports may stay open.
ReadEnds(peer_closed, open) ==
    /\ reader = "reading"
    /\ peer_closed \/ ~transport
    /\ transport' = (transport /\ open)
    /\ request' = FailPending(request, pending, "connection_closed")
    /\ EndReading
    /\ UNCHANGED <<allocVars, terminal_streams, queue, writer, drain, violation>>

-----------------------------------------------------------------------------
(* write_queue_.run(), run() and shutdown() *)

\* The frame at the head of the queue is written.
WriteDone ==
    /\ writer = "running"
    /\ queue # <<>>
    /\ transport
    /\ queue' = Tail(queue)
    /\ UNCHANGED <<allocVars, requestVars, terminal_streams, queue_closed, connVars>>

\* A write fails: the queue discards its frames and closes, and so does the transport.
WriteFails ==
    /\ writer = "running"
    /\ queue # <<>>
    /\ writer' = "failed"
    /\ queue' = <<>>
    /\ queue_closed' = TRUE
    /\ transport' = FALSE
    /\ UNCHANGED <<allocVars, requestVars, terminal_streams, state, reader, drain,
                   closed_notified, violation>>

WriterStops ==
    /\ writer = "running"
    /\ queue = <<>>
    /\ queue_closed
    /\ writer' = "stopped"
    /\ UNCHANGED <<allocVars, requestVars, terminal_streams, queueVars, state, transport, reader,
                   drain, closed_notified, violation>>

\* run(): activates the connection unless shutdown() came first, and starts both loops.
Run ==
    /\ reader = "idle"
    /\ state' = IF state = "created"
                THEN Transition(Transition(state, "connecting"), "active") ELSE state
    /\ reader' = "reading"
    /\ writer' = "running"
    /\ UNCHANGED <<allocVars, requestVars, terminal_streams, queueVars, transport, drain,
                   closed_notified, violation>>

\* Mutant: shutdown() closes the transport without failing what is still pending.
FinishShutdown_ForgetsPending(draining) ==
    /\ transport' = FALSE
    /\ state' = Transition(draining, "closed")
    /\ closed_notified' = TRUE
    /\ drain' = "done"
    /\ UNCHANGED requestVars

\* The part of shutdown() after its loop.
FinishShutdown(draining) ==
    /\ request' = FailPending(request, pending, "connection_closed")
    /\ pending' = NonePending
    /\ transport' = FALSE
    /\ state' = Transition(draining, "closed")
    /\ closed_notified' = TRUE
    /\ drain' = "done"

\* shutdown() up to its first suspension: it returns at once when nothing is pending or
\* the drain period is over.  It may be called again at any time: the calls share their
\* effects, so that one still waiting when another is done ends like a new call.
Shutdown ==
    /\ \/ FinishShutdown(BeginShutdown(state, "connecting"))
       \/ /\ pending # NonePending
          /\ state' = BeginShutdown(state, "connecting")
          /\ drain' = IF drain = "done" THEN "done" ELSE "draining"
          /\ UNCHANGED <<requestVars, transport, closed_notified>>
    /\ UNCHANGED <<allocVars, terminal_streams, queueVars, reader, writer, violation>>

\* shutdown() finds nothing pending any more, or its drain period over.
DrainEnds ==
    /\ drain = "draining"
    /\ FinishShutdown(state)
    /\ UNCHANGED <<allocVars, terminal_streams, queueVars, reader, writer, violation>>

-----------------------------------------------------------------------------
(* The connection with its application and an arbitrary peer *)

\* Steps of the application.
ApplicationStep(r) ==
    \/ StartRefused(r) \/ StartExhausted(r) \/ StartUnencodable(r) \/ StartRequest(r)
    \/ StartRejected(r)
    \/ async_wait(r) \/ CancelRequest(r) \/ Discard(r)

\* Steps the executor takes for a request once they are ready.
RequestStep(r) ==
    \/ EnqueueAccepted(r) \/ EnqueueRefused(r) \/ WaitReturns(r)
    \/ TimerExpires(r) \/ TimerFires(r)

PeerStep ==
    \/ \E f \in PeerFrames : Dispatch(f)
    \/ ReadGarbage
    \/ \E open \in BOOLEAN : ReadEnds(TRUE, open)

ConnectionStep ==
    \/ WriteDone \/ WriteFails \/ WriterStops \/ Run \/ Shutdown \/ DrainEnds

Next ==
    \/ PeerStep \/ ConnectionStep
    \/ \E r \in Requests : ApplicationStep(r) \/ RequestStep(r)

Spec == Init /\ [][Next]_vars

\* The executor runs what is ready, run() is spawned, started writes complete or fail,
\* closing the transport ends the pending read, and time passes.
Fairness ==
    /\ WF_vars(Run)
    /\ WF_vars(WriteDone \/ WriteFails)
    /\ WF_vars(WriterStops)
    /\ WF_vars(ReadEnds(FALSE, FALSE))
    /\ WF_vars(DrainEnds)
    /\ \A r \in Requests :
        /\ WF_vars(EnqueueAccepted(r) \/ EnqueueRefused(r))
        /\ WF_vars(WaitReturns(r))
        /\ WF_vars(TimerExpires(r))
        /\ WF_vars(TimerFires(r))

-----------------------------------------------------------------------------
(* Properties *)

Operations ==
    [state : OperationStates, result : StatusCodes \cup {"none"},
     cancellation_requested : BOOLEAN, reports : Nat]

\* Type invariant.
TypeOK ==
    /\ ids!AllocTypeOK
    /\ pending \in [Streams -> Requests \cup {NoRequest}]
    /\ terminal_streams \subseteq Streams
    /\ queue_closed \in BOOLEAN
    /\ Len(queue) <= MaxFrames + 1
    /\ state \in ConnectionStates
    /\ transport \in BOOLEAN
    /\ reader \in {"idle", "reading", "ended"}
    /\ writer \in {"idle", "running", "stopped", "failed"}
    /\ drain \in {"none", "draining", "done"}
    /\ violation \in ProtocolStatuses \cup {"none"}
    /\ \A r \in Requests :
        /\ request[r].phase \in Phases
        /\ request[r].stream \in Streams \cup {0}
        /\ request[r].operation \in Operations
        /\ request[r].timer \in {"off", "armed", "expired"}

Active(r) == request[r].operation.state = "active"

\* The read loop, the timers and the handles reach the same operations: a request is
\* active exactly while pending_ maps its stream to it, through reuse of the stream.
Registered ==
    /\ \A r \in Requests :
        Active(r) <=> request[r].stream # 0 /\ pending[request[r].stream] = r
    /\ \A s \in Streams : pending[s] # NoRequest => request[pending[s]].stream = s

Holds(r) == request[r].stream # 0 /\ ~request[r].released

\* Each stream identifier in use is held by exactly one request, and an active request
\* never gives its stream back.
StreamOwnership ==
    /\ in_use = {request[r].stream : r \in {x \in Requests : Holds(x)}}
    /\ \A r1, r2 \in Requests :
        Holds(r1) /\ Holds(r2) /\ request[r1].stream = request[r2].stream => r1 = r2
    /\ \A r \in Requests : Active(r) => Holds(r)

\* Operations, their entries in pending_ and the identifiers of the allocator tell the
\* same story, whatever order requests, frames, timers and failures come in.
ClientConsistent == TypeOK /\ Registered /\ StreamOwnership

\* async_wait() returns a response exactly when the operation completed, else the
\* result the operation was given by whoever finished it first.
ResultAgrees ==
    \A r \in Requests : request[r].phase = "returned" =>
        /\ is_terminal(request[r].operation)
        /\ IF request[r].operation.state = "completed"
           THEN request[r].outcome \in Replies \cup {"decode_error"}
           ELSE request[r].outcome = request[r].operation.result

\* A handle never blocks on a finished operation: whoever finishes it also fills or
\* closes the channel async_wait() receives from.
FinishedIsVisible ==
    \A r \in Requests :
        is_terminal(request[r].operation) /\ request[r].phase # "returned"
            => request[r].channel # "empty"

\* client_connection.hpp:234: no request survives the connection: once it is closed, by
\* the read loop or by shutdown(), none is active.
ClosedSettles == state = "closed" => \A r \in Requests : ~Active(r)

\* A finished operation keeps its first result and reports it once: a deadline, a
\* cancellation, a late frame or a failed send cannot change it.
TerminalStable ==
    [][\A r \in Requests :
        is_terminal(request[r].operation) => request'[r].operation = request[r].operation]_vars

\* Once shutdown() has been called, also on a connection that was never run, or the
\* connection has closed, no request gets a stream any more.
ShutdownAdmitsNothing ==
    [][drain # "none" \/ state = "closed" => in_use' \subseteq in_use]_vars
=============================================================================
