--------------------------- MODULE ServerConnection ---------------------------
(***************************************************************************)
(* One server connection: include/rillnet/server_connection.hpp.  The read *)
(* loop that dispatches requests, one coroutine per handler, the write     *)
(* loop, cancellation, and shutdown.                                       *)
(*                                                                         *)
(* Everything runs on one executor, so the code between two suspension     *)
(* points is one action.  The peer may send any frame the decoder lets     *)
(* through; a request frame's payload is the task it asks for.  The write  *)
(* queue is reduced as in ClientConnection.tla.                            *)
(***************************************************************************)
EXTENDS Integers, Sequences, FiniteSets, Lifecycle, Protocol

CONSTANTS
    Tasks,        \* requests a peer may send to a registered handler, each once
    Undecodable,  \* those whose payload decode_message() may reject
    Oversized,    \* those whose response may exceed the queue's max_bytes
    NoTask,       \* no entry in operations_
    MaxStream,    \* streams used by the peer are 1 .. MaxStream
    MaxFrames,    \* WriteQueueLimits::max_frames
    PeerFrames,   \* frames an arbitrary peer may send
    DecoderErrors \* statuses of the decoding errors its bytes may contain

ASSUME ServerAssumption ==
    /\ Undecodable \subseteq Tasks
    /\ Oversized \subseteq Tasks
    /\ NoTask \notin Tasks
    /\ MaxStream \in Nat \ {0}
    /\ MaxFrames \in Nat \ {0}
    /\ \A f \in PeerFrames : f.stream \in 1 .. MaxStream
    /\ DecoderErrors \subseteq {"unsupported_version", "malformed_frame"}

VARIABLES
    operations,        \* operations_, NoTask where there is no entry
    task,              \* the Operation and the run_handler() coroutine of each request
    active_handlers,   \* active_handlers_
    terminal_streams,  \* terminal_streams_
    queue,             \* frames accepted by write_queue_ and not yet written
    queue_closed,      \* write_queue_ is closed
    state,             \* lifecycle_
    transport,         \* transport_->is_open()
    reader,            \* where read_loop() is; reading_ is reader # "ended"
    writer,            \* where write_queue_.run() is
    drain,             \* shutdown(): not called, waiting, or done by some call
    closed_notified,   \* closed_notified_
    protocol_errors,   \* protocol_error was reported
    refusal            \* how dispatch() or the decoder closed the transport, if it did

taskVars == <<operations, task, active_handlers>>
queueVars == <<queue, queue_closed>>
connVars == <<state, transport, reader, writer, drain, closed_notified, protocol_errors, refusal>>
vars == <<taskVars, terminal_streams, queueVars, connVars>>

Streams == 1 .. MaxStream

\* What one request goes through: not received, run_handler() spawned, the application's
\* handler running, its response waiting for space in the queue, run_handler() returned.
Phases == {"none", "spawned", "running", "sending", "done"}

NewTask == [phase |-> "none", stream |-> 0, operation |-> NewOperation, reply |-> "none"]

NoOperations == [s \in Streams |-> NoTask]

Init ==
    /\ operations = NoOperations
    /\ task = [t \in Tasks |-> NewTask]
    /\ active_handlers = 0
    /\ terminal_streams = {}
    /\ queue = <<>>
    /\ queue_closed = FALSE
    /\ state = "created"
    /\ transport = TRUE
    /\ reader = "idle"
    /\ writer = "idle"
    /\ drain = "none"
    /\ closed_notified = FALSE
    /\ protocol_errors = FALSE
    /\ refusal = "none"

-----------------------------------------------------------------------------
(* The write queue, as the connection uses it *)

\* run() holds one frame and buffers max_frames; the bytes of any frame may use up max_bytes.
MayAccept == ~queue_closed /\ Len(queue) <= MaxFrames
MayRefuse == queue_closed \/ queue # <<>>

\* send_operation_error(): a refused error frame is dropped.
SendOperationError(stream, status) ==
    \/ MayAccept /\ queue' = Append(queue, make_error_frame(stream, status))
    \/ MayRefuse /\ UNCHANGED queue

-----------------------------------------------------------------------------
(* run_handler() *)

\* Mutant: the queue closes as soon as reading ends.
CloseQueueWhenIdle_IgnoresHandlers(ended, handlers) == queue_closed' = (queue_closed \/ ended)

\* Mutant: nobody closes the queue after the last handler.
CloseQueueWhenIdle_Never(ended, handlers) ==
    queue_closed' = (queue_closed \/ (ended /\ reader # "ended" /\ handlers = 0))

\* close_queue_when_idle(), after the caller's updates of reading_ and active_handlers_.
CloseQueueWhenIdle(ended, handlers) == queue_closed' = (queue_closed \/ (ended /\ handlers = 0))

\* Mutant: the entry of a finished handler stays in operations_.
HandlerDone_KeepsEntry(t, q) ==
    /\ task' = [task EXCEPT ![t] = [q EXCEPT !.phase = "done"]]
    /\ active_handlers' = active_handlers - 1
    /\ CloseQueueWhenIdle(reader = "ended", active_handlers - 1)
    /\ UNCHANGED <<operations, terminal_streams, connVars>>

\* The end of run_handler(): q is the task as the handler leaves it.
HandlerDone(t, q) ==
    /\ task' = [task EXCEPT ![t] = [q EXCEPT !.phase = "done"]]
    /\ operations' = [operations EXCEPT ![q.stream] = NoTask]
    /\ active_handlers' = active_handlers - 1
    /\ CloseQueueWhenIdle(reader = "ended", active_handlers - 1)
    /\ UNCHANGED <<terminal_streams, connVars>>

\* run_handler() starts and the request decodes: the application's handler runs.
HandlerStarts(t) ==
    /\ task[t].phase = "spawned"
    /\ task' = [task EXCEPT ![t].phase = "running"]
    /\ UNCHANGED <<operations, active_handlers, terminal_streams, queueVars, connVars>>

\* run_handler() starts and the request does not decode: the error frame is sent even if
\* the operation was cancelled before the coroutine got to run.
HandlerRejects(t) ==
    LET q == [task[t] EXCEPT !.operation = fail(@, "decode_error")]
    IN  /\ q.phase = "spawned"
        /\ t \in Undecodable
        /\ \/ /\ MayAccept
              /\ queue' = Append(queue, make_error_frame(q.stream, "decode_error"))
              /\ HandlerDone(t, [q EXCEPT !.reply = "error"])
           \/ /\ MayRefuse
              /\ UNCHANGED queue
              /\ HandlerDone(t, q)

\* The handler throws, or its response does not encode: no reply, no result.
HandlerFails(t) ==
    /\ task[t].phase = "running"
    /\ HandlerDone(t, task[t])
    /\ UNCHANGED queue

\* The handler returns but its operation was cancelled or failed meanwhile: no reply.
HandlerReturnsLate(t) ==
    /\ task[t].phase = "running"
    /\ ~CanFinish(task[t].operation)
    /\ HandlerDone(t, task[t])
    /\ UNCHANGED queue

\* Mutant: the response is sent without completing the operation.
Responded_NotCompleted(q) == [q EXCEPT !.reply = "response"]

Responded(q) == [q EXCEPT !.operation = complete(@), !.reply = "response"]

\* Mutant: the response is sent although the operation was cancelled meanwhile.
HandlerReturns_IgnoresOperation(t) ==
    LET q == task[t]
    IN  /\ q.phase = "running"
        /\ \/ /\ MayAccept
              /\ queue' = Append(queue, ResponseFrame(q.stream, t))
              /\ HandlerDone(t, Responded(q))
           \/ /\ queue_closed
              /\ UNCHANGED queue
              /\ HandlerDone(t, [q EXCEPT !.operation = complete(@)])

\* The handler returns and its response is encoded: the operation completes and the
\* response is accepted, or waits for space, or is refused by a queue that is closed or too
\* small for it.
HandlerReturns(t) ==
    LET q == task[t]
    IN  /\ q.phase = "running"
        /\ CanFinish(q.operation)
        /\ \/ /\ MayAccept
              /\ queue' = Append(queue, ResponseFrame(q.stream, t))
              /\ HandlerDone(t, Responded(q))
           \/ /\ MayRefuse /\ ~queue_closed
              /\ task' = [task EXCEPT ![t] = [q EXCEPT !.operation = complete(@),
                                                       !.phase = "sending"]]
              /\ UNCHANGED <<operations, active_handlers, terminal_streams, queueVars, connVars>>
           \/ /\ queue_closed \/ t \in Oversized
              /\ UNCHANGED queue
              /\ HandlerDone(t, [q EXCEPT !.operation = complete(@)])

\* The enqueue() of a response resumes with space, or on the closed queue.
ResponseAccepted(t) ==
    /\ task[t].phase = "sending"
    /\ MayAccept
    /\ queue' = Append(queue, ResponseFrame(task[t].stream, t))
    /\ HandlerDone(t, [task[t] EXCEPT !.reply = "response"])

ResponseRefused(t) ==
    /\ task[t].phase = "sending"
    /\ queue_closed
    /\ UNCHANGED queue
    /\ HandlerDone(t, task[t])

-----------------------------------------------------------------------------
(* read_loop() *)

\* Mutant: the operations fail but their handlers are not told.
FailOperations_NoCancellation(tasks) ==
    [t \in Tasks |->
        IF \E s \in Streams : operations[s] = t
        THEN [tasks[t] EXCEPT !.operation = fail(@, "connection_closed")]
        ELSE tasks[t]]

\* fail_operations_on_connection_close()
FailOperations(tasks) ==
    [t \in Tasks |->
        IF \E s \in Streams : operations[s] = t
        THEN [tasks[t] EXCEPT !.operation = fail(request_cancellation(@), "connection_closed")]
        ELSE tasks[t]]

\* The statements after the loop, for the number of handlers it leaves behind.
EndReading(handlers) ==
    /\ reader' = "ended"
    /\ CloseQueueWhenIdle(TRUE, handlers)
    /\ state' = Transition(state, "closed")
    /\ closed_notified' = TRUE

\* The loop reads on after a frame, or ends if the transport was closed while the read
\* that delivered the frame was completing; an error the decoder met after the frame is
\* then reported too.
Continue(handlers) ==
    \/ transport /\ UNCHANGED <<queue_closed, connVars>>
    \/ ~transport /\ EndReading(handlers)
                  /\ UNCHANGED <<transport, writer, drain>>
                  /\ \/ UNCHANGED <<protocol_errors, refusal>>
                     \/ \E status \in DecoderErrors : protocol_errors' = TRUE /\ refusal' = status

\* mark_terminal()
MarkTerminal(f) ==
    terminal_streams' = IF f.end THEN terminal_streams \cup {f.stream} ELSE terminal_streams

\* The transport is closed by the loop itself, which then ends.
CloseOn(status, reported) ==
    /\ transport' = FALSE
    /\ refusal' = status
    /\ protocol_errors' = (protocol_errors \/ reported)
    /\ EndReading(active_handlers)
    /\ UNCHANGED <<taskVars, terminal_streams, queue, writer, drain>>

\* While draining or later every frame is answered with an error, whatever it is.
DispatchDraining(f) ==
    /\ ShuttingDown(state)
    /\ SendOperationError(f.stream, "connection_closed")
    /\ MarkTerminal(f)
    /\ Continue(active_handlers)
    /\ UNCHANGED taskVars

\* The statuses dispatch() fails the connection with, in the order of its tests.
Verdict(f) ==
    IF f.type # "request" \/ f.stream \in terminal_streams THEN "malformed_frame"
    ELSE IF f.flag = "cancel" /\ operations[f.stream] = NoTask THEN "unknown_stream"
    ELSE "none"

DispatchViolation(f) ==
    /\ ~ShuttingDown(state)
    /\ Verdict(f) # "none"
    /\ CloseOn(Verdict(f), TRUE)

DispatchCancel(f) ==
    /\ ~ShuttingDown(state)
    /\ Verdict(f) = "none"
    /\ f.flag = "cancel"
    /\ task' = [task EXCEPT ![operations[f.stream]].operation = cancel(@)]
    /\ MarkTerminal(f)
    /\ Continue(active_handlers)
    /\ UNCHANGED <<operations, active_handlers, queue>>

\* The payload names no message type, or one without a handler.
DispatchUnhandled(f) ==
    /\ ~ShuttingDown(state)
    /\ Verdict(f) = "none"
    /\ f.flag # "cancel"
    /\ \/ f.payload = "empty" /\ SendOperationError(f.stream, "decode_error")
       \/ f.payload = "unregistered" /\ SendOperationError(f.stream, "unknown_message_type")
    /\ MarkTerminal(f)
    /\ Continue(active_handlers)
    /\ UNCHANGED taskVars

\* A request on a stream that is already active: the transport is closed and nothing
\* is reported, unless the decoder met an error after the frame.
DispatchDuplicate(f) ==
    /\ ~ShuttingDown(state)
    /\ Verdict(f) = "none"
    /\ f.flag # "cancel"
    /\ f.payload \in Tasks
    /\ operations[f.stream] # NoTask
    /\ \/ CloseOn("duplicate_stream", FALSE)
       \/ DecoderErrors # {} /\ CloseOn("duplicate_stream", TRUE)

\* A request for a registered handler: run_handler() is spawned.
DispatchRequest(f) ==
    /\ ~ShuttingDown(state)
    /\ Verdict(f) = "none"
    /\ f.flag # "cancel"
    /\ f.payload \in Tasks
    /\ task[f.payload].phase = "none"
    /\ operations[f.stream] = NoTask
    /\ task' = [task EXCEPT ![f.payload].phase = "spawned", ![f.payload].stream = f.stream,
                            ![f.payload].operation = activate(NewOperation)]
    /\ operations' = [operations EXCEPT ![f.stream] = f.payload]
    /\ active_handlers' = active_handlers + 1
    /\ Continue(active_handlers + 1)
    /\ UNCHANGED <<terminal_streams, queue>>

\* One frame of a completed read.
Dispatch(f) ==
    /\ reader = "reading"
    /\ \/ DispatchDraining(f) \/ DispatchViolation(f) \/ DispatchCancel(f)
       \/ DispatchUnhandled(f) \/ DispatchDuplicate(f) \/ DispatchRequest(f)

\* The decoder rejects the bytes it was given.
ReadGarbage ==
    /\ reader = "reading"
    /\ \E status \in DecoderErrors : CloseOn(status, TRUE)

\* The read fails because the transport was closed, or the peer is gone and the transport
\* closes itself: the connection is lost and its operations fail.
ReadLost(peer_closed) ==
    /\ reader = "reading"
    /\ peer_closed \/ ~transport
    /\ transport' = FALSE
    /\ task' = FailOperations(task)
    /\ EndReading(active_handlers)
    /\ UNCHANGED <<operations, active_handlers, terminal_streams, queue, writer, drain,
                   protocol_errors, refusal>>

\* The peer has finished sending and the transport stays open: handlers keep running.
ReadFinished ==
    /\ reader = "reading"
    /\ transport
    /\ EndReading(active_handlers)
    /\ UNCHANGED <<taskVars, terminal_streams, queue, transport, writer, drain, protocol_errors,
                   refusal>>

-----------------------------------------------------------------------------
(* write_queue_.run(), run() and shutdown() *)

\* The frame at the head of the queue is written.
WriteDone ==
    /\ writer = "running"
    /\ queue # <<>>
    /\ transport
    /\ queue' = Tail(queue)
    /\ UNCHANGED <<taskVars, terminal_streams, queue_closed, connVars>>

\* A write fails: the queue discards its frames and closes, and so does the transport.
WriteFails ==
    /\ writer = "running"
    /\ queue # <<>>
    /\ writer' = "failed"
    /\ queue' = <<>>
    /\ queue_closed' = TRUE
    /\ transport' = FALSE
    /\ UNCHANGED <<taskVars, terminal_streams, state, reader, drain, closed_notified,
                   protocol_errors, refusal>>

WriterStops ==
    /\ writer = "running"
    /\ queue = <<>>
    /\ queue_closed
    /\ writer' = "stopped"
    /\ UNCHANGED <<taskVars, terminal_streams, queueVars, state, transport, reader, drain,
                   closed_notified, protocol_errors, refusal>>

\* run(): activates the connection unless shutdown() came first, and starts both loops.
Run ==
    /\ reader = "idle"
    /\ state' = IF state = "created"
                THEN Transition(Transition(state, "accepting"), "active") ELSE state
    /\ reader' = "reading"
    /\ writer' = "running"
    /\ UNCHANGED <<taskVars, terminal_streams, queueVars, transport, drain, closed_notified,
                   protocol_errors, refusal>>

\* The part of shutdown() after its loop.
FinishShutdown(draining) ==
    /\ task' = IF active_handlers # 0 THEN FailOperations(task) ELSE task
    /\ transport' = FALSE
    /\ state' = Transition(draining, "closed")
    /\ closed_notified' = TRUE
    /\ drain' = "done"

\* shutdown() up to its first suspension.  It may be called again at any time: the calls
\* share their effects, so that one still waiting when another is done ends like a new call.
Shutdown ==
    /\ \/ FinishShutdown(BeginShutdown(state, "accepting"))
       \/ /\ active_handlers # 0
          /\ state' = BeginShutdown(state, "accepting")
          /\ drain' = IF drain = "done" THEN "done" ELSE "draining"
          /\ UNCHANGED <<task, transport, closed_notified>>
    /\ UNCHANGED <<operations, active_handlers, terminal_streams, queueVars, reader, writer,
                   protocol_errors, refusal>>

\* shutdown() finds no handler active any more, or its drain period over.
DrainEnds ==
    /\ drain = "draining"
    /\ FinishShutdown(state)
    /\ UNCHANGED <<operations, active_handlers, terminal_streams, queueVars, reader, writer,
                   protocol_errors, refusal>>

-----------------------------------------------------------------------------
HandlerStep(t) ==
    \/ HandlerStarts(t) \/ HandlerRejects(t) \/ HandlerFails(t) \/ HandlerReturnsLate(t)
    \/ HandlerReturns(t) \/ ResponseAccepted(t) \/ ResponseRefused(t)

PeerStep ==
    \/ \E f \in PeerFrames : Dispatch(f)
    \/ ReadGarbage \/ ReadLost(TRUE) \/ ReadFinished

ConnectionStep ==
    \/ WriteDone \/ WriteFails \/ WriterStops \/ Run \/ Shutdown \/ DrainEnds

Next == PeerStep \/ ConnectionStep \/ \E t \in Tasks : HandlerStep(t)

Spec == Init /\ [][Next]_vars

\* The executor runs what is ready, run() is spawned, writes complete or fail, closing the
\* transport ends the pending read, time passes, and handlers return.
Fairness ==
    /\ WF_vars(Run)
    /\ WF_vars(WriteDone \/ WriteFails)
    /\ WF_vars(WriterStops)
    /\ WF_vars(ReadLost(FALSE))
    /\ WF_vars(DrainEnds)
    /\ \A t \in Tasks : WF_vars(HandlerStep(t))

FairSpec == Spec /\ Fairness

-----------------------------------------------------------------------------
(* Properties *)

\* Type invariant.
TypeOK ==
    /\ operations \in [Streams -> Tasks \cup {NoTask}]
    /\ active_handlers \in Nat
    /\ terminal_streams \subseteq Streams
    /\ Len(queue) <= MaxFrames + 1
    /\ queue_closed \in BOOLEAN
    /\ state \in ConnectionStates
    /\ transport \in BOOLEAN
    /\ reader \in {"idle", "reading", "ended"}
    /\ writer \in {"idle", "running", "stopped", "failed"}
    /\ drain \in {"none", "draining", "done"}
    /\ \A t \in Tasks :
        /\ task[t].phase \in Phases
        /\ task[t].stream \in Streams \cup {0}
        /\ task[t].operation.state \in OperationStates
        /\ task[t].reply \in {"none", "response", "error"}

\* A handler coroutine exists: spawned and not yet returned.
Live(t) == task[t].phase \in {"spawned", "running", "sending"}

\* operations_ and active_handlers_ describe exactly the live handlers, one per stream,
\* so a cancellation reaches the handler of its own request and no other.
OperationsMatch ==
    /\ \A t \in Tasks : Live(t) <=> task[t].stream # 0 /\ operations[task[t].stream] = t
    /\ \A s \in Streams : operations[s] # NoTask => task[operations[s]].stream = s
    /\ active_handlers = Cardinality({t \in Tasks : Live(t)})

\* The tables and the counter of the connection agree with its handlers.
ServerConsistent == TypeOK /\ OperationsMatch

\* A response is sent only for an operation that completed, and every other way an
\* operation ends, a cancellation or the loss of the connection while the handler runs,
\* suppresses it.
ResponseOnlyIfCompleted ==
    \A t \in Tasks : task[t].reply = "response" => task[t].operation.state = "completed"

\* The queue stays open for the responses of live handlers, also after the peer has
\* stopped sending; only a failed write closes it under them.
QueueOpenForHandlers ==
    queue_closed /\ writer # "failed" => reader = "ended" /\ active_handlers = 0

\* README "Graceful Shutdown": when shutdown() returns every handler still running has
\* been told, and its operation is finished.
ShutdownSettles ==
    drain = "done" =>
        \A t \in Tasks : Live(t) =>
            \/ task[t].operation.state = "completed"
            \/ is_terminal(task[t].operation) /\ task[t].operation.cancellation_requested

\* Once shutdown() was called, before run() or after it, no frame of a peer starts a
\* handler any more.
DrainStartsNothing == [][drain # "none" => active_handlers' <= active_handlers]_vars

\* Once reading has ended and handlers return, run() returns: the queue is closed by
\* whoever is last and drained, or the write fails.
RunReturns == reader = "ended" ~> writer \in {"stopped", "failed"}

\* tests/unit/server_connection_test.cpp:661 GracefulShutdownWaitsForAnInFlightHandlerAnd-
\* DeliversItsResponse: a drain that outlasts the handlers does not close the transport
\* on a response that is still queued.
DrainDelivers ==
    [][drain = "draining" /\ drain' = "done" /\ active_handlers = 0
        => \A i \in DOMAIN queue : queue[i].flag = "error"]_vars
=============================================================================
