------------------------ MODULE ServerConnectionProofs ------------------------
(***************************************************************************)
(* The server connection keeps its tables, its queue and its promises for  *)
(* any number of requests and streams, any limit of the write queue and    *)
(* any frames a peer may send.                                             *)
(***************************************************************************)
EXTENDS ServerConnection, LifecycleProofs, FiniteSetTheorems

-----------------------------------------------------------------------------
(* The inductive invariant *)

TaskRecords ==
    [phase : Phases, stream : Streams \cup {0}, operation : OperationRecords,
     reply : {"none", "response", "error"}]

\* What the server puts into its queue.
WrittenFrames ==
    [type : {"response"}, flag : {"none", "error"}, stream : Streams \cup {0}, end : BOOLEAN,
     payload : Tasks \cup StatusCodes]

\* The types, with those of the records and frames that TypeOK leaves open, and without
\* the states a connection passes through but never rests in.
Typed ==
    /\ operations \in [Streams -> Tasks \cup {NoTask}]
    /\ task \in [Tasks -> TaskRecords]
    /\ active_handlers \in Nat
    /\ terminal_streams \subseteq Streams
    /\ queue \in Seq(WrittenFrames)
    /\ Len(queue) <= MaxFrames + 1
    /\ queue_closed \in BOOLEAN
    /\ state \in ConnectionStates \ {"connecting", "accepting"}
    /\ transport \in BOOLEAN
    /\ reader \in {"idle", "reading", "ended"}
    /\ writer \in {"idle", "running", "stopped", "failed"}
    /\ drain \in {"none", "draining", "done"}

LiveTasks == {t \in Tasks : Live(t)}

\* Both loops are started by the one run(); shutdown() shows in the lifecycle at once, and
\* when it is done the connection is closed.
LoopsAndDrain ==
    /\ reader = "idle" <=> writer = "idle"
    /\ drain # "none" => ShuttingDown(state)
    /\ drain = "done" => state = "closed"

\* A response follows the completion of its operation: it waits or was sent.
RepliesFollow ==
    \A t \in Tasks :
        /\ task[t].phase = "sending" => task[t].operation.state = "completed"
        /\ task[t].reply = "response" =>
               task[t].phase = "done" /\ task[t].operation.state = "completed"

\* The operation of a live handler was activated, and if it ended before the handler did,
\* the handler was told, unless it is the handler that completed it.
LiveOperations ==
    \A t \in LiveTasks :
        /\ task[t].operation.state # "created"
        /\ task[t].operation.state \in {"failed", "cancelled"} =>
               task[t].operation.cancellation_requested

\* After shutdown() no live handler has an active operation.
DoneSettles == drain = "done" => \A t \in LiveTasks : is_terminal(task[t].operation)

IInv ==
    /\ Typed
    /\ OperationsMatch
    /\ IsFiniteSet(LiveTasks)
    /\ LoopsAndDrain
    /\ RepliesFollow
    /\ LiveOperations
    /\ QueueOpenForHandlers
    /\ DoneSettles

-----------------------------------------------------------------------------
(* What the steps do, by the part of the state they are about *)

\* Every step of the read loop moves the connection in the same few ways.
ReaderMoves ==
    /\ reader = "reading"
    /\ reader' \in {"reading", "ended"}
    /\ writer' = writer
    /\ drain' = drain
    /\ state' \in {state, Transition(state, "closed")}
    /\ transport' \in {transport, FALSE}
    /\ queue_closed' <=> queue_closed \/ (reader' = "ended" /\ active_handlers' = 0)
    /\ queue_closed' \in BOOLEAN

\* The end of the loop, for a caller that leaves handlers live handlers behind.
LEMMA ContinueMoves ==
    ASSUME Typed, reader = "reading",
           \/ Continue(active_handlers')
           \/ EndReading(active_handlers') /\ transport' \in {transport, FALSE}
                                           /\ UNCHANGED <<writer, drain>>
    PROVE  ReaderMoves
<1>0. queue_closed \in BOOLEAN /\ transport \in BOOLEAN
    BY DEF Typed
<1>1. CASE UNCHANGED <<queue_closed, connVars>>
    BY <1>0, <1>1 DEF ReaderMoves, connVars
<1>2. CASE /\ EndReading(active_handlers')
           /\ transport' \in {transport, FALSE}
           /\ UNCHANGED <<writer, drain>>
    <2>1. queue_closed' = (queue_closed \/ active_handlers' = 0)
        BY <1>2 DEF EndReading, CloseQueueWhenIdle
    <2>2. reader' = "ended" /\ state' = Transition(state, "closed")
        BY <1>2 DEF EndReading
    <2>3. queue_closed' \in BOOLEAN
        BY <2>1
    <2>4. QED
        BY <1>2, <2>1, <2>2, <2>3 DEF ReaderMoves
<1>3. QED
    BY <1>1, <1>2 DEF Continue

\* A frame, an error of the decoder, the loss of the connection or the end of the peer's
\* data: the read loop goes on or ends.
LEMMA PeerStepMoves ==
    ASSUME Typed, PeerStep
    PROVE  ReaderMoves
<1>1. ASSUME NEW f \in PeerFrames, Dispatch(f) PROVE ReaderMoves
    <2>1. reader = "reading"
        BY <1>1 DEF Dispatch
    <2>2. CASE DispatchDraining(f)
        BY <2>1, <2>2, ContinueMoves DEF DispatchDraining, taskVars
    <2>3. CASE DispatchViolation(f)
        BY <2>1, <2>3, ContinueMoves DEF DispatchViolation, CloseOn, taskVars
    <2>4. CASE DispatchCancel(f)
        BY <2>1, <2>4, ContinueMoves DEF DispatchCancel
    <2>5. CASE DispatchUnhandled(f)
        BY <2>1, <2>5, ContinueMoves DEF DispatchUnhandled, taskVars
    <2>6. CASE DispatchDuplicate(f)
        BY <2>1, <2>6, ContinueMoves DEF DispatchDuplicate, CloseOn, taskVars
    <2>7. CASE DispatchRequest(f)
        BY <2>1, <2>7, ContinueMoves DEF DispatchRequest
    <2>8. QED
        BY <1>1, <2>2, <2>3, <2>4, <2>5, <2>6, <2>7 DEF Dispatch
<1>2. CASE ReadGarbage
    BY <1>2, ContinueMoves DEF ReadGarbage, CloseOn, taskVars
<1>3. CASE ReadLost(TRUE)
    BY <1>3, ContinueMoves DEF ReadLost
<1>4. CASE ReadFinished
    BY <1>4, ContinueMoves DEF ReadFinished, taskVars
<1>5. QED
    BY <1>1, <1>2, <1>3, <1>4 DEF PeerStep

\* A handler goes on: its operation may be cancelled or failed under it, or completed by it.
GoesOn(p, q) ==
    /\ q.stream = p.stream
    /\ q.reply = p.reply
    /\ \/ /\ q.phase = p.phase
          /\ q.operation \in {p.operation, cancel(p.operation),
                             fail(request_cancellation(p.operation), "connection_closed")}
       \/ p.phase = "spawned" /\ q.phase = "running" /\ q.operation = p.operation
       \/ p.phase = "running" /\ q.phase = "sending" /\ CanFinish(p.operation)
                              /\ q.operation = complete(p.operation)

TasksKept ==
    /\ operations' = operations
    /\ active_handlers' = active_handlers
    /\ task' \in [Tasks -> TaskRecords]
    /\ \A t \in Tasks : GoesOn(task[t], task'[t])

\* run_handler() is spawned for a request on a free stream.
TaskBegins(t, s) ==
    /\ task[t].phase = "none"
    /\ operations[s] = NoTask
    /\ ~ShuttingDown(state)
    /\ task' \in [Tasks -> TaskRecords]
    /\ task'[t].phase = "spawned"
    /\ task'[t].stream = s
    /\ task'[t].operation.state = "active"
    /\ task'[t].reply = task[t].reply
    /\ \A u \in Tasks \ {t} : task'[u] = task[u]
    /\ operations' = [operations EXCEPT ![s] = t]
    /\ active_handlers' = active_handlers + 1

\* run_handler() returns.
TaskEnds(t) ==
    /\ Live(t)
    /\ task' \in [Tasks -> TaskRecords]
    /\ task'[t].phase = "done"
    /\ task'[t].stream = task[t].stream
    /\ task'[t].reply = "response" => task'[t].operation.state = "completed"
    /\ \A u \in Tasks \ {t} : task'[u] = task[u]
    /\ operations' = [operations EXCEPT ![task[t].stream] = NoTask]
    /\ active_handlers' = active_handlers - 1

\* The task a coroutine works on is a task, and its operation an operation.
LEMMA TaskFields ==
    ASSUME Typed, NEW t \in Tasks
    PROVE  /\ task[t] \in TaskRecords
           /\ task[t].operation \in OperationRecords
BY DEF Typed, TaskRecords

\* The statuses a server ends operations with.
LEMMA ServerStatuses == {"ok", "connection_closed", "decode_error"} \subseteq StatusCodes
BY DEF StatusCodes, WireStatuses, TransportStatuses

\* A step that leaves the handlers alone.
LEMMA UnchangedKeepsTasks ==
    ASSUME Typed, UNCHANGED taskVars
    PROVE  TasksKept
BY DEF Typed, TasksKept, GoesOn, taskVars

\* fail_operations_on_connection_close() changes the operations and nothing else.
LEMMA FailOperationsKeepsTasks ==
    ASSUME Typed, task' = FailOperations(task), UNCHANGED <<operations, active_handlers>>
    PROVE  TasksKept
<1>1. ASSUME NEW t \in Tasks
      PROVE  task'[t] \in TaskRecords /\ GoesOn(task[t], task'[t])
    <2> DEFINE op == fail(request_cancellation(task[t].operation), "connection_closed")
    <2>1. op \in OperationRecords
        BY TaskFields, ServerStatuses, OperationsTyped
    <2>2. task'[t] \in {task[t], [task[t] EXCEPT !.operation = op]}
        BY DEF FailOperations
    <2> HIDE DEF op
    <2>3. task[t] \in TaskRecords
        BY TaskFields
    <2>4. CASE task'[t] = task[t]
        BY <2>3, <2>4 DEF GoesOn
    <2>5. CASE task'[t] = [task[t] EXCEPT !.operation = op]
        BY <2>1, <2>3, <2>5 DEF GoesOn, TaskRecords, op
    <2>6. QED
        BY <2>2, <2>4, <2>5
<1>2. task' \in [Tasks -> TaskRecords]
    BY <1>1 DEF FailOperations
<1>3. QED
    BY <1>1, <1>2 DEF TasksKept

\* The end of run_handler(), for what the handler leaves.
LEMMA HandlerDoneEnds ==
    ASSUME Typed, NEW t \in Tasks, Live(t), NEW q \in TaskRecords, HandlerDone(t, q),
           q.stream = task[t].stream,
           q.reply = "response" => q.operation.state = "completed"
    PROVE  TaskEnds(t)
<1> DEFINE r == [q EXCEPT !.phase = "done"]
<1>1. /\ r \in TaskRecords
      /\ r.phase = "done" /\ r.stream = q.stream /\ r.reply = q.reply
      /\ r.operation = q.operation
    BY DEF TaskRecords, Phases
<1>2. task' = [task EXCEPT ![t] = r]
    BY DEF HandlerDone
<1> HIDE DEF r
<1>3. task \in [Tasks -> TaskRecords]
    BY DEF Typed
<1>4. /\ task' \in [Tasks -> TaskRecords]
      /\ task'[t] = r
      /\ \A u \in Tasks \ {t} : task'[u] = task[u]
    BY <1>1, <1>2, <1>3
<1>5. QED
    BY <1>1, <1>4 DEF TaskEnds, HandlerDone

\* A step of a handler: it goes on, or it ends.
LEMMA HandlerStepEffect ==
    ASSUME Typed, RepliesFollow, NEW t \in Tasks, HandlerStep(t)
    PROVE  TasksKept \/ TaskEnds(t)
<1> DEFINE q == task[t]
<1>0. /\ q \in TaskRecords
      /\ q.operation \in OperationRecords
      /\ complete(q.operation) \in OperationRecords
      /\ fail(q.operation, "decode_error") \in OperationRecords
      /\ task \in [Tasks -> TaskRecords]
    BY TaskFields, OperationsTyped, ServerStatuses DEF Typed
<1>1. /\ q.reply = "response" => q.phase = "done"
      /\ q.phase = "sending" => q.operation.state = "completed"
    BY DEF RepliesFollow
<1>2. ASSUME NEW r \in TaskRecords, task' = [task EXCEPT ![t] = r],
             UNCHANGED <<operations, active_handlers>>, GoesOn(q, r)
      PROVE  TasksKept
    <2>1. \A u \in Tasks : task'[u] = IF u = t THEN r ELSE task[u]
        BY <1>0, <1>2
    <2>2. task' \in [Tasks -> TaskRecords]
        BY <1>0, <1>2
    <2>3. \A u \in Tasks : GoesOn(task[u], task[u])
        BY DEF GoesOn
    <2>4. QED
        BY <1>2, <2>1, <2>2, <2>3 DEF TasksKept
<1>3. CASE HandlerStarts(t)
    <2> DEFINE r == [q EXCEPT !.phase = "running"]
    <2>1. r \in TaskRecords /\ GoesOn(q, r)
        BY <1>0, <1>3 DEF TaskRecords, Phases, GoesOn, HandlerStarts
    <2>2. task' = [task EXCEPT ![t] = r]
        BY <1>3 DEF HandlerStarts
    <2> HIDE DEF r
    <2>3. QED
        BY <1>2, <1>3, <2>1, <2>2 DEF HandlerStarts
<1>4. CASE HandlerRejects(t)
    <2> DEFINE r == [q EXCEPT !.operation = fail(@, "decode_error")]
               e == [r EXCEPT !.reply = "error"]
    <2>1. /\ r \in TaskRecords /\ r.stream = q.stream /\ r.reply = q.reply /\ r.phase = q.phase
          /\ e \in TaskRecords /\ e.stream = q.stream /\ e.reply = "error"
        BY <1>0 DEF TaskRecords
    <2>2. r.phase = "spawned" /\ (HandlerDone(t, e) \/ HandlerDone(t, r))
        BY <1>4 DEF HandlerRejects
    <2> HIDE DEF r, e
    <2>3. Live(t) /\ r.reply # "response"
        BY <1>1, <2>1, <2>2 DEF Live
    <2>4. QED
        BY <2>1, <2>2, <2>3, HandlerDoneEnds
<1>5. CASE HandlerFails(t) \/ HandlerReturnsLate(t)
    BY <1>0, <1>1, <1>5, HandlerDoneEnds DEF HandlerFails, HandlerReturnsLate, Live
<1>6. CASE HandlerReturns(t)
    <2> DEFINE r == [q EXCEPT !.operation = complete(@)]
               p == [q EXCEPT !.operation = complete(@), !.phase = "sending"]
               s == [q EXCEPT !.operation = complete(@), !.reply = "response"]
    <2>1. /\ r \in TaskRecords /\ r.stream = q.stream /\ r.reply = q.reply
          /\ p \in TaskRecords /\ p.stream = q.stream /\ p.reply = q.reply
          /\ p.phase = "sending" /\ p.operation = complete(q.operation)
          /\ s \in TaskRecords /\ s.stream = q.stream /\ s.operation = complete(q.operation)
        BY <1>0 DEF TaskRecords, Phases
    <2>2. q.phase = "running" /\ CanFinish(q.operation) /\ Live(t)
        BY <1>6 DEF HandlerReturns, Live
    <2>3. complete(q.operation).state = "completed"
        <3>1. \E status \in StatusCodes : status # "ok"
            BY DEF StatusCodes, WireStatuses
        <3>2. QED
            BY <1>0, <2>2, <3>1, ActiveFinishes DEF CanFinish
    <2>4. \/ HandlerDone(t, s)
          \/ task' = [task EXCEPT ![t] = p] /\ UNCHANGED <<operations, active_handlers>>
          \/ HandlerDone(t, r)
        BY <1>6 DEF HandlerReturns, Responded
    <2> HIDE DEF r, p, s
    <2>5. CASE task' = [task EXCEPT ![t] = p] /\ UNCHANGED <<operations, active_handlers>>
        BY <1>2, <2>1, <2>2, <2>5 DEF GoesOn
    <2>6. QED
        BY <1>1, <2>1, <2>2, <2>3, <2>4, <2>5, HandlerDoneEnds
<1>7. CASE ResponseAccepted(t)
    <2> DEFINE s == [q EXCEPT !.reply = "response"]
    <2>1. s \in TaskRecords /\ s.stream = q.stream /\ s.operation = q.operation
        BY <1>0 DEF TaskRecords
    <2>2. q.phase = "sending" /\ Live(t) /\ HandlerDone(t, s)
        BY <1>7 DEF ResponseAccepted, Live
    <2> HIDE DEF s
    <2>3. QED
        BY <1>1, <2>1, <2>2, HandlerDoneEnds
<1>8. CASE ResponseRefused(t)
    BY <1>0, <1>1, <1>8, HandlerDoneEnds DEF ResponseRefused, Live
<1>9. QED
    BY <1>3, <1>4, <1>5, <1>6, <1>7, <1>8 DEF HandlerStep

\* A cancellation frame changes the operation of the handler of its stream.
LEMMA CancelKeepsTasks ==
    ASSUME Typed, NEW f \in PeerFrames, DispatchCancel(f)
    PROVE  TasksKept
<1> DEFINE t == operations[f.stream]
           r == [task[t] EXCEPT !.operation = cancel(@)]
<1>1. t \in Tasks
    BY ServerAssumption DEF DispatchCancel, Verdict, Typed, Streams
<1>2. task' = [task EXCEPT ![t] = r] /\ UNCHANGED <<operations, active_handlers>>
    BY DEF DispatchCancel
<1> HIDE DEF t
<1>3. task[t] \in TaskRecords /\ cancel(task[t].operation) \in OperationRecords
    BY <1>1, TaskFields, ServerStatuses, OperationsTyped
<1>4. /\ r \in TaskRecords /\ r.stream = task[t].stream /\ r.reply = task[t].reply
      /\ r.phase = task[t].phase /\ r.operation = cancel(task[t].operation)
    BY <1>3 DEF TaskRecords
<1> HIDE DEF r
<1>5. task \in [Tasks -> TaskRecords]
    BY DEF Typed
<1>6. /\ \A u \in Tasks : task'[u] = IF u = t THEN r ELSE task[u]
      /\ task' \in [Tasks -> TaskRecords]
    BY <1>1, <1>2, <1>4, <1>5
<1>7. \A u \in Tasks : GoesOn(task[u], task[u]) /\ GoesOn(task[t], r)
    BY <1>4 DEF GoesOn
<1>8. QED
    BY <1>2, <1>6, <1>7 DEF TasksKept

\* A request on a free stream of a connection that is not shutting down spawns its handler.
LEMMA RequestBegins ==
    ASSUME Typed, NEW f \in PeerFrames, DispatchRequest(f)
    PROVE  f.payload \in Tasks /\ f.stream \in Streams /\ TaskBegins(f.payload, f.stream)
<1> DEFINE t == f.payload
           op == activate(NewOperation)
           r == [task[t] EXCEPT !.phase = "spawned", !.stream = f.stream, !.operation = op]
<1>1. t \in Tasks /\ f.stream \in Streams
    BY ServerAssumption DEF DispatchRequest, Streams
<1>2. op \in OperationRecords /\ op.state = "active"
    BY NewOperationActivates
<1>3. task \in [Tasks -> TaskRecords]
    BY DEF Typed
<1>4. task' = [task EXCEPT ![t] = r]
    BY <1>1, <1>3 DEF DispatchRequest, TaskRecords
<1> HIDE DEF op
<1>5. /\ r \in TaskRecords /\ r.stream = f.stream /\ r.reply = task[t].reply
      /\ r.phase = "spawned" /\ r.operation = op
    <2>1. task[t] \in TaskRecords /\ "spawned" \in Phases /\ f.stream \in Streams \cup {0}
        BY <1>1, <1>3 DEF Phases
    <2>2. QED
        BY <1>2, <2>1 DEF TaskRecords
<1> HIDE DEF r
<1>6. /\ task' \in [Tasks -> TaskRecords]
      /\ task'[t] = r
      /\ \A u \in Tasks \ {t} : task'[u] = task[u]
    BY <1>1, <1>3, <1>4, <1>5
<1>7. QED
    BY <1>1, <1>2, <1>5, <1>6 DEF TaskBegins, DispatchRequest

\* A step of the read loop spawns one handler or lets all of them go on.
LEMMA PeerStepEffect ==
    ASSUME Typed, PeerStep
    PROVE  TasksKept \/ \E t \in Tasks, s \in Streams : TaskBegins(t, s)
<1>1. ASSUME NEW f \in PeerFrames, Dispatch(f)
      PROVE  UNCHANGED taskVars \/ DispatchCancel(f) \/ DispatchRequest(f)
    BY <1>1 DEF Dispatch, DispatchDraining, DispatchViolation, DispatchUnhandled,
                DispatchDuplicate, CloseOn
<1>2. ASSUME ReadLost(TRUE) PROVE TasksKept
    BY <1>2, FailOperationsKeepsTasks DEF ReadLost
<1>3. ASSUME ReadGarbage \/ ReadFinished PROVE UNCHANGED taskVars
    BY <1>3 DEF ReadGarbage, ReadFinished, CloseOn
<1>4. QED
    BY <1>1, <1>2, <1>3, CancelKeepsTasks, RequestBegins, UnchangedKeepsTasks DEF PeerStep

\* Writes, run() and shutdown() let the handlers go on.
LEMMA ConnectionStepEffect ==
    ASSUME Typed, ConnectionStep
    PROVE  TasksKept
<1>1. CASE UNCHANGED taskVars
    BY <1>1, UnchangedKeepsTasks
<1>2. CASE Shutdown \/ DrainEnds
    BY <1>1, <1>2, FailOperationsKeepsTasks
    DEF Shutdown, DrainEnds, FinishShutdown, taskVars
<1>3. QED
    BY <1>1, <1>2 DEF ConnectionStep, WriteDone, WriteFails, WriterStops, Run

\* Every step does one of three things to the handlers.
LEMMA StepEffect ==
    ASSUME Typed, RepliesFollow, [Next]_vars
    PROVE  \/ TasksKept
           \/ \E t \in Tasks, s \in Streams : TaskBegins(t, s)
           \/ \E t \in Tasks : TaskEnds(t)
<1>1. CASE UNCHANGED vars
    BY <1>1, UnchangedKeepsTasks DEF vars
<1>2. QED
    BY <1>1, HandlerStepEffect, PeerStepEffect, ConnectionStepEffect DEF Next

-----------------------------------------------------------------------------
(* The types *)

\* The frames the server makes.
LEMMA FramesMade ==
    ASSUME NEW stream \in Streams \cup {0}
    PROVE  /\ \A status \in StatusCodes : make_error_frame(stream, status) \in WrittenFrames
           /\ \A t \in Tasks : ResponseFrame(stream, t) \in WrittenFrames
BY DEF make_error_frame, ResponseFrame, Frame, WrittenFrames

QueueTyped == queue \in Seq(WrittenFrames) /\ Len(queue) <= MaxFrames + 1

\* The queue takes a frame only where it has room, so it never holds more than the frame
\* being written and max_frames others.
LEMMA AppendTyped ==
    ASSUME Typed, MayAccept, NEW frame \in WrittenFrames, queue' = Append(queue, frame)
    PROVE  QueueTyped'
<1>1. queue \in Seq(WrittenFrames) /\ Len(queue) <= MaxFrames /\ MaxFrames \in Nat
    BY ServerAssumption DEF Typed, MayAccept
<1>2. Append(queue, frame) \in Seq(WrittenFrames) /\ Len(Append(queue, frame)) = Len(queue) + 1
    BY <1>1
<1>3. QED
    BY <1>1, <1>2 DEF QueueTyped

\* Every step keeps the queue within its limit.
LEMMA QueueStep ==
    ASSUME Typed, [Next]_vars
    PROVE  QueueTyped'
<1>1. CASE UNCHANGED queue
    BY <1>1 DEF Typed, QueueTyped
<1>2. ASSUME NEW stream \in Streams, NEW status \in StatusCodes,
             SendOperationError(stream, status)
      PROVE  QueueTyped'
    BY <1>1, <1>2, FramesMade, AppendTyped DEF SendOperationError
<1>3. ASSUME NEW t \in Tasks, HandlerStep(t) PROVE QueueTyped'
    <2>1. task[t] \in TaskRecords /\ task[t].stream \in Streams \cup {0}
        BY TaskFields DEF TaskRecords
    <2>2. ResponseFrame(task[t].stream, t) \in WrittenFrames
        BY <2>1, FramesMade
    <2>3. make_error_frame(task[t].stream, "decode_error") \in WrittenFrames
        BY <2>1, ServerStatuses, FramesMade
    <2>4. CASE HandlerRejects(t)
        <3>1. [task[t] EXCEPT !.operation = fail(@, "decode_error")].stream = task[t].stream
            BY <2>1 DEF TaskRecords
        <3>2. QED
            BY <1>1, <2>3, <2>4, <3>1, AppendTyped DEF HandlerRejects
    <2>5. CASE HandlerReturns(t)
        BY <1>1, <2>2, <2>5, AppendTyped DEF HandlerReturns, queueVars
    <2>6. CASE ResponseAccepted(t)
        BY <2>2, <2>6, AppendTyped DEF ResponseAccepted
    <2>7. QED
        BY <1>1, <1>3, <2>4, <2>5, <2>6
        DEF HandlerStep, HandlerStarts, HandlerFails, HandlerReturnsLate, ResponseRefused, queueVars
<1>4. ASSUME NEW f \in PeerFrames, Dispatch(f) PROVE QueueTyped'
    <2>1. f.stream \in Streams
        BY ServerAssumption DEF Streams
    <2>2. {"connection_closed", "decode_error", "unknown_message_type"} \subseteq StatusCodes
        BY DEF StatusCodes, WireStatuses, TransportStatuses
    <2>3. CASE DispatchDraining(f) \/ DispatchUnhandled(f)
        BY <1>2, <2>1, <2>2, <2>3 DEF DispatchDraining, DispatchUnhandled
    <2>4. QED
        BY <1>1, <1>4, <2>3
        DEF Dispatch, DispatchViolation, DispatchCancel, DispatchDuplicate, DispatchRequest, CloseOn
<1>5. CASE ReadGarbage \/ ReadLost(TRUE) \/ ReadFinished
    BY <1>1, <1>5 DEF ReadGarbage, ReadLost, ReadFinished, CloseOn
<1>6. CASE WriteDone
    <2>1. queue \in Seq(WrittenFrames) /\ queue # <<>> /\ Len(queue) <= MaxFrames + 1
        BY <1>6 DEF WriteDone, Typed
    <2>2. Tail(queue) \in Seq(WrittenFrames) /\ Len(Tail(queue)) = Len(queue) - 1
        BY <2>1
    <2>3. Len(queue) \in Nat /\ MaxFrames \in Nat
        BY <2>1, ServerAssumption
    <2>4. QED
        BY <1>6, <2>1, <2>2, <2>3 DEF WriteDone, QueueTyped
<1>7. CASE WriteFails
    BY <1>7, ServerAssumption DEF WriteFails, QueueTyped
<1>8. CASE WriterStops \/ Run \/ Shutdown \/ DrainEnds
    BY <1>1, <1>8 DEF WriterStops, Run, Shutdown, DrainEnds, queueVars
<1>9. CASE UNCHANGED vars
    BY <1>1, <1>9 DEF vars, queueVars
<1>10. QED
    BY <1>3, <1>4, <1>5, <1>6, <1>7, <1>8, <1>9 DEF Next, PeerStep, ConnectionStep

\* A live handler is counted in active_handlers_.
LEMMA LiveIsCounted ==
    ASSUME Typed, OperationsMatch, IsFiniteSet(LiveTasks), NEW t \in Tasks, Live(t)
    PROVE  /\ active_handlers \in Nat \ {0}
           /\ task[t].stream \in Streams
           /\ operations[task[t].stream] = t
<1>1. active_handlers = Cardinality(LiveTasks) /\ active_handlers \in Nat
    BY DEF OperationsMatch, LiveTasks, Typed
<1>2. LiveTasks # {}
    BY DEF LiveTasks
<1>3. Cardinality(LiveTasks) # 0
    BY <1>2, FS_EmptySet
<1>4. task[t].stream \in Streams \cup {0}
    BY TaskFields DEF TaskRecords
<1>5. QED
    BY <1>1, <1>3, <1>4 DEF OperationsMatch

\* The variables of the connection that a handler's step leaves alone, and the closing of
\* the queue by the last handler.
LEMMA HandlerStepMoves ==
    ASSUME NEW t \in Tasks, HandlerStep(t)
    PROVE  /\ UNCHANGED <<terminal_streams, connVars>>
           /\ \/ UNCHANGED queue_closed
              \/ /\ active_handlers' = active_handlers - 1
                 /\ queue_closed' = (queue_closed \/ (reader = "ended" /\ active_handlers' = 0))
<1>1. ASSUME NEW q, HandlerDone(t, q)
      PROVE  /\ UNCHANGED <<terminal_streams, connVars>>
             /\ active_handlers' = active_handlers - 1
             /\ queue_closed' = (queue_closed \/ (reader = "ended" /\ active_handlers' = 0))
    BY <1>1 DEF HandlerDone, CloseQueueWhenIdle
<1>2. CASE HandlerStarts(t)
    BY <1>2 DEF HandlerStarts, queueVars
<1>3. CASE HandlerRejects(t)
    BY <1>1, <1>3 DEF HandlerRejects
<1>4. CASE HandlerFails(t) \/ HandlerReturnsLate(t) \/ ResponseAccepted(t) \/ ResponseRefused(t)
    BY <1>1, <1>4 DEF HandlerFails, HandlerReturnsLate, ResponseAccepted, ResponseRefused
<1>5. CASE HandlerReturns(t)
    BY <1>1, <1>5 DEF HandlerReturns, queueVars
<1>6. QED
    BY <1>2, <1>3, <1>4, <1>5, HandlerStep(t) DEF HandlerStep

\* The types of the connection's own variables.
ConnectionTyped ==
    /\ queue_closed \in BOOLEAN
    /\ state \in ConnectionStates \ {"connecting", "accepting"}
    /\ transport \in BOOLEAN
    /\ reader \in {"idle", "reading", "ended"}
    /\ writer \in {"idle", "running", "stopped", "failed"}
    /\ drain \in {"none", "draining", "done"}

\* The connection's own variables keep their types, and the lifecycle never rests between
\* being created and being active.
LEMMA ConnectionTypedStep ==
    ASSUME Typed, [Next]_vars
    PROVE  ConnectionTyped'
<1>1. ConnectionTyped
    BY DEF Typed, ConnectionTyped
<1>2. Transition(state, "closed") \in ConnectionStates \ {"connecting", "accepting"}
    BY <1>1 DEF ConnectionTyped, Transition, ConnectionStates
<1>3. /\ BeginShutdown(state, "accepting") \in {"draining", "closing", "closed"}
      /\ Transition(BeginShutdown(state, "accepting"), "closed") = "closed"
    BY <1>1, BeginShutdownShutsDown, ShuttingDownStays DEF ConnectionTyped, ShuttingDown
<1>4. CASE PeerStep
    BY <1>1, <1>2, <1>4, PeerStepMoves DEF ReaderMoves, ConnectionTyped
<1>5. ASSUME NEW t \in Tasks, HandlerStep(t) PROVE ConnectionTyped'
    BY <1>1, <1>5, HandlerStepMoves DEF connVars, ConnectionTyped
<1>6. CASE WriteDone \/ WriteFails \/ WriterStops
    BY <1>1, <1>6 DEF WriteDone, WriteFails, WriterStops, connVars, queueVars, ConnectionTyped
<1>7. CASE Run
    BY <1>1, <1>7
    DEF Run, queueVars, ConnectionTyped, Transition, ConnectionEdges, ConnectionStates
<1>8. CASE Shutdown
    BY <1>1, <1>3, <1>8 DEF Shutdown, FinishShutdown, queueVars, ConnectionTyped, ConnectionStates
<1>9. CASE DrainEnds
    BY <1>1, <1>2, <1>9 DEF DrainEnds, FinishShutdown, queueVars, ConnectionTyped
<1>10. CASE UNCHANGED vars
    BY <1>1, <1>10 DEF vars, connVars, queueVars, ConnectionTyped
<1>11. QED
    BY <1>4, <1>5, <1>6, <1>7, <1>8, <1>9, <1>10 DEF Next, ConnectionStep

\* Streams become terminal one frame at a time.
LEMMA TerminalStreamsStep ==
    ASSUME Typed, [Next]_vars
    PROVE  terminal_streams' \subseteq Streams
<1>1. CASE UNCHANGED terminal_streams
    BY <1>1 DEF Typed
<1>2. ASSUME NEW f \in PeerFrames, MarkTerminal(f) PROVE terminal_streams' \subseteq Streams
    BY <1>2, ServerAssumption DEF MarkTerminal, Typed, Streams
<1>3. ASSUME NEW f \in PeerFrames, Dispatch(f) PROVE terminal_streams' \subseteq Streams
    BY <1>1, <1>2, <1>3 DEF Dispatch, DispatchDraining, DispatchViolation, DispatchCancel,
       DispatchUnhandled, DispatchDuplicate, DispatchRequest, CloseOn
<1>4. ASSUME NEW t \in Tasks, HandlerStep(t) PROVE terminal_streams' \subseteq Streams
    BY <1>1, <1>4, HandlerStepMoves
<1>5. CASE ReadGarbage \/ ReadLost(TRUE) \/ ReadFinished
    BY <1>1, <1>5 DEF ReadGarbage, ReadLost, ReadFinished, CloseOn
<1>6. CASE ConnectionStep
    BY <1>1, <1>6
    DEF ConnectionStep, WriteDone, WriteFails, WriterStops, Run, Shutdown, DrainEnds
<1>7. CASE UNCHANGED vars
    BY <1>1, <1>7 DEF vars
<1>8. QED
    BY <1>3, <1>4, <1>5, <1>6, <1>7 DEF Next, PeerStep

\* A step keeps all types.
LEMMA TypedStep ==
    ASSUME IInv, [Next]_vars
    PROVE  Typed'
<1> USE DEF IInv
<1>1. CASE TasksKept
    BY <1>1, QueueStep, ConnectionTypedStep, TerminalStreamsStep
    DEF Typed, TasksKept, QueueTyped, ConnectionTyped
<1>2. ASSUME NEW t \in Tasks, NEW s \in Streams, TaskBegins(t, s) PROVE Typed'
    BY <1>2, QueueStep, ConnectionTypedStep, TerminalStreamsStep
    DEF Typed, TaskBegins, QueueTyped, ConnectionTyped
<1>3. ASSUME NEW t \in Tasks, TaskEnds(t) PROVE Typed'
    <2>1. active_handlers' \in Nat
        BY <1>3, LiveIsCounted DEF TaskEnds
    <2>2. operations' \in [Streams -> Tasks \cup {NoTask}]
        BY <1>3 DEF TaskEnds, Typed
    <2>3. QED
        BY <1>3, <2>1, <2>2, QueueStep, ConnectionTypedStep, TerminalStreamsStep
        DEF Typed, TaskEnds, QueueTyped, ConnectionTyped
<1>4. QED
    BY <1>1, <1>2, <1>3, StepEffect

-----------------------------------------------------------------------------
(* The tables and the counter *)

\* A handler that goes on stays what it was: live or not.
LEMMA GoesOnLive ==
    ASSUME Typed, TasksKept, NEW t \in Tasks
    PROVE  task'[t].stream = task[t].stream /\ (Live(t)' <=> Live(t))
BY DEF TasksKept, GoesOn, Live

\* A step keeps operations_ and active_handlers_ in agreement with the handlers.
LEMMA MatchStep ==
    ASSUME IInv, [Next]_vars
    PROVE  OperationsMatch' /\ IsFiniteSet(LiveTasks')
<1> USE DEF IInv
<1>0. operations \in [Streams -> Tasks \cup {NoTask}] /\ NoTask \notin Tasks
    BY ServerAssumption DEF Typed
<1>1. CASE TasksKept
    <2>1. \A t \in Tasks : task'[t].stream = task[t].stream /\ (Live(t)' <=> Live(t))
        BY <1>1, GoesOnLive
    <2>2. LiveTasks' = LiveTasks
        BY <2>1 DEF LiveTasks
    <2>3. operations' = operations /\ active_handlers' = active_handlers
        BY <1>1 DEF TasksKept
    <2>4. (\A t \in Tasks : Live(t) <=> task[t].stream # 0 /\ operations[task[t].stream] = t)'
        BY <2>1, <2>3 DEF OperationsMatch
    <2>5. (\A s \in Streams : operations[s] # NoTask => task[operations[s]].stream = s)'
        BY <1>0, <2>1, <2>3 DEF OperationsMatch
    <2>6. QED
        BY <2>2, <2>3, <2>4, <2>5 DEF OperationsMatch, LiveTasks
<1>2. ASSUME NEW t \in Tasks, NEW s \in Streams, TaskBegins(t, s)
      PROVE  OperationsMatch' /\ IsFiniteSet(LiveTasks')
    <2>1. /\ operations' = [operations EXCEPT ![s] = t]
          /\ operations[s] = NoTask
          /\ task'[t].stream = s
          /\ \A u \in Tasks \ {t} : task'[u] = task[u]
          /\ s # 0
        BY <1>2, ServerAssumption DEF TaskBegins, Streams
    <2>2. /\ Live(t)' /\ ~Live(t)
          /\ \A u \in Tasks \ {t} : Live(u)' <=> Live(u)
        BY <1>2 DEF TaskBegins, Live
    <2>3. LiveTasks' = LiveTasks \cup {t} /\ t \notin LiveTasks
        BY <2>2 DEF LiveTasks
    <2>4. IsFiniteSet(LiveTasks') /\ Cardinality(LiveTasks') = Cardinality(LiveTasks) + 1
        BY <2>3, FS_AddElement
    <2>5. active_handlers' = Cardinality(LiveTasks')
        BY <1>2, <2>4 DEF TaskBegins, OperationsMatch, LiveTasks
    <2>6. ASSUME NEW u \in Tasks
          PROVE  Live(u)' <=> task'[u].stream # 0 /\ operations'[task'[u].stream] = u
        <3>1. CASE u = t
            BY <1>0, <2>1, <2>2, <3>1
        <3>2. CASE u # t
            <4>1. Live(u) <=> task[u].stream # 0 /\ operations[task[u].stream] = u
                BY DEF OperationsMatch
            <4>2. task[u].stream \in Streams \cup {0}
                BY TaskFields DEF TaskRecords
            <4>3. QED
                BY <1>0, <2>1, <2>2, <3>2, <4>1, <4>2
        <3>3. QED
            BY <3>1, <3>2
    <2>7. ASSUME NEW r \in Streams, operations'[r] # NoTask
          PROVE  task'[operations'[r]].stream = r
        <3>1. CASE r = s
            BY <1>0, <2>1, <3>1
        <3>2. CASE r # s
            <4>1. operations'[r] = operations[r] /\ operations[r] \in Tasks
                BY <1>0, <2>1, <2>7, <3>2
            <4>2. task[operations[r]].stream = r
                BY <2>7, <4>1 DEF OperationsMatch
            <4>3. operations[r] # t
                <5>1. task[t].stream # 0 /\ operations[task[t].stream] = t => Live(t)
                    BY DEF OperationsMatch
                <5>2. r # 0
                    BY ServerAssumption DEF Streams
                <5>3. QED
                    BY <2>2, <4>2, <5>1, <5>2
            <4>4. QED
                BY <2>1, <4>1, <4>2, <4>3
        <3>3. QED
            BY <3>1, <3>2
    <2>8. QED
        BY <2>4, <2>5, <2>6, <2>7 DEF OperationsMatch, LiveTasks
<1>3. ASSUME NEW t \in Tasks, TaskEnds(t)
      PROVE  OperationsMatch' /\ IsFiniteSet(LiveTasks')
    <2> DEFINE s == task[t].stream
    <2>1. s \in Streams /\ operations[s] = t /\ Live(t)
        BY <1>3, LiveIsCounted DEF TaskEnds
    <2>2. /\ operations' = [operations EXCEPT ![s] = NoTask]
          /\ task'[t].stream = s
          /\ \A u \in Tasks \ {t} : task'[u] = task[u]
        BY <1>3 DEF TaskEnds
    <2>3. /\ ~Live(t)'
          /\ \A u \in Tasks \ {t} : Live(u)' <=> Live(u)
        BY <1>3 DEF TaskEnds, Live
    <2> HIDE DEF s
    <2>4. LiveTasks' = LiveTasks \ {t} /\ t \in LiveTasks
        BY <2>1, <2>3 DEF LiveTasks
    <2>5. IsFiniteSet(LiveTasks') /\ Cardinality(LiveTasks') = Cardinality(LiveTasks) - 1
        BY <2>4, FS_RemoveElement
    <2>6. active_handlers' = Cardinality(LiveTasks')
        BY <1>3, <2>5 DEF TaskEnds, OperationsMatch, LiveTasks
    <2>7. ASSUME NEW u \in Tasks
          PROVE  Live(u)' <=> task'[u].stream # 0 /\ operations'[task'[u].stream] = u
        <3>1. CASE u = t
            BY <1>0, <2>1, <2>2, <2>3, <3>1
        <3>2. CASE u # t
            <4>1. Live(u) <=> task[u].stream # 0 /\ operations[task[u].stream] = u
                BY DEF OperationsMatch
            <4>2. task[u].stream \in Streams \cup {0}
                BY TaskFields DEF TaskRecords
            <4>3. QED
                BY <1>0, <2>1, <2>2, <2>3, <3>2, <4>1, <4>2
        <3>3. QED
            BY <3>1, <3>2
    <2>8. ASSUME NEW r \in Streams, operations'[r] # NoTask
          PROVE  task'[operations'[r]].stream = r
        <3>1. r # s /\ operations'[r] = operations[r] /\ operations[r] \in Tasks
            BY <1>0, <2>1, <2>2, <2>8
        <3>2. task[operations[r]].stream = r
            BY <2>8, <3>1 DEF OperationsMatch
        <3>3. operations[r] # t
            BY <3>1, <3>2 DEF s
        <3>4. QED
            BY <2>2, <3>1, <3>2, <3>3
    <2>9. QED
        BY <2>5, <2>6, <2>7, <2>8 DEF OperationsMatch, LiveTasks
<1>4. QED
    BY <1>1, <1>2, <1>3, StepEffect

-----------------------------------------------------------------------------
(* Loops, shutdown and the queue *)

\* A step keeps the loops together, and shutdown() visible in the lifecycle.
LEMMA LoopsAndDrainStep ==
    ASSUME IInv, [Next]_vars
    PROVE  LoopsAndDrain'
<1> USE DEF IInv
<1>0. ConnectionTyped
    BY DEF Typed, ConnectionTyped
<1>1. ShuttingDown(state) => Transition(state, "closed") = "closed" /\ state # "created"
    BY ShuttingDownStays
<1>2. /\ ShuttingDown(BeginShutdown(state, "accepting"))
      /\ Transition(BeginShutdown(state, "accepting"), "closed") = "closed"
      /\ ShuttingDown(state) => BeginShutdown(state, "accepting") = state
    BY <1>0, BeginShutdownShutsDown, ShuttingDownStays DEF ConnectionTyped
<1>3. ShuttingDown("closed")
    BY DEF ShuttingDown
<1>4. CASE PeerStep
    <2>1. ReaderMoves
        BY <1>4, PeerStepMoves
    <2>2. state' = state \/ state' = Transition(state, "closed")
        BY <2>1 DEF ReaderMoves
    <2>3. reader' # "idle" /\ writer' = writer /\ drain' = drain /\ reader # "idle"
        BY <2>1 DEF ReaderMoves
    <2>4. QED
        BY <1>1, <1>3, <2>2, <2>3 DEF LoopsAndDrain
<1>5. ASSUME NEW t \in Tasks, HandlerStep(t) PROVE LoopsAndDrain'
    BY <1>5, HandlerStepMoves DEF connVars, LoopsAndDrain
<1>6. CASE WriteDone \/ WriteFails \/ WriterStops
    BY <1>6 DEF WriteDone, WriteFails, WriterStops, connVars, LoopsAndDrain
<1>7. CASE Run
    BY <1>1, <1>7 DEF Run, LoopsAndDrain
<1>8. CASE Shutdown
    BY <1>2, <1>3, <1>8 DEF Shutdown, FinishShutdown, LoopsAndDrain
<1>9. CASE DrainEnds
    BY <1>1, <1>3, <1>9 DEF DrainEnds, FinishShutdown, LoopsAndDrain
<1>10. CASE UNCHANGED vars
    BY <1>10 DEF vars, connVars, LoopsAndDrain
<1>11. QED
    BY <1>4, <1>5, <1>6, <1>7, <1>8, <1>9, <1>10 DEF Next, ConnectionStep

\* A step closes the queue only after the last handler, unless a write failed.
LEMMA QueueOpenStep ==
    ASSUME IInv, [Next]_vars
    PROVE  QueueOpenForHandlers'
<1> USE DEF IInv
<1>0. ConnectionTyped /\ active_handlers \in Nat
    BY DEF Typed, ConnectionTyped
<1>1. CASE PeerStep
    <2>1. ReaderMoves
        BY <1>1, PeerStepMoves
    <2>2. queue_closed => writer = "failed"
        BY <2>1 DEF ReaderMoves, QueueOpenForHandlers
    <2>3. QED
        BY <2>1, <2>2 DEF ReaderMoves, QueueOpenForHandlers
<1>2. ASSUME NEW t \in Tasks, HandlerStep(t) PROVE QueueOpenForHandlers'
    <2>1. /\ writer' = writer /\ reader' = reader
          /\ \/ UNCHANGED queue_closed
             \/ /\ active_handlers' = active_handlers - 1
                /\ queue_closed' = (queue_closed \/ (reader = "ended" /\ active_handlers' = 0))
        BY <1>2, HandlerStepMoves DEF connVars
    <2>2. Live(t)
        BY <1>2 DEF HandlerStep, HandlerStarts, HandlerRejects, HandlerFails, HandlerReturnsLate,
           HandlerReturns, ResponseAccepted, ResponseRefused, Live, Typed, TaskRecords
    <2>3. active_handlers # 0
        BY <2>2, LiveIsCounted
    <2>4. queue_closed => writer = "failed"
        BY <2>3 DEF QueueOpenForHandlers
    <2>5. QED
        BY <1>0, <2>1, <2>4 DEF QueueOpenForHandlers, ConnectionTyped
<1>3. CASE WriteDone \/ WriteFails \/ WriterStops
    BY <1>3
    DEF WriteDone, WriteFails, WriterStops, connVars, queueVars, taskVars, QueueOpenForHandlers
<1>4. CASE Run
    BY <1>4 DEF Run, queueVars, taskVars, QueueOpenForHandlers, LoopsAndDrain
<1>5. CASE Shutdown \/ DrainEnds
    BY <1>5 DEF Shutdown, DrainEnds, queueVars, QueueOpenForHandlers
<1>6. CASE UNCHANGED vars
    BY <1>6 DEF vars, connVars, queueVars, taskVars, QueueOpenForHandlers
<1>7. QED
    BY <1>1, <1>2, <1>3, <1>4, <1>5, <1>6 DEF Next, ConnectionStep

-----------------------------------------------------------------------------
(* The operations *)

\* What becomes of the operation of a handler that goes on: a terminal one stays as it is,
\* an active one stays active, or is completed as its response is sent, or is ended with
\* its handler told.
LEMMA GoesOnOperation ==
    ASSUME Typed, TasksKept, NEW t \in Tasks
    PROVE  /\ is_terminal(task[t].operation) => task'[t].operation = task[t].operation
           /\ task[t].operation.state = "active" =>
                 \/ task'[t].operation = task[t].operation
                 \/ task'[t].operation.state = "completed"
                 \/ /\ task'[t].operation.state \in {"failed", "cancelled"}
                    /\ task'[t].operation.cancellation_requested
           /\ task'[t].phase = "sending" /\ task[t].phase # "sending" =>
                 task'[t].operation.state = "completed"
<1> DEFINE op == task[t].operation
           np == task'[t].operation
<1>1. op \in OperationRecords
    BY TaskFields
<1>2. "connection_closed" \in StatusCodes \ {"ok"}
    BY ServerStatuses
<1>3. np \in {op, cancel(op), fail(request_cancellation(op), "connection_closed"), complete(op)}
    BY DEF TasksKept, GoesOn
<1>4. GoesOn(task[t], task'[t])
    BY DEF TasksKept
<1> HIDE DEF op, np
<1>5. is_terminal(op) => np = op
    BY <1>1, <1>2, <1>3, TerminalIsFinal
<1>6. op.state = "active" =>
          \/ np = op
          \/ np.state = "completed"
          \/ np.state \in {"failed", "cancelled"} /\ np.cancellation_requested
    BY <1>1, <1>2, <1>3, ActiveFinishes
<1>7. task'[t].phase = "sending" /\ task[t].phase # "sending" => np.state = "completed"
    BY <1>1, <1>2, <1>4, ActiveFinishes DEF GoesOn, CanFinish, op, np
<1>8. QED
    BY <1>5, <1>6, <1>7 DEF op, np

\* A step answers no request whose operation did not complete.
LEMMA RepliesStep ==
    ASSUME IInv, [Next]_vars
    PROVE  RepliesFollow'
<1> USE DEF IInv
<1> SUFFICES ASSUME NEW u \in Tasks
             PROVE  /\ task'[u].phase = "sending" => task'[u].operation.state = "completed"
                    /\ task'[u].reply = "response" =>
                           task'[u].phase = "done" /\ task'[u].operation.state = "completed"
    BY DEF RepliesFollow
<1>0. /\ task[u].phase = "sending" => task[u].operation.state = "completed"
      /\ task[u].reply = "response" =>
             task[u].phase = "done" /\ task[u].operation.state = "completed"
    BY DEF RepliesFollow
<1>1. CASE TasksKept
    <2>1. task[u].operation.state = "completed" => task'[u].operation.state = "completed"
        BY <1>1, GoesOnOperation DEF is_terminal, TerminalStates
    <2>2. /\ task'[u].reply = task[u].reply
          /\ task[u].phase = "done" => task'[u].phase = "done"
        BY <1>1 DEF TasksKept, GoesOn
    <2>3. QED
        BY <1>0, <1>1, <2>1, <2>2, GoesOnOperation
<1>2. ASSUME NEW t \in Tasks, NEW s \in Streams, TaskBegins(t, s)
      PROVE  /\ task'[u].phase = "sending" => task'[u].operation.state = "completed"
             /\ task'[u].reply = "response" =>
                    task'[u].phase = "done" /\ task'[u].operation.state = "completed"
    BY <1>0, <1>2 DEF TaskBegins
<1>3. ASSUME NEW t \in Tasks, TaskEnds(t)
      PROVE  /\ task'[u].phase = "sending" => task'[u].operation.state = "completed"
             /\ task'[u].reply = "response" =>
                    task'[u].phase = "done" /\ task'[u].operation.state = "completed"
    BY <1>0, <1>3 DEF TaskEnds
<1>4. QED
    BY <1>1, <1>2, <1>3, StepEffect

\* A step ends the operation of a live handler only by completing it or with the handler
\* told.
LEMMA LiveOperationsStep ==
    ASSUME IInv, [Next]_vars
    PROVE  LiveOperations'
<1> USE DEF IInv
<1> DEFINE Told(op) == /\ op.state # "created"
                       /\ op.state \in {"failed", "cancelled"} => op.cancellation_requested
<1> SUFFICES ASSUME NEW u \in Tasks, Live(u)' PROVE Told(task'[u].operation)
    BY DEF LiveOperations, LiveTasks
<1>0. Live(u) => Told(task[u].operation)
    BY DEF LiveOperations, LiveTasks
<1>1. CASE TasksKept
    <2>1. Live(u)
        BY <1>1, GoesOnLive
    <2>2. task[u].operation.state \in OperationStates
        BY TaskFields DEF OperationRecords
    <2>3. is_terminal(task[u].operation) \/ task[u].operation.state = "active"
        BY <1>0, <2>1, <2>2 DEF is_terminal, TerminalStates, OperationStates
    <2>4. QED
        BY <1>0, <1>1, <2>1, <2>3, GoesOnOperation
<1>2. ASSUME NEW t \in Tasks, NEW s \in Streams, TaskBegins(t, s)
      PROVE  Told(task'[u].operation)
    BY <1>0, <1>2 DEF TaskBegins, Live
<1>3. ASSUME NEW t \in Tasks, TaskEnds(t)
      PROVE  Told(task'[u].operation)
    BY <1>0, <1>3 DEF TaskEnds, Live
<1>4. QED
    BY <1>1, <1>2, <1>3, StepEffect

\* The end of shutdown() ends the operations of all live handlers.
LEMMA FinishShutdownSettles ==
    ASSUME IInv, NEW draining, FinishShutdown(draining), NEW u \in Tasks, Live(u)
    PROVE  is_terminal(task'[u].operation)
<1> USE DEF IInv
<1> DEFINE op == task[u].operation
<1>1. active_handlers # 0 /\ task[u].stream \in Streams /\ operations[task[u].stream] = u
    BY LiveIsCounted
<1>2. task'[u] = [task[u] EXCEPT !.operation = fail(request_cancellation(@), "connection_closed")]
    BY <1>1 DEF FinishShutdown, FailOperations
<1>3. task[u] \in TaskRecords /\ op \in OperationRecords
    BY TaskFields
<1>4. task'[u].operation = fail(request_cancellation(op), "connection_closed")
    BY <1>2, <1>3 DEF TaskRecords
<1>5. op.state \in OperationStates /\ op.state # "created"
    BY <1>3 DEF LiveOperations, LiveTasks, OperationRecords
<1>6. op.state = "active" \/ is_terminal(op)
    BY <1>5 DEF is_terminal, TerminalStates, OperationStates
<1>7. "connection_closed" \in StatusCodes \ {"ok"}
    BY ServerStatuses
<1> HIDE DEF op
<1>8. op.state = "active" => fail(request_cancellation(op), "connection_closed").state = "failed"
    BY <1>3, <1>7, ActiveFinishes DEF op
<1>9. is_terminal(op) => fail(request_cancellation(op), "connection_closed") = op
    BY <1>3, <1>7, TerminalIsFinal DEF op
<1>10. QED
    BY <1>4, <1>6, <1>8, <1>9 DEF is_terminal, TerminalStates

\* A step leaves no live handler with an active operation once shutdown() is done.
LEMMA DoneSettlesStep ==
    ASSUME IInv, [Next]_vars
    PROVE  DoneSettles'
<1> USE DEF IInv
<1> SUFFICES ASSUME drain' = "done", NEW u \in Tasks, Live(u)'
             PROVE  is_terminal(task'[u].operation)
    BY DEF DoneSettles, LiveTasks
<1>1. CASE drain = "done"
    <2>1. ShuttingDown(state)
        BY <1>1 DEF LoopsAndDrain
    <2>2. Live(u) => is_terminal(task[u].operation)
        BY <1>1 DEF DoneSettles, LiveTasks
    <2>3. CASE TasksKept
        BY <2>2, <2>3, GoesOnLive, GoesOnOperation
    <2>4. ASSUME NEW t \in Tasks, NEW s \in Streams, TaskBegins(t, s)
          PROVE  FALSE
        BY <2>1, <2>4 DEF TaskBegins
    <2>5. ASSUME NEW t \in Tasks, TaskEnds(t)
          PROVE  is_terminal(task'[u].operation)
        BY <2>2, <2>5 DEF TaskEnds, Live
    <2>6. QED
        BY <2>3, <2>4, <2>5, StepEffect
<1>2. CASE drain # "done"
    <2>1. ~PeerStep
        BY <1>2, PeerStepMoves DEF ReaderMoves
    <2>2. ~\E t \in Tasks : HandlerStep(t)
        BY <1>2, HandlerStepMoves DEF connVars
    <2>3. ~UNCHANGED vars
        BY <1>2 DEF vars, connVars
    <2>4. ConnectionStep
        BY <2>1, <2>2, <2>3 DEF Next
    <2>5. \E draining : FinishShutdown(draining)
        BY <1>2, <2>4
        DEF ConnectionStep, WriteDone, WriteFails, WriterStops, Run, Shutdown, DrainEnds, connVars
    <2>6. Live(u)
        BY <2>4, ConnectionStepEffect, GoesOnLive
    <2>7. QED
        BY <2>5, <2>6, FinishShutdownSettles
<1>3. QED
    BY <1>1, <1>2

-----------------------------------------------------------------------------
(* The theorems *)

\* The invariant that the others rest on: types, tables, loops, operations, queue and
\* shutdown together.
THEOREM ServerInvariant == Spec => []IInv
<1>1. Init => IInv
    <2> SUFFICES ASSUME Init PROVE IInv
        OBVIOUS
    <2> DEFINE new == NewTask
    <2>1. /\ new \in TaskRecords
          /\ new.phase = "none" /\ new.stream = 0 /\ new.reply = "none"
        BY NewOperationActivates DEF NewTask, TaskRecords, Phases
    <2> HIDE DEF new
    <2>2. task = [t \in Tasks |-> new]
        BY DEF Init, new
    <2>3. \A t \in Tasks : task[t] = new /\ ~Live(t)
        BY <2>1, <2>2 DEF Live
    <2>4. LiveTasks = {}
        BY <2>3 DEF LiveTasks
    <2>5. IsFiniteSet(LiveTasks) /\ Cardinality(LiveTasks) = 0
        BY <2>4, FS_EmptySet
    <2>6. Typed
        <3>1. QueueTyped
            BY ServerAssumption DEF Init, QueueTyped
        <3>2. ConnectionTyped
            BY DEF Init, ConnectionTyped, ConnectionStates
        <3>3. task \in [Tasks -> TaskRecords]
            BY <2>1, <2>2
        <3>4. QED
            BY <3>1, <3>2, <3>3 DEF Init, Typed, NoOperations, QueueTyped, ConnectionTyped
    <2>7. OperationsMatch
        BY <2>1, <2>3, <2>5 DEF Init, OperationsMatch, NoOperations, LiveTasks
    <2>8. QED
        BY <2>1, <2>3, <2>4, <2>5, <2>6, <2>7
        DEF Init, IInv, LoopsAndDrain, RepliesFollow, LiveOperations, QueueOpenForHandlers,
            DoneSettles
<1>2. IInv /\ [Next]_vars => IInv'
    <2> SUFFICES ASSUME IInv, [Next]_vars PROVE IInv'
        OBVIOUS
    <2>1. Typed' /\ OperationsMatch' /\ IsFiniteSet(LiveTasks')
        BY TypedStep, MatchStep
    <2>2. LoopsAndDrain' /\ QueueOpenForHandlers'
        BY LoopsAndDrainStep, QueueOpenStep
    <2>3. RepliesFollow' /\ LiveOperations' /\ DoneSettles'
        BY RepliesStep, LiveOperationsStep, DoneSettlesStep
    <2>4. QED
        BY <2>1, <2>2, <2>3 DEF IInv
<1>3. QED
    BY <1>1, <1>2, PTL DEF Spec

\* operations_ and active_handlers_ describe exactly the live handlers, one per stream,
\* whatever the peer sends and in whatever order handlers, loops and shutdown() run.
THEOREM ServerIsConsistent == Spec => []ServerConsistent
<1>1. IInv => ServerConsistent
    <2> SUFFICES ASSUME IInv PROVE ServerConsistent
        OBVIOUS
    <2>1. ASSUME NEW t \in Tasks
          PROVE  /\ task[t].phase \in Phases
                 /\ task[t].stream \in Streams \cup {0}
                 /\ task[t].operation.state \in OperationStates
                 /\ task[t].reply \in {"none", "response", "error"}
        BY TaskFields DEF IInv, TaskRecords, OperationRecords
    <2>2. TypeOK
        BY <2>1 DEF IInv, Typed, TypeOK
    <2>3. QED
        BY <2>2 DEF IInv, ServerConsistent
<1>2. QED
    BY <1>1, ServerInvariant, PTL

\* run_handler() never sends a response for an operation that was cancelled or failed.
THEOREM ResponsesFollowCompletion == Spec => []ResponseOnlyIfCompleted
<1>1. IInv => ResponseOnlyIfCompleted
    BY DEF IInv, RepliesFollow, ResponseOnlyIfCompleted
<1>2. QED
    BY <1>1, ServerInvariant, PTL

\* close_queue_when_idle() never closes the queue under a live handler.
THEOREM QueueStaysOpen == Spec => []QueueOpenForHandlers
<1>1. IInv => QueueOpenForHandlers
    BY DEF IInv
<1>2. QED
    BY <1>1, ServerInvariant, PTL

\* When shutdown() is done, every handler still running had completed its operation or
\* was told to stop, and its operation has ended.
THEOREM ShutdownSettlesAll == Spec => []ShutdownSettles
<1>1. IInv => ShutdownSettles
    <2> SUFFICES ASSUME IInv, drain = "done", NEW t \in Tasks, Live(t)
                 PROVE  \/ task[t].operation.state = "completed"
                        \/ /\ is_terminal(task[t].operation)
                           /\ task[t].operation.cancellation_requested
        BY DEF ShutdownSettles
    <2>1. is_terminal(task[t].operation)
        BY DEF IInv, DoneSettles, LiveTasks
    <2>2. task[t].operation.state \in {"failed", "cancelled"} =>
              task[t].operation.cancellation_requested
        BY DEF IInv, LiveOperations, LiveTasks
    <2>3. QED
        BY <2>1, <2>2 DEF is_terminal, TerminalStates
<1>2. QED
    BY <1>1, ServerInvariant, PTL

\* No frame starts a handler once shutdown() was called.
THEOREM DrainAdmitsNothing == Spec => DrainStartsNothing
<1>1. IInv /\ [Next]_vars => [drain # "none" => active_handlers' <= active_handlers]_vars
    <2> SUFFICES ASSUME IInv, [Next]_vars, drain # "none"
                 PROVE  active_handlers' <= active_handlers
        OBVIOUS
    <2>1. ShuttingDown(state) /\ active_handlers \in Nat
        BY DEF IInv, LoopsAndDrain, Typed
    <2>2. QED
        BY <2>1, StepEffect DEF IInv, TasksKept, TaskBegins, TaskEnds
<1>2. QED
    BY <1>1, ServerInvariant, PTL DEF Spec, DrainStartsNothing
=============================================================================
