---------------------------- MODULE RpcSystemProofs ----------------------------
(***************************************************************************)
(* Correlation by stream identifier is sound for every set of requests,    *)
(* every range of stream identifiers and every queue limit, as long as no  *)
(* request is given up before it is answered (Timed and Abandonable are    *)
(* empty): the run misrouting shows what happens otherwise.                *)
(*                                                                         *)
(* The invariant follows a request around the system: its frame on the way *)
(* to the server, its task there, its response on the way back, and the    *)
(* entry of pending_ that waits for it.  What makes recycling harmless is  *)
(* that a stream is only given back after its response, which marks the    *)
(* stream terminal at the client and finds the server's task done.         *)
(***************************************************************************)
EXTENDS RpcSystem, ClientConnectionProofs

-----------------------------------------------------------------------------
(* The inductive invariant *)

\* The frame of the request was accepted by the client's queue ...
Sent(r) == request[r].phase \in {"open", "waiting", "returned"}

\* ... or waits for space in it.
Begun(r) == Sent(r) \/ request[r].phase = "enqueuing"

\* The server will not act on the request again: its handler is done, or the server
\* answers whatever it receives with an error.
Over(r) == task[r].phase = "done" \/ ShuttingDown(s_state)

\* No request has a deadline, none is abandoned, and a connection that reads was activated.
Undisturbed ==
    /\ \A r \in Requests : request[r].timer = "off" /\ request[r].phase # "discarded"
    /\ reader # "idle" => state # "created"

TaskRecords ==
    [phase : server!Phases, stream : server!Streams \cup {0}, operation : OperationRecords,
     reply : {"none", "response", "error"}]

\* The frames the server sends.
ReplyFrames ==
    [type : {"response"}, flag : {"none", "error"}, stream : server!Streams, end : {TRUE},
     payload : Requests \cup StatusCodes]

\* The part of the server's state that matters to its client: operations_ names live
\* handlers by their streams, and no stream is terminal, the client never ending one.
ServerTyped ==
    /\ operations \in [server!Streams -> Requests \cup {NoRequest}]
    /\ task \in [Requests -> TaskRecords]
    /\ s_terminal_streams = {}
    /\ s_state \in ConnectionStates
    /\ \A s \in server!Streams : operations[s] # NoRequest =>
          server!Live(operations[s]) /\ task[operations[s]].stream = s
    /\ \A r \in Requests :
          task[r].phase = "sending" => task[r].operation.state = "completed"

\* A request on its way to the server, which has not seen it.
Outbound(f) ==
    /\ f.payload \in Requests
    /\ Sent(f.payload)
    /\ f = RequestFrame(request[f.payload].stream, f.payload)
    /\ task[f.payload].phase = "none"

\* Everything on its way to the server, in the order in which it arrives.
wire == c2s \o queue

\* Each request is on its way at most once.
RequestsInFlight ==
    /\ c2s \in Seq(SentFrames)
    /\ \A i \in 1 .. Len(wire) : Outbound(wire[i])
    /\ \A i, j \in 1 .. Len(wire) : wire[i].payload = wire[j].payload => i = j

\* The server knows a request by the stream the client sent it on.
TasksMatch ==
    \A r \in Requests :
        /\ task[r].phase # "none" => Sent(r) /\ task[r].stream = request[r].stream
        /\ task[r].phase = "none" => task[r].operation.state # "completed"
        /\ Begun(r) => request[r].stream \in server!Streams

\* A response on its way to the client belongs to a request that is over.
Genuine(f) ==
    \E r \in Requests :
        /\ Sent(r)
        /\ request[r].stream = f.stream
        /\ Over(r)
        /\ f.flag = "none" => f.payload = r /\ task[r].operation.state = "completed"

RepliesInFlight ==
    /\ s2c \in Seq(ReplyFrames)
    /\ s_queue \in Seq(ReplyFrames)
    /\ \A i \in 1 .. Len(s2c) : Genuine(s2c[i])
    /\ \A i \in 1 .. Len(s_queue) : Genuine(s_queue[i])

\* While the client takes requests, only a response ends one.
Answered ==
    \A r \in Requests : Begun(r) /\ ~Active(r) =>
        ShuttingDown(state) \/ (request[r].stream \in terminal_streams /\ Over(r))

\* Until a response has come, the entry of a stream is that of its only request.
Routes ==
    \A r \in Requests : Begun(r) =>
        \/ request[r].stream \in terminal_streams
        \/ pending[request[r].stream] \in {r, NoRequest}

\* A stream is recycled only when the server is done with its earlier request.
Recycled ==
    \A r, x \in Requests :
        Begun(r) /\ Begun(x) /\ request[r].stream = request[x].stream /\ r # x
            => Over(r) \/ Over(x)

\* What a caller gets or is about to get is the response to its own request.
Delivered ==
    \A r \in Requests :
        request[r].channel \in Requests \/ request[r].outcome \in Requests =>
            /\ request[r].channel \in Requests => request[r].channel = r
            /\ request[r].outcome \in Requests => request[r].outcome = r
            /\ task[r].operation.state = "completed"

SystemInv ==
    /\ IInv
    /\ Undisturbed
    /\ ServerTyped
    /\ RequestsInFlight
    /\ TasksMatch
    /\ RepliesInFlight
    /\ Answered
    /\ Routes
    /\ Recycled
    /\ Delivered

-----------------------------------------------------------------------------
(* Frames in flight *)

\* What concatenation does.
LEMMA Concatenated ==
    ASSUME NEW S, NEW a \in Seq(S), NEW b \in Seq(S)
    PROVE  /\ a \o b \in Seq(S)
           /\ Len(a \o b) = Len(a) + Len(b)
           /\ \A i \in 1 .. Len(a \o b) :
                 (a \o b)[i] = IF i <= Len(a) THEN a[i] ELSE b[i - Len(a)]
BY SMT

\* The first frame arrives: the others move up.
LEMMA FirstArrives ==
    ASSUME NEW S, NEW a \in Seq(S), NEW b \in Seq(S), a # <<>>
    PROVE  /\ Len(Tail(a) \o b) = Len(a \o b) - 1
           /\ \A i \in 1 .. Len(Tail(a) \o b) : (Tail(a) \o b)[i] = (a \o b)[i + 1]
           /\ Head(a) = (a \o b)[1] /\ Len(a \o b) > 0
<1>1. /\ Tail(a) \in Seq(S)
      /\ Len(Tail(a)) = Len(a) - 1
      /\ \A i \in 1 .. Len(a) - 1 : Tail(a)[i] = a[i + 1]
      /\ Head(a) = a[1]
    BY SMT
<1>2. Len(a) \in Nat /\ Len(b) \in Nat /\ Len(a) > 0
    OBVIOUS
<1>3. QED
    BY <1>1, <1>2, Concatenated

\* A write moves a frame from the queue to the byte stream, and leaves the order alone.
LEMMA WriteKeepsOrder ==
    ASSUME NEW S, NEW a \in Seq(S), NEW b \in Seq(S), b # <<>>
    PROVE  /\ Len(Append(a, Head(b)) \o Tail(b)) = Len(a \o b)
           /\ \A i \in 1 .. Len(a \o b) : (Append(a, Head(b)) \o Tail(b))[i] = (a \o b)[i]
<1>1. /\ Tail(b) \in Seq(S)
      /\ Len(Tail(b)) = Len(b) - 1
      /\ \A i \in 1 .. Len(b) - 1 : Tail(b)[i] = b[i + 1]
    BY SMT
<1>2. Len(a) \in Nat /\ Len(b) \in Nat /\ Head(b) \in S /\ Head(b) = b[1] /\ Len(b) > 0
    OBVIOUS
<1>3. /\ Append(a, Head(b)) \in Seq(S)
      /\ Len(Append(a, Head(b))) = Len(a) + 1
      /\ \A i \in 1 .. Len(a) : Append(a, Head(b))[i] = a[i]
      /\ Append(a, Head(b))[Len(a) + 1] = b[1]
    BY <1>2
<1>4. QED
    BY <1>1, <1>2, <1>3, Concatenated

\* An accepted frame is the last to arrive.
LEMMA LastArrives ==
    ASSUME NEW S, NEW a \in Seq(S), NEW b \in Seq(S), NEW f \in S
    PROVE  /\ Len(a \o Append(b, f)) = Len(a \o b) + 1
           /\ \A i \in 1 .. Len(a \o b) : (a \o Append(b, f))[i] = (a \o b)[i]
           /\ (a \o Append(b, f))[Len(a \o b) + 1] = f
<1>1. /\ Append(b, f) \in Seq(S)
      /\ Len(Append(b, f)) = Len(b) + 1
      /\ \A i \in 1 .. Len(b) : Append(b, f)[i] = b[i]
      /\ Append(b, f)[Len(b) + 1] = f
    BY SMT
<1>2. Len(a) \in Nat /\ Len(b) \in Nat
    OBVIOUS
<1>3. QED
    BY <1>1, <1>2, Concatenated

\* What is on its way after a step is a part of what was on its way before it.
LEMMA WireShrinks ==
    ASSUME SystemInv, c2s' \in Seq(SentFrames),
           NEW n \in Nat,
           Len(wire') \in Nat,
           Len(wire') + n <= Len(wire),
           \A i \in 1 .. Len(wire') : wire'[i] = wire[i + n],
           \A i \in 1 .. Len(wire') : Outbound(wire[i])'
    PROVE  RequestsInFlight'
<1>1. Len(wire) \in Nat
    BY Concatenated DEF SystemInv, RequestsInFlight, wire, IInv, Typed, ConnectionTyped
<1>2. \A i \in 1 .. Len(wire') : i + n \in 1 .. Len(wire)
    BY <1>1
<1>3. \A i, j \in 1 .. Len(wire') : wire'[i].payload = wire'[j].payload => i = j
    BY <1>1, <1>2 DEF SystemInv, RequestsInFlight
<1>4. QED
    BY <1>3 DEF RequestsInFlight

-----------------------------------------------------------------------------
(* Steps of the server *)

\* The server forgets nothing: what is done stays done, what is completed completed, and
\* a server that shuts down goes on doing so.
ServerMoves ==
    /\ \A r \in Requests :
        /\ task[r].phase = "done" => task'[r].phase = "done"
        /\ task[r].operation.state = "completed" => task'[r].operation.state = "completed"
    /\ ShuttingDown(s_state) => ShuttingDown(s_state')

\* No request is received and none changes its stream.
NoneReceived ==
    \A r \in Requests :
        /\ task'[r].stream = task[r].stream
        /\ task'[r].phase = "none" <=> task[r].phase = "none"
        /\ task[r].phase = "none" => task'[r] = task[r]

\* The queue loses all its frames or none, or accepts the response to a request that is
\* over.
Sends ==
    \/ s_queue' \in {s_queue, <<>>}
    \/ \E f \in ReplyFrames : Genuine(f)' /\ s_queue' = Append(s_queue, f)

\* What a server step does to everything the client knows.
LEMMA ServerKeeps ==
    ASSUME SystemInv, UNCHANGED vars, ServerMoves
    PROVE  /\ Answered' /\ Routes' /\ Recycled' /\ Delivered'
           /\ \A f : Genuine(f) => Genuine(f)'
<1>1. UNCHANGED <<request, pending, terminal_streams, state>>
    BY DEF vars, requestVars, connVars
<1>2. \A r \in Requests :
        /\ Over(r) => Over(r)'
        /\ Sent(r)' <=> Sent(r)
        /\ Begun(r)' <=> Begun(r)
        /\ Active(r)' <=> Active(r)
    BY <1>1 DEF ServerMoves, Over, Sent, Begun, Active
<1>3. Answered'
    BY <1>1, <1>2 DEF SystemInv, Answered
<1>4. Routes'
    BY <1>1, <1>2 DEF SystemInv, Routes
<1>5. Recycled'
    BY <1>1, <1>2 DEF SystemInv, Recycled
<1>6. Delivered'
    BY <1>1 DEF SystemInv, Delivered, ServerMoves
<1>7. \A f : Genuine(f) => Genuine(f)'
    BY <1>1, <1>2 DEF Genuine, ServerMoves
<1>8. QED
    BY <1>3, <1>4, <1>5, <1>6, <1>7

\* A step that receives no request leaves the requests in flight as they are.
LEMMA NoneReceivedKeeps ==
    ASSUME SystemInv, UNCHANGED vars, NoneReceived
    PROVE  TasksMatch' /\ \A f : Outbound(f) => Outbound(f)'
<1>1. UNCHANGED request
    BY DEF vars, requestVars
<1>2. \A r \in Requests : (Sent(r)' <=> Sent(r)) /\ (Begun(r)' <=> Begun(r))
    BY <1>1 DEF Sent, Begun
<1>3. TasksMatch'
    BY <1>1, <1>2 DEF SystemInv, TasksMatch, NoneReceived
<1>4. \A f : Outbound(f) => Outbound(f)'
    BY <1>1, <1>2 DEF Outbound, NoneReceived
<1>5. QED
    BY <1>3, <1>4

\* The responses in flight after a server step.
LEMMA SendsKeeps ==
    ASSUME SystemInv, UNCHANGED vars, ServerMoves, Sends, UNCHANGED s2c
    PROVE  RepliesInFlight'
<1>1. \A f : Genuine(f) => Genuine(f)'
    BY ServerKeeps
<1>2. /\ s2c \in Seq(ReplyFrames)
      /\ s_queue \in Seq(ReplyFrames)
      /\ \A i \in 1 .. Len(s2c) : Genuine(s2c[i])
      /\ \A i \in 1 .. Len(s_queue) : Genuine(s_queue[i])
    BY DEF SystemInv, RepliesInFlight
<1>3. /\ s_queue' \in Seq(ReplyFrames)
      /\ \A i \in 1 .. Len(s_queue') :
            \/ i \in 1 .. Len(s_queue) /\ s_queue'[i] = s_queue[i]
            \/ \E f \in ReplyFrames : Genuine(f)' /\ s_queue'[i] = f
  <2>1. CASE s_queue' = s_queue
    BY <1>2, <2>1
  <2>2. CASE s_queue' = <<>>
    BY <2>2
  <2>3. ASSUME NEW f \in ReplyFrames, Genuine(f)', s_queue' = Append(s_queue, f)
        PROVE  /\ s_queue' \in Seq(ReplyFrames)
               /\ \A i \in 1 .. Len(s_queue') :
                     (i \in 1 .. Len(s_queue) /\ s_queue'[i] = s_queue[i]) \/ s_queue'[i] = f
    BY <1>2, <2>3
  <2>4. QED
    BY <2>1, <2>2, <2>3 DEF Sends
<1>4. \A i \in 1 .. Len(s_queue') : Genuine(s_queue[i])'
  <2> SUFFICES ASSUME NEW i \in 1 .. Len(s_queue') PROVE Genuine(s_queue[i])'
    OBVIOUS
  <2>1. PICK f : f = s_queue'[i]
    OBVIOUS
  <2>2. Genuine(f)'
    BY <1>1, <1>2, <1>3, <2>1
  <2>3. QED
    BY <2>1, <2>2 DEF Genuine, Over, Sent
<1>5. \A i \in 1 .. Len(s2c') : Genuine(s2c[i])'
  <2> SUFFICES ASSUME NEW i \in 1 .. Len(s2c') PROVE Genuine(s2c[i])'
    OBVIOUS
  <2>1. PICK f : f = s2c[i]
    OBVIOUS
  <2>2. Genuine(f)'
    BY <1>1, <1>2, <2>1
  <2>3. QED
    BY <2>1, <2>2 DEF Genuine, Over, Sent
<1>6. QED
    BY <1>2, <1>3, <1>4, <1>5 DEF RepliesInFlight

\* What a server step has to establish, apart from what is in flight.
ServerEffect == ServerTyped' /\ ServerMoves /\ NoneReceived

\* The end of run_handler() takes the handler out of operations_.
LEMMA HandlerEnds ==
    ASSUME SystemInv, NEW r \in Requests, server!Live(r), NEW q \in TaskRecords,
           q.stream = task[r].stream,
           task[r].operation.state = "completed" => q.operation.state = "completed",
           server!HandlerDone(r, q)
    PROVE  /\ ServerEffect
           /\ task'[r].phase = "done"
           /\ task'[r].operation = q.operation
<1> DEFINE d == [q EXCEPT !.phase = "done"]
<1>1. /\ operations \in [server!Streams -> Requests \cup {NoRequest}]
      /\ task \in [Requests -> TaskRecords]
      /\ s_terminal_streams = {}
      /\ s_state \in ConnectionStates
      /\ \A s \in server!Streams : operations[s] # NoRequest =>
            server!Live(operations[s]) /\ task[operations[s]].stream = s
      /\ \A x \in Requests :
            task[x].phase = "sending" => task[x].operation.state = "completed"
    BY DEF SystemInv, ServerTyped
<1>2. /\ task' = [task EXCEPT ![r] = d]
      /\ operations' = [operations EXCEPT ![q.stream] = NoRequest]
      /\ s_terminal_streams' = s_terminal_streams
      /\ s_state' = s_state
    BY DEF server!HandlerDone, server!connVars
<1>3. /\ d \in TaskRecords
      /\ d.phase = "done"
      /\ d.stream = task[r].stream
      /\ d.operation = q.operation
    BY DEF TaskRecords, server!Phases
<1> HIDE DEF d
<1>4. /\ task'[r] = d
      /\ \A x \in Requests : x # r => task'[x] = task[x]
      /\ task' \in [Requests -> TaskRecords]
    BY <1>1, <1>2, <1>3
<1>5. task[r].phase \notin {"none", "done"}
    BY DEF server!Live
<1>6. ServerMoves /\ NoneReceived
    BY <1>2, <1>3, <1>4, <1>5 DEF ServerMoves, NoneReceived
<1>7. ASSUME NEW s \in server!Streams, operations'[s] # NoRequest
      PROVE  server!Live(operations[s])' /\ task'[operations'[s]].stream = s
  <2>1. operations[s] # NoRequest /\ operations'[s] = operations[s]
    BY <1>1, <1>2, <1>7
  <2>2. operations[s] # r
  <3>1. CASE operations[s] = r
      BY <1>1, <1>2, <1>7, <2>1, <3>1
    <3>2. QED
      BY <3>1
  <2>3. operations[s] \in Requests
    BY <1>1, <2>1
  <2>4. QED
    BY <1>1, <1>4, <2>1, <2>2, <2>3 DEF server!Live
<1>8. ServerTyped'
  <2>1. operations' \in [server!Streams -> Requests \cup {NoRequest}]
    BY <1>1, <1>2
  <2>2. \A x \in Requests :
            task'[x].phase = "sending" => task'[x].operation.state = "completed"
    BY <1>1, <1>3, <1>4
  <2>3. QED
    BY <1>1, <1>2, <1>4, <1>7, <2>1, <2>2 DEF ServerTyped
<1>9. QED
    BY <1>3, <1>4, <1>6, <1>8 DEF ServerEffect

\* The frames the server makes.
LEMMA RepliesTyped ==
    ASSUME NEW s \in server!Streams
    PROVE  /\ \A r \in Requests : ResponseFrame(s, r) \in ReplyFrames
           /\ make_error_frame(s, "decode_error") \in ReplyFrames
           /\ make_error_frame(s, "connection_closed") \in ReplyFrames
<1>1. {"decode_error", "connection_closed"} \subseteq StatusCodes
    BY DEF StatusCodes, WireStatuses, TransportStatuses
<1>2. \A status \in StatusCodes : make_error_frame(s, status) \in ReplyFrames
    BY DEF make_error_frame, Frame, ReplyFrames
<1>3. \A r \in Requests : ResponseFrame(s, r) \in ReplyFrames
    BY DEF ResponseFrame, Frame, ReplyFrames
<1>4. QED
    BY <1>1, <1>2, <1>3

\* A reply of a handler that is done answers its own request.
LEMMA HandlerReplies ==
    ASSUME SystemInv, UNCHANGED vars, NEW r \in Requests, server!Live(r),
           task'[r].phase = "done",
           NEW f, f = make_error_frame(task[r].stream, "decode_error")
                  \/ (f = ResponseFrame(task[r].stream, r)
                      /\ task'[r].operation.state = "completed"),
           s_queue' = Append(s_queue, f)
    PROVE  Sends
<1>1. /\ Sent(r)
      /\ task[r].stream = request[r].stream
      /\ task[r].stream \in server!Streams
    BY DEF SystemInv, TasksMatch, server!Live, Begun
<1>2. f \in ReplyFrames
    BY <1>1, RepliesTyped
<1>3. Sent(r)' /\ request' = request
    BY <1>1 DEF vars, requestVars, Sent
<1>4. Over(r)'
    BY DEF Over
<1>5. Genuine(f)'
  <2>1. /\ f.stream = task[r].stream
        /\ f.flag = "none" => f.payload = r /\ task'[r].operation.state = "completed"
    BY DEF make_error_frame, ResponseFrame, Frame
  <2>2. QED
    BY <1>1, <1>3, <1>4, <2>1 DEF Genuine
<1>6. QED
    BY <1>2, <1>5 DEF Sends

\* The server connection's operations, states and frames are the client's.
LEMMA SameOperators ==
    /\ \A op : server!CanFinish(op) <=> CanFinish(op)
    /\ \A op : server!complete(op) = complete(op)
    /\ \A op, status : server!fail(op, status) = fail(op, status)
    /\ \A op : server!request_cancellation(op) = request_cancellation(op)
    /\ server!activate(server!NewOperation) = activate(NewOperation)
    /\ server!NewOperation = NewOperation
    /\ \A s : server!ShuttingDown(s) <=> ShuttingDown(s)
    /\ \A s, to : server!Transition(s, to) = Transition(s, to)
    /\ \A s, entry : server!BeginShutdown(s, entry) = BeginShutdown(s, entry)
    /\ \A s, payload : server!ResponseFrame(s, payload) = ResponseFrame(s, payload)
    /\ \A s, status : server!make_error_frame(s, status) = make_error_frame(s, status)
<1>1. \A op : server!CanFinish(op) <=> CanFinish(op)
    BY DEF server!CanFinish, CanFinish
<1>2. \A op, terminal, status : server!finish(op, terminal, status) = finish(op, terminal, status)
    BY DEF server!finish, finish, server!OperationEdges, OperationEdges, server!TerminalStates,
           TerminalStates
<1>3. \A op : server!complete(op) = complete(op)
    BY <1>2 DEF server!complete, complete
<1>4. \A op, status : server!fail(op, status) = fail(op, status)
    BY <1>2 DEF server!fail, fail
<1>5. \A op : server!request_cancellation(op) = request_cancellation(op)
    BY DEF server!request_cancellation, request_cancellation, server!is_terminal, is_terminal,
           server!TerminalStates, TerminalStates
<1>6. server!NewOperation = NewOperation
    BY DEF server!NewOperation, NewOperation
<1>7. server!activate(server!NewOperation) = activate(NewOperation)
    BY <1>6 DEF server!activate, activate, server!OperationEdges, OperationEdges,
                server!TerminalStates, TerminalStates
<1>8. \A s : server!ShuttingDown(s) <=> ShuttingDown(s)
    BY DEF server!ShuttingDown, ShuttingDown
<1>9. \A s, to : server!Transition(s, to) = Transition(s, to)
    BY DEF server!Transition, Transition, server!ConnectionEdges, ConnectionEdges
<1>10. \A s, entry : server!BeginShutdown(s, entry) = BeginShutdown(s, entry)
    BY <1>9 DEF server!BeginShutdown, BeginShutdown
<1>11. \A s, payload : server!ResponseFrame(s, payload) = ResponseFrame(s, payload)
    BY DEF server!ResponseFrame, ResponseFrame, server!Frame, Frame
<1>12. \A s, status : server!make_error_frame(s, status) = make_error_frame(s, status)
    BY DEF server!make_error_frame, make_error_frame, server!Frame, Frame
<1>13. QED
    BY <1>1, <1>3, <1>4, <1>5, <1>6, <1>7, <1>8, <1>9, <1>10, <1>11, <1>12

\* A step of a handler.
LEMMA HandlerStepEffect ==
    ASSUME SystemInv, UNCHANGED vars, NEW r \in Requests, server!HandlerStep(r)
    PROVE  ServerEffect /\ Sends
<1>1. /\ task \in [Requests -> TaskRecords]
      /\ task[r] \in TaskRecords
      /\ task[r].operation \in OperationRecords
      /\ s_terminal_streams = {}
      /\ operations \in [server!Streams -> Requests \cup {NoRequest}]
      /\ s_state \in ConnectionStates
      /\ \A s \in server!Streams : operations[s] # NoRequest =>
            server!Live(operations[s]) /\ task[operations[s]].stream = s
      /\ \A x \in Requests :
            task[x].phase = "sending" => task[x].operation.state = "completed"
    BY DEF SystemInv, ServerTyped, TaskRecords
\* The handler is done with q, and sends f or nothing.
<1>2. ASSUME NEW q \in TaskRecords, server!Live(r), q.stream = task[r].stream,
             task[r].operation.state = "completed" => q.operation.state = "completed",
             server!HandlerDone(r, q),
             \/ s_queue' = s_queue
             \/ s_queue' = Append(s_queue, make_error_frame(task[r].stream, "decode_error"))
             \/ /\ s_queue' = Append(s_queue, ResponseFrame(task[r].stream, r))
                /\ q.operation.state = "completed"
      PROVE  ServerEffect /\ Sends
  <2>1. /\ ServerEffect
        /\ task'[r].phase = "done"
        /\ task'[r].operation = q.operation
    BY <1>2, HandlerEnds
  <2>2. Sends
    BY <1>2, <2>1, HandlerReplies DEF Sends
  <2>3. QED
    BY <2>1, <2>2
\* The handler goes on as q.
<1>3. ASSUME NEW q \in TaskRecords, server!Live(r), q.stream = task[r].stream,
             q.phase \in {"running", "sending"},
             q.phase = "sending" => q.operation.state = "completed",
             task[r].operation.state = "completed" => q.operation.state = "completed",
             task' = [task EXCEPT ![r] = q],
             UNCHANGED <<operations, s_terminal_streams, s_queue, s_state>>
      PROVE  ServerEffect /\ Sends
  <2>1. /\ task'[r] = q
        /\ \A x \in Requests : x # r => task'[x] = task[x]
        /\ task' \in [Requests -> TaskRecords]
    BY <1>1, <1>3
  <2>2. ServerMoves /\ NoneReceived
    BY <1>3, <2>1 DEF ServerMoves, NoneReceived, server!Live
  <2>3. \A s \in server!Streams : operations'[s] # NoRequest =>
            server!Live(operations[s])' /\ task'[operations'[s]].stream = s
    <3> SUFFICES ASSUME NEW s \in server!Streams, operations[s] # NoRequest
                 PROVE  server!Live(operations[s])' /\ task'[operations'[s]].stream = s
      BY <1>3
    <3>1. operations[s] \in Requests /\ operations'[s] = operations[s]
      BY <1>1, <1>3
    <3>2. QED
      BY <1>1, <1>3, <2>1, <3>1 DEF server!Live
  <2>4. ServerTyped'
    BY <1>1, <1>3, <2>1, <2>3 DEF ServerTyped
  <2>5. QED
    BY <1>3, <2>2, <2>4 DEF ServerEffect, Sends
<1>4. CASE server!HandlerStarts(r)
  <2> DEFINE q == [task[r] EXCEPT !.phase = "running"]
  <2>1. /\ q \in TaskRecords
        /\ q.phase = "running"
        /\ q.stream = task[r].stream
        /\ q.operation = task[r].operation
    BY <1>1 DEF TaskRecords, server!Phases
  <2>2. /\ task' = [task EXCEPT ![r] = q]
        /\ task[r].phase = "spawned"
        /\ UNCHANGED <<operations, s_terminal_streams, s_queue, s_state>>
    BY <1>1, <1>4 DEF server!HandlerStarts, server!queueVars, server!connVars
  <2> HIDE DEF q
  <2>3. QED
    BY <1>3, <2>1, <2>2 DEF server!Live
<1>5. CASE server!HandlerRejects(r)
  <2> DEFINE op == fail(task[r].operation, "decode_error")
             q == [task[r] EXCEPT !.operation = op]
             e == [q EXCEPT !.reply = "error"]
  <2>1. "decode_error" \in StatusCodes \ {"ok"}
    BY DEF StatusCodes, WireStatuses
  <2>2. op \in OperationRecords
    BY <1>1, <2>1, OperationsTyped
  <2>3. task[r].operation.state = "completed" => op.state = "completed"
    BY <1>1, <2>1, TerminalIsFinal DEF is_terminal, TerminalStates
  <2> HIDE DEF op
  <2>4. /\ q \in TaskRecords /\ q.stream = task[r].stream /\ q.operation = op
        /\ q.phase = task[r].phase
        /\ e \in TaskRecords /\ e.stream = task[r].stream /\ e.operation = op
    BY <1>1, <2>2 DEF TaskRecords
  <2>5. /\ q.phase = "spawned"
        /\ \/ /\ s_queue' = Append(s_queue, make_error_frame(q.stream, "decode_error"))
              /\ server!HandlerDone(r, e)
           \/ s_queue' = s_queue /\ server!HandlerDone(r, q)
    BY <1>5, SameOperators DEF server!HandlerRejects, op
  <2> HIDE DEF q, e
  <2>6. QED
    BY <1>2, <2>3, <2>4, <2>5 DEF server!Live
<1>6. CASE server!HandlerFails(r) \/ server!HandlerReturnsLate(r) \/ server!ResponseRefused(r)
    BY <1>1, <1>2, <1>6
       DEF server!HandlerFails, server!HandlerReturnsLate, server!ResponseRefused, server!Live
<1>7. CASE server!HandlerReturns(r)
  <2> DEFINE op == complete(task[r].operation)
             q == [task[r] EXCEPT !.operation = op]
             e == [task[r] EXCEPT !.operation = op, !.reply = "response"]
             w == [task[r] EXCEPT !.operation = op, !.phase = "sending"]
  <2>1. task[r].phase = "running" /\ task[r].operation.state = "active"
    BY <1>7, SameOperators DEF server!HandlerReturns, CanFinish
  <2>2. "decode_error" \in StatusCodes \ {"ok"}
    BY DEF StatusCodes, WireStatuses
  <2>3. op \in OperationRecords /\ op.state = "completed"
    BY <1>1, <2>1, <2>2, OperationsTyped, ActiveFinishes
  <2>4. \/ /\ s_queue' = Append(s_queue, ResponseFrame(task[r].stream, r))
           /\ server!HandlerDone(r, e)
        \/ /\ task' = [task EXCEPT ![r] = w]
           /\ UNCHANGED <<operations, s_terminal_streams, s_queue, s_state>>
        \/ s_queue' = s_queue /\ server!HandlerDone(r, q)
    BY <1>7, SameOperators
       DEF server!HandlerReturns, server!Responded, server!queueVars, server!connVars
  <2> HIDE DEF op
  <2>5. /\ q \in TaskRecords /\ q.stream = task[r].stream /\ q.operation = op
        /\ e \in TaskRecords /\ e.stream = task[r].stream /\ e.operation = op
        /\ w \in TaskRecords /\ w.stream = task[r].stream /\ w.operation = op
        /\ w.phase = "sending"
    BY <1>1, <2>3 DEF TaskRecords, server!Phases
  <2> HIDE DEF q, e, w
  <2>6. QED
    BY <1>2, <1>3, <2>1, <2>3, <2>4, <2>5 DEF server!Live
<1>8. CASE server!ResponseAccepted(r)
  <2> DEFINE e == [task[r] EXCEPT !.reply = "response"]
  <2>1. /\ task[r].phase = "sending"
        /\ s_queue' = Append(s_queue, ResponseFrame(task[r].stream, r))
        /\ server!HandlerDone(r, e)
    BY <1>8, SameOperators DEF server!ResponseAccepted
  <2>2. e \in TaskRecords /\ e.stream = task[r].stream /\ e.operation = task[r].operation
    BY <1>1 DEF TaskRecords
  <2>3. task[r].operation.state = "completed"
    BY <1>1, <2>1
  <2> HIDE DEF e
  <2>4. QED
    BY <1>2, <2>1, <2>2, <2>3 DEF server!Live
<1>9. QED
    BY <1>4, <1>5, <1>6, <1>7, <1>8 DEF server!HandlerStep

\* The end of a connection fails the operations of live handlers and leaves the rest alone.
LEMMA OperationsFail ==
    ASSUME SystemInv, task' = task \/ task' = server!FailOperations(task),
           UNCHANGED <<operations, s_terminal_streams>>,
           s_state' \in ConnectionStates,
           ShuttingDown(s_state) => ShuttingDown(s_state')
    PROVE  ServerEffect
<1> DEFINE failed(r) == fail(request_cancellation(task[r].operation), "connection_closed")
<1>1. /\ task \in [Requests -> TaskRecords]
      /\ \A r \in Requests : task[r] \in TaskRecords /\ task[r].operation \in OperationRecords
      /\ s_terminal_streams = {}
      /\ operations \in [server!Streams -> Requests \cup {NoRequest}]
      /\ \A s \in server!Streams : operations[s] # NoRequest =>
            server!Live(operations[s]) /\ task[operations[s]].stream = s
      /\ \A x \in Requests :
            task[x].phase = "sending" => task[x].operation.state = "completed"
    BY DEF SystemInv, ServerTyped, TaskRecords
<1>2. "connection_closed" \in StatusCodes \ {"ok"}
    BY DEF StatusCodes, TransportStatuses
<1>3. ASSUME NEW r \in Requests
      PROVE  /\ failed(r) \in OperationRecords
             /\ task[r].operation.state = "completed" => failed(r).state = "completed"
  <2>1. request_cancellation(task[r].operation) \in OperationRecords
    BY <1>1, <1>2, OperationsTyped
  <2>2. failed(r) \in OperationRecords
    BY <1>2, <2>1, OperationsTyped
  <2>3. task[r].operation.state = "completed" => failed(r) = task[r].operation
    BY <1>1, <1>2, TerminalIsFinal DEF is_terminal, TerminalStates
  <2>4. QED
    BY <2>2, <2>3
<1>4. ASSUME NEW r \in Requests
      PROVE  /\ task'[r] \in TaskRecords
             /\ task'[r].phase = task[r].phase
             /\ task'[r].stream = task[r].stream
             /\ task[r].operation.state = "completed" => task'[r].operation.state = "completed"
             /\ task[r].phase = "none" => task'[r] = task[r]
  <2>1. \/ task'[r] = task[r]
        \/ /\ task'[r] = [task[r] EXCEPT !.operation = failed(r)]
           /\ \E s \in server!Streams : operations[s] = r
    BY <1>1, SameOperators DEF server!FailOperations
  <2>2. CASE task'[r] = task[r]
    BY <1>1, <2>2
  <2>3. CASE /\ task'[r] = [task[r] EXCEPT !.operation = failed(r)]
             /\ \E s \in server!Streams : operations[s] = r
    <3>1. task[r].phase # "none"
      BY <1>1, <2>3, ClientAssumption DEF server!Live
    <3>2. failed(r) \in OperationRecords
          /\ (task[r].operation.state = "completed" => failed(r).state = "completed")
      BY <1>3
    <3> HIDE DEF failed
    <3>3. QED
      BY <1>1, <2>3, <3>1, <3>2 DEF TaskRecords
  <2>4. QED
    BY <2>1, <2>2, <2>3
<1>5. task' \in [Requests -> TaskRecords]
  <2>1. task' = [r \in Requests |-> task'[r]]
    BY <1>1 DEF server!FailOperations
  <2>2. QED
    BY <1>4, <2>1
<1>6. ServerMoves /\ NoneReceived
    BY <1>4 DEF ServerMoves, NoneReceived
<1>7. ASSUME NEW s \in server!Streams, operations'[s] # NoRequest
      PROVE  server!Live(operations[s])' /\ task'[operations'[s]].stream = s
  <2>1. operations'[s] = operations[s] /\ operations[s] \in Requests
    BY <1>1, <1>7
  <2>2. QED
    BY <1>1, <1>4, <1>7, <2>1 DEF server!Live
<1>8. ServerTyped'
    BY <1>1, <1>4, <1>5, <1>7 DEF ServerTyped
<1>9. QED
    BY <1>6, <1>8 DEF ServerEffect

\* Where the transitions of the server's lifecycle lead.
LEMMA ServerTransitions ==
    ASSUME NEW s \in ConnectionStates
    PROVE  /\ \A to \in ConnectionStates : Transition(s, to) \in ConnectionStates
           /\ BeginShutdown(s, "accepting") \in ConnectionStates
           /\ ShuttingDown(s) => /\ s # "created"
                                 /\ ShuttingDown(Transition(s, "closed"))
                                 /\ BeginShutdown(s, "accepting") = s
<1>1. \A to \in ConnectionStates : Transition(s, to) \in ConnectionStates
    BY DEF Transition
<1>2. BeginShutdown(s, "accepting") \in ConnectionStates
    BY DEF BeginShutdown, Transition, ConnectionStates
<1>3. ShuttingDown(s) => /\ s # "created"
                         /\ ShuttingDown(Transition(s, "closed"))
                         /\ BeginShutdown(s, "accepting") = s
    BY ShuttingDownStays DEF ShuttingDown
<1>4. QED
    BY <1>1, <1>2, <1>3

\* run(), the write queue, shutdown() and the end of the stream.
LEMMA ServerLocalEffect ==
    ASSUME SystemInv, UNCHANGED vars,
           \/ server!WriteFails \/ server!WriterStops \/ server!Run \/ server!Shutdown
           \/ server!DrainEnds \/ server!ReadLost(FALSE) \/ server!ReadLost(TRUE)
    PROVE  ServerEffect /\ Sends
<1>1. s_state \in ConnectionStates
    BY DEF SystemInv, ServerTyped
<1>2. s_queue' \in {s_queue, <<>>}
    BY DEF server!WriteFails, server!WriterStops, server!Run, server!Shutdown, server!DrainEnds,
           server!ReadLost, server!queueVars
<1>3. UNCHANGED <<operations, s_terminal_streams>>
    BY DEF server!WriteFails, server!WriterStops, server!Run, server!Shutdown, server!DrainEnds,
           server!ReadLost, server!taskVars
<1>4. task' = task \/ task' = server!FailOperations(task)
    BY DEF server!WriteFails, server!WriterStops, server!Run, server!Shutdown, server!DrainEnds,
           server!ReadLost, server!taskVars, server!FinishShutdown
<1> DEFINE started == Transition(Transition(s_state, "accepting"), "active")
           begun == BeginShutdown(s_state, "accepting")
<1>5. \/ s_state' = s_state
      \/ s_state' = Transition(s_state, "closed")
      \/ s_state' = begun
      \/ s_state' = Transition(begun, "closed")
      \/ s_state = "created" /\ s_state' = started
    BY SameOperators
       DEF server!WriteFails, server!WriterStops, server!Run, server!Shutdown, server!DrainEnds,
           server!ReadLost, server!FinishShutdown, server!EndReading
<1>6. /\ {"accepting", "active", "closed"} \subseteq ConnectionStates
      /\ begun \in ConnectionStates
      /\ started \in ConnectionStates
  <2>1. {"accepting", "active", "closed"} \subseteq ConnectionStates
    BY DEF ConnectionStates
  <2>2. QED
    BY <1>1, <2>1, ServerTransitions
<1>7. s_state' \in ConnectionStates /\ (ShuttingDown(s_state) => ShuttingDown(s_state'))
  <2> HIDE DEF started, begun
  <2>1. /\ Transition(s_state, "closed") \in ConnectionStates
        /\ Transition(begun, "closed") \in ConnectionStates
    BY <1>1, <1>6, ServerTransitions
  <2>2. ShuttingDown(s_state) => /\ s_state # "created"
                                 /\ ShuttingDown(Transition(s_state, "closed"))
                                 /\ begun = s_state
    BY <1>1, ServerTransitions DEF begun
  <2>3. QED
    BY <1>1, <1>5, <1>6, <2>1, <2>2
<1>8. QED
    BY <1>2, <1>3, <1>4, <1>7, OperationsFail DEF Sends

\* The next frame the server reads is a request it has not seen, on a stream whose earlier
\* requests are over.
LEMMA NextArrival ==
    ASSUME SystemInv, c2s # <<>>
    PROVE  /\ Outbound(Head(c2s))
           /\ Head(c2s) = RequestFrame(Head(c2s).stream, Head(c2s).payload)
           /\ Head(c2s).stream \in server!Streams
           /\ ~ShuttingDown(s_state) => operations[Head(c2s).stream] = NoRequest
<1>1. /\ c2s \in Seq(SentFrames)
      /\ queue \in Seq(SentFrames)
      /\ \A i \in 1 .. Len(wire) : Outbound(wire[i])
    BY DEF SystemInv, RequestsInFlight, IInv, Typed, ConnectionTyped
<1>2. PICK f : f = Head(c2s)
    OBVIOUS
<1>3. Head(c2s) = wire[1] /\ Len(wire) > 0 /\ Len(wire) \in Nat
    BY <1>1, FirstArrives, Concatenated DEF wire
<1>4. Outbound(f)
  <2>1. Outbound(wire[1])
    BY <1>1, <1>3
  <2>2. QED
    BY <1>2, <1>3, <2>1 DEF Outbound
<1>5. f.payload \in Requests /\ f.stream = request[f.payload].stream
    BY <1>4 DEF Outbound, RequestFrame, Frame
<1>6. f.stream \in server!Streams
    BY <1>4, <1>5 DEF Outbound, SystemInv, TasksMatch, Begun
<1>7. ASSUME ~ShuttingDown(s_state), operations[f.stream] # NoRequest PROVE FALSE
  <2> DEFINE r == f.payload
             x == operations[f.stream]
  <2>1. x \in Requests /\ server!Live(x) /\ task[x].stream = f.stream
    BY <1>6, <1>7 DEF SystemInv, ServerTyped
  <2>2. x # r /\ Sent(r) /\ task[r].phase = "none"
    BY <1>4, <2>1 DEF Outbound, server!Live
  <2>3. Sent(x) /\ request[x].stream = f.stream
    BY <2>1 DEF SystemInv, TasksMatch, server!Live
  <2>4. ~Over(x) /\ ~Over(r)
    BY <1>7, <2>1, <2>2 DEF Over, server!Live
  <2>5. QED
    BY <1>5, <2>1, <2>2, <2>3, <2>4 DEF SystemInv, Recycled, Begun
<1>8. f = RequestFrame(f.stream, f.payload)
    BY <1>4, <1>5 DEF Outbound
<1>9. QED
    BY <1>2, <1>4, <1>6, <1>7, <1>8 DEF Outbound

\* The server answers it with an error when it is shutting down, or starts its handler.
LEMMA ArrivalHandled ==
    ASSUME SystemInv, c2s # <<>>, server!Dispatch(Head(c2s))
    PROVE  server!DispatchDraining(Head(c2s)) \/ server!DispatchRequest(Head(c2s))
<1> DEFINE f == Head(c2s)
<1>1. /\ f.type = "request" /\ f.flag = "none"
      /\ f.payload \in Requests
      /\ f.stream \in server!Streams
      /\ ~ShuttingDown(s_state) => operations[f.stream] = NoRequest
    BY NextArrival DEF RequestFrame, Frame, Outbound
<1>2. f.payload \notin {"empty", "unregistered"}
    BY <1>1, SystemAssumption
<1>3. s_terminal_streams = {}
    BY DEF SystemInv, ServerTyped
<1> HIDE DEF f
<1>4. ~server!DispatchViolation(f)
    BY <1>1, <1>3 DEF server!DispatchViolation, server!Verdict
<1>5. ~server!DispatchCancel(f)
    BY <1>1 DEF server!DispatchCancel
<1>6. ~server!DispatchUnhandled(f)
    BY <1>2 DEF server!DispatchUnhandled
<1>7. ~server!DispatchDuplicate(f)
    BY <1>1, SameOperators DEF server!DispatchDuplicate
<1>8. QED
    BY <1>4, <1>5, <1>6, <1>7 DEF server!Dispatch, f

\* After a frame the loop reads on or ends.
LEMMA ContinueEffect ==
    ASSUME SystemInv, NEW handlers, server!Continue(handlers)
    PROVE  /\ s_state' \in ConnectionStates
           /\ ShuttingDown(s_state) => ShuttingDown(s_state')
<1>1. s_state \in ConnectionStates /\ "closed" \in ConnectionStates
    BY DEF SystemInv, ServerTyped, ConnectionStates
<1>2. s_state' = s_state \/ s_state' = Transition(s_state, "closed")
    BY SameOperators DEF server!Continue, server!EndReading, server!connVars
<1>3. QED
    BY <1>1, <1>2, ServerTransitions

\* A draining server answers with an error.
LEMMA DrainingEffect ==
    ASSUME SystemInv, UNCHANGED vars, c2s # <<>>, server!DispatchDraining(Head(c2s))
    PROVE  ServerEffect /\ Sends
<1> DEFINE f == Head(c2s)
           e == make_error_frame(f.stream, "connection_closed")
<1>1. /\ f.payload \in Requests /\ Sent(f.payload)
      /\ f.stream \in server!Streams
      /\ request[f.payload].stream = f.stream
      /\ ~f.end
    BY NextArrival DEF RequestFrame, Frame, Outbound
<1> HIDE DEF f
<1>2. /\ ShuttingDown(s_state)
      /\ server!SendOperationError(f.stream, "connection_closed")
      /\ UNCHANGED <<operations, task, s_terminal_streams>>
      /\ \E handlers : server!Continue(handlers)
    BY <1>1, SameOperators DEF server!DispatchDraining, server!MarkTerminal, server!taskVars, f
<1>3. s_state' \in ConnectionStates /\ ShuttingDown(s_state')
    BY <1>2, ContinueEffect
<1>4. ServerEffect
    BY <1>2, <1>3, OperationsFail
<1>5. e \in ReplyFrames /\ e.stream = f.stream /\ e.flag = "error"
  <2>1. e \in ReplyFrames
    BY <1>1, RepliesTyped
  <2>2. QED
    BY <2>1 DEF make_error_frame, Frame
<1>6. s_queue' = s_queue \/ s_queue' = Append(s_queue, e)
    BY <1>2, SameOperators DEF server!SendOperationError
<1> HIDE DEF e
<1>7. PICK g \in ReplyFrames : g = e
    BY <1>5
<1>8. PICK r \in Requests : r = f.payload
    BY <1>1
<1>9. Sent(r)' /\ request'[r].stream = g.stream /\ g.flag # "none"
    BY <1>1, <1>5, <1>7, <1>8 DEF vars, requestVars, Sent
<1>10. Over(r)'
    BY <1>3 DEF Over
<1>11. Genuine(g)'
    BY <1>9, <1>10 DEF Genuine
<1>12. QED
    BY <1>4, <1>6, <1>7, <1>11 DEF Sends

\* A request that arrives gets a handler, and is known by the stream it came on.
LEMMA RequestEffect ==
    ASSUME SystemInv, UNCHANGED vars, c2s # <<>>, server!DispatchRequest(Head(c2s))
    PROVE  /\ ServerTyped' /\ ServerMoves /\ Sends /\ TasksMatch'
           /\ \A f : Outbound(f) /\ f.payload # Head(c2s).payload => Outbound(f)'
<1>1. PICK r \in Requests, s \in server!Streams : r = Head(c2s).payload /\ s = Head(c2s).stream
    BY NextArrival DEF Outbound
<1>2. /\ Sent(r) /\ request[r].stream = s
      /\ task[r].phase = "none"
      /\ task[r].operation.state # "completed"
    BY <1>1, NextArrival DEF RequestFrame, Frame, Outbound, SystemInv, TasksMatch
<1>3. /\ operations \in [server!Streams -> Requests \cup {NoRequest}]
      /\ task \in [Requests -> TaskRecords]
      /\ s_terminal_streams = {}
      /\ \A t \in server!Streams : operations[t] # NoRequest =>
            server!Live(operations[t]) /\ task[operations[t]].stream = t
      /\ \A x \in Requests :
            task[x].phase = "sending" => task[x].operation.state = "completed"
    BY DEF SystemInv, ServerTyped
<1> DEFINE op == activate(NewOperation)
           q == [task[r] EXCEPT !.phase = "spawned", !.stream = s, !.operation = op]
<1>4. /\ task' = [task EXCEPT ![r].phase = "spawned", ![r].stream = s, ![r].operation = op]
      /\ operations' = [operations EXCEPT ![s] = r]
      /\ UNCHANGED <<s_terminal_streams, s_queue>>
      /\ \E handlers : server!Continue(handlers)
    BY <1>1, SameOperators DEF server!DispatchRequest
<1>5. op \in OperationRecords /\ op.state = "active"
    BY NewOperationActivates
<1> HIDE DEF op
<1>6. task' = [task EXCEPT ![r] = q]
    BY <1>3, <1>4
<1>7. /\ q \in TaskRecords
      /\ q.phase = "spawned"
      /\ q.stream = s
      /\ q.operation = op
    BY <1>3, <1>5 DEF TaskRecords, server!Phases
<1> HIDE DEF q
<1>8. /\ task'[r] = q
      /\ \A x \in Requests : x # r => task'[x] = task[x]
      /\ task' \in [Requests -> TaskRecords]
    BY <1>3, <1>6, <1>7
<1>9. s_state' \in ConnectionStates /\ (ShuttingDown(s_state) => ShuttingDown(s_state'))
    BY <1>4, ContinueEffect
<1>10. ServerMoves
    BY <1>2, <1>8, <1>9 DEF ServerMoves
<1>11. ASSUME NEW t \in server!Streams, operations'[t] # NoRequest
       PROVE  server!Live(operations[t])' /\ task'[operations'[t]].stream = t
  <2>1. CASE t = s
    <3>1. operations'[t] = r
      BY <1>3, <1>4, <2>1
    <3>2. QED
      BY <1>7, <1>8, <2>1, <3>1 DEF server!Live
  <2>2. CASE t # s
    <3>1. /\ operations'[t] = operations[t]
          /\ operations[t] \in Requests
          /\ operations[t] # r
      BY <1>2, <1>3, <1>4, <1>11, <2>2 DEF server!Live
    <3>2. QED
      BY <1>3, <1>8, <1>11, <3>1 DEF server!Live
  <2>3. QED
    BY <2>1, <2>2
<1>12. ServerTyped'
  <2>1. operations' \in [server!Streams -> Requests \cup {NoRequest}]
    BY <1>3, <1>4
  <2>2. \A x \in Requests :
            task'[x].phase = "sending" => task'[x].operation.state = "completed"
    BY <1>3, <1>7, <1>8
  <2>3. QED
    BY <1>3, <1>4, <1>8, <1>9, <1>11, <2>1, <2>2 DEF ServerTyped
<1>13. UNCHANGED request /\ \A x \in Requests : (Sent(x)' <=> Sent(x)) /\ (Begun(x)' <=> Begun(x))
    BY DEF vars, requestVars, Sent, Begun
<1>14. TasksMatch'
  <2> SUFFICES ASSUME NEW x \in Requests
               PROVE  /\ task'[x].phase # "none" =>
                             Sent(x)' /\ task'[x].stream = request'[x].stream
                      /\ task'[x].phase = "none" => task'[x].operation.state # "completed"
                      /\ Begun(x)' => request'[x].stream \in server!Streams
    BY DEF TasksMatch
  <2>1. CASE x = r
    BY <1>2, <1>7, <1>8, <1>13, <2>1
  <2>2. CASE x # r
    BY <1>8, <1>13, <2>2 DEF SystemInv, TasksMatch
  <2>3. QED
    BY <2>1, <2>2
<1>15. \A f : Outbound(f) /\ f.payload # r => Outbound(f)'
    BY <1>8, <1>13 DEF Outbound
<1>16. QED
    BY <1>1, <1>4, <1>10, <1>12, <1>14, <1>15 DEF Sends

\* A step of the server does not touch the client.
LEMMA ClientUntouched ==
    ASSUME SystemInv, UNCHANGED vars
    PROVE  IInv' /\ Undisturbed' /\ queue' = queue
<1>1. IInv'
    BY StepInv DEF SystemInv
<1>2. Undisturbed'
    BY DEF SystemInv, Undisturbed, vars, requestVars, connVars
<1>3. QED
    BY <1>1, <1>2 DEF vars, queueVars

\* What is on its way to the server when the client writes nothing and the server receives
\* no request.
LEMMA WireKept ==
    ASSUME SystemInv, UNCHANGED queue, c2s' = c2s \/ c2s' = <<>> \/ (c2s # <<>> /\ c2s' = Tail(c2s)),
           \A f : Outbound(f) => Outbound(f)'
    PROVE  RequestsInFlight'
<1>1. /\ c2s \in Seq(SentFrames)
      /\ queue \in Seq(SentFrames)
      /\ \A i \in 1 .. Len(wire) : Outbound(wire[i])
    BY DEF SystemInv, RequestsInFlight, IInv, Typed, ConnectionTyped
<1>2. c2s' \in Seq(SentFrames)
  <2>1. <<>> \in Seq(SentFrames) /\ (c2s # <<>> => Tail(c2s) \in Seq(SentFrames))
    BY <1>1
  <2>2. QED
    BY <1>1, <2>1
<1>3. \E n \in Nat :
        /\ Len(wire') + n = Len(wire)
        /\ \A i \in 1 .. Len(wire') : wire'[i] = wire[i + n]
  <2>1. Len(wire) \in Nat /\ Len(c2s) \in Nat /\ Len(queue) \in Nat
    BY <1>1, Concatenated DEF wire
  <2>2. CASE c2s' = c2s
    <3>1. wire' = wire
      BY <2>2 DEF wire
    <3>2. Len(wire') + 0 = Len(wire) /\ \A i \in 1 .. Len(wire') : wire'[i] = wire[i + 0]
      BY <2>1, <3>1
    <3>3. QED
      BY <3>2
  <2>3. CASE c2s' = <<>>
    <3>1. wire' = queue
      BY <1>1, <2>3 DEF wire
    <3>2. /\ Len(wire) = Len(queue) + Len(c2s)
          /\ \A i \in 1 .. Len(queue) : wire[i + Len(c2s)] = queue[i]
      BY <1>1, <2>1, Concatenated DEF wire
    <3>3. QED
      BY <2>1, <3>1, <3>2
  <2>4. CASE c2s # <<>> /\ c2s' = Tail(c2s)
    BY <1>1, <2>1, <2>4, FirstArrives DEF wire
  <2>5. QED
    BY <2>2, <2>3, <2>4
<1>4. PICK n \in Nat :
        /\ Len(wire') + n = Len(wire)
        /\ \A i \in 1 .. Len(wire') : wire'[i] = wire[i + n]
    BY <1>3
<1>5. Len(wire) \in Nat /\ Len(wire') \in Nat
    BY <1>1, <1>2, Concatenated DEF wire
<1>6. ASSUME NEW i \in 1 .. Len(wire') PROVE Outbound(wire[i])'
  <2>1. PICK f : f = wire'[i]
    OBVIOUS
  <2>2. i + n \in 1 .. Len(wire) /\ f = wire[i + n]
    BY <1>4, <1>5, <2>1
  <2>3. Outbound(f)
    BY <1>1, <2>2
  <2>4. QED
    BY <2>1, <2>3 DEF Outbound, Sent
<1>7. QED
    BY <1>2, <1>4, <1>5, <1>6, WireShrinks

\* A server step that receives no request keeps the invariant.
LEMMA ServerEffectInv ==
    ASSUME SystemInv, UNCHANGED vars, ServerEffect, Sends, UNCHANGED s2c,
           c2s' = c2s \/ c2s' = <<>> \/ (c2s # <<>> /\ c2s' = Tail(c2s))
    PROVE  SystemInv'
<1>1. IInv' /\ Undisturbed' /\ queue' = queue
    BY ClientUntouched
<1>2. ServerTyped' /\ ServerMoves /\ NoneReceived
    BY DEF ServerEffect
<1>3. TasksMatch' /\ \A f : Outbound(f) => Outbound(f)'
    BY <1>2, NoneReceivedKeeps
<1>4. RequestsInFlight'
    BY <1>1, <1>3, WireKept
<1>5. Answered' /\ Routes' /\ Recycled' /\ Delivered'
    BY <1>2, ServerKeeps
<1>6. RepliesInFlight'
    BY <1>2, SendsKeeps
<1>7. QED
    BY <1>1, <1>2, <1>3, <1>4, <1>5, <1>6 DEF SystemInv

\* Neither does the start of a handler break it: its request is no longer on its way.
LEMMA ServerSpawnsInv ==
    ASSUME SystemInv, UNCHANGED vars, UNCHANGED s2c, c2s # <<>>, c2s' = Tail(c2s),
           server!DispatchRequest(Head(c2s))
    PROVE  SystemInv'
<1>1. IInv' /\ Undisturbed' /\ queue' = queue
    BY ClientUntouched
<1>2. /\ ServerTyped' /\ ServerMoves /\ Sends /\ TasksMatch'
      /\ \A f : Outbound(f) /\ f.payload # Head(c2s).payload => Outbound(f)'
    BY RequestEffect
<1>3. RequestsInFlight'
  <2>1. /\ c2s \in Seq(SentFrames)
        /\ queue \in Seq(SentFrames)
        /\ \A i \in 1 .. Len(wire) : Outbound(wire[i])
        /\ \A i, j \in 1 .. Len(wire) : wire[i].payload = wire[j].payload => i = j
    BY DEF SystemInv, RequestsInFlight, IInv, Typed, ConnectionTyped
  <2>2. c2s' \in Seq(SentFrames)
    BY <2>1
  <2>3. Len(wire) \in Nat /\ Len(wire') \in Nat
    BY <1>1, <2>1, <2>2, Concatenated DEF wire
  <2>4. /\ Len(wire') + 1 = Len(wire)
        /\ Head(c2s) = wire[1]
        /\ \A i \in 1 .. Len(wire') : wire'[i] = wire[i + 1]
    BY <1>1, <2>1, <2>3, FirstArrives DEF wire
  <2>5. ASSUME NEW i \in 1 .. Len(wire') PROVE Outbound(wire[i])'
    <3>1. PICK f : f = wire'[i]
      OBVIOUS
    <3>2. /\ i + 1 \in 1 .. Len(wire) /\ 1 \in 1 .. Len(wire) /\ i + 1 # 1
          /\ f = wire[i + 1]
      BY <2>3, <2>4, <3>1
    <3>3. Outbound(f) /\ f.payload # Head(c2s).payload
      BY <2>1, <2>4, <3>2
    <3>4. Outbound(f)'
      BY <1>2, <3>3
    <3>5. QED
      BY <3>1, <3>4 DEF Outbound, Sent
  <2>6. PICK n \in Nat : n = 1
    OBVIOUS
  <2>7. /\ Len(wire') + n <= Len(wire)
        /\ \A i \in 1 .. Len(wire') : wire'[i] = wire[i + n]
    BY <2>3, <2>4, <2>6
  <2>8. QED
    BY <2>2, <2>3, <2>5, <2>7, WireShrinks
<1>4. Answered' /\ Routes' /\ Recycled' /\ Delivered'
    BY <1>2, ServerKeeps
<1>5. RepliesInFlight'
    BY <1>2, SendsKeeps
<1>6. QED
    BY <1>1, <1>2, <1>3, <1>4, <1>5 DEF SystemInv

\* A write of the server moves a response from its queue to the byte stream.
LEMMA ServerWritesInv ==
    ASSUME SystemInv, ServerWrites
    PROVE  SystemInv'
<1>1. /\ UNCHANGED vars /\ UNCHANGED c2s
      /\ UNCHANGED <<operations, task, s_terminal_streams, s_state>>
      /\ s_queue # <<>> /\ s_queue' = Tail(s_queue) /\ s2c' = Append(s2c, Head(s_queue))
    BY DEF ServerWrites, server!WriteDone, server!taskVars, server!connVars
<1>2. IInv' /\ Undisturbed' /\ queue' = queue
    BY <1>1, ClientUntouched
<1>3. /\ ServerMoves /\ NoneReceived
    BY <1>1 DEF ServerMoves, NoneReceived
<1>4. ServerTyped'
    BY <1>1 DEF SystemInv, ServerTyped, server!Live
<1>5. TasksMatch' /\ \A f : Outbound(f) => Outbound(f)'
    BY <1>1, <1>3, NoneReceivedKeeps
<1>6. RequestsInFlight'
    BY <1>1, <1>2, <1>5, WireKept
<1>7. /\ Answered' /\ Routes' /\ Recycled' /\ Delivered'
      /\ \A f : Genuine(f) => Genuine(f)'
    BY <1>1, <1>3, ServerKeeps
<1>8. RepliesInFlight'
  <2>1. /\ s2c \in Seq(ReplyFrames)
        /\ s_queue \in Seq(ReplyFrames)
        /\ \A i \in 1 .. Len(s2c) : Genuine(s2c[i])
        /\ \A i \in 1 .. Len(s_queue) : Genuine(s_queue[i])
    BY DEF SystemInv, RepliesInFlight
  <2>2. /\ s2c' \in Seq(ReplyFrames)
        /\ s_queue' \in Seq(ReplyFrames)
        /\ \A i \in 1 .. Len(s2c') :
              \/ i \in 1 .. Len(s2c) /\ s2c'[i] = s2c[i]
              \/ 1 \in 1 .. Len(s_queue) /\ s2c'[i] = s_queue[1]
        /\ \A i \in 1 .. Len(s_queue') :
              i + 1 \in 1 .. Len(s_queue) /\ s_queue'[i] = s_queue[i + 1]
    BY <1>1, <2>1
  <2>3. ASSUME NEW i \in 1 .. Len(s2c') PROVE Genuine(s2c[i])'
    <3>1. PICK f : f = s2c'[i]
      OBVIOUS
    <3>2. Genuine(f)'
      BY <1>7, <2>1, <2>2, <3>1
    <3>3. QED
      BY <3>1, <3>2 DEF Genuine, Over, Sent
  <2>4. ASSUME NEW i \in 1 .. Len(s_queue') PROVE Genuine(s_queue[i])'
    <3>1. PICK f : f = s_queue'[i]
      OBVIOUS
    <3>2. Genuine(f)'
      BY <1>7, <2>1, <2>2, <3>1
    <3>3. QED
      BY <3>1, <3>2 DEF Genuine, Over, Sent
  <2>5. QED
    BY <2>2, <2>3, <2>4 DEF RepliesInFlight
<1>9. QED
    BY <1>2, <1>4, <1>5, <1>6, <1>7, <1>8 DEF SystemInv

\* Every step of the server keeps the invariant.
LEMMA ServerStepInv ==
    ASSUME SystemInv, ServerLocal \/ ServerWrites \/ ServerReceives \/ ServerReadsEnd
    PROVE  SystemInv'
<1>1. CASE ServerLocal
  <2>1. UNCHANGED vars /\ UNCHANGED <<c2s, s2c>>
    BY <1>1 DEF ServerLocal
  <2>2. ServerEffect /\ Sends
    BY <1>1, <2>1, HandlerStepEffect, ServerLocalEffect DEF ServerLocal
  <2>3. QED
    BY <2>1, <2>2, ServerEffectInv
<1>2. CASE ServerWrites
    BY <1>2, ServerWritesInv
<1>3. CASE ServerReceives
  <2>1. /\ UNCHANGED vars /\ UNCHANGED s2c
        /\ c2s # <<>> /\ c2s' = Tail(c2s)
        /\ server!Dispatch(Head(c2s))
    BY <1>3 DEF ServerReceives
  <2>2. QED
    BY <2>1, ArrivalHandled, DrainingEffect, ServerEffectInv, ServerSpawnsInv
<1>4. CASE ServerReadsEnd
  <2>1. UNCHANGED vars /\ UNCHANGED s2c /\ c2s' = <<>> /\ server!ReadLost(TRUE)
    BY <1>4 DEF ServerReadsEnd
  <2>2. ServerEffect /\ Sends
    BY <2>1, ServerLocalEffect
  <2>3. QED
    BY <2>1, <2>2, ServerEffectInv
<1>5. QED
    BY <1>1, <1>2, <1>3, <1>4

-----------------------------------------------------------------------------
(* Steps of the client *)

\* No request is sent and no stream changes hands: a request that is still under way ends
\* only with the connection or with its response, after which its stream is terminal.
Calm ==
    /\ \A r \in Requests :
        /\ Sent(r)' <=> Sent(r)
        /\ Begun(r)' => Begun(r) /\ request'[r].stream = request[r].stream
        /\ Begun(r)' /\ Active(r) /\ ~Active(r)' =>
              ShuttingDown(state') \/ (request[r].stream \in terminal_streams' /\ Over(r))
    /\ \A s \in Streams : pending'[s] \in {pending[s], NoRequest}
    /\ terminal_streams \subseteq terminal_streams'
    /\ ShuttingDown(state) => ShuttingDown(state')

\* What a client step has to establish, apart from what is in flight.
ClientEffect == Calm /\ Delivered' /\ Undisturbed'

\* Streams the server accepts are streams of the client.
LEMMA StreamsOfBoth == server!Streams \subseteq Streams /\ 0 \notin Streams
BY ClientAssumption DEF server!Streams, Streams

\* A step of the client does not touch the server.
LEMMA ServerUntouched ==
    ASSUME SystemInv, UNCHANGED serverVars
    PROVE  /\ ServerTyped'
           /\ UNCHANGED <<task, s_state, s_queue>>
           /\ \A r \in Requests : Over(r)' <=> Over(r)
<1>1. UNCHANGED <<operations, task, s_terminal_streams, s_state, s_queue>>
    BY DEF serverVars
<1>2. ServerTyped'
    BY <1>1 DEF SystemInv, ServerTyped, server!Live
<1>3. QED
    BY <1>1, <1>2 DEF Over

\* A calm step keeps what relates the requests, the streams and the server.
LEMMA CalmKeeps ==
    ASSUME SystemInv, UNCHANGED serverVars, Calm
    PROVE  /\ TasksMatch' /\ Answered' /\ Routes' /\ Recycled'
           /\ \A f : Genuine(f) => Genuine(f)'
           /\ \A f : Outbound(f) => Outbound(f)'
<1>1. UNCHANGED <<task, s_state>> /\ \A r \in Requests : Over(r)' <=> Over(r)
    BY ServerUntouched
<1>2. \A r \in Requests : Sent(r) => Begun(r) /\ Sent(r)' /\ Begun(r)' /\ request'[r].stream = request[r].stream
    BY DEF Calm, Begun
<1>3. TasksMatch'
    BY <1>1, <1>2 DEF SystemInv, TasksMatch, Calm
<1>4. Answered'
    BY <1>1 DEF SystemInv, Answered, Calm
<1>5. Routes'
  <2> SUFFICES ASSUME NEW r \in Requests, Begun(r)'
               PROVE  \/ request'[r].stream \in terminal_streams'
                      \/ pending'[request'[r].stream] \in {r, NoRequest}
    BY DEF Routes
  <2>1. /\ Begun(r)
        /\ request'[r].stream = request[r].stream
        /\ request[r].stream \in Streams
    BY StreamsOfBoth DEF Calm, SystemInv, TasksMatch
  <2>2. QED
    BY <2>1 DEF SystemInv, Routes, Calm
<1>6. Recycled'
    BY <1>1 DEF SystemInv, Recycled, Calm
<1>7. \A f : Genuine(f) => Genuine(f)'
    BY <1>1, <1>2 DEF Genuine
<1>8. \A f : Outbound(f) => Outbound(f)'
    BY <1>1, <1>2 DEF Outbound
<1>9. QED
    BY <1>3, <1>4, <1>5, <1>6, <1>7, <1>8

\* What is on its way to the server when the client sends nothing.
LEMMA QueueShrinks ==
    ASSUME SystemInv, UNCHANGED c2s, queue' = queue \/ queue' = <<>>,
           \A f : Outbound(f) => Outbound(f)'
    PROVE  RequestsInFlight'
<1>1. CASE queue' = queue
    BY <1>1, WireKept
<1>2. CASE queue' = <<>>
  <2>1. /\ c2s \in Seq(SentFrames)
        /\ queue \in Seq(SentFrames)
        /\ \A i \in 1 .. Len(wire) : Outbound(wire[i])
    BY DEF SystemInv, RequestsInFlight, IInv, Typed, ConnectionTyped
  <2>2. wire' = c2s
    BY <1>2, <2>1 DEF wire
  <2>3. PICK n \in Nat : n = 0
    OBVIOUS
  <2>4. /\ Len(wire) \in Nat /\ Len(wire') \in Nat
        /\ Len(wire') + n <= Len(wire)
        /\ \A i \in 1 .. Len(wire') : wire'[i] = wire[i + n] /\ i + n \in 1 .. Len(wire)
    <3>1. /\ Len(wire) = Len(c2s) + Len(queue)
          /\ \A i \in 1 .. Len(c2s) : wire[i] = c2s[i]
          /\ Len(c2s) \in Nat /\ Len(queue) \in Nat
      BY <2>1, Concatenated DEF wire
    <3>2. QED
      BY <2>2, <2>3, <3>1
  <2>5. ASSUME NEW i \in 1 .. Len(wire') PROVE Outbound(wire[i])'
    <3>1. PICK f : f = wire'[i]
      OBVIOUS
    <3>2. Outbound(f)
      BY <2>1, <2>4, <3>1
    <3>3. QED
      BY <3>1, <3>2 DEF Outbound, Sent
  <2>6. c2s' \in Seq(SentFrames)
    BY <2>1
  <2>7. QED
    BY <2>4, <2>5, <2>6, WireShrinks
<1>3. QED
    BY <1>1, <1>2

\* The responses in flight after a client step: the first may have arrived, or all are lost.
LEMMA RepliesKept ==
    ASSUME SystemInv, UNCHANGED serverVars,
           s2c' = s2c \/ s2c' = <<>> \/ (s2c # <<>> /\ s2c' = Tail(s2c)),
           \A f : Genuine(f) => Genuine(f)'
    PROVE  RepliesInFlight'
<1>1. /\ s2c \in Seq(ReplyFrames)
      /\ s_queue \in Seq(ReplyFrames)
      /\ \A i \in 1 .. Len(s2c) : Genuine(s2c[i])
      /\ \A i \in 1 .. Len(s_queue) : Genuine(s_queue[i])
      /\ s_queue' = s_queue
    BY ServerUntouched DEF SystemInv, RepliesInFlight
<1>2. /\ s2c' \in Seq(ReplyFrames)
      /\ \A i \in 1 .. Len(s2c') : \E j \in 1 .. Len(s2c) : s2c'[i] = s2c[j]
  <2>1. CASE s2c' = s2c
    BY <1>1, <2>1
  <2>2. CASE s2c' = <<>>
    BY <2>2
  <2>3. CASE s2c # <<>> /\ s2c' = Tail(s2c)
    <3>1. /\ s2c' \in Seq(ReplyFrames)
          /\ \A i \in 1 .. Len(s2c') : i + 1 \in 1 .. Len(s2c) /\ s2c'[i] = s2c[i + 1]
      BY <1>1, <2>3
    <3>2. QED
      BY <3>1
  <2>4. QED
    BY <2>1, <2>2, <2>3
<1>3. ASSUME NEW i \in 1 .. Len(s2c') PROVE Genuine(s2c[i])'
  <2>1. PICK f : f = s2c'[i]
    OBVIOUS
  <2>2. Genuine(f)'
    BY <1>1, <1>2, <2>1
  <2>3. QED
    BY <2>1, <2>2 DEF Genuine, Over, Sent
<1>4. ASSUME NEW i \in 1 .. Len(s_queue') PROVE Genuine(s_queue[i])'
  <2>1. PICK f : f = s_queue'[i]
    OBVIOUS
  <2>2. Genuine(f)'
    BY <1>1, <2>1
  <2>3. QED
    BY <2>1, <2>2 DEF Genuine, Over, Sent
<1>5. QED
    BY <1>1, <1>2, <1>3, <1>4 DEF RepliesInFlight

\* A client step that sends nothing keeps the invariant.
LEMMA ClientEffectInv ==
    ASSUME SystemInv, IInv', UNCHANGED serverVars, ClientEffect,
           UNCHANGED c2s, queue' = queue \/ queue' = <<>>,
           s2c' = s2c \/ s2c' = <<>> \/ (s2c # <<>> /\ s2c' = Tail(s2c))
    PROVE  SystemInv'
<1>1. Calm /\ Delivered' /\ Undisturbed'
    BY DEF ClientEffect
<1>2. /\ TasksMatch' /\ Answered' /\ Routes' /\ Recycled'
      /\ \A f : Genuine(f) => Genuine(f)'
      /\ \A f : Outbound(f) => Outbound(f)'
    BY <1>1, CalmKeeps
<1>3. ServerTyped'
    BY ServerUntouched
<1>4. RequestsInFlight'
    BY <1>2, QueueShrinks
<1>5. RepliesInFlight'
    BY <1>2, RepliesKept
<1>6. QED
    BY <1>1, <1>2, <1>3, <1>4, <1>5 DEF SystemInv

\* cleanup_pending() never arms a timer, and changes nothing else of what a caller sees.
LEMMA RemovedFields ==
    ASSUME NEW q \in RequestRecords
    PROVE  LET p == Removed(q)
           IN  /\ p \in RequestRecords
               /\ p.phase = q.phase
               /\ p.stream = q.stream
               /\ p.operation = q.operation
               /\ p.outcome = q.outcome
               /\ p.channel = q.channel
               /\ p.released = q.released
               /\ q.timer = "off" => p.timer = "off"
<1>1. CASE q.removed
    BY <1>1 DEF Removed
<1>2. CASE ~q.removed
  <2> DEFINE t == CancelTimer(q.timer)
             u == [q EXCEPT !.removed = TRUE, !.timer = t]
  <2>1. /\ t \in {"off", "armed", "expired"}
        /\ q.timer = "off" => t = "off"
    BY DEF CancelTimer, RequestRecords
  <2>2. Removed(q) = u
    BY <1>2 DEF Removed
  <2> HIDE DEF t
  <2>3. /\ u \in RequestRecords
        /\ u.phase = q.phase
        /\ u.stream = q.stream
        /\ u.operation = q.operation
        /\ u.outcome = q.outcome
        /\ u.channel = q.channel
        /\ u.released = q.released
        /\ u.timer = t
    BY <2>1 DEF RequestRecords
  <2> HIDE DEF u
  <2>4. QED
    BY <2>1, <2>2, <2>3
<1>3. QED
    BY <1>1, <1>2

\* The whole of cleanup_pending() likewise.
LEMMA CleanedTimer ==
    ASSUME NEW q \in RequestRecords, NEW release_stream \in BOOLEAN, q.timer = "off"
    PROVE  Cleaned(q, release_stream).timer = "off"
<1> DEFINE u == Removed(q)
           v == u.released \/ release_stream
<1>1. u \in RequestRecords /\ u.timer = "off"
    BY RemovedFields
<1>2. Cleaned(q, release_stream) = [u EXCEPT !.released = v]
    BY DEF Cleaned
<1> HIDE DEF u, v
<1>3. QED
    BY <1>1, <1>2 DEF RequestRecords

\* fail_pending() leaves the handles alone, and closes channels at most.
LEMMA FailedFields ==
    ASSUME NEW requests \in [Requests -> RequestRecords], NEW entries,
           NEW status \in StatusCodes \ {"ok"}, NEW r \in Requests
    PROVE  LET p == FailPending(requests, entries, status)[r]
           IN  /\ p.phase = requests[r].phase
               /\ p.stream = requests[r].stream
               /\ p.outcome = requests[r].outcome
               /\ p.channel \in {requests[r].channel, "closed"}
               /\ requests[r].timer = "off" => p.timer = "off"
<1> DEFINE op == fail(requests[r].operation, status)
           channel == CloseChannel(requests[r].channel)
           q == [requests[r] EXCEPT !.operation = op, !.channel = channel]
           p == FailPending(requests, entries, status)[r]
<1>1. p = Removed(q) \/ p = requests[r]
    BY DEF FailPending
<1>2. channel \in {requests[r].channel, "closed"}
    BY DEF CloseChannel
<1>3. requests[r] \in RequestRecords
    OBVIOUS
<1>4. op \in OperationRecords
    BY <1>3, OperationsTyped DEF RequestRecords
<1> HIDE DEF op, channel, p
<1>5. /\ q \in RequestRecords
      /\ q.phase = requests[r].phase
      /\ q.stream = requests[r].stream
      /\ q.outcome = requests[r].outcome
      /\ q.channel = channel
      /\ q.timer = requests[r].timer
    BY <1>2, <1>3, <1>4 DEF RequestRecords
<1> HIDE DEF q
<1>6. /\ Removed(q).phase = q.phase
      /\ Removed(q).stream = q.stream
      /\ Removed(q).outcome = q.outcome
      /\ Removed(q).channel = q.channel
      /\ q.timer = "off" => Removed(q).timer = "off"
    BY <1>5, RemovedFields
<1>7. QED
    BY <1>1, <1>2, <1>5, <1>6 DEF p

\* The marker of a closed channel is no request.
LEMMA NoRequestIsMarker ==
    /\ Requests \cap {"none", "empty", "closed", "garbage"} = {}
    /\ Requests \cap StatusCodes = {}
BY SystemAssumption

\* All requests that are pending fail as the connection shuts down.
LEMMA AllFailEffect ==
    ASSUME SystemInv, UNCHANGED serverVars, NEW status \in StatusCodes \ {"ok"},
           request' = FailPending(request, pending, status),
           pending' = NonePending,
           terminal_streams' = terminal_streams,
           ShuttingDown(state'),
           reader' # "idle" => state' # "created"
    PROVE  ClientEffect
<1>1. request \in [Requests -> RequestRecords]
    BY DEF SystemInv, IInv, Typed
<1>2. \A r \in Requests :
        /\ request'[r].phase = request[r].phase
        /\ request'[r].stream = request[r].stream
        /\ request'[r].outcome = request[r].outcome
        /\ request'[r].channel \in {request[r].channel, "closed"}
        /\ request[r].timer = "off" => request'[r].timer = "off"
    BY <1>1, FailedFields
<1>3. \A r \in Requests : (Sent(r)' <=> Sent(r)) /\ (Begun(r)' <=> Begun(r))
    BY <1>2 DEF Sent, Begun
<1>4. Calm
    BY <1>2, <1>3 DEF Calm, NonePending
<1>5. Delivered'
    BY <1>2, ServerUntouched, NoRequestIsMarker DEF SystemInv, Delivered
<1>6. Undisturbed'
    BY <1>2 DEF SystemInv, Undisturbed
<1>7. QED
    BY <1>4, <1>5, <1>6 DEF ClientEffect

\* The requests are left alone.
LEMMA NoneChangedEffect ==
    ASSUME SystemInv, UNCHANGED serverVars, UNCHANGED <<request, pending, terminal_streams>>,
           ShuttingDown(state) => ShuttingDown(state'),
           reader' # "idle" => state' # "created"
    PROVE  ClientEffect
<1>1. \A r \in Requests :
        (Sent(r)' <=> Sent(r)) /\ (Begun(r)' <=> Begun(r)) /\ (Active(r)' <=> Active(r))
    BY DEF Sent, Begun, Active
<1>2. Calm
    BY <1>1 DEF Calm
<1>3. Delivered'
    BY ServerUntouched DEF SystemInv, Delivered
<1>4. Undisturbed'
    BY DEF SystemInv, Undisturbed
<1>5. QED
    BY <1>2, <1>3, <1>4 DEF ClientEffect

\* One request moves on without being sent or ended, or gives up before it is sent.
LEMMA OneCalmEffect ==
    ASSUME SystemInv, UNCHANGED serverVars, NEW r \in Requests, NEW q,
           request' = [request EXCEPT ![r] = q],
           \A s \in Streams : pending'[s] \in {pending[s], NoRequest},
           UNCHANGED <<terminal_streams, state, reader>>,
           \/ ~Sent(r) /\ q.phase \in {"refused", "unencoded"}
           \/ /\ Sent(r)
              /\ q.phase \in {"waiting", "returned"}
              /\ q.stream = request[r].stream
              /\ q.operation = request[r].operation,
           q.timer = "off",
           q.channel \in Requests => q.channel = request[r].channel,
           q.outcome \in Requests => q.outcome \in {request[r].outcome, request[r].channel}
    PROVE  ClientEffect
<1>1. /\ request'[r] = q
      /\ \A x \in Requests : x # r => request'[x] = request[x]
    BY DEF SystemInv, IInv, Typed
<1>2. ASSUME NEW x \in Requests
      PROVE  /\ Sent(x)' <=> Sent(x)
             /\ Begun(x)' => /\ Begun(x)
                             /\ request'[x].stream = request[x].stream
                             /\ Active(x)' <=> Active(x)
  <2>1. CASE x = r
    BY <1>1, <2>1 DEF Sent, Begun, Active
  <2>2. CASE x # r
    BY <1>1, <2>2 DEF Sent, Begun, Active
  <2>3. QED
    BY <2>1, <2>2
<1>3. Calm
    BY <1>2 DEF Calm
<1>4. Delivered'
    BY <1>1, ServerUntouched DEF SystemInv, Delivered
<1>5. Undisturbed'
    BY <1>1 DEF SystemInv, Undisturbed
<1>6. QED
    BY <1>3, <1>4, <1>5 DEF ClientEffect

\* A call that is refused, or whose message does not encode, sends nothing.
LEMMA RefusedCalm ==
    ASSUME SystemInv, UNCHANGED serverVars, NEW r \in Requests,
           StartRefused(r) \/ StartExhausted(r) \/ StartUnencodable(r)
    PROVE  ClientEffect
<1>1. /\ request[r].phase = "none"
      /\ request \in [Requests -> RequestRecords]
      /\ request[r] \in RequestRecords
      /\ request[r].timer = "off"
    BY DEF SystemInv, IInv, Typed, Undisturbed, StartRefused, StartExhausted, StartUnencodable
<1>2. PICK q \in RequestRecords :
        /\ request' = [request EXCEPT ![r] = q]
        /\ q.phase \in {"refused", "unencoded"}
        /\ q.timer = request[r].timer
        /\ q.channel = request[r].channel
        /\ q.outcome \in StatusCodes
  <2>1. CASE StartRefused(r) \/ StartExhausted(r)
    <3>1. PICK status \in {"connection_closed", "resource_limit_exceeded"} :
            request' = [request EXCEPT ![r].phase = "refused", ![r].outcome = status]
      BY <2>1 DEF StartRefused, StartExhausted, ReturnFailure
    <3>2. status \in StatusCodes
      BY DEF StatusCodes, WireStatuses, TransportStatuses
    <3> DEFINE q == [request[r] EXCEPT !.phase = "refused", !.outcome = status]
    <3>3. /\ q \in RequestRecords
          /\ q.phase = "refused"
          /\ q.timer = request[r].timer
          /\ q.channel = request[r].channel
          /\ q.outcome = status
      BY <1>1, <3>2 DEF RequestRecords, Phases
    <3>4. request' = [request EXCEPT ![r] = q]
      BY <1>1, <3>1
    <3> HIDE DEF q
    <3>5. QED
      BY <3>2, <3>3, <3>4
  <2>2. CASE StartUnencodable(r)
    <3>1. PICK s \in Streams :
            request' = [request EXCEPT ![r].phase = "unencoded", ![r].stream = s,
                                       ![r].outcome = "unknown_message_type"]
      BY <2>2 DEF StartUnencodable
    <3>2. "unknown_message_type" \in StatusCodes
      BY DEF StatusCodes, WireStatuses
    <3> DEFINE q == [request[r] EXCEPT !.phase = "unencoded", !.stream = s,
                                       !.outcome = "unknown_message_type"]
    <3>3. /\ q \in RequestRecords
          /\ q.phase = "unencoded"
          /\ q.timer = request[r].timer
          /\ q.channel = request[r].channel
          /\ q.outcome = "unknown_message_type"
      BY <1>1, <3>2 DEF RequestRecords, Phases
    <3>4. request' = [request EXCEPT ![r] = q]
      BY <1>1, <3>1
    <3> HIDE DEF q
    <3>5. QED
      BY <3>2, <3>3, <3>4
  <2>3. QED
    BY <2>1, <2>2
<1>3. UNCHANGED <<pending, terminal_streams, state, reader>>
    BY DEF StartRefused, StartExhausted, StartUnencodable, ReturnFailure, connVars
<1>4. ~Sent(r)
    BY <1>1 DEF Sent
<1>5. q.outcome \notin Requests
    BY <1>2, NoRequestIsMarker
<1>6. QED
    BY <1>1, <1>2, <1>3, <1>4, <1>5, OneCalmEffect

\* start_request() leaves a request whose frame was not accepted closed and not sent.
LEMMA SendFailedFields ==
    ASSUME NEW q \in RequestRecords, q.timer = "off"
    PROVE  LET p == Cleaned(SendFailed(q), TRUE)
           IN  /\ p.phase = "refused"
               /\ p.timer = "off"
               /\ p.channel \in {q.channel, "closed"}
               /\ p.outcome \in StatusCodes
<1> DEFINE op == fail(q.operation, "resource_limit_exceeded")
           channel == CloseChannel(q.channel)
           d == [q EXCEPT !.operation = op, !.channel = channel, !.phase = "refused",
                          !.outcome = "resource_limit_exceeded"]
<1>1. "resource_limit_exceeded" \in StatusCodes
    BY DEF StatusCodes, WireStatuses
<1>2. op \in OperationRecords
    BY <1>1, OperationsTyped DEF RequestRecords
<1>3. channel \in {q.channel, "closed"}
    BY DEF CloseChannel
<1>4. SendFailed(q) = d
    BY DEF SendFailed
<1> HIDE DEF op, channel
<1>5. /\ d \in RequestRecords
      /\ d.phase = "refused"
      /\ d.timer = q.timer
      /\ d.channel = channel
      /\ d.outcome = "resource_limit_exceeded"
    BY <1>1, <1>2, <1>3 DEF RequestRecords, Phases
<1> HIDE DEF d
<1> DEFINE p == Cleaned(d, TRUE)
<1>6. p.phase = d.phase /\ p.channel = d.channel /\ p.outcome = d.outcome
    BY <1>5, CleanedFields
<1>7. p.timer = "off"
    BY <1>5, CleanedTimer
<1> HIDE DEF p
<1>8. Cleaned(SendFailed(q), TRUE) = p
    BY <1>4 DEF p
<1>9. QED
    BY <1>1, <1>3, <1>5, <1>6, <1>7, <1>8

\* A frame the queue does not accept is never sent, and its request is given up.
LEMMA NotAcceptedCalm ==
    ASSUME SystemInv, UNCHANGED serverVars, NEW r \in Requests,
           StartRejected(r) \/ EnqueueRefused(r)
    PROVE  ClientEffect
<1>1. /\ request[r].phase \in {"none", "enqueuing"}
      /\ request[r] \in RequestRecords
      /\ request[r].timer = "off"
      /\ UNCHANGED <<terminal_streams, state, reader>>
    BY DEF SystemInv, IInv, Typed, Undisturbed, StartRejected, EnqueueRefused, connVars
<1>2. PICK q \in RequestRecords :
        /\ q.timer = "off"
        /\ q.channel \in {request[r].channel, "closed", "empty"}
        /\ request' = [request EXCEPT ![r] = Cleaned(SendFailed(q), TRUE)]
  <2>1. CASE StartRejected(r)
    <3>1. PICK s \in Streams :
            request' = [request EXCEPT
                         ![r] = [Removed(SendFailed(Created(r, s))) EXCEPT !.released = TRUE]]
      BY <2>1 DEF StartRejected
    <3>2. /\ Created(r, s) \in RequestRecords
          /\ Created(r, s).timer = "off"
          /\ Created(r, s).channel = "empty"
      BY <2>1, CreatedFields DEF StartRejected, SystemInv
    <3>3. request' = [request EXCEPT ![r] = Cleaned(SendFailed(Created(r, s)), TRUE)]
      BY <3>1 DEF Cleaned
    <3>4. QED
      BY <3>2, <3>3
  <2>2. CASE EnqueueRefused(r)
    BY <1>1, <2>2 DEF EnqueueRefused, CleanupPending
  <2>3. QED
    BY <2>1, <2>2
<1>3. PICK p :
        /\ request' = [request EXCEPT ![r] = p]
        /\ p.phase = "refused"
        /\ p.timer = "off"
        /\ p.channel \in {request[r].channel, "closed", "empty"}
        /\ p.outcome \in StatusCodes
    BY <1>2, SendFailedFields
<1>4. \A s \in Streams : pending'[s] \in {pending[s], NoRequest}
    BY DEF StartRejected, EnqueueRefused, CleanupPending, WithoutEntry, SystemInv, IInv, Typed
<1>5. ~Sent(r)
    BY <1>1 DEF Sent
<1>6. /\ p.outcome \notin Requests
      /\ p.channel \in Requests => p.channel = request[r].channel
    BY <1>3, NoRequestIsMarker
<1>7. QED
    BY <1>1, <1>3, <1>4, <1>5, <1>6, OneCalmEffect

\* A handle waits, and returns what its channel holds.
LEMMA WaitCalm ==
    ASSUME SystemInv, UNCHANGED serverVars, NEW r \in Requests, async_wait(r) \/ WaitReturns(r)
    PROVE  ClientEffect
<1>1. /\ Sent(r)
      /\ request \in [Requests -> RequestRecords]
      /\ request[r] \in RequestRecords
      /\ request[r].timer = "off"
      /\ UNCHANGED <<terminal_streams, state, reader>>
    BY DEF SystemInv, IInv, Typed, Undisturbed, async_wait, WaitReturns, connVars, Sent
<1>2. CASE async_wait(r)
  <2> DEFINE q == [request[r] EXCEPT !.phase = "waiting"]
  <2>1. request' = [request EXCEPT ![r] = q] /\ pending' = pending
    BY <1>1, <1>2 DEF async_wait
  <2>2. /\ q.phase = "waiting"
        /\ q.stream = request[r].stream
        /\ q.operation = request[r].operation
        /\ q.timer = request[r].timer
        /\ q.channel = request[r].channel
        /\ q.outcome = request[r].outcome
    BY <1>1 DEF RequestRecords
  <2> HIDE DEF q
  <2>3. QED
    BY <1>1, <2>1, <2>2, OneCalmEffect
<1>3. CASE WaitReturns(r)
  <2> DEFINE answer == Answer(request[r])
             q == [request[r] EXCEPT !.phase = "returned", !.outcome = answer]
             p == Cleaned(q, TRUE)
  <2>1. /\ request' = [request EXCEPT ![r] = p]
        /\ pending' = WithoutEntry(r, q)
        /\ request[r].channel # "empty"
    BY <1>3 DEF WaitReturns, CleanupPending
  <2>2. /\ request[r].channel \in {"closed", "garbage"} \cup Replies
        /\ request[r].operation.result \in StatusCodes \cup {"none"}
    BY <1>1, <2>1 DEF RequestRecords, OperationRecords
  <2>3. {"connection_closed", "decode_error"} \subseteq StatusCodes
    BY DEF StatusCodes, TransportStatuses, WireStatuses
  <2>4. answer \in StatusCodes \cup {"none", request[r].channel}
    <3>1. CASE request[r].channel = "closed"
      BY <2>2, <2>3, <3>1 DEF Answer
    <3>2. CASE request[r].channel # "closed"
      BY <2>2, <2>3, <3>2 DEF Answer
    <3>3. QED
      BY <3>1, <3>2
  <2>5. answer \in StatusCodes \cup {"none"} \cup Replies
    <3>1. CASE request[r].channel \in Replies
      BY <2>4, <3>1
    <3>2. CASE request[r].channel \in {"closed", "garbage"}
      BY <2>2, <2>3, <3>2 DEF Answer
    <3>3. QED
      BY <2>2, <3>1, <3>2
  <2>6. answer \in Requests => answer = request[r].channel
    BY <2>4, NoRequestIsMarker
  <2> HIDE DEF answer
  <2>7. /\ q \in RequestRecords
        /\ q.phase = "returned"
        /\ q.stream = request[r].stream
        /\ q.operation = request[r].operation
        /\ q.timer = request[r].timer
        /\ q.channel = request[r].channel
        /\ q.outcome = answer
    BY <1>1, <2>5 DEF RequestRecords, Phases
  <2> HIDE DEF q
  <2>8. /\ p.phase = q.phase
        /\ p.stream = q.stream
        /\ p.operation = q.operation
        /\ p.timer = "off"
        /\ p.channel = q.channel
        /\ p.outcome = q.outcome
    BY <1>1, <2>7, CleanedFields, CleanedTimer
  <2>9. \A s \in Streams : pending'[s] \in {pending[s], NoRequest}
    BY <2>1 DEF WithoutEntry, SystemInv, IInv, Typed
  <2> HIDE DEF p
  <2>10. QED
    BY <1>1, <2>1, <2>6, <2>7, <2>8, <2>9, OneCalmEffect
<1>4. QED
    BY <1>2, <1>3

\* A connection that reads has been activated, so that it closes when it is told to.
LEMMA ReadingCloses ==
    ASSUME SystemInv, reader = "reading", state' = Transition(state, "closed")
    PROVE  ShuttingDown(state') /\ state' # "created"
<1>1. state \in ClientStates \ {"created"}
    BY DEF SystemInv, IInv, Typed, ConnectionTyped, Undisturbed
<1>2. QED
    BY <1>1 DEF ClientStates, Transition, ConnectionEdges, ShuttingDown

\* The loops, shutdown() and the loss of the transport send nothing and answer nothing.
LEMMA ConnectionCalm ==
    ASSUME SystemInv, UNCHANGED serverVars,
           \/ WriteFails \/ WriterStops \/ Run \/ Shutdown \/ DrainEnds
           \/ \E peer_closed \in BOOLEAN : ReadEnds(peer_closed, FALSE)
    PROVE  ClientEffect /\ (queue' = queue \/ queue' = <<>>)
<1>1. state \in ClientStates /\ "connection_closed" \in StatusCodes \ {"ok"}
    BY FailureStatuses DEF SystemInv, IInv, Typed, ConnectionTyped
<1>2. CASE WriteFails \/ WriterStops
    BY <1>2, NoneChangedEffect
       DEF WriteFails, WriterStops, requestVars, queueVars, SystemInv, Undisturbed
<1>3. CASE Run
  <2>1. /\ UNCHANGED <<request, pending, terminal_streams, queue>>
        /\ state' = IF state = "created"
                    THEN Transition(Transition(state, "connecting"), "active") ELSE state
    BY <1>3 DEF Run, requestVars, queueVars
  <2>2. /\ state' # "created"
        /\ ShuttingDown(state) => ShuttingDown(state')
    BY <1>1, <2>1, ClientTransitions DEF ShuttingDown
  <2>3. QED
    BY <2>1, <2>2, NoneChangedEffect
<1>4. ASSUME NEW draining, FinishShutdown(draining), UNCHANGED <<terminal_streams, queueVars>>,
             draining = BeginShutdown(state, "connecting") \/ (draining = state /\ ShuttingDown(state))
      PROVE  ClientEffect /\ (queue' = queue \/ queue' = <<>>)
  <2>1. /\ request' = FailPending(request, pending, "connection_closed")
        /\ pending' = NonePending
        /\ state' = Transition(draining, "closed")
        /\ UNCHANGED <<terminal_streams, queue>>
    BY <1>4 DEF FinishShutdown, queueVars
  <2>2. state' = "closed"
    BY <1>1, <1>4, <2>1, ClientTransitions
  <2>3. ShuttingDown(state')
    BY <2>2 DEF ShuttingDown
  <2>4. QED
    BY <1>1, <2>1, <2>2, <2>3, AllFailEffect
<1>5. CASE Shutdown
  <2>1. UNCHANGED <<terminal_streams, queueVars, reader>>
    BY <1>5 DEF Shutdown
  <2>2. CASE FinishShutdown(BeginShutdown(state, "connecting"))
    BY <1>4, <2>1, <2>2
  <2>3. CASE ~FinishShutdown(BeginShutdown(state, "connecting"))
    <3>1. UNCHANGED requestVars /\ state' = BeginShutdown(state, "connecting")
      BY <1>5, <2>3 DEF Shutdown
    <3>2. ShuttingDown(state')
      BY <1>1, <3>1, ClientTransitions
    <3>3. QED
      BY <2>1, <3>1, <3>2, NoneChangedEffect DEF requestVars, queueVars, ShuttingDown
  <2>4. QED
    BY <2>2, <2>3
<1>6. CASE DrainEnds
  <2>1. FinishShutdown(state) /\ UNCHANGED <<terminal_streams, queueVars>> /\ drain = "draining"
    BY <1>6 DEF DrainEnds
  <2>2. ShuttingDown(state)
    BY <2>1 DEF SystemInv, IInv, Closing
  <2>3. QED
    BY <1>4, <2>1, <2>2
<1>7. ASSUME NEW peer_closed \in BOOLEAN, ReadEnds(peer_closed, FALSE)
      PROVE  ClientEffect /\ (queue' = queue \/ queue' = <<>>)
  <2>1. /\ request' = FailPending(request, pending, "connection_closed")
        /\ pending' = NonePending
        /\ state' = Transition(state, "closed")
        /\ reader = "reading"
        /\ UNCHANGED <<terminal_streams, queue>>
    BY <1>7 DEF ReadEnds, EndReading
  <2>2. QED
    BY <1>1, <2>1, ReadingCloses, AllFailEffect
<1>8. QED
    BY <1>2, <1>3, <1>5, <1>6, <1>7

\* A response that reaches its request: the stream becomes terminal, the server being done
\* with it, and the caller gets its own response or none.
LEMMA ResponseRouted ==
    ASSUME SystemInv, UNCHANGED serverVars, NEW r \in Requests, Sent(r), Over(r),
           reader = "reading",
           NEW op \in OperationRecords, NEW channel \in {"closed"} \cup Replies,
           Routed(r, [request[r] EXCEPT !.operation = op, !.channel = channel], TRUE),
           terminal_streams' = terminal_streams \cup {request[r].stream},
           channel \in Requests => channel = r /\ task[r].operation.state = "completed"
    PROVE  ClientEffect
<1> DEFINE q == [request[r] EXCEPT !.operation = op, !.channel = channel]
           p == Cleaned(q, TRUE)
           requests == [request EXCEPT ![r] = p]
           entries == WithoutEntry(r, q)
<1>1. /\ request \in [Requests -> RequestRecords]
      /\ request[r] \in RequestRecords
      /\ pending \in [Streams -> Requests \cup {NoRequest}]
      /\ \A x \in Requests : request[x].timer = "off"
    BY DEF SystemInv, IInv, Typed, Undisturbed
<1>2. /\ q \in RequestRecords
      /\ q.phase = request[r].phase
      /\ q.stream = request[r].stream
      /\ q.timer = request[r].timer
      /\ q.outcome = request[r].outcome
      /\ q.channel = channel
    BY <1>1 DEF RequestRecords
<1>3. \A s \in Streams : entries[s] \in {pending[s], NoRequest}
    BY <1>1 DEF WithoutEntry
<1>4. \/ /\ request' = requests
         /\ pending' = entries
         /\ UNCHANGED <<state, reader>>
      \/ /\ \E status \in {"connection_closed"} \cup DecoderErrors :
               request' = FailPending(requests, entries, status)
         /\ pending' = NonePending
         /\ state' = Transition(state, "closed")
    BY DEF Routed, EndReading, connVars
<1> HIDE DEF q
<1>5. /\ p \in RequestRecords
      /\ p.phase = q.phase
      /\ p.stream = q.stream
      /\ p.outcome = q.outcome
      /\ p.channel = q.channel
      /\ p.timer = "off"
  <2>1. p.timer = "off"
    BY <1>1, <1>2, CleanedTimer
  <2>2. QED
    BY <1>2, <2>1, CleanedFields
<1> HIDE DEF p, entries
<1>6. /\ requests \in [Requests -> RequestRecords]
      /\ requests[r] = p
      /\ \A x \in Requests : x # r => requests[x] = request[x]
    BY <1>1, <1>5
<1> HIDE DEF requests
<1>7. \A x \in Requests :
        /\ requests[x].phase = request[x].phase
        /\ requests[x].stream = request[x].stream
        /\ requests[x].outcome = request[x].outcome
        /\ requests[x].channel = IF x = r THEN channel ELSE request[x].channel
        /\ requests[x].timer = "off"
    BY <1>1, <1>2, <1>5, <1>6
<1>8. /\ \A x \in Requests :
            /\ request'[x].phase = request[x].phase
            /\ request'[x].stream = request[x].stream
            /\ request'[x].outcome = request[x].outcome
            /\ request'[x].channel \in {requests[x].channel, "closed"}
            /\ request'[x].timer = "off"
            /\ x # r => request'[x] = request[x] \/ ShuttingDown(state')
      /\ \A s \in Streams : pending'[s] \in {pending[s], NoRequest}
      /\ ShuttingDown(state) => ShuttingDown(state')
      /\ reader' # "idle" => state' # "created"
  <2>1. CASE request' = requests /\ pending' = entries /\ UNCHANGED <<state, reader>>
    BY <1>3, <1>6, <1>7, <2>1 DEF SystemInv, Undisturbed
  <2>2. CASE /\ \E status \in {"connection_closed"} \cup DecoderErrors :
                  request' = FailPending(requests, entries, status)
             /\ pending' = NonePending
             /\ state' = Transition(state, "closed")
    <3>1. PICK status \in {"connection_closed"} \cup DecoderErrors :
            request' = FailPending(requests, entries, status)
      BY <2>2
    <3>2. status \in StatusCodes \ {"ok"}
      BY FailureStatuses
    <3>3. ShuttingDown(state') /\ state' # "created"
      BY <2>2, ReadingCloses
    <3>4. \A x \in Requests :
            /\ request'[x].phase = requests[x].phase
            /\ request'[x].stream = requests[x].stream
            /\ request'[x].outcome = requests[x].outcome
            /\ request'[x].channel \in {requests[x].channel, "closed"}
            /\ requests[x].timer = "off" => request'[x].timer = "off"
      BY <1>6, <3>1, <3>2, FailedFields
    <3>5. QED
      BY <1>7, <2>2, <3>3, <3>4 DEF NonePending
  <2>3. QED
    BY <1>4, <2>1, <2>2
<1>9. Calm
  <2>1. \A x \in Requests : (Sent(x)' <=> Sent(x)) /\ (Begun(x)' <=> Begun(x))
    BY <1>8 DEF Sent, Begun
  <2>2. ASSUME NEW x \in Requests, Active(x), ~Active(x)'
        PROVE  ShuttingDown(state') \/ (request[x].stream \in terminal_streams' /\ Over(x))
    BY <1>8, <2>2 DEF Active
  <2>3. QED
    BY <1>8, <2>1, <2>2 DEF Calm
<1>10. Delivered'
  <2>1. \A x \in Requests : request'[x].channel \in Requests =>
            \/ x = r /\ request'[x].channel = channel
            \/ request'[x].channel = request[x].channel
    BY <1>7, <1>8, NoRequestIsMarker
  <2>2. task' = task
    BY ServerUntouched
  <2>3. QED
    BY <1>8, <2>1, <2>2 DEF SystemInv, Delivered
<1>11. Undisturbed'
    BY <1>8 DEF SystemInv, Undisturbed
<1>12. QED
    BY <1>9, <1>10, <1>11 DEF ClientEffect

\* What the server sends can be read, and routes to the request it belongs to: the entry
\* found by its stream is that request's, since no response came on the stream before.
LEMMA ReplyFindsItsRequest ==
    ASSUME SystemInv, NEW f \in ReplyFrames, Genuine(f)
    PROVE  /\ Readable(f)
           /\ f.flag \in {"none", "error"} /\ f.end
           /\ Verdict(f) = "none" =>
                 LET r == pending[f.stream]
                 IN  /\ r \in Requests
                     /\ Sent(r)
                     /\ Over(r)
                     /\ request[r].stream = f.stream
                     /\ request[r].operation \in OperationRecords
                     /\ request[r].operation.state = "active"
                     /\ request[r].channel = "empty"
                     /\ f.flag = "none" => f.payload = r /\ task[r].operation.state = "completed"
<1>1. PICK r \in Requests :
        /\ Sent(r)
        /\ request[r].stream = f.stream
        /\ Over(r)
        /\ f.flag = "none" => f.payload = r /\ task[r].operation.state = "completed"
    BY DEF Genuine
<1>2. /\ f.stream \in Streams
      /\ f.flag \in {"none", "error"} /\ f.end
    BY StreamsOfBoth DEF ReplyFrames
<1>3. Readable(f)
    BY <1>1, <1>2, SystemAssumption DEF Readable
<1>4. ASSUME Verdict(f) = "none"
      PROVE  /\ pending[f.stream] = r
             /\ request[r].operation \in OperationRecords
             /\ Active(r)
             /\ request[r].channel = "empty"
  <2>1. pending[f.stream] # NoRequest /\ f.stream \notin terminal_streams
    BY <1>4 DEF Verdict
  <2>2. pending[f.stream] = r
    BY <1>1, <2>1 DEF SystemInv, Routes, Begun
  <2>3. Active(r)
    BY <1>2, <2>2, NothingSettled DEF SettlesTo, SystemInv
  <2>4. QED
    BY <2>2, <2>3 DEF SystemInv, IInv, Typed, Stories, Story, Underway, Active, RequestRecords
<1>5. QED
    BY <1>1, <1>2, <1>3, <1>4 DEF Active

\* A response that arrives ends its request or, being refused, the connection.
LEMMA DispatchCalm ==
    ASSUME SystemInv, UNCHANGED serverVars, NEW f \in ReplyFrames, Genuine(f), Dispatch(f)
    PROVE  ClientEffect /\ queue' = queue
<1>1. reader = "reading"
    BY DEF Dispatch
<1>2. CASE DispatchViolation(f)
  <2>1. /\ Verdict(f) # "none"
        /\ request' = FailPending(request, pending, Verdict(f))
        /\ pending' = NonePending
        /\ state' = Transition(state, "closed")
        /\ UNCHANGED <<terminal_streams, queue>>
    BY <1>2 DEF DispatchViolation, FailConnection, EndReading
  <2>2. Verdict(f) \in StatusCodes \ {"ok"}
    BY <2>1, Verdicts, FailureStatuses
  <2>3. QED
    BY <1>1, <2>1, <2>2, ReadingCloses, AllFailEffect
<1> DEFINE r == pending[f.stream]
<1>3. ASSUME Verdict(f) = "none"
      PROVE  /\ r \in Requests
             /\ Sent(r)
             /\ Over(r)
             /\ request[r].stream = f.stream
             /\ request[r].operation \in OperationRecords
             /\ request[r].operation.state = "active"
             /\ request[r].channel = "empty"
             /\ f.flag = "none" => f.payload = r /\ task[r].operation.state = "completed"
             /\ f.end
    BY <1>3, ReplyFindsItsRequest
<1>4. CASE DispatchCancel(f)
    BY <1>4, ReplyFindsItsRequest DEF DispatchCancel
<1>5. CASE DispatchError(f)
  <2> DEFINE status == decode_error_status(f.payload)
             op == fail(request[r].operation, status)
  <2>1. Verdict(f) = "none" /\ f.flag = "error" /\ queue' = queue
    BY <1>5 DEF DispatchError
  <2>2. CloseChannel(request[r].channel) = "closed"
    BY <1>3, <2>1 DEF CloseChannel
  <2>3. /\ Routed(r, [request[r] EXCEPT !.operation = op, !.channel = "closed"], TRUE)
        /\ MarkTerminal(f)
    BY <1>5, <2>2 DEF DispatchError
  <2>4. status # "none"
    BY <2>1 DEF Verdict
  <2>5. status \in StatusCodes
    BY <2>4, FailureStatuses DEF decode_error_status
  <2>6. op \in OperationRecords
    BY <1>3, <2>1, <2>5, OperationsTyped
  <2>7. terminal_streams' = terminal_streams \cup {request[r].stream}
    BY <1>3, <2>1, <2>3 DEF MarkTerminal
  <2>8. "closed" \notin Requests
    BY NoRequestIsMarker
  <2> HIDE DEF op, r
  <2>9. QED
    BY <1>1, <1>3, <2>1, <2>3, <2>6, <2>7, <2>8, ResponseRouted
<1>6. CASE DispatchResponse(f)
  <2> DEFINE op == complete(request[r].operation)
  <2>1. Verdict(f) = "none" /\ f.flag = "none" /\ queue' = queue
    BY <1>6 DEF DispatchResponse
  <2>2. /\ Routed(r, [request[r] EXCEPT !.operation = op, !.channel = f.payload], TRUE)
        /\ MarkTerminal(f)
    BY <1>6 DEF DispatchResponse
  <2>3. f.payload = r /\ f.payload \in Replies
    BY <1>3, <2>1, SystemAssumption
  <2>4. op \in OperationRecords
    BY <1>3, <2>1, FailureStatuses, OperationsTyped
  <2>5. terminal_streams' = terminal_streams \cup {request[r].stream}
    BY <1>3, <2>1, <2>2 DEF MarkTerminal
  <2> HIDE DEF op, r
  <2>6. QED
    BY <1>1, <1>3, <2>1, <2>2, <2>3, <2>4, <2>5, ResponseRouted
<1>7. QED
    BY <1>2, <1>4, <1>5, <1>6 DEF Dispatch

\* A write moves a frame from the queue to the byte stream.
LEMMA ClientWritesInv ==
    ASSUME SystemInv, IInv', ClientWrites
    PROVE  SystemInv'
<1>1. /\ UNCHANGED serverVars /\ UNCHANGED s2c
      /\ UNCHANGED <<request, pending, terminal_streams, state, reader>>
      /\ queue # <<>>
      /\ queue' = Tail(queue)
      /\ c2s' = Append(c2s, Head(queue))
    BY DEF ClientWrites, WriteDone, requestVars, connVars
<1>2. Calm /\ Delivered' /\ Undisturbed'
    BY <1>1, NoneChangedEffect DEF ClientEffect, SystemInv, Undisturbed
<1>3. /\ TasksMatch' /\ Answered' /\ Routes' /\ Recycled'
      /\ \A f : Genuine(f) => Genuine(f)'
      /\ \A f : Outbound(f) => Outbound(f)'
    BY <1>1, <1>2, CalmKeeps
<1>4. ServerTyped'
    BY <1>1, ServerUntouched
<1>5. RepliesInFlight'
    BY <1>1, <1>3, RepliesKept
<1>6. RequestsInFlight'
  <2>1. /\ c2s \in Seq(SentFrames)
        /\ queue \in Seq(SentFrames)
        /\ \A i \in 1 .. Len(wire) : Outbound(wire[i])
    BY DEF SystemInv, RequestsInFlight, IInv, Typed, ConnectionTyped
  <2>2. /\ Len(wire') = Len(wire)
        /\ \A i \in 1 .. Len(wire) : wire'[i] = wire[i]
    BY <1>1, <2>1, WriteKeepsOrder DEF wire
  <2>3. PICK n \in Nat : n = 0
    OBVIOUS
  <2>4. /\ Len(wire') \in Nat
        /\ Len(wire') + n <= Len(wire)
        /\ \A i \in 1 .. Len(wire') : wire'[i] = wire[i + n]
    <3>1. Len(wire) \in Nat
      BY <2>1, Concatenated DEF wire
    <3>2. QED
      BY <2>2, <2>3, <3>1
  <2>5. ASSUME NEW i \in 1 .. Len(wire') PROVE Outbound(wire[i])'
    <3>1. PICK f : f = wire'[i]
      OBVIOUS
    <3>2. Outbound(f)'
      BY <1>3, <2>1, <2>2, <3>1
    <3>3. QED
      BY <3>1, <3>2 DEF Outbound, Sent
  <2>6. c2s' \in Seq(SentFrames)
    BY <1>1, <2>1
  <2>7. QED
    BY <2>3, <2>4, <2>5, <2>6, WireShrinks
<1>7. QED
    BY <1>2, <1>3, <1>4, <1>5, <1>6 DEF SystemInv

\* What one request leaves alone when it moves on: the other requests, and the server.
LEMMA OneMoves ==
    ASSUME SystemInv, UNCHANGED serverVars, NEW r \in Requests, ~Sent(r), NEW q,
           request' = [request EXCEPT ![r] = q],
           q.phase \in {"open", "enqueuing"},
           q.stream \in server!Streams,
           q.timer = "off",
           q.channel \in {request[r].channel, "empty"},
           q.outcome = request[r].outcome,
           UNCHANGED <<state, reader>>
    PROVE  /\ request'[r] = q
           /\ task[r].phase = "none" /\ task' = task
           /\ \A x \in Requests : x # r =>
                 /\ request'[x] = request[x]
                 /\ Sent(x)' <=> Sent(x)
                 /\ Begun(x)' <=> Begun(x)
                 /\ Active(x)' <=> Active(x)
           /\ Begun(r)'
           /\ Sent(r)' <=> q.phase = "open"
           /\ \A x \in Requests : Over(x)' <=> Over(x)
           /\ TasksMatch' /\ Delivered' /\ Undisturbed' /\ ServerTyped'
           /\ \A f : Genuine(f) => Genuine(f)'
           /\ \A f : Outbound(f) => Outbound(f)'
<1>1. /\ request'[r] = q
      /\ \A x \in Requests : x # r => request'[x] = request[x]
    BY DEF SystemInv, IInv, Typed
<1>2. task[r].phase = "none"
    BY DEF SystemInv, TasksMatch
<1>3. \A x \in Requests : x # r =>
        (Sent(x)' <=> Sent(x)) /\ (Begun(x)' <=> Begun(x)) /\ (Active(x)' <=> Active(x))
    BY <1>1 DEF Sent, Begun, Active
<1>4. Begun(r)' /\ (Sent(r)' <=> q.phase = "open")
    BY <1>1 DEF Sent, Begun
<1>5. ServerTyped' /\ task' = task /\ \A x \in Requests : Over(x)' <=> Over(x)
    BY ServerUntouched
<1>6. TasksMatch'
    BY <1>1, <1>2, <1>3, <1>5 DEF SystemInv, TasksMatch
<1>7. Delivered'
  <2>1. q.channel \in Requests => q.channel = request[r].channel
    BY NoRequestIsMarker
  <2>2. QED
    BY <1>1, <1>5, <2>1 DEF SystemInv, Delivered
<1>8. Undisturbed'
    BY <1>1 DEF SystemInv, Undisturbed
<1>9. \A f : Genuine(f) => Genuine(f)'
    BY <1>1, <1>3, <1>5 DEF Genuine
<1>10. \A f : Outbound(f) => Outbound(f)'
    BY <1>1, <1>3, <1>5 DEF Outbound
<1>11. QED
    BY <1>1, <1>2, <1>3, <1>4, <1>5, <1>6, <1>7, <1>8, <1>9, <1>10

\* The frame of a request that was not sent before joins what is on its way.
LEMMA WireGrows ==
    ASSUME SystemInv, UNCHANGED c2s, NEW r \in Requests, ~Sent(r), Sent(r)',
           NEW s \in Streams, request'[r].stream = s,
           task'[r].phase = "none",
           queue' = Append(queue, RequestFrame(s, r)),
           \A f : Outbound(f) => Outbound(f)'
    PROVE  RequestsInFlight'
<1>1. PICK f : f = RequestFrame(s, r)
    OBVIOUS
<1>2. f \in SentFrames /\ f.payload = r
    BY <1>1 DEF RequestFrame, Frame, SentFrames
<1>3. /\ c2s \in Seq(SentFrames)
      /\ queue \in Seq(SentFrames)
      /\ \A i \in 1 .. Len(wire) : Outbound(wire[i])
      /\ \A i, j \in 1 .. Len(wire) : wire[i].payload = wire[j].payload => i = j
    BY DEF SystemInv, RequestsInFlight, IInv, Typed, ConnectionTyped
<1>4. Len(wire) \in Nat
    BY <1>3, Concatenated DEF wire
<1>5. /\ Len(wire') = Len(wire) + 1
      /\ \A i \in 1 .. Len(wire) : wire'[i] = wire[i]
      /\ wire'[Len(wire) + 1] = f
    BY <1>1, <1>2, <1>3, LastArrives DEF wire
<1>6. \A i \in 1 .. Len(wire) : wire[i].payload # r
    BY <1>3 DEF Outbound
<1>7. ASSUME NEW i \in 1 .. Len(wire') PROVE Outbound(wire[i])'
  <2>1. PICK g : g = wire'[i]
    OBVIOUS
  <2>2. Outbound(g)'
    <3>1. CASE i \in 1 .. Len(wire)
      BY <1>3, <1>5, <2>1, <3>1
    <3>2. CASE i = Len(wire) + 1
      BY <1>1, <1>2, <1>5, <2>1, <3>2 DEF Outbound
    <3>3. QED
      BY <1>4, <1>5, <3>1, <3>2
  <2>3. QED
    BY <2>1, <2>2 DEF Outbound, Sent
<1>8. \A i, j \in 1 .. Len(wire') : wire'[i].payload = wire'[j].payload => i = j
  <2>1. \A i \in 1 .. Len(wire') : i \in 1 .. Len(wire) \/ i = Len(wire) + 1
    BY <1>4, <1>5
  <2>2. QED
    BY <1>2, <1>3, <1>5, <1>6, <2>1
<1>9. QED
    BY <1>3, <1>7, <1>8 DEF RequestsInFlight

\* A suspended enqueue() that finds space sends the request it was suspended for.
LEMMA EnqueueAcceptedInv ==
    ASSUME SystemInv, IInv', UNCHANGED <<serverVars, c2s, s2c>>, Timed = {},
           NEW r \in Requests, EnqueueAccepted(r)
    PROVE  SystemInv'
<1>1. /\ request[r].phase = "enqueuing"
      /\ queue' = Append(queue, RequestFrame(request[r].stream, r))
      /\ UNCHANGED <<pending, terminal_streams, state, reader>>
      /\ request' = [request EXCEPT ![r] = Opened(r, request[r])]
    BY DEF EnqueueAccepted, connVars
<1>2. /\ request[r] \in RequestRecords
      /\ request[r].timer = "off"
      /\ request[r].stream \in server!Streams
      /\ ~Sent(r) /\ Begun(r)
    BY <1>1 DEF SystemInv, IInv, Typed, Undisturbed, TasksMatch, Sent, Begun
<1> DEFINE t == IF r \in Timed THEN "armed" ELSE request[r].timer
           q == [request[r] EXCEPT !.phase = "open", !.timer = t]
<1>3. t = "off"
    BY <1>2
<1>4. Opened(r, request[r]) = q
    BY DEF Opened
<1> HIDE DEF t
<1>5. /\ q.phase = "open"
      /\ q.stream = request[r].stream
      /\ q.operation = request[r].operation
      /\ q.channel = request[r].channel
      /\ q.outcome = request[r].outcome
      /\ q.timer = "off"
    BY <1>2, <1>3 DEF RequestRecords
<1> HIDE DEF q
<1>6. request' = [request EXCEPT ![r] = q]
    BY <1>1, <1>4
<1>7. /\ request'[r] = q
      /\ task[r].phase = "none" /\ task' = task
      /\ \A x \in Requests : x # r =>
            /\ request'[x] = request[x]
            /\ Sent(x)' <=> Sent(x)
            /\ Begun(x)' <=> Begun(x)
            /\ Active(x)' <=> Active(x)
      /\ Begun(r)'
      /\ Sent(r)' <=> q.phase = "open"
      /\ \A x \in Requests : Over(x)' <=> Over(x)
      /\ TasksMatch' /\ Delivered' /\ Undisturbed' /\ ServerTyped'
      /\ \A f : Genuine(f) => Genuine(f)'
      /\ \A f : Outbound(f) => Outbound(f)'
    BY <1>1, <1>2, <1>5, <1>6, OneMoves
<1>8. \A x \in Requests :
        /\ request'[x].stream = request[x].stream
        /\ Begun(x)' <=> Begun(x)
        /\ Active(x)' <=> Active(x)
    BY <1>2, <1>5, <1>7 DEF Active
<1>9. RequestsInFlight'
    BY <1>1, <1>2, <1>5, <1>7, StreamsOfBoth, WireGrows
<1>10. RepliesInFlight'
    BY <1>7, RepliesKept
<1>11. Answered'
    BY <1>1, <1>7, <1>8 DEF SystemInv, Answered
<1>12. Routes'
    BY <1>1, <1>8 DEF SystemInv, Routes
<1>13. Recycled'
    BY <1>7, <1>8 DEF SystemInv, Recycled
<1>14. QED
    BY <1>7, <1>9, <1>10, <1>11, <1>12, <1>13 DEF SystemInv

\* The request start_request() registers, opened or suspended in enqueue().
LEMMA StartedFields ==
    ASSUME SystemInv, Timed = {}, NEW r \in Requests, StartRequest(r)
    PROVE  \E s \in Streams, q \in RequestRecords :
             /\ ids!Allocate(s)
             /\ pending' = Emplaced(r, s)
             /\ request' = [request EXCEPT ![r] = q]
             /\ q.stream = s
             /\ q.operation.state = "active"
             /\ q.channel = "empty"
             /\ q.timer = "off"
             /\ q.outcome = request[r].outcome
             /\ \/ q.phase = "open" /\ queue' = Append(queue, RequestFrame(s, r))
                \/ q.phase = "enqueuing" /\ queue' = queue
<1>1. PICK s \in Streams :
        /\ ids!Allocate(s)
        /\ pending' = Emplaced(r, s)
        /\ \/ /\ queue' = Append(queue, RequestFrame(s, r))
              /\ request' = [request EXCEPT ![r] = Opened(r, Created(r, s))]
           \/ /\ request' = [request EXCEPT ![r] = [Created(r, s) EXCEPT !.phase = "enqueuing"]]
              /\ queue' = queue
    BY DEF StartRequest
<1> DEFINE c == Created(r, s)
<1>2. /\ request[r].phase = "none"
      /\ request[r] \in RequestRecords
    BY DEF StartRequest, SystemInv, IInv, Typed
<1>3. /\ c \in RequestRecords
      /\ c.stream = s
      /\ c.operation.state = "active"
      /\ c.channel = "empty"
      /\ c.timer = "off"
    BY <1>2, CreatedFields DEF SystemInv
<1>4. c.outcome = request[r].outcome
  <2> DEFINE op == activate(NewOperation)
  <2>1. c = [request[r] EXCEPT !.stream = s, !.operation = op]
    BY DEF Created
  <2> HIDE DEF op, c
  <2>2. QED
    BY <1>2, <2>1 DEF RequestRecords
<1> HIDE DEF c
<1>5. CASE /\ queue' = Append(queue, RequestFrame(s, r))
           /\ request' = [request EXCEPT ![r] = Opened(r, c)]
  <2> DEFINE t == IF r \in Timed THEN "armed" ELSE c.timer
             q == [c EXCEPT !.phase = "open", !.timer = t]
  <2>1. t = "off"
    BY <1>3
  <2>2. Opened(r, c) = q
    BY DEF Opened
  <2> HIDE DEF t
  <2>3. /\ q \in RequestRecords
        /\ q.phase = "open"
        /\ q.stream = c.stream
        /\ q.operation = c.operation
        /\ q.channel = c.channel
        /\ q.timer = t
        /\ q.outcome = c.outcome
    BY <1>3, <2>1 DEF RequestRecords, Phases
  <2> HIDE DEF q
  <2>4. QED
    BY <1>1, <1>3, <1>4, <1>5, <2>1, <2>2, <2>3
<1>6. CASE /\ queue' = queue
           /\ request' = [request EXCEPT ![r] = [c EXCEPT !.phase = "enqueuing"]]
  <2> DEFINE q == [c EXCEPT !.phase = "enqueuing"]
  <2>1. /\ q \in RequestRecords
        /\ q.phase = "enqueuing"
        /\ q.stream = c.stream
        /\ q.operation = c.operation
        /\ q.channel = c.channel
        /\ q.timer = c.timer
        /\ q.outcome = c.outcome
    BY <1>3 DEF RequestRecords, Phases
  <2>2. request' = [request EXCEPT ![r] = q] /\ queue' = queue
    BY <1>6
  <2>3. ids!Allocate(s) /\ pending' = Emplaced(r, s)
    BY <1>1
  <2> HIDE DEF q
  <2>4. QED
    BY <1>3, <1>4, <2>1, <2>2, <2>3
<1>7. QED
    BY <1>1, <1>5, <1>6 DEF c

\* The streams the allocator issues are streams the server accepts.
LEMMA IssuedAccepted ==
    ASSUME SystemInv, NEW s \in Streams, ids!Allocate(s)
    PROVE  s \in server!Streams
<1>1. idp!AllocInv' /\ s \in in_use'
    BY AllocKept, StreamGranted DEF SystemInv, IInv
<1>2. s \in idp!OwnIds
    BY <1>1 DEF idp!AllocInv, idp!AllocTypeOK
<1>3. QED
    BY <1>2 DEF idp!OwnIds, server!Streams

\* A stream is issued again only after its last response: its earlier requests are over, and
\* the client will not take another response on it.
LEMMA FreeStreamIsOver ==
    ASSUME SystemInv, NEW s \in Streams, s \notin in_use, ~ShuttingDown(state),
           NEW x \in Requests, Begun(x), request[x].stream = s
    PROVE  s \in terminal_streams /\ Over(x)
<1>1. ~Active(x)
    BY HeldInUse DEF SystemInv, IInv, StreamOwnership
<1>2. QED
    BY <1>1 DEF SystemInv, Answered

\* A new request starts on a stream that nothing in the system confuses with an earlier one.
LEMMA StartRequestInv ==
    ASSUME SystemInv, IInv', UNCHANGED <<serverVars, c2s, s2c>>, Timed = {},
           NEW r \in Requests, StartRequest(r)
    PROVE  SystemInv'
<1>1. /\ request[r].phase = "none"
      /\ ~ShuttingDown(state)
      /\ UNCHANGED <<terminal_streams, state, reader>>
    BY DEF StartRequest, connVars
<1>2. PICK s \in Streams, q \in RequestRecords :
        /\ ids!Allocate(s)
        /\ pending' = Emplaced(r, s)
        /\ request' = [request EXCEPT ![r] = q]
        /\ q.stream = s
        /\ q.operation.state = "active"
        /\ q.channel = "empty"
        /\ q.timer = "off"
        /\ q.outcome = request[r].outcome
        /\ \/ q.phase = "open" /\ queue' = Append(queue, RequestFrame(s, r))
           \/ q.phase = "enqueuing" /\ queue' = queue
    BY StartedFields
<1>3. s \notin in_use /\ s \in server!Streams
    BY <1>2, StreamGranted, IssuedAccepted DEF SystemInv, IInv
<1>4. /\ pending'[s] = r
      /\ \A u \in Streams : u # s => pending'[u] = pending[u]
    BY <1>2, <1>3, FreeStreamUnmapped DEF Emplaced, SystemInv, IInv, Typed
<1>5. ~Sent(r) /\ ~Begun(r)
    BY <1>1 DEF Sent, Begun
<1>6. /\ request'[r] = q
      /\ task[r].phase = "none" /\ task' = task
      /\ \A x \in Requests : x # r =>
            /\ request'[x] = request[x]
            /\ Sent(x)' <=> Sent(x)
            /\ Begun(x)' <=> Begun(x)
            /\ Active(x)' <=> Active(x)
      /\ Begun(r)'
      /\ Sent(r)' <=> q.phase = "open"
      /\ \A x \in Requests : Over(x)' <=> Over(x)
      /\ TasksMatch' /\ Delivered' /\ Undisturbed' /\ ServerTyped'
      /\ \A f : Genuine(f) => Genuine(f)'
      /\ \A f : Outbound(f) => Outbound(f)'
    BY <1>1, <1>2, <1>3, <1>5, OneMoves
<1>7. RequestsInFlight'
  <2>1. CASE q.phase = "open"
    BY <1>2, <1>5, <1>6, <2>1, WireGrows
  <2>2. CASE q.phase # "open"
    BY <1>2, <1>6, <2>2, QueueShrinks
  <2>3. QED
    BY <2>1, <2>2
<1>8. RepliesInFlight'
    BY <1>6, RepliesKept
<1>9. Active(r)'
    BY <1>2, <1>6 DEF Active
<1>10. Answered'
    BY <1>1, <1>6, <1>9 DEF SystemInv, Answered
<1>11. \A x \in Requests : x # r /\ Begun(x) /\ request[x].stream = s
           => s \in terminal_streams /\ Over(x)
    BY <1>1, <1>3, FreeStreamIsOver
<1>12. Routes'
  <2> SUFFICES ASSUME NEW x \in Requests, Begun(x)'
               PROVE  \/ request'[x].stream \in terminal_streams'
                      \/ pending'[request'[x].stream] \in {x, NoRequest}
    BY DEF Routes
  <2>1. CASE x = r
    BY <1>2, <1>4, <1>6, <2>1
  <2>2. CASE x # r
    <3>1. Begun(x) /\ request'[x] = request[x] /\ request[x].stream \in Streams
      BY <1>6, <2>2, StreamsOfBoth DEF SystemInv, TasksMatch
    <3>2. QED
      BY <1>1, <1>4, <1>11, <2>2, <3>1 DEF SystemInv, Routes
  <2>3. QED
    BY <2>1, <2>2
<1>13. Recycled'
  <2> SUFFICES ASSUME NEW x \in Requests, NEW y \in Requests, Begun(x)', Begun(y)',
                      request'[x].stream = request'[y].stream, x # y
               PROVE  Over(x)' \/ Over(y)'
    BY DEF Recycled
  <2>1. CASE x = r
    BY <1>2, <1>6, <1>11, <2>1
  <2>2. CASE y = r
    BY <1>2, <1>6, <1>11, <2>2
  <2>3. CASE x # r /\ y # r
    BY <1>6, <2>3 DEF SystemInv, Recycled
  <2>4. QED
    BY <2>1, <2>2, <2>3
<1>14. QED
    BY <1>6, <1>7, <1>8, <1>10, <1>12, <1>13 DEF SystemInv

\* A request that is neither timed nor abandoned is only answered, or lost with the connection.
LEMMA ClientLocalInv ==
    ASSUME SystemInv, IInv', Timed = {}, Abandonable = {}, ClientLocal
    PROVE  SystemInv'
<1>1. UNCHANGED serverVars /\ UNCHANGED c2s /\ UNCHANGED s2c
    BY DEF ClientLocal
<1>2. ASSUME NEW r \in Requests,
             \/ StartRefused(r) \/ StartExhausted(r) \/ StartUnencodable(r)
             \/ StartRejected(r) \/ EnqueueRefused(r)
             \/ async_wait(r) \/ WaitReturns(r)
      PROVE  SystemInv'
  <2>1. ClientEffect
    BY <1>1, <1>2, RefusedCalm, NotAcceptedCalm, WaitCalm
  <2>2. queue' = queue
    BY <1>2 DEF StartRefused, StartExhausted, StartUnencodable, StartRejected, EnqueueRefused,
                async_wait, WaitReturns, queueVars
  <2>3. QED
    BY <1>1, <2>1, <2>2, ClientEffectInv
<1>3. ASSUME NEW r \in Requests, StartRequest(r) \/ EnqueueAccepted(r) PROVE SystemInv'
    BY <1>1, <1>3, StartRequestInv, EnqueueAcceptedInv
<1>4. ASSUME NEW r \in Requests,
             CancelRequest(r) \/ Discard(r) \/ TimerExpires(r) \/ TimerFires(r)
      PROVE  FALSE
  <2>1. request[r].timer = "off"
    BY DEF SystemInv, Undisturbed
  <2>2. QED
    BY <1>4, <2>1 DEF CancelRequest, Discard, TimerExpires, TimerFires
<1>5. ASSUME NEW r \in Requests, ApplicationStep(r) \/ RequestStep(r) PROVE SystemInv'
    BY <1>2, <1>3, <1>4, <1>5 DEF ApplicationStep, RequestStep
<1>6. CASE \/ WriteFails \/ WriterStops \/ Run \/ Shutdown \/ DrainEnds
           \/ ReadEnds(FALSE, FALSE)
    BY <1>1, <1>6, ConnectionCalm, ClientEffectInv
<1>7. QED
    BY <1>5, <1>6 DEF ClientLocal

\* The first response in flight is one the server sent for a request that is over.
LEMMA FirstReply ==
    ASSUME SystemInv, s2c # <<>>
    PROVE  Head(s2c) \in ReplyFrames /\ Genuine(Head(s2c))
<1>1. /\ s2c \in Seq(ReplyFrames)
      /\ \A i \in 1 .. Len(s2c) : Genuine(s2c[i])
    BY DEF SystemInv, RepliesInFlight
<1>2. Head(s2c) = s2c[1] /\ 1 \in 1 .. Len(s2c) /\ Head(s2c) \in ReplyFrames
    BY <1>1
<1>3. QED
    BY <1>1, <1>2

\* Every step of the client is one of the client connection's own, with the server as its peer.
LEMMA ClientOwnSteps ==
    ASSUME SystemInv, ClientLocal \/ ClientWrites \/ ClientReceives \/ ClientReadsEnd
    PROVE  IInv'
<1>1. CASE ClientLocal
  <2>1. ReadEnds(FALSE, FALSE) => ReadEnds(TRUE, FALSE)
    BY DEF ReadEnds
  <2>2. Next
    BY <1>1, <2>1 DEF ClientLocal, Next, ConnectionStep, PeerStep
  <2>3. QED
    BY <2>2, StepInv DEF SystemInv
<1>2. CASE ClientWrites
  <2>1. Next
    BY <1>2 DEF ClientWrites, Next, ConnectionStep
  <2>2. QED
    BY <2>1, StepInv DEF SystemInv
<1>3. CASE ClientReceives
  <2>1. Readable(Head(s2c)) /\ Dispatch(Head(s2c))
    BY <1>3, FirstReply, ReplyFindsItsRequest DEF ClientReceives
  <2>2. Receive
    BY <2>1 DEF Receive
  <2>3. QED
    BY <2>2, StepInv DEF SystemInv
<1>4. CASE ClientReadsEnd
  <2>1. Next
    BY <1>4 DEF ClientReadsEnd, Next, PeerStep
  <2>2. QED
    BY <2>1, StepInv DEF SystemInv
<1>5. QED
    BY <1>1, <1>2, <1>3, <1>4

\* Every step of the client keeps the invariant.
LEMMA ClientStepInv ==
    ASSUME SystemInv, Timed = {}, Abandonable = {},
           ClientLocal \/ ClientWrites \/ ClientReceives \/ ClientReadsEnd
    PROVE  SystemInv'
<1>1. IInv'
    BY ClientOwnSteps
<1>2. CASE ClientLocal
    BY <1>1, <1>2, ClientLocalInv
<1>3. CASE ClientWrites
    BY <1>1, <1>3, ClientWritesInv
<1>4. CASE ClientReceives
  <2>1. /\ UNCHANGED serverVars /\ UNCHANGED c2s
        /\ s2c # <<>> /\ s2c' = Tail(s2c)
        /\ Dispatch(Head(s2c))
    BY <1>4 DEF ClientReceives
  <2>2. ClientEffect /\ queue' = queue
    BY <2>1, FirstReply, DispatchCalm
  <2>3. QED
    BY <1>1, <2>1, <2>2, ClientEffectInv
<1>5. CASE ClientReadsEnd
  <2>1. UNCHANGED serverVars /\ UNCHANGED c2s /\ s2c' = <<>> /\ ReadEnds(TRUE, FALSE)
    BY <1>5 DEF ClientReadsEnd
  <2>2. ClientEffect /\ (queue' = queue \/ queue' = <<>>)
    BY <2>1, ConnectionCalm
  <2>3. QED
    BY <1>1, <2>1, <2>2, ClientEffectInv
<1>6. QED
    BY <1>2, <1>3, <1>4, <1>5

-----------------------------------------------------------------------------
(* The system *)

\* Nothing is in flight before the first request.
LEMMA SystemInitInv == SystemInit => SystemInv
<1> SUFFICES ASSUME SystemInit PROVE SystemInv
    OBVIOUS
<1>1. IInv
    BY InitInv DEF SystemInit
<1>2. /\ request = [r \in Requests |-> NewRequest]
      /\ state = "created" /\ reader = "idle"
      /\ queue = <<>> /\ c2s = <<>> /\ s2c = <<>>
      /\ operations = server!NoOperations
      /\ task = [r \in Requests |-> server!NewTask]
      /\ s_terminal_streams = {}
      /\ s_queue = <<>>
      /\ s_state = "created"
    BY DEF SystemInit, Init, server!Init
<1>3. \A r \in Requests :
        /\ request[r].phase = "none"
        /\ request[r].timer = "off"
        /\ request[r].channel = "empty"
        /\ request[r].outcome = "none"
        /\ ~Sent(r) /\ ~Begun(r)
    BY <1>2 DEF NewRequest, Sent, Begun
<1>4. \A r \in Requests :
        /\ task[r] \in TaskRecords
        /\ task[r].phase = "none"
        /\ task[r].operation.state = "created"
  <2>1. NewOperation \in OperationRecords /\ NewOperation.state = "created"
    BY NewOperationActivates DEF NewOperation
  <2>2. server!NewOperation = NewOperation
    BY DEF server!NewOperation, NewOperation
  <2>3. server!NewTask = [phase |-> "none", stream |-> 0, operation |-> NewOperation,
                          reply |-> "none"]
    BY <2>2 DEF server!NewTask
  <2>4. server!NewTask \in TaskRecords /\ server!NewTask.phase = "none"
        /\ server!NewTask.operation = NewOperation
    BY <2>1, <2>3 DEF TaskRecords, server!Phases
  <2>5. QED
    BY <1>2, <2>1, <2>4
<1>5. Undisturbed
    BY <1>2, <1>3 DEF Undisturbed
<1>6. ServerTyped
  <2>1. operations \in [server!Streams -> Requests \cup {NoRequest}]
        /\ \A s \in server!Streams : operations[s] = NoRequest
    BY <1>2 DEF server!NoOperations
  <2>2. task \in [Requests -> TaskRecords]
    BY <1>2, <1>4
  <2>3. QED
    BY <1>2, <1>4, <2>1, <2>2 DEF ServerTyped, ConnectionStates
<1>7. RequestsInFlight
  <2>1. wire = <<>>
    BY <1>2 DEF wire
  <2>2. QED
    BY <1>2, <2>1 DEF RequestsInFlight
<1>8. RepliesInFlight
    BY <1>2 DEF RepliesInFlight
<1>9. TasksMatch /\ Answered /\ Routes /\ Recycled
    BY <1>3, <1>4 DEF TasksMatch, Answered, Routes, Recycled
<1>10. Delivered
    BY <1>3, NoRequestIsMarker DEF Delivered
<1>11. QED
    BY <1>1, <1>5, <1>6, <1>7, <1>8, <1>9, <1>10 DEF SystemInv

\* Every step of the system keeps the invariant when no request is given up.
LEMMA SystemStepInv ==
    ASSUME Timed = {}, Abandonable = {}, SystemInv, [SystemNext]_systemVars
    PROVE  SystemInv'
<1>1. CASE SystemNext
    BY <1>1, ClientStepInv, ServerStepInv DEF SystemNext
<1>2. CASE UNCHANGED systemVars
  <2>1. UNCHANGED vars /\ UNCHANGED serverVars /\ UNCHANGED <<c2s, s2c>>
    BY <1>2 DEF systemVars
  <2>2. IInv'
    BY <2>1, StepInv DEF SystemInv
  <2>3. UNCHANGED <<request, pending, terminal_streams, state, reader, queue>>
    BY <2>1 DEF vars, requestVars, queueVars, connVars
  <2>4. ClientEffect
    BY <2>1, <2>3, NoneChangedEffect DEF SystemInv, Undisturbed
  <2>5. QED
    BY <2>1, <2>2, <2>3, <2>4, ClientEffectInv
<1>3. QED
    BY <1>1, <1>2

\* The invariant of the composition, for every set of requests, every range of stream
\* identifiers and every queue limit, when no request has a deadline and none is abandoned.
THEOREM SystemInvariant ==
    ASSUME Timed = {}, Abandonable = {}
    PROVE  SystemSpec => []SystemInv
<1>1. SystemInv /\ [SystemNext]_systemVars => SystemInv'
    BY SystemStepInv
<1>2. QED
    BY <1>1, SystemInitInv, PTL DEF SystemSpec

\* A caller only ever gets the response to its own request, and only after the server's
\* handler for it has completed, although the client recycles stream identifiers and the
\* server answers in any order.
THEOREM ResponsesCorrelated ==
    ASSUME Timed = {}, Abandonable = {}
    PROVE  SystemSpec => []Correlated
<1>1. SystemInv => Correlated
    BY DEF SystemInv, Delivered, Correlated
<1>2. QED
    BY <1>1, SystemInvariant, PTL

\* A frame that is accepted reports nothing while the bytes decode.
LEMMA ContinueReportsNothing ==
    ASSUME DecoderErrors = {}, NEW handlers, server!Continue(handlers)
    PROVE  UNCHANGED <<refusal, protocol_errors>>
BY DEF server!Continue, server!connVars

\* The server has no reason to refuse what such a client sends.
LEMMA NothingRefused ==
    ASSUME SystemInv, DecoderErrors = {}, SystemNext
    PROVE  UNCHANGED <<refusal, protocol_errors>>
<1>1. CASE ClientLocal \/ ClientWrites \/ ClientReceives \/ ClientReadsEnd
  <2>1. UNCHANGED serverVars
    BY <1>1 DEF ClientLocal, ClientWrites, ClientReceives, ClientReadsEnd
  <2>2. QED
    BY <2>1 DEF serverVars
<1>2. ASSUME NEW r \in Requests, server!HandlerStep(r)
      PROVE  UNCHANGED <<refusal, protocol_errors>>
    BY <1>2 DEF server!HandlerStep, server!HandlerStarts, server!HandlerRejects,
                server!HandlerFails, server!HandlerReturnsLate, server!HandlerReturns,
                server!ResponseAccepted, server!ResponseRefused, server!HandlerDone,
                server!connVars
<1>3. CASE ServerLocal
    BY <1>2, <1>3 DEF ServerLocal, server!WriteFails, server!WriterStops, server!Run,
                      server!Shutdown, server!DrainEnds, server!ReadLost
<1>4. CASE ServerWrites
    BY <1>4 DEF ServerWrites, server!WriteDone, server!connVars
<1>5. CASE ServerReceives
  <2>1. c2s # <<>> /\ server!Dispatch(Head(c2s))
    BY <1>5 DEF ServerReceives
  <2>2. \E handlers : server!Continue(handlers)
    BY <2>1, ArrivalHandled DEF server!DispatchDraining, server!DispatchRequest
  <2>3. QED
    BY <2>2, ContinueReportsNothing
<1>6. CASE ServerReadsEnd
    BY <1>6 DEF ServerReadsEnd, server!ReadLost
<1>7. QED
    BY <1>1, <1>3, <1>4, <1>5, <1>6 DEF SystemNext

\* A client that gives up no request never makes the server report a protocol violation or
\* close the connection on one: when a stream is recycled, the server has forgotten the
\* stream's previous request.
THEOREM ServerMeetsNoViolation ==
    ASSUME Timed = {}, Abandonable = {}, DecoderErrors = {}
    PROVE  SystemSpec => []ServerSeesNoViolation
<1>1. SystemInit => ServerSeesNoViolation
    BY DEF SystemInit, server!Init, ServerSeesNoViolation
<1>2. SystemInv /\ ServerSeesNoViolation /\ [SystemNext]_systemVars => ServerSeesNoViolation'
    BY NothingRefused DEF ServerSeesNoViolation, systemVars, serverVars
<1>3. QED
    BY <1>1, <1>2, SystemInvariant, PTL DEF SystemSpec

=============================================================================
