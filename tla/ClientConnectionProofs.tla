------------------------ MODULE ClientConnectionProofs ------------------------
(***************************************************************************)
(* The client connection is consistent for every set of requests, every    *)
(* range of stream identifiers, every queue limit and every peer.          *)
(*                                                                         *)
(* The proof goes through one relation: apart from the steps of            *)
(* start_request() that take a stream, every step only settles requests    *)
(* (Settles), and those that take one start a single request (Starts).     *)
(* Each action is shown to do one or the other, and each part of the       *)
(* invariant to survive both.                                              *)
(***************************************************************************)
EXTENDS ClientConnection, LifecycleProofs

\* The allocator's own proofs, for the allocator of this connection.
idp == INSTANCE StreamIdAllocatorProofs
           WITH Initiator <- "client", Maximum <- MaxStream, Modulus <- MaxStream + 3

-----------------------------------------------------------------------------
(* The inductive invariant *)

RequestRecords ==
    [phase : Phases, stream : Streams \cup {0}, operation : OperationRecords,
     channel : {"empty", "closed", "garbage"} \cup Replies, timer : {"off", "armed", "expired"},
     removed : BOOLEAN, released : BOOLEAN, outcome : StatusCodes \cup {"none"} \cup Replies]

\* What a call and its handle look like before the operation is activated ...
Unstarted(q) ==
    /\ q.phase \in {"none", "refused", "unencoded"}
    /\ q.stream = 0 <=> q.phase # "unencoded"
    /\ q.channel = "empty"
    /\ q.timer = "off"
    /\ ~q.removed
    /\ ~q.released

\* ... while it is active ...
Underway(q) ==
    /\ q.phase \in {"enqueuing", "open", "waiting"}
    /\ q.stream # 0
    /\ q.channel = "empty"
    /\ ~q.removed
    /\ ~q.released

\* ... and once it is finished: the channel tells how, and async_wait() returns that.
Ended(q) ==
    /\ q.phase \notin {"none", "unencoded"}
    /\ q.stream # 0
    /\ q.operation.state = "completed" => q.channel \in Replies \cup {"garbage"}
    /\ q.operation.state # "completed" => q.channel = "closed" /\ q.operation.result # "none"
    /\ q.phase = "returned" => q.outcome = Answer(q)

\* The story of one request, told by the state of its operation.
Story(q) ==
    /\ q.operation.state = "created" => Unstarted(q)
    /\ q.operation.state = "active" => Underway(q)
    /\ is_terminal(q.operation) => q.removed /\ Ended(q)

\* The frames the client sends.
SentFrames ==
    [type : {"request"}, flag : {"none", "cancel"}, stream : Streams, end : BOOLEAN,
     payload : Requests \cup {"empty"}]

\* The states of a client connection between two steps.
ClientStates == {"created", "active", "draining", "closing", "closed"}

ConnectionTyped ==
    /\ terminal_streams \subseteq Streams
    /\ queue \in Seq(SentFrames)
    /\ queue_closed \in BOOLEAN
    /\ Len(queue) <= MaxFrames + 1
    /\ state \in ClientStates
    /\ transport \in BOOLEAN
    /\ reader \in {"idle", "reading", "ended"}
    /\ writer \in {"idle", "running", "stopped", "failed"}
    /\ drain \in {"none", "draining", "done"}
    /\ violation \in ProtocolStatuses \cup {"none"}

Typed ==
    /\ pending \in [Streams -> Requests \cup {NoRequest}]
    /\ request \in [Requests -> RequestRecords]
    /\ ConnectionTyped

Stories == \A r \in Requests : Story(request[r])

\* shutdown() leaves the connection shutting down, and a closed one has nothing pending.
Closing ==
    /\ drain # "none" => ShuttingDown(state)
    /\ state = "closed" => pending = NonePending

IInv ==
    /\ idp!AllocInv
    /\ Typed
    /\ Stories
    /\ Registered
    /\ StreamOwnership
    /\ Closing

-----------------------------------------------------------------------------
(* Frames of any peer *)

\* A frame whose stream the decoder accepts and whose payload, if it is a response, decodes
\* or does not.
Readable(f) ==
    /\ f.stream \in Streams
    /\ f.flag = "none" => f.payload \in Replies \cup {"garbage"}

\* The read loop is given a frame, by whatever peer the connection is composed with.
Receive == \E f : Readable(f) /\ Dispatch(f)

\* The frames of the arbitrary peer are of this kind.
LEMMA PeerFramesReadable ==
    ASSUME NEW f \in PeerFrames
    PROVE  Readable(f)
BY ClientAssumption DEF Readable, Streams

-----------------------------------------------------------------------------
(* What a step may do to the requests *)

\* The requests keep their streams, finished operations are left alone, and exactly the
\* entries of the requests that are still active survive.
SettlesTo(requests, entries) ==
    /\ requests \in [Requests -> RequestRecords]
    /\ \A r \in Requests :
        /\ Story(requests[r])
        /\ requests[r].stream = request[r].stream
        /\ requests[r].operation.state = "active" => Active(r)
        /\ is_terminal(request[r].operation) => requests[r].operation = request[r].operation
    /\ entries \in [Streams -> Requests \cup {NoRequest}]
    /\ \A s \in Streams, r \in Requests :
        entries[s] = r <=> pending[s] = r /\ requests[r].operation.state = "active"

\* No stream is given back, or one by the request that holds it.
GivesBack(requests) ==
    \/ /\ in_use' = in_use
       /\ \A r \in Requests : requests[r].released = request[r].released
    \/ \E r \in Requests :
        /\ Holds(r)
        /\ in_use' = in_use \ {request[r].stream}
        /\ requests[r].released
        /\ \A x \in Requests \ {r} : requests[x].released = request[x].released

Settles == SettlesTo(request', pending') /\ GivesBack(request')

\* start_request() with a stream: kept by the request, or given back at once.
Starts(r, q) ==
    /\ request[r].phase = "none"
    /\ ~ShuttingDown(state)
    /\ q \in RequestRecords
    /\ Story(q)
    /\ q.stream \in Streams
    /\ request' = [request EXCEPT ![r] = q]
    /\ q.released => /\ q.operation.state # "active"
                     /\ in_use' = in_use
                     /\ pending' = pending
    /\ ~q.released => /\ q.stream \notin in_use
                      /\ in_use' = in_use \cup {q.stream}
                      /\ pending' = IF q.operation.state = "active"
                                    THEN [pending EXCEPT ![q.stream] = r] ELSE pending

Effect ==
    /\ idp!AllocInv'
    /\ Settles \/ \E r \in Requests, q \in RequestRecords : Starts(r, q)

-----------------------------------------------------------------------------
(* The allocator *)

\* Every use start_request() and cleanup_pending() make of the allocator keeps its invariant.
LEMMA AllocKept ==
    ASSUME idp!AllocInv,
           \/ UNCHANGED allocVars
           \/ ids!AllocateExhausted
           \/ \E s \in Streams : ids!Allocate(s) \/ ids!Release(s) \/ ids!AllocateThenRelease(s)
    PROVE  idp!AllocInv'
<1>1. \A s \in Streams : s \in idp!StreamIds
    BY ClientAssumption DEF Streams, idp!StreamIds
<1>2. CASE UNCHANGED allocVars
    BY <1>2, idp!AllocStepInv, ClientAssumption DEF allocVars, idp!allocVars
<1>3. CASE ids!AllocateExhausted
  <2>1. idp!AllocateExhausted
    BY <1>3 DEF ids!AllocateExhausted, idp!AllocateExhausted, ids!Exhausted, idp!Exhausted,
                ids!last_id, idp!last_id
  <2>2. QED
    BY <2>1, idp!AllocStepInv, ClientAssumption DEF idp!AllocNext
<1>4. ASSUME NEW s \in Streams, ids!Allocate(s) PROVE idp!AllocInv'
  <2>1. idp!Allocate(s)
    BY <1>4 DEF ids!Allocate, idp!Allocate, ids!AllocateReleased, idp!AllocateReleased,
                ids!AllocateFresh, idp!AllocateFresh, ids!NextAfterIssue, idp!NextAfterIssue,
                ids!last_id, idp!last_id, ids!Wrap, idp!Wrap
  <2>2. QED
    BY <1>1, <2>1, idp!AllocStepInv, ClientAssumption DEF idp!AllocNext
<1>5. ASSUME NEW s \in Streams, ids!Release(s) PROVE idp!AllocInv'
  <2>1. idp!Release(s)
    BY <1>5 DEF ids!Release, idp!Release, ids!Releasable, idp!Releasable,
                ids!last_id, idp!last_id, ids!first_id, idp!first_id
  <2>2. QED
    BY <1>1, <2>1, idp!AllocStepInv, ClientAssumption DEF idp!AllocNext
<1>6. ASSUME NEW s \in Streams, ids!AllocateThenRelease(s) PROVE idp!AllocInv'
  <2>1. idp!AllocateThenRelease(s)
    BY <1>6 DEF ids!AllocateThenRelease, idp!AllocateThenRelease, ids!NextAfterIssue,
                idp!NextAfterIssue, ids!last_id, idp!last_id, ids!Wrap, idp!Wrap
  <2>2. QED
    BY <2>1, idp!ReturnedAtOnce, ClientAssumption
<1>7. QED
    BY <1>2, <1>3, <1>4, <1>5, <1>6

\* The allocator issues streams that nobody holds.
LEMMA StreamGranted ==
    ASSUME idp!AllocInv, NEW s \in Streams, ids!Allocate(s)
    PROVE  s \notin in_use /\ in_use' = in_use \cup {s}
<1>1. idp!Allocate(s)
    BY DEF ids!Allocate, idp!Allocate, ids!AllocateReleased, idp!AllocateReleased,
           ids!AllocateFresh, idp!AllocateFresh, ids!NextAfterIssue, idp!NextAfterIssue,
           ids!last_id, idp!last_id, ids!Wrap, idp!Wrap
<1>2. QED
    BY <1>1, idp!Granted, ClientAssumption

\* release() takes back a stream that is in use.
LEMMA StreamReleased ==
    ASSUME idp!AllocInv, NEW s \in in_use, ids!Release(s)
    PROVE  s \in Streams /\ in_use' = in_use \ {s}
<1>1. s \in idp!OwnIds
    BY DEF idp!AllocInv, idp!AllocTypeOK
<1>2. s \in 1 .. idp!last_id /\ s % 2 = idp!first_id % 2
    BY <1>1, idp!LastId, ClientAssumption
<1>3. s \in Streams
    BY <1>1, ClientAssumption DEF idp!OwnIds, Streams
<1>4. ids!Releasable(s)
    BY <1>2, idp!LastId, ClientAssumption DEF ids!Releasable, ids!last_id, idp!last_id, ids!first_id, idp!first_id
<1>5. QED
    BY <1>3, <1>4 DEF ids!Release

-----------------------------------------------------------------------------
(* One request *)

\* A finished request told twice is told the same: the story depends on these fields only.
LEMMA SameStory ==
    ASSUME NEW p \in RequestRecords, NEW q \in RequestRecords, Ended(q),
           p.phase = q.phase, p.stream = q.stream, p.operation = q.operation,
           p.channel = q.channel, p.outcome = q.outcome
    PROVE  Ended(p)
BY DEF Ended, Answer

\* cleanup_pending() sets the two marks and may stop the timer.
LEMMA CleanedFields ==
    ASSUME NEW q \in RequestRecords, NEW release_stream \in BOOLEAN
    PROVE  LET p == Cleaned(q, release_stream)
           IN  /\ p \in RequestRecords
               /\ p.phase = q.phase
               /\ p.stream = q.stream
               /\ p.operation = q.operation
               /\ p.channel = q.channel
               /\ p.outcome = q.outcome
               /\ p.removed
               /\ p.released <=> q.released \/ release_stream
<1> DEFINE u == Removed(q)
           v == u.released \/ release_stream
           p == [u EXCEPT !.released = v]
<1>1. /\ u \in RequestRecords
      /\ u.phase = q.phase
      /\ u.stream = q.stream
      /\ u.operation = q.operation
      /\ u.channel = q.channel
      /\ u.outcome = q.outcome
      /\ u.removed
      /\ u.released = q.released
  <2>1. CASE q.removed
    BY <2>1 DEF Removed
  <2>2. CASE ~q.removed
    <3>1. CancelTimer(q.timer) \in {"off", "armed", "expired"}
      BY DEF CancelTimer, RequestRecords
    <3> DEFINE t == CancelTimer(q.timer)
    <3>2. u = [q EXCEPT !.removed = TRUE, !.timer = t]
      BY <2>2 DEF Removed
    <3> HIDE DEF t, u
    <3>3. t \in {"off", "armed", "expired"}
      BY <3>1 DEF t
    <3>4. QED
      BY <3>2, <3>3 DEF RequestRecords
  <2>3. QED
    BY <2>1, <2>2
<1>2. v \in BOOLEAN /\ (v <=> q.released \/ release_stream)
    BY <1>1
<1>3. Cleaned(q, release_stream) = p
    BY DEF Cleaned
<1> HIDE DEF u, v
<1>4. /\ p \in RequestRecords
      /\ p.phase = u.phase
      /\ p.stream = u.stream
      /\ p.operation = u.operation
      /\ p.channel = u.channel
      /\ p.outcome = u.outcome
      /\ p.removed = u.removed
      /\ p.released = v
    BY <1>1, <1>2 DEF RequestRecords
<1> HIDE DEF p
<1>5. QED
    BY <1>1, <1>2, <1>3, <1>4

-----------------------------------------------------------------------------
(* All requests *)

\* A step that leaves the requests and the allocator alone settles nothing.
LEMMA NothingSettled ==
    ASSUME IInv
    PROVE  SettlesTo(request, pending)
<1>1. /\ request \in [Requests -> RequestRecords]
      /\ pending \in [Streams -> Requests \cup {NoRequest}]
    BY DEF IInv, Typed
<1>2. \A s \in Streams, r \in Requests : pending[s] = r => Active(r)
  <2> SUFFICES ASSUME NEW s \in Streams, NEW r \in Requests, pending[s] = r PROVE Active(r)
    OBVIOUS
  <2>1. pending[s] # NoRequest
    BY ClientAssumption
  <2>2. request[r].stream = s /\ s # 0
    BY <2>1, ClientAssumption DEF IInv, Registered, Streams
  <2>3. QED
    BY <2>2 DEF IInv, Registered
<1>3. QED
    BY <1>1, <1>2 DEF IInv, Stories, SettlesTo, Active

\* A request held by the client is in use by the allocator.
LEMMA HeldInUse ==
    ASSUME IInv, NEW r \in Requests, Holds(r)
    PROVE  request[r].stream \in in_use
BY DEF IInv, StreamOwnership

\* cleanup_pending() of a finished request settles it: the entry goes if it is still this
\* request's, and the stream goes back if the request holds it and the caller says so.
LEMMA CleanupSettles ==
    ASSUME IInv, NEW r \in Requests, NEW q \in RequestRecords, NEW release_stream \in BOOLEAN,
           q.stream = request[r].stream,
           q.removed = request[r].removed,
           q.released = request[r].released,
           is_terminal(q.operation),
           Ended(q),
           is_terminal(request[r].operation) => q.operation = request[r].operation,
           ReleaseStream(q, release_stream)
    PROVE  /\ SettlesTo([request EXCEPT ![r] = Cleaned(q, release_stream)], WithoutEntry(r, q))
           /\ GivesBack([request EXCEPT ![r] = Cleaned(q, release_stream)])
           /\ idp!AllocInv'
<1> DEFINE p == Cleaned(q, release_stream)
           requests == [request EXCEPT ![r] = p]
           entries == WithoutEntry(r, q)
<1>1. /\ p \in RequestRecords
      /\ p.phase = q.phase
      /\ p.stream = q.stream
      /\ p.operation = q.operation
      /\ p.channel = q.channel
      /\ p.outcome = q.outcome
      /\ p.removed
      /\ p.released <=> q.released \/ release_stream
    BY CleanedFields
<1> HIDE DEF p
<1>2. /\ request \in [Requests -> RequestRecords]
      /\ pending \in [Streams -> Requests \cup {NoRequest}]
    BY DEF IInv, Typed
<1>3. /\ requests \in [Requests -> RequestRecords]
      /\ requests[r] = p
      /\ \A x \in Requests : x # r => requests[x] = request[x]
    BY <1>1, <1>2
<1> HIDE DEF requests
<1>4. Ended(p)
    BY <1>1, SameStory
<1>5. q.stream \in Streams
    BY DEF Ended, RequestRecords
<1>6. p.operation.state # "active" /\ p.operation.state # "created"
    BY <1>1 DEF is_terminal, TerminalStates
<1>7. \A x \in Requests :
        /\ Story(requests[x])
        /\ requests[x].stream = request[x].stream
        /\ requests[x].operation.state = "active" => Active(x)
        /\ is_terminal(request[x].operation) => requests[x].operation = request[x].operation
    BY <1>1, <1>3, <1>4, <1>6 DEF Story, IInv, Stories, Active
<1>8. SettlesTo(request, pending)
    BY NothingSettled
<1>9. pending[q.stream] = r => ~q.removed
    BY <1>8, <1>5 DEF SettlesTo, Story, Underway
<1>10. \A s \in Streams : pending[s] = r => s = q.stream
    BY ClientAssumption DEF IInv, Registered
<1>11. /\ entries \in [Streams -> Requests \cup {NoRequest}]
       /\ entries[q.stream] = IF pending[q.stream] = r THEN NoRequest ELSE pending[q.stream]
       /\ \A s \in Streams : s # q.stream => entries[s] = pending[s]
    BY <1>2, <1>5, <1>9 DEF WithoutEntry
<1> HIDE DEF entries
<1>12. ASSUME NEW s \in Streams, NEW x \in Requests
       PROVE  entries[s] = x <=> pending[s] = x /\ requests[x].operation.state = "active"
  <2>1. CASE x = r
    BY <2>1, <1>3, <1>6, <1>10, <1>11, ClientAssumption
  <2>2. CASE x # r
    <3>1. entries[s] = x <=> pending[s] = x
      BY <2>2, <1>11, ClientAssumption
    <3>2. pending[s] = x => request[x].operation.state = "active"
      BY <1>8 DEF SettlesTo
    <3>3. QED
      BY <2>2, <1>3, <3>1, <3>2
  <2>3. QED
    BY <2>1, <2>2
<1>13. SettlesTo(requests, entries)
    BY <1>3, <1>7, <1>11, <1>12 DEF SettlesTo
<1>14. GivesBack(requests) /\ idp!AllocInv'
  <2>1. CASE release_stream /\ ~q.released
    <3>1. Holds(r)
      BY <2>1, <1>5, ClientAssumption DEF Holds, Streams
    <3>2. ids!Release(q.stream)
      BY <2>1 DEF ReleaseStream
    <3>3. in_use' = in_use \ {request[r].stream}
      BY <3>1, <3>2, HeldInUse, StreamReleased DEF IInv
    <3>4. idp!AllocInv'
      BY <3>2, <1>5, AllocKept DEF IInv
    <3>5. QED
      BY <2>1, <1>1, <1>3, <3>1, <3>3, <3>4 DEF GivesBack
  <2>2. CASE ~(release_stream /\ ~q.released)
    <3>1. UNCHANGED allocVars
      BY <2>2 DEF ReleaseStream
    <3>2. in_use' = in_use /\ idp!AllocInv'
      BY <3>1, AllocKept DEF allocVars, IInv
    <3>3. p.released \in BOOLEAN /\ request[r].released \in BOOLEAN
      BY <1>1, <1>2 DEF RequestRecords
    <3>4. p.released = request[r].released
      BY <2>2, <1>1, <3>3
    <3>5. QED
      BY <1>3, <3>2, <3>4 DEF GivesBack
  <2>3. QED
    BY <2>1, <2>2
<1>15. QED
    BY <1>13, <1>14 DEF requests, entries, p

\* fail_pending() settles every registered request and leaves no entry behind.
LEMMA FailSettles ==
    ASSUME IInv, NEW requests, NEW entries, SettlesTo(requests, entries),
           NEW status \in StatusCodes \ {"ok"}
    PROVE  /\ SettlesTo(FailPending(requests, entries, status), NonePending)
           /\ \A r \in Requests :
                 FailPending(requests, entries, status)[r].released = requests[r].released
<1> DEFINE failed == FailPending(requests, entries, status)
           q(r) == [requests[r] EXCEPT !.operation = fail(@, status), !.channel = CloseChannel(@)]
           Listed(r) == \E s \in Streams : entries[s] = r
<1>1. \A r \in Requests : failed[r] = IF Listed(r) THEN Removed(q(r)) ELSE requests[r]
    BY DEF FailPending
<1>2. failed = [r \in Requests |-> failed[r]]
    BY DEF FailPending
<1> HIDE DEF failed
<1>3. ASSUME NEW r \in Requests, Listed(r)
      PROVE  /\ failed[r] \in RequestRecords
             /\ Story(failed[r])
             /\ failed[r].operation.state # "active"
             /\ failed[r].stream = requests[r].stream
             /\ failed[r].released = requests[r].released
             /\ Active(r)
  <2>1. /\ requests[r] \in RequestRecords
        /\ requests[r].operation.state = "active"
        /\ Underway(requests[r])
        /\ Active(r)
    BY <1>3 DEF SettlesTo, Story
  <2> DEFINE op == fail(requests[r].operation, status)
             channel == CloseChannel(requests[r].channel)
             p == [requests[r] EXCEPT !.operation = op, !.channel = channel]
  <2>2. requests[r].operation \in OperationRecords
    BY <2>1 DEF RequestRecords
  <2>3. op \in OperationRecords /\ op.state = "failed" /\ op.result = status
    BY <2>1, <2>2, OperationsTyped, ActiveFinishes, ResultsRecorded
  <2>4. channel = "closed"
    BY <2>1 DEF CloseChannel, Underway
  <2>5. q(r) = p
    OBVIOUS
  <2> HIDE DEF op, channel, q
  <2>6. /\ p \in RequestRecords
        /\ p.phase = requests[r].phase
        /\ p.stream = requests[r].stream
        /\ p.operation = op
        /\ p.channel = "closed"
        /\ p.removed = requests[r].removed
        /\ p.released = requests[r].released
    BY <2>1, <2>3, <2>4 DEF RequestRecords
  <2> HIDE DEF p
  <2>7. ~p.removed /\ p.timer \in {"off", "armed", "expired"}
    BY <2>1, <2>6 DEF Underway, RequestRecords
  <2> DEFINE t == CancelTimer(p.timer)
             u == [p EXCEPT !.removed = TRUE, !.timer = t]
  <2>8. t \in {"off", "armed", "expired"}
    BY <2>7 DEF CancelTimer
  <2>9. Removed(p) = u
    BY <2>7 DEF Removed
  <2> HIDE DEF t
  <2>10. /\ u \in RequestRecords
         /\ u.phase = p.phase
         /\ u.stream = p.stream
         /\ u.operation = p.operation
         /\ u.channel = p.channel
         /\ u.released = p.released
         /\ u.removed
    BY <2>6, <2>8 DEF RequestRecords
  <2>11. failed[r] = u
    BY <1>1, <1>3, <2>5, <2>9
  <2> HIDE DEF u, Listed
  <2>12. status # "none"
    BY DEF StatusCodes, WireStatuses, ProtocolStatuses, TransportStatuses
  <2>13. Ended(u)
    BY <2>1, <2>3, <2>6, <2>10, <2>12 DEF Ended, Underway
  <2>14. Story(u)
    BY <2>3, <2>6, <2>10, <2>13 DEF Story
  <2>15. QED
    BY <2>1, <2>3, <2>6, <2>10, <2>11, <2>14
<1>4. ASSUME NEW r \in Requests, ~Listed(r)
      PROVE  failed[r] = requests[r] /\ requests[r].operation.state # "active"
  <2>1. failed[r] = requests[r]
    BY <1>1, <1>4
  <2>2. Active(r) => pending[request[r].stream] = r /\ request[r].stream # 0
    BY DEF IInv, Registered
  <2>3. request[r].stream \in Streams \cup {0}
    BY DEF IInv, Typed, RequestRecords
  <2>4. requests[r].operation.state = "active" => Listed(r)
    BY <2>2, <2>3 DEF SettlesTo
  <2>5. QED
    BY <1>4, <2>1, <2>4
<1> HIDE DEF Listed
<1>5. \A r \in Requests :
        /\ failed[r] \in RequestRecords
        /\ Story(failed[r])
        /\ failed[r].operation.state # "active"
        /\ failed[r].stream = request[r].stream
        /\ failed[r].released = requests[r].released
        /\ is_terminal(request[r].operation) => failed[r].operation = request[r].operation
  <2> SUFFICES ASSUME NEW r \in Requests
               PROVE  /\ failed[r] \in RequestRecords
                      /\ Story(failed[r])
                      /\ failed[r].operation.state # "active"
                      /\ failed[r].stream = request[r].stream
                      /\ failed[r].released = requests[r].released
                      /\ is_terminal(request[r].operation)
                            => failed[r].operation = request[r].operation
    OBVIOUS
  <2>1. CASE Listed(r)
    BY <2>1, <1>3 DEF SettlesTo, Active, is_terminal, TerminalStates
  <2>2. CASE ~Listed(r)
    BY <2>2, <1>4 DEF SettlesTo
  <2>3. QED
    BY <2>1, <2>2
<1>6. failed \in [Requests -> RequestRecords]
    BY <1>2, <1>5
<1>7. /\ NonePending \in [Streams -> Requests \cup {NoRequest}]
      /\ \A s \in Streams, r \in Requests : NonePending[s] # r
    BY ClientAssumption DEF NonePending
<1>8. SettlesTo(failed, NonePending)
    BY <1>5, <1>6, <1>7 DEF SettlesTo
<1>9. QED
    BY <1>5, <1>8 DEF failed

\* A request that changes neither its operation nor its hold on the stream settles nothing.
LEMMA MoveSettles ==
    ASSUME IInv, NEW r \in Requests, NEW q \in RequestRecords, Story(q),
           q.stream = request[r].stream,
           q.operation = request[r].operation,
           q.released = request[r].released,
           request' = [request EXCEPT ![r] = q],
           pending' = pending,
           in_use' = in_use
    PROVE  Settles
<1>1. SettlesTo(request, pending)
    BY NothingSettled
<1>2. /\ request' \in [Requests -> RequestRecords]
      /\ request'[r] = q
      /\ \A x \in Requests : x # r => request'[x] = request[x]
    BY DEF IInv, Typed
<1>3. SettlesTo(request', pending')
  <2>1. \A x \in Requests :
          /\ Story(request'[x])
          /\ request'[x].stream = request[x].stream
          /\ request'[x].operation = request[x].operation
    BY <1>1, <1>2 DEF SettlesTo
  <2>2. QED
    BY <1>1, <1>2, <2>1 DEF SettlesTo
<1>4. GivesBack(request')
    BY <1>2 DEF GivesBack
<1>5. QED
    BY <1>3, <1>4 DEF Settles

\* cleanup_pending() as the last call of a step.
LEMMA CleanupEffect ==
    ASSUME IInv, NEW r \in Requests, NEW q \in RequestRecords, NEW release_stream \in BOOLEAN,
           q.stream = request[r].stream,
           q.removed = request[r].removed,
           q.released = request[r].released,
           is_terminal(q.operation),
           Ended(q),
           is_terminal(request[r].operation) => q.operation = request[r].operation,
           CleanupPending(r, q, release_stream)
    PROVE  Effect
BY CleanupSettles DEF CleanupPending, Effect, Settles

\* fail_pending() of everything that is registered.
LEMMA FailAllEffect ==
    ASSUME IInv, NEW status \in StatusCodes \ {"ok"},
           request' = FailPending(request, pending, status),
           pending' = NonePending,
           UNCHANGED allocVars
    PROVE  Effect
<1>1. SettlesTo(request', pending')
    BY NothingSettled, FailSettles
<1>2. GivesBack(request')
    BY NothingSettled, FailSettles DEF GivesBack, allocVars
<1>3. QED
    BY <1>1, <1>2, AllocKept DEF Effect, Settles, IInv

\* dispatch() of a frame to the request it belongs to, and the end of the loop if the
\* transport is closed.
LEMMA RoutedEffect ==
    ASSUME IInv, NEW r \in Requests, NEW q \in RequestRecords, NEW release_stream \in BOOLEAN,
           q.stream = request[r].stream,
           q.removed = request[r].removed,
           q.released = request[r].released,
           is_terminal(q.operation),
           Ended(q),
           is_terminal(request[r].operation) => q.operation = request[r].operation,
           Routed(r, q, release_stream)
    PROVE  Effect
<1> DEFINE requests == [request EXCEPT ![r] = Cleaned(q, release_stream)]
           entries == WithoutEntry(r, q)
<1>1. ReleaseStream(q, release_stream)
    BY DEF Routed
<1>2. SettlesTo(requests, entries) /\ GivesBack(requests) /\ idp!AllocInv'
    BY <1>1, CleanupSettles
<1>3. CASE request' = requests /\ pending' = entries
    BY <1>2, <1>3 DEF Effect, Settles
<1>4. CASE ~(request' = requests /\ pending' = entries)
  <2>1. PICK status \in {"connection_closed"} \cup DecoderErrors :
            request' = FailPending(requests, entries, status)
    BY <1>4 DEF Routed
  <2>2. pending' = NonePending
    BY <1>4 DEF Routed, EndReading
  <2>3. status \in StatusCodes \ {"ok"}
    BY ClientAssumption
       DEF StatusCodes, WireStatuses, ProtocolStatuses, TransportStatuses
  <2> HIDE DEF requests, entries
  <2>4. /\ SettlesTo(request', pending')
        /\ \A x \in Requests : request'[x].released = requests[x].released
    BY <1>2, <2>1, <2>2, <2>3, FailSettles
  <2>5. GivesBack(request')
    BY <1>2, <2>4 DEF GivesBack
  <2>6. QED
    BY <1>2, <2>4, <2>5 DEF Effect, Settles
<1>5. QED
    BY <1>3, <1>4

-----------------------------------------------------------------------------
(* The steps of the application *)

\* A call refused before it has a stream settles nothing.
LEMMA RefusedEffect ==
    ASSUME IInv, NEW r \in Requests, StartRefused(r) \/ StartExhausted(r)
    PROVE  Effect
<1> PICK status \in {"connection_closed", "resource_limit_exceeded"} : ReturnFailure(r, status)
    BY DEF StartRefused, StartExhausted
<1> DEFINE q == [request[r] EXCEPT !.phase = "refused", !.outcome = status]
<1>1. /\ request[r] \in RequestRecords
      /\ request[r].phase = "none"
      /\ Story(request[r])
      /\ request \in [Requests -> RequestRecords]
    BY DEF StartRefused, StartExhausted, IInv, Typed, Stories
<1>2. request[r].operation.state = "created" /\ Unstarted(request[r])
    BY <1>1 DEF Story, Underway, Ended, is_terminal, TerminalStates, RequestRecords,
                OperationRecords, OperationStates
<1>3. /\ q \in RequestRecords
      /\ q.phase = "refused"
      /\ q.stream = request[r].stream
      /\ q.operation = request[r].operation
      /\ q.channel = request[r].channel
      /\ q.timer = request[r].timer
      /\ q.removed = request[r].removed
      /\ q.released = request[r].released
    BY <1>1 DEF RequestRecords, Phases, StatusCodes, WireStatuses, TransportStatuses
<1>4. request' = [request EXCEPT ![r] = q] /\ pending' = pending
    BY <1>1 DEF ReturnFailure
<1> HIDE DEF q
<1>5. Story(q)
    BY <1>1, <1>2, <1>3 DEF Story, Unstarted, is_terminal, TerminalStates
<1>6. in_use' = in_use /\ idp!AllocInv'
    BY AllocKept DEF StartRefused, StartExhausted, allocVars, ids!AllocateExhausted, IInv
<1>7. QED
    BY <1>3, <1>4, <1>5, <1>6, MoveSettles DEF Effect

\* A call that has not been made is still as start_request() creates it.
LEMMA NotCalled ==
    ASSUME IInv, NEW r \in Requests, request[r].phase = "none"
    PROVE  /\ request[r] \in RequestRecords
           /\ request[r].operation.state = "created"
           /\ Unstarted(request[r])
<1>1. request[r] \in RequestRecords /\ Story(request[r])
    BY DEF IInv, Typed, Stories
<1>2. QED
    BY <1>1 DEF Story, Underway, Ended, is_terminal, TerminalStates, RequestRecords,
                OperationRecords, OperationStates

\* No entry maps a stream that is not in use.
LEMMA FreeStreamUnmapped ==
    ASSUME IInv, NEW s \in Streams, s \notin in_use
    PROVE  pending[s] = NoRequest
<1> SUFFICES ASSUME pending[s] # NoRequest PROVE FALSE
    OBVIOUS
<1>1. pending[s] \in Requests
    BY DEF IInv, Typed
<1>2. Active(pending[s]) /\ request[pending[s]].stream = s
    BY <1>1, NothingSettled DEF SettlesTo, IInv, Registered
<1>3. QED
    BY <1>1, <1>2, HeldInUse DEF IInv, StreamOwnership

\* The request start_request() registers is active and holds its stream.
LEMMA CreatedFields ==
    ASSUME IInv, NEW r \in Requests, request[r].phase = "none", NEW s \in Streams
    PROVE  LET q == Created(r, s)
           IN  /\ q \in RequestRecords
               /\ q.phase = "none"
               /\ q.stream = s
               /\ q.operation.state = "active"
               /\ q.channel = "empty"
               /\ q.timer = "off"
               /\ ~q.removed
               /\ ~q.released
<1> DEFINE op == activate(NewOperation)
           q == [request[r] EXCEPT !.stream = s, !.operation = op]
<1>1. op \in OperationRecords /\ op.state = "active"
    BY NewOperationActivates
<1>2. Created(r, s) = q
    BY DEF Created
<1> HIDE DEF op
<1>3. /\ request[r] \in RequestRecords
      /\ Unstarted(request[r])
    BY NotCalled
<1>4. /\ q \in RequestRecords
      /\ q.stream = s
      /\ q.operation = op
      /\ q.phase = request[r].phase
      /\ q.channel = request[r].channel
      /\ q.timer = request[r].timer
      /\ q.removed = request[r].removed
      /\ q.released = request[r].released
    BY <1>1, <1>3 DEF RequestRecords
<1> HIDE DEF q
<1>5. QED
    BY <1>1, <1>2, <1>3, <1>4 DEF Unstarted

\* A message that does not encode takes a stream and keeps it.
LEMMA UnencodableEffect ==
    ASSUME IInv, NEW r \in Requests, StartUnencodable(r)
    PROVE  Effect
<1>1. PICK s \in Streams :
        /\ ids!Allocate(s)
        /\ request' = [request EXCEPT ![r].phase = "unencoded", ![r].stream = s,
                                      ![r].outcome = "unknown_message_type"]
    BY DEF StartUnencodable
<1> DEFINE q == [request[r] EXCEPT !.phase = "unencoded", !.stream = s,
                                   !.outcome = "unknown_message_type"]
<1>2. /\ request[r].phase = "none"
      /\ request[r] \in RequestRecords
      /\ request[r].operation.state = "created"
      /\ Unstarted(request[r])
      /\ request \in [Requests -> RequestRecords]
    BY NotCalled DEF StartUnencodable, IInv, Typed
<1>3. /\ q \in RequestRecords
      /\ q.phase = "unencoded"
      /\ q.stream = s
      /\ q.operation = request[r].operation
      /\ q.channel = request[r].channel
      /\ q.timer = request[r].timer
      /\ q.removed = request[r].removed
      /\ q.released = request[r].released
    BY <1>2 DEF RequestRecords, Phases, StatusCodes, WireStatuses
<1>4. request' = [request EXCEPT ![r] = q] /\ pending' = pending
    BY <1>1, <1>2 DEF StartUnencodable
<1> HIDE DEF q
<1>5. s # 0
    BY ClientAssumption DEF Streams
<1>6. Story(q)
    BY <1>2, <1>3, <1>5 DEF Story, Unstarted, is_terminal, TerminalStates
<1>7. s \notin in_use /\ in_use' = in_use \cup {s} /\ idp!AllocInv'
    BY <1>1, StreamGranted, AllocKept DEF IInv
<1>8. Starts(r, q)
    BY <1>2, <1>3, <1>4, <1>6, <1>7 DEF Starts, Unstarted, StartUnencodable
<1>9. QED
    BY <1>3, <1>7, <1>8 DEF Effect

\* A registered request takes a stream that no other request holds or is mapped from.
LEMMA StartRequestEffect ==
    ASSUME IInv, NEW r \in Requests, StartRequest(r)
    PROVE  Effect
<1>1. PICK s \in Streams :
        /\ ids!Allocate(s)
        /\ pending' = Emplaced(r, s)
        /\ \/ request' = [request EXCEPT ![r] = Opened(r, Created(r, s))]
           \/ request' = [request EXCEPT ![r] = [Created(r, s) EXCEPT !.phase = "enqueuing"]]
    BY DEF StartRequest
<1> DEFINE c == Created(r, s)
<1>2. /\ c \in RequestRecords
      /\ c.stream = s
      /\ c.operation.state = "active"
      /\ c.channel = "empty"
      /\ c.timer = "off"
      /\ ~c.removed
      /\ ~c.released
    BY CreatedFields DEF StartRequest
<1> HIDE DEF c
<1>3. PICK q \in RequestRecords :
        /\ request' = [request EXCEPT ![r] = q]
        /\ q.phase \in {"open", "enqueuing"}
        /\ q.stream = s
        /\ q.operation = c.operation
        /\ q.channel = c.channel
        /\ q.removed = c.removed
        /\ q.released = c.released
  <2>1. CASE request' = [request EXCEPT ![r] = Opened(r, c)]
    <3> DEFINE t == IF r \in Timed THEN "armed" ELSE c.timer
               q == [c EXCEPT !.phase = "open", !.timer = t]
    <3>1. t \in {"off", "armed"}
      BY <1>2
    <3>2. Opened(r, c) = q
      BY DEF Opened
    <3> HIDE DEF t
    <3>3. /\ q \in RequestRecords
          /\ q.phase = "open"
          /\ q.stream = c.stream
          /\ q.operation = c.operation
          /\ q.channel = c.channel
          /\ q.removed = c.removed
          /\ q.released = c.released
      BY <1>2, <3>1 DEF RequestRecords, Phases
    <3> HIDE DEF q
    <3>4. QED
      BY <1>2, <2>1, <3>2, <3>3
  <2>2. CASE request' = [request EXCEPT ![r] = [c EXCEPT !.phase = "enqueuing"]]
    <3> DEFINE q == [c EXCEPT !.phase = "enqueuing"]
    <3>1. /\ q \in RequestRecords
          /\ q.phase = "enqueuing"
          /\ q.stream = c.stream
          /\ q.operation = c.operation
          /\ q.channel = c.channel
          /\ q.removed = c.removed
          /\ q.released = c.released
      BY <1>2 DEF RequestRecords, Phases
    <3>2. request' = [request EXCEPT ![r] = q]
      BY <2>2
    <3> HIDE DEF q
    <3>3. QED
      BY <1>2, <3>1, <3>2
  <2>3. QED
    BY <1>1, <2>1, <2>2 DEF c
<1>4. s # 0
    BY ClientAssumption DEF Streams
<1>5. Story(q)
    BY <1>2, <1>3, <1>4 DEF Story, Underway, is_terminal, TerminalStates
<1>6. s \notin in_use /\ in_use' = in_use \cup {s} /\ idp!AllocInv'
    BY <1>1, StreamGranted, AllocKept DEF IInv
<1>7. pending' = [pending EXCEPT ![s] = r]
    BY <1>1, <1>6, FreeStreamUnmapped DEF Emplaced
<1>8. request[r].phase = "none" /\ ~ShuttingDown(state)
    BY DEF StartRequest
<1>9. Starts(r, q)
    BY <1>2, <1>3, <1>5, <1>6, <1>7, <1>8 DEF Starts
<1>10. QED
    BY <1>6, <1>9 DEF Effect

\* A request whose frame is refused at once is finished, and its stream is free again.
LEMMA RejectedEffect ==
    ASSUME IInv, NEW r \in Requests, StartRejected(r)
    PROVE  Effect
<1>1. PICK s \in Streams :
        /\ ids!AllocateThenRelease(s)
        /\ request' = [request EXCEPT
                         ![r] = [Removed(SendFailed(Created(r, s))) EXCEPT !.released = TRUE]]
    BY DEF StartRejected
<1> DEFINE c == Created(r, s)
           op == fail(c.operation, "resource_limit_exceeded")
           channel == CloseChannel(c.channel)
           d == [c EXCEPT !.operation = op, !.channel = channel, !.phase = "refused",
                          !.outcome = "resource_limit_exceeded"]
           q == Cleaned(d, TRUE)
<1>2. /\ c \in RequestRecords
      /\ c.stream = s
      /\ c.operation.state = "active"
      /\ c.channel = "empty"
      /\ ~c.removed
      /\ ~c.released
    BY CreatedFields DEF StartRejected
<1>3. SendFailed(c) = d
    BY DEF SendFailed
<1>4. request' = [request EXCEPT ![r] = q]
    BY <1>1, <1>3 DEF Cleaned
<1> HIDE DEF c
<1>5. "resource_limit_exceeded" \in StatusCodes \ {"ok"}
    BY DEF StatusCodes, WireStatuses
<1>6. /\ op \in OperationRecords
      /\ op.state = "failed"
      /\ op.result # "none"
    BY <1>2, <1>5, OperationsTyped, ActiveFinishes, ResultsRecorded DEF RequestRecords
<1>7. channel = "closed"
    BY <1>2 DEF CloseChannel
<1> HIDE DEF op, channel, q
<1>8. /\ d \in RequestRecords
      /\ d.phase = "refused"
      /\ d.stream = s
      /\ d.operation = op
      /\ d.channel = "closed"
    BY <1>2, <1>5, <1>6, <1>7 DEF RequestRecords, Phases
<1> HIDE DEF d
<1>9. s # 0
    BY ClientAssumption DEF Streams
<1>10. Ended(d)
    BY <1>6, <1>8, <1>9 DEF Ended
<1>11. /\ q \in RequestRecords
       /\ q.phase = d.phase
       /\ q.stream = s
       /\ q.operation = op
       /\ q.channel = d.channel
       /\ q.outcome = d.outcome
       /\ q.removed
       /\ q.released
    BY <1>8, CleanedFields DEF q
<1>12. Ended(q)
    BY <1>8, <1>10, <1>11, SameStory
<1>13. Story(q)
    BY <1>6, <1>11, <1>12 DEF Story
<1>14. in_use' = in_use /\ pending' = pending /\ idp!AllocInv'
    BY <1>1, AllocKept DEF ids!AllocateThenRelease, IInv, StartRejected
<1>15. Starts(r, q)
    BY <1>4, <1>6, <1>11, <1>13, <1>14 DEF Starts, StartRejected
<1>16. QED
    BY <1>11, <1>14, <1>15 DEF Effect

\* Moving on in the handle or the timer leaves the rest of the request alone.
LEMMA HandleEffect ==
    ASSUME IInv, NEW r \in Requests,
           NEW phase \in {"open", "waiting"} \cup {request[r].phase},
           NEW timer \in {"off", "armed", "expired"},
           phase # request[r].phase => request[r].phase \in {"enqueuing", "open"},
           request[r].operation.state = "created" => timer = "off",
           request' = [request EXCEPT ![r] = [@ EXCEPT !.phase = phase, !.timer = timer]],
           pending' = pending,
           UNCHANGED allocVars
    PROVE  Effect
<1> DEFINE q == [request[r] EXCEPT !.phase = phase, !.timer = timer]
<1>1. /\ request[r] \in RequestRecords
      /\ request \in [Requests -> RequestRecords]
      /\ Story(request[r])
    BY DEF IInv, Typed, Stories
<1>2. phase \in Phases
    BY <1>1 DEF Phases, RequestRecords
<1>3. /\ q \in RequestRecords
      /\ q.phase = phase
      /\ q.timer = timer
      /\ q.stream = request[r].stream
      /\ q.operation = request[r].operation
      /\ q.channel = request[r].channel
      /\ q.removed = request[r].removed
      /\ q.released = request[r].released
      /\ q.outcome = request[r].outcome
    BY <1>1, <1>2 DEF RequestRecords
<1>4. request' = [request EXCEPT ![r] = q]
    BY <1>1
<1> HIDE DEF q
<1>5. Story(q)
  <2>1. q.operation.state = "created" => Unstarted(q)
    BY <1>1, <1>3 DEF Story, Unstarted
  <2>2. q.operation.state = "active" => Underway(q)
    BY <1>1, <1>3 DEF Story, Underway
  <2>3. is_terminal(q.operation) => q.removed /\ Ended(q)
    BY <1>1, <1>3 DEF Story, Ended, Answer
  <2>4. QED
    BY <2>1, <2>2, <2>3 DEF Story
<1>6. in_use' = in_use /\ idp!AllocInv'
    BY AllocKept DEF allocVars, IInv
<1>7. QED
    BY <1>3, <1>4, <1>5, <1>6, MoveSettles DEF Effect

\* An accepted frame, a wait that begins and a timer that expires move on.
LEMMA MovesEffect ==
    ASSUME IInv, NEW r \in Requests, EnqueueAccepted(r) \/ async_wait(r) \/ TimerExpires(r)
    PROVE  Effect
<1>1. /\ request[r] \in RequestRecords
      /\ request \in [Requests -> RequestRecords]
      /\ Story(request[r])
      /\ request[r].timer \in {"off", "armed", "expired"}
    BY DEF IInv, Typed, Stories, RequestRecords
<1>2. CASE EnqueueAccepted(r)
  <2> DEFINE t == IF r \in Timed THEN "armed" ELSE request[r].timer
  <2>1. /\ request' = [request EXCEPT ![r] = [@ EXCEPT !.phase = "open", !.timer = t]]
        /\ t \in {"off", "armed", "expired"}
    BY <1>1, <1>2 DEF EnqueueAccepted, Opened
  <2>2. request[r].operation.state # "created"
    BY <1>1, <1>2 DEF EnqueueAccepted, Story, Unstarted
  <2> HIDE DEF t
  <2>3. QED
    BY <1>2, <2>1, <2>2, HandleEffect DEF EnqueueAccepted
<1>3. CASE async_wait(r)
  <2>1. request' = [request EXCEPT ![r] = [@ EXCEPT !.phase = "waiting",
                                                    !.timer = request[r].timer]]
    BY <1>1, <1>3 DEF async_wait, RequestRecords
  <2>2. request[r].operation.state # "created"
    BY <1>1, <1>3 DEF async_wait, Story, Unstarted
  <2>3. QED
    BY <1>1, <1>3, <2>1, <2>2, HandleEffect DEF async_wait
<1>4. CASE TimerExpires(r)
  <2>1. request' = [request EXCEPT ![r] = [@ EXCEPT !.phase = request[r].phase,
                                                    !.timer = "expired"]]
    BY <1>1, <1>4 DEF TimerExpires, RequestRecords
  <2>2. request[r].operation.state # "created"
    BY <1>1, <1>4 DEF TimerExpires, Story, Unstarted
  <2>3. QED
    BY <1>4, <2>1, <2>2, HandleEffect DEF TimerExpires
<1>5. QED
    BY <1>2, <1>3, <1>4

\* An operation that is not active and not new is finished.
LEMMA FinishedOrActive ==
    ASSUME IInv, NEW r \in Requests, request[r].phase \notin {"none", "unencoded", "refused"}
    PROVE  /\ request[r] \in RequestRecords
           /\ request[r].operation \in OperationRecords
           /\ request[r].stream # 0
           /\ Active(r) => Underway(request[r])
           /\ ~Active(r) => /\ is_terminal(request[r].operation)
                            /\ Ended(request[r])
<1>1. request[r] \in RequestRecords /\ Story(request[r])
    BY DEF IInv, Typed, Stories
<1>2. request[r].operation \in OperationRecords
    BY <1>1 DEF RequestRecords
<1>3. request[r].operation.state # "created"
    BY <1>1 DEF Story, Unstarted
<1>4. Active(r) \/ is_terminal(request[r].operation)
    BY <1>2, <1>3 DEF Active, is_terminal, TerminalStates, OperationRecords, OperationStates
<1>5. QED
    BY <1>1, <1>2, <1>4 DEF Story, Active, Underway, Ended

\* What cancel(), timeout() and fail() make of an active operation.
LEMMA ActiveEnds ==
    ASSUME NEW op \in OperationRecords, op.state = "active", NEW status \in StatusCodes \ {"ok"},
           NEW ended \in {cancel(op), timeout(op), fail(op, status)}
    PROVE  /\ ended \in OperationRecords
           /\ is_terminal(ended)
           /\ ended.state # "completed"
           /\ ended.result # "none"
<1>1. status # "none" /\ "timeout_error" # "none" /\ "cancelled" # "none"
    BY DEF StatusCodes, WireStatuses, ProtocolStatuses, TransportStatuses
<1>2. /\ cancel(op) \in OperationRecords
      /\ timeout(op) \in OperationRecords
      /\ fail(op, status) \in OperationRecords
    BY OperationsTyped
<1>3. /\ cancel(op).state = "cancelled" /\ cancel(op).result = "cancelled"
      /\ timeout(op).state = "failed" /\ timeout(op).result = "timeout_error"
      /\ fail(op, status).state = "failed" /\ fail(op, status).result = status
    BY ActiveFinishes, ResultsRecorded
<1>4. QED
    BY <1>1, <1>2, <1>3 DEF is_terminal, TerminalStates

\* Ending an active request in any of the ways the client has, then cleaning it up.
LEMMA EndEffect ==
    ASSUME IInv, NEW r \in Requests, Active(r), Underway(request[r]),
           NEW status \in StatusCodes \ {"ok"},
           NEW op \in {cancel(request[r].operation), timeout(request[r].operation),
                       fail(request[r].operation, status)},
           NEW phase \in {"refused", "discarded", "enqueuing", "open", "waiting"},
           NEW timer \in {"off", "armed", "expired"},
           NEW outcome \in StatusCodes \cup {"none"} \cup Replies,
           NEW release_stream \in BOOLEAN,
           CleanupPending(r, [request[r] EXCEPT !.operation = op, !.channel = "closed",
                                                !.phase = phase, !.timer = timer,
                                                !.outcome = outcome], release_stream)
    PROVE  Effect
<1> DEFINE q == [request[r] EXCEPT !.operation = op, !.channel = "closed", !.phase = phase,
                                   !.timer = timer, !.outcome = outcome]
<1>1. request[r] \in RequestRecords /\ request[r].operation \in OperationRecords
    BY DEF IInv, Typed, RequestRecords
<1>2. /\ op \in OperationRecords
      /\ is_terminal(op)
      /\ op.state # "completed"
      /\ op.result # "none"
    BY <1>1, ActiveEnds DEF Active
<1>3. /\ q \in RequestRecords
      /\ q.phase = phase
      /\ q.channel = "closed"
      /\ q.stream = request[r].stream
      /\ q.operation = op
      /\ q.removed = request[r].removed
      /\ q.released = request[r].released
    BY <1>1, <1>2 DEF RequestRecords, Phases
<1>4. ~is_terminal(request[r].operation)
    BY DEF Active, is_terminal, TerminalStates
<1>5. CleanupPending(r, q, release_stream)
    OBVIOUS
<1> HIDE DEF q
<1>6. Ended(q)
    BY <1>2, <1>3 DEF Ended, Underway
<1>7. QED
    BY <1>2, <1>3, <1>4, <1>5, <1>6, CleanupEffect

\* Cleaning up a finished request once more: its handle moves on, its story stays.
LEMMA AgainEffect ==
    ASSUME IInv, NEW r \in Requests, is_terminal(request[r].operation), Ended(request[r]),
           NEW phase \in {"refused", "returned", "discarded"},
           NEW outcome \in StatusCodes \cup {"none"} \cup Replies,
           phase = "returned" => outcome = Answer(request[r]),
           NEW release_stream \in BOOLEAN,
           CleanupPending(r, [request[r] EXCEPT !.phase = phase, !.outcome = outcome],
                          release_stream)
    PROVE  Effect
<1> DEFINE q == [request[r] EXCEPT !.phase = phase, !.outcome = outcome]
<1>1. request[r] \in RequestRecords
    BY DEF IInv, Typed
<1>2. /\ q \in RequestRecords
      /\ q.phase = phase
      /\ q.outcome = outcome
      /\ q.stream = request[r].stream
      /\ q.operation = request[r].operation
      /\ q.channel = request[r].channel
      /\ q.removed = request[r].removed
      /\ q.released = request[r].released
    BY <1>1 DEF RequestRecords, Phases
<1>3. CleanupPending(r, q, release_stream)
    OBVIOUS
<1> HIDE DEF q
<1>4. Answer(q) = Answer(request[r])
    BY <1>2 DEF Answer
<1>5. Ended(q)
    BY <1>2, <1>4 DEF Ended
<1>6. QED
    BY <1>2, <1>3, <1>5, CleanupEffect

\* A suspended enqueue() that resumes on the closed queue ends its request, unless someone
\* else has ended it meanwhile.
LEMMA EnqueueRefusedEffect ==
    ASSUME IInv, NEW r \in Requests, EnqueueRefused(r)
    PROVE  Effect
<1> DEFINE status == "resource_limit_exceeded"
<1>1. status \in StatusCodes \ {"ok"}
    BY DEF StatusCodes, WireStatuses
<1>2. /\ request[r].phase = "enqueuing"
      /\ CleanupPending(r, SendFailed(request[r]), TRUE)
    BY DEF EnqueueRefused
<1>3. /\ request[r] \in RequestRecords
      /\ request[r].operation \in OperationRecords
      /\ request[r].timer \in {"off", "armed", "expired"}
      /\ Active(r) => Underway(request[r])
      /\ ~Active(r) => is_terminal(request[r].operation) /\ Ended(request[r])
    BY <1>2, FinishedOrActive DEF RequestRecords
<1> DEFINE op == fail(request[r].operation, status)
<1>4. CASE Active(r)
  <2>1. SendFailed(request[r])
            = [request[r] EXCEPT !.operation = op, !.channel = "closed", !.phase = "refused",
                                 !.timer = request[r].timer, !.outcome = status]
    <3>1. CloseChannel(request[r].channel) = "closed"
      BY <1>3, <1>4 DEF CloseChannel, Underway
    <3>2. SendFailed(request[r])
              = [request[r] EXCEPT !.operation = op, !.channel = "closed", !.phase = "refused",
                                   !.outcome = status]
      BY <3>1 DEF SendFailed
    <3> HIDE DEF op
    <3>3. QED
      BY <1>3, <3>2 DEF RequestRecords
  <2>2. CleanupPending(r, [request[r] EXCEPT !.operation = op, !.channel = "closed",
                                !.phase = "refused", !.timer = request[r].timer,
                                !.outcome = status], TRUE)
    BY <1>2, <2>1
  <2>3. QED
    BY <1>1, <1>3, <1>4, <2>2, EndEffect
<1>5. CASE ~Active(r)
  <2>1. op = request[r].operation
    BY <1>1, <1>3, <1>5, TerminalIsFinal
  <2>2. CloseChannel(request[r].channel) = request[r].channel
    BY <1>3, <1>5, ClientAssumption DEF CloseChannel, Ended
  <2>3. SendFailed(request[r])
            = [request[r] EXCEPT !.phase = "refused", !.outcome = status]
    <3>1. SendFailed(request[r])
              = [request[r] EXCEPT !.operation = request[r].operation,
                                   !.channel = request[r].channel, !.phase = "refused",
                                   !.outcome = status]
      BY <2>1, <2>2 DEF SendFailed
    <3>2. QED
      BY <1>3, <3>1 DEF RequestRecords
  <2>4. CleanupPending(r, [request[r] EXCEPT !.phase = "refused", !.outcome = status], TRUE)
    BY <1>2, <2>3
  <2>5. QED
    BY <1>1, <1>3, <1>5, <2>4, AgainEffect
<1>6. QED
    BY <1>4, <1>5

\* async_wait() returns once the channel is filled or closed, which ends the handle.
LEMMA WaitReturnsEffect ==
    ASSUME IInv, NEW r \in Requests, WaitReturns(r)
    PROVE  Effect
<1>1. /\ request[r].phase = "waiting"
      /\ request[r].channel # "empty"
      /\ CleanupPending(r, [request[r] EXCEPT !.phase = "returned",
                                              !.outcome = Answer(request[r])], TRUE)
    BY DEF WaitReturns
<1>2. /\ request[r] \in RequestRecords
      /\ is_terminal(request[r].operation)
      /\ Ended(request[r])
    BY <1>1, FinishedOrActive DEF Underway
<1>3. Answer(request[r]) \in StatusCodes \cup {"none"} \cup Replies
  <2>1. /\ request[r].channel \in {"closed", "garbage"} \cup Replies
        /\ request[r].operation.result \in StatusCodes \cup {"none"}
    BY <1>1, <1>2 DEF RequestRecords, OperationRecords
  <2>2. {"connection_closed", "decode_error"} \subseteq StatusCodes
    BY DEF StatusCodes, TransportStatuses, WireStatuses
  <2>3. CASE request[r].channel = "closed"
    BY <2>1, <2>2, <2>3 DEF Answer
  <2>4. CASE request[r].channel = "garbage"
    BY <2>2, <2>4 DEF Answer
  <2>5. CASE request[r].channel \in Replies
    BY <2>5, ClientAssumption DEF Answer
  <2>6. QED
    BY <2>1, <2>3, <2>4, <2>5
<1>4. QED
    BY <1>1, <1>2, <1>3, AgainEffect

\* The handle cancels an active request; its stream stays taken.
LEMMA CancelEffect ==
    ASSUME IInv, NEW r \in Requests, CancelRequest(r)
    PROVE  Effect
<1> DEFINE op == cancel(request[r].operation)
<1>1. /\ request[r].phase \in {"open", "waiting"}
      /\ Active(r)
      /\ CleanupPending(r, [request[r] EXCEPT !.operation = op,
                                              !.channel = CloseChannel(@)], FALSE)
    BY DEF CancelRequest, CanFinish, Active
<1>2. /\ request[r] \in RequestRecords
      /\ Underway(request[r])
      /\ request[r].timer \in {"off", "armed", "expired"}
      /\ request[r].outcome \in StatusCodes \cup {"none"} \cup Replies
    BY <1>1, FinishedOrActive DEF RequestRecords
<1>3. CloseChannel(request[r].channel) = "closed"
    BY <1>2 DEF CloseChannel, Underway
<1>4. "timeout_error" \in StatusCodes \ {"ok"}
    BY DEF StatusCodes, WireStatuses
<1>5. /\ op \in OperationRecords
      /\ is_terminal(op)
      /\ op.state # "completed"
      /\ op.result # "none"
    BY <1>1, <1>2, <1>4, ActiveEnds DEF Active, RequestRecords
<1> DEFINE q == [request[r] EXCEPT !.operation = op, !.channel = "closed"]
<1>6. CleanupPending(r, q, FALSE)
    BY <1>1, <1>3
<1> HIDE DEF op
<1>7. /\ q \in RequestRecords
      /\ q.phase = request[r].phase
      /\ q.channel = "closed"
      /\ q.stream = request[r].stream
      /\ q.operation = op
      /\ q.removed = request[r].removed
      /\ q.released = request[r].released
    BY <1>2, <1>5 DEF RequestRecords
<1>8. ~is_terminal(request[r].operation)
    BY <1>1 DEF Active, is_terminal, TerminalStates
<1> HIDE DEF q
<1>9. Ended(q)
    BY <1>1, <1>2, <1>5, <1>7 DEF Ended, Underway
<1>10. QED
    BY <1>5, <1>6, <1>7, <1>8, <1>9, CleanupEffect

\* A handle destroyed unused cancels its request if it is still active, and gives the
\* stream back.
LEMMA DiscardEffect ==
    ASSUME IInv, NEW r \in Requests, Discard(r)
    PROVE  Effect
<1> DEFINE d == [request[r] EXCEPT !.phase = "discarded"]
           op == cancel(request[r].operation)
<1>1. request[r].phase = "open"
    BY DEF Discard
<1>2. /\ request[r] \in RequestRecords
      /\ Active(r) => Underway(request[r])
      /\ ~Active(r) => is_terminal(request[r].operation) /\ Ended(request[r])
      /\ request[r].timer \in {"off", "armed", "expired"}
      /\ request[r].outcome \in StatusCodes \cup {"none"} \cup Replies
    BY <1>1, FinishedOrActive DEF RequestRecords
<1>3. /\ d.operation = request[r].operation
      /\ d.channel = request[r].channel
    BY <1>2 DEF RequestRecords
<1>4. CASE Active(r)
  <2>1. ~is_terminal(d.operation)
    BY <1>3, <1>4 DEF Active, is_terminal, TerminalStates
  <2>2. CleanupPending(r, [d EXCEPT !.operation = cancel(@), !.channel = CloseChannel(@)], TRUE)
    BY <2>1 DEF Discard
  <2>3. CloseChannel(d.channel) = "closed" /\ cancel(d.operation) = op
    BY <1>2, <1>3, <1>4 DEF CloseChannel, Underway
  <2>4. CleanupPending(r, [d EXCEPT !.operation = op, !.channel = "closed"], TRUE)
    BY <2>2, <2>3
  <2>5. [d EXCEPT !.operation = op, !.channel = "closed"]
           = [request[r] EXCEPT !.operation = op, !.channel = "closed",
                                !.phase = "discarded", !.timer = request[r].timer,
                                !.outcome = request[r].outcome]
    <3> HIDE DEF op
    <3> QED BY <1>2 DEF RequestRecords
  <2>6. "timeout_error" \in StatusCodes \ {"ok"}
    BY DEF StatusCodes, WireStatuses
  <2>7. CleanupPending(r, [request[r] EXCEPT !.operation = op, !.channel = "closed",
                                !.phase = "discarded", !.timer = request[r].timer,
                                !.outcome = request[r].outcome], TRUE)
    BY <2>4, <2>5
  <2>8. QED
    BY <1>2, <1>4, <2>6, <2>7, EndEffect
<1>5. CASE ~Active(r)
  <2>1. CleanupPending(r, d, TRUE)
    BY <1>2, <1>3, <1>5 DEF Discard
  <2>2. d = [request[r] EXCEPT !.phase = "discarded", !.outcome = request[r].outcome]
    BY <1>2 DEF RequestRecords
  <2>3. QED
    BY <1>2, <1>5, <2>1, <2>2, AgainEffect
<1>6. QED
    BY <1>4, <1>5

\* A deadline's timer times the request out if it is still active.
LEMMA TimerFiresEffect ==
    ASSUME IInv, NEW r \in Requests, TimerFires(r)
    PROVE  Effect
<1> DEFINE d == [request[r] EXCEPT !.timer = "off"]
           op == timeout(request[r].operation)
<1>1. /\ request[r] \in RequestRecords
      /\ request \in [Requests -> RequestRecords]
      /\ Story(request[r])
      /\ request[r].outcome \in StatusCodes \cup {"none"} \cup Replies
    BY DEF IInv, Typed, Stories, RequestRecords
<1>2. /\ d.operation = request[r].operation
      /\ d.channel = request[r].channel
    BY <1>1 DEF RequestRecords
<1>3. CASE Active(r)
  <2>1. CleanupPending(r, [d EXCEPT !.operation = timeout(@), !.channel = CloseChannel(@)], FALSE)
    BY <1>2, <1>3 DEF TimerFires, CanFinish, Active
  <2>2. Underway(request[r])
    BY <1>1, <1>3 DEF Story, Active
  <2>3. CloseChannel(d.channel) = "closed" /\ timeout(d.operation) = op
    BY <1>2, <2>2 DEF CloseChannel, Underway
  <2>4. CleanupPending(r, [d EXCEPT !.operation = op, !.channel = "closed"], FALSE)
    BY <2>1, <2>3
  <2>5. [d EXCEPT !.operation = op, !.channel = "closed"]
           = [request[r] EXCEPT !.operation = op, !.channel = "closed",
                                !.phase = request[r].phase, !.timer = "off",
                                !.outcome = request[r].outcome]
    <3> HIDE DEF op
    <3> QED BY <1>1 DEF RequestRecords
  <2>6. "timeout_error" \in StatusCodes \ {"ok"}
    BY DEF StatusCodes, WireStatuses
  <2>7. CleanupPending(r, [request[r] EXCEPT !.operation = op, !.channel = "closed",
                                !.phase = request[r].phase, !.timer = "off",
                                !.outcome = request[r].outcome], FALSE)
    BY <2>4, <2>5
  <2>8. request[r].phase \in {"enqueuing", "open", "waiting"}
    BY <2>2 DEF Underway
  <2>9. QED
    BY <1>1, <1>3, <2>2, <2>6, <2>7, <2>8, EndEffect
<1>4. CASE ~Active(r)
  <2>1. /\ request' = [request EXCEPT ![r] = d]
        /\ UNCHANGED <<allocVars, pending>>
    BY <1>2, <1>4 DEF TimerFires, CanFinish, Active
  <2>2. request' = [request EXCEPT ![r] = [@ EXCEPT !.phase = request[r].phase, !.timer = "off"]]
    BY <1>1, <2>1 DEF RequestRecords
  <2>3. QED
    BY <2>1, <2>2, HandleEffect
<1>5. QED
    BY <1>3, <1>4

-----------------------------------------------------------------------------
(* The read loop, the write queue and shutdown() *)

\* A frame that ends the request it is routed to.
LEMMA RouteEnds ==
    ASSUME IInv, NEW r \in Requests, Active(r),
           NEW op \in OperationRecords, is_terminal(op),
           NEW channel \in {"closed", "garbage"} \cup Replies,
           op.state = "completed" => channel \in Replies \cup {"garbage"},
           op.state # "completed" => channel = "closed" /\ op.result # "none",
           NEW release_stream \in BOOLEAN,
           Routed(r, [request[r] EXCEPT !.operation = op, !.channel = channel], release_stream)
    PROVE  Effect
<1> DEFINE q == [request[r] EXCEPT !.operation = op, !.channel = channel]
<1>1. request[r] \in RequestRecords /\ Underway(request[r])
    BY DEF IInv, Typed, Stories, Story, Active
<1>2. /\ q \in RequestRecords
      /\ q.phase = request[r].phase
      /\ q.channel = channel
      /\ q.stream = request[r].stream
      /\ q.operation = op
      /\ q.removed = request[r].removed
      /\ q.released = request[r].released
    BY <1>1 DEF RequestRecords
<1>3. Routed(r, q, release_stream)
    OBVIOUS
<1>4. ~is_terminal(request[r].operation)
    BY DEF Active, is_terminal, TerminalStates
<1> HIDE DEF q
<1>5. Ended(q)
    BY <1>1, <1>2 DEF Ended, Underway
<1>6. QED
    BY <1>2, <1>3, <1>4, <1>5, RoutedEffect

\* Every status the connection fails with is a protocol status.
LEMMA Verdicts ==
    ASSUME NEW f
    PROVE  Verdict(f) \in {"malformed_frame", "unknown_stream", "none"}
BY DEF Verdict

\* The statuses requests are failed with are failures.
LEMMA FailureStatuses ==
    /\ ProtocolStatuses \cup {"connection_closed"} \subseteq StatusCodes \ {"ok"}
    /\ WireStatuses \subseteq StatusCodes \ {"ok"}
    /\ DecoderErrors \subseteq ProtocolStatuses
    /\ {"malformed_frame", "unknown_stream"} \subseteq ProtocolStatuses
    /\ "none" \notin WireStatuses
BY ClientAssumption DEF ProtocolStatuses, StatusCodes, WireStatuses, TransportStatuses

\* Each frame of the peer settles the request it belongs to, or all of them.
LEMMA DispatchEffect ==
    ASSUME IInv, NEW f, Readable(f), Dispatch(f)
    PROVE  Effect
<1>1. f.stream \in Streams
    BY DEF Readable
<1>2. CASE DispatchViolation(f)
  <2>1. /\ Verdict(f) # "none"
        /\ request' = FailPending(request, pending, Verdict(f))
        /\ pending' = NonePending
        /\ UNCHANGED allocVars
    BY <1>2 DEF DispatchViolation, FailConnection, EndReading
  <2>2. Verdict(f) \in StatusCodes \ {"ok"}
    BY <2>1, Verdicts, FailureStatuses
  <2>3. QED
    BY <2>1, <2>2, FailAllEffect
<1>3. ASSUME Verdict(f) = "none"
      PROVE  /\ pending[f.stream] \in Requests
             /\ Active(pending[f.stream])
             /\ request[pending[f.stream]].operation \in OperationRecords
             /\ request[pending[f.stream]].channel = "empty"
             /\ f.flag = "error" => decode_error_status(f.payload) \in WireStatuses
  <2>1. /\ pending[f.stream] # NoRequest
        /\ f.flag = "error" => decode_error_status(f.payload) # "none"
    BY <1>3 DEF Verdict
  <2>2. pending[f.stream] \in Requests
    BY <1>1, <2>1 DEF IInv, Typed
  <2>3. Active(pending[f.stream])
    BY <1>1, <2>2, NothingSettled DEF SettlesTo
  <2>4. /\ request[pending[f.stream]].operation \in OperationRecords
        /\ request[pending[f.stream]].channel = "empty"
    BY <2>2, <2>3 DEF IInv, Typed, Stories, Story, Underway, Active, RequestRecords
  <2>5. QED
    BY <2>1, <2>2, <2>3, <2>4 DEF decode_error_status
<1> DEFINE r == pending[f.stream]
<1>4. CASE DispatchCancel(f)
  <2> DEFINE op == cancel(request[r].operation)
  <2>1. Verdict(f) = "none"
    BY <1>4 DEF DispatchCancel
  <2>2. CloseChannel(request[r].channel) = "closed"
    BY <1>3, <2>1 DEF CloseChannel
  <2>3. Routed(r, [request[r] EXCEPT !.operation = op, !.channel = "closed"], FALSE)
    BY <1>4, <2>2 DEF DispatchCancel
  <2>4. /\ op \in OperationRecords
        /\ is_terminal(op)
        /\ op.state # "completed"
        /\ op.result # "none"
    BY <1>3, <2>1, FailureStatuses, ActiveEnds DEF Active
  <2> HIDE DEF op, r
  <2>5. QED
    BY <1>3, <2>1, <2>3, <2>4, RouteEnds DEF r
<1>5. CASE DispatchError(f)
  <2> DEFINE status == decode_error_status(f.payload)
             op == fail(request[r].operation, status)
  <2>1. Verdict(f) = "none" /\ f.flag = "error"
    BY <1>5 DEF DispatchError
  <2>2. CloseChannel(request[r].channel) = "closed"
    BY <1>3, <2>1 DEF CloseChannel
  <2>3. Routed(r, [request[r] EXCEPT !.operation = op, !.channel = "closed"], TRUE)
    BY <1>5, <2>2 DEF DispatchError
  <2>4. status \in StatusCodes \ {"ok"}
    BY <1>3, <2>1, FailureStatuses
  <2> HIDE DEF status
  <2>5. /\ op \in OperationRecords
        /\ is_terminal(op)
        /\ op.state # "completed"
        /\ op.result # "none"
    BY <1>3, <2>1, <2>4, ActiveEnds DEF Active
  <2> HIDE DEF op, r
  <2>6. QED
    BY <1>3, <2>1, <2>3, <2>5, RouteEnds DEF r
<1>6. CASE DispatchResponse(f)
  <2> DEFINE op == complete(request[r].operation)
  <2>1. Verdict(f) = "none" /\ f.flag = "none"
    BY <1>6 DEF DispatchResponse
  <2>2. Routed(r, [request[r] EXCEPT !.operation = op, !.channel = f.payload], TRUE)
    BY <1>6 DEF DispatchResponse
  <2>3. f.payload \in Replies \cup {"garbage"}
    BY <2>1 DEF Readable
  <2>4. /\ op \in OperationRecords
        /\ op.state = "completed"
    BY <1>3, <2>1, FailureStatuses, OperationsTyped, ActiveFinishes DEF Active
  <2>5. is_terminal(op)
    BY <2>4 DEF is_terminal, TerminalStates
  <2> HIDE DEF op, r
  <2>6. QED
    BY <1>3, <2>1, <2>2, <2>3, <2>4, <2>5, RouteEnds DEF r
<1>7. QED
    BY <1>2, <1>4, <1>5, <1>6 DEF Dispatch

\* Every other step of the read loop and every step of shutdown() settles all requests or
\* none; the write queue settles none.
LEMMA ConnectionEffect ==
    ASSUME IInv, ReadGarbage \/ (\E open \in BOOLEAN : ReadEnds(TRUE, open)) \/ ConnectionStep
    PROVE  Effect
<1>1. ASSUME UNCHANGED <<allocVars, requestVars>> PROVE Effect
  <2>1. Settles
    BY <1>1, NothingSettled DEF Settles, GivesBack, requestVars, allocVars
  <2>2. QED
    BY <1>1, <2>1, AllocKept DEF Effect, IInv
<1>2. CASE ReadGarbage
  <2>1. PICK status \in DecoderErrors : FailConnection(status)
    BY <1>2 DEF ReadGarbage
  <2>2. QED
    BY <2>1, FailureStatuses, FailAllEffect DEF FailConnection, EndReading
<1>3. CASE \E open \in BOOLEAN : ReadEnds(TRUE, open)
    BY <1>3, FailureStatuses, FailAllEffect DEF ReadEnds, EndReading
<1>4. CASE WriteDone \/ WriteFails \/ WriterStops \/ Run
    BY <1>1, <1>4 DEF WriteDone, WriteFails, WriterStops, Run
<1>5. CASE Shutdown \/ DrainEnds
  <2>1. CASE UNCHANGED requestVars
    BY <1>1, <1>5, <2>1 DEF Shutdown, DrainEnds
  <2>2. CASE ~UNCHANGED requestVars
    <3>1. /\ request' = FailPending(request, pending, "connection_closed")
          /\ pending' = NonePending
          /\ UNCHANGED allocVars
      BY <1>5, <2>2 DEF Shutdown, DrainEnds, FinishShutdown
    <3>2. QED
      BY <3>1, FailureStatuses, FailAllEffect
  <2>3. QED
    BY <2>1, <2>2
<1>6. QED
    BY <1>2, <1>3, <1>4, <1>5 DEF ConnectionStep

\* Every step settles requests or starts one, and keeps the allocator's invariant.
LEMMA StepEffect ==
    ASSUME IInv, Next \/ Receive
    PROVE  Effect
<1>1. CASE PeerStep \/ ConnectionStep \/ Receive
    BY <1>1, PeerFramesReadable, DispatchEffect, ConnectionEffect DEF PeerStep, Receive
<1>2. ASSUME NEW r \in Requests, ApplicationStep(r) PROVE Effect
    BY <1>2, RefusedEffect, UnencodableEffect, StartRequestEffect, RejectedEffect, MovesEffect,
       CancelEffect, DiscardEffect DEF ApplicationStep
<1>3. ASSUME NEW r \in Requests, RequestStep(r) PROVE Effect
    BY <1>3, MovesEffect, EnqueueRefusedEffect, WaitReturnsEffect, TimerFiresEffect
       DEF RequestStep
<1>4. QED
    BY <1>1, <1>2, <1>3 DEF Next

-----------------------------------------------------------------------------
(* The parts of the invariant *)

\* Requests and entries keep their types and their stories.
LEMMA StoriesKept ==
    ASSUME IInv, Effect
    PROVE  /\ request' \in [Requests -> RequestRecords]
           /\ pending' \in [Streams -> Requests \cup {NoRequest}]
           /\ Stories'
<1>1. CASE Settles
    BY <1>1 DEF Settles, SettlesTo, Stories
<1>2. ASSUME NEW r \in Requests, NEW q \in RequestRecords, Starts(r, q)
      PROVE  /\ request' \in [Requests -> RequestRecords]
             /\ pending' \in [Streams -> Requests \cup {NoRequest}]
             /\ Stories'
    BY <1>2 DEF Starts, IInv, Typed, Stories
<1>3. QED
    BY <1>1, <1>2 DEF Effect

\* Activity and registration stay the same thing: settling removes exactly the entries of
\* the requests it ends, and a started request gets the entry of a stream that had none.
LEMMA RegisteredKept ==
    ASSUME IInv, Effect
    PROVE  Registered'
<1>1. /\ request' \in [Requests -> RequestRecords]
      /\ pending' \in [Streams -> Requests \cup {NoRequest}]
    BY StoriesKept
<1>2. \A x \in Requests : request[x].stream \in Streams \cup {0}
    BY DEF IInv, Typed, RequestRecords
<1>3. 0 \notin Streams
    BY ClientAssumption DEF Streams
<1>4. CASE Settles
  <2>1. SettlesTo(request', pending')
    BY <1>4 DEF Settles
  <2>2. \A x \in Requests :
            Active(x)' <=> request'[x].stream # 0 /\ pending'[request'[x].stream] = x
    BY <1>2, <2>1 DEF SettlesTo, IInv, Registered, Active
  <2>3. \A s \in Streams : pending'[s] # NoRequest => request'[pending'[s]].stream = s
    BY <1>1, <2>1, ClientAssumption DEF SettlesTo, IInv, Registered
  <2>4. QED
    BY <2>2, <2>3 DEF Registered
<1>5. ASSUME NEW r \in Requests, NEW q \in RequestRecords, Starts(r, q) PROVE Registered'
  <2>1. /\ request \in [Requests -> RequestRecords]
        /\ pending \in [Streams -> Requests \cup {NoRequest}]
        /\ request'[r] = q
        /\ \A x \in Requests : x # r => request'[x] = request[x]
    BY <1>5 DEF IInv, Typed, Starts
  <2>2. request[r].stream = 0 /\ ~Active(r)
    BY <1>5, NotCalled DEF Starts, Unstarted, Active
  <2>3. \A s \in Streams : pending[s] # r
    BY <1>3, <2>2, ClientAssumption DEF IInv, Registered
  <2>4. CASE q.released \/ q.operation.state # "active"
    <3>1. pending' = pending /\ q.operation.state # "active"
      BY <1>5, <2>4 DEF Starts
    <3>2. \A x \in Requests :
              Active(x)' <=> request'[x].stream # 0 /\ pending'[request'[x].stream] = x
      BY <1>5, <2>1, <2>3, <3>1 DEF IInv, Registered, Active, Starts
    <3>3. \A s \in Streams : pending'[s] # NoRequest => request'[pending'[s]].stream = s
      BY <2>1, <2>3, <3>1 DEF IInv, Registered
    <3>4. QED
      BY <3>2, <3>3 DEF Registered
  <2>5. CASE ~q.released /\ q.operation.state = "active"
    <3>1. /\ pending' = [pending EXCEPT ![q.stream] = r]
          /\ q.stream \in Streams
          /\ q.stream \notin in_use
      BY <1>5, <2>5 DEF Starts
    <3>2. pending[q.stream] = NoRequest
      BY <3>1, FreeStreamUnmapped
    <3>3. /\ pending'[q.stream] = r
          /\ \A s \in Streams : s # q.stream => pending'[s] = pending[s]
      BY <2>1, <3>1
    <3>4. Active(r)' /\ request'[r].stream # 0 /\ pending'[request'[r].stream] = r
      BY <1>3, <2>1, <2>5, <3>1, <3>3 DEF Active
    <3>5. ASSUME NEW x \in Requests, x # r
          PROVE  Active(x)' <=> request'[x].stream # 0 /\ pending'[request'[x].stream] = x
      <4>1. request'[x] = request[x] /\ x # NoRequest
        BY <2>1, <3>5, ClientAssumption
      <4>2. \A s \in Streams : pending'[s] = x <=> pending[s] = x
        BY <3>2, <3>3, <3>5, <4>1
      <4>3. QED
        BY <1>2, <4>1, <4>2 DEF IInv, Registered, Active
    <3>6. ASSUME NEW s \in Streams, pending'[s] # NoRequest
          PROVE  request'[pending'[s]].stream = s
      <4>1. CASE s = q.stream
        BY <2>1, <3>3, <4>1
      <4>2. CASE s # q.stream
        BY <2>1, <2>3, <3>3, <3>6, <4>2 DEF IInv, Registered
      <4>3. QED
        BY <4>1, <4>2
    <3>7. QED
      BY <3>4, <3>5, <3>6 DEF Registered
  <2>6. QED
    BY <2>4, <2>5
<1>6. QED
    BY <1>4, <1>5 DEF Effect

\* The streams in use and the requests holding them stay one to one.
LEMMA OwnershipKept ==
    ASSUME IInv, Effect
    PROVE  StreamOwnership'
<1> DEFINE Held == {request[r].stream : r \in {x \in Requests : Holds(x)}}
<1>1. \A r \in Requests : Active(r)' => Holds(r)'
    BY StoriesKept DEF Stories, Story, Underway, Active, Holds
<1>2. /\ in_use = Held
      /\ \A r1, r2 \in Requests :
            Holds(r1) /\ Holds(r2) /\ request[r1].stream = request[r2].stream => r1 = r2
    BY DEF IInv, StreamOwnership
<1>3. CASE Settles
  <2>1. \A r \in Requests : request'[r].stream = request[r].stream
    BY <1>3 DEF Settles, SettlesTo
  <2>2. CASE /\ in_use' = in_use
             /\ \A r \in Requests : request'[r].released = request[r].released
    <3>1. \A r \in Requests : Holds(r)' <=> Holds(r)
      BY <2>1, <2>2 DEF Holds
    <3>2. Held' = Held
      BY <2>1, <3>1
    <3>3. QED
      BY <1>1, <1>2, <2>1, <2>2, <3>1, <3>2 DEF StreamOwnership
  <2>3. ASSUME NEW r \in Requests,
               Holds(r),
               in_use' = in_use \ {request[r].stream},
               request'[r].released,
               \A x \in Requests \ {r} : request'[x].released = request[x].released
        PROVE  StreamOwnership'
    <3>1. \A x \in Requests : Holds(x)' <=> Holds(x) /\ x # r
      BY <2>1, <2>3 DEF Holds
    <3>2. \A x \in Requests : Holds(x) /\ x # r => request[x].stream # request[r].stream
      BY <1>2, <2>3
    <3>3. Held' = Held \ {request[r].stream}
      BY <2>1, <3>1, <3>2
    <3>4. QED
      BY <1>1, <1>2, <2>1, <2>3, <3>1, <3>3 DEF StreamOwnership
  <2>4. QED
    BY <1>3, <2>2, <2>3 DEF Settles, GivesBack
<1>4. ASSUME NEW r \in Requests, NEW q \in RequestRecords, Starts(r, q) PROVE StreamOwnership'
  <2>1. /\ request'[r] = q
        /\ \A x \in Requests : x # r => request'[x] = request[x]
    BY <1>4 DEF IInv, Typed, Starts
  <2>2. ~Holds(r)
    BY <1>4, NotCalled DEF Starts, Unstarted, Holds
  <2>3. \A x \in Requests : x # r => (Holds(x)' <=> Holds(x))
    BY <2>1 DEF Holds
  <2>4. q.stream # 0
    BY <1>4, ClientAssumption DEF Starts, Streams
  <2>5. CASE q.released
    <3>1. ~Holds(r)' /\ in_use' = in_use
      BY <1>4, <2>1, <2>5 DEF Holds, Starts
    <3>2. Held' = Held
      BY <2>1, <2>2, <2>3, <3>1
    <3>3. QED
      BY <1>1, <1>2, <2>1, <2>2, <2>3, <3>1, <3>2 DEF StreamOwnership
  <2>6. CASE ~q.released
    <3>1. /\ Holds(r)'
          /\ in_use' = in_use \cup {q.stream}
          /\ q.stream \notin in_use
      BY <1>4, <2>1, <2>4, <2>6 DEF Holds, Starts
    <3>2. Held' = Held \cup {q.stream}
      BY <2>1, <2>2, <2>3, <3>1
    <3>3. \A x \in Requests : Holds(x) => request[x].stream # q.stream
      BY <1>2, <3>1
    <3>4. QED
      BY <1>1, <1>2, <2>1, <2>2, <2>3, <3>1, <3>2, <3>3 DEF StreamOwnership
  <2>7. QED
    BY <2>5, <2>6
<1>5. QED
    BY <1>3, <1>4 DEF Effect

-----------------------------------------------------------------------------
(* The connection itself *)

\* Where the transitions of the client's lifecycle lead.
LEMMA ClientTransitions ==
    ASSUME NEW s \in ClientStates
    PROVE  /\ Transition(s, "closed") \in ClientStates
           /\ ShuttingDown(s) => Transition(s, "closed") = "closed"
           /\ BeginShutdown(s, "connecting") \in ClientStates
           /\ ShuttingDown(BeginShutdown(s, "connecting"))
           /\ Transition(BeginShutdown(s, "connecting"), "closed") = "closed"
           /\ s = "created" => Transition(Transition(s, "connecting"), "active") = "active"
BY DEF ClientStates, Transition, BeginShutdown, ShuttingDown, ConnectionEdges

\* The queue never holds more than max_frames and the frame being written.
LEMMA QueueKept ==
    ASSUME ConnectionTyped, NEW s \in Streams, NEW f \in {CancelFrame(s)} \cup
               {RequestFrame(s, r) : r \in Requests},
           \/ MayAccept /\ queue' = Append(queue, f)
           \/ queue' = queue
           \/ queue # <<>> /\ queue' = Tail(queue)
           \/ queue' = <<>>
    PROVE  queue' \in Seq(SentFrames) /\ Len(queue') <= MaxFrames + 1
<1>1. queue \in Seq(SentFrames) /\ Len(queue) <= MaxFrames + 1 /\ MaxFrames \in Nat
    BY ClientAssumption DEF ConnectionTyped
<1>2. f \in SentFrames
  <2>1. CancelFrame(s) \in SentFrames
    BY DEF SentFrames, CancelFrame, Frame
  <2>2. \A r \in Requests : RequestFrame(s, r) \in SentFrames
    BY DEF SentFrames, RequestFrame, Frame
  <2>3. QED
    BY <2>1, <2>2
<1>3. CASE MayAccept /\ queue' = Append(queue, f)
    BY <1>1, <1>2, <1>3 DEF MayAccept
<1>4. CASE queue' = queue
    BY <1>1, <1>4
<1>5. CASE queue # <<>> /\ queue' = Tail(queue)
    BY <1>1, <1>5
<1>6. CASE queue' = <<>>
    BY <1>1, <1>6
<1>7. QED
    BY <1>3, <1>4, <1>5, <1>6

\* send_cancellation() keeps the queue within its limits.
LEMMA CancellationQueued ==
    ASSUME ConnectionTyped, NEW s \in Streams, SendCancellation(s)
    PROVE  queue' \in Seq(SentFrames) /\ Len(queue') <= MaxFrames + 1
BY QueueKept DEF SendCancellation

\* The steps of a request touch the queue only.
LEMMA RequestStepTyped ==
    ASSUME IInv, NEW r \in Requests, ApplicationStep(r) \/ RequestStep(r)
    PROVE  ConnectionTyped' /\ UNCHANGED connVars
<1>1. ConnectionTyped /\ request[r].stream \in Streams \cup {0}
    BY DEF IInv, Typed, RequestRecords
<1>2. UNCHANGED <<terminal_streams, queue_closed, connVars>>
    BY DEF ApplicationStep, RequestStep, StartRefused, StartExhausted, StartUnencodable,
           StartRequest, StartRejected, async_wait, CancelRequest, Discard, EnqueueAccepted,
           EnqueueRefused, WaitReturns, TimerExpires, TimerFires, queueVars
<1>3. queue' \in Seq(SentFrames) /\ Len(queue') <= MaxFrames + 1
  <2>1. CASE UNCHANGED queue
    BY <1>1, <2>1 DEF ConnectionTyped
  <2>2. CASE StartRequest(r) /\ ~UNCHANGED queue
    <3>1. PICK s \in Streams : MayAccept /\ queue' = Append(queue, RequestFrame(s, r))
      BY <2>2 DEF StartRequest
    <3>2. QED
      BY <1>1, <3>1, QueueKept
  <2>3. CASE (EnqueueAccepted(r) \/ CancelRequest(r) \/ Discard(r) \/ TimerFires(r))
             /\ ~UNCHANGED queue
    <3>1. request[r].stream # 0
      <4>1. request[r].operation.state # "created"
        BY <2>3 DEF IInv, Stories, Story, Unstarted, EnqueueAccepted, CancelRequest, Discard,
                    TimerFires
      <4>2. Story(request[r]) /\ request[r].operation.state \in OperationStates
        BY DEF IInv, Stories, Typed, RequestRecords, OperationRecords
      <4>3. QED
        BY <4>1, <4>2 DEF Story, Underway, Ended, is_terminal, TerminalStates, OperationStates
    <3>2. request[r].stream \in Streams
      BY <1>1, <3>1
    <3>3. CASE EnqueueAccepted(r)
      BY <1>1, <3>2, <3>3, QueueKept DEF EnqueueAccepted
    <3>4. CASE CancelRequest(r)
      BY <1>1, <3>2, <3>4, CancellationQueued DEF CancelRequest
    <3>5. CASE Discard(r)
      <4>1. [request[r] EXCEPT !.phase = "discarded"].stream = request[r].stream
        BY DEF IInv, Typed, RequestRecords
      <4>2. QED
        BY <1>1, <2>3, <3>2, <3>5, <4>1, CancellationQueued DEF Discard
    <3>6. CASE TimerFires(r)
      <4>1. [request[r] EXCEPT !.timer = "off"].stream = request[r].stream
        BY DEF IInv, Typed, RequestRecords
      <4>2. QED
        BY <1>1, <2>3, <3>2, <3>6, <4>1, CancellationQueued DEF TimerFires
    <3>7. QED
      BY <2>3, <3>3, <3>4, <3>5, <3>6
  <2>4. QED
    BY <2>1, <2>2, <2>3
       DEF ApplicationStep, RequestStep, StartRefused, StartExhausted, StartUnencodable,
           StartRejected, async_wait, EnqueueRefused, WaitReturns, TimerExpires, queueVars
<1>4. QED
    BY <1>1, <1>2, <1>3 DEF ConnectionTyped, connVars

\* The read loop leaves the connection open, or closes it with nothing pending.
LEMMA PeerStepTyped ==
    ASSUME IInv, PeerStep \/ Receive
    PROVE  /\ ConnectionTyped'
           /\ drain' = drain
           /\ \/ state' = state
              \/ state' = Transition(state, "closed") /\ pending' = NonePending
<1>1. ConnectionTyped
    BY DEF IInv, Typed
<1>2. Transition(state, "closed") \in ClientStates
    BY <1>1, ClientTransitions DEF ConnectionTyped
<1>3. ASSUME NEW status \in ProtocolStatuses, FailConnection(status)
      PROVE  /\ ConnectionTyped'
             /\ drain' = drain
             /\ state' = Transition(state, "closed") /\ pending' = NonePending
    BY <1>1, <1>2, <1>3 DEF FailConnection, EndReading, ConnectionTyped
<1>4. ASSUME NEW r, NEW q, NEW release_stream, Routed(r, q, release_stream)
      PROVE  /\ queue_closed' \in BOOLEAN
             /\ state' \in ClientStates
             /\ transport' = transport
             /\ reader' \in {"idle", "reading", "ended"}
             /\ writer' = writer
             /\ drain' = drain
             /\ violation' \in ProtocolStatuses \cup {"none"}
             /\ \/ state' = state
                \/ state' = Transition(state, "closed") /\ pending' = NonePending
  <2>1. CASE UNCHANGED <<queue_closed, connVars>>
    BY <1>1, <2>1 DEF ConnectionTyped, connVars
  <2>2. CASE ~UNCHANGED <<queue_closed, connVars>>
    <3>1. /\ EndReading
          /\ UNCHANGED <<transport, writer, drain>>
          /\ violation' \in {violation} \cup DecoderErrors
      BY <1>4, <2>2 DEF Routed
    <3>2. QED
      BY <1>1, <1>2, <3>1, FailureStatuses DEF EndReading, ConnectionTyped
  <2>3. QED
    BY <2>1, <2>2
<1>5. ASSUME NEW f, Readable(f), Dispatch(f)
      PROVE  /\ ConnectionTyped'
             /\ drain' = drain
             /\ \/ state' = state
                \/ state' = Transition(state, "closed") /\ pending' = NonePending
  <2>1. CASE DispatchViolation(f)
    BY <1>3, <2>1, Verdicts, FailureStatuses DEF DispatchViolation
  <2>2. CASE DispatchCancel(f) \/ DispatchError(f) \/ DispatchResponse(f)
    <3>1. f.stream \in Streams
      BY <1>5 DEF Readable
    <3>2. terminal_streams' \subseteq Streams
      BY <1>1, <2>2, <3>1
         DEF DispatchCancel, DispatchError, DispatchResponse, MarkTerminal, ConnectionTyped
    <3>3. queue' \in Seq(SentFrames) /\ Len(queue') <= MaxFrames + 1
      <4>1. CASE DispatchCancel(f)
        BY <1>1, <3>1, <4>1, CancellationQueued DEF DispatchCancel
      <4>2. CASE ~DispatchCancel(f)
        BY <1>1, <2>2, <4>2 DEF DispatchError, DispatchResponse, ConnectionTyped
      <4>3. QED
        BY <4>1, <4>2
    <3>4. PICK r, q, release_stream : Routed(r, q, release_stream)
      BY <2>2 DEF DispatchCancel, DispatchError, DispatchResponse
    <3>5. QED
      BY <1>1, <1>4, <3>2, <3>3, <3>4 DEF ConnectionTyped
  <2>3. QED
    BY <1>5, <2>1, <2>2 DEF Dispatch
<1>6. CASE ReadGarbage
    BY <1>3, <1>6, FailureStatuses DEF ReadGarbage
<1>7. ASSUME NEW open \in BOOLEAN, ReadEnds(TRUE, open)
      PROVE  /\ ConnectionTyped'
             /\ drain' = drain
             /\ state' = Transition(state, "closed") /\ pending' = NonePending
    BY <1>1, <1>2, <1>7 DEF ReadEnds, EndReading, ConnectionTyped
<1>8. QED
    BY <1>5, <1>6, <1>7, <1>3, PeerFramesReadable DEF PeerStep, Receive, ReadGarbage

\* run(), the write queue and shutdown(): shutdown() leaves the connection shutting down,
\* and closes it only with nothing pending.
LEMMA ConnectionStepTyped ==
    ASSUME IInv, ConnectionStep
    PROVE  ConnectionTyped' /\ Closing'
<1>1. /\ ConnectionTyped
      /\ Closing
      /\ state \in ClientStates
      /\ MaxFrames \in Nat
    BY ClientAssumption DEF IInv, Typed, ConnectionTyped
<1>2. CASE WriteDone \/ WriteFails \/ WriterStops
  <2>1. queue' \in Seq(SentFrames) /\ Len(queue') <= MaxFrames + 1
    <3>1. queue \in Seq(SentFrames) /\ Len(queue) <= MaxFrames + 1
      BY <1>1 DEF ConnectionTyped
    <3>2. CASE queue # <<>> /\ queue' = Tail(queue)
      BY <1>1, <3>1, <3>2
    <3>3. CASE queue' = <<>>
      BY <1>1, <3>3
    <3>4. CASE queue' = queue
      BY <3>1, <3>4
    <3>5. QED
      BY <1>2, <3>2, <3>3, <3>4 DEF WriteDone, WriteFails, WriterStops, queueVars
  <2>2. UNCHANGED <<terminal_streams, requestVars, state, reader, drain, violation>>
    BY <1>2 DEF WriteDone, WriteFails, WriterStops, connVars
  <2>3. /\ queue_closed' \in BOOLEAN
        /\ transport' \in BOOLEAN
        /\ writer' \in {"idle", "running", "stopped", "failed"}
    BY <1>1, <1>2 DEF WriteDone, WriteFails, WriterStops, connVars, queueVars, ConnectionTyped
  <2>4. QED
    BY <1>1, <2>1, <2>2, <2>3 DEF ConnectionTyped, Closing, requestVars
<1>3. CASE Run
  <2>1. \/ state # "created" /\ state' = state
        \/ state = "created" /\ state' = "active"
    BY <1>1, <1>3, ClientTransitions DEF Run
  <2>2. state = "created" => drain = "none"
    BY <1>1 DEF Closing, ShuttingDown
  <2>3. ConnectionTyped'
    BY <1>1, <1>3, <2>1 DEF Run, ConnectionTyped, queueVars, ClientStates
  <2>4. QED
    BY <1>1, <1>3, <2>1, <2>2, <2>3 DEF Run, Closing, requestVars
<1>4. ASSUME NEW draining \in ClientStates, ShuttingDown(draining), FinishShutdown(draining),
             UNCHANGED <<terminal_streams, queueVars, reader, writer, violation>>
      PROVE  ConnectionTyped' /\ Closing'
  <2>1. state' = "closed" /\ drain' = "done" /\ transport' = FALSE /\ pending' = NonePending
    BY <1>4, ClientTransitions DEF FinishShutdown
  <2>2. QED
    BY <1>1, <1>4, <2>1 DEF ConnectionTyped, Closing, ShuttingDown, queueVars, ClientStates
<1>5. CASE Shutdown
  <2> DEFINE begun == BeginShutdown(state, "connecting")
  <2>1. begun \in ClientStates /\ ShuttingDown(begun)
    BY <1>1, ClientTransitions
  <2>2. CASE FinishShutdown(begun)
    BY <1>4, <1>5, <2>1, <2>2 DEF Shutdown
  <2>3. CASE ~FinishShutdown(begun)
    <3>1. /\ pending # NonePending
          /\ state' = begun
          /\ drain' \in {"draining", "done"}
          /\ UNCHANGED <<requestVars, transport, terminal_streams, queueVars, reader, writer,
                         violation>>
      BY <1>5, <2>3 DEF Shutdown
    <3>2. begun # "closed"
      BY <1>1, <3>1 DEF Closing, BeginShutdown, Transition, ConnectionEdges, ClientStates
    <3> HIDE DEF begun
    <3>3. QED
      BY <1>1, <2>1, <3>1, <3>2 DEF ConnectionTyped, Closing, requestVars, queueVars
  <2>4. QED
    BY <2>2, <2>3
<1>6. CASE DrainEnds
  <2>1. ShuttingDown(state)
    BY <1>1, <1>6 DEF DrainEnds, Closing
  <2>2. QED
    BY <1>1, <1>4, <1>6, <2>1 DEF DrainEnds
<1>7. QED
    BY <1>2, <1>3, <1>5, <1>6 DEF ConnectionStep

\* Nothing becomes pending on a closed connection.
LEMMA ClosedStaysEmpty ==
    ASSUME IInv, Effect, state = "closed"
    PROVE  pending' = NonePending
<1>1. pending = NonePending
    BY DEF IInv, Closing
<1>2. Settles
    BY DEF Effect, Starts, ShuttingDown
<1>3. /\ pending' \in [Streams -> Requests \cup {NoRequest}]
      /\ \A s \in Streams, r \in Requests : pending'[s] # r
    BY <1>1, <1>2, ClientAssumption DEF Settles, SettlesTo, NonePending
<1>4. QED
    BY <1>3 DEF NonePending

-----------------------------------------------------------------------------
(* The theorems *)

\* A new connection satisfies the invariant: no request has been made.
LEMMA InitInv == Init => IInv
<1> SUFFICES ASSUME Init PROVE IInv
    OBVIOUS
<1>1. idp!AllocInv
  <2>1. idp!AllocInit
    BY DEF Init, ids!AllocInit, idp!AllocInit, ids!first_id, idp!first_id
  <2>2. QED
    BY <2>1, idp!AllocInitInv, ClientAssumption
<1>2. /\ NewRequest \in RequestRecords
      /\ NewRequest.operation.state = "created"
      /\ NewRequest.stream = 0
      /\ Unstarted(NewRequest)
  <2> DEFINE op == NewOperation
  <2>1. op \in OperationRecords /\ op.state = "created"
    BY NewOperationActivates DEF NewOperation
  <2>2. NewRequest = [phase |-> "none", stream |-> 0, operation |-> op, channel |-> "empty",
                      timer |-> "off", removed |-> FALSE, released |-> FALSE, outcome |-> "none"]
    BY DEF NewRequest
  <2> HIDE DEF op
  <2>3. QED
    BY <2>1, <2>2 DEF RequestRecords, Phases, Unstarted
<1>3. /\ request = [r \in Requests |-> NewRequest]
      /\ pending = NonePending
      /\ in_use = {}
    BY DEF Init, ids!AllocInit
<1>4. \A r \in Requests : request[r] = NewRequest
    BY <1>3
<1>5. Typed
  <2>1. request \in [Requests -> RequestRecords]
    BY <1>2, <1>3
  <2>2. pending \in [Streams -> Requests \cup {NoRequest}]
    BY <1>3 DEF NonePending
  <2>3. queue = <<>> /\ queue \in Seq(SentFrames) /\ Len(queue) <= MaxFrames + 1
    BY ClientAssumption DEF Init
  <2>4. ConnectionTyped
    BY <2>3 DEF Init, ConnectionTyped, ClientStates
  <2>5. QED
    BY <2>1, <2>2, <2>4 DEF Typed
<1>6. Stories
    BY <1>2, <1>4 DEF Stories, Story, is_terminal, TerminalStates
<1>7. Registered
    BY <1>2, <1>3, <1>4 DEF Registered, Active, NonePending
<1>8. StreamOwnership
    BY <1>2, <1>3, <1>4 DEF StreamOwnership, Holds, Active
<1>9. Closing
    BY DEF Init, Closing
<1>10. QED
    BY <1>1, <1>5, <1>6, <1>7, <1>8, <1>9 DEF IInv

\* Every step keeps the invariant.
LEMMA StepInv == IInv /\ [Next \/ Receive]_vars => IInv'
<1> SUFFICES ASSUME IInv, [Next \/ Receive]_vars PROVE IInv'
    OBVIOUS
<1>1. CASE UNCHANGED vars
  <2>1. idp!AllocInv'
    BY <1>1, AllocKept DEF vars, IInv
  <2>2. QED
    BY <1>1, <2>1
       DEF vars, allocVars, requestVars, queueVars, connVars, IInv, Typed, ConnectionTyped,
           Stories, Registered, StreamOwnership, Closing, Holds, Active
<1>2. CASE Next \/ Receive
  <2>1. Effect
    BY <1>2, StepEffect
  <2>2. ConnectionTyped' /\ Closing'
    <3>1. CASE ConnectionStep
      BY <3>1, ConnectionStepTyped
    <3>2. CASE PeerStep \/ Receive
      <4>1. /\ ConnectionTyped'
            /\ drain' = drain
            /\ \/ state' = state
               \/ state' = Transition(state, "closed") /\ pending' = NonePending
        BY <3>2, PeerStepTyped
      <4>2. state \in ClientStates /\ Closing
        BY DEF IInv, Typed, ConnectionTyped
      <4>3. drain' # "none" => ShuttingDown(state')
        BY <4>1, <4>2, ClientTransitions DEF Closing, ShuttingDown
      <4>4. state' = "closed" => pending' = NonePending
        BY <4>1, <2>1, ClosedStaysEmpty
      <4>5. QED
        BY <4>1, <4>3, <4>4 DEF Closing
    <3>3. ASSUME NEW r \in Requests, ApplicationStep(r) \/ RequestStep(r)
          PROVE  ConnectionTyped' /\ Closing'
      <4>1. ConnectionTyped' /\ UNCHANGED connVars
        BY <3>3, RequestStepTyped
      <4>2. QED
        BY <2>1, <4>1, ClosedStaysEmpty DEF connVars, IInv, Closing
    <3>4. QED
      BY <1>2, <3>1, <3>2, <3>3 DEF Next
  <2>3. QED
    BY <2>1, <2>2, StoriesKept, RegisteredKept, OwnershipKept DEF Effect, IInv, Typed
<1>3. QED
    BY <1>1, <1>2

\* The inductive invariant holds for every set of requests, every range of stream
\* identifiers, every queue limit and every peer.
THEOREM ClientInvariant == Spec => []IInv
BY InitInv, StepInv, PTL DEF Spec

\* pending_, the operations and the allocator agree: a request is active exactly while
\* pending_ maps its stream to it, and each stream in use is held by exactly one request.
THEOREM ClientIsConsistent == Spec => []ClientConsistent
<1>1. IInv => ClientConsistent
  <2> SUFFICES ASSUME IInv PROVE ClientConsistent
    OBVIOUS
  <2>1. ids!AllocTypeOK
    BY DEF IInv, idp!AllocInv, idp!AllocTypeOK, ids!AllocTypeOK, idp!OwnIds, ids!OwnIds,
           idp!first_id, ids!first_id
  <2>2. /\ pending \in [Streams -> Requests \cup {NoRequest}]
        /\ ConnectionTyped
        /\ \A r \in Requests : request[r] \in RequestRecords
    BY DEF IInv, Typed
  <2>3. TypeOK
    BY <2>1, <2>2
       DEF TypeOK, ConnectionTyped, RequestRecords, Operations, OperationRecords, ClientStates,
           ConnectionStates
  <2>4. QED
    BY <2>3 DEF IInv, ClientConsistent
<1>2. QED
    BY <1>1, ClientInvariant, PTL

\* A finished operation has filled or closed its channel, so no handle waits for it.
THEOREM FinishedSeen == Spec => []FinishedIsVisible
<1>1. IInv => FinishedIsVisible
    BY ClientAssumption DEF IInv, Stories, Story, Ended, FinishedIsVisible
<1>2. QED
    BY <1>1, ClientInvariant, PTL

\* async_wait() returns a response exactly when the operation completed, else the result
\* of whoever finished the operation first.
THEOREM ResultsAgree == Spec => []ResultAgrees
<1>1. IInv => ResultAgrees
  <2> SUFFICES ASSUME IInv, NEW r \in Requests, request[r].phase = "returned"
               PROVE  /\ is_terminal(request[r].operation)
                      /\ IF request[r].operation.state = "completed"
                         THEN request[r].outcome \in Replies \cup {"decode_error"}
                         ELSE request[r].outcome = request[r].operation.result
    BY DEF ResultAgrees
  <2>1. /\ is_terminal(request[r].operation)
        /\ Ended(request[r])
    BY FinishedOrActive DEF Underway
  <2>2. QED
    BY <2>1, ClientAssumption DEF Ended, Answer
<1>2. QED
    BY <1>1, ClientInvariant, PTL

\* No request survives the connection, whichever of the read loop and shutdown() closes it.
THEOREM ClosedHasNoRequests == Spec => []ClosedSettles
<1>1. IInv => ClosedSettles
  <2> SUFFICES ASSUME IInv, state = "closed", NEW r \in Requests PROVE ~Active(r)
    BY DEF ClosedSettles
  <2>1. request[r].stream \in Streams \cup {0} /\ pending = NonePending
    BY DEF IInv, Typed, Closing, RequestRecords
  <2>2. QED
    BY <2>1, ClientAssumption DEF IInv, Registered, NonePending
<1>2. QED
    BY <1>1, ClientInvariant, PTL

\* The first result of an operation is its last: no deadline, cancellation, late frame or
\* failed send changes it.
THEOREM FirstResultStays == Spec => TerminalStable
<1> DEFINE Stable == \A r \in Requests :
               is_terminal(request[r].operation) => request'[r].operation = request[r].operation
<1>1. IInv /\ [Next]_vars => [Stable]_vars
  <2> SUFFICES ASSUME IInv, Next PROVE Stable
    OBVIOUS
  <2>1. CASE Settles
    BY <2>1 DEF Settles, SettlesTo
  <2>2. ASSUME NEW r \in Requests, NEW q \in RequestRecords, Starts(r, q) PROVE Stable
    <3>1. ~is_terminal(request[r].operation)
      BY <2>2, NotCalled DEF Starts, is_terminal, TerminalStates
    <3>2. QED
      BY <2>2, <3>1 DEF Starts, IInv, Typed
  <2>3. QED
    BY <2>1, <2>2, StepEffect DEF Effect
<1>2. QED
    BY <1>1, ClientInvariant, PTL DEF Spec, TerminalStable

\* Once shutdown() has been called or the connection is closed, no step takes a stream.
THEOREM NothingAdmitted == Spec => ShutdownAdmitsNothing
<1> DEFINE Admits == drain # "none" \/ state = "closed" => in_use' \subseteq in_use
<1>1. IInv /\ [Next]_vars => [Admits]_vars
  <2> SUFFICES ASSUME IInv, Next, drain # "none" \/ state = "closed"
               PROVE  in_use' \subseteq in_use
    OBVIOUS
  <2>1. ShuttingDown(state)
    BY DEF IInv, Closing, ShuttingDown
  <2>2. Settles
    BY <2>1, StepEffect DEF Effect, Starts
  <2>3. QED
    BY <2>2 DEF Settles, GivesBack
<1>2. QED
    BY <1>1, ClientInvariant, PTL DEF Spec, ShutdownAdmitsNothing
=============================================================================
