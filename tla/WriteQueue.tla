------------------------------ MODULE WriteQueue ------------------------------
(***************************************************************************)
(* The single write path of a connection: include/rillnet/write_queue.hpp. *)
(*                                                                         *)
(* Coroutines share one executor, so the code between two suspension       *)
(* points is one action.  The two Boost.Asio channels are modelled by what *)
(* the code relies on: an item goes to a waiting receiver before it is     *)
(* buffered, a resumed coroutine runs later, and closing a channel fails   *)
(* its waiting receivers while buffered items are still received.          *)
(***************************************************************************)
EXTENDS Integers, Sequences, FiniteSetsExt

CONSTANTS
    Frames,     \* frames offered to the queue, each by one call
    Bytes,      \* Bytes[f]: queued_bytes(f), header included
    MaxFrames,  \* WriteQueueLimits::max_frames
    MaxBytes,   \* WriteQueueLimits::max_bytes
    Unbounded   \* unbounded_capacity, the largest std::size_t

ASSUME WriteQueueAssumption ==
    /\ Bytes \in [Frames -> Nat \ {0}]
    /\ Unbounded \in Nat
    /\ MaxFrames \in 0 .. Unbounded
    /\ MaxBytes \in 0 .. Unbounded

VARIABLES
    channel,       \* channel_: buffered frames
    run,           \* where run() is
    current,       \* the frame run() holds, if any
    space,         \* tokens buffered in space_channel_
    waiters,       \* enqueue() calls suspended on space_channel_, first come first
    call,          \* progress of the call that offers each frame
    queued_bytes,  \* queued_bytes_
    closed,        \* closed_
    transport,     \* transport_.is_open()
    written,       \* frames written to the transport
    accepted       \* history: frames in the order the queue accepted them

queueState == <<channel, space, waiters, queued_bytes, closed, accepted>>
runState == <<run, current, transport, written>>
vars == <<channel, run, current, space, waiters, call, queued_bytes, closed,
          transport, written, accepted>>

RunStates == {"idle", "receiving", "delivered", "writing", "closing", "stopped", "failed"}
CallStates == {"none", "waiting", "resumed", "aborted", "accepted", "refused"}

Init ==
    /\ channel = <<>>
    /\ run = "idle"
    /\ current = <<>>
    /\ space = 0
    /\ waiters = <<>>
    /\ call = [f \in Frames |-> "none"]
    /\ queued_bytes = 0
    /\ closed = FALSE
    /\ transport = TRUE
    /\ written = <<>>
    /\ accepted = <<>>

-----------------------------------------------------------------------------
(* Accepting frames *)

\* space_signal_capacity(): max_frames tokens, one for an unbounded or empty queue.
space_signal_capacity == IF MaxFrames \in {0, Unbounded} THEN 1 ELSE MaxFrames

\* Mutant: the bytes already queued are not counted against the limit.
can_fit_IgnoresQueued(f) == ~closed /\ MaxFrames # 0 /\ Bytes[f] <= MaxBytes

can_fit(f) ==
    /\ ~closed
    /\ MaxFrames # 0
    /\ Bytes[f] <= MaxBytes
    /\ queued_bytes <= MaxBytes - Bytes[f]

\* channel_.try_send() finds the channel open, and a receiver to hand the frame to or room
\* to buffer it.
ChannelTakes == ~closed /\ (run = "receiving" \/ Len(channel) < MaxFrames)

\* Mutant: buffered frames are taken from the wrong end.
Push_Front(f) ==
    IF run = "receiving"
    THEN /\ run' = "delivered"
         /\ current' = <<f>>
         /\ UNCHANGED channel
    ELSE /\ channel' = <<f>> \o channel
         /\ UNCHANGED <<run, current>>

\* channel_.try_send(): straight to a waiting run(), which resumes later, or buffered.
Push(f) ==
    IF run = "receiving"
    THEN /\ run' = "delivered"
         /\ current' = <<f>>
         /\ UNCHANGED channel
    ELSE /\ channel' = Append(channel, f)
         /\ UNCHANGED <<run, current>>

\* try_enqueue_frame() succeeding.
AcceptFrame(f) ==
    /\ can_fit(f)
    /\ ChannelTakes
    /\ Push(f)
    /\ queued_bytes' = queued_bytes + Bytes[f]
    /\ accepted' = Append(accepted, f)
    /\ call' = [call EXCEPT ![f] = "accepted"]
    /\ UNCHANGED <<space, waiters, closed, transport, written>>

Refused(f) == ~(can_fit(f) /\ ChannelTakes)

\* A call that returns resource_limit_exceeded.
ReturnRefused(f) ==
    /\ call' = [call EXCEPT ![f] = "refused"]
    /\ UNCHANGED <<queueState, runState>>

\* space_channel_.async_receive(): a buffered token at once, else the call waits.
AwaitSpace(f) ==
    /\ IF space > 0
       THEN /\ space' = space - 1
            /\ call' = [call EXCEPT ![f] = "resumed"]
            /\ UNCHANGED waiters
       ELSE /\ waiters' = Append(waiters, f)
            /\ call' = [call EXCEPT ![f] = "waiting"]
            /\ UNCHANGED space
    /\ UNCHANGED <<channel, queued_bytes, closed, accepted, runState>>

\* One round of the loop of enqueue().
Attempt(f) ==
    \/ AcceptFrame(f)
    \/ Refused(f) /\ closed /\ ReturnRefused(f)
    \/ Refused(f) /\ ~closed /\ AwaitSpace(f)

\* Frames no space could ever be found for are refused before the first round.
NeverFits(f) == Bytes[f] > MaxBytes \/ MaxFrames = 0

enqueue(f) ==
    /\ call[f] = "none"
    /\ IF NeverFits(f) THEN ReturnRefused(f) ELSE Attempt(f)

try_enqueue(f) ==
    /\ call[f] = "none"
    /\ AcceptFrame(f) \/ (Refused(f) /\ ReturnRefused(f))

\* A suspended enqueue() runs again after a token, or after the queue was closed.
ResumeEnqueue(f) == call[f] = "resumed" /\ Attempt(f)

AbortEnqueue(f) == call[f] = "aborted" /\ ReturnRefused(f)

-----------------------------------------------------------------------------
(* The write loop *)

\* Mutant: a closed channel fails the receiver although frames are buffered.
ReceiveNext_DropsBuffered(ch, cl) ==
    IF ch # <<>> /\ ~cl
    THEN channel' = Tail(ch) /\ current' = <<Head(ch)>> /\ run' = "delivered"
    ELSE /\ channel' = ch
         /\ current' = <<>>
         /\ run' = IF cl THEN "closing" ELSE "receiving"

\* channel_.async_receive() on the state ch, cl of the channel.
ReceiveNext(ch, cl) ==
    IF ch # <<>>
    THEN channel' = Tail(ch) /\ current' = <<Head(ch)>> /\ run' = "delivered"
    ELSE /\ channel' = ch
         /\ current' = <<>>
         /\ run' = IF cl THEN "closing" ELSE "receiving"

\* run() is spawned, once.
StartRun ==
    /\ run = "idle"
    /\ ReceiveNext(channel, closed)
    /\ UNCHANGED <<space, waiters, call, queued_bytes, closed, transport, written,
                   accepted>>

\* Mutant: a token is kept for later although a call is waiting for one.
SignalSpace_BuffersOnly ==
    /\ space' = IF closed \/ space >= space_signal_capacity THEN space ELSE space + 1
    /\ UNCHANGED <<waiters, call>>

\* space_channel_.try_send(): the first waiting call gets the token, else it is
\* buffered while there is room, else it is dropped.
SignalSpace ==
    IF closed
    THEN UNCHANGED <<space, waiters, call>>
    ELSE IF waiters # <<>>
    THEN /\ call' = [call EXCEPT ![Head(waiters)] = "resumed"]
         /\ waiters' = Tail(waiters)
         /\ UNCHANGED space
    ELSE /\ space' = IF space < space_signal_capacity THEN space + 1 ELSE space
         /\ UNCHANGED <<waiters, call>>

\* run() resumes with a frame: accounts for it, signals space, starts the write.
TakeFrame ==
    /\ run = "delivered"
    /\ run' = "writing"
    /\ queued_bytes' = queued_bytes - Bytes[Head(current)]
    /\ SignalSpace
    /\ UNCHANGED <<channel, current, closed, transport, written, accepted>>

\* transport_.write() completes and the loop asks for the next frame.
WriteDone ==
    /\ run = "writing"
    /\ transport
    /\ written' = written \o current
    /\ ReceiveNext(channel, closed)
    /\ UNCHANGED <<space, waiters, call, queued_bytes, closed, transport, accepted>>

\* Mutant: close() forgets the calls suspended on space_channel_.
CloseChannels_LeavesWaiters ==
    /\ closed' = TRUE
    /\ UNCHANGED <<waiters, call>>

\* close(): both channels are closed; the waiting calls will resume with an error.
CloseChannels ==
    /\ closed' = TRUE
    /\ waiters' = <<>>
    /\ call' = [f \in Frames |-> IF call[f] = "waiting" THEN "aborted" ELSE call[f]]

\* Mutant: the failure is swallowed and the loop goes on with the next frame.
WriteFail_Continues ==
    /\ run = "writing"
    /\ ReceiveNext(channel, closed)
    /\ UNCHANGED <<space, waiters, call, queued_bytes, closed, transport, written, accepted>>

\* transport_.write() throws: the queue and the transport are closed and run() returns
\* a failure; frames still buffered are never taken.
WriteFail ==
    /\ run = "writing"
    /\ run' = "failed"
    /\ CloseChannels
    /\ transport' = FALSE
    /\ UNCHANGED <<channel, current, space, queued_bytes, written, accepted>>

\* run() resumes with the channel closed and drained.
StopRun ==
    /\ run = "closing"
    /\ run' = "stopped"
    /\ UNCHANGED <<channel, current, space, waiters, call, queued_bytes, closed,
                   transport, written, accepted>>

\* Mutant: the write loop is not woken up.
close_LeavesRun ==
    /\ ~closed
    /\ CloseChannels
    /\ UNCHANGED <<channel, run, current, space, queued_bytes, transport, written, accepted>>

\* close(), called by the connection that owns the queue.
close ==
    /\ ~closed
    /\ CloseChannels
    /\ run' = IF run = "receiving" THEN "closing" ELSE run
    /\ UNCHANGED <<channel, current, space, queued_bytes, transport, written, accepted>>

\* The owner closes the transport under the queue (shutdown, protocol error).
CloseTransport ==
    /\ transport
    /\ transport' = FALSE
    /\ UNCHANGED <<channel, run, current, space, waiters, call, queued_bytes, closed,
                   written, accepted>>

Next ==
    \/ StartRun \/ TakeFrame \/ WriteDone \/ WriteFail \/ StopRun
    \/ close \/ CloseTransport
    \/ \E f \in Frames : enqueue(f) \/ try_enqueue(f) \/ ResumeEnqueue(f) \/ AbortEnqueue(f)

\* The executor runs every ready coroutine, a started write completes or fails, and
\* the connection spawns run().
Fairness ==
    /\ WF_vars(StartRun)
    /\ WF_vars(TakeFrame)
    /\ WF_vars(WriteDone \/ WriteFail)
    /\ WF_vars(StopRun)
    /\ \A f \in Frames : WF_vars(ResumeEnqueue(f)) /\ WF_vars(AbortEnqueue(f))

Spec == Init /\ [][Next]_vars /\ Fairness

-----------------------------------------------------------------------------
(* Properties *)

\* Type invariant.
TypeOK ==
    /\ channel \in Seq(Frames)
    /\ run \in RunStates
    /\ current \in Seq(Frames)
    /\ space \in 0..space_signal_capacity
    /\ waiters \in Seq(Frames)
    /\ call \in [Frames -> CallStates]
    /\ queued_bytes \in Nat
    /\ closed \in BOOLEAN
    /\ transport \in BOOLEAN
    /\ written \in Seq(Frames)
    /\ accepted \in Seq(Frames)

Elements(seq) == {seq[i] : i \in DOMAIN seq}

\* The frames whose bytes the limit counts: buffered, or handed over but not yet taken.
Held == Elements(channel) \cup (IF run = "delivered" THEN Elements(current) ELSE {})

\* queued_bytes_ is the size of exactly the frames still held and never exceeds the
\* limit: the two updates, in enqueue() and across a suspension in run(), agree.
ByteAccounting ==
    /\ queued_bytes = MapThenSumSet(LAMBDA f : Bytes[f], Held)
    /\ queued_bytes <= MaxBytes

\* The queue's counters and channels are consistent.
QueueConsistent == TypeOK /\ ByteAccounting

\* "frames are handed to the underlying Transport strictly in the order they were
\* enqueued": written, held and buffered frames are the accepted ones, in order.
Pipeline == written \o current \o channel = accepted

\* A call waiting for space is never forgotten: a frame is still held whose removal
\* signals space, or a call that was signalled has yet to run.
NoLostWakeup ==
    waiters # <<>> =>
        /\ ~closed
        /\ Held # {} \/ \E f \in Frames : call[f] = "resumed"

\* run() returns success only when every accepted frame has been written.
DrainedWhenStopped == run \in {"closing", "stopped"} => closed /\ written = accepted

\* The queue implements ordered delivery.
Delivery == INSTANCE OrderedDelivery
ImplementsDelivery == Delivery!DeliverySpec

\* Every enqueue() returns: it is not left suspended when the queue drains or closes.
EnqueueReturns ==
    \A f \in Frames :
        call[f] \in {"waiting", "resumed", "aborted"} ~> call[f] \in {"accepted", "refused"}

\* Once closed, run() returns: with success after draining, or with the write's failure.
RunReturns == closed ~> run \in {"stopped", "failed"}
=============================================================================
