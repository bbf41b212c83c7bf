--------------------------- MODULE WriteQueueProofs ---------------------------
(***************************************************************************)
(* The write queue delivers in order, keeps to its limit of bytes and      *)
(* forgets no call waiting for space, for every set of frames, every size  *)
(* of frame and every limit.                                               *)
(***************************************************************************)
EXTENDS WriteQueue, SequenceTheorems, FiniteSetTheorems, TLAPS

-----------------------------------------------------------------------------
(* Sequences *)

\* A frame appended to the buffer is appended to the pipeline.
LEMMA AppendToPipeline ==
    ASSUME NEW S, NEW v \in Seq(S), NEW ch \in Seq(S), NEW f \in S
    PROVE  v \o Append(ch, f) = Append(v \o ch, f)
<1>1. <<f>> \in Seq(S) /\ v \o ch \in Seq(S)
  BY ConcatProperties
<1>2. Append(ch, f) = ch \o <<f>> /\ Append(v \o ch, f) = (v \o ch) \o <<f>>
  BY <1>1, AppendIsConcat
<1> QED BY <1>1, <1>2, ConcatAssociative

\* Taking the first buffered frame out leaves the pipeline as it was.
LEMMA TakeFromPipeline ==
    ASSUME NEW S, NEW v \in Seq(S), NEW ch \in Seq(S), ch # <<>>
    PROVE  /\ <<Head(ch)>> \in Seq(S)
           /\ (v \o <<Head(ch)>>) \o Tail(ch) = v \o ch
<1>1. Head(ch) \in S /\ Tail(ch) \in Seq(S) /\ <<Head(ch)>> \in Seq(S)
  BY HeadTailProperties
<1>2. (v \o <<Head(ch)>>) \o Tail(ch) = v \o (<<Head(ch)>> \o Tail(ch))
  BY <1>1, ConcatAssociative
<1>3. <<Head(ch)>> \o Tail(ch) = ch
  <2>1. /\ Len(ch) \in Nat /\ Len(ch) # 0
        /\ Len(Tail(ch)) = Len(ch) - 1
        /\ \A i \in 1 .. Len(Tail(ch)) : Tail(ch)[i] = ch[i + 1]
        /\ Head(ch) = ch[1]
    BY HeadTailProperties, EmptySeq
  <2>2. /\ <<Head(ch)>> \o Tail(ch) \in Seq(S)
        /\ Len(<<Head(ch)>> \o Tail(ch)) = 1 + Len(Tail(ch))
        /\ \A i \in 1 .. 1 + Len(Tail(ch)) :
              (<<Head(ch)>> \o Tail(ch))[i] =
                  IF i <= 1 THEN <<Head(ch)>>[i] ELSE Tail(ch)[i - 1]
    <3>1. Len(<<Head(ch)>>) = 1
      OBVIOUS
    <3> QED BY <1>1, <3>1, ConcatProperties
  <2>3. \A i \in 1 .. Len(ch) : (<<Head(ch)>> \o Tail(ch))[i] = ch[i]
    BY <2>1, <2>2
  <2> QED BY <2>1, <2>2, <2>3, SeqEqual
<1> QED BY <1>1, <1>2, <1>3

-----------------------------------------------------------------------------
(* The inductive invariant *)

\* The types the pipeline needs.
PipelineTypes ==
    /\ channel \in Seq(Frames)
    /\ current \in Seq(Frames)
    /\ written \in Seq(Frames)
    /\ accepted \in Seq(Frames)
    /\ run \in RunStates
    /\ closed \in BOOLEAN

\* What run() holds at each place of its loop: a frame handed to a waiting run() may skip
\* the buffer only because the buffer is empty and nothing else is held.
LoopState ==
    /\ run \in {"idle", "receiving", "closing", "stopped"} => current = <<>>
    /\ run \in {"receiving", "closing", "stopped"} => channel = <<>>
    /\ run \in {"delivered", "writing"} => \E f \in Frames : current = <<f>>
    /\ run \in {"closing", "stopped"} => closed

PipelineInv == PipelineTypes /\ LoopState /\ Pipeline

\* An empty queue satisfies the invariant.
LEMMA PipelineInitInv == Init => PipelineInv
<1> SUFFICES ASSUME Init PROVE PipelineInv
  OBVIOUS
<1>1. <<>> \in Seq(Frames) /\ <<>> \o <<>> \o <<>> = <<>>
  BY EmptySeq, ConcatEmptySeq
<1> QED BY <1>1 DEF Init, PipelineInv, PipelineTypes, LoopState, Pipeline, RunStates

\* Accepting a frame appends it to the pipeline, whichever way it takes.
LEMMA AcceptInv == ASSUME PipelineInv, NEW f \in Frames, AcceptFrame(f) PROVE PipelineInv'
<1> USE DEF PipelineInv, PipelineTypes
<1>1. /\ accepted' = Append(accepted, f) /\ accepted' \in Seq(Frames)
      /\ closed' = closed /\ written' = written
  BY DEF AcceptFrame
<1>2. CASE run = "receiving"
  <2>1. /\ run' = "delivered" /\ current' = <<f>> /\ channel' = channel
        /\ current = <<>> /\ channel = <<>>
    BY <1>2 DEF AcceptFrame, Push, LoopState
  <2>2. current' \in Seq(Frames)
    BY <2>1
  <2>3. written = accepted
    BY <2>1, ConcatEmptySeq DEF Pipeline
  <2>4. written \o <<f>> = Append(written, f)
    BY AppendIsConcat
  <2>5. Pipeline'
    <3>1. written' \o current' \o channel' = written \o <<f>>
      BY <1>1, <2>1, <2>4, ConcatEmptySeq
    <3> QED BY <3>1, <1>1, <2>3, <2>4 DEF Pipeline
  <2>6. PipelineTypes' /\ LoopState'
    BY <1>1, <2>1, <2>2 DEF LoopState, RunStates
  <2> QED BY <2>5, <2>6
<1>3. CASE run # "receiving"
  <2>1. channel' = Append(channel, f) /\ run' = run /\ current' = current
    BY <1>3 DEF AcceptFrame, Push
  <2>2. run \notin {"closing", "stopped"}
    BY DEF AcceptFrame, can_fit, LoopState
  <2>3. channel' \in Seq(Frames)
    BY <2>1
  <2>4. PipelineTypes' /\ LoopState'
    BY <1>1, <1>3, <2>1, <2>2, <2>3 DEF LoopState
  <2>5. written \o current \in Seq(Frames)
    BY ConcatProperties
  <2>6. Pipeline'
    BY <1>1, <2>1, <2>5, AppendToPipeline DEF Pipeline
  <2> QED BY <2>4, <2>6
<1> QED BY <1>2, <1>3

\* Asking for the next frame moves the head of the buffer into run().
LEMMA ReceiveInv ==
    ASSUME PipelineInv, NEW v \in Seq(Frames), v \o channel = accepted,
           ReceiveNext(channel, closed), written' = v, closed' = closed, accepted' = accepted
    PROVE  PipelineInv'
<1> USE DEF PipelineInv, PipelineTypes
<1>1. CASE channel # <<>>
  <2>1. channel' = Tail(channel) /\ current' = <<Head(channel)>> /\ run' = "delivered"
    BY <1>1 DEF ReceiveNext
  <2>2. Head(channel) \in Frames /\ Tail(channel) \in Seq(Frames)
    BY <1>1, HeadTailProperties
  <2>3. /\ <<Head(channel)>> \in Seq(Frames)
        /\ (v \o <<Head(channel)>>) \o Tail(channel) = v \o channel
    BY <1>1, TakeFromPipeline
  <2>4. PipelineTypes'
    BY <2>1, <2>2, <2>3 DEF RunStates
  <2>5. LoopState'
    BY <2>1, <2>2 DEF LoopState
  <2>6. Pipeline'
    BY <2>1, <2>3 DEF Pipeline
  <2> QED BY <2>4, <2>5, <2>6
<1>2. CASE channel = <<>>
  <2>1. /\ channel' = <<>> /\ current' = <<>>
        /\ run' = IF closed THEN "closing" ELSE "receiving"
    BY <1>2 DEF ReceiveNext
  <2>2. PipelineTypes' /\ LoopState'
    BY <2>1, EmptySeq DEF LoopState, RunStates
  <2>3. (v \o <<>>) \o <<>> = v \o channel
    BY <1>2, ConcatEmptySeq
  <2>4. Pipeline'
    BY <2>1, <2>3 DEF Pipeline
  <2> QED BY <2>2, <2>4
<1> QED BY <1>1, <1>2

\* A round of enqueue() accepts the frame or leaves the pipeline alone.
LEMMA AttemptInv == ASSUME PipelineInv, NEW f \in Frames, Attempt(f) PROVE PipelineInv'
<1>1. CASE AcceptFrame(f)
  BY <1>1, AcceptInv
<1>2. CASE ReturnRefused(f)
  BY <1>2 DEF ReturnRefused, queueState, runState, PipelineInv, PipelineTypes, LoopState, Pipeline
<1>3. CASE AwaitSpace(f)
  BY <1>3 DEF AwaitSpace, runState, PipelineInv, PipelineTypes, LoopState, Pipeline
<1> QED BY <1>1, <1>2, <1>3 DEF Attempt

\* Every step preserves the invariant.
LEMMA PipelineStepInv == PipelineInv /\ [Next]_vars => PipelineInv'
<1> SUFFICES ASSUME PipelineInv, [Next]_vars PROVE PipelineInv'
  OBVIOUS
<1> USE DEF PipelineInv, PipelineTypes
<1>1. CASE StartRun
  <2>1. written \o channel = accepted
    BY <1>1, ConcatEmptySeq DEF StartRun, LoopState, Pipeline
  <2> QED BY <1>1, <2>1, ReceiveInv DEF StartRun
<1>2. CASE TakeFrame
  BY <1>2 DEF TakeFrame, LoopState, Pipeline, RunStates
<1>3. CASE WriteDone
  <2>1. written \o current \in Seq(Frames)
    BY ConcatProperties
  <2>2. (written \o current) \o channel = accepted
    BY DEF Pipeline
  <2> QED BY <1>3, <2>1, <2>2, ReceiveInv DEF WriteDone
<1>4. CASE WriteFail
  BY <1>4 DEF WriteFail, CloseChannels, LoopState, Pipeline, RunStates
<1>5. CASE StopRun
  BY <1>5 DEF StopRun, LoopState, Pipeline, RunStates
<1>6. CASE close
  BY <1>6 DEF close, CloseChannels, LoopState, Pipeline, RunStates
<1>7. CASE CloseTransport
  BY <1>7 DEF CloseTransport, LoopState, Pipeline
<1>8. ASSUME NEW f \in Frames, enqueue(f) \/ try_enqueue(f) \/ ResumeEnqueue(f) \/ AbortEnqueue(f)
      PROVE  PipelineInv'
  <2>1. Attempt(f) \/ AcceptFrame(f) \/ ReturnRefused(f)
    BY <1>8 DEF enqueue, try_enqueue, ResumeEnqueue, AbortEnqueue
  <2>2. CASE ReturnRefused(f)
    BY <2>2 DEF ReturnRefused, queueState, runState, LoopState, Pipeline
  <2> QED BY <2>1, <2>2, AttemptInv, AcceptInv
<1>9. CASE UNCHANGED vars
  BY <1>9 DEF vars, LoopState, Pipeline
<1> QED BY <1>1, <1>2, <1>3, <1>4, <1>5, <1>6, <1>7, <1>8, <1>9 DEF Next

-----------------------------------------------------------------------------
(* Theorems *)

\* write_queue.hpp's promise: frames are written in the order they were accepted, none is
\* lost, doubled or overtaken between the buffer, the hand-over and the write.
THEOREM QueuePipeline == Spec => []Pipeline
<1>1. PipelineInv => Pipeline
  BY DEF PipelineInv
<1> QED BY <1>1, PipelineInitInv, PipelineStepInv, PTL DEF Spec

\* run() returns success only after every accepted frame has been written.
THEOREM QueueDrained == Spec => []DrainedWhenStopped
<1>1. PipelineInv => DrainedWhenStopped
  <2> SUFFICES ASSUME PipelineInv, run \in {"closing", "stopped"}
               PROVE  closed /\ written = accepted
    BY DEF DrainedWhenStopped
  <2>1. closed /\ current = <<>> /\ channel = <<>>
    BY DEF PipelineInv, LoopState
  <2>2. written \o <<>> \o <<>> = written
    BY ConcatEmptySeq DEF PipelineInv, PipelineTypes
  <2> QED BY <2>1, <2>2 DEF PipelineInv, Pipeline
<1> QED BY <1>1, PipelineInitInv, PipelineStepInv, PTL DEF Spec

\* An accepting step is the abstract acceptance.
LEMMA AcceptRefines ==
    ASSUME NEW f \in Frames, AcceptFrame(f) PROVE Delivery!Accept(f)
BY DEF AcceptFrame, can_fit, Delivery!Accept

\* A completed write is the abstract delivery of the next frame.
LEMMA WriteRefines == ASSUME PipelineInv, WriteDone PROVE Delivery!Deliver
<1> USE DEF PipelineInv, PipelineTypes
<1>1. PICK f \in Frames : current = <<f>>
  BY DEF LoopState, WriteDone
<1>2. <<f>> \in Seq(Frames) /\ Len(<<f>>) = 1 /\ <<f>>[1] = f
  OBVIOUS
<1>3. /\ written \o <<f>> \in Seq(Frames)
      /\ Len(written \o <<f>>) = Len(written) + 1
      /\ (written \o <<f>>)[Len(written) + 1] = f
  BY <1>2, ConcatProperties
<1>4. /\ Len(accepted) = Len(written) + 1 + Len(channel)
      /\ accepted[Len(written) + 1] = f
  BY <1>1, <1>3, ConcatProperties DEF Pipeline
<1>5. written \o <<f>> = Append(written, f)
  BY AppendIsConcat
<1>6. Len(written) \in Nat /\ Len(channel) \in Nat
  OBVIOUS
<1>7. Len(written) < Len(accepted)
  BY <1>4, <1>6
<1>8. written' = Append(written, accepted[Len(written) + 1])
  BY <1>1, <1>4, <1>5 DEF WriteDone
<1> QED BY <1>7, <1>8 DEF WriteDone, Delivery!Deliver

\* The queue, with its buffers, limits and wake-ups, implements ordered delivery.
THEOREM QueueImplementsDelivery == Spec => ImplementsDelivery
<1>1. Init => Delivery!DeliveryInit
  BY DEF Init, Delivery!DeliveryInit
<1>2. PipelineInv /\ [Next]_vars => [Delivery!DeliveryNext]_(Delivery!deliveryVars)
  <2> SUFFICES ASSUME PipelineInv, [Next]_vars
               PROVE  Delivery!DeliveryNext \/ UNCHANGED <<accepted, written, closed>>
    BY DEF Delivery!deliveryVars
  <2>1. CASE StartRun \/ TakeFrame \/ StopRun \/ CloseTransport \/ UNCHANGED vars
    BY <2>1 DEF StartRun, TakeFrame, StopRun, CloseTransport, vars
  <2>2. CASE WriteDone
    BY <2>2, WriteRefines DEF Delivery!DeliveryNext
  <2>3. CASE close \/ WriteFail
    BY <2>3 DEF close, WriteFail, CloseChannels, Delivery!DeliveryNext, Delivery!CloseDelivery
  <2>4. ASSUME NEW f \in Frames,
               enqueue(f) \/ try_enqueue(f) \/ ResumeEnqueue(f) \/ AbortEnqueue(f)
        PROVE  Delivery!DeliveryNext \/ UNCHANGED <<accepted, written, closed>>
    <3>1. AcceptFrame(f) \/ AwaitSpace(f) \/ ReturnRefused(f)
      BY <2>4 DEF enqueue, try_enqueue, ResumeEnqueue, AbortEnqueue, Attempt
    <3>2. CASE AcceptFrame(f)
      BY <3>2, AcceptRefines DEF Delivery!DeliveryNext
    <3>3. CASE AwaitSpace(f) \/ ReturnRefused(f)
      BY <3>3 DEF AwaitSpace, ReturnRefused, queueState, runState
    <3> QED BY <3>1, <3>2, <3>3
  <2> QED BY <2>1, <2>2, <2>3, <2>4 DEF Next
<1> QED BY <1>1, <1>2, PipelineInitInv, PipelineStepInv, PTL
        DEF Spec, ImplementsDelivery, Delivery!DeliverySpec

-----------------------------------------------------------------------------
(* The bytes and the calls waiting for space *)

\* How many of the accepted frames run() has taken and accounted for.
Taken == Len(written) + (IF run = "delivered" THEN 0 ELSE Len(current))

\* A ledger of the accepted frames: the bytes of the first i of them, for each i.  What is
\* queued is the difference between all accepted and all taken.
Ledger(bytes) ==
    /\ bytes \in [0 .. Len(accepted) -> Nat]
    /\ \A i \in 1 .. Len(accepted) : bytes[i] = bytes[i - 1] + Bytes[accepted[i]]
    /\ \A i, j \in 0 .. Len(accepted) : i <= j => bytes[i] <= bytes[j]
    /\ queued_bytes = bytes[Len(accepted)] - bytes[Taken]

Accounts ==
    /\ \E bytes : Ledger(bytes)
    /\ queued_bytes <= MaxBytes

\* Only calls whose frame could fit an empty queue are in the loop of enqueue().
Waiting ==
    /\ waiters \in Seq(Frames)
    /\ call \in [Frames -> CallStates]
    /\ space \in 0 .. space_signal_capacity
    /\ transport \in BOOLEAN
    /\ \A i \in 1 .. Len(waiters) : ~NeverFits(waiters[i])
    /\ \A f \in Frames : call[f] = "resumed" => ~NeverFits(f)

WakeupInv == PipelineInv /\ Accounts /\ Waiting /\ NoLostWakeup

\* The pipeline's lengths add up, and the frame handed to run() is the next one.
LEMMA PipelineLengths ==
    ASSUME PipelineInv
    PROVE  /\ Len(written) \in Nat /\ Len(current) \in Nat /\ Len(channel) \in Nat
           /\ Len(accepted) = Len(written) + Len(current) + Len(channel)
           /\ Taken \in 0 .. Len(accepted)
           /\ \A f : current = <<f>> => accepted[Len(written) + 1] = f
<1> USE DEF PipelineInv, PipelineTypes
<1>1. Len(written) \in Nat /\ Len(current) \in Nat /\ Len(channel) \in Nat
  OBVIOUS
<1>2. written \o current \in Seq(Frames) /\ Len(written \o current) = Len(written) + Len(current)
  BY ConcatProperties
<1>3. Len(accepted) = Len(written) + Len(current) + Len(channel)
  BY <1>2, ConcatProperties DEF Pipeline
<1>4. ASSUME NEW f, current = <<f>> PROVE accepted[Len(written) + 1] = f
  <2>1. Len(current) = 1 /\ current[1] = f
    BY <1>4
  <2>2. (written \o current)[Len(written) + 1] = f
    BY <1>1, <2>1, ConcatProperties
  <2>3. QED
    BY <1>1, <1>2, <2>1, <2>2, ConcatProperties DEF Pipeline
<1>5. QED
  BY <1>1, <1>3, <1>4 DEF Taken

\* Nothing is held exactly when the buffer is empty and no frame is being handed over;
\* the ledger then says that no bytes are queued.
LEMMA NothingHeld ==
    PipelineInv => /\ Held = {} <=> channel = <<>> /\ run # "delivered"
                   /\ Accounts /\ Held = {} => queued_bytes = 0
<1> SUFFICES ASSUME PipelineInv
             PROVE  /\ Held = {} <=> channel = <<>> /\ run # "delivered"
                    /\ Accounts /\ Held = {} => queued_bytes = 0
  OBVIOUS
<1> USE DEF PipelineInv, PipelineTypes
<1>1. Elements(channel) = {} <=> channel = <<>>
  <2>1. channel = <<>> => Elements(channel) = {}
    BY DEF Elements
  <2>2. channel # <<>> => 1 \in DOMAIN channel
    BY EmptySeq
  <2>3. QED
    BY <2>1, <2>2 DEF Elements
<1>2. run = "delivered" => Elements(current) # {}
  <2>1. run = "delivered" => 1 \in DOMAIN current
    BY DEF LoopState
  <2>2. QED
    BY <2>1 DEF Elements
<1>3. Held = {} <=> channel = <<>> /\ run # "delivered"
  BY <1>1, <1>2 DEF Held
<1>4. ASSUME Accounts, Held = {} PROVE queued_bytes = 0
  <2>1. Len(channel) = 0 /\ run # "delivered"
    BY <1>3, <1>4
  <2>2. Taken = Len(accepted) /\ Len(accepted) \in Nat
    BY <2>1, PipelineLengths DEF Taken
  <2>3. PICK bytes : Ledger(bytes)
    BY <1>4 DEF Accounts
  <2>4. bytes[Len(accepted)] \in Nat
    BY <2>2, <2>3 DEF Ledger
  <2>5. QED
    BY <2>2, <2>3, <2>4 DEF Ledger
<1>5. QED
  BY <1>3, <1>4

\* The same of the state a step leads to.
LEMMA NothingHeldNext ==
    PipelineInv' => (Held' = {} <=> channel' = <<>> /\ run' # "delivered")
<1>1. PipelineInv => (Held = {} <=> channel = <<>> /\ run # "delivered")
  BY NothingHeld
<1>2. (PipelineInv => (Held = {} <=> channel = <<>> /\ run # "delivered"))'
  BY <1>1, PTL
<1>3. QED
  BY <1>2

\* A ledger that is neither extended nor drawn from stays one.
LEMMA LedgerKept ==
    ASSUME Accounts, accepted' = accepted, queued_bytes' = queued_bytes, Taken' = Taken
    PROVE  Accounts'
BY DEF Accounts, Ledger

\* What the ledger leaves queued is a natural number.
LEMMA BytesCounted == PipelineInv /\ Accounts => queued_bytes \in Nat
<1> SUFFICES ASSUME PipelineInv, Accounts PROVE queued_bytes \in Nat
  OBVIOUS
<1>1. PICK bytes : Ledger(bytes)
  BY DEF Accounts
<1>2. PICK n \in Nat : n = Len(accepted) /\ Taken \in 0 .. n
  BY PipelineLengths
<1>3. bytes[n] \in Nat /\ bytes[Taken] \in Nat
  BY <1>1, <1>2 DEF Ledger
<1>4. bytes[Taken] <= bytes[n]
  <2>1. n \in 0 .. n /\ Taken <= n
    BY <1>2
  <2>2. QED
    BY <1>1, <1>2, <2>1 DEF Ledger
<1>5. queued_bytes = bytes[n] - bytes[Taken]
  BY <1>1, <1>2 DEF Ledger
<1>6. QED
  BY <1>3, <1>4, <1>5

\* Accepting a frame adds an entry to the ledger.
LEMMA AcceptAccounts ==
    ASSUME PipelineInv, Accounts, NEW f \in Frames, AcceptFrame(f)
    PROVE  Accounts'
<1> USE WriteQueueAssumption
<1>1. PICK bytes : Ledger(bytes)
  BY DEF Accounts
<1>2. PICK n \in Nat : n = Len(accepted) /\ Taken \in 0 .. n /\ accepted \in Seq(Frames)
  BY PipelineLengths DEF PipelineInv, PipelineTypes
<1>3. /\ accepted' = Append(accepted, f)
      /\ Len(accepted') = n + 1
      /\ accepted'[n + 1] = f
      /\ \A i \in 1 .. n : accepted'[i] = accepted[i]
  BY <1>2 DEF AcceptFrame
<1>4. Taken' = Taken
  <2>1. CASE run = "receiving"
    BY <2>1 DEF AcceptFrame, Push, PipelineInv, LoopState, Taken
  <2>2. CASE run # "receiving"
    BY <2>2 DEF AcceptFrame, Push, Taken
  <2>3. QED
    BY <2>1, <2>2
<1>5. Bytes[f] \in Nat \ {0} /\ queued_bytes' = queued_bytes + Bytes[f]
  BY DEF AcceptFrame
<1>6. bytes \in [0 .. n -> Nat] /\ bytes[n] \in Nat /\ bytes[Taken] \in Nat
  <2>1. bytes \in [0 .. n -> Nat]
    BY <1>1, <1>2 DEF Ledger
  <2>2. n \in 0 .. n
    BY <1>2
  <2>3. QED
    BY <1>2, <2>1, <2>2
<1>7. PICK longer \in [0 .. n + 1 -> Nat] :
          /\ longer[n + 1] = bytes[n] + Bytes[f]
          /\ \A i \in 0 .. n : longer[i] = bytes[i]
  <2> DEFINE extended ==
               [i \in 0 .. n + 1 |-> IF i <= n THEN bytes[i] ELSE bytes[n] + Bytes[f]]
  <2>1. /\ extended \in [0 .. n + 1 -> Nat]
        /\ extended[n + 1] = bytes[n] + Bytes[f]
        /\ \A i \in 0 .. n : extended[i] = bytes[i]
    BY <1>2, <1>5, <1>6
  <2>2. QED
    BY <2>1
<1>8. \A i \in 1 .. n + 1 : longer[i] = longer[i - 1] + Bytes[accepted'[i]]
  <2> SUFFICES ASSUME NEW i \in 1 .. n + 1 PROVE longer[i] = longer[i - 1] + Bytes[accepted'[i]]
    OBVIOUS
  <2>1. CASE i = n + 1
    BY <1>2, <1>3, <1>7, <2>1
  <2>2. CASE i # n + 1
    <3>1. i \in 1 .. n /\ i \in 0 .. n /\ i - 1 \in 0 .. n
      BY <2>2
    <3>2. QED
      BY <1>1, <1>2, <1>3, <1>7, <3>1 DEF Ledger
  <2>3. QED
    BY <2>1, <2>2
<1>9. \A i, j \in 0 .. n + 1 : i <= j => longer[i] <= longer[j]
  <2>1. \A i, j \in 0 .. n : i <= j => bytes[i] <= bytes[j]
    BY <1>1, <1>2 DEF Ledger
  <2>2. \A i \in 0 .. n : bytes[i] \in Nat /\ bytes[i] <= bytes[n]
    <3>1. \A i \in 0 .. n : bytes[i] \in Nat
      BY <1>6
    <3>2. n \in 0 .. n /\ \A i \in 0 .. n : i <= n
      OBVIOUS
    <3>3. QED
      BY <2>1, <3>1, <3>2
  <2>3. \A i \in 0 .. n + 1 : i \in 0 .. n \/ i = n + 1
    BY <1>2
  <2> SUFFICES ASSUME NEW i \in 0 .. n + 1, NEW j \in 0 .. n + 1, i <= j
               PROVE  longer[i] <= longer[j]
    OBVIOUS
  <2>4. CASE j \in 0 .. n
    <3>1. i \in 0 .. n
      BY <1>2, <2>4
    <3>2. QED
      BY <1>7, <2>1, <2>4, <3>1
  <2>5. CASE j = n + 1 /\ i \in 0 .. n
    <3>1. /\ longer[j] = bytes[n] + Bytes[f]
          /\ longer[i] = bytes[i]
          /\ bytes[i] \in Nat
          /\ bytes[i] <= bytes[n]
      BY <1>7, <2>2, <2>5
    <3>2. QED
      BY <1>5, <1>6, <3>1
  <2>6. CASE j = n + 1 /\ i = n + 1
    <3>1. longer[j] \in Nat /\ longer[i] = longer[j]
      BY <1>7, <2>6
    <3>2. QED
      BY <3>1
  <2>7. QED
    BY <2>3, <2>4, <2>5, <2>6
<1>10. queued_bytes' = longer[n + 1] - longer[Taken]
  BY <1>1, <1>2, <1>5, <1>6, <1>7 DEF Ledger
<1>11. Ledger(longer)'
  BY <1>3, <1>4, <1>8, <1>9, <1>10 DEF Ledger
<1>12. queued_bytes \in Nat
  BY BytesCounted
<1>13. queued_bytes' <= MaxBytes
  BY <1>5, <1>12 DEF AcceptFrame, can_fit
<1>14. QED
  BY <1>11, <1>13 DEF Accounts

\* run() taking a frame draws its entry: the frame is the next one not yet taken.
LEMMA TakeAccounts ==
    ASSUME PipelineInv, Accounts, TakeFrame
    PROVE  Accounts'
<1> USE WriteQueueAssumption
<1>1. PICK bytes : Ledger(bytes)
  BY DEF Accounts
<1>2. PICK n \in Nat : n = Len(accepted)
  BY PipelineLengths
<1>3. PICK f \in Frames : current = <<f>>
  BY DEF PipelineInv, LoopState, TakeFrame
<1>4. PICK t \in Nat : t = Len(written) /\ t + 1 <= n /\ accepted[t + 1] = f
  <2>1. Len(current) = 1
    BY <1>3
  <2>2. QED
    BY <1>2, <1>3, <2>1, PipelineLengths
<1>5. /\ Taken = t /\ Taken' = t + 1
      /\ queued_bytes' = queued_bytes - Bytes[f]
      /\ accepted' = accepted
  <2>1. Len(current) = 1 /\ Head(current) = f
    BY <1>3
  <2>2. QED
    BY <1>4, <2>1 DEF TakeFrame, Taken
<1>6. /\ bytes[t + 1] = bytes[t] + Bytes[f]
      /\ bytes[t] \in Nat /\ bytes[n] \in Nat /\ Bytes[f] \in Nat
      /\ queued_bytes = bytes[n] - bytes[t]
  <2>1. t + 1 \in 1 .. n /\ t \in 0 .. n /\ n \in 0 .. n /\ t + 1 - 1 = t
    BY <1>4
  <2>2. bytes \in [0 .. n -> Nat] /\ queued_bytes = bytes[n] - bytes[t]
    BY <1>1, <1>2, <1>5 DEF Ledger
  <2>3. bytes[t + 1] = bytes[t] + Bytes[f]
    BY <1>1, <1>2, <1>4, <2>1 DEF Ledger
  <2>4. QED
    BY <2>1, <2>2, <2>3
<1>7. queued_bytes' = bytes[n] - bytes[t + 1] /\ queued_bytes' <= queued_bytes
  BY <1>5, <1>6
<1>8. Ledger(bytes)'
  BY <1>1, <1>2, <1>5, <1>7 DEF Ledger
<1>9. queued_bytes' <= MaxBytes
  BY <1>5, <1>6, <1>7 DEF Accounts
<1>10. QED
  BY <1>8, <1>9 DEF Accounts

\* Asking for the next frame takes nothing off the ledger: the frame handed over is
\* accounted for when run() resumes with it.
LEMMA ReceiveTaken ==
    ASSUME PipelineInv, ReceiveNext(channel, closed),
           \/ run = "idle" /\ written' = written
           \/ run = "writing" /\ written' = written \o current
    PROVE  /\ Taken' = Taken
           /\ channel # <<>> => run' = "delivered"
           /\ run # "delivered"
<1> USE DEF PipelineInv, PipelineTypes
<1>1. Len(<<>>) = 0
  OBVIOUS
<1>2. Len(written \o current) = Len(written) + Len(current) /\ Len(written) \in Nat
  BY ConcatProperties
<1>3. Len(written') = Taken
  BY <1>1, <1>2 DEF LoopState, Taken
<1>4. Len(written') \in Nat
  BY <1>2, <1>3, PipelineLengths
<1>5. Taken' = Len(written')
  <2>1. CASE channel # <<>>
    BY <2>1 DEF ReceiveNext, Taken
  <2>2. CASE channel = <<>>
    BY <2>2, <1>1, <1>4 DEF ReceiveNext, Taken
  <2>3. QED
    BY <2>1, <2>2
<1>6. QED
  BY <1>3, <1>5 DEF ReceiveNext

-----------------------------------------------------------------------------
(* No wake-up is lost *)

\* A refused call finds the queue in use, or its frame could never fit.
LEMMA RefusedFindsHeld ==
    ASSUME PipelineInv, Accounts, NEW f \in Frames, Refused(f), ~closed, ~NeverFits(f)
    PROVE  Held # {}
<1> USE WriteQueueAssumption
<1>1. SUFFICES ASSUME Held = {} PROVE FALSE
  OBVIOUS
<1>2. queued_bytes = 0 /\ channel = <<>>
  BY <1>1, NothingHeld
<1>3. can_fit(f)
  BY <1>2 DEF can_fit, NeverFits
<1>4. Len(channel) = 0 /\ MaxFrames # 0
  BY <1>2 DEF NeverFits
<1>5. ChannelTakes
  BY <1>4 DEF ChannelTakes, PipelineInv, PipelineTypes
<1>6. QED
  BY <1>3, <1>5 DEF Refused

\* Accepting a frame leaves it held.
LEMMA AcceptWakes ==
    ASSUME WakeupInv, NEW f \in Frames, AcceptFrame(f)
    PROVE  WakeupInv'
<1> USE DEF WakeupInv
<1>1. PipelineInv' /\ Accounts'
  BY AcceptInv, AcceptAccounts
<1>2. Waiting'
  BY DEF AcceptFrame, Waiting, CallStates, NeverFits
<1>3. Held' # {}
  <2>1. channel' # <<>> \/ run' = "delivered"
    BY DEF AcceptFrame, Push, PipelineInv, PipelineTypes
  <2>2. QED
    BY <1>1, <2>1, NothingHeldNext
<1>4. ~closed'
  BY DEF AcceptFrame, can_fit
<1>5. QED
  BY <1>1, <1>2, <1>3, <1>4 DEF NoLostWakeup

\* A call that returns refused, or awaits space in a queue in use, loses no wake-up.
LEMMA AttemptWakes ==
    ASSUME WakeupInv, NEW f \in Frames, Attempt(f), ~NeverFits(f)
    PROVE  WakeupInv'
<1> USE DEF WakeupInv
<1>1. CASE AcceptFrame(f)
  BY <1>1, AcceptWakes
<1>2. CASE Refused(f) /\ closed /\ ReturnRefused(f)
  <2>1. PipelineInv'
    BY AttemptInv
  <2>2. Accounts'
    BY <1>2, LedgerKept DEF ReturnRefused, queueState, runState, Taken
  <2>3. Waiting'
    BY <1>2 DEF ReturnRefused, queueState, runState, Waiting, CallStates, NeverFits
  <2>4. waiters = <<>>
    BY <1>2 DEF NoLostWakeup
  <2>5. QED
    BY <1>2, <2>1, <2>2, <2>3, <2>4 DEF ReturnRefused, queueState, NoLostWakeup
<1>3. CASE Refused(f) /\ ~closed /\ AwaitSpace(f)
  <2>1. PipelineInv'
    BY AttemptInv
  <2>2. Accounts'
    BY <1>3, LedgerKept DEF AwaitSpace, runState, Taken
  <2>3. Waiting'
    <3>1. CASE space > 0
      BY <1>3, <3>1, WriteQueueAssumption
      DEF AwaitSpace, runState, Waiting, CallStates, NeverFits, space_signal_capacity
    <3>2. CASE ~(space > 0)
      <4>1. /\ waiters' = Append(waiters, f) /\ space' = space /\ transport' = transport
            /\ call' = [call EXCEPT ![f] = "waiting"]
        BY <1>3, <3>2 DEF AwaitSpace, runState
      <4>2. /\ waiters' \in Seq(Frames) /\ Len(waiters') = Len(waiters) + 1
            /\ Len(waiters) \in Nat
            /\ waiters'[Len(waiters) + 1] = f
            /\ \A i \in 1 .. Len(waiters) : waiters'[i] = waiters[i]
        BY <4>1 DEF Waiting
      <4>3. \A i \in 1 .. Len(waiters') : ~NeverFits(waiters'[i])
        <5> SUFFICES ASSUME NEW i \in 1 .. Len(waiters') PROVE ~NeverFits(waiters'[i])
          OBVIOUS
        <5>1. i \in 1 .. Len(waiters) \/ i = Len(waiters) + 1
          BY <4>2
        <5>2. QED
          BY <4>2, <5>1 DEF Waiting
      <4>4. QED
        BY <4>1, <4>2, <4>3 DEF Waiting, CallStates, NeverFits
    <3>3. QED
      BY <3>1, <3>2
  <2>4. Held' # {}
    BY <1>3, RefusedFindsHeld DEF AwaitSpace, runState, Held
  <2>5. ~closed'
    BY <1>3 DEF AwaitSpace
  <2>6. QED
    BY <2>1, <2>2, <2>3, <2>4, <2>5 DEF NoLostWakeup
<1>4. QED
  BY <1>1, <1>2, <1>3 DEF Attempt

\* A step that leaves the pipeline, the ledger and the calls waiting for space alone loses
\* no wake-up, if it leaves the resumed calls alone too or a frame held.
LEMMA QuietWakes ==
    ASSUME WakeupInv, PipelineInv', Accounts',
           UNCHANGED <<space, waiters, call, closed>>, transport' \in BOOLEAN,
           Held' = {} => Held = {}
    PROVE  WakeupInv'
<1> USE DEF WakeupInv
<1>1. Waiting'
  BY DEF Waiting, NeverFits
<1>2. NoLostWakeup'
  BY DEF NoLostWakeup
<1>3. QED
  BY <1>1, <1>2

\* run() taking a frame passes the token to the first waiting call, or buffers it because
\* none is waiting.
LEMMA TakeWakes ==
    ASSUME WakeupInv, TakeFrame
    PROVE  WakeupInv'
<1> USE DEF WakeupInv
<1>1. PipelineInv'
  BY PipelineStepInv DEF Next
<1>2. Accounts'
  BY TakeAccounts
<1>3. CASE closed
  <2>1. UNCHANGED <<space, waiters, call, closed, transport>> /\ waiters = <<>>
    BY <1>3 DEF TakeFrame, SignalSpace, NoLostWakeup
  <2>2. QED
    BY <1>1, <1>2, <2>1 DEF Waiting, NeverFits, NoLostWakeup
<1>4. CASE ~closed /\ waiters # <<>>
  <2>1. /\ call' = [call EXCEPT ![Head(waiters)] = "resumed"]
        /\ waiters' = Tail(waiters)
        /\ space' = space /\ closed' = closed /\ transport' = transport
    BY <1>4 DEF TakeFrame, SignalSpace
  <2>2. PICK w \in Frames : w = Head(waiters) /\ ~NeverFits(w)
    <3>1. 1 \in 1 .. Len(waiters) /\ Head(waiters) = waiters[1] /\ waiters[1] \in Frames
      BY <1>4 DEF Waiting
    <3>2. QED
      BY <3>1 DEF Waiting
  <2>3. /\ waiters' \in Seq(Frames)
        /\ \A i \in 1 .. Len(waiters') : ~NeverFits(waiters'[i])
    <3>1. /\ Tail(waiters) \in Seq(Frames) /\ Len(waiters) \in Nat
          /\ Len(Tail(waiters)) = Len(waiters) - 1
          /\ \A i \in 1 .. Len(Tail(waiters)) : Tail(waiters)[i] = waiters[i + 1]
      BY <1>4, HeadTailProperties DEF Waiting
    <3>2. \A i \in 1 .. Len(Tail(waiters)) : i + 1 \in 1 .. Len(waiters)
      BY <3>1
    <3>3. QED
      BY <2>1, <3>1, <3>2 DEF Waiting
  <2>4. call' \in [Frames -> CallStates] /\ call'[w] = "resumed"
    BY <2>1, <2>2 DEF Waiting, CallStates
  <2>5. \A f \in Frames : call'[f] = "resumed" => ~NeverFits(f)
    BY <2>1, <2>2 DEF Waiting
  <2>6. Waiting'
    BY <2>1, <2>3, <2>4, <2>5 DEF Waiting, NeverFits
  <2>7. NoLostWakeup'
    BY <1>4, <2>1, <2>4 DEF NoLostWakeup
  <2>8. QED
    BY <1>1, <1>2, <2>6, <2>7
<1>5. CASE ~closed /\ waiters = <<>>
  <2>1. /\ space' = IF space < space_signal_capacity THEN space + 1 ELSE space
        /\ UNCHANGED <<waiters, call, closed, transport>>
    BY <1>5 DEF TakeFrame, SignalSpace
  <2>2. space' \in 0 .. space_signal_capacity
    BY <2>1, WriteQueueAssumption DEF Waiting, space_signal_capacity
  <2>3. QED
    BY <1>1, <1>2, <1>5, <2>1, <2>2 DEF Waiting, NeverFits, NoLostWakeup
<1>6. QED
  BY <1>3, <1>4, <1>5

\* Closing the channels leaves no call waiting for space.
LEMMA CloseWakes ==
    ASSUME WakeupInv, PipelineInv', Accounts', CloseChannels, space' = space,
           transport' \in BOOLEAN
    PROVE  WakeupInv'
<1> USE DEF WakeupInv
<1>1. waiters' = <<>> /\ Len(waiters') = 0
  BY DEF CloseChannels
<1>2. Waiting'
  <2>1. waiters' \in Seq(Frames) /\ \A i \in 1 .. Len(waiters') : ~NeverFits(waiters'[i])
    BY <1>1
  <2>2. /\ call' \in [Frames -> CallStates]
        /\ \A f \in Frames : call'[f] = "resumed" => ~NeverFits(f)
    BY DEF CloseChannels, Waiting, CallStates
  <2>3. QED
    BY <2>1, <2>2 DEF Waiting, NeverFits
<1>3. QED
  BY <1>1, <1>2 DEF NoLostWakeup

\* An empty queue satisfies the invariant.
LEMMA WakeupInitInv == Init => WakeupInv
<1> SUFFICES ASSUME Init PROVE WakeupInv
  OBVIOUS
<1> USE WriteQueueAssumption
<1>1. Len(<<>>) = 0 /\ <<>> \in Seq(Frames)
  OBVIOUS
<1>2. PipelineInv
  BY PipelineInitInv
<1>3. Accounts
  <2> DEFINE none == [i \in 0 .. 0 |-> 0]
  <2>1. none \in [0 .. 0 -> Nat] /\ none[0] = 0
    OBVIOUS
  <2>2. Taken = 0 /\ Len(accepted) = 0
    BY <1>1 DEF Init, Taken
  <2>3. \A i, j \in 0 .. 0 : i <= j => none[i] <= none[j]
    OBVIOUS
  <2> HIDE DEF none
  <2>4. Ledger(none)
    BY <2>1, <2>2, <2>3 DEF Init, Ledger
  <2>5. QED
    BY <2>4 DEF Accounts, Init
<1>4. Waiting
  BY <1>1 DEF Init, Waiting, CallStates, space_signal_capacity
<1>5. QED
  BY <1>2, <1>3, <1>4 DEF Init, NoLostWakeup, WakeupInv

\* Every step preserves the invariant.
LEMMA WakeupStepInv == WakeupInv /\ [Next]_vars => WakeupInv'
<1> SUFFICES ASSUME WakeupInv, [Next]_vars PROVE WakeupInv'
  OBVIOUS
<1> USE DEF WakeupInv
<1>1. PipelineInv'
  BY PipelineStepInv
<1>2. CASE StartRun \/ WriteDone
  <2>1. /\ Taken' = Taken
        /\ channel # <<>> => run' = "delivered"
        /\ run # "delivered"
    BY <1>2, ReceiveTaken DEF StartRun, WriteDone
  <2>2. Accounts'
    BY <1>2, <2>1, LedgerKept DEF StartRun, WriteDone
  <2>3. Held' = {} => Held = {}
    BY <1>1, <2>1, NothingHeld, NothingHeldNext
  <2>4. UNCHANGED <<space, waiters, call, closed>> /\ transport' \in BOOLEAN
    BY <1>2 DEF StartRun, WriteDone, Waiting
  <2>5. QED
    BY <1>1, <2>2, <2>3, <2>4, QuietWakes
<1>3. CASE TakeFrame
  BY <1>3, TakeWakes
<1>4. CASE WriteFail
  <2>1. Accounts'
    BY <1>4, LedgerKept DEF WriteFail, Taken
  <2>2. QED
    BY <1>1, <1>4, <2>1, CloseWakes DEF WriteFail
<1>5. CASE StopRun \/ CloseTransport \/ UNCHANGED vars
  <2>1. Accounts'
    BY <1>5, LedgerKept DEF StopRun, CloseTransport, vars, Taken
  <2>2. Held' = Held
    BY <1>5 DEF StopRun, CloseTransport, vars, Held
  <2>3. UNCHANGED <<space, waiters, call, closed>> /\ transport' \in BOOLEAN
    BY <1>5 DEF StopRun, CloseTransport, vars, Waiting
  <2>4. QED
    BY <1>1, <2>1, <2>2, <2>3, QuietWakes
<1>6. CASE close
  <2>1. Accounts'
    BY <1>6, LedgerKept DEF close, Taken
  <2>2. QED
    BY <1>1, <1>6, <2>1, CloseWakes DEF close, Waiting
<1>7. ASSUME NEW f \in Frames,
             enqueue(f) \/ try_enqueue(f) \/ ResumeEnqueue(f) \/ AbortEnqueue(f)
      PROVE  WakeupInv'
  <2>1. CASE ~NeverFits(f) /\ Attempt(f)
    BY <2>1, AttemptWakes
  <2>2. CASE AcceptFrame(f)
    BY <2>2, AcceptWakes
  <2>3. CASE ReturnRefused(f) /\ call[f] # "resumed"
    <3>1. Accounts'
      BY <2>3, LedgerKept DEF ReturnRefused, queueState, runState, Taken
    <3>2. Waiting'
      BY <2>3 DEF ReturnRefused, queueState, runState, Waiting, CallStates, NeverFits
    <3>3. NoLostWakeup'
      BY <2>3 DEF ReturnRefused, queueState, runState, NoLostWakeup, Held, Waiting
    <3>4. QED
      BY <1>1, <3>1, <3>2, <3>3
  <2>4. (~NeverFits(f) /\ Attempt(f)) \/ AcceptFrame(f)
            \/ (ReturnRefused(f) /\ call[f] # "resumed")
    BY <1>7 DEF enqueue, try_enqueue, ResumeEnqueue, AbortEnqueue, Waiting
  <2>5. QED
    BY <2>1, <2>2, <2>3, <2>4
<1>8. QED
  BY <1>2, <1>3, <1>4, <1>5, <1>6, <1>7 DEF Next

\* write_queue.hpp's back-pressure loses no call: whenever an enqueue() is suspended on
\* space_channel_ the queue is open, and either a frame is still held whose removal signals
\* space or a call already signalled has yet to run.
THEOREM NoWakeupIsLost == Spec => []NoLostWakeup
<1>1. WakeupInv => NoLostWakeup
  BY DEF WakeupInv
<1>2. QED
  BY <1>1, WakeupInitInv, WakeupStepInv, PTL DEF Spec

\* Type correctness of the queue, queued_bytes_ and the tokens of space_channel_ included:
\* the size_t counter never goes below zero and the tokens never exceed the capacity.
THEOREM QueueTypes == Spec => []TypeOK
<1>1. WakeupInv => TypeOK
  BY BytesCounted DEF WakeupInv, PipelineInv, PipelineTypes, Waiting, TypeOK
<1>2. QED
  BY <1>1, WakeupInitInv, WakeupStepInv, PTL DEF Spec

\* The bytes queued_bytes_ counts are those of the accepted frames run() has not taken, and
\* never more than the limit.
THEOREM BytesBounded == Spec => []Accounts
<1>1. WakeupInv => Accounts
  BY DEF WakeupInv
<1>2. QED
  BY <1>1, WakeupInitInv, WakeupStepInv, PTL DEF Spec

-----------------------------------------------------------------------------
(* The bytes of a set of frames *)

\* What the fold of the community modules computes, as the fold takes the frames out.
Size(S) == MapThenSumSet(LAMBDA f : Bytes[f], S)

\* The frame the fold takes out of a set first.
First(S) == CHOOSE x \in S : TRUE

\* The function the fold defines, on the subsets of S.
Sums(g, S) ==
    g = [s \in SUBSET S |-> IF s = {} THEN 0 ELSE Bytes[First(s)] + g[s \ {First(s)}]]

\* Of the subsets of a finite set with some property, one has no smaller one: the induction
\* of this section, in a form without a predicate as its parameter.
LEMMA SmallestSubset ==
    ASSUME NEW S, IsFiniteSet(S), NEW C \in SUBSET (SUBSET S), C # {}
    PROVE  \E T \in C : \A U \in C : ~(U \subseteq T /\ U # T)
<1>1. FiniteSubsetsOf(S) = SUBSET S
  BY FS_Subset DEF FiniteSubsetsOf
<1>2. IsWellFoundedOn(StrictSubsetOrdering(S), FiniteSubsetsOf(S))
  BY FS_StrictSubsetOrderingWellFounded
<1>3. \E T \in C : \A U \in C : <<U, T>> \notin StrictSubsetOrdering(S)
  BY <1>1, <1>2, WFMin
<1>4. QED
  BY <1>3 DEF StrictSubsetOrdering

\* Two functions that sum over the subsets of a finite set agree on it.
LEMMA SumsAgree ==
    ASSUME NEW S, IsFiniteSet(S), NEW T, S \subseteq T, NEW g, Sums(g, S), NEW h, Sums(h, T)
    PROVE  \A U \in SUBSET S : g[U] = h[U]
<1> DEFINE C == {U \in SUBSET S : g[U] # h[U]}
<1> SUFFICES ASSUME C # {} PROVE FALSE
  OBVIOUS
<1>0. C \in SUBSET (SUBSET S)
  OBVIOUS
<1> HIDE DEF C
<1>1. PICK U \in C : \A V \in C : ~(V \subseteq U /\ V # U)
  BY <1>0, SmallestSubset
<1> USE DEF C
<1>2. /\ g[U] = IF U = {} THEN 0 ELSE Bytes[First(U)] + g[U \ {First(U)}]
      /\ h[U] = IF U = {} THEN 0 ELSE Bytes[First(U)] + h[U \ {First(U)}]
  BY DEF Sums
<1>3. CASE U = {}
  BY <1>2, <1>3
<1>4. CASE U # {}
  <2>1. First(U) \in U
    BY <1>4 DEF First
  <2>2. g[U \ {First(U)}] = h[U \ {First(U)}]
    BY <1>1, <2>1
  <2>3. QED
    BY <1>2, <1>4, <2>2
<1>5. QED
  BY <1>3, <1>4

\* There is such a function for every finite set.
LEMMA SumsExist ==
    ASSUME NEW S, IsFiniteSet(S)
    PROVE  \E g : Sums(g, S)
<1> DEFINE C == {T \in SUBSET S : ~\E g : Sums(g, T)}
           G(U) == CHOOSE g : Sums(g, U)
<1> SUFFICES ASSUME C # {} PROVE FALSE
  OBVIOUS
<1>0. C \in SUBSET (SUBSET S)
  OBVIOUS
<1> HIDE DEF C
<1>1. PICK T \in C : \A U \in C : ~(U \subseteq T /\ U # T)
  BY <1>0, SmallestSubset
<1> USE DEF C
<1>2. \A U \in SUBSET T : U # T => Sums(G(U), U)
  BY <1>1
<1>3. \A U \in SUBSET T : IsFiniteSet(U)
  BY FS_Subset
<1> DEFINE h == [s \in SUBSET T |->
                    IF s = {} THEN 0 ELSE Bytes[First(s)] + G(s \ {First(s)})[s \ {First(s)}]]
<1> HIDE DEF G
<1>4. ASSUME NEW U \in SUBSET T, U # T PROVE h[U] = G(U)[U]
  <2>1. G(U)[U] = IF U = {} THEN 0 ELSE Bytes[First(U)] + G(U)[U \ {First(U)}]
    BY <1>2, <1>4 DEF Sums
  <2>2. CASE U = {}
    BY <2>1, <2>2
  <2>3. CASE U # {}
    <3> DEFINE V == U \ {First(U)}
    <3>1. First(U) \in U
      BY <2>3 DEF First
    <3>2. V \in SUBSET T /\ V # T /\ V \subseteq U
      BY <1>4, <3>1
    <3>3. Sums(G(V), V) /\ Sums(G(U), U) /\ IsFiniteSet(V)
      BY <1>2, <1>3, <1>4, <3>2
    <3> HIDE DEF V
    <3>4. G(V)[V] = G(U)[V]
      BY <3>2, <3>3, SumsAgree
    <3>5. QED
      BY <2>1, <2>3, <3>4 DEF V
  <2>4. QED
    BY <2>2, <2>3
<1>5. \A s \in SUBSET T : s # {} => s \ {First(s)} \in SUBSET T /\ s \ {First(s)} # T
  <2> SUFFICES ASSUME NEW s \in SUBSET T, s # {}
               PROVE  s \ {First(s)} \in SUBSET T /\ s \ {First(s)} # T
    OBVIOUS
  <2>1. First(s) \in s
    BY DEF First
  <2>2. QED
    BY <2>1
<1>6. \A s \in SUBSET T :
        h[s] = IF s = {} THEN 0 ELSE Bytes[First(s)] + h[s \ {First(s)}]
  <2> SUFFICES ASSUME NEW s \in SUBSET T
               PROVE  h[s] = IF s = {} THEN 0 ELSE Bytes[First(s)] + h[s \ {First(s)}]
    OBVIOUS
  <2>1. h[s] = IF s = {} THEN 0 ELSE Bytes[First(s)] + G(s \ {First(s)})[s \ {First(s)}]
    OBVIOUS
  <2>2. s # {} => h[s \ {First(s)}] = G(s \ {First(s)})[s \ {First(s)}]
    BY <1>4, <1>5
  <2> HIDE DEF h
  <2>3. QED
    BY <2>1, <2>2
<1>7. h = [s \in SUBSET T |-> h[s]]
  OBVIOUS
<1> HIDE DEF h
<1>8. Sums(h, T)
  BY <1>6, <1>7 DEF Sums
<1>9. QED
  BY <1>1, <1>8

\* The bytes of no frames, and of a set of frames from which one is taken.
LEMMA SizeTakesFirst ==
    ASSUME NEW S, IsFiniteSet(S)
    PROVE  Size(S) = IF S = {} THEN 0 ELSE Bytes[First(S)] + Size(S \ {First(S)})
<1> DEFINE G(U) == CHOOSE g : Sums(g, U)
<1>1. \A U : Size(U) = G(U)[U]
  BY DEF Size, MapThenSumSet, MapThenFoldSet, Sums, First
<1>2. ASSUME NEW U, IsFiniteSet(U) PROVE Sums(G(U), U)
  BY <1>2, SumsExist
<1> HIDE DEF G
<1>3. G(S)[S] = IF S = {} THEN 0 ELSE Bytes[First(S)] + G(S)[S \ {First(S)}]
  BY <1>2 DEF Sums
<1> DEFINE V == S \ {First(S)}
<1>4. V \subseteq S /\ IsFiniteSet(V)
  BY FS_Subset
<1>5. Sums(G(V), V) /\ Sums(G(S), S)
  BY <1>2, <1>4
<1> HIDE DEF V
<1>6. G(V)[V] = G(S)[V]
  BY <1>4, <1>5, SumsAgree
<1>7. QED
  BY <1>1, <1>3, <1>6 DEF V

\* The order in which frames are taken makes no difference.
LEMMA SizeTakesAny ==
    ASSUME NEW S \in SUBSET Frames, IsFiniteSet(S)
    PROVE  /\ Size(S) \in Nat
           /\ \A y \in S : Size(S) = Bytes[y] + Size(S \ {y})
<1> DEFINE Good(T) == /\ Size(T) \in Nat
                      /\ \A y \in T : Size(T) = Bytes[y] + Size(T \ {y})
           C == {T \in SUBSET S : ~Good(T)}
<1> SUFFICES ASSUME C # {} PROVE FALSE
  OBVIOUS
<1>0. C \in SUBSET (SUBSET S)
  OBVIOUS
<1> HIDE DEF C
<1>1. PICK T \in C : \A U \in C : ~(U \subseteq T /\ U # T)
  BY <1>0, SmallestSubset
<1> USE DEF C
<1>2. /\ IsFiniteSet(T)
      /\ \A f \in T : Bytes[f] \in Nat
      /\ \A f \in T : T \ {f} \in SUBSET S /\ T \ {f} # T /\ Good(T \ {f})
  <2>1. T \in SUBSET S /\ IsFiniteSet(T)
    BY FS_Subset
  <2>2. ASSUME NEW f \in T PROVE Bytes[f] \in Nat
    <3>1. f \in Frames
      BY <2>1
    <3>2. QED
      BY <3>1, WriteQueueAssumption
  <2>3. ASSUME NEW f \in T
        PROVE  T \ {f} \in SUBSET S /\ T \ {f} # T /\ Good(T \ {f})
    <3>1. T \ {f} \in SUBSET S /\ T \ {f} # T /\ T \ {f} \subseteq T
      BY <2>1
    <3> HIDE DEF Good
    <3>2. T \ {f} \notin C
      BY <1>1, <3>1
    <3>3. QED
      BY <3>1, <3>2
  <2>4. QED
    BY <2>1, <2>2, <2>3
<1>3. CASE T = {}
  <2>1. Size({}) = 0
    BY FS_EmptySet, SizeTakesFirst
  <2>2. Good({})
    BY <2>1
  <2>3. QED
    BY <1>3, <2>2
<1>4. CASE T # {}
  <2> DEFINE x == First(T)
  <2>1. x \in T /\ Size(T) = Bytes[x] + Size(T \ {x})
    BY <1>2, <1>4, SizeTakesFirst DEF First
  <2> HIDE DEF x
  <2>2. Size(T) \in Nat
    BY <1>2, <2>1
  <2>3. ASSUME NEW y \in T PROVE Size(T) = Bytes[y] + Size(T \ {y})
    <3>1. CASE y = x
      BY <2>1, <3>1
    <3>2. CASE y # x
      <4>1. Size(T \ {x}) = Bytes[y] + Size((T \ {x}) \ {y})
        BY <1>2, <2>1, <3>2
      <4>2. Size(T \ {y}) = Bytes[x] + Size((T \ {y}) \ {x})
        BY <1>2, <2>1, <3>2
      <4>3. (T \ {x}) \ {y} = (T \ {y}) \ {x}
        OBVIOUS
      <4>4. /\ Size((T \ {x}) \ {y}) \in Nat
            /\ Bytes[x] \in Nat /\ Bytes[y] \in Nat
        <5>1. (T \ {x}) \ {y} \in SUBSET S /\ (T \ {x}) \ {y} \subseteq T
              /\ (T \ {x}) \ {y} # T
          BY <2>1
        <5>2. Good((T \ {x}) \ {y})
          BY <1>1, <5>1
        <5>3. QED
          BY <1>2, <2>1, <5>2
      <4>5. Size((T \ {x}) \ {y}) = Size((T \ {y}) \ {x})
        BY <4>3
      <4>6. QED
        BY <2>1, <4>1, <4>2, <4>4, <4>5
    <3>3. QED
      BY <3>1, <3>2
  <2>4. QED
    BY <1>1, <2>2, <2>3
<1>5. QED
  BY <1>3, <1>4


-----------------------------------------------------------------------------
(* The frames held *)

\* The frame of a sequence of one.
LEMMA ElementsOfOne == ASSUME NEW f PROVE Elements(<<f>>) = {f}
<1>1. DOMAIN <<f>> = {1} /\ <<f>>[1] = f
  OBVIOUS
<1>2. QED
  BY <1>1 DEF Elements

\* What a frame that is queued adds.
LEMMA ElementsOfAppend ==
    ASSUME NEW S, NEW ch \in Seq(S), NEW f \in S
    PROVE  Elements(Append(ch, f)) = Elements(ch) \cup {f}
<1>1. /\ Len(ch) \in Nat
      /\ DOMAIN ch = 1 .. Len(ch)
      /\ DOMAIN Append(ch, f) = 1 .. Len(ch) + 1
      /\ Append(ch, f)[Len(ch) + 1] = f
      /\ \A i \in 1 .. Len(ch) : Append(ch, f)[i] = ch[i]
  OBVIOUS
<1>2. \A i \in 1 .. Len(ch) + 1 : i \in 1 .. Len(ch) \/ i = Len(ch) + 1
  BY <1>1
<1>3. 1 .. Len(ch) \subseteq 1 .. Len(ch) + 1 /\ Len(ch) + 1 \in 1 .. Len(ch) + 1
  BY <1>1
<1>4. Elements(Append(ch, f)) \subseteq Elements(ch) \cup {f}
  BY <1>1, <1>2 DEF Elements
<1>5. Elements(ch) \cup {f} \subseteq Elements(Append(ch, f))
  BY <1>1, <1>3 DEF Elements
<1>6. QED
  BY <1>4, <1>5

\* The first frame, and those that are left when it is taken off.
LEMMA ElementsOfTail ==
    ASSUME NEW S, NEW ch \in Seq(S), ch # <<>>
    PROVE  Elements(ch) = Elements(Tail(ch)) \cup {Head(ch)}
<1>1. /\ Len(ch) \in Nat /\ Len(ch) # 0
      /\ DOMAIN ch = 1 .. Len(ch)
      /\ DOMAIN Tail(ch) = 1 .. Len(ch) - 1
      /\ \A i \in 1 .. Len(ch) - 1 : Tail(ch)[i] = ch[i + 1]
      /\ Head(ch) = ch[1]
  <2>1. Tail(ch) \in Seq(S) /\ DOMAIN Tail(ch) = 1 .. Len(Tail(ch))
    BY HeadTailProperties
  <2>2. QED
    BY <2>1, HeadTailProperties, EmptySeq
<1>2. 1 \in 1 .. Len(ch) /\ \A i \in 1 .. Len(ch) - 1 : i + 1 \in 1 .. Len(ch)
  BY <1>1
<1>3. \A i \in 1 .. Len(ch) : i = 1 \/ (i - 1 \in 1 .. Len(ch) - 1 /\ i = (i - 1) + 1)
  BY <1>1
<1>4. Elements(Tail(ch)) \cup {Head(ch)} \subseteq Elements(ch)
  BY <1>1, <1>2 DEF Elements
<1>5. Elements(ch) \subseteq Elements(Tail(ch)) \cup {Head(ch)}
  <2> SUFFICES ASSUME NEW i \in 1 .. Len(ch)
               PROVE  ch[i] \in Elements(Tail(ch)) \cup {Head(ch)}
    BY <1>1 DEF Elements
  <2>1. CASE i = 1
    BY <1>1, <2>1
  <2>2. CASE i - 1 \in 1 .. Len(ch) - 1 /\ i = (i - 1) + 1
    <3>1. Tail(ch)[i - 1] = ch[i]
      BY <1>1, <2>2
    <3>2. QED
      BY <1>1, <2>2, <3>1 DEF Elements
  <2>3. QED
    BY <1>3, <2>1, <2>2
<1>6. QED
  BY <1>4, <1>5

\* Each call is in one place: its frame is accepted once, and it waits for space once.
Once ==
    /\ \A i \in 1 .. Len(accepted) : call[accepted[i]] = "accepted"
    /\ \A i, j \in 1 .. Len(accepted) : accepted[i] = accepted[j] => i = j
    /\ \A i \in 1 .. Len(waiters) : call[waiters[i]] = "waiting"
    /\ \A i, j \in 1 .. Len(waiters) : waiters[i] = waiters[j] => i = j

\* The counter is the size of the finite set of frames held.
Counted == IsFiniteSet(Held) /\ queued_bytes = Size(Held)

BytesInv == WakeupInv /\ Once /\ Counted


\* The buffered frames are the last accepted ones.
LEMMA BufferFollows ==
    ASSUME PipelineInv, NEW i \in 1 .. Len(channel)
    PROVE  accepted[Len(written) + Len(current) + i] = channel[i]
<1> USE DEF PipelineInv, PipelineTypes
<1>1. /\ Len(written) \in Nat /\ Len(current) \in Nat /\ Len(channel) \in Nat
      /\ written \o current \in Seq(Frames)
      /\ Len(written \o current) = Len(written) + Len(current)
  BY ConcatProperties
<1>2. PICK v \in Seq(Frames) : v = written \o current
  BY <1>1
<1>3. v \o channel = accepted /\ Len(v) = Len(written) + Len(current)
  BY <1>1, <1>2 DEF Pipeline
<1>4. (v \o channel)[Len(v) + i] = channel[i]
  <2>1. /\ Len(v) \in Nat /\ Len(v) + i \in 1 .. Len(v) + Len(channel)
        /\ ~(Len(v) + i <= Len(v)) /\ Len(v) + i - Len(v) = i
    BY <1>1
  <2>2. QED
    BY <2>1, ConcatProperties
<1>5. QED
  BY <1>3, <1>4

\* Only frames are held.
LEMMA HeldFrames == ASSUME PipelineInv PROVE Held \in SUBSET Frames
BY DEF PipelineInv, PipelineTypes, Held, Elements

\* Every frame held has been accepted.
LEMMA HeldAccepted ==
    ASSUME PipelineInv
    PROVE  \A f \in Held : \E i \in 1 .. Len(accepted) : accepted[i] = f
<1> USE DEF PipelineInv, PipelineTypes
<1>1. Len(written) \in Nat /\ Len(current) \in Nat /\ Len(channel) \in Nat
      /\ Len(accepted) = Len(written) + Len(current) + Len(channel)
  BY PipelineLengths
<1>2. ASSUME NEW i \in 1 .. Len(channel)
      PROVE  accepted[Len(written) + Len(current) + i] = channel[i]
  BY <1>1, BufferFollows
<1>3. ASSUME NEW f \in Elements(channel) PROVE \E i \in 1 .. Len(accepted) : accepted[i] = f
  <2>1. PICK i \in 1 .. Len(channel) : channel[i] = f
    BY <1>3 DEF Elements
  <2>2. Len(written) + Len(current) + i \in 1 .. Len(accepted)
    BY <1>1
  <2>3. QED
    BY <1>2, <2>1, <2>2
<1>4. ASSUME run = "delivered", NEW f \in Elements(current)
      PROVE  \E i \in 1 .. Len(accepted) : accepted[i] = f
  <2>1. PICK h \in Frames : current = <<h>>
    BY <1>4 DEF LoopState
  <2>2. f = h /\ Len(current) = 1
    BY <1>4, <2>1, ElementsOfOne
  <2>3. accepted[Len(written) + 1] = f
    BY <2>1, <2>2, PipelineLengths
  <2>4. Len(written) + 1 \in 1 .. Len(accepted)
    BY <1>1, <2>2
  <2>5. QED
    BY <2>3, <2>4
<1>5. QED
  BY <1>3, <1>4 DEF Held

\* The counter in the next state.
LEMMA CountedNext ==
    ASSUME NEW S, Held' = S, IsFiniteSet(S), queued_bytes' = Size(S)
    PROVE  Counted'
<1>1. Size(Held)' = Size(Held')
  OBVIOUS
<1>2. IsFiniteSet(Held)' = IsFiniteSet(Held')
  OBVIOUS
<1>3. QED
  BY <1>1, <1>2 DEF Counted

\* Accepting a frame, which no earlier call had accepted, holds one frame more.
LEMMA AcceptCounts ==
    ASSUME BytesInv, NEW f \in Frames, AcceptFrame(f), call[f] # "accepted"
    PROVE  Counted'
<1> USE DEF BytesInv, WakeupInv, PipelineInv, PipelineTypes
<1>1. f \notin Held
  BY HeldAccepted DEF Once
<1>2. Held' = Held \cup {f}
  <2>1. CASE run = "receiving"
    <3>1. run' = "delivered" /\ current' = <<f>> /\ channel' = channel
      BY <2>1 DEF AcceptFrame, Push
    <3>2. Elements(current') = {f} /\ Elements(channel') = Elements(channel)
      BY <3>1, ElementsOfOne
    <3>3. QED
      BY <2>1, <3>1, <3>2 DEF Held, Elements
  <2>2. CASE run # "receiving"
    <3>1. channel' = Append(channel, f) /\ run' = run /\ current' = current
      BY <2>2 DEF AcceptFrame, Push
    <3>2. Elements(channel') = Elements(channel) \cup {f}
      BY <3>1, ElementsOfAppend
    <3>3. QED
      BY <3>1, <3>2 DEF Held, Elements
  <2>3. QED
    BY <2>1, <2>2
<1>3. IsFiniteSet(Held \cup {f})
  BY FS_AddElement DEF Counted
<1>4. Held \cup {f} \in SUBSET Frames
  BY HeldFrames
<1>5. (Held \cup {f}) \ {f} = Held
  BY <1>1
<1>6. Size(Held \cup {f}) = Bytes[f] + Size(Held)
  BY <1>3, <1>4, <1>5, SizeTakesAny
<1>7. queued_bytes \in Nat /\ Bytes[f] \in Nat
  BY BytesCounted, WriteQueueAssumption
<1>8. queued_bytes' = queued_bytes + Bytes[f]
  BY DEF AcceptFrame
<1>9. queued_bytes' = Size(Held \cup {f})
  BY <1>6, <1>7, <1>8 DEF Counted
<1>10. QED
  BY <1>2, <1>3, <1>9, CountedNext

\* The frame run() takes is not in the buffer, and is held no longer.
LEMMA TakeCounts ==
    ASSUME BytesInv, TakeFrame
    PROVE  Counted'
<1> USE DEF BytesInv, WakeupInv, PipelineInv, PipelineTypes
<1>1. PICK h \in Frames : current = <<h>>
  BY DEF LoopState, TakeFrame
<1>2. Head(current) = h /\ Len(current) = 1 /\ Elements(current) = {h}
  BY <1>1, ElementsOfOne
<1>3. Held = Elements(channel) \cup {h}
  BY <1>2 DEF Held, TakeFrame
<1>4. Held' = Elements(channel)
  BY DEF Held, TakeFrame, Elements
<1>5. h \notin Elements(channel)
  <2>0. DOMAIN channel = 1 .. Len(channel)
    OBVIOUS
  <2> SUFFICES ASSUME NEW i \in 1 .. Len(channel), channel[i] = h PROVE FALSE
    BY <2>0 DEF Elements
  <2>1. /\ Len(written) \in Nat /\ Len(channel) \in Nat
        /\ Len(accepted) = Len(written) + 1 + Len(channel)
        /\ accepted[Len(written) + 1] = h
    BY <1>1, <1>2, PipelineLengths
  <2>2. accepted[Len(written) + 1 + i] = h
    BY <1>2, BufferFollows
  <2>3. /\ Len(written) + 1 \in 1 .. Len(accepted)
        /\ Len(written) + 1 + i \in 1 .. Len(accepted)
        /\ Len(written) + 1 + i # Len(written) + 1
    BY <2>1
  <2>4. QED
    BY <2>1, <2>2, <2>3 DEF Once
<1>6. Held \ {h} = Elements(channel) /\ h \in Held /\ Held \in SUBSET Frames
  BY <1>3, <1>5, HeldFrames
<1>7. IsFiniteSet(Elements(channel))
  BY <1>6, FS_Subset DEF Counted
<1>8. /\ Size(Held) = Bytes[h] + Size(Elements(channel))
      /\ Size(Elements(channel)) \in Nat
  <2>1. IsFiniteSet(Held)
    BY DEF Counted
  <2>2. Elements(channel) \in SUBSET Frames
    BY <1>6
  <2>3. QED
    BY <1>6, <1>7, <2>1, <2>2, SizeTakesAny
<1>9. Bytes[h] \in Nat /\ queued_bytes' = queued_bytes - Bytes[h]
  BY <1>2, WriteQueueAssumption DEF TakeFrame
<1>10. queued_bytes' = Size(Elements(channel))
  BY <1>8, <1>9 DEF Counted
<1>11. QED
  BY <1>4, <1>7, <1>10, CountedNext

\* Asking for the next frame moves it, held, from the buffer to run().
LEMMA ReceiveHolds ==
    ASSUME PipelineInv, ReceiveNext(channel, closed), run # "delivered"
    PROVE  Held' = Held
<1> USE DEF PipelineInv, PipelineTypes
<1>1. Held = Elements(channel)
  BY DEF Held
<1>2. CASE channel # <<>>
  <2>1. channel' = Tail(channel) /\ current' = <<Head(channel)>> /\ run' = "delivered"
    BY <1>2 DEF ReceiveNext
  <2>2. Elements(current') = {Head(channel)}
    BY <2>1, ElementsOfOne
  <2>3. Elements(channel') = Elements(Tail(channel))
    BY <2>1
  <2>4. Held' = Elements(Tail(channel)) \cup {Head(channel)}
    BY <2>1, <2>2, <2>3 DEF Held, Elements
  <2>5. QED
    BY <1>1, <1>2, <2>4, ElementsOfTail
<1>3. CASE channel = <<>>
  BY <1>1, <1>3 DEF ReceiveNext, Held, Elements
<1>4. QED
  BY <1>2, <1>3

-----------------------------------------------------------------------------
(* Every call is accepted once and waits once *)

\* A frame whose call is in another state than the calls of a list of frames is not in it.
LEMMA NotListed ==
    ASSUME NEW list \in Seq(Frames), NEW state, NEW f,
           \A i \in 1 .. Len(list) : call[list[i]] = state, call[f] # state
    PROVE  \A i \in 1 .. Len(list) : list[i] \in Frames /\ list[i] # f
OBVIOUS

\* A call that has not returned and does not wait is that of a frame neither accepted nor
\* waiting.
LEMMA OtherFrames ==
    ASSUME BytesInv, NEW f, call[f] \notin {"accepted", "waiting"}
    PROVE  /\ \A i \in 1 .. Len(accepted) : accepted[i] \in Frames /\ accepted[i] # f
           /\ \A i \in 1 .. Len(waiters) : waiters[i] \in Frames /\ waiters[i] # f
<1>1. accepted \in Seq(Frames) /\ waiters \in Seq(Frames) /\ Once
  BY DEF BytesInv, WakeupInv, PipelineInv, PipelineTypes, Waiting
<1>2. /\ \A i \in 1 .. Len(accepted) : call[accepted[i]] = "accepted"
      /\ \A i \in 1 .. Len(waiters) : call[waiters[i]] = "waiting"
  BY <1>1 DEF Once
<1>3. \A i \in 1 .. Len(accepted) : accepted[i] \in Frames /\ accepted[i] # f
  BY <1>1, <1>2, NotListed
<1>4. QED
  BY <1>1, <1>2, <1>3, NotListed

\* A step of a call that leaves the accepted frames and the waiting calls alone.
LEMMA OtherCallOnce ==
    ASSUME BytesInv, NEW f \in Frames, NEW c, call[f] \notin {"accepted", "waiting"},
           call' = [call EXCEPT ![f] = c], UNCHANGED <<accepted, waiters>>
    PROVE  Once'
<1>1. /\ \A i \in 1 .. Len(accepted) : accepted[i] \in Frames /\ accepted[i] # f
      /\ \A i \in 1 .. Len(waiters) : waiters[i] \in Frames /\ waiters[i] # f
  BY OtherFrames
<1>2. call \in [Frames -> CallStates] /\ Once
  BY DEF BytesInv, WakeupInv, Waiting
<1>3. \A g \in Frames : g # f => call'[g] = call[g]
  BY <1>2
<1>4. QED
  BY <1>1, <1>2, <1>3 DEF Once

\* A frame is accepted by a call that had not returned and was not waiting.
LEMMA AcceptOnce ==
    ASSUME BytesInv, NEW f \in Frames, AcceptFrame(f), call[f] \notin {"accepted", "waiting"}
    PROVE  Once'
<1>0. /\ \A i \in 1 .. Len(accepted) : accepted[i] \in Frames /\ accepted[i] # f
      /\ \A i \in 1 .. Len(waiters) : waiters[i] \in Frames /\ waiters[i] # f
  BY OtherFrames
<1> USE DEF BytesInv, WakeupInv, PipelineInv, PipelineTypes, Waiting
<1>1. /\ accepted' = Append(accepted, f) /\ waiters' = waiters
      /\ call' = [call EXCEPT ![f] = "accepted"]
  BY DEF AcceptFrame
<1>2. call'[f] = "accepted" /\ \A g \in Frames : g # f => call'[g] = call[g]
  BY <1>1
<1>3. \A i \in 1 .. Len(waiters) : waiters[i] \in Frames /\ waiters[i] # f
  BY <1>0
<1>4. \A i \in 1 .. Len(accepted) : accepted[i] \in Frames /\ accepted[i] # f
  BY <1>0
<1>5. /\ Len(accepted) \in Nat /\ Len(accepted') = Len(accepted) + 1
      /\ accepted'[Len(accepted) + 1] = f
      /\ \A i \in 1 .. Len(accepted) : accepted'[i] = accepted[i]
  BY <1>1
<1>6. \A i \in 1 .. Len(accepted') : i \in 1 .. Len(accepted) \/ i = Len(accepted) + 1
  BY <1>5
<1>7. ASSUME NEW i \in 1 .. Len(accepted') PROVE call'[accepted'[i]] = "accepted"
  <2>1. CASE i = Len(accepted) + 1
    BY <1>2, <1>5, <2>1
  <2>2. CASE i \in 1 .. Len(accepted)
    BY <1>2, <1>4, <1>5, <2>2 DEF Once
  <2>3. QED
    BY <1>6, <2>1, <2>2
<1>8. ASSUME NEW i \in 1 .. Len(accepted'), NEW j \in 1 .. Len(accepted'),
             accepted'[i] = accepted'[j]
      PROVE  i = j
  <2>1. \A k \in 1 .. Len(accepted) : accepted'[k] = accepted[k] /\ accepted[k] # f
    BY <1>4, <1>5
  <2>2. CASE i \in 1 .. Len(accepted) /\ j \in 1 .. Len(accepted)
    BY <1>8, <2>1, <2>2 DEF Once
  <2>3. QED
    BY <1>5, <1>6, <1>8, <2>1, <2>2
<1>9. \A i \in 1 .. Len(waiters) : call'[waiters[i]] = "waiting"
  BY <1>2, <1>3 DEF Once
<1>10. QED
  BY <1>1, <1>7, <1>8, <1>9 DEF Once

\* A call that suspends was not waiting already.
LEMMA AwaitOnce ==
    ASSUME BytesInv, NEW f \in Frames, AwaitSpace(f), call[f] \notin {"accepted", "waiting"}
    PROVE  Once'
<1>0. /\ \A i \in 1 .. Len(accepted) : accepted[i] \in Frames /\ accepted[i] # f
      /\ \A i \in 1 .. Len(waiters) : waiters[i] \in Frames /\ waiters[i] # f
  BY OtherFrames
<1> USE DEF BytesInv, WakeupInv, PipelineInv, PipelineTypes, Waiting
<1>1. CASE space > 0
  <2>1. call' = [call EXCEPT ![f] = "resumed"] /\ UNCHANGED <<accepted, waiters>>
    BY <1>1 DEF AwaitSpace
  <2>2. QED
    BY <2>1, OtherCallOnce
<1>2. CASE ~(space > 0)
  <2>1. /\ waiters' = Append(waiters, f) /\ accepted' = accepted
        /\ call' = [call EXCEPT ![f] = "waiting"]
    BY <1>2 DEF AwaitSpace
  <2>2. call'[f] = "waiting" /\ \A g \in Frames : g # f => call'[g] = call[g]
    BY <2>1
  <2>3. \A i \in 1 .. Len(waiters) : waiters[i] \in Frames /\ waiters[i] # f
    BY <1>0
  <2>4. \A i \in 1 .. Len(accepted) : accepted[i] \in Frames /\ accepted[i] # f
    BY <1>0
  <2>5. /\ Len(waiters) \in Nat /\ Len(waiters') = Len(waiters) + 1
        /\ waiters'[Len(waiters) + 1] = f
        /\ \A i \in 1 .. Len(waiters) : waiters'[i] = waiters[i]
    BY <2>1
  <2>6. \A i \in 1 .. Len(waiters') : i \in 1 .. Len(waiters) \/ i = Len(waiters) + 1
    BY <2>5
  <2>7. \A i \in 1 .. Len(waiters') : call'[waiters'[i]] = "waiting"
    BY <2>2, <2>3, <2>5, <2>6 DEF Once
  <2>8. ASSUME NEW i \in 1 .. Len(waiters'), NEW j \in 1 .. Len(waiters'),
               waiters'[i] = waiters'[j]
        PROVE  i = j
    <3>1. \A k \in 1 .. Len(waiters) : waiters'[k] = waiters[k] /\ waiters[k] # f
      BY <2>3, <2>5
    <3>2. CASE i \in 1 .. Len(waiters) /\ j \in 1 .. Len(waiters)
      BY <2>8, <3>1, <3>2 DEF Once
    <3>3. QED
      BY <2>5, <2>6, <2>8, <3>1, <3>2
  <2>9. \A i \in 1 .. Len(accepted) : call'[accepted[i]] = "accepted"
    BY <2>2, <2>4 DEF Once
  <2>10. QED
    BY <2>1, <2>7, <2>8, <2>9 DEF Once
<1>3. QED
  BY <1>1, <1>2

\* The token resumes the first waiting call, which then waits no longer.
LEMMA SignalOnce ==
    ASSUME BytesInv, SignalSpace, accepted' = accepted
    PROVE  Once'
<1> USE DEF BytesInv, WakeupInv, PipelineInv, PipelineTypes, Waiting
<1>1. CASE UNCHANGED <<waiters, call>>
  BY <1>1 DEF Once
<1>2. CASE ~closed /\ waiters # <<>>
  <2>1. /\ call' = [call EXCEPT ![Head(waiters)] = "resumed"]
        /\ waiters' = Tail(waiters)
    BY <1>2 DEF SignalSpace
  <2>2. /\ Len(waiters) \in Nat /\ Len(waiters) # 0
        /\ Len(waiters') = Len(waiters) - 1
        /\ \A i \in 1 .. Len(waiters') : waiters'[i] = waiters[i + 1]
        /\ Head(waiters) = waiters[1] /\ Head(waiters) \in Frames
    BY <1>2, <2>1, HeadTailProperties, EmptySeq
  <2>3. PICK w \in Frames : w = Head(waiters)
    BY <2>2
  <2>4. 1 \in 1 .. Len(waiters) /\ call[w] = "waiting"
    BY <2>2, <2>3 DEF Once
  <2>5. \A g \in Frames : g # w => call'[g] = call[g]
    BY <2>1, <2>3
  <2>6. \A i \in 1 .. Len(accepted) : accepted[i] \in Frames /\ accepted[i] # w
    BY <2>4 DEF Once
  <2>7. \A i \in 1 .. Len(waiters') : i + 1 \in 1 .. Len(waiters) /\ i + 1 # 1
    BY <2>2
  <2>8. \A i \in 1 .. Len(waiters') : waiters'[i] \in Frames /\ waiters'[i] # w
    <3> SUFFICES ASSUME NEW i \in 1 .. Len(waiters')
                 PROVE  waiters'[i] \in Frames /\ waiters'[i] # w
      OBVIOUS
    <3>1. i + 1 \in 1 .. Len(waiters) /\ i + 1 # 1 /\ waiters'[i] = waiters[i + 1]
      BY <2>2, <2>7
    <3>2. waiters[i + 1] # waiters[1] /\ waiters[i + 1] \in Frames
      BY <2>4, <3>1 DEF Once
    <3>3. QED
      BY <2>2, <2>3, <3>1, <3>2
  <2>9. \A i \in 1 .. Len(waiters') : call'[waiters'[i]] = "waiting"
    <3> SUFFICES ASSUME NEW i \in 1 .. Len(waiters') PROVE call'[waiters'[i]] = "waiting"
      OBVIOUS
    <3>1. call'[waiters'[i]] = call[waiters'[i]]
      BY <2>5, <2>8
    <3>2. i + 1 \in 1 .. Len(waiters) /\ waiters'[i] = waiters[i + 1]
      BY <2>2, <2>7
    <3>3. call[waiters[i + 1]] = "waiting"
      BY <3>2 DEF Once
    <3>4. QED
      BY <3>1, <3>2, <3>3
  <2>10. \A i, j \in 1 .. Len(waiters') : waiters'[i] = waiters'[j] => i = j
    <3> SUFFICES ASSUME NEW i \in 1 .. Len(waiters'), NEW j \in 1 .. Len(waiters'),
                        waiters'[i] = waiters'[j]
                 PROVE  i = j
      OBVIOUS
    <3>1. waiters[i + 1] = waiters[j + 1]
      BY <2>2
    <3>2. i + 1 = j + 1
      BY <2>7, <3>1 DEF Once
    <3>3. QED
      BY <3>2
  <2>11. \A i \in 1 .. Len(accepted) : call'[accepted[i]] = "accepted"
    BY <2>5, <2>6 DEF Once
  <2>12. QED
    BY <2>9, <2>10, <2>11 DEF Once
<1>3. QED
  BY <1>1, <1>2 DEF SignalSpace

\* Closing takes the calls out of the queue for space.
LEMMA CloseOnce ==
    ASSUME BytesInv, CloseChannels, accepted' = accepted
    PROVE  Once'
<1> USE DEF BytesInv, WakeupInv, PipelineInv, PipelineTypes, Waiting
<1>1. Len(waiters') = 0
  BY DEF CloseChannels
<1>2. \A i \in 1 .. Len(accepted) : accepted[i] \in Frames
  OBVIOUS
<1>3. \A i \in 1 .. Len(accepted) : call'[accepted[i]] = "accepted"
  BY <1>2 DEF CloseChannels, Once
<1>4. QED
  BY <1>1, <1>3 DEF Once

\* A step that leaves the frames held and the counter alone.
LEMMA CountedKept ==
    ASSUME Counted, Held' = Held, queued_bytes' = queued_bytes
    PROVE  Counted'
BY CountedNext DEF Counted

\* An empty queue satisfies the invariant.
LEMMA BytesInitInv == Init => BytesInv
<1> SUFFICES ASSUME Init PROVE BytesInv
  OBVIOUS
<1>1. WakeupInv
  BY WakeupInitInv
<1>2. Held = {}
  BY DEF Init, Held, Elements
<1>3. Size({}) = 0 /\ IsFiniteSet({})
  BY FS_EmptySet, SizeTakesFirst
<1>4. Counted
  BY <1>2, <1>3 DEF Init, Counted
<1>5. Len(accepted) = 0 /\ Len(waiters) = 0
  BY DEF Init
<1>6. Once
  BY <1>5 DEF Once
<1>7. QED
  BY <1>1, <1>4, <1>6 DEF BytesInv

\* Every step preserves the invariant.
LEMMA BytesStepInv == BytesInv /\ [Next]_vars => BytesInv'
<1> SUFFICES ASSUME BytesInv, [Next]_vars PROVE Once' /\ Counted'
  BY WakeupStepInv DEF BytesInv
<1>1. PipelineInv /\ Once /\ Counted
  BY DEF BytesInv, WakeupInv
<1>2. CASE StartRun \/ WriteDone
  <2>1. ReceiveNext(channel, closed) /\ run # "delivered"
    BY <1>2 DEF StartRun, WriteDone
  <2>2. UNCHANGED <<accepted, waiters, call, queued_bytes>>
    BY <1>2 DEF StartRun, WriteDone
  <2>3. Counted'
    BY <1>1, <2>1, <2>2, ReceiveHolds, CountedKept
  <2>4. QED
    BY <1>1, <2>2, <2>3 DEF Once
<1>3. CASE TakeFrame
  BY <1>3, TakeCounts, SignalOnce DEF TakeFrame
<1>4. CASE WriteFail \/ close
  <2>1. CloseChannels /\ accepted' = accepted /\ queued_bytes' = queued_bytes
    BY <1>4 DEF WriteFail, close
  <2>2. Held' = Held
    BY <1>4 DEF WriteFail, close, Held, Elements
  <2>3. QED
    BY <1>1, <2>1, <2>2, CloseOnce, CountedKept
<1>5. CASE StopRun \/ CloseTransport \/ UNCHANGED vars
  <2>1. UNCHANGED <<accepted, waiters, call, queued_bytes>>
    BY <1>5 DEF StopRun, CloseTransport, vars
  <2>2. Held' = Held
    BY <1>5 DEF StopRun, CloseTransport, vars, Held, Elements
  <2>3. Counted'
    BY <1>1, <2>1, <2>2, CountedKept
  <2>4. QED
    BY <1>1, <2>1, <2>3 DEF Once
<1>6. ASSUME NEW f \in Frames,
             enqueue(f) \/ try_enqueue(f) \/ ResumeEnqueue(f) \/ AbortEnqueue(f)
      PROVE  Once' /\ Counted'
  <2>1. /\ call[f] \notin {"accepted", "waiting"}
        /\ AcceptFrame(f) \/ AwaitSpace(f) \/ ReturnRefused(f)
    BY <1>6 DEF enqueue, try_enqueue, ResumeEnqueue, AbortEnqueue, Attempt
  <2>2. CASE AcceptFrame(f)
    BY <2>1, <2>2, AcceptOnce, AcceptCounts
  <2>3. CASE AwaitSpace(f)
    <3>1. Held' = Held /\ queued_bytes' = queued_bytes
      BY <2>3 DEF AwaitSpace, runState, Held, Elements
    <3>2. QED
      BY <1>1, <2>1, <2>3, <3>1, AwaitOnce, CountedKept
  <2>4. CASE ReturnRefused(f)
    <3>1. Held' = Held /\ queued_bytes' = queued_bytes
      BY <2>4 DEF ReturnRefused, queueState, runState, Held, Elements
    <3>2. call' = [call EXCEPT ![f] = "refused"] /\ UNCHANGED <<accepted, waiters>>
      BY <2>4 DEF ReturnRefused, queueState
    <3>3. QED
      BY <1>1, <2>1, <3>1, <3>2, OtherCallOnce, CountedKept
  <2>5. QED
    BY <2>1, <2>2, <2>3, <2>4
<1>7. QED
  BY <1>2, <1>3, <1>4, <1>5, <1>6 DEF Next

\* The two updates of queued_bytes_, in try_enqueue_frame() and in run() after its
\* suspension, agree: the counter is at every moment the bytes of exactly the frames held,
\* within the limit.
THEOREM BytesAreThoseHeld == Spec => []QueueConsistent
<1>1. BytesInv => QueueConsistent
  <2> SUFFICES ASSUME BytesInv PROVE QueueConsistent
    OBVIOUS
  <2>1. TypeOK
    BY BytesCounted DEF BytesInv, WakeupInv, PipelineInv, PipelineTypes, Waiting, TypeOK
  <2>2. queued_bytes <= MaxBytes
    BY DEF BytesInv, WakeupInv, Accounts
  <2>3. queued_bytes = Size(Held)
    BY DEF BytesInv, Counted
  <2>4. ByteAccounting
    BY <2>2, <2>3 DEF ByteAccounting, Size
  <2>5. QED
    BY <2>1, <2>4 DEF QueueConsistent
<1>2. QED
  BY <1>1, BytesInitInv, BytesStepInv, PTL DEF Spec
=============================================================================
