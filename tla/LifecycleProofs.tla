---------------------------- MODULE LifecycleProofs ----------------------------
(***************************************************************************)
(* What the operations of lifecycle.hpp and operation.hpp return, for use  *)
(* in the proofs about the two endpoints.                                  *)
(***************************************************************************)
EXTENDS Lifecycle, Protocol, TLAPS

\* The operations: a state, the status they ended with, whether the handler was told to
\* stop, and how often the completion handler was called.
OperationRecords ==
    [state : OperationStates, result : StatusCodes \cup {"none"},
     cancellation_requested : BOOLEAN, reports : Nat]

\* A new operation is an operation, and activating it makes it active.
LEMMA NewOperationActivates ==
    /\ NewOperation \in OperationRecords
    /\ activate(NewOperation) \in OperationRecords
    /\ activate(NewOperation).state = "active"
BY DEF NewOperation, activate, OperationRecords, OperationStates, OperationEdges, StatusCodes

\* finish() in one line: an active operation takes the state and the result, any other one
\* is left alone.
LEMMA FinishEffect ==
    ASSUME NEW op \in OperationRecords, NEW terminal \in TerminalStates, NEW status \in StatusCodes
    PROVE  /\ finish(op, terminal, status) \in OperationRecords
           /\ op.state # "active" => finish(op, terminal, status) = op
           /\ op.state = "active" =>
                 /\ finish(op, terminal, status).state = terminal
                 /\ finish(op, terminal, status).result = status
                 /\ finish(op, terminal, status).reports = op.reports + 1
                 /\ finish(op, terminal, status).cancellation_requested
                        = op.cancellation_requested
<1>1. <<op.state, terminal>> \in OperationEdges <=> op.state = "active"
    BY DEF OperationEdges, TerminalStates
<1>2. terminal \in OperationStates
    BY DEF OperationStates, TerminalStates
<1> DEFINE n == op.reports + 1
           r == [op EXCEPT !.state = terminal, !.result = status, !.reports = n]
<1>3. n \in Nat
    BY DEF OperationRecords
<1> HIDE DEF n
<1>4. r \in OperationRecords
    BY <1>2, <1>3 DEF OperationRecords
<1>5. /\ r.state = terminal
      /\ r.result = status
      /\ r.reports = n
      /\ r.cancellation_requested = op.cancellation_requested
    BY DEF OperationRecords
<1>6. finish(op, terminal, status) = IF op.state = "active" THEN r ELSE op
    BY <1>1 DEF finish, n
<1> HIDE DEF r
<1>7. QED
    BY <1>4, <1>5, <1>6 DEF n

\* complete(), fail(), timeout(), request_cancellation() and cancel() return operations.
LEMMA OperationsTyped ==
    ASSUME NEW op \in OperationRecords, NEW status \in StatusCodes
    PROVE  /\ complete(op) \in OperationRecords
           /\ fail(op, status) \in OperationRecords
           /\ timeout(op) \in OperationRecords
           /\ request_cancellation(op) \in OperationRecords
           /\ cancel(op) \in OperationRecords
<1>1. request_cancellation(op) \in OperationRecords
    BY DEF request_cancellation, OperationRecords
<1>2. QED
    BY <1>1, FinishEffect DEF complete, fail, timeout, cancel, TerminalStates, StatusCodes, WireStatuses

\* The first terminal state of an operation is its last: whatever is called afterwards
\* changes neither the state nor the result, and reports nothing.
LEMMA TerminalIsFinal ==
    ASSUME NEW op \in OperationRecords, is_terminal(op), NEW status \in StatusCodes
    PROVE  /\ complete(op) = op
           /\ fail(op, status) = op
           /\ timeout(op) = op
           /\ request_cancellation(op) = op
           /\ cancel(op) = op
<1>1. op.state # "active"
    BY DEF is_terminal, TerminalStates
<1>2. {"ok", "timeout_error"} \subseteq StatusCodes
    BY DEF StatusCodes, WireStatuses
<1>3. {"completed", "failed"} \subseteq TerminalStates
    BY DEF TerminalStates
<1>4. QED
    BY <1>1, <1>2, <1>3, FinishEffect DEF complete, fail, timeout, request_cancellation, cancel

\* An active operation can be completed, failed, timed out or cancelled; only the last,
\* and a failure after a request to cancel, tell its handler.
LEMMA ActiveFinishes ==
    ASSUME NEW op \in OperationRecords, op.state = "active", NEW status \in StatusCodes \ {"ok"}
    PROVE  /\ complete(op).state = "completed"
           /\ fail(op, status).state = "failed"
           /\ timeout(op).state = "failed"
           /\ cancel(op).state = "cancelled" /\ cancel(op).cancellation_requested
           /\ fail(request_cancellation(op), status).state = "failed"
           /\ fail(request_cancellation(op), status).cancellation_requested
<1>1. /\ request_cancellation(op) \in OperationRecords
      /\ request_cancellation(op).state = "active"
      /\ request_cancellation(op).cancellation_requested
    BY DEF request_cancellation, is_terminal, TerminalStates, OperationRecords
<1>2. ~is_terminal(op)
    BY DEF is_terminal, TerminalStates
<1>3. {"ok", "timeout_error", "cancelled"} \subseteq StatusCodes
    BY DEF StatusCodes, WireStatuses
<1>4. {"completed", "failed", "cancelled"} = TerminalStates
    BY DEF TerminalStates
<1>5. \A p \in OperationRecords, terminal \in TerminalStates, s \in StatusCodes :
          p.state = "active" =>
              /\ finish(p, terminal, s).state = terminal
              /\ finish(p, terminal, s).cancellation_requested = p.cancellation_requested
    BY FinishEffect
<1>6. QED
    BY <1>1, <1>2, <1>3, <1>4, <1>5 DEF complete, fail, timeout, cancel

\* The result of an operation that finishes is the status it is finished with.
LEMMA ResultsRecorded ==
    ASSUME NEW op \in OperationRecords, op.state = "active", NEW status \in StatusCodes \ {"ok"}
    PROVE  /\ fail(op, status).result = status
           /\ timeout(op).result = "timeout_error"
           /\ cancel(op).result = "cancelled"
<1>1. /\ request_cancellation(op) \in OperationRecords
      /\ request_cancellation(op).state = "active"
    BY DEF request_cancellation, is_terminal, TerminalStates, OperationRecords
<1>2. ~is_terminal(op)
    BY DEF is_terminal, TerminalStates
<1>3. {"timeout_error", "cancelled"} \subseteq StatusCodes
    BY DEF StatusCodes, WireStatuses
<1>4. {"failed", "cancelled"} \subseteq TerminalStates
    BY DEF TerminalStates
<1>5. \A p \in OperationRecords, terminal \in TerminalStates, s \in StatusCodes :
          p.state = "active" => finish(p, terminal, s).result = s
    BY FinishEffect
<1>6. QED
    BY <1>1, <1>2, <1>3, <1>4, <1>5 DEF fail, timeout, cancel

\* begin_shutdown() leaves every connection that can be met on the way shutting down.
LEMMA BeginShutdownShutsDown ==
    ASSUME NEW state \in ConnectionStates \ {"connecting", "accepting"},
           NEW entry \in {"connecting", "accepting"}
    PROVE  ShuttingDown(BeginShutdown(state, entry))
BY DEF ConnectionStates, BeginShutdown, ShuttingDown, Transition, ConnectionEdges

\* A connection that shuts down never becomes anything else, and closes when it is told to.
LEMMA ShuttingDownStays ==
    ASSUME NEW state, ShuttingDown(state), NEW entry \in {"connecting", "accepting"}
    PROVE  /\ Transition(state, "closed") = "closed"
           /\ BeginShutdown(state, entry) = state
           /\ state # "created"
BY DEF BeginShutdown, ShuttingDown, Transition, ConnectionEdges
=============================================================================
