------------------------------ MODULE Lifecycle ------------------------------
(***************************************************************************)
(* The two state machines every component shares:                          *)
(* include/rillnet/lifecycle.hpp and include/rillnet/operation.hpp.        *)
(***************************************************************************)

EXTENDS Naturals

ConnectionStates ==
    {"created", "connecting", "accepting", "active", "draining", "closing", "closed"}

\* can_transition(ConnectionState, ConnectionState)
ConnectionEdges ==
    ({"created"} \X {"connecting", "accepting"})
        \cup ({"connecting", "accepting"} \X {"active"})
        \cup ({"active"} \X {"draining", "closing", "closed"})
        \cup ({"draining"} \X {"closing", "closed"})
        \cup ({"closing"} \X {"closed"})

\* ConnectionLifecycle::transition: an invalid transition is refused and changes nothing.
Transition(state, to) == IF <<state, to>> \in ConnectionEdges THEN to ELSE state

\* Mutant: a connection that was never run is forgotten.
BeginShutdown_ActiveOnly(state, entry) ==
    IF state = "active" THEN Transition(state, "draining") ELSE state

\* begin_shutdown() of both endpoints; entry is "connecting" or "accepting".
BeginShutdown(state, entry) ==
    LET started == IF state = "created"
                   THEN Transition(Transition(state, entry), "active") ELSE state
    IN  IF started = "active" THEN Transition(started, "draining") ELSE started

\* Mutant: a draining connection goes on as before.
ShuttingDown_NotDraining(state) == state \in {"closing", "closed"}

\* The states in which both endpoints take no new request.
ShuttingDown(state) == state \in {"draining", "closing", "closed"}

-----------------------------------------------------------------------------
OperationStates == {"created", "active", "completed", "failed", "cancelled"}

TerminalStates == {"completed", "failed", "cancelled"}

\* can_transition(OperationState, OperationState)
OperationEdges == ({"created"} \X {"active"}) \cup ({"active"} \X TerminalStates)

\* A new Operation: no result, nothing requested, its completion handler never called.
NewOperation ==
    [state |-> "created", result |-> "none", cancellation_requested |-> FALSE, reports |-> 0]

is_terminal(op) == op.state \in TerminalStates

activate(op) ==
    IF <<op.state, "active">> \in OperationEdges THEN [op EXCEPT !.state = "active"] ELSE op

\* Whether finish() succeeds, which is what complete(), fail() and the others return.
CanFinish(op) == op.state = "active"

\* Mutant: finish() without the transition's refusal overwrites an earlier result.
finish_Overwrites(op, terminal, status) ==
    IF op.state = "created" THEN op
    ELSE [op EXCEPT !.state = terminal, !.result = status, !.reports = @ + 1]

\* finish(): the first terminal transition sets the result and calls the completion
\* handler; any later one is refused.
finish(op, terminal, status) ==
    IF <<op.state, terminal>> \in OperationEdges
    THEN [op EXCEPT !.state = terminal, !.result = status, !.reports = @ + 1]
    ELSE op

complete(op) == finish(op, "completed", "ok")

fail(op, status) == IF status = "ok" THEN op ELSE finish(op, "failed", status)

timeout(op) == finish(op, "failed", "timeout_error")

request_cancellation(op) ==
    IF is_terminal(op) THEN op ELSE [op EXCEPT !.cancellation_requested = TRUE]

cancel(op) ==
    IF is_terminal(op) THEN op ELSE finish(request_cancellation(op), "cancelled", "cancelled")
=============================================================================
