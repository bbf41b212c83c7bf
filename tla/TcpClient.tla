------------------------------- MODULE TcpClient -------------------------------
(***************************************************************************)
(* include/rillnet/tcp_client.hpp: connect(), which races the connection   *)
(* attempt against a timer with Boost.Asio's operator||: the group waits   *)
(* for the first success, cancels the other operation and waits for it.    *)
(***************************************************************************)
EXTENDS Naturals, Sequences

CONSTANT Clients  \* calls of connect()

VARIABLE connect  \* each call: where it is, the operations completed in order, its result

\* Every call begins by waiting for async_resolve().
Init == connect = [c \in Clients |-> [pc |-> "resolving", done |-> <<>>, status |-> "none"]]

Operations == {"attempt", "timer"}

Completion(op, ok) == [op |-> op, ok |-> ok]

Pending(c, op) ==
    connect[c].pc = "racing" /\ \A i \in DOMAIN connect[c].done : connect[c].done[i].op # op

\* An operation of the race completes.
Complete(c, op, ok) ==
    /\ Pending(c, op)
    /\ connect' = [connect EXCEPT ![c].done = Append(@, Completion(op, ok))]

\* connect() returns; what is kept of the race is the completion that decided it.
Return(c, decisive, status) ==
    connect' = [connect EXCEPT ![c] = [pc |-> "returned", done |-> decisive, status |-> status]]

-----------------------------------------------------------------------------
\* async_resolve() throws: classify_connect_error() of what a resolver reports.
ResolveFails(c) == connect[c].pc = "resolving" /\ Return(c, <<>>, "transport_error")

\* The attempt and the timer are started.
Resolved(c) ==
    /\ connect[c].pc = "resolving"
    /\ connect' = [connect EXCEPT ![c].pc = "racing"]

AttemptEnds(c, ok) == Complete(c, "attempt", ok)

TimerFires(c) == Complete(c, "timer", TRUE)

\* Mutant: only the timer is ever cancelled.
Cancels_TimerOnly(c) ==
    /\ \E i \in DOMAIN connect[c].done : connect[c].done[i].ok
    /\ Complete(c, "timer", FALSE)

\* operator||: after a success the other operation is cancelled.  A failure only waits.
Cancels(c) ==
    /\ \E i \in DOMAIN connect[c].done : connect[c].done[i].ok
    /\ \E op \in Operations : Complete(c, op, FALSE)

\* Mutant: the group's first completion counts, success or not.
Outcome_First(done) == done[1]

\* The alternative operator|| returns: the first operation that succeeded.
Outcome(done) == IF done[1].ok THEN done[1] ELSE done[2]

\* connect() is resumed: on a timeout the socket is closed, even one that got connected.
Resume(c) ==
    LET outcome == Outcome(connect[c].done)
    IN  /\ connect[c].pc = "racing"
        /\ Len(connect[c].done) = 2
        /\ Return(c, <<outcome>>, IF outcome.op = "timer" THEN "connection_timed_out" ELSE "ok")

\* The steps that need no peer.
RaceStep(c) == TimerFires(c) \/ Cancels(c) \/ Resume(c)
LocalStep(c) == ResolveFails(c) \/ Resolved(c) \/ RaceStep(c)

-----------------------------------------------------------------------------
(* Properties *)

Succeeded(c, op) == \E i \in DOMAIN connect[c].done : connect[c].done[i] = Completion(op, TRUE)

\* connect() reports success only for a connected socket and a timeout only when the timer
\* expired, whichever of the two came first, came together or was cancelled.
HonestResult ==
    \A c \in Clients :
        /\ connect[c].status = "ok" => Succeeded(c, "attempt")
        /\ connect[c].status = "connection_timed_out" => Succeeded(c, "timer")

\* A call of connect() that has resolved its host returns: a peer that never answers, or
\* refuses, is bounded by the timer.
ConnectReturns ==
    \A c \in Clients : connect[c].pc = "racing" ~> connect[c].pc = "returned"
=============================================================================
