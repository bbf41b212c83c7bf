------------------------------- MODULE TcpServer -------------------------------
(***************************************************************************)
(* include/rillnet/tcp_server.hpp: the accept loop, stop(), and shutdown() *)
(* with the drain coroutines it spawns.  A step is what one completion     *)
(* handler of the io_context does; an accept that has completed and whose  *)
(* coroutine has not been resumed yet is a state of its own.               *)
(***************************************************************************)
EXTENDS Naturals, Sequences, FiniteSets

CONSTANTS
    Clients,           \* one incoming connection each
    Moved,             \* a std::function that was moved from
    Shutdowns,         \* calls of shutdown()
    MaxAcceptFailures  \* bound on transient accept failures

ASSUME ServerAssumption == Moved \notin Clients /\ MaxAcceptFailures \in Nat

VARIABLES
    stopping,            \* stopping_
    connection_handler,  \* connection_handler_ is set
    run,                 \* the coroutine run()
    socket,              \* the accepted socket run() will be resumed with, Moved if none
    failures,            \* transient failures so far
    conn,                \* what became of each connection
    shutdown_handlers,   \* connection_shutdown_handlers_, by their connection
    shutdown,            \* the calls of shutdown()
    drains,              \* the coroutines they spawned that have not ended
    invoked              \* how often the drain handler of each connection was called

acceptVars == <<connection_handler, run, socket, failures>>
shutdownVars == <<shutdown, drains, invoked>>
vars == <<stopping, acceptVars, conn, shutdown_handlers, shutdownVars>>

RunStates == {"created", "accepting", "accepted", "failed", "aborted", "ended"}

\* Not arrived, waiting in the listen queue, accepted, given to the application, reset by
\* this host.  The server does not see what becomes of a connection it gave away.
ConnStates == {"none", "backlog", "accepted", "owned", "reset"}

NotCalled == [pc |-> "none", index |-> 0, tokens |-> 0, moved |-> {}, joined |-> FALSE]

Init ==
    /\ stopping = FALSE
    /\ connection_handler = FALSE
    /\ run = "created"
    /\ socket = Moved
    /\ failures = 0
    /\ conn = [c \in Clients |-> "none"]
    /\ shutdown_handlers = <<>>
    /\ shutdown = [s \in Shutdowns |-> NotCalled]
    /\ drains = {}
    /\ invoked = [c \in Clients |-> 0]

-----------------------------------------------------------------------------
(* The accept loop *)

\* on_connection()
on_connection ==
    /\ ~connection_handler
    /\ connection_handler' = TRUE
    /\ UNCHANGED <<stopping, run, socket, failures, conn, shutdown_handlers, shutdownVars>>

\* The kernel completes a handshake while the acceptor is open.
Arrives(c) ==
    /\ ~stopping
    /\ conn[c] = "none"
    /\ conn' = [conn EXCEPT ![c] = "backlog"]
    /\ UNCHANGED <<stopping, acceptVars, shutdown_handlers, shutdownVars>>

\* The loop's condition, and the start of the next async_accept().
Loop == run' = IF stopping THEN "ended" ELSE "accepting"

RunStarts ==
    /\ run = "created"
    /\ Loop
    /\ UNCHANGED <<stopping, connection_handler, socket, failures, conn, shutdown_handlers,
                   shutdownVars>>

\* The pending accept completes with a connection.
AcceptCompletes(c) ==
    /\ run = "accepting"
    /\ conn[c] = "backlog"
    /\ run' = "accepted"
    /\ socket' = c
    /\ conn' = [conn EXCEPT ![c] = "accepted"]
    /\ UNCHANGED <<stopping, connection_handler, failures, shutdown_handlers, shutdownVars>>

\* The pending accept completes with a transient error.
AcceptFails ==
    /\ run = "accepting"
    /\ failures < MaxAcceptFailures
    /\ run' = "failed"
    /\ failures' = failures + 1
    /\ UNCHANGED <<stopping, connection_handler, socket, conn, shutdown_handlers, shutdownVars>>

\* register_connection_shutdown(), while some shutdown() calls may be waiting.
register_connection_shutdown(c) ==
    /\ shutdown_handlers' = Append(shutdown_handlers, c)
    /\ shutdown' = [s \in Shutdowns |->
        [shutdown[s] EXCEPT !.joined = @ \/ shutdown[s].pc = "receiving"]]

\* run() is resumed with a connection, stopping or not: the application's handler takes it
\* and registers its drain operation, as the README asks; without a handler the socket is
\* destroyed.
ResumeAccepted ==
    /\ run = "accepted"
    /\ IF connection_handler
       THEN /\ conn' = [conn EXCEPT ![socket] = "owned"]
            /\ register_connection_shutdown(socket)
       ELSE /\ conn' = [conn EXCEPT ![socket] = "reset"]
            /\ UNCHANGED <<shutdown_handlers, shutdown>>
    /\ socket' = Moved
    /\ Loop
    /\ UNCHANGED <<stopping, connection_handler, failures, drains, invoked>>

\* Mutant: any error ends the loop.
ResumeFailed_Breaks ==
    /\ run \in {"failed", "aborted"}
    /\ run' = "ended"
    /\ UNCHANGED <<stopping, connection_handler, socket, failures, conn, shutdown_handlers,
                   shutdownVars>>

\* run() is resumed with an error: operation_aborted ends it, a transient one does not.
ResumeFailed ==
    /\ run \in {"failed", "aborted"}
    /\ IF run = "aborted" THEN run' = "ended" ELSE Loop
    /\ UNCHANGED <<stopping, connection_handler, socket, failures, conn, shutdown_handlers,
                   shutdownVars>>

RunStep == RunStarts \/ ResumeAccepted \/ ResumeFailed \/ \E c \in Clients : AcceptCompletes(c)

-----------------------------------------------------------------------------
(* stop() and shutdown() *)

\* Mutant: the pending accept is not cancelled.
stop_LeavesAccept ==
    /\ stopping' = TRUE
    /\ run' = run
    /\ conn' = [c \in Clients |-> IF conn[c] = "backlog" THEN "reset" ELSE conn[c]]

\* stop(): the pending accept is aborted and the listen queue is reset.  An accept that has
\* completed already is not affected.
stop ==
    /\ stopping' = TRUE
    /\ run' = IF run = "accepting" THEN "aborted" ELSE run
    /\ conn' = [c \in Clients |-> IF conn[c] = "backlog" THEN "reset" ELSE conn[c]]

\* stop() by itself: called by the application or the destructor.
Stop ==
    /\ ~stopping
    /\ stop
    /\ UNCHANGED <<connection_handler, socket, failures, shutdown_handlers, shutdownVars>>

\* Mutant: the last completion is not waited for.
AfterLoop_OneShort(call) ==
    IF call.index + 1 < Len(shutdown_handlers)
    THEN [call EXCEPT !.pc = "receiving"] ELSE [call EXCEPT !.pc = "returned"]

\* The receiving loop's condition, with the vector as it is now, and what follows the loop.
AfterLoop(call) ==
    IF call.index < Len(shutdown_handlers)
    THEN [call EXCEPT !.pc = "receiving"] ELSE [call EXCEPT !.pc = "returned"]

\* connection_shutdown_handlers_.clear(), if the loop is over.
ClearIfReturned(call) ==
    shutdown_handlers' = IF call.pc = "returned" THEN <<>> ELSE shutdown_handlers

\* Mutant: the handlers are copied into the coroutines.
AfterSpawn_Copies(call) == ClearIfReturned(call)

\* The vector after shutdown() has spawned its coroutines: every handler was moved away.
AfterSpawn(call) ==
    shutdown_handlers' =
        IF call.pc = "returned" THEN <<>> ELSE [i \in DOMAIN shutdown_handlers |-> Moved]

\* shutdown() up to its first suspension: one coroutine per registered handler, even for
\* those that an earlier call has moved away.
Shutdown(s) ==
    LET call == AfterLoop(
            [NotCalled EXCEPT !.moved =
                {shutdown_handlers[i] : i \in DOMAIN shutdown_handlers} \ {Moved}])
    IN  /\ shutdown[s].pc = "none"
        /\ IF stopping THEN UNCHANGED <<stopping, run, conn>> ELSE stop
        /\ drains' = drains \cup
            {[by |-> s, index |-> i, handler |-> shutdown_handlers[i], started |-> FALSE] :
                i \in DOMAIN shutdown_handlers}
        /\ shutdown' = [shutdown EXCEPT ![s] = call]
        /\ AfterSpawn(call)
        /\ UNCHANGED <<connection_handler, socket, failures, invoked>>

\* A drain coroutine calls its handler.
DrainStarts(d) ==
    /\ ~d.started
    /\ d.handler # Moved
    /\ invoked' = [invoked EXCEPT ![d.handler] = @ + 1]
    /\ drains' = (drains \ {d}) \cup {[d EXCEPT !.started = TRUE]}
    /\ UNCHANGED <<stopping, acceptVars, conn, shutdown_handlers, shutdown>>

\* Mutant: what a handler throws skips the completion.
Completed_UnlessThrown(d) ==
    IF d.handler = Moved THEN shutdown ELSE [shutdown EXCEPT ![d.by].tokens = @ + 1]

\* async_send() on the completion channel, which has room for every coroutine.
Completed(d) == [shutdown EXCEPT ![d.by].tokens = @ + 1]

\* A drain coroutine ends, in the same way whether its handler has returned, has thrown, or
\* was not there to call (std::bad_function_call).  The connection need not be closed then.
DrainEnds(d) ==
    /\ d.started \/ d.handler = Moved
    /\ shutdown' = Completed(d)
    /\ drains' = drains \ {d}
    /\ UNCHANGED <<stopping, acceptVars, conn, shutdown_handlers, invoked>>

\* shutdown() receives a completion and looks at the vector again.
Receive(s) ==
    LET call == AfterLoop([shutdown[s] EXCEPT !.index = @ + 1, !.tokens = @ - 1])
    IN  /\ shutdown[s].pc = "receiving"
        /\ shutdown[s].tokens > 0
        /\ shutdown' = [shutdown EXCEPT ![s] = call]
        /\ ClearIfReturned(call)
        /\ UNCHANGED <<stopping, acceptVars, conn, drains, invoked>>

DrainStep == \E d \in drains : DrainStarts(d) \/ DrainEnds(d)

ServerStep ==
    \/ on_connection \/ AcceptFails \/ RunStep \/ Stop \/ DrainStep
    \/ \E s \in Shutdowns : Shutdown(s) \/ Receive(s)

\* The io_context runs what is ready, a kernel with connections to accept completes the
\* accept, and drain handlers respect their deadline.
Fairness ==
    /\ WF_vars(RunStep)
    /\ WF_vars(DrainStep)
    /\ \A s \in Shutdowns : WF_vars(Receive(s))

-----------------------------------------------------------------------------
(* Properties *)

\* Type invariant.
TypeOK ==
    /\ stopping \in BOOLEAN /\ connection_handler \in BOOLEAN
    /\ run \in RunStates
    /\ socket \in Clients \cup {Moved} /\ (socket # Moved <=> run = "accepted")
    /\ failures \in 0 .. MaxAcceptFailures
    /\ conn \in [Clients -> ConnStates]
    /\ shutdown_handlers \in Seq(Clients \cup {Moved})
    /\ \A d \in drains : d.by \in Shutdowns /\ d.handler \in Clients \cup {Moved}
    /\ invoked \in [Clients -> Nat]

\* No connection is drained twice, however often shutdown() is called and whether or not
\* the calls overlap.
DrainedOnce == \A c \in Clients : invoked[c] <= 1

\* The registered handlers and the coroutines they were moved to are consistent.
DrainsConsistent == TypeOK /\ DrainedOnce

\* The drain handler of c was called, and the coroutine that called it has ended.
Drained(c) == invoked[c] = 1 /\ \A d \in drains : d.handler # c

\* A shutdown() that no other one interferes with returns only when every drain handler it
\* took over has been called and has returned or thrown.
ShutdownWaits ==
    \A s \in Shutdowns :
        (shutdown[s].pc = "returned" /\ \A t \in Shutdowns \ {s} : shutdown[t].pc = "none")
        => \A c \in shutdown[s].moved : Drained(c)

\* A connection in the listen queue is handed over or reset, in spite of transient failures.
EstablishedSettles ==
    \A c \in Clients : conn[c] = "backlog" ~> conn[c] \notin {"backlog", "accepted"}

\* After stop(), run() returns.
RunReturns == stopping ~> run = "ended"

\* shutdown() returns once the drain handlers have, whether they return or throw, unless a
\* connection was registered meanwhile.
ShutdownReturnsUnlessJoined ==
    \A s \in Shutdowns :
        shutdown[s].pc = "receiving" ~> shutdown[s].pc = "returned" \/ shutdown[s].joined

\* tcp_server.hpp:89 "Stops accepting connections and drains registered connections until
\* the shared deadline": shutdown() returns.
ShutdownReturns ==
    \A s \in Shutdowns : shutdown[s].pc = "receiving" ~> shutdown[s].pc = "returned"
=============================================================================
