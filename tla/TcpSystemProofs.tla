---------------------------- MODULE TcpSystemProofs ----------------------------
(***************************************************************************)
(* TcpServer drains every connection at most once and a shutdown() waits   *)
(* for its drains, and TcpClient::connect() reports what happened, for any *)
(* number of connections, callers and calls of shutdown().                 *)
(***************************************************************************)
EXTENDS TcpSystem, FiniteSetTheorems, SequenceTheorems, TLAPS

-----------------------------------------------------------------------------
(* The inductive invariant of the server *)

Calls ==
    [pc : {"none", "receiving", "returned"}, index : Nat, tokens : Nat, moved : SUBSET Clients,
     joined : BOOLEAN]

Drains ==
    [by : Shutdowns, index : Nat, handler : Clients \cup {Moved}, started : BOOLEAN]

\* TypeOK, and the types of the calls of shutdown() and of their coroutines.
Typed ==
    /\ TypeOK
    /\ shutdown \in [Shutdowns -> Calls]
    /\ drains \subseteq Drains
    /\ IsFiniteSet(drains)

\* The drain handler of a connection waits in connection_shutdown_handlers_ or in a coroutine.
Stored(c) == \E i \in DOMAIN shutdown_handlers : shutdown_handlers[i] = c
Draining(c) == \E d \in drains : d.handler = c

\* A handler is in at most one place, and was called at most once, by the coroutine that
\* has it.
OnePlace ==
    \A c \in Clients :
        /\ \A i, j \in DOMAIN shutdown_handlers :
               shutdown_handlers[i] = c /\ shutdown_handlers[j] = c => i = j
        /\ \A d, e \in drains : d.handler = c /\ e.handler = c => d = e
        /\ Stored(c) => ~Draining(c) /\ invoked[c] = 0
        /\ \A d \in drains : d.handler = c => invoked[c] = IF d.started THEN 1 ELSE 0
        /\ invoked[c] <= 1

\* Only a connection that was handed over has a drain handler, and the connection run()
\* will be resumed with has not been handed over.
HandedOver ==
    /\ \A c \in Clients :
           Stored(c) \/ Draining(c) \/ invoked[c] # 0 => conn[c] = "owned"
    /\ socket # Moved => conn[socket] = "accepted"

\* A coroutine belongs to a call of shutdown(), and a handler a call has taken over was
\* called or is in a coroutine.
DrainsOfCalls ==
    /\ \A d \in drains : shutdown[d.by].pc # "none"
    /\ \A s \in Shutdowns : \A c \in shutdown[s].moved : invoked[c] = 1 \/ Draining(c)

\* s is the only call of shutdown() so far.
Alone(s) == \A t \in Shutdowns \ {s} : shutdown[t].pc = "none"

\* Completions received, waiting and outstanding never exceed what the loop waits for.
Accounted ==
    \A s \in Shutdowns :
        shutdown[s].pc = "receiving" /\ Alone(s) =>
            shutdown[s].index + shutdown[s].tokens + Cardinality(drains) <= Len(shutdown_handlers)

ServerInv == Typed /\ OnePlace /\ HandedOver /\ DrainsOfCalls /\ Accounted /\ ShutdownWaits

-----------------------------------------------------------------------------
(* The inductive invariant of the clients *)

Completions == [op : {"attempt", "timer"}, ok : BOOLEAN]

ConnectCalls ==
    [pc : {"resolving", "racing", "returned"}, done : Seq(Completions),
     status : {"none", "ok", "connection_timed_out", "transport_error"}]

\* While connect() waits for the race each operation completes once, only the attempt can
\* fail first, and one of the two succeeds; then the result is that of the first success.
Race(call) ==
    /\ call.pc = "resolving" => call.done = <<>> /\ call.status = "none"
    /\ call.pc = "racing" =>
           /\ call.status = "none"
           /\ Len(call.done) <= 2
           /\ Len(call.done) >= 1 => call.done[1].ok \/ call.done[1].op = "attempt"
           /\ Len(call.done) = 2 =>
                  /\ call.done[1].op # call.done[2].op
                  /\ call.done[1].ok \/ call.done[2].ok
    /\ call.pc = "returned" =>
           \/ call.status = "transport_error"
           \/ /\ Len(call.done) = 1
              /\ call.done[1].ok
              /\ call.status = IF call.done[1].op = "timer" THEN "connection_timed_out" ELSE "ok"

ClientInv ==
    /\ connect \in [Callers -> ConnectCalls]
    /\ \A c \in Callers : Race(connect[c])

-----------------------------------------------------------------------------
(* connect() *)

\* What the clients do, seen from one call.
CallStep(c) ==
    \/ client!LocalStep(c)
    \/ \E ok \in BOOLEAN : client!AttemptEnds(c, ok)

\* A completion joins a race that has not had it yet.
LEMMA CompletionJoins ==
    ASSUME NEW call \in ConnectCalls, Race(call), call.pc = "racing",
           NEW op \in {"attempt", "timer"}, NEW ok \in BOOLEAN,
           \A i \in DOMAIN call.done : call.done[i].op # op,
           op = "attempt" \/ ok \/ \E i \in DOMAIN call.done : call.done[i].ok,
           NEW next, next = [call EXCEPT !.done = Append(@, [op |-> op, ok |-> ok])]
    PROVE  next \in ConnectCalls /\ Race(next)
<1> DEFINE e == [op |-> op, ok |-> ok]
           done == call.done
           more == Append(done, e)
<1>1. e \in Completions /\ e.op = op /\ e.ok = ok
    BY DEF Completions
<1>2. done \in Seq(Completions) /\ Len(done) \in Nat /\ Len(done) <= 2
    BY DEF ConnectCalls, Race
<1>3. next.done = more /\ next.pc = "racing" /\ next.status = "none"
    BY DEF ConnectCalls, Race
<1> HIDE DEF e
<1>4. /\ more \in Seq(Completions)
      /\ Len(more) = Len(done) + 1
      /\ more[Len(done) + 1] = e
      /\ \A i \in 1 .. Len(done) : more[i] = done[i]
    BY <1>1, <1>2
<1>5. \A i \in 1 .. Len(done) : done[i] \in Completions /\ done[i].op # op
    BY <1>2
<1>6. next \in ConnectCalls
    BY <1>4 DEF ConnectCalls, e
<1>7. Len(done) # 2
    <2>1. Len(done) = 2 => done[1].op \in {"attempt", "timer"} /\ done[2].op \in {"attempt", "timer"}
                         /\ done[1].op # done[2].op
        BY <1>5 DEF Completions, Race
    <2>2. QED
        BY <1>5, <2>1
<1> HIDE DEF more
<1>8. CASE Len(done) = 0
    <2>1. more[1] = e /\ Len(more) = 1
        BY <1>4, <1>8
    <2>2. e.ok \/ e.op = "attempt"
        BY <1>1, <1>2, <1>8
    <2>3. Race(next)
        <3> USE <1>3
        <3>1. Len(next.done) = 1 /\ (next.done[1].ok \/ next.done[1].op = "attempt")
            BY <2>1, <2>2
        <3>2. QED
            BY <3>1 DEF Race
    <2>4. QED
        BY <1>6, <2>3
<1>9. CASE Len(done) = 1
    <2>1. /\ more[1] = done[1] /\ more[2] = e /\ Len(more) = 2
          /\ done[1] \in Completions /\ done[1].op # op
        BY <1>2, <1>4, <1>5, <1>9
    <2>2. done[1].ok \/ done[1].op = "attempt"
        BY <1>9 DEF Race
    <2>3. done[1].ok \/ ok
        <3>1. DOMAIN done = {1}
            BY <1>2, <1>9
        <3>2. op = "attempt" \/ ok \/ done[1].ok
            BY <3>1
        <3>3. QED
            BY <2>1, <2>2, <3>2
    <2>4. Race(next)
        <3> USE <1>3
        <3>1. /\ Len(next.done) = 2
              /\ next.done[1].ok \/ next.done[1].op = "attempt"
              /\ next.done[1].ok \/ next.done[2].ok
              /\ next.done[1].op # next.done[2].op
            BY <1>1, <2>1, <2>2, <2>3
        <3>2. QED
            BY <3>1 DEF Race
    <2>5. QED
        BY <1>6, <2>4
<1>10. Len(done) = 0 \/ Len(done) = 1
    <2>1. \A n \in Nat : n <= 2 /\ n # 2 => n = 0 \/ n = 1
        OBVIOUS
    <2>2. QED
        BY <1>2, <1>7, <2>1
<1>11. QED
    BY <1>8, <1>9, <1>10

\* A step of one call keeps the race in order.
LEMMA CallStepInv ==
    ASSUME ClientInv, NEW c \in Callers, CallStep(c)
    PROVE  ClientInv'
<1> DEFINE call == connect[c]
<1>0. connect \in [Callers -> ConnectCalls] /\ call \in ConnectCalls /\ Race(call)
    BY DEF ClientInv
<1>1. ASSUME NEW next \in ConnectCalls, Race(next), connect' = [connect EXCEPT ![c] = next]
      PROVE  ClientInv'
    BY <1>0, <1>1 DEF ClientInv
<1>2. ASSUME NEW op \in {"attempt", "timer"}, NEW ok \in BOOLEAN, client!Complete(c, op, ok),
             op = "attempt" \/ ok \/ \E i \in DOMAIN call.done : call.done[i].ok
      PROVE  ClientInv'
    <2> DEFINE next == [call EXCEPT !.done = Append(@, [op |-> op, ok |-> ok])]
    <2>1. call.pc = "racing" /\ \A i \in DOMAIN call.done : call.done[i].op # op
        BY <1>2 DEF client!Complete, client!Pending
    <2>2. connect' = [connect EXCEPT ![c] = next]
        BY <1>2 DEF client!Complete, client!Completion
    <2>3. next \in ConnectCalls /\ Race(next)
        BY <1>0, <1>2, <2>1, CompletionJoins
    <2> HIDE DEF next
    <2>4. QED
        BY <1>1, <2>2, <2>3
<1>3. CASE client!ResolveFails(c)
    <2> DEFINE next == [pc |-> "returned", done |-> <<>>, status |-> "transport_error"]
    <2>1. next \in ConnectCalls /\ Race(next)
        BY DEF ConnectCalls, Race
    <2>2. connect' = [connect EXCEPT ![c] = next]
        BY <1>3 DEF client!ResolveFails, client!Return
    <2>3. QED
        BY <1>1, <2>1, <2>2
<1>4. CASE client!Resolved(c)
    <2> DEFINE next == [call EXCEPT !.pc = "racing"]
    <2>1. call.pc = "resolving" /\ connect' = [connect EXCEPT ![c] = next]
        BY <1>4 DEF client!Resolved
    <2>2. call.done = <<>> /\ call.status = "none"
        BY <1>0, <2>1 DEF Race
    <2>3. next \in ConnectCalls /\ next.pc = "racing" /\ next.done = <<>> /\ next.status = "none"
        BY <1>0, <2>2 DEF ConnectCalls
    <2> HIDE DEF next
    <2>4. Race(next)
        BY <2>3 DEF Race
    <2>5. QED
        BY <1>1, <2>1, <2>3, <2>4
<1>5. CASE client!TimerFires(c)
    BY <1>2, <1>5 DEF client!TimerFires
<1>6. CASE client!Cancels(c)
    BY <1>2, <1>6 DEF client!Cancels, client!Operations
<1>7. CASE client!Resume(c)
    <2> DEFINE done == call.done
               outcome == client!Outcome(done)
               next == [pc |-> "returned", done |-> <<outcome>>,
                        status |-> IF outcome.op = "timer" THEN "connection_timed_out" ELSE "ok"]
    <2>1. connect' = [connect EXCEPT ![c] = next] /\ call.pc = "racing" /\ Len(done) = 2
        BY <1>7 DEF client!Resume, client!Return
    <2>2. done[1] \in Completions /\ done[2] \in Completions /\ (done[1].ok \/ done[2].ok)
        BY <1>0, <2>1 DEF ConnectCalls, Race
    <2>3. outcome \in Completions /\ outcome.ok
        BY <2>2 DEF client!Outcome
    <2> HIDE DEF outcome
    <2>4. next \in ConnectCalls
        BY <2>3 DEF ConnectCalls
    <2>5. Race(next)
        BY <2>3 DEF Race
    <2>6. QED
        BY <1>1, <2>1, <2>4, <2>5
<1>8. ASSUME NEW ok \in BOOLEAN, client!AttemptEnds(c, ok) PROVE ClientInv'
    BY <1>2, <1>8 DEF client!AttemptEnds
<1>9. QED
    BY <1>3, <1>4, <1>5, <1>6, <1>7, <1>8 DEF CallStep, client!LocalStep, client!RaceStep

\* connect() reports success only for a connected socket, and a timeout only when the
\* timer expired, for any number of callers.
THEOREM ConnectIsHonest == SystemSpec => []HonestResult
<1>1. SystemInit => ClientInv
    <2> SUFFICES ASSUME SystemInit PROVE ClientInv
        OBVIOUS
    <2> DEFINE call == [pc |-> "resolving", done |-> <<>>, status |-> "none"]
    <2>1. call \in ConnectCalls /\ Race(call)
        BY DEF ConnectCalls, Race
    <2>2. connect = [c \in Callers |-> call]
        BY DEF SystemInit, client!Init
    <2> HIDE DEF call
    <2>3. QED
        BY <2>1, <2>2 DEF ClientInv
<1>2. ClientInv /\ [SystemNext]_systemVars => ClientInv'
    <2> SUFFICES ASSUME ClientInv, [SystemNext]_systemVars PROVE ClientInv'
        OBVIOUS
    <2>1. CASE UNCHANGED connect
        BY <2>1 DEF ClientInv
    <2>2. ASSUME NEW c \in Callers, AttemptEnds(c) PROVE ClientInv'
        <3>1. (conn[c] # "none") \in BOOLEAN
            OBVIOUS
        <3>2. CallStep(c)
            BY <2>2, <3>1 DEF AttemptEnds, CallStep
        <3>3. QED
            BY <3>2, CallStepInv
    <2>3. ASSUME NEW c \in Callers, ClientLocal(c) PROVE ClientInv'
        BY <2>3, CallStepInv DEF ClientLocal, CallStep
    <2>4. QED
        BY <2>1, <2>2, <2>3 DEF SystemNext, HandshakeAtServer, systemVars
<1>3. ClientInv => HonestResult
    <2> SUFFICES ASSUME ClientInv, NEW c \in Callers,
                        connect[c].status \in {"ok", "connection_timed_out"}
                 PROVE  /\ connect[c].status = "ok" => client!Succeeded(c, "attempt")
                        /\ connect[c].status = "connection_timed_out" =>
                               client!Succeeded(c, "timer")
        BY DEF HonestResult, client!HonestResult
    <2> DEFINE call == connect[c]
               e == call.done[1]
    <2>1. call \in ConnectCalls /\ Race(call)
        BY DEF ClientInv
    <2>2. /\ Len(call.done) = 1 /\ e.ok
          /\ call.status = IF e.op = "timer" THEN "connection_timed_out" ELSE "ok"
        BY <2>1 DEF Race, ConnectCalls
    <2>3. e \in Completions /\ 1 \in DOMAIN call.done
        BY <2>1, <2>2 DEF ConnectCalls
    <2>4. e.ok = TRUE /\ e = [op |-> e.op, ok |-> e.ok]
        BY <2>2, <2>3 DEF Completions
    <2>5. e = client!Completion(e.op, TRUE)
        BY <2>4 DEF client!Completion
    <2>6. e.op \in {"attempt", "timer"}
        BY <2>3 DEF Completions
    <2>7. client!Succeeded(c, e.op)
        BY <2>3, <2>5 DEF client!Succeeded
    <2> HIDE DEF e
    <2>8. QED
        BY <2>2, <2>6, <2>7
<1>4. QED
    BY <1>1, <1>2, <1>3, PTL DEF SystemSpec

-----------------------------------------------------------------------------
(* The accept loop *)

\* The steps of the server and of the kernel.
ServerMoves == ServerStep \/ \E c \in Clients : Arrives(c)

\* The accept loop and stop() leave the connections that were handed over alone.
AcceptQuietly ==
    /\ UNCHANGED <<shutdown_handlers, shutdown, drains, invoked>>
    /\ TypeOK'
    /\ \A c \in Clients : conn[c] = "owned" => conn'[c] = "owned"
    /\ socket' # Moved => conn'[socket'] = "accepted"

\* Such a step keeps everything that is said of drain handlers and of shutdown().
LEMMA QuietStepInv ==
    ASSUME ServerInv, AcceptQuietly
    PROVE  ServerInv'
<1> USE DEF ServerInv, AcceptQuietly
<1>1. Typed' /\ OnePlace'
    BY DEF Typed, OnePlace, Stored, Draining
<1>2. HandedOver'
    BY DEF HandedOver, Stored, Draining
<1>3. DrainsOfCalls'
    <2>1. ASSUME NEW s \in Shutdowns, NEW c \in shutdown[s].moved
          PROVE  invoked'[c] = 1 \/ Draining(c)'
        <3>1. c \in Clients /\ (invoked[c] = 1 \/ Draining(c))
            BY DEF DrainsOfCalls, Typed, Calls
        <3>2. QED
            BY <3>1 DEF Draining
    <2>2. QED
        BY <2>1 DEF DrainsOfCalls
<1>4. Accounted'
    BY DEF Accounted, Alone
<1>5. ShutdownWaits'
    BY DEF ShutdownWaits, Drained
<1>6. QED
    BY <1>1, <1>2, <1>3, <1>4, <1>5

\* stop() aborts the pending accept and resets what waits in the listen queue.
LEMMA StopMoves ==
    ASSUME ServerInv, stop
    PROVE  /\ stopping' = TRUE
           /\ run' \in RunStates /\ (run' = "accepted" <=> run = "accepted")
           /\ conn' \in [Clients -> ConnStates]
           /\ \A c \in Clients : conn[c] # "backlog" => conn'[c] = conn[c]
BY DEF ServerInv, Typed, TypeOK, stop, RunStates, ConnStates

\* The steps of the accept loop that hand no connection over, and stop().
LEMMA AcceptLoopQuiet ==
    ASSUME ServerInv,
           \/ UNCHANGED vars \/ on_connection \/ AcceptFails \/ RunStarts \/ ResumeFailed \/ Stop
           \/ \E c \in Clients : Arrives(c) \/ AcceptCompletes(c)
           \/ ResumeAccepted /\ ~connection_handler
    PROVE  AcceptQuietly
<1> USE ServerAssumption DEF ServerInv
<1>0. TypeOK /\ (socket # Moved => conn[socket] = "accepted")
    BY DEF Typed, HandedOver
<1>1. CASE UNCHANGED vars
    BY <1>0, <1>1 DEF TypeOK, AcceptQuietly, vars, acceptVars, shutdownVars
<1>2. CASE on_connection
    BY <1>0, <1>2 DEF TypeOK, AcceptQuietly, on_connection, shutdownVars
<1>3. CASE AcceptFails
    BY <1>0, <1>3 DEF TypeOK, AcceptQuietly, AcceptFails, shutdownVars, RunStates
<1>4. CASE RunStarts
    BY <1>0, <1>4 DEF TypeOK, AcceptQuietly, RunStarts, Loop, shutdownVars, RunStates
<1>5. CASE ResumeFailed
    BY <1>0, <1>5 DEF TypeOK, AcceptQuietly, ResumeFailed, Loop, shutdownVars, RunStates
<1>6. CASE Stop
    <2>1. UNCHANGED <<connection_handler, socket, failures, shutdown_handlers, shutdownVars>>
        BY <1>6 DEF Stop
    <2>2. TypeOK'
        BY <1>0, <1>6, <2>1, StopMoves DEF TypeOK, Stop, shutdownVars
    <2>3. socket # Moved => socket \in Clients
        BY <1>0 DEF TypeOK
    <2>4. QED
        BY <1>0, <1>6, <2>1, <2>2, <2>3, StopMoves DEF AcceptQuietly, Stop, shutdownVars
<1>7. ASSUME NEW c \in Clients, Arrives(c) PROVE AcceptQuietly
    <2>1. /\ conn[c] = "none" /\ conn' = [conn EXCEPT ![c] = "backlog"]
          /\ conn \in [Clients -> ConnStates]
          /\ UNCHANGED <<stopping, acceptVars, shutdown_handlers, shutdownVars>>
        BY <1>0, <1>7 DEF Arrives, TypeOK
    <2>2. conn' \in [Clients -> ConnStates] /\ \A d \in Clients : d # c => conn'[d] = conn[d]
        BY <2>1 DEF ConnStates
    <2>3. QED
        BY <1>0, <2>1, <2>2 DEF TypeOK, AcceptQuietly, acceptVars, shutdownVars
<1>8. ASSUME NEW c \in Clients, AcceptCompletes(c) PROVE AcceptQuietly
    <2>1. /\ conn[c] = "backlog" /\ conn' = [conn EXCEPT ![c] = "accepted"]
          /\ conn \in [Clients -> ConnStates]
          /\ run' = "accepted" /\ socket' = c
          /\ UNCHANGED <<stopping, connection_handler, failures, shutdown_handlers, shutdownVars>>
        BY <1>0, <1>8 DEF AcceptCompletes, TypeOK
    <2>2. /\ conn' \in [Clients -> ConnStates]
          /\ \A d \in Clients : d # c => conn'[d] = conn[d]
          /\ conn'[c] = "accepted"
        BY <2>1 DEF ConnStates
    <2>3. QED
        BY <1>0, <2>1, <2>2 DEF TypeOK, AcceptQuietly, shutdownVars, RunStates
<1>9. CASE ResumeAccepted /\ ~connection_handler
    <2>1. /\ socket \in Clients /\ conn[socket] = "accepted"
          /\ conn' = [conn EXCEPT ![socket] = "reset"]
          /\ conn \in [Clients -> ConnStates]
          /\ run' \in {"accepting", "ended"} /\ socket' = Moved
          /\ UNCHANGED <<stopping, connection_handler, failures, shutdown_handlers, shutdown, drains,
                         invoked>>
        BY <1>0, <1>9 DEF ResumeAccepted, Loop, TypeOK
    <2>2. /\ conn' \in [Clients -> ConnStates]
          /\ \A d \in Clients : d # socket => conn'[d] = conn[d]
        BY <2>1 DEF ConnStates
    <2>3. QED
        BY <1>0, <2>1, <2>2 DEF TypeOK, AcceptQuietly, RunStates
<1>10. QED
    BY <1>1, <1>2, <1>3, <1>4, <1>5, <1>6, <1>7, <1>8, <1>9

\* run() hands a connection over: its drain handler is new, and calls of shutdown() that
\* wait now wait for one more completion.
LEMMA HandOverInv ==
    ASSUME ServerInv, ResumeAccepted, connection_handler
    PROVE  ServerInv'
<1> USE ServerAssumption DEF ServerInv
<1> DEFINE c == socket
<1>1. /\ c \in Clients /\ conn[c] = "accepted" /\ c # Moved
      /\ conn' = [conn EXCEPT ![c] = "owned"]
      /\ shutdown_handlers' = Append(shutdown_handlers, c)
      /\ shutdown' = [s \in Shutdowns |->
             [shutdown[s] EXCEPT !.joined = @ \/ shutdown[s].pc = "receiving"]]
      /\ run' \in {"accepting", "ended"} /\ socket' = Moved
      /\ UNCHANGED <<stopping, connection_handler, failures, drains, invoked>>
    BY DEF ResumeAccepted, Loop, register_connection_shutdown, Typed, TypeOK, HandedOver
<1>2. TypeOK
    BY DEF Typed
<1>3. /\ conn' \in [Clients -> ConnStates]
      /\ conn'[c] = "owned"
      /\ \A d \in Clients : d # c => conn'[d] = conn[d]
    BY <1>1, <1>2 DEF TypeOK, ConnStates
<1> HIDE DEF c
<1>4. /\ shutdown_handlers \in Seq(Clients \cup {Moved})
      /\ shutdown_handlers' \in Seq(Clients \cup {Moved})
      /\ Len(shutdown_handlers') = Len(shutdown_handlers) + 1
      /\ Len(shutdown_handlers) \in Nat
      /\ DOMAIN shutdown_handlers = 1 .. Len(shutdown_handlers)
      /\ DOMAIN shutdown_handlers' = 1 .. Len(shutdown_handlers) + 1
      /\ \A i \in 1 .. Len(shutdown_handlers) : shutdown_handlers'[i] = shutdown_handlers[i]
      /\ shutdown_handlers'[Len(shutdown_handlers) + 1] = c
    BY <1>1, <1>2 DEF TypeOK
<1>5. \A s \in Shutdowns :
          /\ shutdown'[s] \in Calls
          /\ shutdown'[s].pc = shutdown[s].pc
          /\ shutdown'[s].index = shutdown[s].index
          /\ shutdown'[s].tokens = shutdown[s].tokens
          /\ shutdown'[s].moved = shutdown[s].moved
    <2> SUFFICES ASSUME NEW s \in Shutdowns
                 PROVE  /\ shutdown'[s] \in Calls
                        /\ shutdown'[s].pc = shutdown[s].pc
                        /\ shutdown'[s].index = shutdown[s].index
                        /\ shutdown'[s].tokens = shutdown[s].tokens
                        /\ shutdown'[s].moved = shutdown[s].moved
        OBVIOUS
    <2>1. PICK joined \in BOOLEAN : shutdown'[s] = [shutdown[s] EXCEPT !.joined = joined]
        BY <1>1 DEF Typed, Calls
    <2>2. shutdown[s] \in Calls
        BY DEF Typed
    <2>3. QED
        BY <2>1, <2>2 DEF Calls
<1>6. TypeOK'
    BY <1>1, <1>2, <1>3, <1>4 DEF TypeOK, RunStates
<1>7. Typed'
    <2>1. shutdown' \in [Shutdowns -> Calls]
        BY <1>1, <1>5
    <2>2. QED
        BY <1>1, <1>6, <2>1 DEF Typed
<1>8. ~Stored(c) /\ ~Draining(c) /\ invoked[c] = 0
    BY <1>1 DEF HandedOver
<1>9. \A d \in Clients : (Stored(d)' <=> Stored(d) \/ d = c) /\ (Draining(d)' <=> Draining(d))
    BY <1>1, <1>4 DEF Stored, Draining
<1>10. OnePlace'
    <2> SUFFICES ASSUME NEW d \in Clients
                 PROVE  /\ \A i, j \in DOMAIN shutdown_handlers' :
                               shutdown_handlers'[i] = d /\ shutdown_handlers'[j] = d => i = j
                        /\ \A x, y \in drains : x.handler = d /\ y.handler = d => x = y
                        /\ Stored(d)' => ~Draining(d)' /\ invoked[d] = 0
                        /\ \A x \in drains :
                               x.handler = d => invoked[d] = IF x.started THEN 1 ELSE 0
                        /\ invoked[d] <= 1
        BY <1>1 DEF OnePlace
    <2>1. /\ \A i, j \in DOMAIN shutdown_handlers :
                 shutdown_handlers[i] = d /\ shutdown_handlers[j] = d => i = j
          /\ \A x, y \in drains : x.handler = d /\ y.handler = d => x = y
          /\ Stored(d) => ~Draining(d) /\ invoked[d] = 0
          /\ \A x \in drains : x.handler = d => invoked[d] = IF x.started THEN 1 ELSE 0
          /\ invoked[d] <= 1
        BY DEF OnePlace
    <2>2. ASSUME NEW i \in DOMAIN shutdown_handlers', NEW j \in DOMAIN shutdown_handlers',
                 shutdown_handlers'[i] = d, shutdown_handlers'[j] = d
          PROVE  i = j
        <3>1. CASE d = c
            <4>1. \A k \in 1 .. Len(shutdown_handlers) : shutdown_handlers'[k] # c
                BY <1>4, <1>8 DEF Stored
            <4>2. QED
                BY <1>4, <2>2, <3>1, <4>1
        <3>2. CASE d # c
            BY <1>4, <2>1, <2>2, <3>2
        <3>3. QED
            BY <3>1, <3>2
    <2>3. QED
        BY <1>8, <1>9, <2>1, <2>2
<1>11. HandedOver'
    BY <1>1, <1>3, <1>9 DEF HandedOver
<1>12. DrainsOfCalls'
    <2>1. ASSUME NEW s \in Shutdowns, NEW d \in shutdown'[s].moved
          PROVE  invoked'[d] = 1 \/ Draining(d)'
        <3>1. d \in Clients /\ (invoked[d] = 1 \/ Draining(d))
            BY <1>5 DEF DrainsOfCalls, Typed, Calls
        <3>2. QED
            BY <1>1, <1>3, <1>9, <3>1
    <2>2. \A d \in drains : d.by \in Shutdowns
        BY <1>2 DEF TypeOK
    <2>3. QED
        <3>1. \A d \in drains' : shutdown'[d.by].pc # "none"
            BY <1>1, <1>5, <2>2 DEF DrainsOfCalls
        <3>2. QED
            BY <2>1, <3>1 DEF DrainsOfCalls
<1>13. Accounted'
    <2>1. ASSUME NEW s \in Shutdowns, shutdown'[s].pc = "receiving", Alone(s)'
          PROVE  shutdown'[s].index + shutdown'[s].tokens + Cardinality(drains)
                     <= Len(shutdown_handlers')
        <3>1. shutdown[s].index + shutdown[s].tokens + Cardinality(drains) <= Len(shutdown_handlers)
            BY <1>5, <2>1 DEF Accounted, Alone
        <3>2. shutdown[s].index \in Nat /\ shutdown[s].tokens \in Nat /\ Cardinality(drains) \in Nat
            BY FS_CardinalityType DEF Typed, Calls
        <3>3. QED
            BY <1>4, <1>5, <3>1, <3>2
    <2>2. QED
        BY <1>1, <2>1 DEF Accounted
<1>14. ShutdownWaits'
    <2>1. ASSUME NEW s \in Shutdowns, shutdown'[s].pc = "returned",
                 \A t \in Shutdowns \ {s} : shutdown'[t].pc = "none", NEW d \in shutdown'[s].moved
          PROVE  Drained(d)'
        <3>1. Drained(d)
            BY <1>5, <2>1 DEF ShutdownWaits
        <3>2. QED
            BY <1>1, <3>1 DEF Drained
    <2>2. QED
        BY <2>1 DEF ShutdownWaits
<1>15. QED
    BY <1>7, <1>10, <1>11, <1>12, <1>13, <1>14

-----------------------------------------------------------------------------
(* shutdown() *)

\* The coroutines a call of shutdown() spawns.
Spawned(s) ==
    {[by |-> s, index |-> i, handler |-> shutdown_handlers[i], started |-> FALSE] :
        i \in DOMAIN shutdown_handlers}

\* One coroutine per entry of the vector, at most.
LEMMA SpawnedCount ==
    ASSUME ServerInv, NEW s \in Shutdowns
    PROVE  /\ Spawned(s) \subseteq Drains
           /\ IsFiniteSet(Spawned(s))
           /\ Cardinality(Spawned(s)) <= Len(shutdown_handlers)
           /\ Len(shutdown_handlers) \in Nat
<1> DEFINE n == Len(shutdown_handlers)
           D(i) == [by |-> s, index |-> i, handler |-> shutdown_handlers[i], started |-> FALSE]
           f == [i \in 1 .. n |-> D(i)]
<1>1. shutdown_handlers \in Seq(Clients \cup {Moved})
    BY DEF ServerInv, Typed, TypeOK
<1>2. n \in Nat /\ DOMAIN shutdown_handlers = 1 .. n
    BY <1>1
<1>3. Spawned(s) = {D(i) : i \in 1 .. n}
    BY <1>2 DEF Spawned
<1>4. Spawned(s) \subseteq Drains
    <2>1. \A i \in 1 .. n : i \in Nat /\ shutdown_handlers[i] \in Clients \cup {Moved}
        BY <1>1
    <2>2. \A i \in 1 .. n : D(i) \in Drains
        BY <2>1 DEF Drains
    <2>3. QED
        BY <1>3, <2>2
<1> HIDE DEF n, D
<1>5. IsFiniteSet(1 .. n) /\ Cardinality(1 .. n) = n
    <2>1. n \in Nat
        BY <1>2
    <2>2. 1 \in Int /\ n \in Int /\ (IF 1 > n THEN 0 ELSE n - 1 + 1) = n
        BY <2>1
    <2>3. QED
        BY <2>2, FS_Interval
<1>6. f \in Surjection(1 .. n, Spawned(s))
    BY <1>3 DEF Surjection
<1>7. IsFiniteSet(Spawned(s)) /\ Cardinality(Spawned(s)) <= Cardinality(1 .. n)
    BY <1>5, <1>6, FS_Surjection
<1>8. QED
    BY <1>2, <1>4, <1>5, <1>7 DEF n

\* The first part of shutdown(), with the choice of how its loop begins resolved.
LEMMA ShutdownEffect ==
    ASSUME ServerInv, NEW s \in Shutdowns, Shutdown(s)
    PROVE  /\ shutdown[s].pc = "none"
           /\ drains' = drains \cup Spawned(s)
           /\ shutdown_handlers' \in Seq({Moved})
           /\ Len(shutdown_handlers') = Len(shutdown_handlers)
           /\ shutdown' \in [Shutdowns -> Calls]
           /\ \A t \in Shutdowns \ {s} : shutdown'[t] = shutdown[t]
           /\ shutdown'[s].index = 0 /\ shutdown'[s].tokens = 0
           /\ shutdown'[s].moved = {c \in Clients : Stored(c)}
           /\ shutdown'[s].pc = IF Len(shutdown_handlers) = 0 THEN "returned" ELSE "receiving"
<1> USE ServerAssumption DEF ServerInv
<1> DEFINE M == {shutdown_handlers[i] : i \in DOMAIN shutdown_handlers} \ {Moved}
           first == [NotCalled EXCEPT !.moved = M]
           call == AfterLoop(first)
<1>1. /\ shutdown_handlers \in Seq(Clients \cup {Moved})
      /\ Len(shutdown_handlers) \in Nat
      /\ DOMAIN shutdown_handlers = 1 .. Len(shutdown_handlers)
      /\ shutdown \in [Shutdowns -> Calls]
    BY DEF Typed, TypeOK
<1>2. M = {c \in Clients : Stored(c)}
    <2>1. \A i \in DOMAIN shutdown_handlers : shutdown_handlers[i] \in Clients \cup {Moved}
        BY <1>1
    <2>2. QED
        BY <2>1 DEF Stored
<1>3. /\ first.pc = "none" /\ first.index = 0 /\ first.tokens = 0 /\ first.moved = M
      /\ first.joined = FALSE /\ first \in Calls
    <2>1. NotCalled \in Calls
        BY DEF NotCalled, Calls
    <2>2. M \subseteq Clients
        BY <1>2
    <2> HIDE DEF M
    <2>3. QED
        BY <2>1, <2>2 DEF NotCalled, Calls
<1>4. /\ shutdown[s].pc = "none"
      /\ drains' = drains \cup Spawned(s)
      /\ shutdown' = [shutdown EXCEPT ![s] = call]
      /\ AfterSpawn(call)
    BY DEF Shutdown, Spawned
<1> HIDE DEF M, first
<1>5. /\ call \in Calls
      /\ call.index = 0 /\ call.tokens = 0 /\ call.moved = M
      /\ call.pc = IF Len(shutdown_handlers) = 0 THEN "returned" ELSE "receiving"
    <2>1. CASE first.index < Len(shutdown_handlers)
        <3>1. call = [first EXCEPT !.pc = "receiving"] /\ Len(shutdown_handlers) # 0
            BY <1>1, <1>3, <2>1 DEF AfterLoop
        <3>2. QED
            BY <1>3, <3>1 DEF Calls
    <2>2. CASE ~(first.index < Len(shutdown_handlers))
        <3>1. call = [first EXCEPT !.pc = "returned"] /\ Len(shutdown_handlers) = 0
            BY <1>1, <1>3, <2>2 DEF AfterLoop
        <3>2. QED
            BY <1>3, <3>1 DEF Calls
    <2>3. QED
        BY <2>1, <2>2
<1> HIDE DEF call
<1>6. shutdown_handlers' \in Seq({Moved}) /\ Len(shutdown_handlers') = Len(shutdown_handlers)
    <2>1. CASE Len(shutdown_handlers) = 0
        BY <1>4, <1>5, <2>1 DEF AfterSpawn
    <2>2. CASE Len(shutdown_handlers) # 0
        <3>1. shutdown_handlers' = [i \in 1 .. Len(shutdown_handlers) |-> Moved]
            BY <1>1, <1>4, <1>5, <2>2 DEF AfterSpawn
        <3>2. QED
            BY <1>1, <3>1
    <2>3. QED
        BY <2>1, <2>2
<1>7. /\ shutdown' \in [Shutdowns -> Calls]
      /\ shutdown'[s] = call
      /\ \A t \in Shutdowns \ {s} : shutdown'[t] = shutdown[t]
    BY <1>1, <1>4, <1>5
<1>8. QED
    BY <1>2, <1>4, <1>5, <1>6, <1>7

\* shutdown() moves every stored handler into a coroutine of its own.
LEMMA ShutdownInv ==
    ASSUME ServerInv, NEW s \in Shutdowns, Shutdown(s)
    PROVE  ServerInv'
<1> USE ServerAssumption DEF ServerInv
<1>1. /\ shutdown[s].pc = "none"
      /\ drains' = drains \cup Spawned(s)
      /\ shutdown_handlers' \in Seq({Moved})
      /\ Len(shutdown_handlers') = Len(shutdown_handlers)
      /\ shutdown' \in [Shutdowns -> Calls]
      /\ \A t \in Shutdowns \ {s} : shutdown'[t] = shutdown[t]
      /\ shutdown'[s].index = 0 /\ shutdown'[s].tokens = 0
      /\ shutdown'[s].moved = {c \in Clients : Stored(c)}
      /\ shutdown'[s].pc = IF Len(shutdown_handlers) = 0 THEN "returned" ELSE "receiving"
    BY ShutdownEffect
<1>2. /\ TypeOK
      /\ UNCHANGED <<connection_handler, socket, failures, invoked>>
      /\ (UNCHANGED <<stopping, run, conn>>) \/ stop
    BY DEF Shutdown, Typed
<1>3. /\ stopping' \in BOOLEAN
      /\ run' \in RunStates /\ (run' = "accepted" <=> run = "accepted")
      /\ conn' \in [Clients -> ConnStates]
      /\ \A c \in Clients : conn[c] # "backlog" => conn'[c] = conn[c]
    BY <1>2, StopMoves DEF TypeOK
<1>4. /\ Spawned(s) \subseteq Drains /\ IsFiniteSet(Spawned(s))
      /\ Cardinality(Spawned(s)) <= Len(shutdown_handlers)
      /\ Len(shutdown_handlers) \in Nat
    BY SpawnedCount
<1>5. \A c \in Clients : ~Stored(c)'
    <2>1. \A i \in DOMAIN shutdown_handlers' : shutdown_handlers'[i] = Moved
        BY <1>1
    <2>2. QED
        BY <2>1 DEF Stored
<1>6. \A d \in Spawned(s) :
          /\ d.by = s /\ ~d.started
          /\ d.index \in DOMAIN shutdown_handlers /\ d.handler = shutdown_handlers[d.index]
          /\ d = [by |-> s, index |-> d.index, handler |-> shutdown_handlers[d.index],
                  started |-> FALSE]
    BY DEF Spawned
<1>7. \A c \in Clients : Draining(c)' <=> Draining(c) \/ Stored(c)
    <2>1. ASSUME NEW c \in Clients, Draining(c)' PROVE Draining(c) \/ Stored(c)
        BY <1>1, <1>6, <2>1 DEF Draining, Stored
    <2>2. ASSUME NEW c \in Clients, Draining(c) PROVE Draining(c)'
        BY <1>1, <2>2 DEF Draining
    <2>3. ASSUME NEW c \in Clients, Stored(c) PROVE Draining(c)'
        <3>1. PICK i \in DOMAIN shutdown_handlers : shutdown_handlers[i] = c
            BY <2>3 DEF Stored
        <3>2. [by |-> s, index |-> i, handler |-> shutdown_handlers[i], started |-> FALSE]
                  \in drains'
            BY <1>1 DEF Spawned
        <3>3. QED
            BY <3>1, <3>2 DEF Draining
    <2>4. QED
        BY <2>1, <2>2, <2>3
<1>8. Typed'
    <2>1. drains' \subseteq Drains
        BY <1>1, <1>4 DEF Typed
    <2>2. IsFiniteSet(drains')
        BY <1>1, <1>4, FS_Union DEF Typed
    <2>3. shutdown_handlers' \in Seq(Clients \cup {Moved})
        BY <1>1
    <2>4. \A d \in drains' : d.by \in Shutdowns /\ d.handler \in Clients \cup {Moved}
        BY <2>1 DEF Drains
    <2>5. TypeOK'
        BY <1>2, <1>3, <2>3, <2>4 DEF TypeOK
    <2>6. QED
        BY <1>1, <2>1, <2>2, <2>5 DEF Typed
<1>9. OnePlace'
    <2> SUFFICES ASSUME NEW c \in Clients
                 PROVE  /\ \A d, e \in drains' : d.handler = c /\ e.handler = c => d = e
                        /\ \A d \in drains' :
                               d.handler = c => invoked[c] = IF d.started THEN 1 ELSE 0
                        /\ invoked[c] <= 1
        BY <1>2, <1>5 DEF OnePlace, Stored
    <2>1. /\ \A i, j \in DOMAIN shutdown_handlers :
                 shutdown_handlers[i] = c /\ shutdown_handlers[j] = c => i = j
          /\ \A d, e \in drains : d.handler = c /\ e.handler = c => d = e
          /\ Stored(c) => ~Draining(c) /\ invoked[c] = 0
          /\ \A d \in drains : d.handler = c => invoked[c] = IF d.started THEN 1 ELSE 0
          /\ invoked[c] <= 1
        BY DEF OnePlace
    <2>2. ASSUME NEW d \in Spawned(s), d.handler = c PROVE Stored(c) /\ invoked[c] = 0
        BY <1>6, <2>1, <2>2 DEF Stored
    <2>3. ASSUME NEW d \in drains, d.handler = c PROVE Draining(c)
        BY <2>3 DEF Draining
    <2>4. ASSUME NEW d \in Spawned(s), NEW e \in Spawned(s), d.handler = c, e.handler = c
          PROVE  d = e
        <3>1. d.index = e.index
            BY <1>6, <2>1, <2>4
        <3>2. QED
            BY <1>6, <3>1
    <2>5. ASSUME NEW d \in drains', NEW e \in drains', d.handler = c, e.handler = c
          PROVE  d = e
        BY <1>1, <2>1, <2>2, <2>3, <2>4, <2>5
    <2>6. ASSUME NEW d \in drains', d.handler = c
          PROVE  invoked[c] = IF d.started THEN 1 ELSE 0
        BY <1>1, <1>6, <2>1, <2>2, <2>6
    <2>7. QED
        BY <2>1, <2>5, <2>6
<1>10. HandedOver'
    <2>1. socket # Moved => socket \in Clients
        BY <1>2 DEF TypeOK
    <2>2. QED
        BY <1>2, <1>3, <1>5, <1>7, <2>1 DEF HandedOver
<1>11. DrainsOfCalls'
    <2>1. ASSUME NEW d \in drains' PROVE shutdown'[d.by].pc # "none"
        <3>1. CASE d \in Spawned(s)
            BY <1>1, <1>6, <3>1
        <3>2. CASE d \in drains
            BY <1>1, <1>2, <3>2 DEF DrainsOfCalls, TypeOK
        <3>3. QED
            BY <1>1, <3>1, <3>2
    <2>2. ASSUME NEW t \in Shutdowns, NEW c \in shutdown'[t].moved
          PROVE  invoked'[c] = 1 \/ Draining(c)'
        <3>1. CASE t = s
            BY <1>1, <1>7, <2>2, <3>1
        <3>2. CASE t # s
            <4>1. c \in Clients /\ (invoked[c] = 1 \/ Draining(c))
                BY <1>1, <2>2, <3>2 DEF DrainsOfCalls, Typed, Calls
            <4>2. QED
                BY <1>2, <1>7, <4>1
        <3>3. QED
            BY <3>1, <3>2
    <2>3. QED
        BY <2>1, <2>2 DEF DrainsOfCalls
<1>12. shutdown'[s].pc # "none"
    BY <1>1
<1>13. Accounted'
    <2>1. ASSUME NEW t \in Shutdowns, shutdown'[t].pc = "receiving", Alone(t)'
          PROVE  shutdown'[t].index + shutdown'[t].tokens + Cardinality(drains')
                     <= Len(shutdown_handlers')
        <3>1. t = s
            BY <1>12, <2>1 DEF Alone
        <3>2. \A u \in Shutdowns : shutdown[u].pc = "none"
            BY <1>1, <2>1, <3>1 DEF Alone
        <3>3. drains = {}
            BY <1>2, <3>2 DEF DrainsOfCalls, TypeOK
        <3>4. Cardinality(drains') <= Len(shutdown_handlers')
            BY <1>1, <1>4, <3>3
        <3>5. Cardinality(drains') \in Nat
            BY <1>8, FS_CardinalityType DEF Typed
        <3>6. QED
            BY <1>1, <3>1, <3>4, <3>5
    <2>2. QED
        BY <2>1 DEF Accounted
<1>14. ShutdownWaits'
    <2>1. ASSUME NEW t \in Shutdowns, shutdown'[t].pc = "returned",
                 \A u \in Shutdowns \ {t} : shutdown'[u].pc = "none", NEW c \in shutdown'[t].moved
          PROVE  FALSE
        <3>1. t = s
            BY <1>12, <2>1
        <3>2. Len(shutdown_handlers) = 0 /\ Stored(c)
            BY <1>1, <2>1, <3>1
        <3>3. shutdown_handlers \in Seq(Clients \cup {Moved})
            BY <1>2 DEF TypeOK
        <3>4. QED
            BY <3>2, <3>3 DEF Stored
    <2>2. QED
        BY <2>1 DEF ShutdownWaits
<1>15. QED
    BY <1>8, <1>9, <1>10, <1>11, <1>13, <1>14

\* A coroutine calls its handler, which nobody has called before.
LEMMA DrainStartsInv ==
    ASSUME ServerInv, NEW d \in drains, DrainStarts(d)
    PROVE  ServerInv'
<1> USE ServerAssumption DEF ServerInv
<1> DEFINE c == d.handler
           e == [d EXCEPT !.started = TRUE]
<1>1. /\ ~d.started /\ c # Moved
      /\ invoked' = [invoked EXCEPT ![c] = @ + 1]
      /\ drains' = (drains \ {d}) \cup {e}
      /\ UNCHANGED <<stopping, connection_handler, run, socket, failures, conn, shutdown_handlers,
                     shutdown>>
    BY DEF DrainStarts, acceptVars
<1>2. d \in Drains /\ c \in Clients /\ TypeOK
    BY <1>1 DEF Typed, Drains
<1>3. e \in Drains /\ e.by = d.by /\ e.handler = c /\ e.started = TRUE
    BY <1>2 DEF Drains
<1> HIDE DEF c, e
<1>4. /\ invoked[c] = 0 /\ invoked' \in [Clients -> Nat] /\ invoked'[c] = 1
      /\ \A b \in Clients \ {c} : invoked'[b] = invoked[b]
    <2>1. invoked[c] = 0
        BY <1>1, <1>2 DEF OnePlace, c
    <2>2. QED
        BY <1>1, <1>2, <2>1 DEF TypeOK
<1>5. \A b \in Clients : (Draining(b)' <=> Draining(b)) /\ (Stored(b)' <=> Stored(b))
    <2>1. \A b \in Clients : Draining(b)' <=> Draining(b)
        BY <1>1, <1>3 DEF Draining, c
    <2>2. QED
        BY <1>1, <2>1 DEF Stored
<1>6. IsFiniteSet(drains') /\ Cardinality(drains') <= Cardinality(drains)
    <2>1. IsFiniteSet(drains \ {d}) /\ Cardinality(drains \ {d}) = Cardinality(drains) - 1
        BY FS_RemoveElement DEF Typed
    <2>2. /\ IsFiniteSet((drains \ {d}) \cup {e})
          /\ Cardinality((drains \ {d}) \cup {e}) \in
                 {Cardinality(drains \ {d}), Cardinality(drains \ {d}) + 1}
        BY <2>1, FS_AddElement
    <2>3. Cardinality(drains) \in Nat
        BY FS_CardinalityType DEF Typed
    <2>4. QED
        BY <1>1, <2>1, <2>2, <2>3
<1>7. Typed'
    <2>1. drains' \subseteq Drains
        BY <1>1, <1>3 DEF Typed
    <2>2. \A b \in drains' : b.by \in Shutdowns /\ b.handler \in Clients \cup {Moved}
        BY <2>1 DEF Drains
    <2>3. TypeOK'
        BY <1>1, <1>2, <1>4, <2>2 DEF TypeOK
    <2>4. QED
        BY <1>1, <1>6, <2>1, <2>3 DEF Typed
<1>8. OnePlace'
    <2> SUFFICES ASSUME NEW b \in Clients
                 PROVE  /\ \A i, j \in DOMAIN shutdown_handlers :
                               shutdown_handlers[i] = b /\ shutdown_handlers[j] = b => i = j
                        /\ \A x, y \in drains' : x.handler = b /\ y.handler = b => x = y
                        /\ Stored(b)' => ~Draining(b)' /\ invoked'[b] = 0
                        /\ \A x \in drains' :
                               x.handler = b => invoked'[b] = IF x.started THEN 1 ELSE 0
                        /\ invoked'[b] <= 1
        BY <1>1 DEF OnePlace
    <2>1. /\ \A i, j \in DOMAIN shutdown_handlers :
                 shutdown_handlers[i] = b /\ shutdown_handlers[j] = b => i = j
          /\ \A x, y \in drains : x.handler = b /\ y.handler = b => x = y
          /\ Stored(b) => ~Draining(b) /\ invoked[b] = 0
          /\ \A x \in drains : x.handler = b => invoked[b] = IF x.started THEN 1 ELSE 0
          /\ invoked[b] <= 1
        BY DEF OnePlace
    <2>2. Draining(c)
        BY DEF Draining, c
    <2>3. \A x \in drains' : x.handler = c => x = e
        BY <1>1, <1>2, <2>1 DEF OnePlace, c
    <2>4. CASE b = c
        BY <1>3, <1>4, <1>5, <2>1, <2>2, <2>3, <2>4
    <2>5. CASE b # c
        BY <1>1, <1>3, <1>4, <1>5, <2>1, <2>5
    <2>6. QED
        BY <2>4, <2>5
<1>9. HandedOver'
    <2>1. Draining(c)
        BY DEF Draining, c
    <2>2. QED
        BY <1>1, <1>2, <1>4, <1>5, <2>1 DEF HandedOver
<1>10. DrainsOfCalls'
    <2>1. \A x \in drains' : shutdown'[x.by].pc # "none"
        BY <1>1, <1>3 DEF DrainsOfCalls
    <2>2. ASSUME NEW s \in Shutdowns, NEW b \in shutdown'[s].moved
          PROVE  invoked'[b] = 1 \/ Draining(b)'
        <3>1. b \in Clients /\ (invoked[b] = 1 \/ Draining(b))
            BY <1>1, <2>2 DEF DrainsOfCalls, Typed, Calls
        <3>2. QED
            BY <1>4, <1>5, <3>1
    <2>3. QED
        BY <2>1, <2>2 DEF DrainsOfCalls
<1>11. Accounted'
    <2>1. ASSUME NEW s \in Shutdowns, shutdown[s].pc = "receiving", Alone(s)
          PROVE  shutdown[s].index + shutdown[s].tokens + Cardinality(drains')
                     <= Len(shutdown_handlers)
        <3>1. shutdown[s].index + shutdown[s].tokens + Cardinality(drains) <= Len(shutdown_handlers)
            BY <2>1 DEF Accounted
        <3>2. /\ shutdown[s].index \in Nat /\ shutdown[s].tokens \in Nat
              /\ Cardinality(drains) \in Nat /\ Cardinality(drains') \in Nat
              /\ Len(shutdown_handlers) \in Nat
            BY <1>2, <1>6, FS_CardinalityType DEF Typed, TypeOK, Calls
        <3>3. QED
            BY <1>6, <3>1, <3>2
    <2>2. QED
        BY <1>1, <2>1 DEF Accounted, Alone
<1>12. ShutdownWaits'
    <2>1. ASSUME NEW s \in Shutdowns, shutdown'[s].pc = "returned",
                 \A t \in Shutdowns \ {s} : shutdown'[t].pc = "none", NEW b \in shutdown'[s].moved
          PROVE  Drained(b)'
        <3>1. b \in Clients /\ Drained(b)
            BY <1>1, <2>1 DEF ShutdownWaits, Typed, Calls
        <3>2. b # c
            BY <3>1 DEF Drained, c
        <3>3. QED
            BY <1>1, <1>3, <1>4, <3>1, <3>2 DEF Drained
    <2>2. QED
        BY <2>1 DEF ShutdownWaits
<1>13. QED
    BY <1>7, <1>8, <1>9, <1>10, <1>11, <1>12

\* A coroutine ends: its handler has been called, and its call of shutdown() is told.
LEMMA DrainEndsInv ==
    ASSUME ServerInv, NEW d \in drains, DrainEnds(d)
    PROVE  ServerInv'
<1> USE ServerAssumption DEF ServerInv
<1> DEFINE s == d.by
           n == shutdown[s].tokens + 1
           call == [shutdown[s] EXCEPT !.tokens = n]
<1>1. /\ d.started \/ d.handler = Moved
      /\ shutdown' = [shutdown EXCEPT ![s] = call]
      /\ drains' = drains \ {d}
      /\ UNCHANGED <<stopping, connection_handler, run, socket, failures, conn, shutdown_handlers,
                     invoked>>
    BY DEF DrainEnds, Completed, acceptVars
<1>2. d \in Drains /\ s \in Shutdowns /\ d.handler \in Clients \cup {Moved} /\ TypeOK
    BY DEF Typed, Drains
<1>3. /\ call \in Calls /\ call.pc = shutdown[s].pc /\ call.index = shutdown[s].index
      /\ call.moved = shutdown[s].moved /\ call.tokens = n
    <2>1. shutdown[s] \in Calls
        BY <1>2 DEF Typed
    <2>2. n \in Nat
        BY <2>1 DEF Calls
    <2> HIDE DEF n, s
    <2>3. QED
        BY <2>1, <2>2 DEF Calls
<1> HIDE DEF s, n, call
<1>4. /\ shutdown' \in [Shutdowns -> Calls]
      /\ shutdown'[s] = call
      /\ \A t \in Shutdowns \ {s} : shutdown'[t] = shutdown[t]
    BY <1>1, <1>2, <1>3 DEF Typed
<1>5. \A t \in Shutdowns : shutdown'[t].pc = shutdown[t].pc /\ shutdown'[t].moved = shutdown[t].moved
                          /\ shutdown'[t].index = shutdown[t].index
    BY <1>3, <1>4
<1>6. \A c \in Clients : d.handler = c => invoked[c] = 1
    BY <1>1 DEF OnePlace
<1>7. IsFiniteSet(drains') /\ Cardinality(drains') = Cardinality(drains) - 1
    BY <1>1, FS_RemoveElement DEF Typed
<1>8. Typed'
    <2>1. drains' \subseteq Drains
        BY <1>1 DEF Typed
    <2>2. TypeOK'
        BY <1>1, <1>2 DEF TypeOK
    <2>3. QED
        BY <1>4, <1>7, <2>1, <2>2 DEF Typed
<1>9. \A c \in Clients : (Draining(c)' => Draining(c)) /\ (Stored(c)' <=> Stored(c))
    <2>1. \A c \in Clients : Draining(c)' => Draining(c)
        BY <1>1 DEF Draining
    <2>2. QED
        BY <1>1, <2>1 DEF Stored
<1>10. OnePlace'
    <2> SUFFICES ASSUME NEW b \in Clients
                 PROVE  /\ \A i, j \in DOMAIN shutdown_handlers :
                               shutdown_handlers[i] = b /\ shutdown_handlers[j] = b => i = j
                        /\ \A x, y \in drains' : x.handler = b /\ y.handler = b => x = y
                        /\ Stored(b)' => ~Draining(b)' /\ invoked[b] = 0
                        /\ \A x \in drains' :
                               x.handler = b => invoked[b] = IF x.started THEN 1 ELSE 0
                        /\ invoked[b] <= 1
        BY <1>1 DEF OnePlace
    <2>1. /\ \A i, j \in DOMAIN shutdown_handlers :
                 shutdown_handlers[i] = b /\ shutdown_handlers[j] = b => i = j
          /\ \A x, y \in drains : x.handler = b /\ y.handler = b => x = y
          /\ Stored(b) => ~Draining(b) /\ invoked[b] = 0
          /\ \A x \in drains : x.handler = b => invoked[b] = IF x.started THEN 1 ELSE 0
          /\ invoked[b] <= 1
        BY DEF OnePlace
    <2>2. QED
        BY <1>1, <1>9, <2>1
<1>11. HandedOver'
    BY <1>1, <1>9 DEF HandedOver
<1>12. DrainsOfCalls'
    <2>1. \A x \in drains' : shutdown'[x.by].pc # "none"
        BY <1>1, <1>2, <1>5 DEF DrainsOfCalls, TypeOK
    <2>2. ASSUME NEW t \in Shutdowns, NEW b \in shutdown'[t].moved
          PROVE  invoked'[b] = 1 \/ Draining(b)'
        <3>1. b \in Clients /\ (invoked[b] = 1 \/ Draining(b))
            BY <1>5, <2>2 DEF DrainsOfCalls, Typed, Calls
        <3>2. Draining(b) => b = d.handler \/ Draining(b)'
            BY <1>1 DEF Draining
        <3>3. QED
            BY <1>1, <1>6, <3>1, <3>2
    <2>3. QED
        BY <2>1, <2>2 DEF DrainsOfCalls
<1>13. Accounted'
    <2>1. ASSUME NEW t \in Shutdowns, shutdown'[t].pc = "receiving", Alone(t)'
          PROVE  shutdown'[t].index + shutdown'[t].tokens + Cardinality(drains')
                     <= Len(shutdown_handlers')
        <3>1. shutdown[t].pc = "receiving" /\ Alone(t)
            BY <1>5, <2>1 DEF Alone
        <3>2. s = t
            BY <1>2, <3>1 DEF DrainsOfCalls, Alone, s
        <3>3. shutdown[t].index + shutdown[t].tokens + Cardinality(drains) <= Len(shutdown_handlers)
            BY <3>1 DEF Accounted
        <3>4. /\ shutdown[t].index \in Nat /\ shutdown[t].tokens \in Nat
              /\ Cardinality(drains) \in Nat
            BY FS_CardinalityType DEF Typed, Calls
        <3>5. /\ shutdown'[t].index = shutdown[t].index
              /\ shutdown'[t].tokens = shutdown[t].tokens + 1
            BY <1>3, <1>4, <3>2 DEF n
        <3>6. QED
            BY <1>1, <1>7, <3>3, <3>4, <3>5
    <2>2. QED
        BY <2>1 DEF Accounted
<1>14. ShutdownWaits'
    <2>1. ASSUME NEW t \in Shutdowns, shutdown'[t].pc = "returned",
                 \A u \in Shutdowns \ {t} : shutdown'[u].pc = "none", NEW c \in shutdown'[t].moved
          PROVE  Drained(c)'
        <3>1. Drained(c)
            BY <1>5, <2>1 DEF ShutdownWaits
        <3>2. QED
            BY <1>1, <3>1 DEF Drained
    <2>2. QED
        BY <2>1 DEF ShutdownWaits
<1>15. QED
    BY <1>8, <1>10, <1>11, <1>12, <1>13, <1>14

\* shutdown() receives a completion.  If it then returns, and is the only call, every
\* completion was received and no coroutine is left.
LEMMA ReceiveInv ==
    ASSUME ServerInv, NEW s \in Shutdowns, Receive(s)
    PROVE  ServerInv'
<1> USE ServerAssumption DEF ServerInv
<1> DEFINE i == shutdown[s].index + 1
           n == shutdown[s].tokens - 1
           next == [shutdown[s] EXCEPT !.index = i, !.tokens = n]
           call == AfterLoop(next)
<1>1. /\ shutdown[s].pc = "receiving" /\ shutdown[s].tokens > 0
      /\ shutdown' = [shutdown EXCEPT ![s] = call]
      /\ ClearIfReturned(call)
      /\ UNCHANGED <<stopping, connection_handler, run, socket, failures, conn, drains, invoked>>
    BY DEF Receive, acceptVars
<1>2. /\ TypeOK /\ shutdown[s] \in Calls /\ shutdown \in [Shutdowns -> Calls]
      /\ shutdown_handlers \in Seq(Clients \cup {Moved}) /\ Len(shutdown_handlers) \in Nat
    BY DEF Typed, TypeOK
<1>3. i \in Nat /\ n \in Nat /\ i + n = shutdown[s].index + shutdown[s].tokens
    BY <1>1, <1>2 DEF Calls
<1> HIDE DEF i, n
<1>4. /\ next \in Calls /\ next.index = i /\ next.tokens = n /\ next.moved = shutdown[s].moved
    BY <1>2, <1>3 DEF Calls
<1> HIDE DEF next
<1>5. /\ call \in Calls /\ call.index = i /\ call.tokens = n /\ call.moved = shutdown[s].moved
      /\ call.pc = IF i < Len(shutdown_handlers) THEN "receiving" ELSE "returned"
    BY <1>4 DEF AfterLoop, Calls
<1> HIDE DEF call
<1>6. /\ shutdown' \in [Shutdowns -> Calls]
      /\ shutdown'[s] = call
      /\ \A t \in Shutdowns \ {s} : shutdown'[t] = shutdown[t]
    BY <1>1, <1>2, <1>5
<1>7. shutdown_handlers' = IF i < Len(shutdown_handlers) THEN shutdown_handlers ELSE <<>>
    BY <1>1, <1>5 DEF ClearIfReturned
<1>8. Typed'
    <2>1. shutdown_handlers' \in Seq(Clients \cup {Moved})
        BY <1>2, <1>7
    <2>2. TypeOK'
        BY <1>1, <1>2, <2>1 DEF TypeOK
    <2>3. QED
        BY <1>1, <1>6, <2>2 DEF Typed
<1>9. \A c \in Clients : (Stored(c)' => Stored(c)) /\ (Draining(c)' <=> Draining(c))
    <2>1. \A c \in Clients : Stored(c)' => Stored(c)
        BY <1>7 DEF Stored
    <2>2. QED
        BY <1>1, <2>1 DEF Draining
<1>10. OnePlace'
    <2> SUFFICES ASSUME NEW c \in Clients
                 PROVE  /\ \A j, k \in DOMAIN shutdown_handlers' :
                               shutdown_handlers'[j] = c /\ shutdown_handlers'[k] = c => j = k
                        /\ Stored(c)' => ~Draining(c)' /\ invoked[c] = 0
        BY <1>1 DEF OnePlace
    <2>1. /\ \A j, k \in DOMAIN shutdown_handlers :
                 shutdown_handlers[j] = c /\ shutdown_handlers[k] = c => j = k
          /\ Stored(c) => ~Draining(c) /\ invoked[c] = 0
        BY DEF OnePlace
    <2>2. QED
        BY <1>7, <1>9, <2>1
<1>11. HandedOver'
    BY <1>1, <1>9 DEF HandedOver
<1>12. \A t \in Shutdowns : shutdown'[t].moved = shutdown[t].moved
                           /\ (shutdown'[t].pc = "none" <=> shutdown[t].pc = "none")
    BY <1>1, <1>5, <1>6
<1>13. DrainsOfCalls'
    <2>1. \A d \in drains : d.by \in Shutdowns
        BY <1>2 DEF TypeOK
    <2>2. \A d \in drains' : shutdown'[d.by].pc # "none"
        BY <1>1, <1>12, <2>1 DEF DrainsOfCalls
    <2>3. ASSUME NEW t \in Shutdowns, NEW c \in shutdown'[t].moved
          PROVE  invoked'[c] = 1 \/ Draining(c)'
        <3>1. c \in Clients /\ (invoked[c] = 1 \/ Draining(c))
            BY <1>12, <2>3 DEF DrainsOfCalls, Typed, Calls
        <3>2. QED
            BY <1>1, <1>9, <3>1
    <2>4. QED
        BY <2>2, <2>3 DEF DrainsOfCalls
<1>14. Alone(s) => i + n + Cardinality(drains) <= Len(shutdown_handlers)
    BY <1>1, <1>3 DEF Accounted
<1>15. Cardinality(drains) \in Nat
    BY FS_CardinalityType DEF Typed
<1>16. \A t \in Shutdowns : Alone(t)' => t = s /\ Alone(s)
    BY <1>1, <1>12 DEF Alone
<1>17. Accounted'
    <2>1. ASSUME NEW t \in Shutdowns, shutdown'[t].pc = "receiving", Alone(t)'
          PROVE  shutdown'[t].index + shutdown'[t].tokens + Cardinality(drains')
                     <= Len(shutdown_handlers')
        <3>1. t = s /\ i < Len(shutdown_handlers) /\ shutdown_handlers' = shutdown_handlers
            BY <1>5, <1>6, <1>7, <1>16, <2>1
        <3>2. QED
            BY <1>1, <1>5, <1>6, <1>14, <1>16, <2>1, <3>1
    <2>2. QED
        BY <2>1 DEF Accounted
<1>18. ShutdownWaits'
    <2>1. ASSUME NEW t \in Shutdowns, shutdown'[t].pc = "returned",
                 \A u \in Shutdowns \ {t} : shutdown'[u].pc = "none", NEW c \in shutdown'[t].moved
          PROVE  Drained(c)'
        <3>1. t = s /\ Alone(s) /\ ~(i < Len(shutdown_handlers))
            BY <1>5, <1>6, <1>16, <2>1 DEF Alone
        <3>2. Cardinality(drains) = 0
            BY <1>2, <1>3, <1>14, <1>15, <3>1
        <3>3. drains = {}
            BY <3>2, FS_EmptySet DEF Typed
        <3>4. invoked[c] = 1
            BY <1>12, <2>1, <3>3 DEF DrainsOfCalls, Draining
        <3>5. QED
            BY <1>1, <3>3, <3>4 DEF Drained
    <2>2. QED
        BY <2>1 DEF ShutdownWaits
<1>19. QED
    BY <1>8, <1>10, <1>11, <1>13, <1>17, <1>18

-----------------------------------------------------------------------------
(* The theorems about the server *)

\* The invariant of the accept loop, the drain handlers and the calls of shutdown().
THEOREM ServerInvariant == SystemSpec => []ServerInv
<1>1. SystemInit => ServerInv
    <2> SUFFICES ASSUME SystemInit PROVE ServerInv
        OBVIOUS
    <2> USE ServerAssumption DEF SystemInit, Init
    <2>1. NotCalled \in Calls /\ NotCalled.pc = "none" /\ NotCalled.moved = {}
        BY DEF NotCalled, Calls
    <2>2. \A s \in Shutdowns : shutdown[s].pc = "none" /\ shutdown[s].moved = {}
        BY <2>1
    <2>3. shutdown \in [Shutdowns -> Calls]
        BY <2>1
    <2>4. TypeOK
        <3>1. conn \in [Clients -> ConnStates] /\ invoked \in [Clients -> Nat]
            BY DEF ConnStates
        <3>2. shutdown_handlers \in Seq(Clients \cup {Moved}) /\ failures \in 0 .. MaxAcceptFailures
            OBVIOUS
        <3>3. QED
            BY <3>1, <3>2 DEF TypeOK, RunStates
    <2>5. Typed
        BY <2>3, <2>4, FS_EmptySet DEF Typed
    <2>6. OnePlace /\ HandedOver
        BY DEF OnePlace, HandedOver, Stored, Draining
    <2>7. DrainsOfCalls
        BY <2>2 DEF DrainsOfCalls
    <2>8. Accounted /\ ShutdownWaits
        BY <2>2 DEF Accounted, ShutdownWaits
    <2>9. QED
        BY <2>5, <2>6, <2>7, <2>8 DEF ServerInv
<1>2. ServerInv /\ [SystemNext]_systemVars => ServerInv'
    <2> SUFFICES ASSUME ServerInv, [SystemNext]_systemVars PROVE ServerInv'
        OBVIOUS
    <2>1. ServerMoves \/ UNCHANGED vars
        BY CallersAssumption
        DEF SystemNext, systemVars, ServerMoves, HandshakeAtServer, AttemptEnds, ClientLocal
    <2>2. CASE DrainStep
        BY <2>2, DrainStartsInv, DrainEndsInv DEF DrainStep
    <2>3. CASE \E s \in Shutdowns : Shutdown(s) \/ Receive(s)
        BY <2>3, ShutdownInv, ReceiveInv
    <2>4. CASE ResumeAccepted
        BY <2>4, HandOverInv, AcceptLoopQuiet, QuietStepInv
    <2>5. QED
        BY <2>1, <2>2, <2>3, <2>4, AcceptLoopQuiet, QuietStepInv
        DEF ServerMoves, ServerStep, RunStep
<1>3. QED
    BY <1>1, <1>2, PTL DEF SystemSpec

\* No connection's drain handler is called twice, for any number of overlapping calls of
\* shutdown().
THEOREM EachDrainedOnce == SystemSpec => []DrainsConsistent
<1>1. ServerInv => DrainsConsistent
    BY DEF ServerInv, Typed, OnePlace, DrainsConsistent, DrainedOnce
<1>2. QED
    BY <1>1, ServerInvariant, PTL

\* A shutdown() that no other one interferes with returns only when every drain handler it
\* took over has been called and has returned or thrown, however many there are.
THEOREM ShutdownWaitsForDrains == SystemSpec => []ShutdownWaits
<1>1. ServerInv => ShutdownWaits
    BY DEF ServerInv
<1>2. QED
    BY <1>1, ServerInvariant, PTL
=============================================================================
