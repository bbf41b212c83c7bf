------------------------------ MODULE RpcSystem ------------------------------
(***************************************************************************)
(* A ClientConnection and a ServerConnection joined by a byte stream that  *)
(* delivers frames in order, loses what is in flight when it closes, and   *)
(* may break at any write.  Each request's payload is the request itself,  *)
(* and a response's payload the request it answers.                        *)
(***************************************************************************)
EXTENDS ClientConnection

CONSTANT Undecodable  \* requests whose payload the server's decode_message() may reject

\* A request decodes at the client when it comes back as a reply, and the payload of a
\* request is none of the markers of the two connections.
ASSUME SystemAssumption ==
    /\ Undecodable \subseteq Requests
    /\ Requests \subseteq Replies
    /\ Requests \cap ({"none", "empty", "closed", "garbage", "unregistered"} \cup StatusCodes) = {}

VARIABLES
    operations, task, active_handlers,  \* the state of the server connection
    s_terminal_streams, s_queue, s_queue_closed, s_state, s_transport, s_reader, s_writer,
    s_drain, s_closed_notified, protocol_errors, refusal,
    c2s, s2c                            \* frames in flight to the server and to the client

serverVars ==
    <<operations, task, active_handlers, s_terminal_streams, s_queue, s_queue_closed, s_state,
      s_transport, s_reader, s_writer, s_drain, s_closed_notified, protocol_errors, refusal>>

server == INSTANCE ServerConnection
    WITH Tasks <- Requests, NoTask <- NoRequest, PeerFrames <- {},
         terminal_streams <- s_terminal_streams, queue <- s_queue,
         queue_closed <- s_queue_closed, state <- s_state, transport <- s_transport,
         reader <- s_reader, writer <- s_writer, drain <- s_drain,
         closed_notified <- s_closed_notified

systemVars == <<vars, serverVars, c2s, s2c>>

SystemInit == Init /\ server!Init /\ c2s = <<>> /\ s2c = <<>>

-----------------------------------------------------------------------------
(* Steps of the client *)

ClientLocal ==
    /\ \/ \E r \in Requests : ApplicationStep(r) \/ RequestStep(r)
       \/ WriteFails \/ WriterStops \/ Run \/ Shutdown \/ DrainEnds
       \/ ReadEnds(FALSE, FALSE)
    /\ UNCHANGED <<serverVars, c2s, s2c>>

ClientWrites ==
    /\ WriteDone
    /\ c2s' = Append(c2s, Head(queue))
    /\ UNCHANGED <<serverVars, s2c>>

ClientReceives ==
    /\ s2c # <<>>
    /\ Dispatch(Head(s2c))
    /\ s2c' = Tail(s2c)
    /\ UNCHANGED <<serverVars, c2s>>

\* The server's end is closed: the client reads the end of the stream.
ClientReadsEnd ==
    /\ ~s_transport
    /\ ReadEnds(TRUE, FALSE)
    /\ s2c' = <<>>
    /\ UNCHANGED <<serverVars, c2s>>

-----------------------------------------------------------------------------
(* Steps of the server *)

ServerLocal ==
    /\ \/ \E r \in Requests : server!HandlerStep(r)
       \/ server!WriteFails \/ server!WriterStops \/ server!Run \/ server!Shutdown
       \/ server!DrainEnds \/ server!ReadLost(FALSE)
    /\ UNCHANGED <<vars, c2s, s2c>>

ServerWrites ==
    /\ server!WriteDone
    /\ s2c' = Append(s2c, Head(s_queue))
    /\ UNCHANGED <<vars, c2s>>

ServerReceives ==
    /\ c2s # <<>>
    /\ server!Dispatch(Head(c2s))
    /\ c2s' = Tail(c2s)
    /\ UNCHANGED <<vars, s2c>>

ServerReadsEnd ==
    /\ ~transport
    /\ server!ReadLost(TRUE)
    /\ c2s' = <<>>
    /\ UNCHANGED <<vars, s2c>>

SystemNext ==
    \/ ClientLocal \/ ClientWrites \/ ClientReceives \/ ClientReadsEnd
    \/ ServerLocal \/ ServerWrites \/ ServerReceives \/ ServerReadsEnd

SystemSpec == SystemInit /\ [][SystemNext]_systemVars

\* Both ends are scheduled fairly and the byte stream delivers what was written, or its end.
SystemFairSpec ==
    /\ SystemSpec
    /\ Fairness
    /\ server!Fairness
    /\ WF_systemVars(ClientReceives \/ ClientReadsEnd)
    /\ WF_systemVars(ServerReceives \/ ServerReadsEnd)

-----------------------------------------------------------------------------
(* Properties *)

\* A caller only ever gets the response to its own request, and only after the server's
\* handler for it has completed: correlation by stream identifier is sound although
\* identifiers are recycled and responses arrive in any order.
Correlated ==
    \A r \in Requests : request[r].outcome \in Requests =>
        /\ request[r].outcome = r
        /\ task[r].operation.state = "completed"

\* A client that abandons no request never makes the server report a protocol violation:
\* by the time a stream is recycled the server has forgotten its previous request.
ServerSeesNoViolation == refusal = "none" /\ ~protocol_errors

\* docs/identifiers.md: recycling must not route "delayed frames from an old operation
\* ... to a later operation with the same ID".
NoMisrouting == \A r \in Requests : request[r].outcome \in Requests => request[r].outcome = r

\* The end of the connection reaches everybody: when either end closes its transport, both
\* run()s return, whatever is queued, in flight or being handled.
ClosePropagates ==
    ~transport \/ ~s_transport
        ~> /\ reader = "ended" /\ writer \in {"stopped", "failed"}
           /\ s_reader = "ended" /\ s_writer \in {"stopped", "failed"}

\* A caller in async_wait() returns once the server has replied, its deadline is armed, or
\* either end has closed: the reply, the timer or the loss of the connection reaches it.
CallerReturns ==
    \A r \in Requests :
        (/\ request[r].phase = "waiting"
         /\ task[r].reply # "none" \/ request[r].timer # "off" \/ ~transport \/ ~s_transport)
        ~> request[r].phase = "returned"
=============================================================================
