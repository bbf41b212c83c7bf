------------------------------- MODULE TcpSystem -------------------------------
(***************************************************************************)
(* TcpClients and foreign clients connecting to one TcpServer, which is    *)
(* started, stopped and shut down at any time.                             *)
(***************************************************************************)
EXTENDS TcpServer

CONSTANT Callers  \* the clients that use TcpClient::connect()

ASSUME CallersAssumption == Callers \subseteq Clients

VARIABLE connect  \* the calls of TcpClient::connect()

client == INSTANCE TcpClient WITH Clients <- Callers

systemVars == <<vars, connect>>

SystemInit == Init /\ client!Init

\* The handshake of an attempt completes at the server.
HandshakeAtServer(c) ==
    /\ client!Pending(c, "attempt")
    /\ Arrives(c)
    /\ UNCHANGED connect

\* The attempt's end reaches the client: it succeeds after the handshake, even if the
\* server has reset the connection since, and is refused without one.
AttemptEnds(c) ==
    /\ client!AttemptEnds(c, conn[c] # "none")
    /\ UNCHANGED vars

ClientLocal(c) == client!LocalStep(c) /\ UNCHANGED vars

SystemNext ==
    \/ ServerStep /\ UNCHANGED connect
    \/ \E c \in Clients \ Callers : Arrives(c) /\ UNCHANGED connect
    \/ \E c \in Callers : HandshakeAtServer(c) \/ AttemptEnds(c) \/ ClientLocal(c)

SystemSpec == SystemInit /\ [][SystemNext]_systemVars

\* Time passes: a timer fires, and the executor resumes what is ready.  A network need not
\* answer.
SystemFairSpec ==
    /\ SystemSpec
    /\ Fairness
    /\ \A c \in Callers :
        WF_systemVars(client!RaceStep(c) /\ UNCHANGED vars)

-----------------------------------------------------------------------------
(* Properties *)

\* connect() reports success only for a connected socket and a timeout only when the timer
\* expired.
HonestResult == client!HonestResult

\* A call of connect() that has resolved its host returns, whatever its peer does.
ConnectReturns == client!ConnectReturns
=============================================================================
