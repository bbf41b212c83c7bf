\* A TcpClient and a foreign client, two calls of shutdown(), one transient accept failure.
SPECIFICATION SystemFairSpec
CONSTANTS
    Clients = {c1, c2}
    Callers = {c1}
    Moved = Moved
    Shutdowns = {1, 2}
    MaxAcceptFailures = 1
INVARIANTS
    DrainsConsistent
    ShutdownWaits
    HonestResult
PROPERTIES
    EstablishedSettles
    RunReturns
    ShutdownReturnsUnlessJoined
    ConnectReturns
CHECK_DEADLOCK FALSE
