\* Two handlers on two streams, any peer.
SPECIFICATION FairSpec
CONSTANTS
    t1 = t1
    t2 = t2
    NoTask = NoTask
    Tasks = {t1, t2}
    Undecodable = {t2}
    Oversized = {t2}
    MaxStream = 2
    MaxFrames = 1
    DecoderErrors = {"malformed_frame"}
    PeerFrames <- AnyFrames
INVARIANTS
    ServerConsistent
    ResponseOnlyIfCompleted
    QueueOpenForHandlers
    ShutdownSettles
PROPERTIES
    DrainStartsNothing
    RunReturns
CHECK_DEADLOCK FALSE
