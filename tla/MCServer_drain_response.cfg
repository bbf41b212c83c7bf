\* Any peer.
SPECIFICATION Spec
CONSTANTS
    t1 = t1
    t2 = t2
    NoTask = NoTask
    Oversized = {}
    Tasks = {t1, t2}
    Undecodable = {t2}
    MaxStream = 2
    MaxFrames = 1
    DecoderErrors = {"malformed_frame"}
    PeerFrames <- AnyFrames
PROPERTIES
    DrainDelivers
CHECK_DEADLOCK FALSE
