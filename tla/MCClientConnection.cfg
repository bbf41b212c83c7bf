\* Two calls, one with a deadline, on two stream identifiers, and one that never encodes.
SPECIFICATION Spec
CONSTANTS
    r1 = r1
    r2 = r2
    r3 = r3
    NoRequest = NoRequest
    Requests = {r1, r2, r3}
    Timed = {r1}
    Unencodable = {r3}
    Oversized = {r2}
    Abandonable = {r1}
    MaxStream = 3
    MaxFrames = 1
    DecoderErrors = {"unsupported_version", "malformed_frame"}
    Replies = {"reply"}
    PeerFrames <- AnyFrames
INVARIANTS
    ClientConsistent
    ResultAgrees
    FinishedIsVisible
    ClosedSettles
PROPERTIES
    TerminalStable
    ShutdownAdmitsNothing
CHECK_DEADLOCK FALSE
