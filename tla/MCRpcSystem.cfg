SPECIFICATION SystemSpec
CONSTANTS
    r1 = r1
    r2 = r2
    r3 = r3
    NoRequest = NoRequest
    Requests = {r1, r2, r3}
    Timed = {}
    Unencodable = {}
    Oversized = {}
    Abandonable = {}
    Undecodable = {r3}
    MaxStream = 3
    MaxFrames = 2
    DecoderErrors = {}
    Replies = {r1, r2, r3}
    PeerFrames = {}
SYMMETRY Symmetry
INVARIANTS
    Correlated
    ServerSeesNoViolation
CHECK_DEADLOCK FALSE
