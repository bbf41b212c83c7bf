\* One stream identifier, two requests, the first may be abandoned.
SPECIFICATION SystemSpec
CONSTANTS
    r1 = r1
    r2 = r2
    r3 = r3
    NoRequest = NoRequest
    Requests = {r1, r2}
    Timed = {}
    Unencodable = {}
    Oversized = {}
    Abandonable = {r1}
    Undecodable = {}
    MaxStream = 1
    MaxFrames = 2
    DecoderErrors = {}
    Replies = {r1, r2}
    PeerFrames = {}
INVARIANTS
    NoMisrouting
CHECK_DEADLOCK FALSE
