\* Two requests on one stream identifier, one with a deadline and possibly not decoding.
SPECIFICATION SystemFairSpec
CONSTANTS
    r1 = r1
    r2 = r2
    r3 = r3
    NoRequest = NoRequest
    Requests = {r1, r2}
    Timed = {r1}
    Unencodable = {}
    Oversized = {}
    Abandonable = {}
    Undecodable = {r1}
    MaxStream = 1
    MaxFrames = 1
    DecoderErrors = {}
    Replies = {r1, r2}
    PeerFrames = {}
PROPERTIES
    CallerReturns
    ClosePropagates
CHECK_DEADLOCK FALSE
