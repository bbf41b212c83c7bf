\* Up to three frames of six kinds, cut into reads in every way.
SPECIFICATION DecoderSpec
CONSTANTS
    ByteValues = 16
    VersionWidth = 1
    StreamWidth = 2
    SizeWidth = 1
    MaxPayloadSize = 2
    MaxSent = 3
    MaxRead = 40
    PeerFrames <- TestFrames
INVARIANTS
    DecoderTypeOK
    DecodesWhatWasSent
    NothingWithheld
CHECK_DEADLOCK FALSE
