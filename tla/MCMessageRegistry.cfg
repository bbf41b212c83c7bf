\* Two ends, two versions; 17 is an identifier of two bytes.
SPECIFICATION Spec
CONSTANTS
    ByteValues = 16
    VersionWidth = 1
    StreamWidth = 1
    SizeWidth = 1
    MaxPayloadSize = 5
    a = a
    b = b
    big = big
    text = text
    NoMessage = NoMessage
    Messages = {a, b, big, text}
    Supported = {a, b, big}
    Sizes <- TestSizes
    MessageIds = {0, 1, 17}
    Versions = {"current", "other"}
    Current = "current"
    Raw <- TestRaw
SYMMETRY Symmetry
INVARIANTS
    RegistryConsistent
    RoundTrip
    HandlerGetsItsType
PROPERTIES
    StaysHandled
