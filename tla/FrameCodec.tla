------------------------------ MODULE FrameCodec ------------------------------
(***************************************************************************)
(* Frames as bytes: the header's wire layout (frame_codec.hpp), the flags  *)
(* (frame_flags.hpp) and the validation of a frame (frame.hpp).  A byte is *)
(* a number below ByteValues; the numeric fields have the widths the       *)
(* constants give them, so that their largest values can be checked.       *)
(***************************************************************************)
EXTENDS Integers, Sequences

CONSTANTS
    ByteValues,     \* number of values of a byte: 256
    VersionWidth,   \* bytes of each half of the version: 2
    StreamWidth,    \* bytes of a stream identifier: 8
    SizeWidth,      \* bytes of the payload size: 4
    MaxPayloadSize  \* max_payload_size_ of the receiver

ASSUME CodecAssumption ==
    /\ ByteValues \in Nat /\ ByteValues > 8
    /\ VersionWidth \in Nat \ {0}
    /\ StreamWidth \in Nat \ {0}
    /\ SizeWidth \in Nat \ {0}
    /\ MaxPayloadSize \in Nat

Octets == 0 .. ByteValues - 1

\* value >> 8 * k, for every k up to width: each shift takes the last byte off.
shifts(value, width) ==
    LET shifted[k \in 0 .. width] == IF k = 0 THEN value ELSE shifted[k - 1] \div ByteValues
    IN  shifted

\* write_be16(), write_be32() and write_be64(), by their width.
write_be(value, width) ==
    [i \in 1 .. width |-> shifts(value, width)[width - i] % ByteValues]

\* A value of an unsigned type of that many bytes.
Fits(value, width) == value \in Nat /\ shifts(value, width)[width] = 0

\* Mutant: the most significant byte is taken for the least.
read_be_LittleEndian(bytes) ==
    LET value[i \in 0 .. Len(bytes)] ==
            IF i = 0 THEN 0 ELSE value[i - 1] + bytes[i] * ByteValues ^ (i - 1)
    IN  value[Len(bytes)]

\* read_be16(), read_be32() and read_be64(): the loop shifts in one byte after another.
read_be(bytes) ==
    LET value[i \in 0 .. Len(bytes)] ==
            IF i = 0 THEN 0 ELSE value[i - 1] * ByteValues + bytes[i]
    IN  value[Len(bytes)]

\* FrameHeader, with the widths of its fields.
FrameHeaders ==
    {h \in [major : Nat, minor : Nat, type : Octets, flags : Octets, stream : Nat,
            payload_size : Nat] :
        /\ Fits(h.major, VersionWidth)
        /\ Fits(h.minor, VersionWidth)
        /\ Fits(h.stream, StreamWidth)
        /\ Fits(h.payload_size, SizeWidth)}

frame_header_size == 2 * VersionWidth + 2 + StreamWidth + SizeWidth

encode_frame_header(header) ==
    write_be(header.major, VersionWidth) \o write_be(header.minor, VersionWidth)
        \o <<header.type, header.flags>>
        \o write_be(header.stream, StreamWidth) \o write_be(header.payload_size, SizeWidth)

\* decode_frame_header() of the frame_header_size bytes it is always given.
decode_frame_header(bytes) ==
    LET type == 2 * VersionWidth + 1
        size == type + 2 + StreamWidth
    IN  [major |-> read_be(SubSeq(bytes, 1, VersionWidth)),
         minor |-> read_be(SubSeq(bytes, VersionWidth + 1, 2 * VersionWidth)),
         type |-> bytes[type],
         flags |-> bytes[type + 1],
         stream |-> read_be(SubSeq(bytes, type + 2, size - 1)),
         payload_size |-> read_be(SubSeq(bytes, size, size + SizeWidth - 1))]

encode_frame(frame) == encode_frame_header(frame.header) \o frame.payload

-----------------------------------------------------------------------------
request == 1
response == 2

end_of_stream == 1
cancel == 2
error_flag == 4

\* has_flag() of a single flag.
has_flag(flags, flag) == (flags \div flag) % 2 = 1

\* flags & ~known_flags: the known flags are the three lowest bits.
has_only_known_flags(flags) == flags \div 8 = 0

is_known_frame_type(type) == type \in {request, response}

\* validate_frame(): the first error in the order of its tests, or "none".
validate_frame(frame) ==
    LET header == frame.header
    IN  IF <<header.major, header.minor>> # <<0, 1>> THEN "unsupported_version"
        ELSE IF ~is_known_frame_type(header.type) THEN "unknown_frame_type"
        ELSE IF ~has_only_known_flags(header.flags) THEN "unknown_flags"
        ELSE IF has_flag(header.flags, cancel) /\ has_flag(header.flags, error_flag)
        THEN "invalid_flag_combination"
        ELSE IF header.stream = 0 THEN "invalid_stream"
        ELSE IF header.payload_size > MaxPayloadSize THEN "payload_too_large"
        ELSE IF Len(frame.payload) # header.payload_size THEN "payload_length_mismatch"
        ELSE "none"

FrameValidationErrors ==
    {"none", "unsupported_version", "unknown_frame_type", "unknown_flags",
     "invalid_flag_combination", "invalid_stream", "payload_length_mismatch",
     "payload_too_large"}
=============================================================================
