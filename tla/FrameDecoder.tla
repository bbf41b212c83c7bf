----------------------------- MODULE FrameDecoder -----------------------------
(***************************************************************************)
(* include/rillnet/frame_decoder.hpp: frames are put together from a byte  *)
(* stream that is cut into reads anywhere.  A peer encodes frames, valid   *)
(* or not, onto the wire; push() is given what one read returned.          *)
(*                                                                         *)
(* push() is the action that hands over the bytes and then one action per  *)
(* iteration of its loop; nothing else is possible until the loop is over. *)
(* header_bytes_ and payload_ are the bytes received of them, so that      *)
(* header_bytes_size_ and payload_bytes_size_ are their lengths.           *)
(***************************************************************************)
EXTENDS FrameCodec

CONSTANTS
    PeerFrames,  \* frames the peer may send
    MaxSent,     \* bound on the number of frames of one byte stream
    MaxRead      \* size of the read loops' buffer: 4096

ASSUME DecoderAssumption ==
    /\ \A f \in PeerFrames :
        /\ f \in [header : FrameHeaders, payload : Seq(Octets)]
        /\ Len(f.payload) = f.header.payload_size
    /\ MaxSent \in Nat
    /\ MaxRead \in Nat \ {0}

VARIABLES
    header_bytes,  \* header_bytes_
    header,        \* header_, the empty sequence for nullopt
    payload,       \* payload_
    error,         \* error_, "none" for nullopt
    bytes,         \* what the running push() has not looked at yet
    frames,        \* what push() has returned, over all calls
    sent,          \* frames written by the peer since the last reset()
    unread         \* their bytes that have not been read

decoderVars == <<header_bytes, header, payload, error, bytes, frames>>
decodingVars == <<decoderVars, sent, unread>>

DecoderInit ==
    /\ header_bytes = <<>>
    /\ header = <<>>
    /\ payload = <<>>
    /\ error = "none"
    /\ bytes = <<>>
    /\ frames = <<>>
    /\ sent = <<>>
    /\ unread = <<>>

-----------------------------------------------------------------------------
\* The peer writes a frame.
Send(f) ==
    /\ bytes = <<>>
    /\ Len(sent) < MaxSent
    /\ sent' = Append(sent, f)
    /\ unread' = unread \o encode_frame(f)
    /\ UNCHANGED decoderVars

First(s, n) == SubSeq(s, 1, n)
Rest(s, n) == SubSeq(s, n + 1, Len(s))

\* A read returns n bytes, which push() is called with.  A decoder in its terminal error
\* state does not enter the loop.
push(n) ==
    /\ bytes = <<>>
    /\ unread' = Rest(unread, n)
    /\ bytes' = IF error = "none" THEN First(unread, n) ELSE <<>>
    /\ UNCHANGED <<header_bytes, header, payload, error, frames, sent>>

\* copy_bytes(): how many of the available bytes are copied to fill what is missing.
copy_bytes(available, missing) == IF available < missing THEN available ELSE missing

\* Mutant: a payload that needs no bytes is not seen to be complete.
Completes_NeedsBytes(h, body, copied) == copied > 0 /\ Len(body) = h.payload_size

Completes(h, body, copied) == Len(body) = h.payload_size

\* A frame is complete: it is returned and the decoder waits for the next header.
Emit(h, body) ==
    /\ frames' = Append(frames, [header |-> h, payload |-> body])
    /\ header' = <<>>
    /\ header_bytes' = <<>>
    /\ payload' = <<>>

\* The second half of an iteration, with the header h and the bytes after it.
FillPayload(h, assembled, rest) ==
    LET copied == copy_bytes(Len(rest), h.payload_size - Len(payload))
        body == payload \o First(rest, copied)
    IN  /\ bytes' = Rest(rest, copied)
        /\ IF Completes(h, body, copied) THEN Emit(h, body)
           ELSE /\ header' = <<h>>
                /\ header_bytes' = assembled
                /\ payload' = body
                /\ UNCHANGED frames

HeaderCopied == copy_bytes(Len(bytes), frame_header_size - Len(header_bytes))

\* The header's bytes after the first half of an iteration.
Assembled == header_bytes \o First(bytes, HeaderCopied)

\* Mutant: a declared length is not looked at before the payload arrives.
HeaderError_IgnoresSize ==
    LET verdict == validate_frame([header |-> decode_frame_header(Assembled), payload |-> <<>>])
    IN  IF verdict \in {"payload_length_mismatch", "payload_too_large"} THEN "none" ELSE verdict

\* What start_frame() finds wrong with the assembled header; the payload is not there yet,
\* so its length does not count.
HeaderError ==
    LET verdict == validate_frame([header |-> decode_frame_header(Assembled), payload |-> <<>>])
    IN  IF verdict = "payload_length_mismatch" THEN "none" ELSE verdict

\* The bytes end inside the header.
PartialHeader ==
    /\ bytes # <<>>
    /\ header = <<>>
    /\ Len(Assembled) < frame_header_size
    /\ header_bytes' = Assembled
    /\ bytes' = <<>>
    /\ UNCHANGED <<header, payload, error, frames, sent, unread>>

\* start_frame() rejects the header: the rest of the read is dropped.
RejectHeader ==
    /\ bytes # <<>>
    /\ header = <<>>
    /\ Len(Assembled) = frame_header_size
    /\ HeaderError # "none"
    /\ header_bytes' = Assembled
    /\ error' = HeaderError
    /\ bytes' = <<>>
    /\ UNCHANGED <<header, payload, frames, sent, unread>>

\* start_frame() accepts the header and the same iteration goes on to the payload.
StartFrame ==
    /\ bytes # <<>>
    /\ header = <<>>
    /\ Len(Assembled) = frame_header_size
    /\ HeaderError = "none"
    /\ FillPayload(decode_frame_header(Assembled), Assembled, Rest(bytes, HeaderCopied))
    /\ UNCHANGED <<error, sent, unread>>

\* An iteration that begins inside a payload.
ContinueFrame ==
    /\ bytes # <<>>
    /\ header # <<>>
    /\ FillPayload(header[1], header_bytes, bytes)
    /\ UNCHANGED <<error, sent, unread>>

Iterate == PartialHeader \/ RejectHeader \/ StartFrame \/ ContinueFrame

\* Mutant: bytes of an unfinished header survive.
Cleared_KeepsHeaderBytes == header' = <<>> /\ payload' = <<>> /\ error' = "none"
                            /\ UNCHANGED header_bytes

\* What reset() does to the decoder.
Cleared == header' = <<>> /\ payload' = <<>> /\ error' = "none" /\ header_bytes' = <<>>

\* reset(), after which the decoder is used for a new byte stream.
reset ==
    /\ bytes = <<>>
    /\ Cleared
    /\ frames' = <<>>
    /\ sent' = <<>>
    /\ unread' = <<>>
    /\ UNCHANGED bytes

DecoderNext ==
    \/ \E f \in PeerFrames : Send(f)
    \/ \E n \in 1 .. copy_bytes(MaxRead, Len(unread)) : push(n)
    \/ Iterate
    \/ reset

DecoderSpec == DecoderInit /\ [][DecoderNext]_decodingVars

has_incomplete_frame == header # <<>> \/ header_bytes # <<>>

-----------------------------------------------------------------------------
(* Properties *)

\* Type invariant.  The memory held for a payload never exceeds the limit, whatever length
\* a peer declares.
DecoderTypeOK ==
    /\ Len(header_bytes) <= frame_header_size
    /\ Len(header) <= 1
    /\ error \in FrameValidationErrors \ {"payload_length_mismatch"}
    /\ \A i \in DOMAIN header : Len(payload) <= header[i].payload_size
    /\ \A i \in DOMAIN header : header[i].payload_size <= MaxPayloadSize

\* However the bytes are cut into reads, the frames returned are the frames that were sent,
\* in order and unchanged, up to the first invalid one, whose first fault is the error.
DecodesWhatWasSent ==
    /\ Len(frames) <= Len(sent)
    /\ \A i \in DOMAIN frames : frames[i] = sent[i] /\ validate_frame(sent[i]) = "none"
    /\ error # "none" =>
        Len(frames) < Len(sent) /\ error = validate_frame(sent[Len(frames) + 1])

\* Bytes of the first n frames sent.
Offset(n) ==
    LET sum[i \in 0 .. n] == IF i = 0 THEN 0 ELSE sum[i - 1] + frame_header_size + Len(sent[i].payload)
    IN  sum[n]

\* No read ends with something withheld that its bytes already decide: a frame is returned
\* with its last byte, an empty one with its header, an invalid one is reported with its
\* header, and has_incomplete_frame() says whether the stream stopped inside a frame.
NothingWithheld ==
    LET n == Len(frames)
        begun == Offset(Len(sent)) - Len(unread) - Offset(n)  \* bytes received of frame n + 1
    IN  bytes = <<>> =>
        /\ error = "none" => (has_incomplete_frame <=> begun # 0)
        /\ n < Len(sent) =>
            IF validate_frame(sent[n + 1]) = "none"
            THEN begun < frame_header_size + Len(sent[n + 1].payload)
            ELSE error # "none" <=> begun >= frame_header_size
=============================================================================
