------------------------------- MODULE Protocol -------------------------------
(***************************************************************************)
(* Frames and status codes as the two endpoints see them: frame.hpp,       *)
(* frame_flags.hpp, status_code.hpp and protocol_violation.hpp.  A payload *)
(* is the request it carries or answers, a status, or "garbage" for bytes  *)
(* that do not decode.                                                     *)
(***************************************************************************)

TransportStatuses ==
    {"transport_error", "connection_closed", "connection_reset", "connection_timed_out"}

ProtocolStatuses == {"protocol_error", "unsupported_version", "malformed_frame", "unknown_stream"}

\* The codes decode_error_status() accepts from a peer.
WireStatuses ==
    ProtocolStatuses
        \cup {"serialization_error", "unknown_message_type", "decode_error", "operation_error",
              "timeout_error", "cancelled", "resource_limit_exceeded"}

StatusCodes == {"ok"} \cup TransportStatuses \cup WireStatuses

\* decode_error_status(): "none" stands for nullopt.
decode_error_status(payload) == IF payload \in WireStatuses THEN payload ELSE "none"

\* A frame: its type, which of the exclusive flags cancel and error it carries, its
\* stream, whether end_of_stream is set, and its payload.
Frame(type, flag, stream, end, payload) ==
    [type |-> type, flag |-> flag, stream |-> stream, end |-> end, payload |-> payload]

RequestFrame(stream, payload) == Frame("request", "none", stream, FALSE, payload)

\* What ClientConnection::send_cancellation() sends.
CancelFrame(stream) == Frame("request", "cancel", stream, TRUE, "empty")

\* What ServerConnection::handle() sends.
ResponseFrame(stream, payload) == Frame("response", "none", stream, TRUE, payload)

make_error_frame(stream, status) == Frame("response", "error", stream, TRUE, status)
=============================================================================
