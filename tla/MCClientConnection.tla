------------------------- MODULE MCClientConnection -------------------------
EXTENDS ClientConnection

CONSTANTS r1, r2, r3

\* What the decoder may let through: responses that decode or not, errors with a status
\* a client accepts or not, cancellations, and a frame that is no response at all.  None
\* of them need end a stream; for errors and cancellations one stream, which every request
\* may be given, shows that.
AnyFrames ==
    {Frame("response", "none", s, e, p) :
            s \in Streams, e \in BOOLEAN, p \in Replies \cup {"garbage"}}
        \cup {make_error_frame(s, p) : s \in Streams, p \in {"operation_error", "connection_closed"}}
        \cup {Frame("response", "cancel", s, TRUE, "empty") : s \in Streams}
        \cup {Frame("response", "error", 1, FALSE, "operation_error"),
              Frame("response", "cancel", 1, FALSE, "empty")}
        \cup {RequestFrame(1, "reply")}
=============================================================================
