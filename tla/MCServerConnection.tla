------------------------- MODULE MCServerConnection -------------------------
EXTENDS ServerConnection

CONSTANTS t1, t2

\* Requests on every stream, with and without end_of_stream, requests no handler takes,
\* cancellations, and a frame that is no request.
AnyFrames ==
    {Frame("request", "none", s, e, t) : s \in Streams, e \in BOOLEAN, t \in Tasks}
        \cup {Frame("request", "none", s, e, p) :
                s \in {1}, e \in BOOLEAN, p \in {"empty", "unregistered"}}
        \cup {Frame("request", "cancel", s, e, "empty") : s \in Streams, e \in BOOLEAN}
        \cup {ResponseFrame(1, "empty")}
=============================================================================
