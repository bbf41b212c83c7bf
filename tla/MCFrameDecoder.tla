---------------------------- MODULE MCFrameDecoder ----------------------------
EXTENDS FrameDecoder

FrameOf(major, type, flags, stream, body) ==
    [header |-> [major |-> major, minor |-> 1, type |-> type, flags |-> flags, stream |-> stream,
                 payload_size |-> Len(body)],
     payload |-> body]

\* The largest stream identifier, whose bytes differ.
LargeStream == ByteValues ^ StreamWidth - 2

\* A frame without payload, one with a payload at the limit, and invalid ones: another
\* version, flags that exclude each other, a payload over the limit, and one that is wrong
\* in its type, its flags and its stream.
TestFrames ==
    {FrameOf(0, request, cancel + end_of_stream, 1, <<>>),
     FrameOf(0, response, end_of_stream, LargeStream, <<0, 1>>),
     FrameOf(1, request, 0, 1, <<>>),
     FrameOf(0, response, cancel + error_flag, 1, <<>>),
     FrameOf(0, request, 0, 1, <<1, 1, 1>>),
     FrameOf(0, 3, 8, 0, <<1>>)}
=============================================================================
