---------------------------- MODULE MessageRegistry ----------------------------
(***************************************************************************)
(* include/rillnet/message_registry.hpp, message_codec.hpp and PodCodec    *)
(* (codec.hpp), with the handlers_ of a ServerConnection: each end binds   *)
(* C++ message types to wire identifiers in a registry of its own, at any  *)
(* time, and messages travel as [ identifier | bytes of the value ].       *)
(***************************************************************************)
EXTENDS FrameCodec

CONSTANTS
    Messages,     \* C++ message types
    NoMessage,    \* nullopt for a message type
    Sizes,        \* sizeof() of each message type
    Supported,    \* the trivially copyable ones: Codec<PodCodec, Message>
    MessageIds,   \* identifiers the applications register; 0 is invalid
    Versions,     \* protocol versions with registrations
    Current,      \* current_protocol_version
    Raw           \* payloads a foreign peer may send

ASSUME RegistryAssumption ==
    /\ NoMessage \notin Messages
    /\ Sizes \in [Messages -> Nat]
    /\ Supported \subseteq Messages
    /\ \A id \in MessageIds : Fits(id, 4)  \* MessageType: a uint32_t
    /\ Current \in Versions

Ends == {"client", "server"}

VARIABLES
    by_id,     \* registrations_[version].by_id of each end, NoMessage where absent
    by_type,   \* registrations_[version].by_type of each end, 0 where absent
    handlers,  \* handlers_ of the server: the Request of the handler of each identifier
    wire       \* at most one request on its way to the server, with what it was made from

vars == <<by_id, by_type, handlers, wire>>

Init ==
    /\ by_id = [e \in Ends |-> [v \in Versions |-> [id \in MessageIds |-> NoMessage]]]
    /\ by_type = [e \in Ends |-> [v \in Versions |-> [m \in Messages |-> 0]]]
    /\ handlers = [id \in MessageIds |-> NoMessage]
    /\ wire = <<>>

-----------------------------------------------------------------------------
(* MessageRegistry *)

\* Mutant: an identifier can be given to a second type.
RegistrationError_SharedId(e, v, m, id) ==
    IF id = 0 THEN "invalid_id"
    ELSE IF by_type[e][v][m] # 0 THEN "duplicate_type"
    ELSE IF m \notin Supported THEN "unsupported_message_type"
    ELSE "none"

\* Mutant: a type can be given a second identifier.
RegistrationError_SharedType(e, v, m, id) ==
    IF id = 0 THEN "invalid_id"
    ELSE IF by_id[e][v][id] # NoMessage THEN "duplicate_id"
    ELSE IF m \notin Supported THEN "unsupported_message_type"
    ELSE "none"

\* What register_message() returns, in the order of its tests.
RegistrationError(e, v, m, id) ==
    IF id = 0 THEN "invalid_id"
    ELSE IF by_id[e][v][id] # NoMessage THEN "duplicate_id"
    ELSE IF by_type[e][v][m] # 0 THEN "duplicate_type"
    ELSE IF m \notin Supported THEN "unsupported_message_type"
    ELSE "none"

\* register_message<m>(v, id); a refused registration changes nothing.
register_message(e, v, m, id) ==
    /\ RegistrationError(e, v, m, id) = "none"
    /\ by_id' = [by_id EXCEPT ![e][v][id] = m]
    /\ by_type' = [by_type EXCEPT ![e][v][m] = id]
    /\ UNCHANGED <<handlers, wire>>

\* message_type<m>(v): 0 stands for nullopt.
message_type(e, v, m) == by_type[e][v][m]

\* message_type(v, id), the look-up in the other direction.
type_of_id(e, v, id) == by_id[e][v][id]

-----------------------------------------------------------------------------
(* PodCodec and message_codec.hpp *)

message_type_size == 4

\* The in-memory representations a value of type m may have.
ValuesOf(m) == [1 .. Sizes[m] -> {0, ByteValues - 1}]

\* Mutant: the size of the bytes is not compared with the type's.
DecodeBody_AnySize(m, body) == [status |-> "ok", value |-> body]

\* PodCodec::decode<m>(): the bytes are the value, if there are as many as it has.
DecodeBody(m, body) ==
    IF Len(body) # Sizes[m] THEN [status |-> "decode_error"]
    ELSE [status |-> "ok", value |-> body]

\* encode_message_payload(): PodCodec::encode() copies the value's bytes and cannot fail.
encode_message_payload(e, v, m, value) == write_be(message_type(e, v, m), message_type_size) \o value

\* The status of encode_message().
EncodeStatus(e, v, m) ==
    IF message_type(e, v, m) = 0 THEN "unknown_message_type"
    ELSE IF message_type_size + Sizes[m] > MaxPayloadSize THEN "resource_limit_exceeded"
    ELSE "ok"

\* peek_message_type(): <<>> stands for nullopt.
peek_message_type(payload) ==
    IF Len(payload) < message_type_size THEN <<>>
    ELSE <<read_be(SubSeq(payload, 1, message_type_size))>>

\* decode_message<m>() and decode_message_payload<m>() of a frame of version v.
decode_message(e, v, m, payload) ==
    LET wire_type == peek_message_type(payload)
    IN  IF wire_type = <<>> THEN [status |-> "decode_error"]
        ELSE IF message_type(e, v, m) = 0 \/ wire_type # <<message_type(e, v, m)>>
        THEN [status |-> "unknown_message_type"]
        ELSE DecodeBody(m, SubSeq(payload, message_type_size + 1, Len(payload)))

-----------------------------------------------------------------------------
(* The connections *)

\* Mutant: a handler is stored although its request has no identifier.
handle_Unregistered(m) ==
    /\ \E id \in MessageIds \ {0} :
        /\ message_type("server", Current, m) \in {0, id}
        /\ handlers' = [handlers EXCEPT ![id] = m]
    /\ UNCHANGED <<by_id, by_type, wire>>

\* ServerConnection::handle<m>(): without a registration the handler is silently dropped.
handle(m) ==
    /\ message_type("server", Current, m) # 0
    /\ handlers' = [handlers EXCEPT ![message_type("server", Current, m)] = m]
    /\ UNCHANGED <<by_id, by_type, wire>>

\* ClientConnection::send<m>() puts a request on the wire if it encodes.
SendRequest(m, value) ==
    /\ wire = <<>>
    /\ EncodeStatus("client", Current, m) = "ok"
    /\ wire' = <<[message |-> m, payload |-> encode_message_payload("client", Current, m, value)]>>
    /\ UNCHANGED <<by_id, by_type, handlers>>

\* A peer that is not this library sends some payload.
SendRaw(payload) ==
    /\ wire = <<>>
    /\ wire' = <<[message |-> NoMessage, payload |-> payload]>>
    /\ UNCHANGED <<by_id, by_type, handlers>>

\* handlers_.find() on a payload's identifier: the handler's request type, or NoMessage.
HandlerOf(payload) ==
    LET wire_type == peek_message_type(payload)
    IN  IF wire_type = <<>> \/ wire_type[1] \notin MessageIds THEN NoMessage
        ELSE handlers[wire_type[1]]

\* The server's reaction: an error for want of an identifier or of a handler, or what the
\* handler found decodes.  The code decodes later than it looks the handler up, in the
\* spawned lambda; registrations are permanent, so that the result is the same.
Reaction(payload) ==
    IF peek_message_type(payload) = <<>> THEN [status |-> "decode_error"]
    ELSE IF HandlerOf(payload) = NoMessage THEN [status |-> "unknown_message_type"]
    ELSE decode_message("server", Current, HandlerOf(payload), payload)

Receive ==
    /\ wire # <<>>
    /\ wire' = <<>>
    /\ UNCHANGED <<by_id, by_type, handlers>>

Next ==
    \/ \E e \in Ends, v \in Versions, m \in Messages, id \in MessageIds :
        register_message(e, v, m, id)
    \/ \E m \in Messages : handle(m)
    \/ \E m \in Messages : \E value \in ValuesOf(m) : SendRequest(m, value)
    \/ \E payload \in Raw : SendRaw(payload)
    \/ Receive

Spec == Init /\ [][Next]_vars

-----------------------------------------------------------------------------
(* Properties *)

\* Type invariant.  No type is bound to the identifier zero, which the wire has for none.
TypeOK ==
    /\ by_id \in [Ends -> [Versions -> [MessageIds -> Supported \cup {NoMessage}]]]
    /\ by_type \in [Ends -> [Versions -> [Messages -> MessageIds \cup {0}]]]
    /\ handlers \in [MessageIds -> Messages \cup {NoMessage}]
    /\ \A e \in Ends, v \in Versions : \A id \in MessageIds : by_id[e][v][id] # NoMessage => id # 0
    /\ Len(wire) <= 1

\* The two maps of a registry are inverse to each other, whatever registrations were
\* accepted and refused: both look-ups of message_type() tell the same story.
InverseMaps ==
    \A e \in Ends, v \in Versions, m \in Messages, id \in MessageIds \ {0} :
        by_id[e][v][id] = m <=> by_type[e][v][m] = id

\* The handler found for an identifier expects the type the server bound to it, so that no
\* request given to a handler is refused for its type: only its size can be wrong.
OwnHandler ==
    \A id \in MessageIds : handlers[id] # NoMessage =>
        id # 0 /\ message_type("server", Current, handlers[id]) = id

\* Both maps and the handlers describe one binding of types to identifiers.
RegistryConsistent == TypeOK /\ InverseMaps /\ OwnHandler

\* A message encoded by one end decodes at the other to the same value where both ends
\* gave its type the same identifier, and as no other type, even one of the same size.
RoundTrip ==
    \A from, to \in Ends, v \in Versions, m, other \in Messages :
        (/\ EncodeStatus(from, v, m) = "ok"
         /\ message_type(to, v, m) = message_type(from, v, m))
        => \A value \in ValuesOf(m) :
            LET decoded == decode_message(to, v, other, encode_message_payload(from, v, m, value))
            IN  IF other = m THEN decoded = [status |-> "ok", value |-> value]
                ELSE decoded.status = "unknown_message_type"

\* The ends do not give one identifier to two types.
Agree ==
    \A id \in MessageIds \ {0} :
        LET types == {type_of_id(e, Current, id) : e \in Ends}
        IN  NoMessage \in types \/ \E m \in Messages : types = {m}

\* The request on the wire reaches a handler of its own type or none, whatever was
\* registered or handled after it was sent, unless the ends disagree; and a handler only
\* ever sees a value of its type.
HandlerGetsItsType ==
    \A i \in DOMAIN wire :
        LET reaction == Reaction(wire[i].payload)
            handler == HandlerOf(wire[i].payload)
        IN  reaction.status = "ok" =>
            /\ Len(reaction.value) = Sizes[handler]
            /\ Agree /\ wire[i].message # NoMessage => handler = wire[i].message

\* A request that the server would handle when it was sent is still handled, with the same
\* result, when it arrives.
StaysHandled ==
    [][\A i \in DOMAIN wire :
        (wire' = wire /\ Reaction(wire[i].payload).status = "ok")
            => Reaction(wire[i].payload)' = Reaction(wire[i].payload)]_vars
=============================================================================
