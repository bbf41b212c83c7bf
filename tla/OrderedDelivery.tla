--------------------------- MODULE OrderedDelivery ---------------------------
(***************************************************************************)
(* What a connection's write path promises, whatever its buffers, limits   *)
(* and wake-ups: the frames it accepts reach the transport in the order of *)
(* acceptance, each at most once, and nothing is accepted after closing.   *)
(***************************************************************************)
EXTENDS Sequences, Naturals

CONSTANT Frames

VARIABLES accepted, written, closed

deliveryVars == <<accepted, written, closed>>

DeliveryInit == accepted = <<>> /\ written = <<>> /\ closed = FALSE

Accept(f) ==
    /\ ~closed
    /\ accepted' = Append(accepted, f)
    /\ UNCHANGED <<written, closed>>

Deliver ==
    /\ Len(written) < Len(accepted)
    /\ written' = Append(written, accepted[Len(written) + 1])
    /\ UNCHANGED <<accepted, closed>>

CloseDelivery == closed' = TRUE /\ UNCHANGED <<accepted, written>>

DeliveryNext == Deliver \/ CloseDelivery \/ \E f \in Frames : Accept(f)

DeliverySpec == DeliveryInit /\ [][DeliveryNext]_deliveryVars
=============================================================================
