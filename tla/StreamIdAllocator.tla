-------------------------- MODULE StreamIdAllocator --------------------------
(***************************************************************************)
(* The allocator of the stream identifiers one endpoint owns:              *)
(* include/rillnet/stream_id_allocator.hpp.                                *)
(*                                                                         *)
(* A client owns the odd identifiers, a server the even ones.  Identifiers *)
(* are uint64_t values in the code; here they are naturals below Modulus,  *)
(* and the one addition of the code wraps at Modulus.                      *)
(***************************************************************************)
EXTENDS Integers

CONSTANTS
    Initiator,  \* StreamInitiator: "client" or "server"
    Maximum,    \* the constructor's inclusive maximum
    Modulus     \* number of values of the identifier's integer type (2^64)

ASSUME AllocatorAssumption ==
    /\ Initiator \in {"client", "server"}
    /\ Maximum \in Nat
    /\ Modulus \in Nat
    /\ Modulus > 2
    /\ Maximum < Modulus

\* StreamIdAllocator::first_id and last_id.
first_id == IF Initiator = "client" THEN 1 ELSE 2

last_id ==
    IF Initiator = "client"
    THEN IF Maximum % 2 = 1 \/ Maximum = 0 THEN Maximum ELSE Maximum - 1
    ELSE IF Maximum % 2 = 0 THEN Maximum ELSE Maximum - 1

VARIABLES
    next,       \* next_: the next never-issued identifier, 0 when there is none
    in_use,     \* in_use_
    available   \* available_: released identifiers

allocVars == <<next, in_use, available>>

\* The sum of two identifier values, as the unsigned addition computes it.
Wrap(n) == IF n < Modulus THEN n ELSE n - Modulus

\* The identifiers this endpoint may ever issue.
OwnIds == {i \in 1..Maximum : i % 2 = first_id % 2}

AllocInit ==
    /\ next = first_id
    /\ in_use = {}
    /\ available = {}

-----------------------------------------------------------------------------
\* allocate(), first branch: the smallest released identifier is issued again.
AllocateReleased(stream) ==
    /\ stream \in available
    /\ \A other \in available : stream <= other
    /\ available' = available \ {stream}
    /\ in_use' = in_use \cup {stream}
    /\ UNCHANGED next

\* allocate(), second branch: nothing released and nothing left to issue.
Exhausted == available = {} /\ (next = 0 \/ next > last_id)

AllocateExhausted ==
    /\ Exhausted
    /\ next' = 0
    /\ UNCHANGED <<in_use, available>>

\* Mutant: no end-of-range test, so the unsigned addition wraps.
NextAfterIssue_NoGuard == Wrap(next + 2)

\* Mutant: off by one at the end of the range, the last identifier is never issued.
NextAfterIssue_OffByOne == IF last_id - next < 3 THEN 0 ELSE Wrap(next + 2)

\* How allocate() moves next_ past the identifier it has just issued.
NextAfterIssue == IF last_id - next < 2 THEN 0 ELSE Wrap(next + 2)

\* allocate(), last branch: a fresh identifier.
AllocateFresh(stream) ==
    /\ available = {}
    /\ stream = next
    /\ next # 0
    /\ next <= last_id
    /\ in_use' = in_use \cup {stream}
    /\ next' = NextAfterIssue
    /\ UNCHANGED available

\* allocate() returning an identifier.
Allocate(stream) == AllocateReleased(stream) \/ AllocateFresh(stream)

\* The early return of release(): not an identifier of this endpoint.
Releasable(stream) ==
    /\ stream # 0
    /\ stream <= last_id
    /\ stream % 2 = first_id % 2

\* Mutant: the released identifier stays in the live set.
Release_KeepsInUse(stream) ==
    /\ available' = IF Releasable(stream) /\ stream \in in_use
                    THEN available \cup {stream} ELSE available
    /\ UNCHANGED <<next, in_use>>

\* release(): foreign and unissued identifiers, and a second release, are ignored.
Release(stream) ==
    /\ IF Releasable(stream) /\ stream \in in_use
       THEN /\ in_use' = in_use \ {stream}
            /\ available' = available \cup {stream}
       ELSE UNCHANGED <<in_use, available>>
    /\ UNCHANGED next

\* An owner that gives the identifier back before it suspends: allocate() and
\* release() of its result in one step.
AllocateThenRelease(stream) ==
    /\ UNCHANGED in_use
    /\ \/ /\ stream \in available
          /\ \A other \in available : stream <= other
          /\ UNCHANGED <<next, available>>
       \/ /\ available = {}
          /\ stream = next
          /\ next # 0
          /\ next <= last_id
          /\ available' = available \cup {stream}
          /\ next' = NextAfterIssue

\* Callers hold identifiers of either parity, and the invalid identifier 0.
StreamIds == 0 .. Maximum + 1

AllocNext ==
    \/ AllocateExhausted
    \/ \E stream \in StreamIds : Allocate(stream) \/ Release(stream)

AllocSpec == AllocInit /\ [][AllocNext]_allocVars

-----------------------------------------------------------------------------
(* Properties *)

\* Type invariant of the allocator's state.
AllocTypeOK ==
    /\ next \in Nat
    /\ next < Modulus
    /\ in_use \subseteq OwnIds
    /\ available \subseteq OwnIds

\* The identifiers issued so far: all of them once next_ is 0, else those below next_.
Issued == {i \in OwnIds : next = 0 \/ i < next}

\* in_use_ and available_ split the issued identifiers between them: no identifier
\* is lost, held twice, or both live and free, however allocate() and release()
\* are interleaved and also when next_ reaches the end of the identifier space.
Partition ==
    /\ in_use \cap available = {}
    /\ in_use \cup available = Issued
    /\ next # 0 => next % 2 = first_id % 2

\* allocate() never returns an identifier that a live operation still holds.
FreshGrant == [][\A stream \in StreamIds : Allocate(stream) => stream \notin in_use]_allocVars

\* allocate() would report exhaustion only when every identifier of the endpoint is live.
ExhaustedOnlyWhenFull == Exhausted => in_use = OwnIds
=============================================================================
