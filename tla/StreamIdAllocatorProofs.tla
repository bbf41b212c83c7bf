----------------------- MODULE StreamIdAllocatorProofs -----------------------
(***************************************************************************)
(* The allocator is correct for every initiator, every maximum and every   *)
(* width of the identifier type.                                           *)
(***************************************************************************)
EXTENDS StreamIdAllocator, TLAPS

\* The inductive invariant: the partition needs the types and the parity of next.
AllocInv == AllocTypeOK /\ Partition

\* last_id is the largest identifier of the endpoint not above the maximum.
LEMMA LastId ==
    /\ last_id \in Nat
    /\ last_id <= Maximum
    /\ Maximum <= last_id + 1
    /\ last_id # 0 => last_id % 2 = first_id % 2
    /\ OwnIds = {i \in 1..last_id : i % 2 = first_id % 2}
<1>1. /\ last_id \in Nat
      /\ last_id <= Maximum
      /\ Maximum <= last_id + 1
      /\ last_id # 0 => last_id % 2 = first_id % 2
  BY AllocatorAssumption DEF last_id, first_id
<1>2. \A i \in 1..Maximum : i % 2 = first_id % 2 => i <= last_id
  BY AllocatorAssumption DEF last_id, first_id
<1> QED BY <1>1, <1>2, AllocatorAssumption DEF OwnIds

\* The empty allocator satisfies the invariant: nothing is issued yet.
LEMMA AllocInitInv == AllocInit => AllocInv
<1> SUFFICES ASSUME AllocInit PROVE AllocInv
  OBVIOUS
<1> USE AllocatorAssumption DEF AllocInit
<1>1. AllocTypeOK
  BY DEF AllocTypeOK, first_id
<1>2. \A i \in OwnIds : ~(i < first_id)
  BY DEF OwnIds, first_id
<1>3. Partition
  BY <1>2 DEF Partition, Issued, first_id
<1> QED BY <1>1, <1>3 DEF AllocInv

\* A fresh identifier extends Issued by exactly itself.
LEMMA FreshIssue ==
    ASSUME AllocInv, next # 0, next <= last_id, next' = NextAfterIssue
    PROVE  /\ next \in OwnIds
           /\ next \notin Issued
           /\ next' \in Nat /\ next' < Modulus
           /\ next' # 0 => next' % 2 = first_id % 2
           /\ Issued' = Issued \cup {next}
<1> USE AllocatorAssumption DEF AllocInv
<1>0. next \notin Issued
  BY DEF Issued, OwnIds
<1>1. next \in OwnIds /\ next \in 1..last_id /\ next % 2 = first_id % 2
  BY LastId DEF AllocTypeOK, Partition
<1>2. CASE last_id - next < 2
  <2>1. next' = 0
    BY <1>2 DEF NextAfterIssue
  <2>2. next = last_id
    BY <1>1, <1>2, LastId DEF first_id
  <2>3. \A i \in OwnIds : i < next \/ i = next
    BY <2>2, LastId
  <2>4. Issued' = OwnIds
    BY <2>1 DEF Issued, OwnIds
  <2>5. Issued \cup {next} = OwnIds
    BY <1>1, <2>3 DEF Issued
  <2> QED BY <1>0, <1>1, <2>1, <2>4, <2>5
<1>3. CASE ~(last_id - next < 2)
  <2>1. next + 2 <= last_id /\ next' = next + 2
    BY <1>1, <1>3, LastId DEF NextAfterIssue, Wrap
  <2>2. next' % 2 = first_id % 2
    BY <1>1, <2>1 DEF first_id
  <2>3. \A i \in OwnIds : i < next + 2 <=> (i < next \/ i = next)
    BY <1>1, LastId DEF OwnIds, first_id
  <2> QED BY <1>0, <1>1, <2>1, <2>2, <2>3, LastId DEF Issued
<1> QED BY <1>0, <1>2, <1>3

\* When nothing is available and next_ is past the end, everything has been issued.
LEMMA NothingLeft ==
    ASSUME AllocInv, Exhausted
    PROVE  Issued = OwnIds /\ in_use = OwnIds
<1>1. \A i \in OwnIds : next = 0 \/ i < next
  BY LastId, AllocatorAssumption DEF AllocInv, AllocTypeOK, Exhausted
<1>2. Issued = OwnIds
  BY <1>1 DEF Issued
<1> QED BY <1>2 DEF AllocInv, Partition, Exhausted

\* Every call of allocate() and release() preserves the invariant.
LEMMA AllocStepInv == AllocInv /\ [AllocNext]_allocVars => AllocInv'
<1> SUFFICES ASSUME AllocInv, [AllocNext]_allocVars PROVE AllocInv'
  OBVIOUS
<1>1. ASSUME NEW stream \in StreamIds, AllocateReleased(stream) PROVE AllocInv'
  <2>1. Issued' = Issued
    BY <1>1 DEF AllocateReleased, Issued
  <2>2. AllocTypeOK'
    BY <1>1 DEF AllocateReleased, AllocInv, AllocTypeOK
  <2>3. Partition'
    BY <1>1, <2>1 DEF AllocateReleased, AllocInv, Partition
  <2> QED BY <2>2, <2>3 DEF AllocInv
<1>2. CASE AllocateExhausted
  <2>1. Issued' = OwnIds
    BY <1>2 DEF AllocateExhausted, Issued
  <2>2. Partition'
    BY <1>2, <2>1, NothingLeft DEF AllocateExhausted, Exhausted, AllocInv, Partition
  <2>3. AllocTypeOK'
    BY <1>2, AllocatorAssumption DEF AllocateExhausted, AllocInv, AllocTypeOK
  <2> QED BY <2>2, <2>3 DEF AllocInv
<1>3. ASSUME NEW stream \in StreamIds, AllocateFresh(stream) PROVE AllocInv'
  <2>1. AllocTypeOK'
    BY <1>3, FreshIssue DEF AllocateFresh, AllocInv, AllocTypeOK
  <2>3. Partition'
    BY <1>3, FreshIssue DEF AllocateFresh, AllocInv, Partition
  <2> QED BY <2>1, <2>3 DEF AllocInv
<1>4. ASSUME NEW stream \in StreamIds, Release(stream) PROVE AllocInv'
  <2>1. Issued' = Issued
    BY <1>4 DEF Release, Issued
  <2>2. AllocTypeOK'
    BY <1>4 DEF Release, AllocInv, AllocTypeOK
  <2>3. Partition'
    BY <1>4, <2>1 DEF Release, AllocInv, Partition
  <2> QED BY <2>2, <2>3 DEF AllocInv
<1>5. CASE UNCHANGED allocVars
  BY <1>5 DEF allocVars, AllocInv, AllocTypeOK, Partition, Issued
<1> QED BY <1>1, <1>2, <1>3, <1>4, <1>5 DEF AllocNext, Allocate

\* An identifier that allocate() returns is the endpoint's own, and nobody holds it.
LEMMA Granted ==
    ASSUME AllocInv, NEW stream, Allocate(stream)
    PROVE  /\ stream \in OwnIds
           /\ stream \notin in_use
           /\ in_use' = in_use \cup {stream}
<1>1. CASE AllocateReleased(stream)
  BY <1>1 DEF AllocateReleased, AllocInv, AllocTypeOK, Partition
<1>2. CASE AllocateFresh(stream)
  BY <1>2, FreshIssue DEF AllocateFresh, AllocInv, Partition
<1> QED BY <1>1, <1>2 DEF Allocate

\* An identifier given back in the step that issues it is free and issued afterwards.
LEMMA ReturnedAtOnce ==
    ASSUME AllocInv, NEW stream, AllocateThenRelease(stream)
    PROVE  AllocInv' /\ stream \in OwnIds /\ stream \notin in_use
<1>1. CASE UNCHANGED <<next, available>> /\ stream \in available
  BY <1>1 DEF AllocateThenRelease, AllocInv, AllocTypeOK, Partition, Issued
<1>2. CASE ~(UNCHANGED <<next, available>> /\ stream \in available)
  <2>1. /\ available = {} /\ stream = next /\ next # 0 /\ next <= last_id
        /\ available' = {stream} /\ next' = NextAfterIssue /\ in_use' = in_use
    BY <1>2 DEF AllocateThenRelease
  <2>2. AllocTypeOK'
    BY <2>1, FreshIssue DEF AllocInv, AllocTypeOK
  <2>3. Partition'
    BY <2>1, FreshIssue DEF AllocInv, Partition
  <2> QED BY <2>1, <2>2, <2>3, FreshIssue DEF AllocInv, Partition
<1> QED BY <1>1, <1>2

\* For every maximum and width the allocator's state keeps its types: no identifier
\* of the wrong parity or above the maximum is ever issued or kept.
THEOREM AllocatorTypes == AllocSpec => []AllocTypeOK
<1>1. AllocInv => AllocTypeOK
  BY DEF AllocInv
<1> QED BY <1>1, AllocInitInv, AllocStepInv, PTL DEF AllocSpec

\* For every maximum and width in_use_ and available_ partition the issued identifiers.
THEOREM AllocatorPartition == AllocSpec => []Partition
<1>1. AllocInv => Partition
  BY DEF AllocInv
<1> QED BY <1>1, AllocInitInv, AllocStepInv, PTL DEF AllocSpec

\* allocate() never hands out an identifier that is in use.
THEOREM AllocatorFreshGrant == AllocSpec => FreshGrant
<1> DEFINE Fresh == \A stream \in StreamIds : Allocate(stream) => stream \notin in_use
<1>1. AllocInv /\ [AllocNext]_allocVars => [Fresh]_allocVars
  <2> SUFFICES ASSUME AllocInv, NEW stream \in StreamIds, Allocate(stream)
               PROVE  stream \notin in_use
    OBVIOUS
  <2> QED BY Granted
<1> QED BY <1>1, AllocInitInv, AllocStepInv, PTL DEF AllocSpec, FreshGrant

\* allocate() reports exhaustion only when every identifier of the endpoint is live.
THEOREM AllocatorExhaustion == AllocSpec => []ExhaustedOnlyWhenFull
<1>1. AllocInv => ExhaustedOnlyWhenFull
  BY NothingLeft DEF ExhaustedOnlyWhenFull
<1> QED BY <1>1, AllocInitInv, AllocStepInv, PTL DEF AllocSpec
=============================================================================
