------------------------------ MODULE CodecProofs ------------------------------
(***************************************************************************)
(* Theorems about the byte level: numbers and headers read back as they    *)
(* were written (FrameCodec), frames put together from reads               *)
(* (FrameDecoder), and messages between their types and identifiers        *)
(* (MessageRegistry).  Facts about every number or every prefix of a       *)
(* sequence are proved from the least counterexample (LeastNumber), since  *)
(* the library's induction rules take a predicate as their parameter.      *)
(***************************************************************************)
EXTENDS FrameDecoder, MessageRegistry, SequenceTheorems, WellFoundedInduction, TLAPS

-----------------------------------------------------------------------------
(* Numbers as bytes *)

\* Of the numbers with some property one is the least: the induction of this section, in a
\* form without a predicate as its parameter.
LEMMA LeastNumber ==
    ASSUME NEW C \in SUBSET Nat, C # {}
    PROVE  \E n \in C : \A m \in C : ~(m < n)
<1>1. IsWellFoundedOn(OpToRel(<, Nat), Nat)
  BY NatLessThanWellFounded
<1>2. \E n \in C : \A m \in C : <<m, n>> \notin OpToRel(<, Nat)
  BY <1>1, WFMin
<1>3. QED
  BY <1>2 DEF OpToRel

\* The function that shifts defines, on the shifts up to n.
Shifting(g, value, n) ==
    g = [k \in 0 .. n |-> IF k = 0 THEN value ELSE g[k - 1] \div ByteValues]

\* It exists.
LEMMA ShiftingExists ==
    ASSUME NEW value \in Nat, NEW width \in Nat
    PROVE  \E g : Shifting(g, value, width)
<1> DEFINE C == {n \in Nat : ~\E g : Shifting(g, value, n)}
<1> SUFFICES ASSUME C # {} PROVE FALSE
  OBVIOUS
<1>1. C \in SUBSET Nat
  OBVIOUS
<1> HIDE DEF C
<1>2. PICK n \in C : \A m \in C : ~(m < n)
  BY <1>1, LeastNumber
<1>3. n \in Nat /\ ~\E g : Shifting(g, value, n)
  BY <1>2 DEF C
<1>4. CASE n = 0
  <2>1. Shifting([k \in 0 .. 0 |-> value], value, 0)
    BY DEF Shifting
  <2>2. QED
    BY <1>3, <1>4, <2>1
<1>5. CASE n # 0
  <2>1. n - 1 \in Nat /\ n - 1 < n
    BY <1>3, <1>5
  <2>2. PICK g : Shifting(g, value, n - 1)
    BY <1>2, <2>1 DEF C
  <2> DEFINE h == [k \in 0 .. n |-> IF k = n THEN g[n - 1] \div ByteValues ELSE g[k]]
  <2>3. ASSUME NEW k \in 0 .. n
        PROVE  h[k] = IF k = 0 THEN value ELSE h[k - 1] \div ByteValues
    <3>1. CASE k = n
      <4>1. n - 1 \in 0 .. n /\ n - 1 # n /\ n \in 0 .. n
        BY <1>3, <2>1
      <4>2. h[n - 1] = g[n - 1] /\ h[n] = g[n - 1] \div ByteValues
        BY <4>1
      <4>3. QED
        BY <1>5, <3>1, <4>2
    <3>2. CASE k # n /\ k = 0
      <4>1. 0 \in 0 .. n - 1
        BY <2>1
      <4>2. QED
        BY <2>2, <3>2, <4>1 DEF Shifting
    <3>3. CASE k # n /\ k # 0
      <4>1. k \in 0 .. n - 1 /\ k - 1 \in 0 .. n /\ k - 1 # n
        BY <1>3, <3>3
      <4>2. h[k] = g[k] /\ h[k - 1] = g[k - 1]
        BY <3>3, <4>1
      <4>3. g[k] = g[k - 1] \div ByteValues
        BY <2>2, <3>3, <4>1 DEF Shifting
      <4>4. QED
        BY <3>3, <4>2, <4>3
    <3>4. QED
      BY <3>1, <3>2, <3>3
  <2>4. h = [k \in 0 .. n |-> h[k]]
    OBVIOUS
  <2> HIDE DEF h
  <2>5. Shifting(h, value, n)
    BY <2>3, <2>4 DEF Shifting
  <2>6. QED
    BY <1>3, <2>5
<1>6. QED
  BY <1>4, <1>5

\* Each shift takes a byte off the one before.
LEMMA ShiftsStep ==
    ASSUME NEW value \in Nat, NEW width \in Nat
    PROVE  /\ shifts(value, width)[0] = value
           /\ \A k \in 1 .. width :
                 shifts(value, width)[k] = shifts(value, width)[k - 1] \div ByteValues
<1>1. shifts(value, width) = CHOOSE g : Shifting(g, value, width)
  BY DEF shifts, Shifting
<1>2. Shifting(shifts(value, width), value, width)
  BY <1>1, ShiftingExists
<1>3. PICK s : s = shifts(value, width)
  OBVIOUS
<1>4. s = [k \in 0 .. width |-> IF k = 0 THEN value ELSE s[k - 1] \div ByteValues]
  BY <1>2, <1>3 DEF Shifting
<1>5. 0 \in 0 .. width /\ \A k \in 1 .. width : k \in 0 .. width /\ k # 0
  OBVIOUS
<1>6. s[0] = value /\ \A k \in 1 .. width : s[k] = s[k - 1] \div ByteValues
  BY <1>4, <1>5
<1>7. QED
  BY <1>3, <1>6

\* The shifts are numbers.
LEMMA ShiftsTyped ==
    ASSUME NEW value \in Nat, NEW width \in Nat
    PROVE  \A k \in 0 .. width : shifts(value, width)[k] \in Nat
<1> DEFINE s == shifts(value, width)
           C == {k \in 0 .. width : s[k] \notin Nat}
<1>1. s[0] = value /\ \A k \in 1 .. width : s[k] = s[k - 1] \div ByteValues
  BY ShiftsStep
<1> HIDE DEF s
<1> SUFFICES ASSUME C # {} PROVE FALSE
  BY DEF s
<1>2. C \in SUBSET Nat
  OBVIOUS
<1> HIDE DEF C
<1>3. PICK k \in C : \A m \in C : ~(m < k)
  BY <1>2, LeastNumber
<1>4. k \in 0 .. width /\ s[k] \notin Nat
  BY <1>3 DEF C
<1>5. k # 0
  BY <1>1, <1>4
<1>6. k \in 1 .. width /\ k - 1 \in 0 .. width /\ k - 1 < k
  BY <1>4, <1>5
<1>7. s[k - 1] \in Nat
  BY <1>3, <1>6 DEF C
<1>8. s[k - 1] \div ByteValues \in Nat
  BY <1>7, CodecAssumption
<1>9. QED
  BY <1>1, <1>4, <1>6, <1>8

\* A number is written in as many bytes as asked for.
LEMMA WriteTyped ==
    ASSUME NEW value \in Nat, NEW width \in Nat
    PROVE  /\ write_be(value, width) \in Seq(Octets)
           /\ Len(write_be(value, width)) = width
<1> DEFINE s == shifts(value, width)
<1>1. ASSUME NEW i \in 1 .. width PROVE s[width - i] % ByteValues \in Octets
  <2>1. width - i \in 0 .. width
    OBVIOUS
  <2>2. s[width - i] \in Nat
    BY <2>1, ShiftsTyped
  <2> HIDE DEF s
  <2>3. QED
    BY <2>2, CodecAssumption DEF Octets
<1> HIDE DEF s
<1>2. write_be(value, width) = [i \in 1 .. width |-> s[width - i] % ByteValues]
  BY DEF write_be, s
<1>3. QED
  BY <1>1, <1>2

\* The function that read_be computes with.
Reading(g, octets) ==
    g = [i \in 0 .. Len(octets) |-> IF i = 0 THEN 0 ELSE g[i - 1] * ByteValues + octets[i]]

\* There is only one.
LEMMA ReadingUnique ==
    ASSUME NEW octets \in Seq(Octets), NEW g, Reading(g, octets), NEW h, Reading(h, octets)
    PROVE  g[Len(octets)] = h[Len(octets)]
<1> DEFINE n == Len(octets)
           C == {i \in 0 .. n : g[i] # h[i]}
<1>1. n \in Nat
  OBVIOUS
<1>2. /\ \A i \in 0 .. n : g[i] = IF i = 0 THEN 0 ELSE g[i - 1] * ByteValues + octets[i]
      /\ \A i \in 0 .. n : h[i] = IF i = 0 THEN 0 ELSE h[i - 1] * ByteValues + octets[i]
  BY DEF Reading
<1> HIDE DEF n
<1>3. SUFFICES ASSUME C # {} PROVE FALSE
  <2>1. n \in 0 .. n
    BY <1>1
  <2>2. QED
    BY <2>1 DEF n
<1>4. C \in SUBSET Nat
  OBVIOUS
<1> HIDE DEF C
<1>5. PICK i \in C : \A m \in C : ~(m < i)
  BY <1>3, <1>4, LeastNumber
<1>6. i \in 0 .. n /\ g[i] # h[i]
  BY <1>5 DEF C
<1>7. i # 0
  BY <1>2, <1>6
<1>8. i - 1 \in 0 .. n /\ i - 1 < i
  BY <1>1, <1>6, <1>7
<1>9. g[i - 1] = h[i - 1]
  BY <1>5, <1>8 DEF C
<1>10. QED
  BY <1>2, <1>6, <1>7, <1>9

\* Reading back what was written of a value that fits gives the value.
LEMMA ReadWrite ==
    ASSUME NEW value, NEW width \in Nat, Fits(value, width)
    PROVE  read_be(write_be(value, width)) = value
<1> DEFINE s == shifts(value, width)
           octets == write_be(value, width)
           g == [i \in 0 .. width |-> s[width - i]]
<1>1. value \in Nat /\ s[width] = 0
  BY DEF Fits
<1>2. s[0] = value /\ \A k \in 1 .. width : s[k] = s[k - 1] \div ByteValues
  BY <1>1, ShiftsStep
<1>3. \A k \in 0 .. width : s[k] \in Nat
  BY <1>1, ShiftsTyped
<1>4. octets \in Seq(Octets) /\ Len(octets) = width
  BY <1>1, WriteTyped
<1>5. \A i \in 1 .. width : octets[i] = s[width - i] % ByteValues
  BY DEF write_be
<1> HIDE DEF s, octets
<1>6. ASSUME NEW i \in 0 .. width
      PROVE  g[i] = IF i = 0 THEN 0 ELSE g[i - 1] * ByteValues + octets[i]
  <2>1. CASE i = 0
    BY <1>1, <2>1
  <2>2. CASE i # 0
    <3>1. /\ i \in 1 .. width /\ i - 1 \in 0 .. width
          /\ width - i \in 0 .. width /\ width - (i - 1) \in 1 .. width
          /\ (width - (i - 1)) - 1 = width - i
      BY <2>2
    <3>2. PICK x \in Nat : x = s[width - i]
      BY <1>3, <3>1
    <3>3. g[i] = x /\ octets[i] = x % ByteValues
      BY <1>5, <3>1, <3>2
    <3>4. g[i - 1] = x \div ByteValues
      BY <1>2, <3>1, <3>2
    <3>5. (x \div ByteValues) * ByteValues + (x % ByteValues) = x
      BY CodecAssumption
    <3>6. QED
      BY <2>2, <3>3, <3>4, <3>5
  <2>3. QED
    BY <2>1, <2>2
<1>7. g = [i \in 0 .. width |-> g[i]] /\ g[width] = value
  BY <1>2
<1> HIDE DEF g
<1>8. Reading(g, octets)
  BY <1>4, <1>6, <1>7 DEF Reading
<1>9. read_be(octets) = (CHOOSE f : Reading(f, octets))[Len(octets)]
  BY DEF read_be, Reading
<1>10. Reading(CHOOSE f : Reading(f, octets), octets)
  BY <1>8
<1>11. read_be(octets) = g[Len(octets)]
  BY <1>4, <1>8, <1>9, <1>10, ReadingUnique
<1>12. QED
  BY <1>4, <1>7, <1>11 DEF octets

-----------------------------------------------------------------------------
(* Headers as bytes *)

\* The halves of a concatenation.
LEMMA Halves ==
    ASSUME NEW S, NEW s \in Seq(S), NEW t \in Seq(S)
    PROVE  /\ SubSeq(s \o t, 1, Len(s)) = s
           /\ SubSeq(s \o t, Len(s) + 1, Len(s) + Len(t)) = t
<1>1. /\ Len(s) \in Nat /\ Len(t) \in Nat
      /\ Len(s \o t) = Len(s) + Len(t)
      /\ \A i \in 1 .. Len(s) + Len(t) : (s \o t)[i] = IF i <= Len(s) THEN s[i] ELSE t[i - Len(s)]
      /\ s \o t \in Seq(S)
  BY ConcatProperties
<1>2. \A i \in 1 .. Len(s) + Len(t) : (s \o t)[i] \in S
  BY <1>1, ElementOfSeq
<1>3. SubSeq(s \o t, 1, Len(s)) = s
  <2>1. \A i \in 1 .. Len(s) : i \in 1 .. Len(s) + Len(t) /\ (s \o t)[i] = s[i]
    BY <1>1
  <2>2. /\ SubSeq(s \o t, 1, Len(s)) \in Seq(S)
        /\ Len(SubSeq(s \o t, 1, Len(s))) = Len(s)
        /\ \A i \in 1 .. Len(s) : SubSeq(s \o t, 1, Len(s))[i] = (s \o t)[i]
    BY <1>1, <1>2, <2>1, SubSeqProperties
  <2>3. QED
    BY <2>1, <2>2, SeqEqual
<1>4. SubSeq(s \o t, Len(s) + 1, Len(s) + Len(t)) = t
  <2> DEFINE u == SubSeq(s \o t, Len(s) + 1, Len(s) + Len(t))
  <2>1. \A i \in Len(s) + 1 .. Len(s) + Len(t) : (s \o t)[i] \in S
    BY <1>1, <1>2
  <2>2. /\ u \in Seq(S)
        /\ Len(u) = Len(t)
        /\ \A i \in 1 .. Len(t) : u[i] = (s \o t)[Len(s) + i]
    <3>1. /\ u \in Seq(S)
          /\ Len(u) = IF Len(s) + 1 <= Len(s) + Len(t) THEN Len(s) + Len(t) - (Len(s) + 1) + 1 ELSE 0
          /\ \A i \in 1 .. Len(s) + Len(t) - (Len(s) + 1) + 1 : u[i] = (s \o t)[Len(s) + 1 + i - 1]
      BY <1>1, <2>1, SubSeqProperties
    <3> HIDE DEF u
    <3>2. /\ Len(s) + Len(t) - (Len(s) + 1) + 1 = Len(t)
          /\ \A i \in 1 .. Len(t) : Len(s) + 1 + i - 1 = Len(s) + i
      BY <1>1
    <3>3. Len(u) = Len(t)
      BY <1>1, <3>1, <3>2
    <3>4. \A i \in 1 .. Len(t) : u[i] = (s \o t)[Len(s) + i]
      BY <3>1, <3>2
    <3>5. QED
      BY <3>1, <3>3, <3>4
  <2>3. \A i \in 1 .. Len(t) : (s \o t)[Len(s) + i] = t[i]
    BY <1>1
  <2> HIDE DEF u
  <2>4. u = t
    BY <2>2, <2>3, SeqEqual
  <2>5. QED
    BY <2>4 DEF u
<1>5. QED
  BY <1>3, <1>4

\* A part of the first half of a concatenation is that part of it.
LEMMA PartOfFirst ==
    ASSUME NEW S, NEW s \in Seq(S), NEW t \in Seq(S), NEW m \in Nat, NEW n \in Nat,
           1 <= m, m <= n, n <= Len(s)
    PROVE  SubSeq(s \o t, m, n) = SubSeq(s, m, n)
<1>1. m \in 1 .. Len(s) /\ n \in 1 .. Len(s)
  OBVIOUS
<1>2. QED
  BY <1>1, SubSeqOfConcat1

\* Two ways to cut the same sequence at the same place give the same parts.
LEMMA SameCut ==
    ASSUME NEW S, NEW a \in Seq(S), NEW b \in Seq(S), NEW c \in Seq(S), NEW d \in Seq(S),
           a \o b = c \o d, Len(a) = Len(c)
    PROVE  a = c /\ b = d
<1>1. Len(a \o b) = Len(a) + Len(b) /\ Len(c \o d) = Len(c) + Len(d)
  BY ConcatProperties
<1>2. Len(a) \in Nat /\ Len(b) \in Nat /\ Len(c) \in Nat /\ Len(d) \in Nat
  OBVIOUS
<1>3. Len(b) = Len(d)
  BY <1>1, <1>2
<1>4. /\ SubSeq(a \o b, 1, Len(a)) = a
      /\ SubSeq(a \o b, Len(a) + 1, Len(a) + Len(b)) = b
  BY Halves
<1>5. /\ SubSeq(c \o d, 1, Len(c)) = c
      /\ SubSeq(c \o d, Len(c) + 1, Len(c) + Len(d)) = d
  BY Halves
<1>6. QED
  BY <1>3, <1>4, <1>5

\* The fields of the encoded header, one after the other.
LEMMA EncodedHeader ==
    ASSUME NEW h \in FrameHeaders
    PROVE  /\ encode_frame_header(h) \in Seq(Octets)
           /\ Len(encode_frame_header(h)) = frame_header_size
           /\ decode_frame_header(encode_frame_header(h)) = h
<1> DEFINE A == write_be(h.major, VersionWidth)
           B == write_be(h.minor, VersionWidth)
           T == <<h.type, h.flags>>
           D == write_be(h.stream, StreamWidth)
           E == write_be(h.payload_size, SizeWidth)
<1>1. /\ Fits(h.major, VersionWidth) /\ Fits(h.minor, VersionWidth)
      /\ Fits(h.stream, StreamWidth) /\ Fits(h.payload_size, SizeWidth)
      /\ h.type \in Octets /\ h.flags \in Octets
      /\ h = [major |-> h.major, minor |-> h.minor, type |-> h.type, flags |-> h.flags,
              stream |-> h.stream, payload_size |-> h.payload_size]
  BY DEF FrameHeaders
<1>2. VersionWidth \in Nat \ {0} /\ StreamWidth \in Nat \ {0} /\ SizeWidth \in Nat \ {0}
  BY CodecAssumption
<1>3. /\ A \in Seq(Octets) /\ Len(A) = VersionWidth
      /\ B \in Seq(Octets) /\ Len(B) = VersionWidth
      /\ D \in Seq(Octets) /\ Len(D) = StreamWidth
      /\ E \in Seq(Octets) /\ Len(E) = SizeWidth
  BY <1>1, <1>2, WriteTyped DEF Fits
<1>4. read_be(A) = h.major /\ read_be(B) = h.minor /\ read_be(D) = h.stream
      /\ read_be(E) = h.payload_size
  BY <1>1, <1>2, ReadWrite
<1>5. T \in Seq(Octets) /\ Len(T) = 2 /\ T[1] = h.type /\ T[2] = h.flags
  BY <1>1
<1> DEFINE AB == A \o B
           ABT == AB \o T
           ABTD == ABT \o D
           all == ABTD \o E
<1>6. encode_frame_header(h) = all
  BY DEF encode_frame_header
<1> HIDE DEF A, B, T, D, E
<1>7. AB \in Seq(Octets) /\ Len(AB) = 2 * VersionWidth
  <2>1. AB \in Seq(Octets) /\ Len(AB) = Len(A) + Len(B)
    BY <1>3, ConcatProperties
  <2>2. QED
    BY <1>2, <1>3, <2>1
<1> HIDE DEF AB
<1>8. ABT \in Seq(Octets) /\ Len(ABT) = 2 * VersionWidth + 2
  <2>1. ABT \in Seq(Octets) /\ Len(ABT) = Len(AB) + Len(T)
    BY <1>5, <1>7, ConcatProperties
  <2>2. QED
    BY <1>5, <1>7, <2>1
<1> HIDE DEF ABT
<1>9. ABTD \in Seq(Octets) /\ Len(ABTD) = 2 * VersionWidth + 2 + StreamWidth
  <2>1. ABTD \in Seq(Octets) /\ Len(ABTD) = Len(ABT) + Len(D)
    BY <1>3, <1>8, ConcatProperties
  <2>2. QED
    BY <1>3, <1>8, <2>1
<1> HIDE DEF ABTD
<1>10. all \in Seq(Octets) /\ Len(all) = 2 * VersionWidth + 2 + StreamWidth + SizeWidth
  <2>1. all \in Seq(Octets) /\ Len(all) = Len(ABTD) + Len(E)
    BY <1>3, <1>9, ConcatProperties
  <2>2. QED
    BY <1>3, <1>9, <2>1
<1>11. SubSeq(all, 1, VersionWidth) = A
  <2>1. SubSeq(all, 1, VersionWidth) = SubSeq(ABTD, 1, VersionWidth)
    BY <1>2, <1>3, <1>9, PartOfFirst
  <2>2. SubSeq(ABTD, 1, VersionWidth) = SubSeq(ABT, 1, VersionWidth)
    BY <1>2, <1>3, <1>8, PartOfFirst DEF ABTD
  <2>3. SubSeq(ABT, 1, VersionWidth) = SubSeq(AB, 1, VersionWidth)
    BY <1>2, <1>5, <1>7, PartOfFirst DEF ABT
  <2>4. SubSeq(AB, 1, VersionWidth) = A
    BY <1>3, Halves DEF AB
  <2>5. QED
    BY <2>1, <2>2, <2>3, <2>4
<1>12. SubSeq(all, VersionWidth + 1, 2 * VersionWidth) = B
  <2>0. VersionWidth + 1 \in Nat /\ 2 * VersionWidth \in Nat /\ 1 <= VersionWidth + 1
        /\ VersionWidth + 1 <= 2 * VersionWidth /\ 2 * VersionWidth = VersionWidth + VersionWidth
    BY <1>2
  <2>1. SubSeq(all, VersionWidth + 1, 2 * VersionWidth) = SubSeq(ABTD, VersionWidth + 1, 2 * VersionWidth)
    BY <1>2, <1>3, <1>9, <2>0, PartOfFirst
  <2>2. SubSeq(ABTD, VersionWidth + 1, 2 * VersionWidth) = SubSeq(ABT, VersionWidth + 1, 2 * VersionWidth)
    BY <1>2, <1>3, <1>8, <2>0, PartOfFirst DEF ABTD
  <2>3. SubSeq(ABT, VersionWidth + 1, 2 * VersionWidth) = SubSeq(AB, VersionWidth + 1, 2 * VersionWidth)
    BY <1>2, <1>5, <1>7, <2>0, PartOfFirst DEF ABT
  <2>4. SubSeq(AB, VersionWidth + 1, VersionWidth + VersionWidth) = B
    BY <1>3, Halves DEF AB
  <2>5. QED
    BY <2>0, <2>1, <2>2, <2>3, <2>4
<1>13. all[2 * VersionWidth + 1] = h.type /\ all[2 * VersionWidth + 2] = h.flags
  <2>1. ABT[2 * VersionWidth + 1] = T[1] /\ ABT[2 * VersionWidth + 2] = T[2]
    BY <1>2, <1>5, <1>7, ConcatProperties DEF ABT
  <2>2. \A i \in 1 .. 2 * VersionWidth + 2 : ABTD[i] = ABT[i]
    BY <1>2, <1>3, <1>8, ConcatProperties DEF ABTD
  <2>3. \A i \in 1 .. 2 * VersionWidth + 2 : all[i] = ABTD[i]
    BY <1>2, <1>3, <1>9, ConcatProperties
  <2>4. 2 * VersionWidth + 1 \in 1 .. 2 * VersionWidth + 2
        /\ 2 * VersionWidth + 2 \in 1 .. 2 * VersionWidth + 2
    BY <1>2
  <2> HIDE DEF all
  <2>5. QED
    BY <1>5, <2>1, <2>2, <2>3, <2>4
<1>14. SubSeq(all, 2 * VersionWidth + 3, 2 * VersionWidth + 2 + StreamWidth) = D
  <2>0. /\ 2 * VersionWidth + 2 + 1 = 2 * VersionWidth + 3
        /\ 2 * VersionWidth + 3 \in Nat /\ 1 <= 2 * VersionWidth + 3
        /\ 2 * VersionWidth + 2 + StreamWidth \in Nat
        /\ 2 * VersionWidth + 3 <= 2 * VersionWidth + 2 + StreamWidth
    BY <1>2
  <2>1. SubSeq(all, 2 * VersionWidth + 3, 2 * VersionWidth + 2 + StreamWidth)
            = SubSeq(ABTD, 2 * VersionWidth + 3, 2 * VersionWidth + 2 + StreamWidth)
    <3>1. 2 * VersionWidth + 2 + StreamWidth <= Len(ABTD)
      BY <1>9, <2>0
    <3>2. QED
      BY <1>3, <1>9, <2>0, <3>1, PartOfFirst
  <2>2. SubSeq(ABTD, 2 * VersionWidth + 2 + 1, 2 * VersionWidth + 2 + StreamWidth) = D
    <3>1. SubSeq(ABT \o D, Len(ABT) + 1, Len(ABT) + Len(D)) = D
      BY <1>3, <1>8, Halves
    <3>2. Len(ABT) = 2 * VersionWidth + 2 /\ Len(D) = StreamWidth
      BY <1>3, <1>8
    <3>3. QED
      BY <3>1, <3>2 DEF ABTD
  <2>3. QED
    BY <2>0, <2>1, <2>2
<1>15. SubSeq(all, 2 * VersionWidth + 2 + StreamWidth + 1,
                   2 * VersionWidth + 2 + StreamWidth + SizeWidth) = E
  <2>1. SubSeq(all, Len(ABTD) + 1, Len(ABTD) + Len(E)) = E
    BY <1>3, <1>9, Halves
  <2>2. QED
    BY <1>3, <1>9, <2>1, Zenon
<1> HIDE DEF all
<1>16. /\ 2 * VersionWidth + 1 + 1 = 2 * VersionWidth + 2
       /\ 2 * VersionWidth + 1 + 2 = 2 * VersionWidth + 3
       /\ 2 * VersionWidth + 1 + 2 + StreamWidth - 1 = 2 * VersionWidth + 2 + StreamWidth
       /\ 2 * VersionWidth + 1 + 2 + StreamWidth = 2 * VersionWidth + 2 + StreamWidth + 1
       /\ 2 * VersionWidth + 1 + 2 + StreamWidth + SizeWidth - 1
            = 2 * VersionWidth + 2 + StreamWidth + SizeWidth
  BY <1>2
<1>17. decode_frame_header(all)
           = [major |-> h.major, minor |-> h.minor, type |-> h.type, flags |-> h.flags,
              stream |-> h.stream, payload_size |-> h.payload_size]
  <2>1. decode_frame_header(all)
            = [major |-> read_be(A), minor |-> read_be(B),
               type |-> all[2 * VersionWidth + 1], flags |-> all[2 * VersionWidth + 2],
               stream |-> read_be(D), payload_size |-> read_be(E)]
    <3>1. SubSeq(all, 2 * VersionWidth + 1 + 2, 2 * VersionWidth + 1 + 2 + StreamWidth - 1) = D
      BY <1>14, <1>16, Zenon
    <3>2. SubSeq(all, 2 * VersionWidth + 1 + 2 + StreamWidth,
                 2 * VersionWidth + 1 + 2 + StreamWidth + SizeWidth - 1) = E
      BY <1>15, <1>16, Zenon
    <3>3. all[2 * VersionWidth + 1 + 1] = all[2 * VersionWidth + 2]
      BY <1>16, Zenon
    <3>4. decode_frame_header(all)
              = [major |-> read_be(SubSeq(all, 1, VersionWidth)),
                 minor |-> read_be(SubSeq(all, VersionWidth + 1, 2 * VersionWidth)),
                 type |-> all[2 * VersionWidth + 1],
                 flags |-> all[2 * VersionWidth + 1 + 1],
                 stream |-> read_be(SubSeq(all, 2 * VersionWidth + 1 + 2,
                                           2 * VersionWidth + 1 + 2 + StreamWidth - 1)),
                 payload_size |-> read_be(SubSeq(all, 2 * VersionWidth + 1 + 2 + StreamWidth,
                                     2 * VersionWidth + 1 + 2 + StreamWidth + SizeWidth - 1))]
      BY <1>2 DEF decode_frame_header
    <3>5. QED
      BY <1>11, <1>12, <3>1, <3>2, <3>3, <3>4
  <2>2. QED
    BY <1>4, <1>13, <2>1
<1>18. QED
  BY <1>1, <1>6, <1>10, <1>17 DEF frame_header_size

\* A step preserves the type invariant.
LEMMA TypeStep ==
    TypeOK /\ [Next]_vars => TypeOK'
<1> SUFFICES ASSUME TypeOK, [Next]_vars PROVE TypeOK'
    OBVIOUS
<1> USE RegistryAssumption DEF TypeOK
<1>1. ASSUME NEW e \in Ends, NEW v \in Versions, NEW m \in Messages, NEW id \in MessageIds,
             register_message(e, v, m, id)
      PROVE  TypeOK'
    BY <1>1 DEF register_message, RegistrationError
<1>2. ASSUME NEW m \in Messages, handle(m) PROVE TypeOK'
    BY <1>2 DEF handle, message_type
<1>3. ASSUME NEW m \in Messages, NEW value \in ValuesOf(m), SendRequest(m, value) PROVE TypeOK'
    BY <1>3 DEF SendRequest
<1>4. ASSUME NEW raw \in Raw, SendRaw(raw) PROVE TypeOK'
    BY <1>4 DEF SendRaw
<1>5. CASE Receive
    BY <1>5 DEF Receive
<1>6. CASE UNCHANGED vars
    BY <1>6 DEF vars
<1>7. QED
    BY <1>1, <1>2, <1>3, <1>4, <1>5, <1>6 DEF Next

\* A step keeps the two maps inverse: a registration that is accepted finds both its
\* identifier and its type free.
LEMMA InverseStep ==
    TypeOK /\ InverseMaps /\ [Next]_vars => InverseMaps'
<1> SUFFICES ASSUME TypeOK, InverseMaps, [Next]_vars PROVE InverseMaps'
    OBVIOUS
<1>1. ASSUME NEW e \in Ends, NEW v \in Versions, NEW m \in Messages, NEW id \in MessageIds,
             register_message(e, v, m, id)
      PROVE  InverseMaps'
    <2>1. /\ id # 0
          /\ by_id[e][v][id] = NoMessage
          /\ by_type[e][v][m] = 0
        BY <1>1 DEF register_message, RegistrationError
    <2>2. SUFFICES ASSUME NEW f \in Ends, NEW w \in Versions, NEW n \in Messages,
                          NEW k \in MessageIds \ {0}
                   PROVE  by_id'[f][w][k] = n <=> by_type'[f][w][n] = k
        BY DEF InverseMaps
    <2>3. by_id[f][w][k] = n <=> by_type[f][w][n] = k
        BY DEF InverseMaps
    <2>4. by_id'[f][w][k] = IF f = e /\ w = v /\ k = id THEN m ELSE by_id[f][w][k]
        BY <1>1 DEF register_message, TypeOK
    <2>5. by_type'[f][w][n] = IF f = e /\ w = v /\ n = m THEN id ELSE by_type[f][w][n]
        BY <1>1 DEF register_message, TypeOK
    <2>6. QED
        BY <2>1, <2>3, <2>4, <2>5, RegistryAssumption
<1>2. CASE UNCHANGED <<by_id, by_type>>
    BY <1>2 DEF InverseMaps
<1>3. QED
    BY <1>1, <1>2 DEF Next, handle, SendRequest, SendRaw, Receive, vars

\* A step keeps every handler under its own identifier: registrations never change, and
\* handle() asks the registry.
LEMMA OwnHandlerStep ==
    TypeOK /\ OwnHandler /\ [Next]_vars => OwnHandler'
<1> SUFFICES ASSUME TypeOK, OwnHandler, [Next]_vars PROVE OwnHandler'
    OBVIOUS
<1>1. ASSUME NEW e \in Ends, NEW v \in Versions, NEW m \in Messages, NEW id \in MessageIds,
             register_message(e, v, m, id)
      PROVE  OwnHandler'
    <2>1. id # 0 /\ by_type[e][v][m] = 0 /\ handlers' = handlers
        BY <1>1 DEF register_message, RegistrationError
    <2>2. SUFFICES ASSUME NEW k \in MessageIds, handlers[k] # NoMessage
                   PROVE  k # 0 /\ by_type'["server"][Current][handlers[k]] = k
        BY <2>1 DEF OwnHandler, message_type
    <2>3. k # 0 /\ by_type["server"][Current][handlers[k]] = k /\ handlers[k] \in Messages
        BY <2>2 DEF OwnHandler, message_type, TypeOK
    <2>4. QED
        BY <1>1, <2>1, <2>3, RegistryAssumption DEF register_message, TypeOK, Ends
<1>2. ASSUME NEW m \in Messages, handle(m) PROVE OwnHandler'
    BY <1>2, RegistryAssumption DEF handle, message_type, OwnHandler, TypeOK, Ends
<1>3. CASE UNCHANGED <<by_type, handlers>>
    BY <1>3 DEF OwnHandler, message_type
<1>4. QED
    BY <1>1, <1>2, <1>3 DEF Next, SendRequest, SendRaw, Receive, vars

\* However many registrations, handlers and messages: the variables keep their types, and
\* no type is bound to the identifier zero.
THEOREM TypeCorrect == Spec => []TypeOK
<1>1. Init => TypeOK
    BY RegistryAssumption DEF Init, TypeOK
<1>2. QED
    BY <1>1, TypeStep, PTL DEF Spec

\* by_id and by_type of every version of every registry are inverse to each other.
THEOREM MapsAreInverse == Spec => []InverseMaps
<1>1. Init => InverseMaps
    BY RegistryAssumption DEF Init, InverseMaps
<1>2. QED
    BY <1>1, TypeCorrect, InverseStep, PTL DEF Spec

\* The handler stored for an identifier is the one for the type the registry bound to it.
THEOREM HandlersAreOwn == Spec => []OwnHandler
<1>1. Init => OwnHandler
    BY DEF Init, OwnHandler
<1>2. QED
    BY <1>1, TypeCorrect, OwnHandlerStep, PTL DEF Spec

\* The invariant the run checks: one binding of types to identifiers, seen alike by both
\* look-ups of the registry and by the handlers of the connection.
THEOREM RegistryIsConsistent == Spec => []RegistryConsistent
<1>1. TypeOK /\ InverseMaps /\ OwnHandler <=> RegistryConsistent
    BY DEF RegistryConsistent
<1>2. QED
    BY <1>1, TypeCorrect, MapsAreInverse, HandlersAreOwn, PTL

-----------------------------------------------------------------------------
(* A request the server would handle *)

\* What the server would do with a payload that a handler accepts depends only on that
\* handler and on the identifier of its type, and no step changes either: registrations are
\* never replaced, and only the same type can be handled again under its identifier.
LEMMA ReactionKept ==
    ASSUME RegistryConsistent, [Next]_vars, NEW octets, Reaction(octets).status = "ok"
    PROVE  Reaction(octets)' = Reaction(octets)
<1> USE RegistryAssumption DEF RegistryConsistent
<1>1. PICK t \in MessageIds : peek_message_type(octets) = <<t>> /\ handlers[t] # NoMessage
  <2>1. peek_message_type(octets) # <<>> /\ HandlerOf(octets) # NoMessage
    BY DEF Reaction
  <2>2. PICK w : peek_message_type(octets) = <<w>>
    BY <2>1 DEF peek_message_type
  <2>3. peek_message_type(octets)[1] = w
    BY <2>2
  <2>4. w \in MessageIds /\ handlers[w] # NoMessage
    BY <2>1, <2>3 DEF HandlerOf
  <2>5. QED
    BY <2>2, <2>4
<1>2. PICK h \in Messages : h = handlers[t] /\ t # 0 /\ by_type["server"][Current][h] = t
  BY <1>1 DEF TypeOK, OwnHandler, message_type
<1>3. handlers'[t] = h /\ by_type'["server"][Current][h] = t
  <2>1. ASSUME NEW e \in Ends, NEW v \in Versions, NEW m \in Messages, NEW id \in MessageIds,
               register_message(e, v, m, id)
        PROVE  handlers'[t] = h /\ by_type'["server"][Current][h] = t
    <3>1. by_type[e][v][m] = 0 /\ handlers' = handlers
      BY <2>1 DEF register_message, RegistrationError
    <3>2. QED
      BY <1>2, <2>1, <3>1 DEF register_message, TypeOK, Ends
  <2>2. ASSUME NEW m \in Messages, handle(m)
        PROVE  handlers'[t] = h /\ by_type'["server"][Current][h] = t
    <3>1. by_type["server"][Current][m] = t => m = h
      BY <1>2 DEF InverseMaps, Ends
    <3>2. QED
      BY <1>2, <2>2, <3>1 DEF handle, message_type, TypeOK
  <2>3. CASE UNCHANGED <<by_type, handlers>>
    BY <1>2, <2>3
  <2>4. QED
    BY <2>1, <2>2, <2>3 DEF Next, SendRequest, SendRaw, Receive, vars
<1>4. HandlerOf(octets) = h /\ HandlerOf(octets)' = h
  BY <1>1, <1>2, <1>3 DEF HandlerOf
<1>5. decode_message("server", Current, h, octets)' = decode_message("server", Current, h, octets)
  BY <1>2, <1>3 DEF decode_message, message_type
<1>6. QED
  BY <1>1, <1>2, <1>4, <1>5 DEF Reaction

\* Nothing the applications register or handle while a request is on its way turns the
\* result the server would have given it into another: a request that would be handled when
\* sent is handled alike when it arrives.
THEOREM HandledStaysHandled == Spec => StaysHandled
<1>1. RegistryConsistent /\ [Next]_vars
        => [\A i \in DOMAIN wire :
              (wire' = wire /\ Reaction(wire[i].payload).status = "ok")
                => Reaction(wire[i].payload)' = Reaction(wire[i].payload)]_vars
  <2> SUFFICES ASSUME RegistryConsistent, [Next]_vars, NEW i \in DOMAIN wire,
                      wire' = wire, Reaction(wire[i].payload).status = "ok"
               PROVE  Reaction(wire[i].payload)' = Reaction(wire[i].payload)
    OBVIOUS
  <2>1. PICK octets : octets = wire[i].payload
    OBVIOUS
  <2>2. Reaction(octets)' = Reaction(octets)
    BY <2>1, ReactionKept
  <2>3. Reaction(wire[i].payload)' = Reaction(octets)'
    BY <2>1 DEF Reaction, HandlerOf, decode_message, message_type
  <2>4. QED
    BY <2>1, <2>2, <2>3
<1>2. QED
  BY <1>1, RegistryIsConsistent, PTL DEF Spec, StaysHandled

-----------------------------------------------------------------------------
(* Messages as bytes *)

\* An identifier and the bytes after it, as they are cut apart again.
LEMMA CutMessage ==
    ASSUME NEW id \in MessageIds, NEW value \in Seq(Octets)
    PROVE  /\ peek_message_type(write_be(id, message_type_size) \o value) = <<id>>
           /\ SubSeq(write_be(id, message_type_size) \o value, message_type_size + 1,
                     Len(write_be(id, message_type_size) \o value)) = value
<1> DEFINE w == write_be(id, 4)
           octets == w \o value
<1>1. Fits(id, 4) /\ id \in Nat
  BY RegistryAssumption DEF Fits
<1>2. w \in Seq(Octets) /\ Len(w) = 4 /\ read_be(w) = id
  BY <1>1, WriteTyped, ReadWrite
<1> HIDE DEF w
<1>3. Len(octets) = Len(w) + Len(value) /\ Len(value) \in Nat
  <2>1. Len(octets) = Len(w) + Len(value)
    BY <1>2, ConcatProperties
  <2>2. Len(value) \in Nat
    OBVIOUS
  <2>3. QED
    BY <2>1, <2>2
<1>4. /\ SubSeq(octets, 1, Len(w)) = w
      /\ SubSeq(octets, Len(w) + 1, Len(w) + Len(value)) = value
  BY <1>2, Halves
<1> HIDE DEF octets
<1>5. peek_message_type(octets) = <<id>>
  <2>1. ~(Len(octets) < 4)
    BY <1>2, <1>3
  <2>2. read_be(SubSeq(octets, 1, 4)) = id
    BY <1>2, <1>4
  <2>3. QED
    BY <2>1, <2>2 DEF peek_message_type, message_type_size
<1>6. SubSeq(octets, 4 + 1, Len(octets)) = value
  BY <1>2, <1>3, <1>4, Zenon
<1>7. QED
  BY <1>5, <1>6 DEF w, octets, message_type_size

\* The values of a type are sequences of bytes of its size.
LEMMA ValueBytes ==
    ASSUME NEW m \in Messages, NEW value \in ValuesOf(m)
    PROVE  value \in Seq(Octets) /\ Len(value) = Sizes[m]
<1>1. PICK n \in Nat : n = Sizes[m]
  BY RegistryAssumption
<1>2. value \in [1 .. n -> {0, ByteValues - 1}]
  BY <1>1 DEF ValuesOf
<1>3. {0, ByteValues - 1} \subseteq Octets
  BY CodecAssumption DEF Octets
<1>4. value \in [1 .. n -> Octets]
  BY <1>2, <1>3
<1>5. QED
  BY <1>1, <1>4

\* A message that one end encodes is decoded by the other to the same value, as its own type
\* and as no other, wherever both ends gave its type the same identifier: identifiers of any
\* of the four bytes, values of any size, and any number of other registrations.
THEOREM MessagesRoundTrip == Spec => []RoundTrip
<1>1. RegistryConsistent => RoundTrip
  <2> SUFFICES ASSUME RegistryConsistent,
                      NEW from \in Ends, NEW to \in Ends, NEW v \in Versions,
                      NEW m \in Messages, NEW other \in Messages,
                      EncodeStatus(from, v, m) = "ok",
                      message_type(to, v, m) = message_type(from, v, m),
                      NEW value \in ValuesOf(m)
               PROVE  IF other = m
                      THEN decode_message(to, v, other, encode_message_payload(from, v, m, value))
                               = [status |-> "ok", value |-> value]
                      ELSE decode_message(to, v, other, encode_message_payload(from, v, m, value)).status
                               = "unknown_message_type"
    BY DEF RoundTrip
  <2>1. PICK id \in MessageIds \ {0} : id = by_type[from][v][m] /\ id = by_type[to][v][m]
    BY DEF EncodeStatus, message_type, RegistryConsistent, TypeOK
  <2>2. value \in Seq(Octets) /\ Len(value) = Sizes[m]
    BY ValueBytes
  <2>3. PICK octets : octets = write_be(id, message_type_size) \o value
    OBVIOUS
  <2>4. encode_message_payload(from, v, m, value) = octets
    BY <2>1, <2>3 DEF encode_message_payload, message_type
  <2>5. /\ peek_message_type(octets) = <<id>>
        /\ SubSeq(octets, message_type_size + 1, Len(octets)) = value
    BY <2>2, <2>3, CutMessage
  <2>6. CASE other = m
    <3>1. DecodeBody(m, value) = [status |-> "ok", value |-> value]
      BY <2>2 DEF DecodeBody
    <3>2. decode_message(to, v, m, octets) = DecodeBody(m, value)
      <4>1. <<id>> # <<>> /\ id # 0
        BY <2>1
      <4>2. QED
        BY <2>1, <2>5, <4>1 DEF decode_message, message_type
    <3>3. QED
      BY <2>4, <2>6, <3>1, <3>2
  <2>7. CASE other # m
    <3>1. by_type[to][v][other] # id
      <4>1. by_id[to][v][id] = m
        BY <2>1 DEF RegistryConsistent, InverseMaps
      <4>2. by_id[to][v][id] = other <=> by_type[to][v][other] = id
        BY <2>1 DEF RegistryConsistent, InverseMaps
      <4>3. QED
        BY <2>7, <4>1, <4>2
    <3>2. decode_message(to, v, other, octets) = [status |-> "unknown_message_type"]
      <4>1. <<id>> # <<by_type[to][v][other]>> /\ <<id>> # <<>>
        BY <3>1
      <4>2. QED
        BY <2>5, <4>1 DEF decode_message, message_type
    <3>3. QED
      BY <2>4, <2>7, <3>2
  <2>8. QED
    BY <2>6, <2>7
<1>2. QED
  BY <1>1, RegistryIsConsistent, PTL

-----------------------------------------------------------------------------
(* The request on the wire *)

\* A request of this library carries the identifier the client gave its type.
WireOwn ==
    \A i \in DOMAIN wire : wire[i].message # NoMessage =>
        /\ wire[i].message \in Messages
        /\ by_type["client"][Current][wire[i].message] # 0
        /\ peek_message_type(wire[i].payload)
               = <<by_type["client"][Current][wire[i].message]>>

\* Registrations are never replaced, so a request on its way keeps its identifier.
LEMMA WireOwnStep == RegistryConsistent /\ WireOwn /\ [Next]_vars => WireOwn'
<1> SUFFICES ASSUME RegistryConsistent, WireOwn, [Next]_vars PROVE WireOwn'
  OBVIOUS
<1> USE RegistryAssumption DEF RegistryConsistent
<1>1. ASSUME NEW e \in Ends, NEW v \in Versions, NEW m \in Messages, NEW id \in MessageIds,
             register_message(e, v, m, id)
      PROVE  WireOwn'
  <2>1. by_type[e][v][m] = 0 /\ wire' = wire
    BY <1>1 DEF register_message, RegistrationError
  <2>2. ASSUME NEW n \in Messages, by_type["client"][Current][n] # 0
        PROVE  by_type'["client"][Current][n] = by_type["client"][Current][n]
    BY <1>1, <2>1, <2>2 DEF register_message, TypeOK, Ends
  <2>3. QED
    BY <2>1, <2>2 DEF WireOwn, peek_message_type
<1>2. ASSUME NEW m \in Messages, NEW value \in ValuesOf(m), SendRequest(m, value)
      PROVE  WireOwn'
  <2>1. PICK id \in MessageIds \ {0} : id = by_type["client"][Current][m]
    BY <1>2 DEF SendRequest, EncodeStatus, message_type, TypeOK, Ends
  <2>2. PICK octets : octets = write_be(id, message_type_size) \o value
    OBVIOUS
  <2>3. peek_message_type(octets) = <<id>>
    BY <2>2, ValueBytes, CutMessage
  <2>4. wire' = <<[message |-> m, payload |-> octets]>> /\ by_type' = by_type
    BY <1>2, <2>1, <2>2 DEF SendRequest, encode_message_payload, message_type
  <2>5. DOMAIN wire' = {1} /\ wire'[1].message = m /\ wire'[1].payload = octets
    BY <2>4
  <2>6. QED
    BY <2>1, <2>3, <2>4, <2>5 DEF WireOwn
<1>3. ASSUME NEW raw \in Raw, SendRaw(raw) PROVE WireOwn'
  <2>1. DOMAIN wire' = {1} /\ wire'[1].message = NoMessage
    BY <1>3 DEF SendRaw
  <2>2. QED
    BY <2>1 DEF WireOwn
<1>4. CASE Receive
  <2>1. DOMAIN wire' = {}
    BY <1>4 DEF Receive
  <2>2. QED
    BY <2>1 DEF WireOwn
<1>5. CASE UNCHANGED <<by_type, wire>>
  BY <1>5 DEF WireOwn
<1>6. QED
  BY <1>1, <1>2, <1>3, <1>4, <1>5 DEF Next, handle, vars

\* Whatever is registered or handled while a request is on its way, it reaches a handler of
\* its own type or none, unless the ends gave one identifier to two types; and a handler
\* only ever sees a value of its type's size.
THEOREM RequestsReachTheirHandler == Spec => []HandlerGetsItsType
<1>1. Init => WireOwn
  <2>1. Init => DOMAIN wire = {}
    BY DEF Init
  <2>2. QED
    BY <2>1 DEF WireOwn
<1>2. RegistryConsistent /\ WireOwn => HandlerGetsItsType
  <2> SUFFICES ASSUME RegistryConsistent, WireOwn, NEW i \in DOMAIN wire,
                      Reaction(wire[i].payload).status = "ok"
               PROVE  /\ Len(Reaction(wire[i].payload).value) = Sizes[HandlerOf(wire[i].payload)]
                      /\ Agree /\ wire[i].message # NoMessage
                            => HandlerOf(wire[i].payload) = wire[i].message
    BY DEF HandlerGetsItsType
  <2> USE RegistryAssumption DEF RegistryConsistent
  <2>1. PICK octets : octets = wire[i].payload
    OBVIOUS
  <2>2. PICK h : h = HandlerOf(octets)
    OBVIOUS
  <2>3. /\ peek_message_type(octets) # <<>> /\ h # NoMessage
        /\ Reaction(octets) = decode_message("server", Current, h, octets)
    BY <2>1, <2>2 DEF Reaction
  <2>4. PICK t : peek_message_type(octets) = <<t>>
    BY <2>3 DEF peek_message_type
  <2>5. peek_message_type(octets)[1] = t
    BY <2>4
  <2>6. t \in MessageIds /\ h = handlers[t]
    BY <2>2, <2>3, <2>5 DEF HandlerOf
  <2>7. h \in Messages /\ t # 0 /\ by_type["server"][Current][h] = t
    BY <2>3, <2>6 DEF TypeOK, OwnHandler, message_type
  <2>8. PICK body : Reaction(octets) = DecodeBody(h, body)
    BY <2>1, <2>3 DEF decode_message
  <2>9. Len(Reaction(octets).value) = Sizes[h]
    <3>1. DecodeBody(h, body).status = "ok"
      BY <2>1, <2>8
    <3>2. Len(body) = Sizes[h] /\ DecodeBody(h, body) = [status |-> "ok", value |-> body]
      BY <3>1 DEF DecodeBody
    <3>3. QED
      BY <2>8, <3>2
  <2>10. ASSUME Agree, wire[i].message # NoMessage PROVE h = wire[i].message
    <3>1. PICK m \in Messages : m = wire[i].message /\ peek_message_type(octets) = <<by_type["client"][Current][m]>>
      BY <2>1, <2>10 DEF WireOwn
    <3>2. by_type["client"][Current][m] = t
      <4>1. peek_message_type(octets)[1] = by_type["client"][Current][m]
        BY <3>1
      <4>2. QED
        BY <2>5, <4>1
    <3>3. by_id["client"][Current][t] = m /\ by_id["server"][Current][t] = h
      BY <2>6, <2>7, <3>2 DEF InverseMaps, Ends
    <3>4. {type_of_id(e, Current, t) : e \in Ends} = {m, h}
      BY <3>3 DEF type_of_id, Ends
    <3>5. NoMessage \in {m, h} \/ \E n \in Messages : {m, h} = {n}
      BY <2>6, <2>7, <2>10, <3>4 DEF Agree
    <3>6. QED
      BY <2>7, <3>1, <3>5
  <2>11. QED
    BY <2>1, <2>2, <2>9, <2>10
<1>3. QED
  BY <1>1, <1>2, WireOwnStep, RegistryIsConsistent, PTL DEF Spec

-----------------------------------------------------------------------------
(* Sequences cut into reads *)

\* A sequence is what is taken off its front and what is left.
LEMMA FirstAndRest ==
    ASSUME NEW S, NEW s \in Seq(S), NEW k \in 0 .. Len(s)
    PROVE  /\ First(s, k) \in Seq(S) /\ Len(First(s, k)) = k
           /\ Rest(s, k) \in Seq(S) /\ Len(Rest(s, k)) = Len(s) - k
           /\ First(s, k) \o Rest(s, k) = s
<1>1. Len(s) \in Nat /\ \A i \in 1 .. Len(s) : s[i] \in S
  BY ElementOfSeq
<1>2. First(s, k) \in Seq(S) /\ Len(First(s, k)) = k
  <2>1. \A i \in 1 .. k : s[i] \in S
    BY <1>1
  <2>2. /\ SubSeq(s, 1, k) \in Seq(S)
        /\ Len(SubSeq(s, 1, k)) = IF 1 <= k THEN k - 1 + 1 ELSE 0
    BY <1>1, <2>1, SubSeqProperties
  <2>3. QED
    BY <1>1, <2>2 DEF First
<1>3. Rest(s, k) \in Seq(S) /\ Len(Rest(s, k)) = Len(s) - k
  <2>1. k + 1 \in Int /\ Len(s) \in Int /\ \A i \in k + 1 .. Len(s) : s[i] \in S
    BY <1>1
  <2>2. /\ SubSeq(s, k + 1, Len(s)) \in Seq(S)
        /\ Len(SubSeq(s, k + 1, Len(s))) = IF k + 1 <= Len(s) THEN Len(s) - (k + 1) + 1 ELSE 0
    BY <2>1, SubSeqProperties
  <2>3. QED
    BY <1>1, <2>2 DEF Rest
<1>4. First(s, k) \o Rest(s, k) = s
  <2>1. 1 \in 1 .. Len(s) + 1 /\ k \in 1 - 1 .. Len(s) /\ Len(s) \in k .. Len(s)
    BY <1>1
  <2>2. SubSeq(s, 1, k) \o SubSeq(s, k + 1, Len(s)) = SubSeq(s, 1, Len(s))
    BY <2>1, ConcatAdjacentSubSeq
  <2>3. QED
    BY <2>2, SubSeqFull DEF First, Rest
<1>5. QED
  BY <1>2, <1>3, <1>4

\* A concatenation in the lemmas' form.
LEMMA Joined ==
    ASSUME NEW S, NEW s \in Seq(S), NEW t \in Seq(S)
    PROVE  s \o t \in Seq(S) /\ Len(s \o t) = Len(s) + Len(t) /\ Len(s) \in Nat /\ Len(t) \in Nat
<1>1. Len(s) \in Nat /\ Len(t) \in Nat
  OBVIOUS
<1>2. QED
  BY <1>1, ConcatProperties

\* Concatenation, as an operator the proofs below reason about only with these lemmas.
Join(s, t) == s \o t

\* Two byte sequences joined are a byte sequence, as long as both together.
LEMMA JoinTyped ==
    \A s, t \in Seq(Octets) :
        /\ Join(s, t) \in Seq(Octets)
        /\ Len(Join(s, t)) = Len(s) + Len(t)
        /\ Len(s) \in Nat /\ Len(t) \in Nat
BY Joined DEF Join

\* How they are bracketed does not matter.
LEMMA JoinRegrouped ==
    \A s, t, u \in Seq(Octets) : Join(Join(s, t), u) = Join(s, Join(t, u))
BY ConcatAssociative DEF Join

\* The empty sequence adds nothing.
LEMMA JoinEmpty ==
    /\ <<>> \in Seq(Octets) /\ Len(<<>>) = 0
    /\ \A s \in Seq(Octets) : Join(s, <<>>) = s /\ Join(<<>>, s) = s /\ (Len(s) = 0 <=> s = <<>>)
<1>1. <<>> \in Seq(Octets) /\ Len(<<>>) = 0
  BY EmptySeq
<1>2. ASSUME NEW s \in Seq(Octets) PROVE s \o <<>> = s /\ <<>> \o s = s
  BY ConcatEmptySeq
<1>3. ASSUME NEW s \in Seq(Octets) PROVE Len(s) = 0 <=> s = <<>>
  BY EmptySeq
<1>4. QED
  BY <1>1, <1>2, <1>3 DEF Join

\* Two ways to cut the same bytes at the same place give the same parts.
LEMMA JoinCut ==
    \A a, b, c, d \in Seq(Octets) : Join(a, b) = Join(c, d) /\ Len(a) = Len(c) => a = c /\ b = d
BY SameCut DEF Join

\* The first k bytes and the others.
LEMMA JoinParts ==
    \A s \in Seq(Octets) : \A k \in 0 .. Len(s) :
        /\ First(s, k) \in Seq(Octets) /\ Len(First(s, k)) = k
        /\ Rest(s, k) \in Seq(Octets) /\ Len(Rest(s, k)) = Len(s) - k
        /\ Join(First(s, k), Rest(s, k)) = s
BY FirstAndRest DEF Join

\* copy_bytes() copies no more than there is and no more than is missing, and one of the two.
LEMMA CopiedBytes ==
    ASSUME NEW available \in Nat, NEW missing \in Nat
    PROVE  /\ copy_bytes(available, missing) \in 0 .. available
           /\ copy_bytes(available, missing) <= missing
           /\ copy_bytes(available, missing) \in {available, missing}
BY DEF copy_bytes

-----------------------------------------------------------------------------
(* The frames of the peer *)

\* A frame of the peer is its header's bytes and its payload.
LEMMA PeerFrameBytes ==
    ASSUME NEW f \in PeerFrames
    PROVE  /\ f.header \in FrameHeaders /\ f.payload \in Seq(Octets)
           /\ f.header.payload_size = Len(f.payload)
           /\ f = [header |-> f.header, payload |-> f.payload]
           /\ encode_frame_header(f.header) \in Seq(Octets)
           /\ Len(encode_frame_header(f.header)) = frame_header_size
           /\ decode_frame_header(encode_frame_header(f.header)) = f.header
           /\ encode_frame(f) \in Seq(Octets)
           /\ encode_frame(f) = Join(encode_frame_header(f.header), f.payload)
           /\ Len(encode_frame(f)) = frame_header_size + Len(f.payload)
<1>1. /\ f.header \in FrameHeaders /\ f.payload \in Seq(Octets)
      /\ f.header.payload_size = Len(f.payload)
      /\ f = [header |-> f.header, payload |-> f.payload]
  BY DecoderAssumption
<1>2. /\ encode_frame_header(f.header) \in Seq(Octets)
      /\ Len(encode_frame_header(f.header)) = frame_header_size
      /\ decode_frame_header(encode_frame_header(f.header)) = f.header
  BY <1>1, EncodedHeader
<1>3. encode_frame(f) = encode_frame_header(f.header) \o f.payload
  BY DEF encode_frame
<1>4. encode_frame(f) \in Seq(Octets) /\ Len(encode_frame(f)) = frame_header_size + Len(f.payload)
  BY <1>1, <1>2, <1>3, Joined
<1>5. QED
  BY <1>1, <1>2, <1>3, <1>4 DEF Join

\* What start_frame() finds wrong with a header is what validate_frame() finds wrong with
\* the whole frame.
LEMMA HeaderVerdict ==
    ASSUME NEW f \in PeerFrames
    PROVE  /\ validate_frame(f) =
                  LET verdict == validate_frame([header |-> f.header, payload |-> <<>>])
                  IN  IF verdict = "payload_length_mismatch" THEN "none" ELSE verdict
           /\ validate_frame(f) \in FrameValidationErrors \ {"payload_length_mismatch"}
           /\ validate_frame(f) = "none" => f.header.payload_size <= MaxPayloadSize
<1>1. Len(f.payload) = f.header.payload_size
  BY PeerFrameBytes
<1>2. PICK h : h = f.header
  OBVIOUS
<1>3. PICK g : g = [header |-> f.header, payload |-> <<>>]
  OBVIOUS
<1>4. g.header = h
  BY <1>2, <1>3
<1>5. f.header.payload_size \in Nat
  BY PeerFrameBytes DEF FrameHeaders
<1>6. QED
  BY <1>1, <1>2, <1>3, <1>4, <1>5, CodecAssumption DEF validate_frame, FrameValidationErrors

\* A header has bytes.
LEMMA HeaderSize == frame_header_size \in Nat \ {0}
BY CodecAssumption DEF frame_header_size

\* Both sides of a comparison of lengths grow alike.
LEMMA LongerBoth ==
    ASSUME NEW a \in Nat, NEW b \in Nat, NEW c \in Nat, NEW n \in Nat, a + b <= c
    PROVE  (a + n) + b <= c + n
OBVIOUS

-----------------------------------------------------------------------------
(* The decoder's inductive invariant *)

DecoderTypes ==
    /\ header_bytes \in Seq(Octets)
    /\ payload \in Seq(Octets)
    /\ bytes \in Seq(Octets)
    /\ unread \in Seq(Octets)
    /\ sent \in Seq(PeerFrames)
    /\ frames \in Seq(PeerFrames)

\* The frames returned are the first ones sent, and valid.
Returned ==
    /\ Len(frames) <= Len(sent)
    /\ \A i \in 1 .. Len(frames) : frames[i] = sent[i] /\ validate_frame(sent[i]) = "none"

\* The frame whose bytes arrive.
Arriving == sent[Len(frames) + 1]

\* Between two iterations the decoder is inside a header, or has the header of the frame
\* that arrives, a valid one, and is inside its payload.
Assembling ==
    \/ /\ header = <<>>
       /\ payload = <<>>
       /\ Len(header_bytes) <= frame_header_size
       /\ error = "none" => Len(header_bytes) < frame_header_size
    \/ /\ error = "none"
       /\ Len(frames) < Len(sent)
       /\ header = <<Arriving.header>>
       /\ validate_frame(Arriving) = "none"
       /\ Len(header_bytes) = frame_header_size
       /\ Len(payload) < Len(Arriving.payload)

\* The bytes of the frames after the first i, for each i.
Behind(rest) ==
    /\ rest \in [0 .. Len(sent) -> Seq(Octets)]
    /\ rest[Len(sent)] = <<>>
    /\ \A i \in 1 .. Len(sent) : rest[i - 1] = Join(encode_frame(sent[i]), rest[i])

\* What the decoder holds, what the running push() has left and what is not yet read are
\* together the bytes of the frames not yet returned; an error is that of the frame that
\* arrives, of which at least the header has been read.
Position(rest) ==
    /\ error = "none" =>
        Join(header_bytes, Join(payload, Join(bytes, unread))) = rest[Len(frames)]
    /\ error # "none" =>
        /\ bytes = <<>>
        /\ Len(frames) < Len(sent)
        /\ error = validate_frame(Arriving)
        /\ Len(unread) + frame_header_size <= Len(rest[Len(frames)])

Aligned == \E rest : Behind(rest) /\ Position(rest)

DecoderInv == DecoderTypes /\ Returned /\ Assembling /\ Aligned

\* What follows the last frame of an empty stream.
LEMMA NothingBehind == \E rest : rest \in [0 .. 0 -> Seq(Octets)] /\ rest[0] = <<>>
<1> DEFINE rest == [i \in 0 .. 0 |-> <<>>]
<1>1. rest \in [0 .. 0 -> Seq(Octets)] /\ rest[0] = <<>>
  BY JoinEmpty
<1>2. QED
  BY <1>1

\* A new decoder and an empty stream.
LEMMA DecoderInitInv ==
    ASSUME DecoderInit
    PROVE  DecoderInv
<1>1. /\ Len(<<>>) = 0 /\ <<>> \in Seq(Octets) /\ <<>> \in Seq(PeerFrames)
      /\ Join(<<>>, <<>>) = <<>>
  BY EmptySeq, JoinEmpty
<1>2. DecoderTypes /\ Returned
  BY <1>1 DEF DecoderInit, DecoderTypes, Returned
<1>3. Assembling
  BY <1>1, HeaderSize DEF DecoderInit, Assembling
<1>4. PICK rest : rest \in [0 .. 0 -> Seq(Octets)] /\ rest[0] = <<>>
  BY NothingBehind
<1>5. Behind(rest)
  BY <1>1, <1>4 DEF DecoderInit, Behind
<1>6. Position(rest)
  BY <1>1, <1>4 DEF DecoderInit, Position
<1>7. QED
  BY <1>2, <1>3, <1>5, <1>6 DEF DecoderInv, Aligned

\* The frame that arrives is what the stream goes on with.
LEMMA ArrivingBytes ==
    ASSUME DecoderTypes, Len(frames) < Len(sent), NEW rest, Behind(rest)
    PROVE  /\ Arriving \in PeerFrames
           /\ rest[Len(frames)] \in Seq(Octets)
           /\ rest[Len(frames) + 1] \in Seq(Octets)
           /\ rest[Len(frames)] =
                  Join(encode_frame_header(Arriving.header),
                       Join(Arriving.payload, rest[Len(frames) + 1]))
<1>1. PICK n \in Nat : n = Len(frames)
  BY DEF DecoderTypes
<1>2. PICK N \in Nat : N = Len(sent)
  BY DEF DecoderTypes
<1>3. n \in 0 .. N /\ n + 1 \in 1 .. N /\ n + 1 \in 0 .. N /\ n + 1 - 1 = n
  BY <1>1, <1>2
<1>4. Arriving \in PeerFrames /\ Arriving = sent[n + 1]
  BY <1>1, <1>2, <1>3, ElementOfSeq DEF Arriving, DecoderTypes
<1>5. rest[n] \in Seq(Octets) /\ rest[n + 1] \in Seq(Octets)
  BY <1>2, <1>3 DEF Behind
<1>6. rest[n] = Join(encode_frame(Arriving), rest[n + 1])
  BY <1>2, <1>3, <1>4 DEF Behind
<1>7. /\ encode_frame(Arriving) = Join(encode_frame_header(Arriving.header), Arriving.payload)
      /\ encode_frame_header(Arriving.header) \in Seq(Octets)
      /\ Arriving.payload \in Seq(Octets)
  BY <1>4, PeerFrameBytes
<1>8. rest[n] = Join(encode_frame_header(Arriving.header), Join(Arriving.payload, rest[n + 1]))
  BY <1>5, <1>6, <1>7, JoinRegrouped
<1>9. QED
  BY <1>1, <1>4, <1>5, <1>8

\* As long as bytes are left, so are frames.
LEMMA SomeLeft ==
    ASSUME DecoderTypes, Returned, NEW rest, Behind(rest), rest[Len(frames)] # <<>>
    PROVE  Len(frames) < Len(sent)
<1>1. Len(frames) \in Nat /\ Len(sent) \in Nat
  BY DEF DecoderTypes
<1>2. Len(frames) <= Len(sent) /\ Len(frames) # Len(sent)
  BY DEF Returned, Behind
<1>3. QED
  BY <1>1, <1>2

\* A frame the peer sends is appended to the bytes that are still to come.
LEMMA SendInv ==
    ASSUME DecoderInv, NEW f \in PeerFrames, Send(f)
    PROVE  DecoderInv'
<1> USE DEF DecoderInv, DecoderTypes
<1>1. /\ UNCHANGED <<header_bytes, header, payload, error, bytes, frames>>
      /\ sent' = Append(sent, f) /\ unread' = Join(unread, encode_frame(f)) /\ bytes = <<>>
  BY DEF Send, decoderVars, Join
<1>2. PICK e \in Seq(Octets) : e = encode_frame(f)
  BY PeerFrameBytes
<1>3. PICK N \in Nat : N = Len(sent)
  OBVIOUS
<1>4. PICK n \in 0 .. N : n = Len(frames)
  BY <1>3 DEF Returned
<1>5. /\ sent' \in Seq(PeerFrames) /\ Len(sent') = N + 1 /\ sent'[N + 1] = f
      /\ \A i \in 1 .. N : sent'[i] = sent[i]
  BY <1>1, <1>3
<1>6. unread' \in Seq(Octets) /\ unread' = Join(unread, e) /\ Len(unread') = Len(unread) + Len(e)
      /\ Len(e) \in Nat /\ Len(unread) \in Nat
  BY <1>1, <1>2, JoinTyped
<1>7. DecoderTypes'
  BY <1>1, <1>5, <1>6
<1>8. \A i \in 1 .. n : i \in 1 .. N
  OBVIOUS
<1>9. Returned'
  <2>1. Len(frames') <= Len(sent')
    BY <1>1, <1>4, <1>5
  <2>2. ASSUME NEW i \in 1 .. n
        PROVE  frames'[i] = sent'[i] /\ validate_frame(sent'[i]) = "none"
    <3>1. sent'[i] = sent[i] /\ frames'[i] = frames[i]
      BY <1>1, <1>5, <1>8
    <3>2. QED
      BY <1>4, <3>1 DEF Returned
  <2>3. QED
    BY <1>1, <1>4, <2>1, <2>2 DEF Returned
<1>10. n < N => Arriving' = Arriving
  <2>1. n < N => n + 1 \in 1 .. N
    OBVIOUS
  <2>2. QED
    BY <1>1, <1>4, <1>5, <2>1 DEF Arriving
<1>11. Assembling'
  <2>1. CASE header = <<>>
    BY <1>1, <2>1 DEF Assembling
  <2>2. CASE header # <<>>
    <3>1. n < N
      BY <1>3, <1>4, <2>2 DEF Assembling
    <3>2. Len(frames') < Len(sent')
      BY <1>1, <1>4, <1>5
    <3>3. QED
      BY <1>1, <1>10, <2>2, <3>1, <3>2 DEF Assembling
  <2>3. QED
    BY <2>1, <2>2
<1>12. PICK rest : Behind(rest) /\ Position(rest)
  BY DEF Aligned
<1>13. /\ rest \in [0 .. N -> Seq(Octets)] /\ rest[N] = <<>>
       /\ \A i \in 1 .. N : rest[i - 1] = Join(encode_frame(sent[i]), rest[i])
  BY <1>3, <1>12 DEF Behind
<1>14. PICK more \in [0 .. N + 1 -> Seq(Octets)] :
           /\ more[N + 1] = <<>>
           /\ \A i \in 0 .. N : more[i] = Join(rest[i], e)
  <2> DEFINE extended == [i \in 0 .. N + 1 |-> IF i <= N THEN Join(rest[i], e) ELSE <<>>]
  <2>1. \A i \in 0 .. N + 1 : i <= N => i \in 0 .. N
    OBVIOUS
  <2>2. \A i \in 0 .. N : Join(rest[i], e) \in Seq(Octets)
    BY <1>2, <1>13, JoinTyped
  <2>3. extended \in [0 .. N + 1 -> Seq(Octets)]
    BY <2>1, <2>2, JoinEmpty
  <2>4. extended[N + 1] = <<>> /\ \A i \in 0 .. N : extended[i] = Join(rest[i], e)
    OBVIOUS
  <2>5. QED
    BY <2>3, <2>4
<1>15. Behind(more)'
  <2>1. ASSUME NEW i \in 1 .. N + 1
        PROVE  more[i - 1] = Join(encode_frame(sent'[i]), more[i])
    <3>1. CASE i = N + 1
      <4>1. i - 1 = N /\ N \in 0 .. N
        BY <3>1
      <4>2. more[N] = Join(<<>>, e)
        BY <1>13, <1>14, <4>1
      <4>3. more[N] = e /\ Join(e, <<>>) = e
        BY <1>2, <4>2, JoinEmpty
      <4>4. encode_frame(sent'[i]) = e /\ more[i] = <<>>
        BY <1>2, <1>5, <1>14, <3>1
      <4>5. QED
        BY <4>1, <4>3, <4>4
    <3>2. CASE i # N + 1
      <4>1. i \in 1 .. N /\ i \in 0 .. N /\ i - 1 \in 0 .. N
        BY <3>2
      <4>2. sent[i] \in PeerFrames /\ sent'[i] = sent[i]
        BY <1>3, <1>5, <4>1, ElementOfSeq
      <4>3. PICK d \in Seq(Octets) : d = encode_frame(sent[i])
        BY <4>2, PeerFrameBytes
      <4>4. PICK r \in Seq(Octets) : r = rest[i]
        BY <1>13, <4>1
      <4>5. more[i - 1] = Join(Join(d, r), e) /\ more[i] = Join(r, e)
        BY <1>13, <1>14, <4>1, <4>3, <4>4
      <4>6. Join(Join(d, r), e) = Join(d, Join(r, e))
        BY <1>2, <4>3, <4>4, JoinRegrouped
      <4>7. QED
        BY <4>2, <4>3, <4>5, <4>6
    <3>3. QED
      BY <3>1, <3>2
  <2>2. QED
    BY <1>5, <1>14, <2>1 DEF Behind
<1>16. Position(more)'
  <2>1. more[n] = Join(rest[n], e) /\ rest[n] \in Seq(Octets)
    BY <1>4, <1>13, <1>14
  <2>2. ASSUME error = "none"
        PROVE  Join(header_bytes, Join(payload, Join(bytes, Join(unread, e)))) = Join(rest[n], e)
    <3>1. Join(header_bytes, Join(payload, Join(bytes, unread))) = rest[n]
      BY <1>4, <1>12, <2>2 DEF Position
    <3>2. Join(bytes, unread) \in Seq(Octets) /\ Join(payload, Join(bytes, unread)) \in Seq(Octets)
      BY JoinTyped
    <3>3. Join(Join(bytes, unread), e) = Join(bytes, Join(unread, e))
      BY <1>2, JoinRegrouped
    <3>4. Join(Join(payload, Join(bytes, unread)), e) = Join(payload, Join(Join(bytes, unread), e))
      BY <1>2, <3>2, JoinRegrouped
    <3>5. Join(Join(header_bytes, Join(payload, Join(bytes, unread))), e)
              = Join(header_bytes, Join(Join(payload, Join(bytes, unread)), e))
      BY <1>2, <3>2, JoinRegrouped
    <3>6. QED
      BY <3>1, <3>3, <3>4, <3>5
  <2>3. ASSUME error # "none"
        PROVE  /\ n < N
               /\ error = validate_frame(Arriving)
               /\ Len(unread') + frame_header_size <= Len(more[n])
    <3>1. /\ n < N /\ error = validate_frame(Arriving)
          /\ Len(unread) + frame_header_size <= Len(rest[n])
      BY <1>3, <1>4, <1>12, <2>3 DEF Position
    <3>2. Len(more[n]) = Len(rest[n]) + Len(e) /\ Len(rest[n]) \in Nat
      BY <1>2, <2>1, JoinTyped
    <3>3. (Len(unread) + Len(e)) + frame_header_size <= Len(rest[n]) + Len(e)
      BY <1>6, <3>1, <3>2, HeaderSize, LongerBoth
    <3>4. QED
      BY <1>6, <3>1, <3>2, <3>3
  <2>4. Len(frames') = n /\ Len(sent') = N + 1 /\ bytes' = <<>> /\ error' = error
    BY <1>1, <1>4, <1>5
  <2>5. error = "none" => Join(header_bytes, Join(payload, Join(bytes, unread)))' = more[Len(frames)']
    BY <1>1, <1>6, <2>1, <2>2, <2>4
  <2>6. error # "none" =>
            /\ Len(frames)' < Len(sent)'
            /\ error' = validate_frame(Arriving)'
            /\ (Len(unread) + frame_header_size)' <= Len(more[Len(frames)'])
    BY <1>10, <2>3, <2>4
  <2>7. QED
    BY <2>4, <2>5, <2>6 DEF Position
<1>17. QED
  BY <1>7, <1>9, <1>11, <1>15, <1>16 DEF Aligned

-----------------------------------------------------------------------------
(* The decoder's steps *)

\* A step that leaves the peer's stream and what was returned alone.
LEMMA StreamKept ==
    ASSUME DecoderInv, UNCHANGED <<frames, sent>>
    PROVE  /\ Returned'
           /\ Arriving' = Arriving
           /\ \A rest : Behind(rest) => Behind(rest)'
BY DEF DecoderInv, Returned, Arriving, Behind

\* A read is handed to push(), or dropped by a decoder that has failed.
LEMMA PushInv ==
    ASSUME DecoderInv, NEW k \in 1 .. copy_bytes(MaxRead, Len(unread)), push(k)
    PROVE  DecoderInv'
<1>1. /\ bytes = <<>> /\ unread' = Rest(unread, k)
      /\ bytes' = IF error = "none" THEN First(unread, k) ELSE <<>>
      /\ UNCHANGED <<header_bytes, header, payload, error, frames, sent>>
  BY DEF push
<1>2. DecoderTypes
  BY DEF DecoderInv
<1>3. Len(unread) \in Nat
  BY <1>2 DEF DecoderTypes
<1>4. k \in 0 .. Len(unread)
  BY <1>3, CopiedBytes, DecoderAssumption
<1>5. /\ First(unread, k) \in Seq(Octets) /\ Rest(unread, k) \in Seq(Octets)
      /\ Len(Rest(unread, k)) = Len(unread) - k
      /\ Join(First(unread, k), Rest(unread, k)) = unread
  BY <1>2, <1>4, JoinParts DEF DecoderTypes
<1>6. DecoderTypes'
  BY <1>1, <1>2, <1>5, JoinEmpty DEF DecoderTypes
<1>7. Returned' /\ Arriving' = Arriving
  BY <1>1, StreamKept
<1>8. Assembling'
  BY <1>1, <1>7 DEF DecoderInv, Assembling
<1>9. PICK rest : Behind(rest) /\ Position(rest)
  BY DEF DecoderInv, Aligned
<1>10. Behind(rest)'
  BY <1>1, <1>9, StreamKept
<1>11. Position(rest)'
  <2>1. CASE error = "none"
    <3>1. Join(bytes, unread) = unread
      BY <1>1, <1>2, JoinEmpty DEF DecoderTypes
    <3>2. Join(bytes', unread') = Join(bytes, unread)
      BY <1>1, <1>5, <2>1, <3>1
    <3>3. Join(header_bytes, Join(payload, Join(bytes, unread))) = rest[Len(frames)]
      BY <1>9, <2>1 DEF Position
    <3>4. QED
      BY <1>1, <2>1, <3>2, <3>3 DEF Position
  <2>2. CASE error # "none"
    <3>1. bytes' = <<>> /\ Len(unread') = Len(unread) - k
      BY <1>1, <1>5, <2>2
    <3>2. /\ Len(frames) < Len(sent) /\ error = validate_frame(Arriving)
          /\ Len(unread) + frame_header_size <= Len(rest[Len(frames)])
      BY <1>9, <2>2 DEF Position
    <3>3. Len(frames) < Len(sent)
      BY <3>2
    <3>4. rest[Len(frames)] \in Seq(Octets)
      BY <1>2, <1>9, <3>3, ArrivingBytes
    <3>5. Len(rest[Len(frames)]) \in Nat
      BY <3>4
    <3>6. Len(unread') + frame_header_size <= Len(rest[Len(frames)])
      BY <1>3, <1>4, <3>1, <3>2, <3>5, HeaderSize
    <3>7. QED
      BY <1>1, <1>7, <2>2, <3>1, <3>2, <3>6 DEF Position
  <2>3. QED
    BY <2>1, <2>2
<1>12. QED
  BY <1>6, <1>7, <1>8, <1>10, <1>11 DEF DecoderInv, Aligned

\* The first half of an iteration inside a header: the bytes it does not copy follow those
\* of the header.
LEMMA HeaderHalf ==
    ASSUME DecoderInv, bytes # <<>>, header = <<>>
    PROVE  /\ error = "none" /\ payload = <<>>
           /\ Assembled \in Seq(Octets) /\ Len(Assembled) <= frame_header_size
           /\ Rest(bytes, HeaderCopied) \in Seq(Octets)
           /\ Len(Assembled) < frame_header_size => Rest(bytes, HeaderCopied) = <<>>
           /\ \A rest : Behind(rest) /\ Position(rest) =>
                rest[Len(frames)] = Join(Assembled, Join(Rest(bytes, HeaderCopied), unread))
<1>1. DecoderTypes
  BY DEF DecoderInv
<1>2. PICK b \in Nat : b = Len(bytes)
  BY <1>1 DEF DecoderTypes
<1>3. error = "none"
  BY DEF DecoderInv, Aligned, Position
<1>4. payload = <<>> /\ Len(header_bytes) < frame_header_size
  BY <1>3 DEF DecoderInv, Assembling
<1>5. PICK l \in Nat : l = Len(header_bytes)
  BY <1>1 DEF DecoderTypes
<1>6. PICK c \in 0 .. b :
          /\ c = HeaderCopied /\ c <= frame_header_size - l
          /\ c \in {b, frame_header_size - l}
  <2>1. frame_header_size - l \in Nat
    BY <1>4, <1>5, HeaderSize
  <2>2. QED
    BY <1>2, <1>5, <2>1, CopiedBytes DEF HeaderCopied
<1>7. /\ First(bytes, c) \in Seq(Octets) /\ Len(First(bytes, c)) = c
      /\ Rest(bytes, c) \in Seq(Octets) /\ Len(Rest(bytes, c)) = b - c
      /\ Join(First(bytes, c), Rest(bytes, c)) = bytes
  BY <1>1, <1>2, <1>6, JoinParts DEF DecoderTypes
<1>8. Assembled = Join(header_bytes, First(bytes, c))
  BY <1>6 DEF Assembled, Join
<1>9. Assembled \in Seq(Octets) /\ Len(Assembled) = l + c
  <2>1. header_bytes \in Seq(Octets)
    BY <1>1 DEF DecoderTypes
  <2>2. /\ Join(header_bytes, First(bytes, c)) \in Seq(Octets)
        /\ Len(Join(header_bytes, First(bytes, c))) = Len(header_bytes) + Len(First(bytes, c))
    BY <1>7, <2>1, JoinTyped
  <2>3. QED
    BY <1>5, <1>7, <1>8, <2>2
<1>10. Len(Assembled) <= frame_header_size
  BY <1>5, <1>6, <1>9, HeaderSize
<1>11. ASSUME Len(Assembled) < frame_header_size PROVE Rest(bytes, c) = <<>>
  <2>1. c = b
    BY <1>2, <1>5, <1>6, <1>9, <1>11, HeaderSize
  <2>2. Len(Rest(bytes, c)) = 0
    BY <1>2, <1>7, <2>1
  <2>3. QED
    BY <1>7, <2>2, JoinEmpty
<1>12. ASSUME NEW rest, Behind(rest), Position(rest)
       PROVE  rest[Len(frames)] = Join(Assembled, Join(Rest(bytes, c), unread))
  <2>1. Join(header_bytes, Join(payload, Join(bytes, unread))) = rest[Len(frames)]
    BY <1>3, <1>12 DEF Position
  <2>2. Join(bytes, unread) \in Seq(Octets)
    BY <1>1, JoinTyped DEF DecoderTypes
  <2>3. Join(payload, Join(bytes, unread)) = Join(bytes, unread)
    BY <1>4, <2>2, JoinEmpty
  <2>4. Join(bytes, unread) = Join(First(bytes, c), Join(Rest(bytes, c), unread))
    BY <1>1, <1>7, JoinRegrouped DEF DecoderTypes
  <2>5. Join(Rest(bytes, c), unread) \in Seq(Octets)
    BY <1>1, <1>7, JoinTyped DEF DecoderTypes
  <2>6. Join(header_bytes, Join(First(bytes, c), Join(Rest(bytes, c), unread)))
            = Join(Assembled, Join(Rest(bytes, c), unread))
    BY <1>1, <1>7, <1>8, <2>5, JoinRegrouped DEF DecoderTypes
  <2>7. QED
    BY <2>1, <2>3, <2>4, <2>6
<1>13. QED
  BY <1>3, <1>4, <1>6, <1>7, <1>9, <1>10, <1>11, <1>12

\* The read ends inside the header.
LEMMA PartialHeaderInv ==
    ASSUME DecoderInv, PartialHeader
    PROVE  DecoderInv'
<1>1. /\ bytes # <<>> /\ header = <<>> /\ Len(Assembled) < frame_header_size
      /\ header_bytes' = Assembled /\ bytes' = <<>>
      /\ UNCHANGED <<header, payload, error, frames, sent, unread>>
  BY DEF PartialHeader
<1>2. DecoderTypes
  BY DEF DecoderInv
<1>3. /\ error = "none" /\ payload = <<>> /\ Assembled \in Seq(Octets)
      /\ Len(Assembled) <= frame_header_size
      /\ Rest(bytes, HeaderCopied) = <<>>
  BY <1>1, HeaderHalf
<1>4. DecoderTypes'
  BY <1>1, <1>2, <1>3, JoinEmpty DEF DecoderTypes
<1>5. Returned'
  BY <1>1, StreamKept
<1>6. Assembling'
  BY <1>1, <1>3 DEF Assembling
<1>7. PICK rest : Behind(rest) /\ Position(rest)
  BY DEF DecoderInv, Aligned
<1>8. Behind(rest)'
  BY <1>1, <1>7, StreamKept
<1>9. Position(rest)'
  <2>1. rest[Len(frames)] = Join(Assembled, Join(<<>>, unread))
    BY <1>1, <1>3, <1>7, HeaderHalf
  <2>2. Join(<<>>, Join(<<>>, unread)) = Join(<<>>, unread)
    BY <1>2, JoinEmpty DEF DecoderTypes
  <2>3. QED
    BY <1>1, <1>3, <2>1, <2>2 DEF Position
<1>10. QED
  BY <1>4, <1>5, <1>6, <1>8, <1>9 DEF DecoderInv, Aligned

\* With its last byte the header of the frame that arrives is decoded as it was sent, and
\* the verdict on it is the one on the frame.
LEMMA HeaderArrived ==
    ASSUME DecoderInv, bytes # <<>>, header = <<>>, Len(Assembled) = frame_header_size,
           NEW rest, Behind(rest), Position(rest)
    PROVE  /\ Len(frames) < Len(sent)
           /\ Arriving \in PeerFrames
           /\ Assembled = encode_frame_header(Arriving.header)
           /\ decode_frame_header(Assembled) = Arriving.header
           /\ HeaderError = validate_frame(Arriving)
           /\ Join(Rest(bytes, HeaderCopied), unread)
                  = Join(Arriving.payload, rest[Len(frames) + 1])
<1>1. DecoderTypes /\ Returned
  BY DEF DecoderInv
<1>2. PICK r \in Seq(Octets) : r = Rest(bytes, HeaderCopied)
  BY HeaderHalf
<1>3. Assembled \in Seq(Octets) /\ rest[Len(frames)] = Join(Assembled, Join(r, unread))
  BY <1>2, HeaderHalf
<1>4. Join(r, unread) \in Seq(Octets)
  BY <1>1, <1>2, JoinTyped DEF DecoderTypes
<1>5. rest[Len(frames)] # <<>>
  <2>1. Len(rest[Len(frames)]) = frame_header_size + Len(Join(r, unread)) /\ Len(Join(r, unread)) \in Nat
    BY <1>3, <1>4, JoinTyped
  <2>2. Len(rest[Len(frames)]) # 0
    BY <2>1, HeaderSize
  <2>3. QED
    BY <2>2, JoinEmpty
<1>6. Len(frames) < Len(sent)
  BY <1>1, <1>5, SomeLeft
<1>7. /\ Arriving \in PeerFrames /\ rest[Len(frames) + 1] \in Seq(Octets)
      /\ rest[Len(frames)] = Join(encode_frame_header(Arriving.header),
                                  Join(Arriving.payload, rest[Len(frames) + 1]))
  BY <1>1, <1>6, ArrivingBytes
<1>8. /\ encode_frame_header(Arriving.header) \in Seq(Octets) /\ Arriving.payload \in Seq(Octets)
      /\ Len(encode_frame_header(Arriving.header)) = frame_header_size
      /\ decode_frame_header(encode_frame_header(Arriving.header)) = Arriving.header
  BY <1>7, PeerFrameBytes
<1>9. Join(Arriving.payload, rest[Len(frames) + 1]) \in Seq(Octets)
  BY <1>7, <1>8, JoinTyped
<1>10. /\ Assembled = encode_frame_header(Arriving.header)
       /\ Join(r, unread) = Join(Arriving.payload, rest[Len(frames) + 1])
  <2>1. PICK e \in Seq(Octets) : e = encode_frame_header(Arriving.header)
    BY <1>8
  <2>2. PICK q \in Seq(Octets) : q = Join(Arriving.payload, rest[Len(frames) + 1])
    BY <1>9
  <2>3. PICK u \in Seq(Octets) : u = Join(r, unread)
    BY <1>4
  <2>4. Join(Assembled, u) = Join(e, q) /\ Len(Assembled) = Len(e)
    BY <1>3, <1>7, <1>8, <2>1, <2>2, <2>3
  <2>5. Assembled = e /\ u = q
    BY <1>3, <2>1, <2>2, <2>3, <2>4, JoinCut
  <2>6. QED
    BY <2>1, <2>2, <2>3, <2>5
<1>11. decode_frame_header(Assembled) = Arriving.header
  BY <1>8, <1>10
<1>12. HeaderError = validate_frame(Arriving)
  BY <1>7, <1>11, HeaderVerdict DEF HeaderError
<1>13. QED
  BY <1>2, <1>6, <1>7, <1>10, <1>11, <1>12

\* The header of an invalid frame is complete: its fault becomes the decoder's error.
LEMMA RejectHeaderInv ==
    ASSUME DecoderInv, RejectHeader
    PROVE  DecoderInv'
<1>1. /\ bytes # <<>> /\ header = <<>> /\ Len(Assembled) = frame_header_size
      /\ HeaderError # "none"
      /\ header_bytes' = Assembled /\ error' = HeaderError /\ bytes' = <<>>
      /\ UNCHANGED <<header, payload, frames, sent, unread>>
  BY DEF RejectHeader
<1>2. DecoderTypes
  BY DEF DecoderInv
<1>3. payload = <<>> /\ Assembled \in Seq(Octets)
  BY <1>1, HeaderHalf
<1>4. DecoderTypes'
  BY <1>1, <1>2, <1>3, JoinEmpty DEF DecoderTypes
<1>5. Returned' /\ Arriving' = Arriving
  BY <1>1, StreamKept
<1>6. Assembling'
  BY <1>1, <1>3, HeaderSize DEF Assembling
<1>7. PICK rest : Behind(rest) /\ Position(rest)
  BY DEF DecoderInv, Aligned
<1>8. Behind(rest)'
  BY <1>1, <1>7, StreamKept
<1>9. Position(rest)'
  <2>1. Len(frames) < Len(sent) /\ HeaderError = validate_frame(Arriving)
    BY <1>1, <1>7, HeaderArrived
  <2>2. PICK r \in Seq(Octets) : r = Rest(bytes, HeaderCopied)
    BY <1>1, HeaderHalf
  <2>3. rest[Len(frames)] = Join(Assembled, Join(r, unread))
    BY <1>1, <1>7, <2>2, HeaderHalf
  <2>4. Join(r, unread) \in Seq(Octets) /\ Len(Join(r, unread)) = Len(r) + Len(unread)
        /\ Len(r) \in Nat /\ Len(unread) \in Nat
    BY <1>2, <2>2, JoinTyped DEF DecoderTypes
  <2>5. Len(rest[Len(frames)]) = frame_header_size + Len(Join(r, unread))
    BY <1>1, <1>3, <2>3, <2>4, JoinTyped
  <2>6. Len(unread) + frame_header_size <= Len(rest[Len(frames)])
    BY <2>4, <2>5, HeaderSize
  <2>7. QED
    BY <1>1, <1>5, <2>1, <2>6 DEF Position
<1>10. QED
  BY <1>4, <1>5, <1>6, <1>8, <1>9 DEF DecoderInv, Aligned

\* The second half of an iteration, with the header of the frame that arrives and bytes that
\* go on with its payload: the frame is returned with its last byte.
LEMMA FillPayloadInv ==
    ASSUME DecoderInv, error = "none", Len(frames) < Len(sent),
           validate_frame(Arriving) = "none",
           NEW rest, Behind(rest), NEW r \in Seq(Octets),
           Len(payload) <= Len(Arriving.payload),
           Join(payload, Join(r, unread)) = Join(Arriving.payload, rest[Len(frames) + 1]),
           FillPayload(Arriving.header, encode_frame_header(Arriving.header), r),
           UNCHANGED <<error, sent, unread>>
    PROVE  DecoderInv'
<1>1. DecoderTypes /\ Returned
  BY DEF DecoderInv
<1>2. PICK h : h = Arriving.header
  OBVIOUS
<1>3. PICK a \in Seq(Octets) : a = encode_frame_header(h) /\ Len(a) = frame_header_size
  BY <1>1, <1>2, ArrivingBytes, PeerFrameBytes
<1>4. PICK p \in Seq(Octets) :
          p = Arriving.payload /\ h.payload_size = Len(p) /\ Arriving = [header |-> h, payload |-> p]
  BY <1>1, <1>2, ArrivingBytes, PeerFrameBytes
<1>5. PICK next \in Seq(Octets) : next = rest[Len(frames) + 1] /\ rest[Len(frames)] = Join(a, Join(p, next))
  BY <1>1, <1>2, <1>3, <1>4, ArrivingBytes
<1>6. Len(r) \in Nat /\ Len(payload) \in Nat /\ Len(p) \in Nat /\ Len(payload) <= Len(p)
  BY <1>1, <1>4 DEF DecoderTypes
<1>7. PICK c \in 0 .. Len(r) :
          /\ c = copy_bytes(Len(r), h.payload_size - Len(payload))
          /\ c <= Len(p) - Len(payload)
  <2>1. PICK m \in Nat : m = h.payload_size - Len(payload) /\ m = Len(p) - Len(payload)
    <3>1. h.payload_size = Len(p)
      BY <1>4
    <3>2. \A k, l \in Nat : l <= k => k - l \in Nat
      OBVIOUS
    <3>3. Len(p) - Len(payload) \in Nat
      BY <1>6, <3>2
    <3>4. QED
      BY <3>1, <3>3
  <2>2. copy_bytes(Len(r), m) \in 0 .. Len(r) /\ copy_bytes(Len(r), m) <= m
    BY <1>6, <2>1, CopiedBytes
  <2>3. QED
    BY <2>1, <2>2
<1>8. /\ First(r, c) \in Seq(Octets) /\ Len(First(r, c)) = c
      /\ Rest(r, c) \in Seq(Octets)
      /\ Join(First(r, c), Rest(r, c)) = r
  BY <1>7, JoinParts
<1>9. PICK body : body = Join(payload, First(r, c))
  OBVIOUS
<1>10. body \in Seq(Octets) /\ Len(body) \in Nat /\ Len(body) <= Len(p)
  <2>1. body \in Seq(Octets) /\ Len(body) = Len(payload) + Len(First(r, c))
    BY <1>1, <1>8, <1>9, JoinTyped DEF DecoderTypes
  <2>2. Len(body) = Len(payload) + c
    BY <1>8, <2>1
  <2>3. QED
    BY <1>6, <1>7, <2>1, <2>2
<1>11. PICK after \in Seq(Octets) : after = Join(Rest(r, c), unread)
  BY <1>1, <1>8, JoinTyped DEF DecoderTypes
<1>12. Join(body, after) = Join(p, next)
  <2>1. Join(r, unread) = Join(First(r, c), after)
    BY <1>1, <1>8, <1>11, JoinRegrouped DEF DecoderTypes
  <2>2. Join(payload, Join(First(r, c), after)) = Join(Join(payload, First(r, c)), after)
    BY <1>1, <1>8, <1>11, JoinRegrouped DEF DecoderTypes
  <2>3. QED
    BY <1>4, <1>5, <1>9, <2>1, <2>2
<1>13. /\ bytes' = Rest(r, c)
       /\ IF Completes(h, body, c) THEN Emit(h, body)
          ELSE /\ header' = <<h>>
               /\ header_bytes' = a
               /\ payload' = body
               /\ UNCHANGED frames
  BY <1>2, <1>3, <1>7, <1>9 DEF FillPayload, Join
<1>14. CASE Len(body) = Len(p)
  <2>1. body = p /\ after = next
    BY <1>4, <1>5, <1>10, <1>11, <1>12, <1>14, JoinCut
  <2>2. /\ frames' = Append(frames, Arriving)
        /\ header' = <<>> /\ header_bytes' = <<>> /\ payload' = <<>>
    BY <1>4, <1>13, <1>14, <2>1 DEF Completes, Emit
  <2>3. Arriving \in PeerFrames
    BY <1>1, ArrivingBytes
  <2>4. DecoderTypes'
    BY <1>1, <1>8, <1>13, <2>2, <2>3, JoinEmpty DEF DecoderTypes
  <2>5. PICK n \in Nat : n = Len(frames)
    BY <1>1 DEF DecoderTypes
  <2>6. Len(frames') = n + 1 /\ frames'[n + 1] = Arriving /\ \A i \in 1 .. n : frames'[i] = frames[i]
    BY <1>1, <2>2, <2>3, <2>5 DEF DecoderTypes
  <2>7. Returned'
    <3>1. Len(sent) \in Nat
      BY <1>1 DEF DecoderTypes
    <3>2. Len(frames') <= Len(sent')
      BY <2>5, <2>6, <3>1
    <3>3. ASSUME NEW i \in 1 .. n + 1
          PROVE  frames'[i] = sent'[i] /\ validate_frame(sent'[i]) = "none"
      <4>1. CASE i = n + 1
        BY <2>5, <2>6, <4>1 DEF Arriving
      <4>2. CASE i # n + 1
        <5>1. i \in 1 .. n
          BY <2>5, <4>2
        <5>2. frames[i] = sent[i] /\ validate_frame(sent[i]) = "none"
          BY <1>1, <2>5, <5>1 DEF Returned
        <5>3. QED
          BY <2>6, <5>1, <5>2
      <4>3. QED
        BY <4>1, <4>2
    <3>4. QED
      BY <2>6, <3>2, <3>3 DEF Returned
  <2>8. Assembling'
    BY <2>2, JoinEmpty, HeaderSize DEF Assembling
  <2>9. Behind(rest)'
    BY DEF Behind
  <2>10. Position(rest)'
    <3>1. Join(bytes', unread') = next
      BY <1>11, <1>13, <2>1
    <3>2. Join(header_bytes', Join(payload', next)) = next
      BY <1>5, <2>2, JoinEmpty
    <3>3. rest[Len(frames')] = next
      BY <1>5, <2>5, <2>6
    <3>4. QED
      BY <3>1, <3>2, <3>3 DEF Position
  <2>11. QED
    BY <2>4, <2>7, <2>8, <2>9, <2>10 DEF DecoderInv, Aligned
<1>15. CASE Len(body) # Len(p)
  <2>1. header' = <<h>> /\ header_bytes' = a /\ payload' = body /\ frames' = frames
    BY <1>4, <1>13, <1>15 DEF Completes
  <2>2. DecoderTypes'
    BY <1>1, <1>3, <1>8, <1>10, <1>13, <2>1 DEF DecoderTypes
  <2>3. Returned' /\ Arriving' = Arriving /\ Behind(rest)'
    BY <2>1, StreamKept
  <2>4. Len(body) < Len(p)
    BY <1>6, <1>10, <1>15
  <2>5. Assembling'
    BY <1>2, <1>3, <1>4, <2>1, <2>3, <2>4 DEF Assembling
  <2>6. Position(rest)'
    <3>1. Join(bytes', unread') = after
      BY <1>11, <1>13
    <3>2. Join(header_bytes', Join(payload', after)) = rest[Len(frames)]
      BY <1>5, <1>12, <2>1
    <3>3. QED
      BY <2>1, <3>1, <3>2 DEF Position
  <2>7. QED
    BY <2>2, <2>3, <2>5, <2>6 DEF DecoderInv, Aligned
<1>16. QED
  BY <1>14, <1>15

\* A valid header is complete, and the iteration goes on to the payload.
LEMMA StartFrameInv ==
    ASSUME DecoderInv, StartFrame
    PROVE  DecoderInv'
<1>1. /\ bytes # <<>> /\ header = <<>> /\ Len(Assembled) = frame_header_size
      /\ HeaderError = "none"
      /\ FillPayload(decode_frame_header(Assembled), Assembled, Rest(bytes, HeaderCopied))
      /\ UNCHANGED <<error, sent, unread>>
  BY DEF StartFrame
<1>2. PICK rest : Behind(rest) /\ Position(rest)
  BY DEF DecoderInv, Aligned
<1>3. PICK r \in Seq(Octets) : r = Rest(bytes, HeaderCopied)
  BY <1>1, HeaderHalf
<1>4. error = "none" /\ payload = <<>>
  BY <1>1, HeaderHalf
<1>5. /\ Len(frames) < Len(sent) /\ Arriving \in PeerFrames
      /\ Assembled = encode_frame_header(Arriving.header)
      /\ decode_frame_header(Assembled) = Arriving.header
      /\ validate_frame(Arriving) = "none"
      /\ Join(r, unread) = Join(Arriving.payload, rest[Len(frames) + 1])
  BY <1>1, <1>2, <1>3, HeaderArrived
<1>6. Len(payload) <= Len(Arriving.payload)
  <2>1. Arriving.payload \in Seq(Octets)
    BY <1>5, PeerFrameBytes
  <2>2. QED
    BY <1>4, <2>1, JoinEmpty
<1>7. Join(payload, Join(r, unread)) = Join(Arriving.payload, rest[Len(frames) + 1])
  <2>1. Join(r, unread) \in Seq(Octets)
    BY <1>3, JoinTyped DEF DecoderInv, DecoderTypes
  <2>2. QED
    BY <1>4, <1>5, <2>1, JoinEmpty
<1>8. FillPayload(Arriving.header, encode_frame_header(Arriving.header), r)
  BY <1>1, <1>3, <1>5
<1>9. QED
  BY <1>1, <1>2, <1>3, <1>4, <1>5, <1>6, <1>7, <1>8, FillPayloadInv

\* An iteration inside a payload.
LEMMA ContinueFrameInv ==
    ASSUME DecoderInv, ContinueFrame
    PROVE  DecoderInv'
<1>1. /\ bytes # <<>> /\ header # <<>>
      /\ FillPayload(header[1], header_bytes, bytes)
      /\ UNCHANGED <<error, sent, unread>>
  BY DEF ContinueFrame
<1>2. DecoderTypes
  BY DEF DecoderInv
<1>3. /\ error = "none" /\ Len(frames) < Len(sent) /\ header = <<Arriving.header>>
      /\ validate_frame(Arriving) = "none" /\ Len(header_bytes) = frame_header_size
      /\ Len(payload) < Len(Arriving.payload)
  BY <1>1 DEF DecoderInv, Assembling
<1>4. PICK rest : Behind(rest) /\ Position(rest)
  BY DEF DecoderInv, Aligned
<1>5. PICK e \in Seq(Octets), q \in Seq(Octets) :
          /\ e = encode_frame_header(Arriving.header) /\ Len(e) = frame_header_size
          /\ q = Join(Arriving.payload, rest[Len(frames) + 1])
          /\ rest[Len(frames)] = Join(e, q)
  <2>1. /\ Arriving \in PeerFrames /\ rest[Len(frames) + 1] \in Seq(Octets)
        /\ rest[Len(frames)] = Join(encode_frame_header(Arriving.header),
                                    Join(Arriving.payload, rest[Len(frames) + 1]))
    BY <1>2, <1>3, <1>4, ArrivingBytes
  <2>2. /\ encode_frame_header(Arriving.header) \in Seq(Octets) /\ Arriving.payload \in Seq(Octets)
        /\ Len(encode_frame_header(Arriving.header)) = frame_header_size
    BY <2>1, PeerFrameBytes
  <2>3. Join(Arriving.payload, rest[Len(frames) + 1]) \in Seq(Octets)
    BY <2>1, <2>2, JoinTyped
  <2>4. QED
    BY <2>1, <2>2, <2>3
<1>6. PICK u \in Seq(Octets) : u = Join(payload, Join(bytes, unread))
  BY <1>2, JoinTyped DEF DecoderTypes
<1>7. Join(header_bytes, u) = Join(e, q)
  BY <1>3, <1>4, <1>5, <1>6 DEF Position
<1>8. header_bytes = e /\ u = q
  BY <1>2, <1>3, <1>5, <1>6, <1>7, JoinCut DEF DecoderTypes
<1>9. Len(payload) <= Len(Arriving.payload)
  <2>1. Arriving.payload \in Seq(Octets)
    BY <1>2, <1>3, <1>4, ArrivingBytes, PeerFrameBytes
  <2>2. Len(payload) \in Nat /\ Len(Arriving.payload) \in Nat
    BY <1>2, <2>1 DEF DecoderTypes
  <2>3. QED
    BY <1>3, <2>2
<1>10. Join(payload, Join(bytes, unread)) = Join(Arriving.payload, rest[Len(frames) + 1])
  BY <1>5, <1>6, <1>8
<1>11. FillPayload(Arriving.header, encode_frame_header(Arriving.header), bytes)
  <2>1. header[1] = Arriving.header
    BY <1>3
  <2>2. QED
    BY <1>1, <1>5, <1>8, <2>1
<1>12. QED
  BY <1>1, <1>2, <1>3, <1>4, <1>9, <1>10, <1>11, FillPayloadInv DEF DecoderTypes

\* reset() leaves nothing of the old stream behind.
LEMMA ResetInv ==
    ASSUME DecoderInv, reset
    PROVE  DecoderInv'
<1>1. /\ header_bytes' = <<>> /\ payload' = <<>> /\ bytes' = <<>> /\ unread' = <<>>
      /\ sent' = <<>> /\ frames' = <<>> /\ header' = <<>> /\ error' = "none"
  BY DEF reset, Cleared
<1>2. /\ Len(<<>>) = 0 /\ <<>> \in Seq(Octets) /\ <<>> \in Seq(PeerFrames)
      /\ Join(<<>>, <<>>) = <<>>
  BY EmptySeq, JoinEmpty
<1>3. DecoderTypes' /\ Returned'
  BY <1>1, <1>2 DEF DecoderTypes, Returned
<1>4. Assembling'
  BY <1>1, <1>2, HeaderSize DEF Assembling
<1>5. PICK rest : rest \in [0 .. 0 -> Seq(Octets)] /\ rest[0] = <<>>
  BY NothingBehind
<1>6. Behind(rest)'
  BY <1>1, <1>2, <1>5 DEF Behind
<1>7. Position(rest)'
  BY <1>1, <1>2, <1>5 DEF Position
<1>8. QED
  BY <1>3, <1>4, <1>6, <1>7 DEF DecoderInv, Aligned

\* Every step keeps the invariant.
LEMMA DecoderStepInv ==
    ASSUME DecoderInv, [DecoderNext]_decodingVars
    PROVE  DecoderInv'
<1>1. CASE \E f \in PeerFrames : Send(f)
  BY <1>1, SendInv
<1>2. CASE \E k \in 1 .. copy_bytes(MaxRead, Len(unread)) : push(k)
  BY <1>2, PushInv
<1>3. CASE PartialHeader
  BY <1>3, PartialHeaderInv
<1>4. CASE RejectHeader
  BY <1>4, RejectHeaderInv
<1>5. CASE StartFrame
  BY <1>5, StartFrameInv
<1>6. CASE ContinueFrame
  BY <1>6, ContinueFrameInv
<1>7. CASE reset
  BY <1>7, ResetInv
<1>8. CASE UNCHANGED decodingVars
  <2>1. UNCHANGED <<header_bytes, header, payload, error, bytes, frames, sent, unread>>
    BY <1>8 DEF decodingVars, decoderVars
  <2>2. DecoderTypes' /\ Returned' /\ Assembling'
    BY <2>1 DEF DecoderInv, DecoderTypes, Returned, Assembling, Arriving
  <2>3. Aligned'
    BY <2>1 DEF DecoderInv, Aligned, Behind, Position, Arriving
  <2>4. QED
    BY <2>2, <2>3 DEF DecoderInv
<1>9. QED
  BY <1>1, <1>2, <1>3, <1>4, <1>5, <1>6, <1>7, <1>8 DEF DecoderNext, Iterate

\* What the decoder holds is always the part it has read of the frames not yet returned.
THEOREM DecoderInvariant == DecoderSpec => []DecoderInv
<1>1. DecoderInit => DecoderInv
  BY DecoderInitInv
<1>2. DecoderInv /\ [DecoderNext]_decodingVars => DecoderInv'
  BY DecoderStepInv
<1>3. QED
  BY <1>1, <1>2, PTL DEF DecoderSpec

\* An error of the decoder is that of the frame that arrives.
LEMMA ErrorIsArriving ==
    ASSUME DecoderInv, error # "none"
    PROVE  Len(frames) < Len(sent) /\ Arriving \in PeerFrames /\ error = validate_frame(Arriving)
<1>1. PICK rest : Behind(rest) /\ Position(rest)
  BY DEF DecoderInv, Aligned
<1>2. Len(frames) < Len(sent) /\ error = validate_frame(Arriving)
  BY <1>1 DEF Position
<1>3. QED
  BY <1>1, <1>2, ArrivingBytes DEF DecoderInv

\* A held header is the valid one of the frame that arrives.
LEMMA HeldHeader ==
    ASSUME DecoderInv, header # <<>>
    PROVE  /\ Len(frames) < Len(sent) /\ Arriving \in PeerFrames
           /\ header = <<Arriving.header>> /\ validate_frame(Arriving) = "none"
           /\ Len(payload) < Len(Arriving.payload)
<1>1. PICK rest : Behind(rest)
  BY DEF DecoderInv, Aligned
<1>2. /\ Len(frames) < Len(sent) /\ header = <<Arriving.header>>
      /\ validate_frame(Arriving) = "none" /\ Len(payload) < Len(Arriving.payload)
  BY DEF DecoderInv, Assembling
<1>3. QED
  BY <1>1, <1>2, ArrivingBytes DEF DecoderInv

\* frame_decoder.hpp: whatever a peer declares, no more than the limit is ever held for a
\* payload, and a payload's length is no error of the decoder's own.
THEOREM DecoderTypeCorrect == DecoderSpec => []DecoderTypeOK
<1>1. ASSUME DecoderInv PROVE DecoderTypeOK
  <2>1. Len(header_bytes) <= frame_header_size
    <3>1. Len(header_bytes) \in Nat
      BY <1>1 DEF DecoderInv, DecoderTypes
    <3>2. QED
      BY <1>1, <3>1, HeaderSize DEF DecoderInv, Assembling
  <2>2. error \in FrameValidationErrors \ {"payload_length_mismatch"}
    <3>1. CASE error = "none"
      BY <3>1 DEF FrameValidationErrors
    <3>2. CASE error # "none"
      BY <1>1, <3>2, ErrorIsArriving, HeaderVerdict
    <3>3. QED
      BY <3>1, <3>2
  <2>3. CASE header = <<>>
    <3>1. Len(header) = 0 /\ DOMAIN header = {}
      BY <2>3
    <3>2. QED
      BY <2>1, <2>2, <3>1 DEF DecoderTypeOK
  <2>4. CASE header # <<>>
    <3>1. PICK h : h = Arriving.header /\ header = <<h>>
      BY <1>1, <2>4, HeldHeader
    <3>2. Len(header) = 1 /\ DOMAIN header = {1} /\ header[1] = h
      BY <3>1
    <3>3. /\ Arriving.payload \in Seq(Octets) /\ h.payload_size = Len(Arriving.payload)
          /\ h.payload_size <= MaxPayloadSize
      BY <1>1, <2>4, <3>1, HeldHeader, PeerFrameBytes, HeaderVerdict
    <3>4. Len(payload) <= h.payload_size
      <4>1. Len(payload) \in Nat /\ Len(Arriving.payload) \in Nat
        BY <1>1, <3>3 DEF DecoderInv, DecoderTypes
      <4>2. Len(payload) < Len(Arriving.payload)
        BY <1>1, <2>4, HeldHeader
      <4>3. QED
        BY <3>3, <4>1, <4>2
    <3>5. QED
      BY <2>1, <2>2, <3>2, <3>3, <3>4 DEF DecoderTypeOK
  <2>5. QED
    BY <2>3, <2>4
<1>2. QED
  BY <1>1, DecoderInvariant, PTL

\* frame_decoder.hpp, push(): for every way to cut a byte stream into reads, the frames
\* returned are those sent, in order and unchanged, up to the first invalid one.
THEOREM DecodedAsSent == DecoderSpec => []DecodesWhatWasSent
<1>1. ASSUME DecoderInv PROVE DecodesWhatWasSent
  <2>1. /\ Len(frames) <= Len(sent)
        /\ \A i \in 1 .. Len(frames) : frames[i] = sent[i] /\ validate_frame(sent[i]) = "none"
    BY <1>1 DEF DecoderInv, Returned
  <2>2. DOMAIN frames = 1 .. Len(frames)
    BY <1>1 DEF DecoderInv, DecoderTypes
  <2>3. error # "none" =>
            Len(frames) < Len(sent) /\ error = validate_frame(sent[Len(frames) + 1])
    BY <1>1, ErrorIsArriving DEF Arriving
  <2>4. QED
    BY <2>1, <2>2, <2>3 DEF DecodesWhatWasSent
<1>2. QED
  BY <1>1, DecoderInvariant, PTL

-----------------------------------------------------------------------------
(* Positions in the stream *)

\* The function that Offset defines.
Adding(g, n) ==
    g = [i \in 0 .. n |-> IF i = 0 THEN 0
                          ELSE g[i - 1] + frame_header_size + Len(sent[i].payload)]

\* There is only one.
LEMMA AddingUnique ==
    ASSUME NEW n \in Nat, NEW g, Adding(g, n), NEW h, Adding(h, n)
    PROVE  g[n] = h[n]
<1> DEFINE C == {i \in 0 .. n : g[i] # h[i]}
<1>1. /\ \A i \in 0 .. n : g[i] = IF i = 0 THEN 0
                                  ELSE g[i - 1] + frame_header_size + Len(sent[i].payload)
      /\ \A i \in 0 .. n : h[i] = IF i = 0 THEN 0
                                  ELSE h[i - 1] + frame_header_size + Len(sent[i].payload)
  BY DEF Adding
<1>2. SUFFICES ASSUME C # {} PROVE FALSE
  <2>1. n \in 0 .. n
    OBVIOUS
  <2>2. QED
    BY <2>1
<1>3. C \in SUBSET Nat
  OBVIOUS
<1> HIDE DEF C
<1>4. PICK i \in C : \A m \in C : ~(m < i)
  BY <1>2, <1>3, LeastNumber
<1>5. i \in 0 .. n /\ g[i] # h[i]
  BY <1>4 DEF C
<1>6. i # 0
  BY <1>1, <1>5
<1>7. i - 1 \in 0 .. n /\ i - 1 < i
  BY <1>5, <1>6
<1>8. g[i - 1] = h[i - 1]
  BY <1>4, <1>7 DEF C
<1>9. QED
  BY <1>1, <1>5, <1>6, <1>8

\* A frame begins where what is behind the frames before it begins.
LEMMA OffsetIs ==
    ASSUME DecoderTypes, NEW rest, Behind(rest), NEW n \in 0 .. Len(sent)
    PROVE  Offset(n) = Len(rest[0]) - Len(rest[n])
<1>1. PICK N \in Nat : N = Len(sent)
  BY DEF DecoderTypes
<1>2. n \in Nat /\ n <= N
  BY <1>1
<1>3. \A i \in 0 .. n : i \in 0 .. N
  BY <1>1, <1>2
<1>4. \A i \in 0 .. n : rest[i] \in Seq(Octets) /\ Len(rest[i]) \in Nat
  <2>1. ASSUME NEW i \in 0 .. n PROVE rest[i] \in Seq(Octets)
    BY <1>1, <1>3 DEF Behind
  <2>2. ASSUME NEW s \in Seq(Octets) PROVE Len(s) \in Nat
    OBVIOUS
  <2>3. QED
    BY <2>1, <2>2
<1> DEFINE g == [i \in 0 .. n |-> Len(rest[0]) - Len(rest[i])]
<1>5. ASSUME NEW i \in 0 .. n
      PROVE  g[i] = IF i = 0 THEN 0 ELSE g[i - 1] + frame_header_size + Len(sent[i].payload)
  <2>1. CASE i = 0
    BY <1>4, <2>1
  <2>2. CASE i # 0
    <3>1. i \in 1 .. N /\ i - 1 \in 0 .. n
      BY <1>1, <1>2, <2>2
    <3>2. sent[i] \in PeerFrames
      BY <1>1, <3>1, ElementOfSeq DEF DecoderTypes
    <3>3. /\ encode_frame(sent[i]) \in Seq(Octets)
          /\ Len(encode_frame(sent[i])) = frame_header_size + Len(sent[i].payload)
          /\ sent[i].payload \in Seq(Octets)
      BY <3>2, PeerFrameBytes
    <3>4. rest[i - 1] = Join(encode_frame(sent[i]), rest[i])
      BY <1>1, <3>1 DEF Behind
    <3>5. Len(rest[i - 1]) = Len(encode_frame(sent[i])) + Len(rest[i])
      BY <1>4, <3>3, <3>4, JoinTyped
    <3>6. PICK p \in Nat : p = Len(sent[i].payload)
      BY <3>3
    <3>7. PICK x \in Nat, y \in Nat, z \in Nat :
              x = Len(rest[0]) /\ y = Len(rest[i]) /\ z = Len(rest[i - 1])
      <4>1. 0 \in 0 .. n
        BY <1>2
      <4>2. QED
        BY <1>4, <3>1, <4>1
    <3>8. z = frame_header_size + p + y
      BY <3>3, <3>5, <3>6, <3>7
    <3>9. x - y = x - z + frame_header_size + p
      BY <3>6, <3>7, <3>8, HeaderSize
    <3>10. g[i] = x - y /\ g[i - 1] = x - z
      BY <3>1, <3>7
    <3>11. QED
      BY <2>2, <3>6, <3>9, <3>10
  <2>3. QED
    BY <2>1, <2>2
<1>6. g = [i \in 0 .. n |-> g[i]] /\ g[n] = Len(rest[0]) - Len(rest[n])
  BY <1>2
<1> HIDE DEF g
<1>7. Adding(g, n)
  BY <1>5, <1>6 DEF Adding
<1>8. Offset(n) = (CHOOSE f : Adding(f, n))[n]
  BY DEF Offset, Adding
<1>9. Adding(CHOOSE f : Adding(f, n), n)
  BY <1>7
<1>10. QED
  BY <1>2, <1>6, <1>7, <1>8, <1>9, AddingUnique

\* frame_decoder.hpp, push() and has_incomplete_frame(): no read ends with a frame or an
\* error withheld that its bytes already decide.
THEOREM DecoderWithholdsNothing == DecoderSpec => []NothingWithheld
<1>1. ASSUME DecoderInv, bytes = <<>>,
             NEW n, n = Len(frames), NEW begun, begun = Offset(Len(sent)) - Len(unread) - Offset(n)
      PROVE  /\ error = "none" => (has_incomplete_frame <=> begun # 0)
             /\ n < Len(sent) =>
                 IF validate_frame(sent[n + 1]) = "none"
                 THEN begun < frame_header_size + Len(sent[n + 1].payload)
                 ELSE error # "none" <=> begun >= frame_header_size
  <2>1. DecoderTypes /\ Returned /\ Assembling
    BY <1>1 DEF DecoderInv
  <2>2. PICK rest : Behind(rest) /\ Position(rest)
    BY <1>1 DEF DecoderInv, Aligned
  <2>3. PICK N \in Nat : N = Len(sent) /\ n \in 0 .. N
    BY <1>1, <2>1 DEF DecoderTypes, Returned
  <2>4. /\ rest[0] \in Seq(Octets) /\ rest[n] \in Seq(Octets) /\ rest[N] = <<>>
    BY <2>2, <2>3 DEF Behind
  <2>5. PICK x \in Nat, y \in Nat, u \in Nat, l \in Nat, p \in Nat :
            /\ x = Len(rest[0]) /\ y = Len(rest[n]) /\ u = Len(unread)
            /\ l = Len(header_bytes) /\ p = Len(payload)
    <3>1. ASSUME NEW s \in Seq(Octets) PROVE Len(s) \in Nat
      OBVIOUS
    <3>2. QED
      BY <2>1, <2>4, <3>1 DEF DecoderTypes
  <2>6. begun = y - u
    <3>1. Offset(N) = x - 0 /\ Offset(n) = x - y
      <4>1. N \in 0 .. Len(sent) /\ n \in 0 .. Len(sent)
        BY <2>3
      <4>2. Offset(N) = Len(rest[0]) - Len(rest[N]) /\ Offset(n) = Len(rest[0]) - Len(rest[n])
        BY <2>1, <2>2, <4>1, OffsetIs
      <4>3. QED
        BY <2>4, <2>5, <4>2, JoinEmpty
    <3>2. QED
      BY <1>1, <2>3, <2>5, <3>1
  <2>7. error = "none" => begun = l + p
    <3>1. SUFFICES ASSUME error = "none" PROVE begun = l + p
      OBVIOUS
    <3>2. Join(header_bytes, Join(payload, Join(<<>>, unread))) = rest[n]
      BY <1>1, <2>2, <3>1 DEF Position
    <3>3. Join(<<>>, unread) = unread
      BY <2>1, JoinEmpty DEF DecoderTypes
    <3>4. Join(payload, unread) \in Seq(Octets) /\ Len(Join(payload, unread)) = p + u
      <4>1. Len(Join(payload, unread)) = Len(payload) + Len(unread)
        BY <2>1, JoinTyped DEF DecoderTypes
      <4>2. QED
        BY <2>1, <2>5, <4>1, JoinTyped DEF DecoderTypes
    <3>5. y = l + (p + u)
      <4>1. PICK t \in Seq(Octets) : t = Join(payload, unread) /\ Len(t) = p + u
        BY <3>4
      <4>2. Join(header_bytes, t) = rest[n]
        BY <3>2, <3>3, <4>1
      <4>3. Len(Join(header_bytes, t)) = Len(header_bytes) + Len(t)
        BY <2>1, <4>1, JoinTyped DEF DecoderTypes
      <4>4. QED
        BY <2>5, <4>1, <4>2, <4>3
    <3>6. QED
      BY <2>5, <2>6, <3>5
  <2>8. (l = 0 <=> header_bytes = <<>>) /\ (header = <<>> => p = 0)
    <3>1. l = 0 <=> header_bytes = <<>>
      BY <2>1, <2>5, JoinEmpty DEF DecoderTypes
    <3>2. header = <<>> => payload = <<>>
      BY <2>1 DEF Assembling
    <3>3. QED
      BY <2>5, <3>1, <3>2, JoinEmpty
  <2>9. error = "none" => (has_incomplete_frame <=> begun # 0)
    <3>1. SUFFICES ASSUME error = "none" PROVE has_incomplete_frame <=> begun # 0
      OBVIOUS
    <3>2. CASE header = <<>>
      <4>1. begun = l
        BY <2>5, <2>7, <2>8, <3>1, <3>2
      <4>2. QED
        BY <2>8, <3>2, <4>1 DEF has_incomplete_frame
    <3>3. CASE header # <<>>
      <4>1. l = frame_header_size
        BY <2>1, <2>5, <3>3 DEF Assembling
      <4>2. begun # 0
        BY <2>5, <2>7, <3>1, <4>1, HeaderSize
      <4>3. QED
        BY <3>3, <4>2 DEF has_incomplete_frame
    <3>4. QED
      BY <3>2, <3>3
  <2>10. ASSUME n < Len(sent)
         PROVE  IF validate_frame(sent[n + 1]) = "none"
                THEN begun < frame_header_size + Len(sent[n + 1].payload)
                ELSE error # "none" <=> begun >= frame_header_size
    <3>1. Arriving = sent[n + 1] /\ Arriving \in PeerFrames
      BY <1>1, <2>1, <2>2, <2>10, ArrivingBytes DEF Arriving
    <3>2. PICK q \in Nat : q = Len(Arriving.payload)
      BY <3>1, PeerFrameBytes
    <3>3. CASE error = "none"
      <4>1. CASE header = <<>>
        <5>1. l < frame_header_size
          BY <2>1, <2>5, <3>3, <4>1 DEF Assembling
        <5>2. begun = l
          BY <2>5, <2>7, <2>8, <3>3, <4>1
        <5>3. begun < frame_header_size + q /\ ~(begun >= frame_header_size)
          BY <2>5, <3>2, <5>1, <5>2, HeaderSize
        <5>4. QED
          BY <3>1, <3>2, <3>3, <5>3
      <4>2. CASE header # <<>>
        <5>1. validate_frame(Arriving) = "none" /\ l = frame_header_size /\ p < q
          BY <2>1, <2>5, <3>2, <4>2 DEF Assembling
        <5>2. begun < frame_header_size + q
          BY <2>5, <2>7, <3>2, <3>3, <5>1, HeaderSize
        <5>3. QED
          BY <3>1, <3>2, <5>1, <5>2
      <4>3. QED
        BY <4>1, <4>2
    <3>4. CASE error # "none"
      <4>1. error = validate_frame(Arriving) /\ u + frame_header_size <= y
        BY <1>1, <2>2, <2>5, <3>4 DEF Position
      <4>2. begun >= frame_header_size
        BY <2>5, <2>6, <4>1, HeaderSize
      <4>3. QED
        BY <3>1, <3>4, <4>1, <4>2
    <3>5. QED
      BY <3>3, <3>4
  <2>11. QED
    BY <2>9, <2>10
<1>2. DecoderInv => NothingWithheld
  BY <1>1 DEF NothingWithheld
<1>3. QED
  BY <1>2, DecoderInvariant, PTL
=============================================================================
