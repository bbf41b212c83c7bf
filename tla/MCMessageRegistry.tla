--------------------------- MODULE MCMessageRegistry ---------------------------
EXTENDS MessageRegistry, TLC

CONSTANTS a, b, big, text

\* Two types of one size, one whose encoding exceeds the limit, and one PodCodec does not
\* support.
TestSizes == (a :> 1) @@ (b :> 1) @@ (big :> 2) @@ (text :> 1)

\* Payloads too short for an identifier, of an identifier nobody uses, and of a size that
\* fits no type.
TestRaw == {<<0, 0, 1>>, <<1, 0, 0, 0>>, <<0, 0, 0, 1>>}

Symmetry == Permutations({a, b})
=============================================================================
