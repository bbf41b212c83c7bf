\* Eight odd identifiers, with the last one the largest value of the integer type.
SPECIFICATION AllocSpec
CONSTANTS
    Initiator = "client"
    Maximum = 15
    Modulus = 16
INVARIANTS
    Partition
    ExhaustedOnlyWhenFull
PROPERTIES
    FreshGrant
