\* Every rule set with numbers in -1 .. 3; ints are -8 .. 7.
CONSTANTS
    IntBound = 8
    Documents <- MCDocuments
    Malformed = Malformed
SPECIFICATION Spec
INVARIANTS
    BoundsOrdered
    UnworkableOnlyWithoutMinimum
