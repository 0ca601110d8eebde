\* Two different tickets, four messages. Deadlock is not an error: a call ends.
CONSTANTS
    IntBound = 64
    Tickets = {t1, t2}
    Documents <- MCDocuments
    Malformed = Malformed
    Missing = Missing
    MaxMessages = 4
SPECIFICATION Spec
INVARIANTS
    OrderPreserved
    CompleteAnswer
    ContractKeepersNeverCrash
PROPERTIES
    MatchMakerSpec
    HalfCloseEndsCall
    BrokenStreamEndsOrStrands
CHECK_DEADLOCK FALSE
