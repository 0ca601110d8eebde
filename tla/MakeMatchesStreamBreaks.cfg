\* A stream that breaks while responses are under way.
CONSTANTS
    IntBound = 64
    Tickets = {t1}
    Documents <- MCWorkable
    Malformed = Malformed
    Missing = Missing
    MaxMessages = 4
SPECIFICATION Spec
PROPERTY BrokenStreamEndsMatching
CHECK_DEADLOCK FALSE
