\* A rule set with a maximum and no minimum.
CONSTANTS
    IntBound = 64
    Tickets = {t1}
    Rules <- MCNoMinimum
    MaxTickets = 2
SPECIFICATION Spec
PROPERTY ClosesWhenExhausted
CHECK_DEADLOCK FALSE
