\* An excluded ticket and two backfill tickets.
CONSTANTS
    t1 = t1
    t2 = t2
    b1 = b1
    b2 = b2
    Tickets = {t1, t2}
    BackfillTickets = {b1, b2}
    Excluded <- MCExcluded
    RoomForATeam = {b1}
    MaxTickets = 1
    MaxBackfillTickets = 2
SPECIFICATION Spec
INVARIANT NeverPanics
CHECK_DEADLOCK FALSE
