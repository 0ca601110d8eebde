\* Tickets and backfill tickets in any order. Deadlock is not an error: a caller that
\* stops draining leaves the goroutine blocked for good.
CONSTANTS
    t1 = t1
    t2 = t2
    b1 = b1
    b2 = b2
    Tickets = {t1, t2}
    BackfillTickets = {b1, b2}
    Excluded <- MCExcluded
    RoomForATeam = {b1}
    MaxTickets = 3
    MaxBackfillTickets = 3
SPECIFICATION Spec
INVARIANTS
    TypeOK
    TicketAccounting
    PanicNeedsExclusion
    OneProposalEach
    IntactWhenBackfillFirst
PROPERTY ClosesWhenExhausted
CHECK_DEADLOCK FALSE
