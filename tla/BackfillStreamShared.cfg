\* As in BackfillStream.cfg, without the condition on the order of the messages.
\* Deadlock is not an error: a stream may end.
CONSTANTS
    t1 = t1
    t2 = t2
    b1 = b1
    Tickets = {t1, t2}
    BackfillTickets = {b1}
    Excluded <- MCExcluded
    RoomForATeam = {b1}
    MaxMessages = 5
SPECIFICATION Spec
INVARIANT ResponsesAreTheirOwn
CHECK_DEADLOCK FALSE
