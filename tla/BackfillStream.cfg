\* Two tickets and a backfill ticket, in at most five messages of any kind and order.
\* Deadlock is not an error: a stream may end.
CONSTANTS
    t1 = t1
    t2 = t2
    b1 = b1
    Tickets = {t1, t2}
    BackfillTickets = {b1}
    Excluded <- MCExcluded
    RoomForATeam = {b1}
    MaxMessages = 5
SPECIFICATION Spec
INVARIANTS
    TakenInStreamOrder
    KeepersGetOwnResponses
    CompleteAnswer
    CrashIsExplained
PROPERTIES
    BackfillMakerSpec
    StreamEndEndsCall
    LeakNeedsFailedSend
CHECK_DEADLOCK FALSE
