\* A session of at most three tickets, whose attributes are of every kind. Deadlock is
\* not an error: the session is over when the tickets or the ids are used up.
CONSTANTS
    Nil = Nil
    pair = pair
    single = single
    nobody = nobody
    TicketIDs = {pair, single, nobody}
    Players <- MCPlayers
    Attributes <- MCAttributes
    MaxUUIDs = 5
SPECIFICATION Spec
INVARIANTS
    TypeOK
    AttributesReachTheSession
    EveryPlayerOnOneTeam
    PartiesSplitTheirTeam
PROPERTIES
    ProposalsExtendTheSession
    EnrichIsIdempotent
CHECK_DEADLOCK FALSE
