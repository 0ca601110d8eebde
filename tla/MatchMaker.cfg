\* Workable rule sets, up to five tickets. Deadlock is not an error: a caller that
\* stops draining leaves the goroutine blocked for good.
CONSTANTS
    IntBound = 64
    Tickets = {t1, t2}
    Rules <- MCWorkableRules
    MaxTickets = 5
SPECIFICATION Spec
INVARIANTS
    TypeOK
    TicketAccounting
    MatchesOfMinimumSize
PROPERTIES
    ContractSpec
    ClosesWhenExhausted
    CancelEndsDrainedCall
CHECK_DEADLOCK FALSE
