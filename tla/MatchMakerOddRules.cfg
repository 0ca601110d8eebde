\* Rule sets that RulesFromJSON accepts and buildMatch was not written for. Deadlock
\* is not an error: a caller that stops draining leaves the goroutine blocked.
CONSTANTS
    IntBound = 8
    Tickets = {t1, t2}
    Rules <- MCOddRules
    MaxTickets = 4
SPECIFICATION Spec
INVARIANT SensibleRulesNeverPanic
CHECK_DEADLOCK FALSE
