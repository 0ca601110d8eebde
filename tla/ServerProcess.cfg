\* Two clients, one call each, from the start of the process to its end. Deadlock is not
\* an error: the process ends.
CONSTANTS
    c1 = c1
    c2 = c2
    Clients = {c1, c2}
    Requests <- MCRequests
SPECIFICATION Spec
INVARIANTS
    
    RefusalsAreExplained
    SilentStopNeedsRace
    CleanExitIsFlushed
PROPERTIES
    SignalEndsProcess
    UnaryCallsAreAnswered
CHECK_DEADLOCK FALSE
