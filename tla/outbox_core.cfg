SPECIFICATION FairSpec
CONSTANTS
    Events = {e1, e2}
    Recovery = {}
    Dispatchers = {d1, d2}
    Admins = {a1, a2}
    NULL = NULL
    BatchSize = 2
    MaxRetries = 2
    MaxMoves = 5
INVARIANTS TypeOK ParkedHasLetter
PROPERTIES AtLeastOnce EventuallyResolved
CHECK_DEADLOCK FALSE
