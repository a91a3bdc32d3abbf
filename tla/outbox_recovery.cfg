SPECIFICATION Spec
CONSTANTS
    Events = {e1}
    Recovery = {e1}
    Dispatchers = {d1}
    Admins = {a1}
    NULL = NULL
    BatchSize = 1
    MaxRetries = 2
    MaxMoves = 2
INVARIANT ParkedCanBeReplayed
CHECK_DEADLOCK FALSE
