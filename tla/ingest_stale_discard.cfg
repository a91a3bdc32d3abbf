SPECIFICATION Spec
CONSTANTS
    Tasks = {t1, t2}
    Sessions = {s1}
    Letters = {l1}
    Contents = {c1}
    Models = {m1}
    NULL = NULL
    Pieces = 1
    MaxRetries = 1
    MaxVersion = 2
    MaxOutbox = 1
    MaxMoves = 2
    Faults = {"crash"}
    SlowStages = TRUE
    PromptDispatch = TRUE
INVARIANT ActiveIndexComplete
CHECK_DEADLOCK FALSE
