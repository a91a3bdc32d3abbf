SPECIFICATION Spec
CONSTANTS
    Tasks = {t1}
    Sessions = {s1}
    Letters = {l1}
    Contents = {c1}
    Models = {m1, m2}
    NULL = NULL
    Pieces = 2
    MaxRetries = 1
    MaxVersion = 2
    MaxOutbox = 1
    MaxMoves = 2
    Faults = {"crash"}
    SlowStages = FALSE
    PromptDispatch = TRUE
INVARIANT ServedIndexSingleModel
CHECK_DEADLOCK FALSE
