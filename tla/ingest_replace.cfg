SPECIFICATION Spec
CONSTANTS
    Tasks = {t1, t2}
    Sessions = {s1}
    Letters = {l1}
    Contents = {c1, c2}
    Models = {m1}
    NULL = NULL
    Pieces = 1
    MaxRetries = 1
    MaxVersion = 2
    MaxOutbox = 1
    MaxMoves = 1
    Faults = {}
    SlowStages = FALSE
    PromptDispatch = TRUE
INVARIANT ReadyServesCurrentContent
CHECK_DEADLOCK FALSE
