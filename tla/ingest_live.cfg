SPECIFICATION FairSpec
CONSTANTS
    Tasks = {t1, t2}
    Sessions = {s1, s2}
    Letters = {l1}
    Contents = {c1}
    Models = {m1}
    NULL = NULL
    Pieces = 1
    MaxRetries = 1
    MaxVersion = 6
    MaxOutbox = 4
    MaxMoves = 3
    Faults = {"crash", "error"}
    SlowStages = FALSE
    PromptDispatch = TRUE
PROPERTY EventuallySettles
CHECK_DEADLOCK FALSE
