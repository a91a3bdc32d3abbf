SPECIFICATION Spec
CONSTANTS
    Tasks = {t1, t2}
    Sessions = {s1}
    Letters = {l1}
    Contents = {c1, c2}
    Models = {m1}
    NULL = NULL
    Pieces = 2
    MaxRetries = 1
    MaxVersion = 2
    MaxOutbox = 1
    MaxMoves = 2
    Faults = {"error", "crash", "timelimit", "publish"}
    SlowStages = TRUE
    PromptDispatch = FALSE
SYMMETRY Symmetry
INVARIANTS TypeOK ServedIndexSingleContent HolderNeverCollides HolderHasTarget RestingHasNoLease
PROPERTIES CancelledStaysOut ActivationServesOwnContent
CHECK_DEADLOCK FALSE
