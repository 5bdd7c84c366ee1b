CONSTANTS
    NoWorker = NoWorker
    Workers = {}
    Cancellers = {c1}
    Closers = {k1}
    Repertoire <- SoloRepertoire
    Descendants = {"holding", "detached"}
    QueueMax = 1
    MaxLines = 2
    MaxConcurrent = 1
    MaxTotalStarts = 1
    MaxDepth = 1
SPECIFICATION Spec
INVARIANTS
    TypeOK
    NothingAfterTerminal
    NormalPathNeverKills
    StreamEndIsComplete
    ConcludedRunLeavesNothing
    TidyCancelMeansReaped
PROPERTIES
    ShutdownEndsTheTasks
    StoppedStaysUnknown
    CompletedStands
CHECK_DEADLOCK FALSE
