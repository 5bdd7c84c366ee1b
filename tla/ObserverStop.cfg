CONSTANTS
    NoWorker = NoWorker
    Workers = {}
    Cancellers = {c1}
    Closers = {k1}
    Repertoire <- TerseRepertoire
    Descendants = {"holding"}
    QueueMax = 1
    MaxLines = 1
    MaxConcurrent = 1
    MaxTotalStarts = 1
    MaxDepth = 1
SPECIFICATION FairSpec
PROPERTIES
    StopReturns
    AbortConcludes
    DeadRunConcludes
CHECK_DEADLOCK FALSE
