CONSTANTS
    NoWorker = NoWorker
    Workers = {w1}
    Cancellers = {}
    Closers = {}
    Repertoire <- UnrulyRepertoire
    Descendants = {"none"}
    QueueMax = 1
    MaxLines = 2
    MaxConcurrent = 1
    MaxTotalStarts = 1
    MaxDepth = 1
SPECIFICATION Spec
INVARIANTS
    CommittedFailureIsReported
CHECK_DEADLOCK FALSE
