CONSTANTS
    NoWorker = NoWorker
    Workers = {}
    Cancellers = {c1}
    Closers = {}
    Repertoire <- TerseRepertoire
    Descendants = {"holding"}
    QueueMax = 1
    MaxLines = 1
    MaxConcurrent = 1
    MaxTotalStarts = 1
    MaxDepth = 1
SPECIFICATION Spec
INVARIANTS
    NonzeroKillerIsUnknown
CHECK_DEADLOCK FALSE
