CONSTANTS
    NoWorker = NoWorker
    Workers = {}
    Cancellers = {}
    Closers = {k1}
    Repertoire <- TerseRepertoire
    Descendants = {"none"}
    QueueMax = 1
    MaxLines = 1
    MaxConcurrent = 1
    MaxTotalStarts = 1
    MaxDepth = 1
SPECIFICATION Spec
PROPERTIES
    DisownedStaysFailed
CHECK_DEADLOCK FALSE
