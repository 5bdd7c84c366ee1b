CONSTANTS
    NoWorker = NoWorker
    Workers = {w1, w2}
    Cancellers = {c1}
    Closers = {}
    Repertoire <- TeamRepertoire
    Descendants = {"none"}
    QueueMax = 1
    MaxLines = 4
    MaxConcurrent = 1
    MaxTotalStarts = 2
    MaxDepth = 1
SPECIFICATION Spec
SYMMETRY WorkerSymmetry
INVARIANTS
    BudgetHeld
    NoCompletionOverLiveWorker
    LiveWorkerIsNamed
PROPERTIES
    ImplementsTurn
CHECK_DEADLOCK FALSE
