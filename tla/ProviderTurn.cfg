CONSTANTS
    Workers = {w1, w2}
    NoWorker = NoWorker
    MaxConcurrent = 2
    MaxTotalStarts = 2
    MaxDepth = 1
    MaxEvents = 4
SPECIFICATION Spec
INVARIANTS
    PinnedTurnSurvives
    DriftFailsClosed
    LedgerFollowsTheProvider
    EveryMessageIsCommitted
CHECK_DEADLOCK FALSE
