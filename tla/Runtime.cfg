CONSTANTS
    NoSession = NoSession
    MalformedSession = MalformedSession
    Sessions = {s1, s2}
    FirstEnv <- PollutedShell
    ParentEnvs <- OtherProfile
    Overrides <- TestArguments
    Turns = {t1, t2}
    Closers = {k1}
SPECIFICATION FairSpec
INVARIANTS
    TypeOK
    RegistryIsExact
    OneLaunchPerSession
    JournalTellsWhatRan
    SameEnvironment
    SubscriptionOnly
    ChildRunsGuarded
    ReportBoundsTheResidue
PROPERTIES
    NoLaunchAfterRefusal
    CloseReturns
CHECK_DEADLOCK FALSE
