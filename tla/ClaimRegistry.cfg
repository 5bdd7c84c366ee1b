CONSTANTS
    NoSession = NoSession
    MalformedSession = MalformedSession
    Sessions = {s1}
    FirstEnv <- PollutedShell
    ParentEnvs <- OtherProfile
    Overrides <- TestArguments
    Turns = {t1}
    Closers = {}
SPECIFICATION Spec
INVARIANTS
    RegistryMeansInFlight
CHECK_DEADLOCK FALSE
