CONSTANTS
    NoSession = NoSession
    MalformedSession = MalformedSession
    Sessions = {s1}
    FirstEnv <- PollutedShell
    ParentEnvs <- OtherProfile
    Overrides <- TestArguments
    Turns = {t1}
    Closers = {k1}
SPECIFICATION Spec
PROPERTIES
    ZeroReportMeansNoChild
CHECK_DEADLOCK FALSE
