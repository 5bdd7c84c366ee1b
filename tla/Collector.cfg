CONSTANTS
    MaxBuild = 2
    ParentEnv <- KeyedShell
SPECIFICATION Spec
INVARIANTS
    EvidenceIsTrue
    TurnsFollowApproval
    TimeoutIsTidy
