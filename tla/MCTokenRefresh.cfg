SPECIFICATION FairSpec
CONSTANTS
    Tab = {t1, t2}
    Login = Login
    WebLocks = TRUE
    KillsOld = TRUE
    MaxGrants = 2
    MaxVersion = 3
    MaxActs = 3
    Null = Null
INVARIANTS
    TypeOK
    OnlyDeadGrantsRefused
PROPERTIES
    OnlyCrossingJobsOrphan
    EveryRefreshEnds
CHECK_DEADLOCK FALSE
