\* What the poller keeps, promises and in the end delivers.
SPECIFICATION FairSpec
CONSTANTS
    Device = {d1, d2}
    Type = {war}
    KindOf <- OneKind
    Quiet = {d2}
    MaxNotes = 2
    MaxMails = 1
    SummaryThreshold = 1
    MaxMailPushes = 1
    SleepingEvery = 2
    IdleRecheck = 1
    MaxTokens = 2
    MaxFaults = 1
    MaxActs = 2
    None = None
INVARIANTS
    NotesNotLost
    NoMailTwice
    NoReplay
PROPERTIES
    OwedEnds
CHECK_DEADLOCK FALSE
