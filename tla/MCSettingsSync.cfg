SPECIFICATION FairSpec
CONSTANTS
    Character = {c1, c2}
    Key = {k1, k2}
    TombstoneTTL = 20
    MaxTime = 9
    SeqWidth = 4
    Chosen = {k1}
    Seeded = {k1}
    Tabs = 1
    None = None
INVARIANT
    TypeOK
PROPERTIES
    PullsOnlyNewer
    SettingsAgree
CHECK_DEADLOCK FALSE
