SPECIFICATION FairSpec
CONSTANTS
    Tab = {t1, t2}
    Slots = 3
    MaxChanges = 5
    MaxSeats = 2
    None = None
INVARIANTS
    LeadersHoldTheLock
    NoLockLeaked
    HiddenTabsStandAside
PROPERTIES
    SomeoneLeads
CHECK_DEADLOCK FALSE
