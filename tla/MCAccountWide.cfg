SPECIFICATION Spec
CONSTANTS
    c1 = c1
    c2 = c2
    t1 = t1
    k1 = k1
    Character = {c1, c2}
    Tab = {t1}
    Key = {k1}
    Shared = {k1}
    TombstoneTTL = 1
    MaxTime = 3
    MaxUpsets = 1
    None = None
INVARIANT
    StampsAreTheUsers
PROPERTY
    LastReadActWins
SYMMETRY Alike
