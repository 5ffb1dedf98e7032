SPECIFICATION FairSpec
CONSTANTS
    p1 = p1
    p2 = p2
    t1 = t1
    t2 = t2
    MaxEvents = 4
    MaxTime = 1
    MaxLimit = 2
    Projects = {p1, p2}
    Mine = p1
    Types = {t1, t2}
    Kinds <- KindsOf
    AnyType = AnyType
INVARIANT TypeOK
INVARIANT NothingTwice
INVARIANT NothingMissed
INVARIANT MoreToCome
PROPERTY GoesBack
PROPERTY ListingEnds
CHECK_DEADLOCK FALSE
