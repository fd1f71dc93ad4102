SPECIFICATION FairSpec
CONSTANTS
    r1 = r1
    r2 = r2
    r3 = r3
    None = None
    Caller = {r1, r2, r3}
    Limits <- SmallLimits
    Grace = 1
    MaxDelay = 1
    LastCall = 2
INVARIANTS
    LimiterTypeOK
    TwiceTheMaxAtMost
    NobodyIsSlowedEarly
PROPERTIES
    LoginsAreServed
    SweptInTheEnd
CHECK_DEADLOCK FALSE
