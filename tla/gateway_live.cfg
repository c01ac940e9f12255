SPECIFICATION FairSpec
CONSTANTS
    Tasks = {t1, t2}
    Keys = {k1}
    TTL = 1
    Horizon = 2
    MaxTime = 4
    Faults = {"crash", "cancel", "db", "verifier", "provider"}
CHECK_DEADLOCK FALSE
INVARIANT FreshHold
INVARIANT ExclusiveProvider
INVARIANT DurableReservation
PROPERTY EveryRequestEnds
PROPERTY NotBricked
