SPECIFICATION Spec
CONSTANTS
    Tasks = {t1, t2, t3}
    Keys = {k1}
    TTL = 1
    Horizon = 2
    MaxTime = 3
    Faults = {"crash", "cancel", "db", "clock", "verifier", "provider"}
SYMMETRY Symmetry
CHECK_DEADLOCK FALSE
INVARIANT TypeOK
INVARIANT AtMostOneServed
INVARIANT PaidOnlyBySuccess
PROPERTY OneTime
