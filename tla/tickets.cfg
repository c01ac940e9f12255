SPECIFICATION Spec
CONSTANTS
    t1 = t1
    t2 = t2
    t3 = t3
    k1 = k1
    k2 = k2
    k3 = k3
    fresh = fresh
    Nobody = Nobody
    Issued <- TwoIssued
    RootOf <- Roots
    ClassOf <- Classes
    Asks = {k1, k2, k3, fresh}
    Calls = {"c1", "c2", "c3"}
    Faults = {"crash", "io"}
CHECK_DEADLOCK FALSE
INVARIANT TypeOK
INVARIANT NoReuse
